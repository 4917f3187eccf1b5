-------------------------- MODULE TranslationProofs ---------------------------
(***************************************************************************)
(* Theorems about RequestTranslation for every number of calls, tools and  *)
(* parts, and conversations of any length.                                 *)
(*                                                                         *)
(* The invariant says of the messages that prepareRequest makes that they  *)
(* alternate and answer their calls (Good), begin and end with the roles   *)
(* of the messages given (SameEnds) and tell the same parts (Faithful).    *)
(* What an operator makes of a conversation is a fold over it, so each     *)
(* gets its laws first: its base, and what one element more does.          *)
(***************************************************************************)
EXTENDS RequestTranslation, FoldTheorems, FiniteSetTheorems

Roles == {"user", "assistant"}
Sources == {"responses", "neutral"}
Blocks == {Text} \cup {[kind |-> "call", id |-> c, name |-> n] : c \in Calls, n \in WireNames}
                 \cup {ToolResult(c) : c \in Calls}
MessagesOf(B) == [role : Roles, content : Seq(B)]
GivenParts == [role : Roles \cup {"system"}, part : Parts]
PStates == [refused : BOOLEAN, names : SUBSET Tools, messages : Seq(MessagesOf(Blocks)),
            pending : SUBSET Calls, calls : SUBSET Calls, blocks : Seq(Blocks),
            ordinary : BOOLEAN]
Conversations ==
  [source : Sources, wire : [Tools -> WireNames], declared : SUBSET Tools,
   messages : Seq(MessagesOf(Parts)), pending : SUBSET Calls, calls : SUBSET Calls,
   assistantSeen : BOOLEAN, given : Seq(GivenParts)]

(* The results in message m are of calls, but for those that are open.     *)
Answers(calls, m, open) ==
  LET results == Of(m, "result")
  IN /\ Ids(results) \cup open = Ids(calls)
     /\ Len(results) + Cardinality(open) = Len(calls)
     /\ IsPrefix(results, m.content)
     /\ open # {} => results = m.content
CallsBefore(M, i) == IF i = 1 THEN <<>> ELSE Of(M[i - 1], "call")
Waiting(M, pending, i) == IF i = Len(M) THEN pending ELSE {}
Good(M, pending) ==
  /\ IsFiniteSet(pending)
  /\ \A i \in DOMAIN M : i > 1 => M[i].role # M[i - 1].role
  /\ \A i \in DOMAIN M :
       M[i].role = "user" => Answers(CallsBefore(M, i), M[i], Waiting(M, pending, i))
  /\ M = <<>> => pending = {}
  /\ BackRole(M) = "assistant" =>
       /\ pending = Ids(Of(Last(M), "call"))
       /\ Cardinality(pending) = Len(Of(Last(M), "call"))

SameEnds(M, N) ==
  /\ (M = <<>>) = (N = <<>>)
  /\ BackRole(M) = BackRole(N)
  /\ N # <<>> => M[1].role = N[1].role
Fine(wire, p) ==
  /\ Good(p.messages, p.pending)
  /\ p.pending \subseteq p.calls
  /\ p.ordinary => p.pending = {} /\ BackRole(p.messages) = "user"
  /\ \A s, t \in p.names : wire[s] = wire[t] => s = t
Distinct(wire) == \A s, t \in Tools : wire[s] = wire[t] => s = t
Faithful(c) ==
  LET p == PrepareMessages(c)
  IN ~p.refused => /\ Fine(c.wire, p) /\ c.declared \subseteq p.names
                   /\ SameEnds(p.messages, c.messages)
                   /\ Sent(p.messages) = AsGiven(c)
Accepted(c) ==
  LET p == PrepareMessages(c)
  IN c.source = "responses" /\ Distinct(c.wire) =>
       ~p.refused /\ p.pending = c.pending /\ p.calls = c.calls
Instructions(c) ==
  \A j \in DOMAIN c.given :
    /\ c.given[j].role = "system" =>
         c.source = "responses" /\ \A i \in 1 .. j : c.given[i].role # "assistant"
    /\ c.given[j].role = "assistant" /\ c.source = "responses" => c.assistantSeen
TranslationInv(c) ==
  c \in Conversations /\ c.pending \subseteq c.calls /\ Faithful(c) /\ Accepted(c) /\ Instructions(c)

-----------------------------------------------------------------------------
(* Types *)

(* What a part of each kind is.                                            *)
LEMMA PartKinds ==
  ASSUME NEW part \in Parts
  PROVE  /\ part.kind \in {"text", "call", "result"}
         /\ part.kind = "text" => part = Text
         /\ part.kind = "call" => /\ part.id \in Calls /\ part.tool \in Tools
                                  /\ part = ToolCall(part.id, part.tool)
         /\ part.kind = "result" => part.id \in Calls /\ part = ToolResult(part.id)
  BY DEF Parts, Text, ToolCall, ToolResult

(* What a block of each kind is.                                           *)
LEMMA BlockKinds ==
  ASSUME NEW b \in Blocks
  PROVE  /\ b.kind \in {"text", "call", "result"}
         /\ b.kind # "text" => b.id \in Calls
  BY DEF Blocks, Text, ToolResult

(* The block that stands for a part.                                       *)
LEMMA AsBlockType ==
  ASSUME NEW wire \in [Tools -> WireNames], NEW part \in Parts
  PROVE  AsBlock(wire, part) \in Blocks /\ AsBlock(wire, part).kind = part.kind
  BY PartKinds DEF AsBlock, Blocks, Text, ToolResult

(* A condition that does not hold refuses, and changes nothing else.       *)
SameButRefused(p, q, refused) ==
  /\ q \in PStates /\ q.refused = refused
  /\ q.names = p.names /\ q.messages = p.messages /\ q.pending = p.pending
  /\ q.calls = p.calls /\ q.blocks = p.blocks /\ q.ordinary = p.ordinary
LEMMA RequireType ==
  ASSUME NEW p \in PStates, NEW condition \in BOOLEAN
  PROVE  SameButRefused(p, Require(condition, p), p.refused \/ ~condition)
  BY DEF Require, PStates, SameButRefused

(* The encoding of a name keeps the type.                                  *)
LEMMA EncodeType ==
  ASSUME NEW wire, NEW p \in PStates, NEW tool \in Tools
  PROVE  /\ EncodeName(wire, p, tool) \in PStates
         /\ EncodeName(wire, p, tool).names = p.names \cup {tool}
         /\ \A x \in {"messages", "pending", "calls", "blocks", "ordinary"} :
              EncodeName(wire, p, tool)[x] = p[x]
         /\ ~EncodeName(wire, p, tool).refused =>
              ~p.refused /\ \A other \in p.names \ {tool} : wire[other] # wire[tool]
         /\ ~p.refused /\ (\A other \in p.names \ {tool} : wire[other] # wire[tool]) =>
              ~EncodeName(wire, p, tool).refused
  BY DEF EncodeName, Require, PStates

(* What reading a part does to a state that is not refused.                *)
PartRead(wire, p, role, part, q) ==
  /\ q \in PStates
  /\ q.messages = p.messages
  /\ q.blocks = Append(p.blocks, AsBlock(wire, part))
  /\ q.ordinary = (p.ordinary \/ (part.kind = "text" /\ role = "user"))
  /\ part.kind = "text" =>
       /\ q.names = p.names /\ q.pending = p.pending /\ q.calls = p.calls
       /\ q.refused = ~(role = "user" => p.pending = {})
  /\ part.kind = "call" =>
       /\ q.names = p.names \cup {part.tool}
       /\ q.pending = p.pending \cup {part.id} /\ q.calls = p.calls \cup {part.id}
       /\ q.refused = ~(/\ role = "assistant" /\ part.id \notin p.calls
                        /\ \A other \in p.names \ {part.tool} : wire[other] # wire[part.tool])
  /\ part.kind = "result" =>
       /\ q.names = p.names /\ q.pending = p.pending \ {part.id} /\ q.calls = p.calls
       /\ q.refused = ~(role = "user" /\ ~p.ordinary /\ part.id \in p.pending)
LEMMA ReadsPart ==
  ASSUME NEW wire \in [Tools -> WireNames], NEW p \in PStates, ~p.refused,
         NEW role \in Roles, NEW part \in Parts
  PROVE  PartRead(wire, p, role, part, PreparePart(wire, p, role, part))
<1> DEFINE q == PreparePart(wire, p, role, part)
<1> SUFFICES PartRead(wire, p, role, part, q)
  OBVIOUS
<1>0. AsBlock(wire, part) \in Blocks
  BY AsBlockType
<1>1. Append(p.blocks, AsBlock(wire, part)) \in Seq(Blocks)
  BY <1>0, AppendProperties DEF PStates
<1>2. CASE part.kind = "text"
  <2>1. part = Text /\ AsBlock(wire, part) = Text
    BY <1>2, PartKinds DEF AsBlock
  <2> DEFINE x == [p EXCEPT !.ordinary = p.ordinary \/ role = "user",
                            !.blocks = Append(p.blocks, Text)]
             ok == role = "user" => p.pending = {}
  <2>2. q = Require(ok, x)
    BY <1>2 DEF PreparePart, PrepareText, Block, PStates
  <2>3. /\ x \in PStates /\ x.refused = FALSE /\ x.names = p.names
        /\ x.messages = p.messages /\ x.pending = p.pending /\ x.calls = p.calls
        /\ x.blocks = Append(p.blocks, Text) /\ x.ordinary = (p.ordinary \/ role = "user")
    BY <1>1, <2>1 DEF PStates
  <2> HIDE DEF q, x
  <2>4. SameButRefused(x, q, x.refused \/ ~ok)
    <3>1. ok \in BOOLEAN
      OBVIOUS
    <3> HIDE DEF ok
    <3> QED BY <3>1, <2>2, <2>3, RequireType
  <2> QED BY <1>2, <2>1, <2>3, <2>4 DEF PartRead, SameButRefused
<1>3. CASE part.kind = "call"
  <2> DEFINE p1 == [p EXCEPT !.calls = p.calls \cup {part.id},
                             !.pending = p.pending \cup {part.id}]
             p2 == EncodeName(wire, p1, part.tool)
             b == [kind |-> "call", id |-> part.id, name |-> wire[part.tool]]
  <2>1. part.id \in Calls /\ part.tool \in Tools /\ AsBlock(wire, part) = b
    BY <1>3, PartKinds DEF AsBlock
  <2>2. p1 \in PStates
    BY <2>1 DEF PStates
  <2>3. /\ p1.names = p.names /\ p1.messages = p.messages /\ p1.blocks = p.blocks
        /\ p1.ordinary = p.ordinary /\ p1.refused = FALSE
        /\ p1.calls = p.calls \cup {part.id} /\ p1.pending = p.pending \cup {part.id}
    BY DEF PStates
  <2>4. q = Require(role = "assistant" /\ part.id \notin p.calls,
                    [p2 EXCEPT !.blocks = Append(p2.blocks, b)])
    BY <1>3 DEF PreparePart, PrepareCall, Block
  <2> HIDE DEF p1
  <2>5. /\ p2 \in PStates /\ p2.names = p.names \cup {part.tool}
        /\ p2.messages = p.messages /\ p2.blocks = p.blocks /\ p2.ordinary = p.ordinary
        /\ p2.calls = p.calls \cup {part.id} /\ p2.pending = p.pending \cup {part.id}
        /\ p2.refused = ~(\A other \in p.names \ {part.tool} : wire[other] # wire[part.tool])
    BY <2>1, <2>2, <2>3 DEF EncodeName, Require, PStates
  <2> DEFINE x == [p2 EXCEPT !.blocks = Append(p2.blocks, b)]
             ok == role = "assistant" /\ part.id \notin p.calls
  <2>6. q = Require(ok, x)
    BY <2>4
  <2> HIDE DEF p2, q, b
  <2>7. /\ x \in PStates /\ x.refused = p2.refused /\ x.names = p2.names
        /\ x.messages = p2.messages /\ x.pending = p2.pending /\ x.calls = p2.calls
        /\ x.blocks = Append(p2.blocks, b) /\ x.ordinary = p2.ordinary
    BY <1>1, <2>1, <2>5 DEF PStates
  <2> HIDE DEF x
  <2>8. SameButRefused(x, q, x.refused \/ ~ok)
    <3>1. ok \in BOOLEAN
      OBVIOUS
    <3> HIDE DEF ok
    <3> QED BY <3>1, <2>6, <2>7, RequireType
  <2>9. q.refused = ~(/\ role = "assistant" /\ part.id \notin p.calls
                      /\ \A other \in p.names \ {part.tool} : wire[other] # wire[part.tool])
    BY <2>5, <2>7, <2>8, Zenon DEF SameButRefused
  <2>10. /\ q \in PStates /\ q.messages = p.messages /\ q.blocks = Append(p.blocks, b)
         /\ q.ordinary = p.ordinary /\ q.names = p.names \cup {part.tool}
         /\ q.pending = p.pending \cup {part.id} /\ q.calls = p.calls \cup {part.id}
    BY <2>5, <2>7, <2>8 DEF SameButRefused
  <2>11. q.ordinary = (p.ordinary \/ (part.kind = "text" /\ role = "user"))
    BY <1>3, <2>10 DEF PStates
  <2> QED BY <1>3, <2>1, <2>9, <2>10, <2>11 DEF PartRead
<1>4. CASE part.kind = "result"
  <2>1. part.id \in Calls /\ AsBlock(wire, part) = part
    BY <1>4, PartKinds DEF AsBlock
  <2> DEFINE x == [p EXCEPT !.pending = p.pending \ {part.id},
                            !.blocks = Append(p.blocks, part)]
             ok == role = "user" /\ ~p.ordinary /\ part.id \in p.pending
  <2>2. q = Require(ok, x)
    BY <1>4 DEF PreparePart, PrepareResult, Block, PStates
  <2>3. /\ x \in PStates /\ x.refused = FALSE /\ x.names = p.names
        /\ x.messages = p.messages /\ x.pending = p.pending \ {part.id}
        /\ x.calls = p.calls /\ x.blocks = Append(p.blocks, part)
        /\ x.ordinary = p.ordinary
    BY <1>1, <2>1 DEF PStates
  <2> HIDE DEF q, x
  <2>4. SameButRefused(x, q, x.refused \/ ~ok)
    <3>1. ok \in BOOLEAN
      OBVIOUS
    <3> HIDE DEF ok
    <3> QED BY <3>1, <2>2, <2>3, RequireType
  <2>5. q.refused = ~ok
    BY <2>3, <2>4, Zenon DEF SameButRefused
  <2>6. /\ q \in PStates /\ q.messages = p.messages /\ q.blocks = Append(p.blocks, part)
        /\ q.ordinary = p.ordinary /\ q.names = p.names
        /\ q.pending = p.pending \ {part.id} /\ q.calls = p.calls
    BY <2>3, <2>4 DEF SameButRefused
  <2>7. q.ordinary = (p.ordinary \/ (part.kind = "text" /\ role = "user"))
    BY <1>4, <2>6 DEF PStates
  <2> QED BY <1>4, <2>1, <2>5, <2>6, <2>7 DEF PartRead
<1> QED BY <1>2, <1>3, <1>4, PartKinds

LEMMA PartType ==
  ASSUME NEW wire \in [Tools -> WireNames], NEW p \in PStates, NEW role \in Roles,
         NEW part \in Parts
  PROVE  /\ PreparePart(wire, p, role, part) \in PStates
         /\ p.refused => PreparePart(wire, p, role, part) = p
<1>1. p.refused => PreparePart(wire, p, role, part) = p
  BY DEF PreparePart
<1>2. ~p.refused => PreparePart(wire, p, role, part) \in PStates
  BY ReadsPart DEF PartRead
<1> QED BY <1>1, <1>2

-----------------------------------------------------------------------------
(* The folds, by steps that are functions *)

Chose(B, kind) ==
  [q \in Seq(B) \X B |-> IF q[2].kind = kind THEN Append(q[1], q[2]) ELSE q[1]]
Joins(B) == [q \in Seq(B) \X MessagesOf(B) |-> q[1] \o q[2].content]
Gives(wire) ==
  [q \in Seq(Blocks) \X GivenParts |->
     IF q[2].role = "system" THEN q[1] ELSE Append(q[1], AsBlock(wire, q[2].part))]
Encoding(wire) == [q \in PStates \X Tools |-> EncodeName(wire, q[1], q[2])]
Reads(wire, role) == [q \in PStates \X Parts |-> PreparePart(wire, q[1], role, q[2])]
Prepares(wire) == [q \in PStates \X MessagesOf(Parts) |-> PrepareMessage(wire, q[1], q[2])]

LEMMA ChoseType == ASSUME NEW B, NEW kind PROVE Chose(B, kind) \in FoldSteps(Seq(B), B)
<1>1. \A s \in Seq(B), b \in B : Append(s, b) \in Seq(B)
  BY AppendProperties
<1> QED BY <1>1 DEF Chose, FoldSteps

(* What is chosen of a message's content.                                  *)
LEMMA OfFolded ==
  ASSUME NEW B, NEW m \in MessagesOf(B), NEW kind
  PROVE  Of(m, kind) = Folded(Chose(B, kind), <<>>, m.content)
<1> DEFINE seq == m.content
           Chosen(h) == h = [s \in SUBSET DOMAIN seq |->
                               IF s = {} THEN <<>> ELSE 
                                 IF seq[Max(s)].kind = kind
                                 THEN Append(h[s \ {Max(s)}], seq[Max(s)]) ELSE h[s \ {Max(s)}]]
           C == CHOOSE h : Chosen(h)
<1>1. <<>> \in Seq(B) /\ seq \in Seq(B)
  BY EmptySeq DEF MessagesOf
<1>2. \A s \in SUBSET DOMAIN seq : s # {} => seq[Max(s)] \in B
  BY <1>1, SequenceMax
<1>3. Of(m, kind) = C[DOMAIN seq]
  BY DEF Of, FoldLeft, MapThenFoldSet
<1> HIDE DEF seq
<1>4. Chose(B, kind) \in FoldSteps(Seq(B), B)
  BY ChoseType
<1>5. PICK g \in [SUBSET DOMAIN seq -> Seq(B)] : Solves(g, Chose(B, kind), <<>>, seq)
  BY <1>1, <1>4, SolutionExists
<1>6. Chosen(g)
  BY <1>1, <1>2, <1>5 DEF Solves, Chose
<1>7. Chosen(C)
  BY <1>6
<1> HIDE DEF C
<1>8. ASSUME NEW s \in SUBSET DOMAIN seq, s # {}, C[s \ {Max(s)}] \in Seq(B)
      PROVE  C[s] = Chose(B, kind)[<<C[s \ {Max(s)}], seq[Max(s)]>>]
  BY <1>2, <1>7, <1>8 DEF Chose
<1>9. FoldsLike(C, Seq(B), Chose(B, kind), <<>>, seq)
  BY <1>7, <1>8 DEF FoldsLike
<1>10. Folded(Chose(B, kind), <<>>, seq) = C[DOMAIN seq]
  <2> DEFINE op == Chose(B, kind)
             base == <<>>
             S == Seq(B)
             E == B
  <2>1. op \in FoldSteps(S, E) /\ base \in S /\ seq \in Seq(E) /\ FoldsLike(C, S, op, base, seq)
    BY <1>1, <1>4, <1>9
  <2> HIDE DEF op, base, S, E
  <2>2. Folded(op, base, seq) = C[DOMAIN seq]
    BY <2>1, FoldedIsFold
  <2> QED BY <2>2 DEF op, base
<1> QED BY <1>3, <1>10 DEF seq

LEMMA JoinsType == ASSUME NEW B PROVE Joins(B) \in FoldSteps(Seq(B), MessagesOf(B))
<1>1. \A s, t \in Seq(B) : s \o t \in Seq(B)
  BY ConcatProperties
<1> QED BY <1>1 DEF Joins, FoldSteps, MessagesOf

(* What the messages hold together.                                        *)
LEMMA SentFolded ==
  ASSUME NEW B, NEW M \in Seq(MessagesOf(B))
  PROVE  Sent(M) = Folded(Joins(B), <<>>, M)
<1> DEFINE seq == M
           Chosen(h) == h = [s \in SUBSET DOMAIN seq |->
                               IF s = {} THEN <<>> ELSE 
                                 h[s \ {Max(s)}] \o seq[Max(s)].content]
           C == CHOOSE h : Chosen(h)
<1>1. <<>> \in Seq(B) /\ seq \in Seq(MessagesOf(B))
  BY EmptySeq
<1>2. \A s \in SUBSET DOMAIN seq : s # {} => seq[Max(s)] \in MessagesOf(B)
  BY <1>1, SequenceMax
<1>3. Sent(M) = C[DOMAIN seq]
  BY DEF Sent, FoldLeft, MapThenFoldSet
<1> HIDE DEF seq
<1>4. Joins(B) \in FoldSteps(Seq(B), MessagesOf(B))
  BY JoinsType
<1>5. PICK g \in [SUBSET DOMAIN seq -> Seq(B)] : Solves(g, Joins(B), <<>>, seq)
  BY <1>1, <1>4, SolutionExists
<1>6. Chosen(g)
  BY <1>1, <1>2, <1>5 DEF Solves, Joins
<1>7. Chosen(C)
  BY <1>6
<1> HIDE DEF C
<1>8. ASSUME NEW s \in SUBSET DOMAIN seq, s # {}, C[s \ {Max(s)}] \in Seq(B)
      PROVE  C[s] = Joins(B)[<<C[s \ {Max(s)}], seq[Max(s)]>>]
  BY <1>2, <1>7, <1>8 DEF Joins
<1>9. FoldsLike(C, Seq(B), Joins(B), <<>>, seq)
  BY <1>7, <1>8 DEF FoldsLike
<1>10. Folded(Joins(B), <<>>, seq) = C[DOMAIN seq]
  <2> DEFINE op == Joins(B)
             base == <<>>
             S == Seq(B)
             E == MessagesOf(B)
  <2>1. op \in FoldSteps(S, E) /\ base \in S /\ seq \in Seq(E) /\ FoldsLike(C, S, op, base, seq)
    BY <1>1, <1>4, <1>9
  <2> HIDE DEF op, base, S, E
  <2>2. Folded(op, base, seq) = C[DOMAIN seq]
    BY <2>1, FoldedIsFold
  <2> QED BY <2>2 DEF op, base
<1> QED BY <1>3, <1>10 DEF seq

LEMMA GivesType ==
  ASSUME NEW wire \in [Tools -> WireNames] PROVE Gives(wire) \in FoldSteps(Seq(Blocks), GivenParts)
<1>1. \A s \in Seq(Blocks), b \in Blocks : Append(s, b) \in Seq(Blocks)
  BY AppendProperties
<1>2. \A g \in GivenParts : AsBlock(wire, g.part) \in Blocks
  BY AsBlockType DEF GivenParts
<1> QED BY <1>1, <1>2 DEF Gives, FoldSteps

(* What was given, in the blocks that stand for it.                        *)
LEMMA GivenFolded ==
  ASSUME NEW c \in Conversations
  PROVE  AsGiven(c) = Folded(Gives(c.wire), <<>>, c.given)
<1> DEFINE seq == c.given
           Chosen(h) == h = [s \in SUBSET DOMAIN seq |->
                               IF s = {} THEN <<>> ELSE 
                                 IF seq[Max(s)].role = "system"
                                 THEN h[s \ {Max(s)}]
                                 ELSE Append(h[s \ {Max(s)}], AsBlock(c.wire, seq[Max(s)].part))]
           C == CHOOSE h : Chosen(h)
<1>1. <<>> \in Seq(Blocks) /\ seq \in Seq(GivenParts)
  BY EmptySeq DEF Conversations
<1>2. \A s \in SUBSET DOMAIN seq : s # {} => seq[Max(s)] \in GivenParts
  BY <1>1, SequenceMax
<1>3. AsGiven(c) = C[DOMAIN seq]
  BY DEF AsGiven, FoldLeft, MapThenFoldSet
<1> HIDE DEF seq
<1>4. Gives(c.wire) \in FoldSteps(Seq(Blocks), GivenParts)
  BY GivesType DEF Conversations
<1>5. PICK g \in [SUBSET DOMAIN seq -> Seq(Blocks)] : Solves(g, Gives(c.wire), <<>>, seq)
  BY <1>1, <1>4, SolutionExists
<1>6. Chosen(g)
  BY <1>1, <1>2, <1>5 DEF Solves, Gives
<1>7. Chosen(C)
  BY <1>6
<1> HIDE DEF C
<1>8. ASSUME NEW s \in SUBSET DOMAIN seq, s # {}, C[s \ {Max(s)}] \in Seq(Blocks)
      PROVE  C[s] = Gives(c.wire)[<<C[s \ {Max(s)}], seq[Max(s)]>>]
  BY <1>2, <1>7, <1>8 DEF Gives
<1>9. FoldsLike(C, Seq(Blocks), Gives(c.wire), <<>>, seq)
  BY <1>7, <1>8 DEF FoldsLike
<1>10. Folded(Gives(c.wire), <<>>, seq) = C[DOMAIN seq]
  <2> DEFINE op == Gives(c.wire)
             base == <<>>
             S == Seq(Blocks)
             E == GivenParts
  <2>1. op \in FoldSteps(S, E) /\ base \in S /\ seq \in Seq(E) /\ FoldsLike(C, S, op, base, seq)
    BY <1>1, <1>4, <1>9
  <2> HIDE DEF op, base, S, E
  <2>2. Folded(op, base, seq) = C[DOMAIN seq]
    BY <2>1, FoldedIsFold
  <2> QED BY <2>2 DEF op, base
<1> QED BY <1>3, <1>10 DEF seq

-----------------------------------------------------------------------------
(* What the observations of a conversation do, one block at a time *)

Longer(m, b) == [m EXCEPT !.content = Append(m.content, b)]
LEMMA LongerType ==
  ASSUME NEW B, NEW m \in MessagesOf(B), NEW b \in B
  PROVE  /\ Longer(m, b) \in MessagesOf(B) /\ Longer(m, b).role = m.role
         /\ Longer(m, b).content = Append(m.content, b)
  BY AppendProperties DEF MessagesOf, Longer

LEMMA OfLaws ==
  ASSUME NEW B, NEW kind
  PROVE  /\ \A role \in Roles : Of([role |-> role, content |-> <<>>], kind) = <<>>
         /\ \A m \in MessagesOf(B) : Of(m, kind) \in Seq(B)
         /\ \A m \in MessagesOf(B), b \in B :
              /\ b.kind = kind => Of(Longer(m, b), kind) = Append(Of(m, kind), b)
              /\ b.kind # kind => Of(Longer(m, b), kind) = Of(m, kind)
<1> DEFINE op == Chose(B, kind)
           base == <<>>
           S == Seq(B)
<1>1. op \in FoldSteps(S, B) /\ base \in S
  BY ChoseType, EmptySeq
<1>2. \A s \in S, b \in B : op[<<s, b>>] = IF b.kind = kind THEN Append(s, b) ELSE s
  BY DEF Chose
<1>3. \A m \in MessagesOf(B) : Of(m, kind) = Folded(op, base, m.content)
  BY OfFolded
<1>4. \A role \in Roles : [role |-> role, content |-> <<>>] \in MessagesOf(B)
  BY EmptySeq DEF MessagesOf
<1>5. \A m \in MessagesOf(B) : m.content \in Seq(B)
  BY DEF MessagesOf
<1>6. \A m \in MessagesOf(B), b \in B :
        LET m2 == Longer(m, b)
        IN m2 \in MessagesOf(B) /\ m2.content = Append(m.content, b)
  BY LongerType
<1> HIDE DEF op, S
<1>7. /\ Folded(op, base, <<>>) = base
      /\ \A seq \in Seq(B) : Folded(op, base, seq) \in S
      /\ \A seq \in Seq(B), e \in B :
           Folded(op, base, Append(seq, e)) = op[<<Folded(op, base, seq), e>>]
  <2> HIDE DEF base
  <2> QED BY <1>1, FoldedLaws
<1>8. \A role \in Roles : Of([role |-> role, content |-> <<>>], kind) = <<>>
  BY <1>3, <1>4, <1>7
<1>9. \A m \in MessagesOf(B) : Of(m, kind) \in Seq(B)
  BY <1>3, <1>5, <1>7 DEF S
<1>10. ASSUME NEW m \in MessagesOf(B), NEW b \in B
       PROVE  Of(Longer(m, b), kind) =
                IF b.kind = kind THEN Append(Of(m, kind), b) ELSE Of(m, kind)
  <2> DEFINE m2 == Longer(m, b)
  <2>1. m2 \in MessagesOf(B) /\ m2.content = Append(m.content, b)
    BY <1>6
  <2>2. Of(m2, kind) = Folded(op, base, Append(m.content, b))
    <3> HIDE DEF m2
    <3> QED BY <2>1, <1>3
  <2>3. Of(m2, kind) = op[<<Folded(op, base, m.content), b>>]
    BY <2>2, <1>5, <1>7
  <2> QED BY <2>3, <1>2, <1>3, <1>5, <1>7
<1> QED BY <1>8, <1>9, <1>10

LEMMA OfNothing ==
  ASSUME NEW role \in Roles, NEW kind
  PROVE  Of([role |-> role, content |-> <<>>], kind) = <<>>
  BY OfLaws, Zenon

LEMMA OfLonger ==
  ASSUME NEW B, NEW kind, NEW m \in MessagesOf(B), NEW b \in B
  PROVE  /\ Of(m, kind) \in Seq(B)
         /\ b.kind = kind => Of(Longer(m, b), kind) = Append(Of(m, kind), b)
         /\ b.kind # kind => Of(Longer(m, b), kind) = Of(m, kind)
<1>1. Of(m, kind) \in Seq(B)
  BY OfLaws, Zenon
<1>2. \A k \in MessagesOf(B), e \in B :
        /\ e.kind = kind => Of(Longer(k, e), kind) = Append(Of(k, kind), e)
        /\ e.kind # kind => Of(Longer(k, e), kind) = Of(k, kind)
  BY OfLaws, Zenon
<1> QED BY <1>1, <1>2

LEMMA SentLaws ==
  ASSUME NEW B
  PROVE  /\ Sent(<<>>) = <<>>
         /\ \A M \in Seq(MessagesOf(B)) : Sent(M) \in Seq(B)
         /\ \A M \in Seq(MessagesOf(B)), m \in MessagesOf(B) :
              Sent(Append(M, m)) = Sent(M) \o m.content
<1> DEFINE op == Joins(B)
           base == <<>>
           S == Seq(B)
           E == MessagesOf(B)
<1>1. op \in FoldSteps(S, E) /\ base \in S
  BY JoinsType, EmptySeq
<1>2. \A s \in S, e \in E : op[<<s, e>>] = s \o e.content
  BY DEF Joins
<1>3. \A M \in Seq(E) : Sent(M) = Folded(op, base, M)
  BY SentFolded
<1> HIDE DEF op, S, E
<1>4. /\ Folded(op, base, <<>>) = base
      /\ \A seq \in Seq(E) : Folded(op, base, seq) \in S
      /\ \A seq \in Seq(E), e \in E :
           Folded(op, base, Append(seq, e)) = op[<<Folded(op, base, seq), e>>]
  <2> HIDE DEF base
  <2> QED BY <1>1, FoldedLaws
<1>5. Sent(<<>>) = <<>>
  BY <1>3, <1>4, EmptySeq
<1>6. \A M \in Seq(E) : Sent(M) \in S
  BY <1>3, <1>4
<1>7. \A M \in Seq(E), m \in E : Sent(Append(M, m)) = Sent(M) \o m.content
  <2>1. \A M \in Seq(E), m \in E : Append(M, m) \in Seq(E)
    BY AppendProperties
  <2>2. ASSUME NEW M \in Seq(E), NEW m \in E
        PROVE  Sent(Append(M, m)) = op[<<Sent(M), m>>] /\ Sent(M) \in S
    BY <2>1, <1>3, <1>4
  <2> QED BY <2>2, <1>2
<1> QED BY <1>5, <1>6, <1>7 DEF S, E

LEMMA GivenLaws ==
  ASSUME NEW c \in Conversations, NEW d \in Conversations, NEW g \in GivenParts,
         d.wire = c.wire
  PROVE  /\ AsGiven(c) \in Seq(Blocks)
         /\ c.given = <<>> => AsGiven(c) = <<>>
         /\ d.given = c.given => AsGiven(d) = AsGiven(c)
         /\ d.given = Append(c.given, g) =>
              AsGiven(d) = IF g.role = "system" THEN AsGiven(c)
                           ELSE Append(AsGiven(c), AsBlock(c.wire, g.part))
<1> DEFINE op == Gives(c.wire)
           base == <<>>
           S == Seq(Blocks)
<1>1. op \in FoldSteps(S, GivenParts) /\ base \in S
  BY GivesType, EmptySeq DEF Conversations
<1>2. \A s \in S, e \in GivenParts :
        op[<<s, e>>] = IF e.role = "system" THEN s ELSE Append(s, AsBlock(c.wire, e.part))
  BY DEF Gives
<1>3. AsGiven(c) = Folded(op, base, c.given) /\ AsGiven(d) = Folded(op, base, d.given)
  BY GivenFolded
<1>4. c.given \in Seq(GivenParts) /\ d.given \in Seq(GivenParts)
  BY DEF Conversations
<1> HIDE DEF op, S
<1>5. /\ Folded(op, base, <<>>) = base
      /\ \A seq \in Seq(GivenParts) : Folded(op, base, seq) \in S
      /\ \A seq \in Seq(GivenParts), e \in GivenParts :
           Folded(op, base, Append(seq, e)) = op[<<Folded(op, base, seq), e>>]
  <2> HIDE DEF base
  <2> QED BY <1>1, FoldedLaws
<1>6. AsGiven(c) \in S /\ (c.given = <<>> => AsGiven(c) = <<>>)
  BY <1>3, <1>4, <1>5
<1>7. d.given = c.given => AsGiven(d) = AsGiven(c)
  BY <1>3
<1>8. d.given = Append(c.given, g) => AsGiven(d) = op[<<AsGiven(c), g>>]
  BY <1>3, <1>4, <1>5
<1> QED BY <1>2, <1>6, <1>7, <1>8 DEF S

-----------------------------------------------------------------------------
(* The last message *)

LEMMA LastOfAppend ==
  ASSUME NEW E, NEW front \in Seq(E), NEW m \in E
  PROVE  LET M == Append(front, m)
         IN /\ M \in Seq(E) /\ M # <<>> /\ Last(M) = m /\ BackRole(M) = m.role
            /\ Len(M) = Len(front) + 1 /\ M[Len(front) + 1] = m
            /\ \A i \in 1 .. Len(front) : M[i] = front[i]
            /\ \A n \in E : [M EXCEPT ![Len(M)] = n] = Append(front, n)
<1> DEFINE M == Append(front, m)
<1>1. /\ M \in Seq(E) /\ M # <<>> /\ Len(M) = Len(front) + 1 /\ M[Len(front) + 1] = m
      /\ \A i \in 1 .. Len(front) : M[i] = front[i]
  BY AppendProperties
<1>2. Last(M) = m /\ BackRole(M) = m.role
  BY <1>1 DEF Last, BackRole
<1>3. \A n \in E : [M EXCEPT ![Len(M)] = n] = Append(front, n)
  BY LastReplaced
<1> QED BY <1>1, <1>2, <1>3

(* What is continued is the last message.                                  *)
LEMMA Continued ==
  ASSUME NEW B, NEW front \in Seq(MessagesOf(B)), NEW m \in MessagesOf(B), NEW b \in B
  PROVE  /\ Longer(m, b) \in MessagesOf(B)
         /\ Continue(Append(front, m), b) =
              Append(front, Longer(m, b))
<1> DEFINE M == Append(front, m)
           n == Longer(m, b)
<1>1. n \in MessagesOf(B)
  BY LongerType
<1>2. M[Len(M)] = m
  BY LastOfAppend
<1>3. Len(M) \in DOMAIN M
  BY LastOfAppend, LenProperties
<1>4. Continue(M, b) = [M EXCEPT ![Len(M)] = n]
  <2>1. Continue(M, b) = [M EXCEPT ![Len(M)] = [M[Len(M)] EXCEPT !.content = Append(M[Len(M)].content, b)]]
    BY <1>3 DEF Continue
  <2> QED BY <2>1, <1>2 DEF Longer
<1>5. [M EXCEPT ![Len(M)] = n] = Append(front, n)
  <2> HIDE DEF n
  <2> QED BY <1>1, LastOfAppend
<1> QED BY <1>1, <1>4, <1>5

(* Which message the blocks of a message join, and the messages before it. *)
Joined(M, role, front, m) ==
  /\ front \in Seq(MessagesOf(Blocks)) /\ m \in MessagesOf(Blocks) /\ m.role = role
  /\ \/ BackRole(M) = role /\ M = Append(front, m)
     \/ BackRole(M) # role /\ M = front /\ m.content = <<>>
LEMMA Joining ==
  ASSUME NEW M \in Seq(MessagesOf(Blocks)), NEW role \in Roles
  PROVE  \E front, m : Joined(M, role, front, m)
<1>1. CASE BackRole(M) = role
  <2>1. M # <<>>
    BY <1>1 DEF BackRole, Roles
  <2>2. PICK front \in Seq(MessagesOf(Blocks)), m \in MessagesOf(Blocks) : M = Append(front, m)
    BY <2>1, SequenceEmptyOrAppend
  <2>3. m.role = role
    BY <1>1, <2>2, LastOfAppend
  <2> QED BY <1>1, <2>2, <2>3 DEF Joined
<1>2. CASE BackRole(M) # role
  <2> DEFINE m == [role |-> role, content |-> <<>>]
  <2>1. m \in MessagesOf(Blocks) /\ m.role = role /\ m.content = <<>>
    BY EmptySeq DEF MessagesOf
  <2> QED BY <1>2, <2>1 DEF Joined
<1> QED BY <1>1, <1>2

Wider(m, blocks) == [m EXCEPT !.content = m.content \o blocks]
Merged(p, role, front, m, q) ==
  /\ Wider(m, p.blocks) \in MessagesOf(Blocks) /\ Wider(m, p.blocks).role = role
  /\ q \in PStates /\ q.messages = Append(front, Wider(m, p.blocks))
  /\ q.refused = p.refused /\ q.names = p.names /\ q.pending = p.pending
  /\ q.calls = p.calls /\ q.ordinary = p.ordinary
LEMMA Merging ==
  ASSUME NEW p \in PStates, NEW role \in Roles, NEW front, NEW m,
         Joined(p.messages, role, front, m)
  PROVE  Merged(p, role, front, m, MergeBlocks(p, role))
<1> DEFINE n == Wider(m, p.blocks)
           q == MergeBlocks(p, role)
           M == p.messages
<1>0. M \in Seq(MessagesOf(Blocks)) /\ p.blocks \in Seq(Blocks)
  BY DEF PStates
<1>1. /\ front \in Seq(MessagesOf(Blocks)) /\ m \in MessagesOf(Blocks) /\ m.role = role
      /\ m.content \in Seq(Blocks)
  BY DEF Joined, MessagesOf
<1>2. n \in MessagesOf(Blocks) /\ n.role = role
  BY <1>0, <1>1, ConcatProperties DEF MessagesOf, Wider
<1>3. q.messages = Append(front, n)
  <2>1. CASE BackRole(M) = role
    <3>1. M = Append(front, m)
      BY <2>1 DEF Joined
    <3>2. M[Len(M)] = m /\ Len(M) \in DOMAIN M
      BY <3>1, <1>1, LastOfAppend, LenProperties
    <3>3. q.messages = [M EXCEPT ![Len(M)] = [M[Len(M)] EXCEPT !.content = M[Len(M)].content \o p.blocks]]
      <4>1. q.messages = [M EXCEPT ![Len(M)].content = @ \o p.blocks]
        <5>1. q = [p EXCEPT !.messages = [M EXCEPT ![Len(M)].content = @ \o p.blocks]]
          BY <2>1 DEF MergeBlocks
        <5> QED BY <5>1 DEF PStates
      <4> HIDE DEF q, M
      <4> QED BY <4>1, <3>2 DEF Wider
    <3>4. q.messages = [M EXCEPT ![Len(M)] = n]
      BY <3>2, <3>3 DEF Wider
    <3> HIDE DEF q, n, M
    <3> QED BY <3>1, <3>4, <1>1, <1>2, LastOfAppend
  <2>2. CASE BackRole(M) # role
    <3>1. M = front /\ m.content = <<>>
      BY <2>2 DEF Joined
    <3>2. m.content \o p.blocks = p.blocks
      BY <3>1, <1>0, ConcatEmptySeq
    <3>3. n = [role |-> role, content |-> p.blocks]
      BY <1>1, <3>2 DEF MessagesOf, Wider
    <3>4. q.messages = Append(M, [role |-> role, content |-> p.blocks])
      BY <2>2 DEF MergeBlocks, PStates
    <3> QED BY <3>1, <3>3, <3>4
  <2> QED BY <2>1, <2>2
<1>4. Append(front, n) \in Seq(MessagesOf(Blocks))
  <2> HIDE DEF n
  <2> QED BY <1>1, <1>2, AppendProperties
<1>5. q = [p EXCEPT !.messages = Append(front, n)]
  <2>1. q = [p EXCEPT !.messages = q.messages]
    BY DEF MergeBlocks, PStates
  <2> HIDE DEF q, n
  <2> QED BY <2>1, <1>3
<1> HIDE DEF q, n
<1>6. /\ q \in PStates /\ q.refused = p.refused /\ q.names = p.names
      /\ q.pending = p.pending /\ q.calls = p.calls /\ q.ordinary = p.ordinary
  BY <1>4, <1>5 DEF PStates
<1> QED BY <1>2, <1>3, <1>6 DEF q, n, Merged

-----------------------------------------------------------------------------
(* Preparing, by steps that are functions *)

LEMMA EncodesType == ASSUME NEW wire PROVE Encoding(wire) \in FoldSteps(PStates, Tools)
  BY EncodeType DEF Encoding, FoldSteps

LEMMA ReadsType ==
  ASSUME NEW wire \in [Tools -> WireNames], NEW role \in Roles
  PROVE  Reads(wire, role) \in FoldSteps(PStates, Parts)
  BY PartType DEF Reads, FoldSteps

(* Where the reading of a message begins.                                  *)
Begun(p, role) ==
  Require(~(BackRole(p.messages) = "user" /\ role = "assistant" /\ p.pending # {}),
          [p EXCEPT !.blocks = <<>>, !.ordinary = FALSE])
LEMMA BegunType ==
  ASSUME NEW p \in PStates, NEW role \in Roles
  PROVE  LET q == Begun(p, role)
         IN /\ q \in PStates /\ q.names = p.names /\ q.messages = p.messages
            /\ q.pending = p.pending /\ q.calls = p.calls /\ q.blocks = <<>>
            /\ q.ordinary = FALSE
            /\ q.refused = (\/ p.refused
                            \/ BackRole(p.messages) = "user" /\ role = "assistant" /\ p.pending # {})
<1> DEFINE q == Begun(p, role)
           x == [p EXCEPT !.blocks = <<>>, !.ordinary = FALSE]
           bad == BackRole(p.messages) = "user" /\ role = "assistant" /\ p.pending # {}
<1>1. /\ x \in PStates /\ x.names = p.names /\ x.messages = p.messages
      /\ x.pending = p.pending /\ x.calls = p.calls /\ x.blocks = <<>>
      /\ x.ordinary = FALSE /\ x.refused = p.refused
  BY EmptySeq DEF PStates
<1>2. q = Require(~bad, x)
  BY Zenon DEF Begun
<1>a. bad \in BOOLEAN
  OBVIOUS
<1> HIDE DEF x, q, bad
<1>3. SameButRefused(x, q, x.refused \/ ~~bad)
  <2> DEFINE good == ~bad
  <2>1. good \in BOOLEAN /\ q = Require(good, x)
    BY <1>2, <1>a
  <2> HIDE DEF good
  <2>2. SameButRefused(x, q, x.refused \/ ~good)
    BY <1>1, <2>1, RequireType
  <2> QED BY <2>2 DEF good
<1>4. q.refused = (p.refused \/ bad)
  BY <1>1, <1>3, Zenon DEF SameButRefused
<1>5. /\ q \in PStates /\ q.names = p.names /\ q.messages = p.messages
      /\ q.pending = p.pending /\ q.calls = p.calls /\ q.blocks = <<>>
      /\ q.ordinary = FALSE
  BY <1>1, <1>3 DEF SameButRefused
<1> QED BY <1>4, <1>5 DEF q, bad

(* A message is read part by part.                                         *)
LEMMA ReadFolded ==
  ASSUME NEW wire \in [Tools -> WireNames], NEW p \in PStates, NEW message \in MessagesOf(Parts)
  PROVE  PrepareMessage(wire, p, message) =
           MergeBlocks(Folded(Reads(wire, message.role), Begun(p, message.role),
                              message.content), message.role)
<1> DEFINE seq == message.content
           Chosen(h) == h = [s \in SUBSET DOMAIN seq |->
                               IF s = {} THEN Begun(p, message.role) ELSE 
                                 PreparePart(wire, h[s \ {Max(s)}], message.role, seq[Max(s)])]
           C == CHOOSE h : Chosen(h)
<1>1. Begun(p, message.role) \in PStates /\ seq \in Seq(Parts)
  BY BegunType DEF MessagesOf
<1>2. \A s \in SUBSET DOMAIN seq : s # {} => seq[Max(s)] \in Parts
  BY <1>1, SequenceMax
<1>3. PrepareMessage(wire, p, message) = MergeBlocks(C[DOMAIN seq], message.role)
  BY DEF PrepareMessage, Begun, ContinuesEarly, FoldLeft, MapThenFoldSet
<1> HIDE DEF seq
<1>4. Reads(wire, message.role) \in FoldSteps(PStates, Parts)
  BY ReadsType DEF MessagesOf
<1>5. PICK g \in [SUBSET DOMAIN seq -> PStates] : Solves(g, Reads(wire, message.role), Begun(p, message.role), seq)
  BY <1>1, <1>4, SolutionExists
<1>6. Chosen(g)
  BY <1>1, <1>2, <1>5 DEF Solves, Reads
<1>7. Chosen(C)
  BY <1>6
<1> HIDE DEF C
<1>8. ASSUME NEW s \in SUBSET DOMAIN seq, s # {}, C[s \ {Max(s)}] \in PStates
      PROVE  C[s] = Reads(wire, message.role)[<<C[s \ {Max(s)}], seq[Max(s)]>>]
  BY <1>2, <1>7, <1>8 DEF Reads
<1>9. FoldsLike(C, PStates, Reads(wire, message.role), Begun(p, message.role), seq)
  BY <1>7, <1>8 DEF FoldsLike
<1>10. Folded(Reads(wire, message.role), Begun(p, message.role), seq) = C[DOMAIN seq]
  <2> DEFINE op == Reads(wire, message.role)
             base == Begun(p, message.role)
             S == PStates
             E == Parts
  <2>1. op \in FoldSteps(S, E) /\ base \in S /\ seq \in Seq(E) /\ FoldsLike(C, S, op, base, seq)
    BY <1>1, <1>4, <1>9
  <2> HIDE DEF op, base, S, E
  <2>2. Folded(op, base, seq) = C[DOMAIN seq]
    BY <2>1, FoldedIsFold
  <2> QED BY <2>2 DEF op, base
<1> QED BY <1>3, <1>10 DEF seq

LEMMA MessageType ==
  ASSUME NEW wire \in [Tools -> WireNames], NEW p \in PStates, NEW message \in MessagesOf(Parts)
  PROVE  /\ PrepareMessage(wire, p, message) \in PStates
         /\ Folded(Reads(wire, message.role), Begun(p, message.role), message.content)
              \in PStates
<1> DEFINE op == Reads(wire, message.role)
           base == Begun(p, message.role)
           r == Folded(op, base, message.content)
<1>1. message.role \in Roles /\ message.content \in Seq(Parts)
  BY DEF MessagesOf
<1>2. op \in FoldSteps(PStates, Parts) /\ base \in PStates
  BY <1>1, ReadsType, BegunType
<1>3. PrepareMessage(wire, p, message) = MergeBlocks(r, message.role)
  BY ReadFolded
<1> HIDE DEF op, base
<1>4. r \in PStates
  BY <1>1, <1>2, FoldedLaws
<1> HIDE DEF r
<1>5. r.messages \in Seq(MessagesOf(Blocks))
  BY <1>4 DEF PStates
<1>6. PICK front, m : Joined(r.messages, message.role, front, m)
  BY <1>1, <1>5, Joining
<1>7. MergeBlocks(r, message.role) \in PStates
  <2>1. Merged(r, message.role, front, m, MergeBlocks(r, message.role))
    BY <1>1, <1>4, <1>6, Merging
  <2> QED BY <2>1 DEF Merged
<1> QED BY <1>3, <1>4, <1>7 DEF r, op, base

LEMMA PreparesType ==
  ASSUME NEW wire \in [Tools -> WireNames]
  PROVE  Prepares(wire) \in FoldSteps(PStates, MessagesOf(Parts))
  BY MessageType DEF Prepares, FoldSteps

(* A set that is finite is listed.                                         *)
LEMMA ListOfSet ==
  ASSUME NEW S, IsFiniteSet(S)
  PROVE  /\ SetToSeq(S) \in Seq(S)
         /\ \A x \in S : \E i \in DOMAIN SetToSeq(S) : SetToSeq(S)[i] = x
<1> DEFINE n == Cardinality(S)
           f == SetToSeq(S)
<1>1. n \in Nat /\ ExistsBijection(1 .. n, S)
  BY FS_CardinalityType
<1>2. PICK g : g \in Bijection(1 .. n, S)
  BY <1>1 DEF ExistsBijection
<1>3. g \in [1 .. n -> S] /\ IsInjective(g)
  BY <1>2 DEF Bijection, Injection, Surjection
<1>4. f \in [1 .. n -> S] /\ IsInjective(f)
  BY <1>3, Zenon DEF SetToSeq
<1> HIDE DEF f
<1>5. f \in Injection(1 .. n, S)
  BY <1>4 DEF Injection
<1>6. Cardinality(1 .. n) = n
  BY <1>1, FS_Interval
<1>7. f \in Surjection(1 .. n, S)
  BY <1>5, <1>6, FS_Injection
<1>8. \A x \in S : \E i \in 1 .. n : f[i] = x
  BY <1>7 DEF Surjection
<1>9. f \in Seq(S)
  BY <1>1, <1>4, SeqDef
<1>10. DOMAIN f = 1 .. n
  BY <1>4
<1> QED BY <1>8, <1>9, <1>10 DEF f

LEMMA StartType ==
  ASSUME NEW c PROVE PrepareStart(c) \in PStates
<1>1. <<>> \in Seq(MessagesOf(Blocks)) /\ <<>> \in Seq(Blocks)
  BY EmptySeq
<1> QED BY <1>1 DEF PrepareStart, PStates

LEMMA DeclaredList ==
  ASSUME NEW c \in Conversations
  PROVE  /\ SetToSeq(c.declared) \in Seq(Tools)
         /\ \A t \in c.declared :
              \E i \in DOMAIN SetToSeq(c.declared) : SetToSeq(c.declared)[i] = t
<1>1. c.declared \in SUBSET Tools /\ IsFiniteSet(c.declared)
  BY TranslationAssumption, FS_Subset DEF Conversations
<1> QED BY <1>1, ListOfSet, SeqMonotonic

(* The declared tools take their names first.                              *)
LEMMA DeclareFolded ==
  ASSUME NEW c \in Conversations
  PROVE  DeclareTools(c) = Folded(Encoding(c.wire), PrepareStart(c), SetToSeq(c.declared))
<1> DEFINE seq == SetToSeq(c.declared)
           Chosen(h) == h = [s \in SUBSET DOMAIN seq |->
                               IF s = {} THEN PrepareStart(c) ELSE 
                                 EncodeName(c.wire, h[s \ {Max(s)}], seq[Max(s)])]
           C == CHOOSE h : Chosen(h)
<1>1. PrepareStart(c) \in PStates /\ seq \in Seq(Tools)
  BY StartType, DeclaredList
<1>2. \A s \in SUBSET DOMAIN seq : s # {} => seq[Max(s)] \in Tools
  BY <1>1, SequenceMax
<1>3. DeclareTools(c) = C[DOMAIN seq]
  BY DEF DeclareTools, FoldLeft, MapThenFoldSet
<1> HIDE DEF seq
<1>4. Encoding(c.wire) \in FoldSteps(PStates, Tools)
  BY EncodesType
<1>5. PICK g \in [SUBSET DOMAIN seq -> PStates] : Solves(g, Encoding(c.wire), PrepareStart(c), seq)
  BY <1>1, <1>4, SolutionExists
<1>6. Chosen(g)
  BY <1>1, <1>2, <1>5 DEF Solves, Encoding
<1>7. Chosen(C)
  BY <1>6
<1> HIDE DEF C
<1>8. ASSUME NEW s \in SUBSET DOMAIN seq, s # {}, C[s \ {Max(s)}] \in PStates
      PROVE  C[s] = Encoding(c.wire)[<<C[s \ {Max(s)}], seq[Max(s)]>>]
  BY <1>2, <1>7, <1>8 DEF Encoding
<1>9. FoldsLike(C, PStates, Encoding(c.wire), PrepareStart(c), seq)
  BY <1>7, <1>8 DEF FoldsLike
<1>10. Folded(Encoding(c.wire), PrepareStart(c), seq) = C[DOMAIN seq]
  <2> DEFINE op == Encoding(c.wire)
             base == PrepareStart(c)
             S == PStates
             E == Tools
  <2>1. op \in FoldSteps(S, E) /\ base \in S /\ seq \in Seq(E) /\ FoldsLike(C, S, op, base, seq)
    BY <1>1, <1>4, <1>9
  <2> HIDE DEF op, base, S, E
  <2>2. Folded(op, base, seq) = C[DOMAIN seq]
    BY <2>1, FoldedIsFold
  <2> QED BY <2>2 DEF op, base
<1> QED BY <1>3, <1>10 DEF seq

LEMMA DeclareType == ASSUME NEW c \in Conversations PROVE DeclareTools(c) \in PStates
<1> DEFINE op == Encoding(c.wire)
           base == PrepareStart(c)
           list == SetToSeq(c.declared)
<1>1. op \in FoldSteps(PStates, Tools) /\ base \in PStates /\ list \in Seq(Tools)
  BY EncodesType, StartType, DeclaredList
<1>2. DeclareTools(c) = Folded(op, base, list)
  BY DeclareFolded
<1> HIDE DEF op, base, list
<1> QED BY <1>1, <1>2, FoldedLaws

(* The messages are prepared one after the other.                          *)
LEMMA PrepareFolded ==
  ASSUME NEW c \in Conversations
  PROVE  PrepareMessages(c) = Folded(Prepares(c.wire), DeclareTools(c), c.messages)
<1> DEFINE seq == c.messages
           Chosen(h) == h = [s \in SUBSET DOMAIN seq |->
                               IF s = {} THEN DeclareTools(c) ELSE 
                                 PrepareMessage(c.wire, h[s \ {Max(s)}], seq[Max(s)])]
           C == CHOOSE h : Chosen(h)
<1>1. DeclareTools(c) \in PStates /\ seq \in Seq(MessagesOf(Parts))
  BY DeclareType DEF Conversations
<1>2. \A s \in SUBSET DOMAIN seq : s # {} => seq[Max(s)] \in MessagesOf(Parts)
  BY <1>1, SequenceMax
<1>3. PrepareMessages(c) = C[DOMAIN seq]
  BY DEF PrepareMessages, FoldLeft, MapThenFoldSet
<1> HIDE DEF seq
<1>4. Prepares(c.wire) \in FoldSteps(PStates, MessagesOf(Parts))
  BY PreparesType DEF Conversations
<1>5. PICK g \in [SUBSET DOMAIN seq -> PStates] : Solves(g, Prepares(c.wire), DeclareTools(c), seq)
  BY <1>1, <1>4, SolutionExists
<1>6. Chosen(g)
  BY <1>1, <1>2, <1>5 DEF Solves, Prepares
<1>7. Chosen(C)
  BY <1>6
<1> HIDE DEF C
<1>8. ASSUME NEW s \in SUBSET DOMAIN seq, s # {}, C[s \ {Max(s)}] \in PStates
      PROVE  C[s] = Prepares(c.wire)[<<C[s \ {Max(s)}], seq[Max(s)]>>]
  BY <1>2, <1>7, <1>8 DEF Prepares
<1>9. FoldsLike(C, PStates, Prepares(c.wire), DeclareTools(c), seq)
  BY <1>7, <1>8 DEF FoldsLike
<1>10. Folded(Prepares(c.wire), DeclareTools(c), seq) = C[DOMAIN seq]
  <2> DEFINE op == Prepares(c.wire)
             base == DeclareTools(c)
             S == PStates
             E == MessagesOf(Parts)
  <2>1. op \in FoldSteps(S, E) /\ base \in S /\ seq \in Seq(E) /\ FoldsLike(C, S, op, base, seq)
    BY <1>1, <1>4, <1>9
  <2> HIDE DEF op, base, S, E
  <2>2. Folded(op, base, seq) = C[DOMAIN seq]
    BY <2>1, FoldedIsFold
  <2> QED BY <2>2 DEF op, base
<1> QED BY <1>3, <1>10 DEF seq

-----------------------------------------------------------------------------
(* What preparing a conversation does, one part at a time *)

LEMMA PreparedLaws ==
  ASSUME NEW c \in Conversations
  PROVE  /\ PrepareMessages(c) \in PStates
         /\ c.messages = <<>> => PrepareMessages(c) = DeclareTools(c)
         /\ \A m \in MessagesOf(Parts), front \in Seq(MessagesOf(Parts)) :
              c.messages = Append(front, m) =>
                PrepareMessages(c) =
                  PrepareMessage(c.wire, Folded(Prepares(c.wire), DeclareTools(c), front), m)
<1> DEFINE op == Prepares(c.wire)
           base == DeclareTools(c)
           E == MessagesOf(Parts)
<1>1. op \in FoldSteps(PStates, E) /\ base \in PStates /\ c.messages \in Seq(E)
  BY PreparesType, DeclareType DEF Conversations
<1>2. PrepareMessages(c) = Folded(op, base, c.messages)
  BY PrepareFolded
<1>3. \A s \in PStates, m \in E : op[<<s, m>>] = PrepareMessage(c.wire, s, m)
  BY DEF Prepares
<1> HIDE DEF op, base, E
<1>4. /\ Folded(op, base, <<>>) = base
      /\ \A seq \in Seq(E) : Folded(op, base, seq) \in PStates
      /\ \A seq \in Seq(E), e \in E :
           Folded(op, base, Append(seq, e)) = op[<<Folded(op, base, seq), e>>]
  BY <1>1, FoldedLaws
<1>5. PrepareMessages(c) \in PStates
  BY <1>1, <1>2, <1>4
<1>6. c.messages = <<>> => PrepareMessages(c) = base
  BY <1>2, <1>4
<1>7. ASSUME NEW m \in E, NEW front \in Seq(E), c.messages = Append(front, m)
      PROVE  PrepareMessages(c) = PrepareMessage(c.wire, Folded(op, base, front), m)
  BY <1>2, <1>3, <1>4, <1>7
<1> QED BY <1>5, <1>6, <1>7 DEF op, base, E

(* Only the names and the messages are looked at.                          *)
LEMMA PreparedAlike ==
  ASSUME NEW c \in Conversations, NEW d \in Conversations,
         d.wire = c.wire, d.declared = c.declared
  PROVE  /\ DeclareTools(d) = DeclareTools(c)
         /\ d.messages = c.messages => PrepareMessages(d) = PrepareMessages(c)
<1>1. PrepareStart(d) = PrepareStart(c)
  BY DEF PrepareStart
<1>2. DeclareTools(d) = DeclareTools(c)
  BY <1>1, DeclareFolded
<1>3. d.messages = c.messages => PrepareMessages(d) = PrepareMessages(c)
  BY <1>2, PrepareFolded
<1> QED BY <1>2, <1>3

(* One more part, in a message of its own or in the last one: r is where   *)
(* the part is read.                                                       *)
ReadAt(c, d, role, part, r) ==
  /\ r \in PStates
  /\ PrepareMessages(d) = MergeBlocks(PreparePart(c.wire, r, role, part), role)
  /\ \/ r = Begun(PrepareMessages(c), role)
     \/ BackRole(c.messages) = role /\ PrepareMessages(c) = MergeBlocks(r, role)
LEMMA NewPart ==
  ASSUME NEW c \in Conversations, NEW d \in Conversations,
         d.wire = c.wire, d.declared = c.declared, NEW role \in Roles, NEW part \in Parts,
         d.messages = NewMessage(c.messages, role, part)
  PROVE  ReadAt(c, d, role, part, Begun(PrepareMessages(c), role))
<1> DEFINE m == [role |-> role, content |-> <<part>>]
           p == PrepareMessages(c)
           op == Reads(c.wire, role)
           base == Begun(p, role)
<1>1. c.wire \in [Tools -> WireNames] /\ c.messages \in Seq(MessagesOf(Parts))
  BY DEF Conversations
<1>2. p \in PStates /\ base \in PStates /\ op \in FoldSteps(PStates, Parts)
  <2>1. p \in PStates
    BY PreparedLaws
  <2> HIDE DEF p
  <2> QED BY <2>1, <1>1, BegunType, ReadsType
<1>3. <<part>> = Append(<<>>, part) /\ <<>> \in Seq(Parts) /\ m \in MessagesOf(Parts)
  BY EmptySeq DEF MessagesOf
<1>4. p = Folded(Prepares(c.wire), DeclareTools(c), c.messages)
  BY PrepareFolded
<1>5. PrepareMessages(d) = PrepareMessage(c.wire, p, m)
  <2>1. d.messages = Append(c.messages, m)
    BY DEF NewMessage
  <2> HIDE DEF m, p
  <2> QED BY <2>1, <1>1, <1>3, <1>4, PreparedLaws, PreparedAlike
<1>6. PrepareMessage(c.wire, p, m) = MergeBlocks(Folded(op, base, <<part>>), role)
  <2>1. PrepareMessage(c.wire, p, m) =
          MergeBlocks(Folded(Reads(c.wire, m.role), Begun(p, m.role), m.content), m.role)
    <3> HIDE DEF p, m
    <3> QED BY <1>1, <1>2, <1>3, ReadFolded
  <2>2. m.role = role /\ m.content = <<part>>
    OBVIOUS
  <2> QED BY <2>1, <2>2
<1>7. Folded(op, base, <<part>>) = PreparePart(c.wire, base, role, part)
  <2>1. op[<<base, part>>] = PreparePart(c.wire, base, role, part)
    <3> HIDE DEF base
    <3> QED BY <1>2 DEF Reads
  <2> HIDE DEF op, base
  <2>2. Folded(op, base, <<>>) = base
    BY <1>2, FoldedLaws
  <2>3. Folded(op, base, Append(<<>>, part)) = op[<<Folded(op, base, <<>>), part>>]
    <3> DEFINE none == <<>>
    <3>1. none \in Seq(Parts)
      BY <1>3
    <3> HIDE DEF none
    <3>2. Folded(op, base, Append(none, part)) = op[<<Folded(op, base, none), part>>]
      BY <1>2, <3>1, FoldedLaws
    <3> QED BY <3>2 DEF none
  <2> QED BY <1>3, <2>1, <2>2, <2>3
<1>8. PrepareMessages(d) = MergeBlocks(PreparePart(c.wire, base, role, part), role)
  BY <1>5, <1>6, <1>7
<1> QED BY <1>2, <1>8 DEF ReadAt

LEMMA MorePart ==
  ASSUME NEW c \in Conversations, NEW d \in Conversations,
         d.wire = c.wire, d.declared = c.declared, NEW role \in Roles, NEW part \in Parts,
         BackRole(c.messages) = role, d.messages = Continue(c.messages, part)
  PROVE  \E r : ReadAt(c, d, role, part, r)
<1>1. c.wire \in [Tools -> WireNames] /\ c.messages \in Seq(MessagesOf(Parts))
  BY DEF Conversations
<1>2. c.messages # <<>>
  BY DEF BackRole, Roles
<1>3. PICK front \in Seq(MessagesOf(Parts)), m \in MessagesOf(Parts) : c.messages = Append(front, m)
  BY <1>1, <1>2, SequenceEmptyOrAppend
<1> DEFINE n == Longer(m, part)
           p == Folded(Prepares(c.wire), DeclareTools(c), front)
           op == Reads(c.wire, role)
           base == Begun(p, role)
           r == Folded(op, base, m.content)
<1>a. m.role = BackRole(c.messages)
  BY <1>3, LastOfAppend
<1>4. m.role = role /\ m.content \in Seq(Parts)
  BY <1>3, <1>a DEF MessagesOf
<1>5. n \in MessagesOf(Parts) /\ d.messages = Append(front, n)
  <2>1. n \in MessagesOf(Parts) /\ Continue(Append(front, m), part) = Append(front, n)
    BY <1>3, Continued, Zenon
  <2> QED BY <1>3, <2>1
<1>6. n.role = role /\ n.content = Append(m.content, part)
  BY <1>4, LongerType
<1>7. p \in PStates
  <2> DEFINE E == MessagesOf(Parts)
             all == Prepares(c.wire)
             start == DeclareTools(c)
  <2>1. all \in FoldSteps(PStates, E) /\ start \in PStates /\ front \in Seq(E)
    BY <1>1, <1>3, PreparesType, DeclareType
  <2> HIDE DEF E, all, start
  <2>2. Folded(all, start, front) \in PStates
    BY <2>1, FoldedLaws
  <2> QED BY <2>2 DEF all, start
<1>8. PrepareMessages(c) = PrepareMessage(c.wire, p, m)
  BY <1>3, PreparedLaws
<1>9. PrepareMessages(d) = PrepareMessage(c.wire, p, n)
  <2> HIDE DEF n
  <2> QED BY <1>3, <1>5, PreparedLaws, PreparedAlike
<1> HIDE DEF p
<1>10. op \in FoldSteps(PStates, Parts) /\ base \in PStates
  BY <1>1, <1>7, BegunType, ReadsType
<1>11. PrepareMessages(c) = MergeBlocks(r, role)
  BY <1>1, <1>3, <1>4, <1>7, <1>8, ReadFolded
<1>12. PrepareMessages(d) = MergeBlocks(Folded(op, base, Append(m.content, part)), role)
  <2> HIDE DEF n
  <2> QED BY <1>1, <1>5, <1>6, <1>7, <1>9, ReadFolded
<1>13. r \in PStates /\ Folded(op, base, Append(m.content, part)) = op[<<r, part>>]
  <2> HIDE DEF op, base
  <2> QED BY <1>4, <1>10, FoldedLaws
<1>14. op[<<r, part>>] = PreparePart(c.wire, r, role, part)
  <2> HIDE DEF r
  <2> QED BY <1>13 DEF Reads
<1> HIDE DEF r
<1>15. ReadAt(c, d, role, part, r)
  BY <1>11, <1>12, <1>13, <1>14 DEF ReadAt
<1> QED BY <1>15

-----------------------------------------------------------------------------
(* Results that answer calls *)

(* A prefix, position by position.                                         *)
LEMMA PrefixByPosition ==
  ASSUME NEW B, NEW s \in Seq(B), NEW t \in Seq(B)
  PROVE  IsPrefix(s, t) <=> Len(s) <= Len(t) /\ \A i \in 1 .. Len(s) : s[i] = t[i]
<1>1. Len(s) \in Nat /\ Len(t) \in Nat /\ \A i \in 1 .. Len(t) : t[i] \in B
  BY LenProperties, ElementOfSeq
<1>2. SubSeq(s, 1, Len(s)) = s
  BY SubSeqFull
<1>3. CASE ~(Len(s) <= Len(t))
  BY <1>3 DEF IsPrefix
<1>4. CASE Len(s) <= Len(t)
  <2> DEFINE u == SubSeq(t, 1, Len(s))
  <2>1. \A i \in 1 .. Len(s) : t[i] \in B
    BY <1>1, <1>4
  <2>2. /\ u \in Seq(B) /\ Len(u) = IF 1 <= Len(s) THEN Len(s) - 1 + 1 ELSE 0
        /\ \A i \in 1 .. Len(s) - 1 + 1 : u[i] = t[1 + i - 1]
    BY <1>1, <2>1, SubSeqProperties
  <2> HIDE DEF u
  <2>3. Len(u) = Len(s) /\ \A i \in 1 .. Len(s) : u[i] = t[i]
    BY <2>2, <1>1
  <2>4. (s = u) <=> \A i \in 1 .. Len(s) : s[i] = t[i]
    BY <2>2, <2>3, SeqEqual
  <2> QED BY <1>2, <1>4, <2>4 DEF IsPrefix, u
<1> QED BY <1>3, <1>4

LEMMA PrefixLaws ==
  ASSUME NEW B, NEW s \in Seq(B), NEW t \in Seq(B), NEW b \in B
  PROVE  IsPrefix(s, s) /\ IsPrefix(<<>>, s)
         /\ (IsPrefix(s, t) => IsPrefix(s, Append(t, b)))
<1>1. Len(s) \in Nat /\ Len(t) \in Nat
  BY LenProperties
<1>2. IsPrefix(s, s)
  BY <1>1, PrefixByPosition
<1>3. IsPrefix(<<>>, s)
  <2>1. SubSeq(<<>>, 1, 0) = <<>> /\ SubSeq(s, 1, 0) = <<>>
    BY SubSeqEmpty
  <2> QED BY <1>1, <2>1 DEF IsPrefix
<1>4. ASSUME IsPrefix(s, t) PROVE IsPrefix(s, Append(t, b))
  <2>1. Len(s) <= Len(t) /\ \A i \in 1 .. Len(s) : s[i] = t[i]
    BY <1>4, PrefixByPosition
  <2>2. /\ Append(t, b) \in Seq(B) /\ Len(Append(t, b)) = Len(t) + 1
        /\ \A i \in 1 .. Len(t) : Append(t, b)[i] = t[i]
    BY AppendProperties
  <2>3. Len(s) <= Len(t) + 1 /\ \A i \in 1 .. Len(s) : s[i] = Append(t, b)[i]
    BY <1>1, <2>1, <2>2
  <2> QED BY <2>2, <2>3, PrefixByPosition
<1> QED BY <1>2, <1>3, <1>4

LEMMA IdsLaws ==
  ASSUME NEW B, NEW s \in Seq(B), NEW b \in B
  PROVE  Ids(<<>>) = {} /\ Ids(Append(s, b)) = Ids(s) \cup {b.id}
<1>1. Len(s) \in Nat /\ DOMAIN s = 1 .. Len(s)
  BY LenProperties
<1>2. /\ DOMAIN Append(s, b) = 1 .. Len(s) + 1
      /\ \A i \in 1 .. Len(s) : Append(s, b)[i] = s[i]
      /\ Append(s, b)[Len(s) + 1] = b
  BY AppendProperties, LenProperties
<1>3. Ids(Append(s, b)) = Ids(s) \cup {b.id}
  <2> DEFINE a == Append(s, b)
  <2> SUFFICES {a[i].id : i \in DOMAIN a} = {s[i].id : i \in DOMAIN s} \cup {b.id}
    BY DEF Ids
  <2>1. 1 .. Len(s) + 1 = 1 .. Len(s) \cup {Len(s) + 1}
    BY <1>1
  <2> HIDE DEF a
  <2> QED BY <1>1, <1>2, <2>1 DEF a
<1>4. Ids(<<>>) = {}
  BY DEF Ids
<1> QED BY <1>3, <1>4

(* Before anything is said, all calls are open.                            *)
LEMMA NothingAnswers ==
  ASSUME NEW role \in Roles, NEW calls, Cardinality(Ids(calls)) = Len(calls),
         Len(calls) \in Nat
  PROVE  Answers(calls, [role |-> role, content |-> <<>>], Ids(calls))
<1>1. Of([role |-> role, content |-> <<>>], "result") = <<>>
  BY OfNothing
<1>2. Ids(<<>>) = {} /\ IsPrefix(<<>>, <<>>)
  <2>1. IsPrefix(<<>>, <<>>)
    BY SubSeqEmpty DEF IsPrefix
  <2> QED BY <2>1 DEF Ids
<1>3. Len(<<>>) + Cardinality(Ids(calls)) = Len(calls)
  OBVIOUS
<1> QED BY <1>1, <1>2, <1>3 DEF Answers

(* What is not a result changes nothing once all are answered.             *)
LEMMA OtherAnswers ==
  ASSUME NEW m \in MessagesOf(Blocks), NEW b \in Blocks, b.kind # "result",
         NEW calls, Answers(calls, m, {})
  PROVE  Answers(calls, Longer(m, b), {})
<1>1. Of(Longer(m, b), "result") = Of(m, "result") /\ Of(m, "result") \in Seq(Blocks)
  BY OfLonger
<1>2. Longer(m, b).content = Append(m.content, b) /\ m.content \in Seq(Blocks)
  <2>1. m.content \in Seq(Blocks)
    BY DEF MessagesOf
  <2> QED BY <2>1, LongerType
<1>3. IsPrefix(Of(m, "result"), m.content) => IsPrefix(Of(m, "result"), Append(m.content, b))
  BY <1>1, <1>2, PrefixLaws
<1> QED BY <1>1, <1>2, <1>3 DEF Answers

(* A result closes a call that is open.                                    *)
LEMMA ResultAnswers ==
  ASSUME NEW m \in MessagesOf(Blocks), NEW b \in Blocks, b.kind = "result",
         NEW calls, NEW open, IsFiniteSet(open), b.id \in open, Answers(calls, m, open)
  PROVE  Answers(calls, Longer(m, b), open \ {b.id})
<1> DEFINE rs == Of(m, "result")
<1>1. Of(Longer(m, b), "result") = Append(rs, b) /\ rs \in Seq(Blocks)
  BY OfLonger
<1>2. Longer(m, b).content = Append(m.content, b) /\ m.content \in Seq(Blocks)
  <2>1. m.content \in Seq(Blocks)
    BY DEF MessagesOf
  <2> QED BY <2>1, LongerType
<1>3. /\ Ids(rs) \cup open = Ids(calls) /\ Len(rs) + Cardinality(open) = Len(calls)
      /\ rs = m.content
  BY DEF Answers
<1> HIDE DEF rs
<1>4. Ids(Append(rs, b)) = Ids(rs) \cup {b.id} /\ Len(Append(rs, b)) = Len(rs) + 1
  BY <1>1, IdsLaws, AppendProperties
<1>5. /\ Cardinality(open) \in Nat /\ Cardinality(open \ {b.id}) = Cardinality(open) - 1
      /\ Len(rs) \in Nat
  BY <1>1, FS_CardinalityType, FS_RemoveElement, LenProperties
<1>6. Append(rs, b) \in Seq(Blocks) /\ IsPrefix(Append(rs, b), Append(rs, b))
  <2>1. Append(rs, b) \in Seq(Blocks)
    BY <1>1, AppendProperties
  <2> QED BY <2>1, PrefixLaws
<1>7. Ids(Append(rs, b)) \cup (open \ {b.id}) = Ids(calls)
  BY <1>3, <1>4
<1>8. Len(Append(rs, b)) + Cardinality(open \ {b.id}) = Len(calls)
  BY <1>3, <1>4, <1>5
<1> QED BY <1>1, <1>2, <1>3, <1>6, <1>7, <1>8 DEF Answers

-----------------------------------------------------------------------------
(* Good messages, seen from the last one *)

TurnsSettled(M) ==
  \A i \in DOMAIN M :
    /\ i > 1 => M[i].role # M[i - 1].role
    /\ M[i].role = "user" => Answers(CallsBefore(M, i), M[i], {})
CallsOfLast(M) == IF M = <<>> THEN <<>> ELSE Of(Last(M), "call")
GoodEnd(front, m, pending) ==
  /\ IsFiniteSet(pending) /\ TurnsSettled(front) /\ BackRole(front) # m.role
  /\ m.role = "user" => Answers(CallsOfLast(front), m, pending)
  /\ m.role = "assistant" =>
       pending = Ids(Of(m, "call")) /\ Cardinality(pending) = Len(Of(m, "call"))
LEMMA GoodAppend ==
  ASSUME NEW front \in Seq(MessagesOf(Blocks)), NEW m \in MessagesOf(Blocks), NEW pending
  PROVE  Good(Append(front, m), pending) <=> GoodEnd(front, m, pending)
<1> DEFINE M == Append(front, m)
           n == Len(front)
<1>1. /\ n \in Nat /\ DOMAIN front = 1 .. n /\ DOMAIN M = 1 .. n + 1 /\ Len(M) = n + 1
      /\ M # <<>> /\ Last(M) = m /\ BackRole(M) = m.role /\ M[n + 1] = m
      /\ \A i \in 1 .. n : M[i] = front[i]
  BY LastOfAppend, LenProperties
<1>2. m.role \in Roles
  BY DEF MessagesOf
<1>3. (front = <<>>) <=> (n = 0)
  BY EmptySeq
<1>4. n # 0 => Last(front) = M[n] /\ BackRole(front) = M[n].role
  <2>1. n = Len(front)
    OBVIOUS
  <2> HIDE DEF M, n
  <2> QED BY <1>1, <1>3, <2>1 DEF Last, BackRole
<1>5. n = 0 => BackRole(front) # m.role
  BY <1>2, <1>3 DEF BackRole, Roles
<1> HIDE DEF M, n
<1>6. \A i \in 1 .. n : CallsBefore(M, i) = CallsBefore(front, i) /\ Waiting(M, pending, i) = {}
  BY <1>1 DEF CallsBefore, Waiting
<1>7. CallsBefore(M, n + 1) = CallsOfLast(front) /\ Waiting(M, pending, n + 1) = pending
  BY <1>1, <1>3, <1>4 DEF CallsBefore, CallsOfLast, Waiting
<1>8. (\A i \in 1 .. n + 1 : i > 1 => M[i].role # M[i - 1].role) <=>
        /\ \A i \in 1 .. n : i > 1 => front[i].role # front[i - 1].role
        /\ BackRole(front) # m.role
  <2>1. \A i \in 1 .. n : i > 1 => M[i - 1] = front[i - 1]
    BY <1>1
  <2>2. n # 0 => n + 1 > 1 /\ n + 1 - 1 = n
    BY <1>1
  <2>3. \A i \in 1 .. n + 1 : i \in 1 .. n \/ i = n + 1
    BY <1>1
  <2>4. 1 .. n \subseteq 1 .. n + 1 /\ n + 1 \in 1 .. n + 1
    BY <1>1
  <2>5. n = 0 => ~(n + 1 > 1)
    BY <1>1
  <2> QED BY <1>1, <1>4, <1>5, <2>1, <2>2, <2>3, <2>4, <2>5
<1>9. (\A i \in 1 .. n + 1 :
         M[i].role = "user" => Answers(CallsBefore(M, i), M[i], Waiting(M, pending, i))) <=>
        /\ \A i \in 1 .. n :
             front[i].role = "user" => Answers(CallsBefore(front, i), front[i], {})
        /\ m.role = "user" => Answers(CallsOfLast(front), m, pending)
  <2>1. \A i \in 1 .. n + 1 : i \in 1 .. n \/ i = n + 1
    BY <1>1
  <2>2. 1 .. n \subseteq 1 .. n + 1 /\ n + 1 \in 1 .. n + 1
    BY <1>1
  <2> QED BY <1>1, <1>6, <1>7, <2>1, <2>2
<1> QED BY <1>1, <1>8, <1>9 DEF Good, GoodEnd, TurnsSettled, M

(* Once nothing is open after a user's turn, the messages are settled.     *)
LEMMA GoodSettled ==
  ASSUME NEW M \in Seq(MessagesOf(Blocks)), NEW pending, Good(M, pending),
         BackRole(M) = "user" => pending = {}
  PROVE  TurnsSettled(M)
<1>1. Len(M) \in Nat /\ DOMAIN M = 1 .. Len(M)
  BY LenProperties
<1>2. ASSUME NEW i \in DOMAIN M, M[i].role = "user" PROVE Waiting(M, pending, i) = {}
  <2>1. CASE i = Len(M)
    <3>1. M # <<>>
      OBVIOUS
    <3>2. BackRole(M) = "user"
      BY <1>2, <2>1, <3>1 DEF BackRole, Last
    <3> QED BY <3>2, <2>1 DEF Waiting
  <2>2. CASE i # Len(M)
    BY <2>2 DEF Waiting
  <2> QED BY <2>1, <2>2
<1> QED BY <1>2 DEF Good, TurnsSettled

(* One more block in the last message.                                     *)
LEMMA TextIsGood ==
  ASSUME NEW front, NEW m \in MessagesOf(Blocks), NEW pending, GoodEnd(front, m, pending),
         NEW b \in Blocks, b.kind = "text", m.role = "user" => pending = {}
  PROVE  GoodEnd(front, Longer(m, b), pending)
<1>1. Longer(m, b) \in MessagesOf(Blocks) /\ Longer(m, b).role = m.role
  BY LongerType
<1>2. m.role = "user" => Answers(CallsOfLast(front), Longer(m, b), pending)
  BY OtherAnswers DEF GoodEnd
<1>3. Of(Longer(m, b), "call") = Of(m, "call")
  <2>1. /\ Of(m, "call") \in Seq(Blocks)
        /\ b.kind = "call" => Of(Longer(m, b), "call") = Append(Of(m, "call"), b)
        /\ b.kind # "call" => Of(Longer(m, b), "call") = Of(m, "call")
    BY OfLonger
  <2> QED BY <2>1
<1> QED BY <1>1, <1>2, <1>3 DEF GoodEnd

LEMMA CallIsGood ==
  ASSUME NEW front, NEW m \in MessagesOf(Blocks), NEW pending, GoodEnd(front, m, pending),
         NEW b \in Blocks, b.kind = "call", m.role = "assistant", b.id \notin pending
  PROVE  GoodEnd(front, Longer(m, b), pending \cup {b.id})
<1>1. Longer(m, b) \in MessagesOf(Blocks) /\ Longer(m, b).role = m.role
  BY LongerType
<1>2. Of(m, "call") \in Seq(Blocks) /\ Of(Longer(m, b), "call") = Append(Of(m, "call"), b)
  BY OfLonger
<1>3. /\ Ids(Append(Of(m, "call"), b)) = Ids(Of(m, "call")) \cup {b.id}
      /\ Len(Append(Of(m, "call"), b)) = Len(Of(m, "call")) + 1
  BY <1>2, IdsLaws, AppendProperties
<1>4. /\ IsFiniteSet(pending) /\ TurnsSettled(front) /\ BackRole(front) # m.role
      /\ pending = Ids(Of(m, "call")) /\ Cardinality(pending) = Len(Of(m, "call"))
  BY DEF GoodEnd
<1>5. /\ IsFiniteSet(pending \cup {b.id})
      /\ Cardinality(pending \cup {b.id}) = Cardinality(pending) + 1
  BY <1>4, FS_AddElement
<1> QED BY <1>1, <1>2, <1>3, <1>4, <1>5 DEF GoodEnd

LEMMA ResultIsGood ==
  ASSUME NEW front, NEW m \in MessagesOf(Blocks), NEW pending, GoodEnd(front, m, pending),
         NEW b \in Blocks, b.kind = "result", m.role = "user", b.id \in pending
  PROVE  GoodEnd(front, Longer(m, b), pending \ {b.id})
<1>1. Longer(m, b) \in MessagesOf(Blocks) /\ Longer(m, b).role = m.role
  BY LongerType
<1>2. /\ IsFiniteSet(pending) /\ TurnsSettled(front) /\ BackRole(front) # m.role
      /\ Answers(CallsOfLast(front), m, pending)
  BY DEF GoodEnd
<1>3. Answers(CallsOfLast(front), Longer(m, b), pending \ {b.id})
  BY <1>2, ResultAnswers
<1>4. IsFiniteSet(pending \ {b.id})
  BY <1>2, FS_RemoveElement
<1> QED BY <1>1, <1>2, <1>3, <1>4 DEF GoodEnd

(* A message that begins, where it may.                                    *)
LEMMA BeginIsGood ==
  ASSUME NEW M \in Seq(MessagesOf(Blocks)), NEW pending, Good(M, pending),
         NEW role \in Roles, BackRole(M) # role, BackRole(M) = "user" => pending = {}
  PROVE  GoodEnd(M, [role |-> role, content |-> <<>>], pending)
<1> DEFINE m == [role |-> role, content |-> <<>>]
<1>1. m.role = role
  OBVIOUS
<1>2. TurnsSettled(M) /\ IsFiniteSet(pending)
  BY GoodSettled DEF Good
<1>3. BackRole(M) \in Roles \cup {"none"} /\ (M = <<>> <=> BackRole(M) = "none")
  <2>1. CASE M = <<>>
    BY <2>1 DEF BackRole
  <2>2. CASE M # <<>>
    <3>1. PICK front \in Seq(MessagesOf(Blocks)), l \in MessagesOf(Blocks) : M = Append(front, l)
      BY <2>2, SequenceEmptyOrAppend
    <3>2. BackRole(M) = l.role
      BY <3>1, LastOfAppend
    <3>3. l.role \in Roles
      BY <3>1 DEF MessagesOf
    <3> QED BY <2>2, <3>2, <3>3 DEF Roles
  <2> QED BY <2>1, <2>2
<1>4. ASSUME role = "user" PROVE Answers(CallsOfLast(M), m, pending)
  <2>1. CASE M = <<>>
    <3>1. pending = {} /\ CallsOfLast(M) = <<>>
      BY <2>1 DEF Good, CallsOfLast
    <3>2. Ids(<<>>) = {} /\ Cardinality({}) = 0 /\ Len(<<>>) = 0
      BY FS_EmptySet DEF Ids
    <3>3. Answers(<<>>, m, Ids(<<>>))
      BY <3>2, NothingAnswers
    <3> QED BY <3>1, <3>2, <3>3
  <2>2. CASE M # <<>>
    <3>1. BackRole(M) = "assistant"
      BY <1>3, <1>4, <2>2 DEF Roles
    <3>2. pending = Ids(CallsOfLast(M)) /\ Cardinality(pending) = Len(CallsOfLast(M))
      BY <2>2, <3>1 DEF Good, CallsOfLast
    <3>3. Cardinality(pending) \in Nat
      BY <1>2, FS_CardinalityType
    <3> QED BY <3>2, <3>3, NothingAnswers
  <2> QED BY <2>1, <2>2
<1>5. ASSUME role = "assistant"
      PROVE  pending = Ids(Of(m, "call")) /\ Cardinality(pending) = Len(Of(m, "call"))
  <2>1. pending = {}
    BY <1>3, <1>5 DEF Good, Roles
  <2>2. Of(m, "call") = <<>>
    BY OfNothing
  <2>3. Ids(<<>>) = {} /\ Cardinality({}) = 0 /\ Len(<<>>) = 0
    BY FS_EmptySet DEF Ids
  <2> QED BY <2>1, <2>2, <2>3
<1> HIDE DEF m
<1> SUFFICES GoodEnd(M, m, pending)
  BY DEF m
<1> QED BY <1>1, <1>2, <1>4, <1>5 DEF GoodEnd

(* What joins the last message is said after all else.                     *)
LEMMA SentLonger ==
  ASSUME NEW front \in Seq(MessagesOf(Blocks)), NEW m \in MessagesOf(Blocks), NEW b \in Blocks
  PROVE  Sent(Append(front, Longer(m, b))) = Append(Sent(Append(front, m)), b)
<1>1. /\ Longer(m, b) \in MessagesOf(Blocks)
      /\ Longer(m, b).content = Append(m.content, b)
  BY LongerType
<1>2. m.content \in Seq(Blocks)
  BY DEF MessagesOf
<1>3. Sent(front) \in Seq(Blocks) /\ Sent(Append(front, m)) = Sent(front) \o m.content
  BY SentLaws
<1>4. Sent(Append(front, Longer(m, b))) = Sent(front) \o Append(m.content, b)
  BY <1>1, SentLaws
<1> DEFINE f == Sent(front)
           t == m.content
<1>5. f \in Seq(Blocks) /\ t \in Seq(Blocks)
  BY <1>2, <1>3
<1> HIDE DEF f, t
<1>6. f \o Append(t, b) = Append(f \o t, b)
  <2>1. /\ <<b>> \in Seq(Blocks) /\ f \o t \in Seq(Blocks)
    BY <1>5, ConcatProperties
  <2>2. Append(t, b) = t \o <<b>> /\ Append(f \o t, b) = (f \o t) \o <<b>>
    BY <1>5, <2>1, AppendIsConcat
  <2> QED BY <1>5, <2>1, <2>2, ConcatAssociative
<1> QED BY <1>3, <1>4, <1>6 DEF f, t

-----------------------------------------------------------------------------
(* Reading a part keeps a request that is fine, fine *)

(* The request with what was read so far, before and after a part: the     *)
(* block of the part joins the last message, which n is.                   *)
Grows(V, W, front, n, b) ==
  /\ front \in Seq(MessagesOf(Blocks)) /\ n \in MessagesOf(Blocks)
  /\ V = Append(front, n) /\ W = Append(front, Longer(n, b))
LEMMA PartGrows ==
  ASSUME NEW wire \in [Tools -> WireNames], NEW r \in PStates, ~r.refused,
         NEW role \in Roles, NEW part \in Parts,
         NEW q, PartRead(wire, r, role, part, q)
  PROVE  LET V == MergeBlocks(r, role)
             W == MergeBlocks(q, role)
         IN /\ \E front, n : /\ n.role = role
                             /\ Grows(V.messages, W.messages, front, n, AsBlock(wire, part))
            /\ V \in PStates /\ W \in PStates
            /\ V.pending = r.pending /\ V.calls = r.calls /\ V.names = r.names
            /\ V.ordinary = r.ordinary /\ V.refused = r.refused
            /\ W.pending = q.pending /\ W.calls = q.calls /\ W.names = q.names
            /\ W.ordinary = q.ordinary /\ W.refused = q.refused
<1> DEFINE V == MergeBlocks(r, role)
           W == MergeBlocks(q, role)
           b == AsBlock(wire, part)
<1>1. b \in Blocks
  BY AsBlockType
<1>2. /\ q \in PStates /\ q.messages = r.messages /\ q.blocks = Append(r.blocks, b)
      /\ r.messages \in Seq(MessagesOf(Blocks)) /\ r.blocks \in Seq(Blocks)
  BY DEF PartRead, PStates
<1>3. PICK front, m : Joined(r.messages, role, front, m)
  BY <1>2, Joining
<1> DEFINE n == Wider(m, r.blocks)
           k == Wider(m, q.blocks)
<1>4. /\ n \in MessagesOf(Blocks) /\ n.role = role /\ V \in PStates
      /\ V.messages = Append(front, n)
      /\ V.pending = r.pending /\ V.calls = r.calls /\ V.names = r.names
      /\ V.ordinary = r.ordinary /\ V.refused = r.refused
  <2>1. Merged(r, role, front, m, V)
    BY <1>3, Merging
  <2> QED BY <2>1 DEF Merged
<1>5. /\ W \in PStates /\ W.messages = Append(front, k)
      /\ W.pending = q.pending /\ W.calls = q.calls /\ W.names = q.names
      /\ W.ordinary = q.ordinary /\ W.refused = q.refused
  <2>1. Joined(q.messages, role, front, m)
    BY <1>2, <1>3, Zenon
  <2>2. Merged(q, role, front, m, W)
    BY <1>2, <2>1, Merging
  <2> QED BY <2>2 DEF Merged
<1>6. k = Longer(n, b)
  <2>1. front \in Seq(MessagesOf(Blocks)) /\ m \in MessagesOf(Blocks) /\ m.content \in Seq(Blocks)
    BY <1>3 DEF Joined, MessagesOf
  <2>2. m.content \o q.blocks = Append(m.content \o r.blocks, b)
    <3> DEFINE f == m.content
               t == r.blocks
    <3>1. f \in Seq(Blocks) /\ t \in Seq(Blocks)
      BY <1>2, <2>1
    <3> HIDE DEF f, t, b
    <3>2. f \o Append(t, b) = Append(f \o t, b)
      BY <1>1, <3>1, ConcatAppend
    <3> QED BY <1>2, <3>2 DEF f, t
  <2>3. n.content = m.content \o r.blocks
    BY <2>1 DEF MessagesOf, Wider
  <2>4. k = [n EXCEPT !.content = Append(n.content, b)]
    BY <2>2, <2>3 DEF Wider
  <2> QED BY <2>4 DEF Longer
<1>7. front \in Seq(MessagesOf(Blocks))
  BY <1>3 DEF Joined
<1> HIDE DEF V, W, n, k, b
<1>8. Grows(V.messages, W.messages, front, n, b)
  BY <1>4, <1>5, <1>6, <1>7 DEF Grows
<1> QED BY <1>4, <1>5, <1>8 DEF V, W, b

Goes(V, W, role, block) ==
  /\ W.messages # <<>> /\ BackRole(W.messages) = role
  /\ W.messages[1].role = V.messages[1].role
  /\ Sent(W.messages) = Append(Sent(V.messages), block)
  /\ V.names \subseteq W.names
LEMMA PartKept ==
  ASSUME NEW wire \in [Tools -> WireNames], NEW r \in PStates,
         NEW role \in Roles, NEW part \in Parts,
         Fine(wire, MergeBlocks(r, role)),
         ~PreparePart(wire, r, role, part).refused
  PROVE  LET V == MergeBlocks(r, role)
             W == MergeBlocks(PreparePart(wire, r, role, part), role)
         IN /\ Fine(wire, W) /\ Goes(V, W, role, AsBlock(wire, part))
<1> DEFINE q == PreparePart(wire, r, role, part)
           V == MergeBlocks(r, role)
           W == MergeBlocks(q, role)
           b == AsBlock(wire, part)
<1> SUFFICES Fine(wire, W) /\ Goes(V, W, role, b)
  OBVIOUS
<1>1. ~r.refused /\ ~q.refused
  BY PartType
<1>2. PartRead(wire, r, role, part, q)
  BY <1>1, ReadsPart
<1> HIDE DEF q
<1>3. PICK front, n : n.role = role /\ Grows(V.messages, W.messages, front, n, b)
  <2>1. \E front, n : n.role = role /\ Grows(V.messages, W.messages, front, n, b)
    BY <1>1, <1>2, PartGrows
  <2> QED BY <2>1
<1>4. /\ V \in PStates /\ W \in PStates
      /\ V.pending = r.pending /\ V.calls = r.calls /\ V.names = r.names
      /\ V.ordinary = r.ordinary
      /\ W.pending = q.pending /\ W.calls = q.calls /\ W.names = q.names
      /\ W.ordinary = q.ordinary
  BY <1>1, <1>2, PartGrows
<1>5. b \in Blocks /\ b.kind = part.kind
  BY AsBlockType
<1>6. Fine(wire, V)
  OBVIOUS
<1> HIDE DEF V, W
<1>7. /\ front \in Seq(MessagesOf(Blocks)) /\ n \in MessagesOf(Blocks)
      /\ V.messages = Append(front, n) /\ W.messages = Append(front, Longer(n, b))
      /\ Longer(n, b) \in MessagesOf(Blocks) /\ Longer(n, b).role = role
  <2>1. /\ front \in Seq(MessagesOf(Blocks)) /\ n \in MessagesOf(Blocks)
        /\ V.messages = Append(front, n) /\ W.messages = Append(front, Longer(n, b))
    BY <1>3 DEF Grows
  <2> QED BY <1>3, <1>5, <2>1, LongerType
<1>8. Goes(V, W, role, b)
  <2>1. W.messages # <<>> /\ BackRole(W.messages) = role
    BY <1>7, LastOfAppend
  <2>2. Sent(W.messages) = Append(Sent(V.messages), b)
    BY <1>5, <1>7, SentLonger
  <2>3. W.messages[1].role = V.messages[1].role
    <3>1. Len(front) \in Nat
      BY <1>7, LenProperties
    <3>2. CASE Len(front) = 0
      <4>1. W.messages[1] = Longer(n, b) /\ V.messages[1] = n
        BY <1>7, <3>2, LastOfAppend
      <4> QED BY <4>1, <1>3, <1>7
    <3>3. CASE Len(front) # 0
      <4>1. 1 \in 1 .. Len(front)
        BY <3>1, <3>3
      <4>2. W.messages[1] = front[1] /\ V.messages[1] = front[1]
        BY <1>7, <4>1, LastOfAppend
      <4> QED BY <4>2
    <3> QED BY <3>2, <3>3
  <2>4. V.names \subseteq W.names
    BY <1>2, <1>4, PartKinds DEF PartRead
  <2> QED BY <2>1, <2>2, <2>3, <2>4 DEF Goes
<1>9. GoodEnd(front, n, r.pending)
  BY <1>4, <1>6, <1>7, GoodAppend DEF Fine
<1>10. BackRole(V.messages) = role /\ BackRole(W.messages) = role
  BY <1>3, <1>7, LastOfAppend
<1>11. /\ V.pending \subseteq V.calls
       /\ V.ordinary => V.pending = {} /\ role = "user"
       /\ \A s, t \in V.names : wire[s] = wire[t] => s = t
  BY <1>6, <1>10 DEF Fine
<1>12. CASE part.kind = "text"
  <2>1. /\ q.names = r.names /\ q.pending = r.pending /\ q.calls = r.calls
        /\ role = "user" => r.pending = {}
        /\ q.ordinary = (r.ordinary \/ role = "user")
    BY <1>1, <1>2, <1>12 DEF PartRead
  <2>2. GoodEnd(front, Longer(n, b), q.pending)
    BY <1>3, <1>5, <1>7, <1>9, <1>12, <2>1, TextIsGood
  <2>3. Good(W.messages, W.pending)
    BY <1>4, <1>7, <2>2, GoodAppend
  <2>4. W.pending \subseteq W.calls
    BY <1>4, <1>11, <2>1
  <2>5. W.ordinary => W.pending = {} /\ BackRole(W.messages) = "user"
    BY <1>4, <1>10, <1>11, <2>1
  <2>6. \A s, t \in W.names : wire[s] = wire[t] => s = t
    BY <1>4, <1>11, <2>1
  <2> QED BY <1>8, <2>3, <2>4, <2>5, <2>6, Zenon DEF Fine
<1>13. CASE part.kind = "call"
  <2>1. /\ q.names = r.names \cup {part.tool}
        /\ q.pending = r.pending \cup {part.id} /\ q.calls = r.calls \cup {part.id}
        /\ role = "assistant" /\ part.id \notin r.calls
        /\ \A other \in r.names \ {part.tool} : wire[other] # wire[part.tool]
        /\ q.ordinary = r.ordinary
    BY <1>1, <1>2, <1>13 DEF PartRead, PStates
  <2>2. b.id = part.id
    BY <1>13 DEF AsBlock
  <2>3. part.id \notin r.pending
    BY <1>4, <1>11, <2>1
  <2>4. GoodEnd(front, Longer(n, b), q.pending)
    BY <1>3, <1>5, <1>7, <1>9, <1>13, <2>1, <2>2, <2>3, CallIsGood
  <2>5. Good(W.messages, W.pending)
    BY <1>4, <1>7, <2>4, GoodAppend
  <2>6. \A s, t \in W.names : wire[s] = wire[t] => s = t
    BY <1>4, <1>11, <2>1
  <2>7. ~W.ordinary
    BY <1>4, <1>11, <2>1
  <2>8. W.pending \subseteq W.calls
    BY <1>4, <1>11, <2>1
  <2> QED BY <1>8, <2>5, <2>6, <2>7, <2>8, Zenon DEF Fine
<1>14. CASE part.kind = "result"
  <2>1. /\ q.names = r.names /\ q.pending = r.pending \ {part.id} /\ q.calls = r.calls
        /\ role = "user" /\ ~r.ordinary /\ part.id \in r.pending
        /\ q.ordinary = r.ordinary
    BY <1>1, <1>2, <1>14 DEF PartRead, PStates
  <2>2. b.id = part.id
    BY <1>14 DEF AsBlock
  <2>3. GoodEnd(front, Longer(n, b), q.pending)
    BY <1>3, <1>5, <1>7, <1>9, <1>14, <2>1, <2>2, ResultIsGood
  <2>4. Good(W.messages, W.pending)
    BY <1>4, <1>7, <2>3, GoodAppend
  <2>5. W.pending \subseteq W.calls
    BY <1>4, <1>11, <2>1
  <2>6. ~W.ordinary
    BY <1>4, <2>1
  <2>7. \A s, t \in W.names : wire[s] = wire[t] => s = t
    BY <1>4, <1>11, <2>1
  <2> QED BY <1>8, <2>4, <2>5, <2>6, <2>7, Zenon DEF Fine
<1> QED BY <1>12, <1>13, <1>14, PartKinds

(* A message that begins changes nothing that was said, and keeps a        *)
(* request fine.                                                           *)
Starts(p, V, role) ==
  /\ V.names = p.names /\ V.pending = p.pending /\ V.calls = p.calls
  /\ V.messages[1].role = IF p.messages = <<>> THEN role ELSE p.messages[1].role
  /\ Sent(V.messages) = Sent(p.messages)
LEMMA BegunKept ==
  ASSUME NEW wire, NEW p \in PStates, Fine(wire, p), NEW role \in Roles,
         ~Begun(p, role).refused
  PROVE  /\ Fine(wire, MergeBlocks(Begun(p, role), role))
         /\ Starts(p, MergeBlocks(Begun(p, role), role), role)
<1> DEFINE r == Begun(p, role)
           V == MergeBlocks(r, role)
           M == p.messages
<1> SUFFICES Fine(wire, V) /\ Starts(p, V, role)
  OBVIOUS
<1>1. /\ r \in PStates /\ r.names = p.names /\ r.messages = M /\ r.pending = p.pending
      /\ r.calls = p.calls /\ r.blocks = <<>> /\ r.ordinary = FALSE
      /\ ~(BackRole(M) = "user" /\ role = "assistant" /\ p.pending # {})
  BY BegunType
<1>2. M \in Seq(MessagesOf(Blocks))
  BY DEF PStates
<1> HIDE DEF r
<1>3. PICK front, m : Joined(M, role, front, m)
  BY <1>2, Joining
<1>4. Merged(r, role, front, m, V)
  BY <1>1, <1>3, Merging
<1>5. /\ front \in Seq(MessagesOf(Blocks)) /\ m \in MessagesOf(Blocks) /\ m.role = role
      /\ m.content \in Seq(Blocks)
  BY <1>3 DEF Joined, MessagesOf
<1>6. Wider(m, r.blocks) = m
  <2>1. m.content \o <<>> = m.content
    BY <1>5, ConcatEmptySeq
  <2> QED BY <1>1, <1>5, <2>1 DEF Wider, MessagesOf
<1> HIDE DEF V, M
<1>7. /\ V.messages = Append(front, m) /\ V.names = p.names /\ V.pending = p.pending
      /\ V.calls = p.calls /\ ~V.ordinary
  BY <1>1, <1>4, <1>6 DEF Merged
<1>8. Sent(V.messages) = Sent(M) /\ Good(V.messages, p.pending)
      /\ V.messages[1].role = IF M = <<>> THEN role ELSE M[1].role
  <2>0. Good(M, p.pending)
    BY DEF Fine, M
  <2>1. CASE BackRole(M) = role
    <3>1. V.messages = M /\ M # <<>>
      BY <1>7, <1>3, <1>5, <2>1, LastOfAppend DEF Joined
    <3> QED BY <3>1, <2>0
  <2>2. CASE BackRole(M) # role
    <3>1. M = front /\ m.content = <<>>
      BY <1>3, <2>2 DEF Joined
    <3>2. m = [role |-> role, content |-> <<>>]
      BY <1>5, <3>1 DEF MessagesOf
    <3>3. BackRole(M) = "user" => p.pending = {}
      BY <1>1, <2>2 DEF Roles
    <3>4. GoodEnd(M, m, p.pending)
      BY <1>2, <2>0, <2>2, <3>2, <3>3, BeginIsGood
    <3>5. Good(V.messages, p.pending)
      BY <1>5, <1>7, <3>1, <3>4, GoodAppend
    <3>6. Sent(V.messages) = Sent(M)
      <4>1. Sent(V.messages) = Sent(M) \o m.content /\ Sent(M) \in Seq(Blocks)
        BY <1>2, <1>5, <1>7, <3>1, SentLaws
      <4>2. Sent(M) \o <<>> = Sent(M)
        BY <4>1, ConcatEmptySeq
      <4> QED BY <3>1, <4>1, <4>2
    <3>7. V.messages[1].role = IF M = <<>> THEN role ELSE M[1].role
      <4>1. Len(M) \in Nat /\ (M = <<>> <=> Len(M) = 0)
        BY <1>2, LenProperties, EmptySeq
      <4>2. CASE Len(M) = 0
        <5>1. V.messages[1] = m
          BY <1>5, <1>7, <3>1, <4>2, LastOfAppend
        <5> QED BY <5>1, <1>5, <4>1, <4>2
      <4>3. CASE Len(M) # 0
        <5>1. 1 \in 1 .. Len(M)
          BY <4>1, <4>3
        <5>2. V.messages[1] = M[1]
          BY <1>5, <1>7, <3>1, <5>1, LastOfAppend
        <5> QED BY <5>2, <4>1, <4>3
      <4> QED BY <4>2, <4>3
    <3> QED BY <3>5, <3>6, <3>7
  <2> QED BY <2>1, <2>2
<1>9. Starts(p, V, role)
  BY <1>7, <1>8 DEF Starts, M
<1>10. /\ V.pending \subseteq V.calls
       /\ \A s, t \in V.names : wire[s] = wire[t] => s = t
  BY <1>7 DEF Fine
<1>11. Good(V.messages, V.pending)
  BY <1>7, <1>8
<1> QED BY <1>7, <1>9, <1>10, <1>11, Zenon DEF Fine

-----------------------------------------------------------------------------
(* A part that is put into a conversation *)

(* d is c with one more part, in the last message or in one of its own.    *)
PutIn(c, d, role, part) ==
  /\ d.source = c.source /\ d.wire = c.wire /\ d.declared = c.declared
  /\ d.given = Append(c.given, [role |-> role, part |-> part])
  /\ \/ d.messages = NewMessage(c.messages, role, part)
     \/ BackRole(c.messages) = role /\ d.messages = Continue(c.messages, part)

LEMMA PutInEnds ==
  ASSUME NEW M \in Seq(MessagesOf(Parts)), NEW role \in Roles, NEW part \in Parts, NEW N,
         \/ N = NewMessage(M, role, part)
         \/ BackRole(M) = role /\ N = Continue(M, part)
  PROVE  /\ N \in Seq(MessagesOf(Parts)) /\ N # <<>> /\ BackRole(N) = role
         /\ N[1].role = IF M = <<>> THEN role ELSE M[1].role
<1>0. Len(M) \in Nat /\ (M = <<>> <=> Len(M) = 0)
  BY LenProperties, EmptySeq
<1>1. CASE N = NewMessage(M, role, part)
  <2> DEFINE m == [role |-> role, content |-> <<part>>]
  <2>1. m \in MessagesOf(Parts) /\ m.role = role /\ N = Append(M, m)
    BY <1>1 DEF MessagesOf, NewMessage
  <2> HIDE DEF m
  <2>2. N \in Seq(MessagesOf(Parts)) /\ N # <<>> /\ BackRole(N) = role
    BY <2>1, LastOfAppend
  <2>3. N[Len(M) + 1] = m /\ \A i \in 1 .. Len(M) : N[i] = M[i]
    BY <2>1, LastOfAppend
  <2>4. N[1].role = IF M = <<>> THEN role ELSE M[1].role
    <3>1. CASE Len(M) = 0
      BY <1>0, <2>1, <2>3, <3>1
    <3>2. CASE Len(M) # 0
      <4>1. 1 \in 1 .. Len(M)
        BY <1>0, <3>2
      <4> QED BY <1>0, <2>3, <3>2, <4>1
    <3> QED BY <3>1, <3>2
  <2> QED BY <2>2, <2>4
<1>2. CASE BackRole(M) = role /\ N = Continue(M, part)
  <2>1. M # <<>>
    BY <1>2 DEF BackRole, Roles
  <2>2. PICK front \in Seq(MessagesOf(Parts)), m \in MessagesOf(Parts) : M = Append(front, m)
    BY <2>1, SequenceEmptyOrAppend
  <2>3. BackRole(M) = m.role
    BY <2>2, LastOfAppend
  <2> DEFINE n == Longer(m, part)
  <2>4. n \in MessagesOf(Parts) /\ n.role = role
    BY <1>2, <2>2, <2>3, LongerType
  <2>5. N = Append(front, n)
    <3>1. Continue(Append(front, m), part) = Append(front, n)
      BY <2>2, Continued
    <3> QED BY <3>1, <1>2, <2>2
  <2> HIDE DEF n
  <2>6. N \in Seq(MessagesOf(Parts)) /\ N # <<>> /\ BackRole(N) = role
    BY <2>2, <2>4, <2>5, LastOfAppend
  <2>7. /\ N[Len(front) + 1] = n /\ \A i \in 1 .. Len(front) : N[i] = front[i]
    BY <2>2, <2>4, <2>5, LastOfAppend
  <2>8. /\ M[Len(front) + 1] = m /\ \A i \in 1 .. Len(front) : M[i] = front[i]
    BY <2>2, LastOfAppend
  <2>9. N[1].role = M[1].role
    <3>1. Len(front) \in Nat
      BY <2>2, LenProperties
    <3>2. CASE Len(front) = 0
      BY <1>2, <2>3, <2>4, <2>7, <2>8, <3>2
    <3>3. CASE Len(front) # 0
      <4>1. 1 \in 1 .. Len(front)
        BY <3>1, <3>3
      <4> QED BY <2>7, <2>8, <4>1
    <3> QED BY <3>2, <3>3
  <2> QED BY <2>1, <2>6, <2>9
<1> QED BY <1>1, <1>2

LEMMA PutInReads ==
  ASSUME NEW c \in Conversations, NEW d \in Conversations, NEW role \in Roles,
         NEW part \in Parts, PutIn(c, d, role, part)
  PROVE  \E r : ReadAt(c, d, role, part, r)
<1>1. d.wire = c.wire /\ d.declared = c.declared
  BY DEF PutIn
<1>2. CASE d.messages = NewMessage(c.messages, role, part)
  BY <1>1, <1>2, NewPart
<1>3. CASE BackRole(c.messages) = role /\ d.messages = Continue(c.messages, part)
  BY <1>1, <1>3, MorePart
<1> QED BY <1>2, <1>3 DEF PutIn

(* Where the part is read, nothing is refused that was not, and what was   *)
(* said before is as it was.                                               *)
LEMMA ReadsFine ==
  ASSUME NEW c \in Conversations, NEW d, NEW role \in Roles, NEW part,
         NEW r, ReadAt(c, d, role, part, r), ~r.refused,
         ~PrepareMessages(c).refused => Fine(c.wire, PrepareMessages(c))
  PROVE  /\ ~PrepareMessages(c).refused
         /\ Fine(c.wire, MergeBlocks(r, role))
         /\ Starts(PrepareMessages(c), MergeBlocks(r, role), role)
<1> DEFINE p == PrepareMessages(c)
<1>0. p \in PStates /\ r \in PStates
  BY PreparedLaws DEF ReadAt
<1>1. CASE r = Begun(p, role)
  <2>1. ~p.refused
    <3> HIDE DEF p
    <3> QED BY <1>0, <1>1, BegunType
  <2>2. Fine(c.wire, p)
    BY <2>1
  <2> HIDE DEF p
  <2>3. /\ Fine(c.wire, MergeBlocks(r, role)) /\ Starts(p, MergeBlocks(r, role), role)
    BY <1>0, <1>1, <2>2, BegunKept
  <2> QED BY <2>1, <2>3 DEF p
<1>2. CASE BackRole(c.messages) = role /\ p = MergeBlocks(r, role)
  <2>1. r.messages \in Seq(MessagesOf(Blocks))
    BY <1>0 DEF PStates
  <2>2. PICK front, m : Joined(r.messages, role, front, m)
    BY <2>1, Joining
  <2>3. Merged(r, role, front, m, p)
    BY <1>0, <1>2, <2>2, Merging
  <2>4. ~p.refused
    BY <2>3 DEF Merged
  <2>5. front \in Seq(MessagesOf(Blocks)) /\ Wider(m, r.blocks) \in MessagesOf(Blocks)
    BY <2>2, <2>3 DEF Joined, Merged
  <2>6. p.messages = Append(front, Wider(m, r.blocks))
    BY <2>3 DEF Merged
  <2>7. p.messages # <<>>
    BY <2>5, <2>6, LastOfAppend
  <2>8. Starts(p, p, role)
    BY <2>7 DEF Starts
  <2> QED BY <1>2, <2>4, <2>8
<1> QED BY <1>1, <1>2 DEF ReadAt

(* A part keeps a conversation faithful.                                   *)
LEMMA FaithfulPart ==
  ASSUME NEW c \in Conversations, NEW d \in Conversations, NEW role \in Roles,
         NEW part \in Parts, PutIn(c, d, role, part), Faithful(c)
  PROVE  Faithful(d)
<1> DEFINE p == PrepareMessages(c)
           e == PrepareMessages(d)
<1> SUFFICES ASSUME ~e.refused
             PROVE  /\ Fine(d.wire, e) /\ d.declared \subseteq e.names
                    /\ SameEnds(e.messages, d.messages) /\ Sent(e.messages) = AsGiven(d)
  BY DEF Faithful
<1>1. PICK r : ReadAt(c, d, role, part, r)
  BY PutInReads
<1> DEFINE q == PreparePart(c.wire, r, role, part)
           V == MergeBlocks(r, role)
           b == AsBlock(c.wire, part)
<1>2. r \in PStates /\ e = MergeBlocks(q, role) /\ c.wire \in [Tools -> WireNames]
  BY <1>1 DEF ReadAt, Conversations
<1>3. q \in PStates /\ (r.refused => q = r)
  BY <1>2, PartType
<1>4. ~q.refused
  <2>1. q.messages \in Seq(MessagesOf(Blocks))
    BY <1>3 DEF PStates
  <2>2. PICK front, m : Joined(q.messages, role, front, m)
    BY <2>1, Joining
  <2>3. Merged(q, role, front, m, e)
    BY <1>2, <1>3, <2>2, Merging
  <2> QED BY <2>3 DEF Merged
<1>5. ~r.refused
  BY <1>3, <1>4
<1>6. ~p.refused => Fine(c.wire, p)
  BY DEF Faithful
<1>7. ~p.refused /\ Fine(c.wire, V) /\ Starts(p, V, role)
  BY <1>1, <1>5, <1>6, ReadsFine
<1>8. c.declared \subseteq p.names /\ SameEnds(p.messages, c.messages)
      /\ Sent(p.messages) = AsGiven(c)
  BY <1>7 DEF Faithful
<1>9. Fine(c.wire, e) /\ Goes(V, e, role, b)
  BY <1>2, <1>4, <1>7, PartKept
<1>10. /\ d.wire = c.wire /\ d.declared = c.declared
       /\ d.given = Append(c.given, [role |-> role, part |-> part])
  BY DEF PutIn
<1> HIDE DEF p, e, q, V, b
<1>11. Fine(d.wire, e) /\ d.declared \subseteq e.names
  BY <1>7, <1>8, <1>9, <1>10 DEF Goes, Starts
<1>12. Sent(e.messages) = AsGiven(d)
  <2> DEFINE g == [role |-> role, part |-> part]
  <2>1. g \in GivenParts /\ g.role # "system" /\ g.part = part
    BY DEF GivenParts, Roles
  <2> HIDE DEF g
  <2>2. d.given = Append(c.given, g)
    BY <1>10 DEF g
  <2>3. AsGiven(d) = Append(AsGiven(c), b)
    BY <1>10, <2>1, <2>2, GivenLaws DEF b
  <2> QED BY <1>7, <1>8, <1>9, <2>3 DEF Goes, Starts
<1>13. SameEnds(e.messages, d.messages)
  <2>1. /\ d.messages # <<>> /\ BackRole(d.messages) = role
        /\ d.messages[1].role = IF c.messages = <<>> THEN role ELSE c.messages[1].role
    <3>1. c.messages \in Seq(MessagesOf(Parts))
      BY DEF Conversations
    <3>2. \/ d.messages = NewMessage(c.messages, role, part)
          \/ BackRole(c.messages) = role /\ d.messages = Continue(c.messages, part)
      BY DEF PutIn
    <3> QED BY <3>1, <3>2, PutInEnds
  <2>2. /\ e.messages # <<>> /\ BackRole(e.messages) = role
        /\ e.messages[1].role = IF p.messages = <<>> THEN role ELSE p.messages[1].role
    BY <1>7, <1>9 DEF Goes, Starts
  <2>3. e.messages[1].role = d.messages[1].role
    BY <1>8, <2>1, <2>2 DEF SameEnds
  <2>4. (e.messages = <<>>) = (d.messages = <<>>)
    BY <2>1, <2>2
  <2> QED BY <2>1, <2>2, <2>3, <2>4 DEF SameEnds
<1> QED BY <1>11, <1>12, <1>13

(* What parseResponsesRequest requires of a part is enough for             *)
(* prepareRequest.                                                         *)
Fits(c, role, part) ==
  /\ part.kind = "text" /\ role = "user" => c.pending = {}
  /\ part.kind = "call" => role = "assistant" /\ part.id \notin c.calls
  /\ part.kind = "result" => role = "user" /\ part.id \in c.pending
  /\ BackRole(c.messages) # role /\ role = "assistant" => c.pending = {}
Books(c, d, part) ==
  /\ d.pending = CASE part.kind = "text" -> c.pending
                   [] part.kind = "call" -> c.pending \cup {part.id}
                   [] part.kind = "result" -> c.pending \ {part.id}
  /\ d.calls = IF part.kind = "call" THEN c.calls \cup {part.id} ELSE c.calls
LEMMA AcceptedPart ==
  ASSUME NEW c \in Conversations, NEW d \in Conversations, NEW role \in Roles,
         NEW part \in Parts, PutIn(c, d, role, part), Faithful(c), Accepted(c),
         Fits(c, role, part), Books(c, d, part)
  PROVE  Accepted(d)
<1> DEFINE p == PrepareMessages(c)
           e == PrepareMessages(d)
<1>0. d.source = c.source /\ d.wire = c.wire
  BY DEF PutIn
<1> SUFFICES ASSUME c.source = "responses", Distinct(c.wire)
             PROVE  ~e.refused /\ e.pending = d.pending /\ e.calls = d.calls
  BY <1>0 DEF Accepted
<1>1. PICK r : ReadAt(c, d, role, part, r)
  BY PutInReads
<1> DEFINE q == PreparePart(c.wire, r, role, part)
<1>2. r \in PStates /\ e = MergeBlocks(q, role) /\ c.wire \in [Tools -> WireNames]
      /\ p \in PStates
  BY <1>1, PreparedLaws DEF ReadAt, Conversations
<1>3. ~p.refused /\ p.pending = c.pending /\ p.calls = c.calls
  BY DEF Accepted
<1>4. Fine(c.wire, p) /\ SameEnds(p.messages, c.messages)
  BY <1>3 DEF Faithful
<1>5. /\ ~r.refused /\ r.pending = c.pending /\ r.calls = c.calls
      /\ r.ordinary => c.pending = {}
  <2>1. CASE r = Begun(p, role)
    <3>1. ~(BackRole(p.messages) = "user" /\ role = "assistant" /\ p.pending # {})
      BY <1>3, <1>4 DEF Fits, SameEnds
    <3> HIDE DEF p
    <3> QED BY <1>2, <1>3, <2>1, <3>1, BegunType
  <2>2. CASE p = MergeBlocks(r, role)
    <3>1. r.messages \in Seq(MessagesOf(Blocks))
      BY <1>2 DEF PStates
    <3>2. PICK front, m : Joined(r.messages, role, front, m)
      BY <3>1, Joining
    <3>3. Merged(r, role, front, m, p)
      BY <1>2, <2>2, <3>2, Merging
    <3> HIDE DEF p
    <3>4. p.refused = r.refused /\ p.pending = r.pending /\ p.calls = r.calls
          /\ p.ordinary = r.ordinary
      BY <3>3 DEF Merged
    <3>5. p.ordinary => p.pending = {}
      BY <1>4 DEF Fine
    <3> QED BY <1>3, <3>4, <3>5
  <2> QED BY <1>1, <2>1, <2>2 DEF ReadAt
<1>6. PartRead(c.wire, r, role, part, q)
  BY <1>2, <1>5, ReadsPart
<1>7. q \in PStates /\ ~q.refused /\ q.pending = d.pending /\ q.calls = d.calls
  <2> HIDE DEF q
  <2>0. q \in PStates
    BY <1>6 DEF PartRead
  <2>1. CASE part.kind = "text"
    BY <1>5, <1>6, <2>0, <2>1 DEF PartRead, Fits, Books
  <2>2. CASE part.kind = "call"
    <3>1. part.tool \in Tools
      BY <2>2, PartKinds
    <3>2. \A other \in r.names \ {part.tool} : c.wire[other] # c.wire[part.tool]
      BY <1>2, <3>1 DEF Distinct, PStates
    <3>3. role = "assistant" /\ part.id \notin r.calls
      BY <1>5, <2>2 DEF Fits
    <3>4. ~q.refused
      BY <1>6, <2>2, <3>2, <3>3, Zenon DEF PartRead
    <3>5. q.pending = d.pending /\ q.calls = d.calls
      BY <1>5, <1>6, <2>2 DEF PartRead, Books
    <3> QED BY <2>0, <3>4, <3>5
  <2>3. CASE part.kind = "result"
    <3>1. role = "user" /\ ~r.ordinary /\ part.id \in r.pending
      BY <1>5, <2>3 DEF Fits
    <3>2. ~q.refused
      BY <1>6, <2>3, <3>1, Zenon DEF PartRead
    <3>3. q.pending = d.pending /\ q.calls = d.calls
      BY <1>5, <1>6, <2>3 DEF PartRead, Books
    <3> QED BY <2>0, <3>2, <3>3
  <2> QED BY <2>1, <2>2, <2>3, PartKinds
<1>8. q.messages \in Seq(MessagesOf(Blocks))
  BY <1>7 DEF PStates
<1>9. PICK front, m : Joined(q.messages, role, front, m)
  BY <1>8, Joining
<1>10. Merged(q, role, front, m, e)
  BY <1>2, <1>7, <1>9, Merging
<1> HIDE DEF e, q
<1> QED BY <1>7, <1>10 DEF Merged

-----------------------------------------------------------------------------
(* The beginning *)

(* What declaring the tools leaves: their names, each written in its own   *)
(* way or refused.                                                         *)
Declares(wire, p, tools) ==
  /\ p.messages = <<>> /\ p.pending = {} /\ p.calls = {} /\ p.ordinary = FALSE
  /\ tools \subseteq p.names
  /\ ~p.refused => \A s, t \in p.names : wire[s] = wire[t] => s = t
  /\ Distinct(wire) => ~p.refused
LEMMA DeclareLaws ==
  ASSUME NEW c \in Conversations
  PROVE  Declares(c.wire, DeclareTools(c), c.declared)
<1> DEFINE op == Encoding(c.wire)
           base == PrepareStart(c)
           list == SetToSeq(c.declared)
           named(seq) == {seq[i] : i \in DOMAIN seq}
           G == {seq \in Seq(Tools) : Declares(c.wire, Folded(op, base, seq), named(seq))}
<1>1. op \in FoldSteps(PStates, Tools) /\ base \in PStates /\ list \in Seq(Tools)
  BY EncodesType, StartType, DeclaredList
<1>2. DeclareTools(c) = Folded(op, base, list)
  BY DeclareFolded
<1>3. c.declared \subseteq named(list)
  BY DeclaredList, Zenon
<1>4. \A s \in PStates, t \in Tools : op[<<s, t>>] = EncodeName(c.wire, s, t)
  BY DEF Encoding
<1>5. /\ base.messages = <<>> /\ base.pending = {} /\ base.calls = {}
      /\ base.ordinary = FALSE /\ base.names = {} /\ ~base.refused
  BY DEF PrepareStart
<1> HIDE DEF op, base, list
<1>6. /\ Folded(op, base, <<>>) = base
      /\ \A seq \in Seq(Tools) : Folded(op, base, seq) \in PStates
      /\ \A seq \in Seq(Tools), e \in Tools :
           Folded(op, base, Append(seq, e)) = op[<<Folded(op, base, seq), e>>]
  BY <1>1, FoldedLaws
<1>7. <<>> \in G
  <2>1. named(<<>>) = {}
    OBVIOUS
  <2> HIDE DEF named
  <2>2. Declares(c.wire, base, {})
    BY <1>5 DEF Declares
  <2> QED BY <1>6, <2>1, <2>2, EmptySeq
<1>8. ASSUME NEW seq \in Seq(Tools), NEW e \in Tools, seq \in G PROVE Append(seq, e) \in G
  <2> DEFINE p == Folded(op, base, seq)
             q == EncodeName(c.wire, p, e)
  <2>1. p \in PStates /\ Folded(op, base, Append(seq, e)) = q
    BY <1>4, <1>6
  <2>2. Append(seq, e) \in Seq(Tools) /\ named(Append(seq, e)) = named(seq) \cup {e}
    <3>1. /\ Append(seq, e) \in Seq(Tools) /\ Len(Append(seq, e)) = Len(seq) + 1
          /\ \A i \in 1 .. Len(seq) : Append(seq, e)[i] = seq[i]
          /\ Append(seq, e)[Len(seq) + 1] = e
      BY AppendProperties
    <3>2. Len(seq) \in Nat /\ DOMAIN seq = 1 .. Len(seq)
          /\ DOMAIN Append(seq, e) = 1 .. Len(seq) + 1
      BY <3>1, LenProperties
    <3>3. 1 .. Len(seq) + 1 = 1 .. Len(seq) \cup {Len(seq) + 1}
      BY <3>2
    <3> DEFINE a == Append(seq, e)
    <3> HIDE DEF a
    <3>4. {a[i] : i \in DOMAIN a} = {seq[i] : i \in DOMAIN seq} \cup {e}
      BY <3>1, <3>2, <3>3 DEF a
    <3> QED BY <3>1, <3>4 DEF a
  <2>3. Declares(c.wire, p, named(seq))
    BY <1>8
  <2> HIDE DEF p, named
  <2>4. /\ q.names = p.names \cup {e}
        /\ q.messages = p.messages /\ q.pending = p.pending /\ q.calls = p.calls
        /\ q.ordinary = p.ordinary
        /\ ~q.refused => ~p.refused /\ \A other \in p.names \ {e} : c.wire[other] # c.wire[e]
        /\ ~p.refused /\ (\A other \in p.names \ {e} : c.wire[other] # c.wire[e]) => ~q.refused
    BY <2>1 DEF EncodeName, Require, PStates
  <2> HIDE DEF q
  <2>5. q.messages = <<>> /\ q.pending = {} /\ q.calls = {} /\ q.ordinary = FALSE
    BY <2>3, <2>4 DEF Declares
  <2>6. named(seq) \cup {e} \subseteq q.names
    BY <2>3, <2>4 DEF Declares
  <2>7. ~q.refused => \A s, t \in q.names : c.wire[s] = c.wire[t] => s = t
    BY <2>3, <2>4 DEF Declares
  <2>8. Distinct(c.wire) => ~q.refused
    <3>1. p.names \subseteq Tools
      BY <2>1 DEF PStates
    <3>2. Distinct(c.wire) => \A other \in p.names \ {e} : c.wire[other] # c.wire[e]
      BY <3>1 DEF Distinct
    <3>3. Distinct(c.wire) => ~p.refused
      BY <2>3 DEF Declares
    <3> QED BY <2>4, <3>2, <3>3
  <2>9. Declares(c.wire, q, named(seq) \cup {e})
    BY <2>5, <2>6, <2>7, <2>8, Zenon DEF Declares
  <2>10. Declares(c.wire, Folded(op, base, Append(seq, e)), named(Append(seq, e)))
    BY <2>1, <2>2, <2>9
  <2> QED BY <2>2, <2>10
<1>9. list \in G
  <2>1. Seq(Tools) \subseteq G
    <3> HIDE DEF G
    <3> QED BY <1>7, <1>8, AppendInduction
  <2> QED BY <1>1, <2>1
<1>10. Declares(c.wire, Folded(op, base, list), named(list))
  BY <1>9
<1> HIDE DEF named
<1> QED BY <1>2, <1>3, <1>10 DEF Declares

LEMMA GoodNothing == Good(<<>>, {})
<1>1. IsFiniteSet({}) /\ BackRole(<<>>) = "none"
  BY FS_EmptySet DEF BackRole
<1> QED BY <1>1 DEF Good

LEMMA InitKept ==
  ASSUME NEW c \in Conversations, c.messages = <<>>, c.given = <<>>,
         c.pending = {}, c.calls = {}
  PROVE  Faithful(c) /\ Accepted(c) /\ Instructions(c)
<1> DEFINE p == PrepareMessages(c)
<1>1. p = DeclareTools(c)
  BY PreparedLaws
<1>2. Declares(c.wire, p, c.declared)
  BY <1>1, DeclareLaws
<1>3. Sent(<<>>) = <<>> /\ AsGiven(c) = <<>>
  <2>1. Sent(<<>>) = <<>>
    BY SentLaws, Zenon
  <2>2. [role |-> "system", part |-> Text] \in GivenParts
    BY DEF GivenParts, Parts
  <2>3. AsGiven(c) = <<>>
    BY <2>2, GivenLaws
  <2> QED BY <2>1, <2>3
<1> HIDE DEF p
<1>4. SameEnds(p.messages, c.messages)
  BY <1>2 DEF Declares, SameEnds
<1>5. ~p.refused => Fine(c.wire, p)
  BY <1>2, GoodNothing DEF Declares, Fine
<1>6. Faithful(c)
  BY <1>2, <1>3, <1>4, <1>5 DEF Declares, Faithful, p
<1>7. Accepted(c)
  BY <1>2 DEF Declares, Accepted, p
<1> QED BY <1>6, <1>7 DEF Instructions

LEMMA TranslationInitInv == TranslationInit => TranslationInv(conversation)
<1> SUFFICES ASSUME NEW source \in Sources, NEW wire \in [Tools -> WireNames],
                    NEW declared \in SUBSET Tools,
                    conversation = Conversation(source, wire, declared)
             PROVE  TranslationInv(conversation)
  BY DEF TranslationInit, Sources
<1> DEFINE c == Conversation(source, wire, declared)
<1>1. c \in Conversations
  BY EmptySeq DEF Conversation, Conversations
<1>2. c.messages = <<>> /\ c.given = <<>> /\ c.pending = {} /\ c.calls = {}
  BY DEF Conversation
<1> HIDE DEF c
<1>3. Faithful(c) /\ Accepted(c) /\ Instructions(c)
  BY <1>1, <1>2, InitKept
<1> QED BY <1>1, <1>2, <1>3 DEF TranslationInv, c

-----------------------------------------------------------------------------
(* Every step *)

(* One more part in what was given: an instruction only before the         *)
(* assistant spoke.                                                        *)
LEMMA InstructionsGiven ==
  ASSUME NEW c \in Conversations, Instructions(c), NEW d, NEW g \in GivenParts,
         d.given = Append(c.given, g), d.source = c.source,
         c.assistantSeen => d.assistantSeen,
         g.role = "system" => c.source = "responses" /\ ~c.assistantSeen,
         g.role = "assistant" /\ c.source = "responses" => d.assistantSeen
  PROVE  Instructions(d)
<1> DEFINE n == Len(c.given)
<1>1. /\ n \in Nat /\ DOMAIN c.given = 1 .. n /\ DOMAIN d.given = 1 .. n + 1
      /\ \A i \in 1 .. n : d.given[i] = c.given[i]
      /\ d.given[n + 1] = g
  <2>1. c.given \in Seq(GivenParts)
    BY DEF Conversations
  <2> QED BY <2>1, AppendProperties, LenProperties
<1> HIDE DEF n
<1>2. ASSUME NEW j \in 1 .. n
      PROVE  /\ d.given[j].role = "system" =>
                  d.source = "responses" /\ \A i \in 1 .. j : d.given[i].role # "assistant"
             /\ d.given[j].role = "assistant" /\ d.source = "responses" => d.assistantSeen
  <2>1. \A i \in 1 .. j : i \in 1 .. n
    BY <1>1
  <2> QED BY <1>1, <2>1 DEF Instructions
<1>3. /\ g.role = "system" =>
           d.source = "responses" /\ \A i \in 1 .. n + 1 : d.given[i].role # "assistant"
      /\ g.role = "assistant" /\ d.source = "responses" => d.assistantSeen
  <2>1. \A i \in 1 .. n + 1 : i \in 1 .. n \/ i = n + 1
    BY <1>1
  <2>2. ASSUME g.role = "system", NEW i \in 1 .. n PROVE d.given[i].role # "assistant"
    BY <1>1, <2>2 DEF Instructions
  <2>3. g.role = "system" => d.given[n + 1].role # "assistant"
    BY <1>1
  <2> QED BY <2>1, <2>2, <2>3
<1>4. \A j \in 1 .. n + 1 : j \in 1 .. n \/ j = n + 1
  BY <1>1
<1> QED BY <1>1, <1>2, <1>3, <1>4 DEF Instructions

(* What does not touch the messages, the names or the books keeps both.    *)
LEMMA SameKept ==
  ASSUME NEW c \in Conversations, NEW d \in Conversations, Faithful(c), Accepted(c),
         d.source = c.source, d.wire = c.wire, d.declared = c.declared,
         d.messages = c.messages, d.pending = c.pending, d.calls = c.calls,
         d.given = c.given \/ \E part \in Parts :
           d.given = Append(c.given, [role |-> "system", part |-> part])
  PROVE  Faithful(d) /\ Accepted(d)
<1>1. PrepareMessages(d) = PrepareMessages(c)
  BY PreparedAlike
<1>2. AsGiven(d) = AsGiven(c)
  <2>1. CASE d.given = c.given
    <3>1. [role |-> "system", part |-> Text] \in GivenParts
      BY DEF GivenParts, Parts
    <3> QED BY <2>1, <3>1, GivenLaws
  <2>2. ASSUME NEW part \in Parts,
               d.given = Append(c.given, [role |-> "system", part |-> part])
        PROVE  AsGiven(d) = AsGiven(c)
    <3> DEFINE g == [role |-> "system", part |-> part]
    <3>1. g \in GivenParts /\ g.role = "system" /\ d.given = Append(c.given, g)
      BY <2>2 DEF GivenParts
    <3> HIDE DEF g
    <3> QED BY <3>1, GivenLaws
  <2> QED BY <2>1, <2>2
<1> QED BY <1>1, <1>2 DEF Faithful, Accepted

(* A part that the parser takes.                                           *)
LEMMA PutInInv ==
  ASSUME NEW c, TranslationInv(c), NEW d \in Conversations, NEW role \in Roles,
         NEW part \in Parts, PutIn(c, d, role, part), d.pending \subseteq d.calls,
         c.assistantSeen => d.assistantSeen,
         c.source = "responses" => /\ role = "assistant" => d.assistantSeen
                                   /\ Fits(c, role, part) /\ Books(c, d, part)
  PROVE  TranslationInv(d)
<1>1. c \in Conversations /\ Faithful(c) /\ Accepted(c) /\ Instructions(c)
  BY DEF TranslationInv
<1>2. Faithful(d)
  BY <1>1, FaithfulPart
<1>3. Accepted(d)
  <2>1. CASE c.source = "responses"
    BY <1>1, <2>1, AcceptedPart
  <2>2. CASE c.source # "responses"
    BY <2>2 DEF Accepted, PutIn
  <2> QED BY <2>1, <2>2
<1>4. Instructions(d)
  <2> DEFINE g == [role |-> role, part |-> part]
  <2>1. g \in GivenParts /\ g.role = role /\ g.role # "system"
    BY DEF GivenParts, Roles
  <2>2. d.given = Append(c.given, g) /\ d.source = c.source
    BY DEF PutIn
  <2>3. g.role = "assistant" /\ c.source = "responses" => d.assistantSeen
    BY <2>1
  <2> HIDE DEF g
  <2> QED BY <1>1, <2>1, <2>2, <2>3, InstructionsGiven
<1> QED BY <1>2, <1>3, <1>4 DEF TranslationInv

LEMMA ReadInstructionInv ==
  ASSUME TranslationInv(conversation), ReadInstruction PROVE TranslationInv(conversation')
<1> DEFINE c == conversation
           g == [role |-> "system", part |-> Text]
           d == [c EXCEPT !.given = Append(c.given, g)]
<1>1. c \in Conversations /\ Faithful(c) /\ Accepted(c) /\ Instructions(c)
      /\ c.pending \subseteq c.calls
  BY DEF TranslationInv
<1>2. conversation' = d /\ c.source = "responses" /\ ~c.assistantSeen
  BY DEF ReadInstruction, FromResponses, Given
<1>3. g \in GivenParts /\ g.role = "system" /\ Text \in Parts
  BY DEF GivenParts, Parts
<1>4. Append(c.given, g) \in Seq(GivenParts)
  <2>1. c.given \in Seq(GivenParts)
    BY <1>1 DEF Conversations
  <2> HIDE DEF g
  <2> QED BY <1>3, <2>1, AppendProperties
<1>5. d \in Conversations
  <2> HIDE DEF g
  <2> QED BY <1>1, <1>4 DEF Conversations
<1>6. /\ d.source = c.source /\ d.wire = c.wire /\ d.declared = c.declared
      /\ d.messages = c.messages /\ d.pending = c.pending /\ d.calls = c.calls
      /\ d.assistantSeen = c.assistantSeen /\ d.given = Append(c.given, g)
  BY <1>1 DEF Conversations
<1> HIDE DEF d
<1>7. Faithful(d) /\ Accepted(d)
  BY <1>1, <1>3, <1>5, <1>6, SameKept
<1> HIDE DEF g
<1>8. Instructions(d)
  BY <1>1, <1>2, <1>3, <1>6, InstructionsGiven
<1> QED BY <1>1, <1>2, <1>5, <1>6, <1>7, <1>8 DEF TranslationInv

(* What a part that is added makes of a conversation.                      *)
Added(c, d, role, part) ==
  /\ d \in Conversations /\ d.source = c.source /\ d.wire = c.wire
  /\ d.declared = c.declared /\ d.pending = c.pending /\ d.calls = c.calls
  /\ d.assistantSeen = c.assistantSeen
  /\ d.given = Append(c.given, [role |-> role, part |-> part])
  /\ \/ d.messages = NewMessage(c.messages, role, part)
     \/ BackRole(c.messages) = role /\ d.messages = Continue(c.messages, part)
LEMMA AddsType ==
  ASSUME NEW c \in Conversations, NEW role \in Roles, NEW part \in Parts
  PROVE  Added(c, [c EXCEPT !.messages = Merge(c.messages, role, part),
                            !.given = Given(c, role, part)], role, part)
<1> DEFINE g == [role |-> role, part |-> part]
           N == Merge(c.messages, role, part)
           d == [c EXCEPT !.messages = N, !.given = Given(c, role, part)]
<1>1. c.messages \in Seq(MessagesOf(Parts)) /\ c.given \in Seq(GivenParts)
  BY DEF Conversations
<1>2. \/ N = NewMessage(c.messages, role, part)
      \/ BackRole(c.messages) = role /\ N = Continue(c.messages, part)
  BY DEF Merge
<1>3. g \in GivenParts
  BY DEF GivenParts
<1> HIDE DEF g, N
<1>4. N \in Seq(MessagesOf(Parts)) /\ Append(c.given, g) \in Seq(GivenParts)
  BY <1>1, <1>2, <1>3, PutInEnds, AppendProperties
<1>5. d = [c EXCEPT !.messages = N, !.given = Append(c.given, g)]
  BY DEF Given, g
<1> HIDE DEF d
<1>6. /\ d \in Conversations /\ d.source = c.source /\ d.wire = c.wire
      /\ d.declared = c.declared /\ d.pending = c.pending /\ d.calls = c.calls
      /\ d.assistantSeen = c.assistantSeen
      /\ d.given = Append(c.given, g) /\ d.messages = N
  BY <1>4, <1>5 DEF Conversations
<1> QED BY <1>2, <1>6 DEF N, g, d, Added

LEMMA ReadMessageInv ==
  ASSUME TranslationInv(conversation), NEW role \in Roles, NEW empty \in BOOLEAN,
         ReadMessage(role, empty)
  PROVE  TranslationInv(conversation')
<1> DEFINE c == conversation
           k == [c EXCEPT !.assistantSeen = c.assistantSeen \/ role = "assistant"]
           d == [k EXCEPT !.messages = Merge(k.messages, role, Text),
                          !.given = Given(k, role, Text)]
<1>1. c \in Conversations /\ Faithful(c) /\ Accepted(c) /\ Instructions(c)
      /\ c.pending \subseteq c.calls
  BY DEF TranslationInv
<1>2. /\ c.source = "responses"
      /\ c.pending = {} \/ (role = "assistant" /\ BackRole(c.messages) = "assistant")
      /\ conversation' = IF empty THEN k ELSE d
  BY DEF ReadMessage, FromResponses, MessageMayFollow, Adds
<1>3. /\ k \in Conversations /\ k.source = c.source /\ k.wire = c.wire
      /\ k.declared = c.declared /\ k.messages = c.messages
      /\ k.pending = c.pending /\ k.calls = c.calls /\ k.given = c.given
      /\ k.assistantSeen = (c.assistantSeen \/ role = "assistant")
  BY <1>1 DEF Conversations
<1> HIDE DEF k
<1>4. CASE empty
  <2>1. Faithful(k) /\ Accepted(k)
    BY <1>1, <1>3, SameKept
  <2>2. Instructions(k)
    BY <1>1, <1>3 DEF Instructions
  <2> QED BY <1>1, <1>2, <1>3, <1>4, <2>1, <2>2 DEF TranslationInv
<1>5. CASE ~empty
  <2>1. Text \in Parts /\ Text.kind = "text"
    BY DEF Parts, Text
  <2>2. Added(k, d, role, Text)
    BY <1>3, <2>1, AddsType
  <2> HIDE DEF d
  <2>3. PutIn(c, d, role, Text)
    BY <1>3, <2>2 DEF PutIn, Added
  <2>4. Fits(c, role, Text) /\ Books(c, d, Text)
    BY <1>2, <1>3, <2>1, <2>2 DEF Fits, Books, Added
  <2>5. /\ d \in Conversations /\ d.pending \subseteq d.calls
        /\ (c.assistantSeen => d.assistantSeen) /\ (role = "assistant" => d.assistantSeen)
    BY <1>1, <1>3, <2>2 DEF Added
  <2> DEFINE part == Text
  <2> HIDE DEF part
  <2>6. /\ part \in Parts /\ PutIn(c, d, role, part) /\ Fits(c, role, part)
        /\ Books(c, d, part)
    BY <2>1, <2>3, <2>4 DEF part
  <2>7. TranslationInv(d)
    BY <2>5, <2>6, PutInInv
  <2> QED BY <1>2, <1>5, <2>7
<1> QED BY <1>4, <1>5

LEMMA ReadCallInv ==
  ASSUME TranslationInv(conversation), NEW call \in Calls, NEW tool \in Tools,
         ReadCall(call, tool)
  PROVE  TranslationInv(conversation')
<1> DEFINE c == conversation
           part == ToolCall(call, tool)
           k == [c EXCEPT !.assistantSeen = TRUE, !.calls = c.calls \cup {call},
                          !.pending = c.pending \cup {call}]
           d == [k EXCEPT !.messages = Merge(k.messages, "assistant", part),
                          !.given = Given(k, "assistant", part)]
<1>1. c \in Conversations /\ c.pending \subseteq c.calls
  BY DEF TranslationInv
<1>2. /\ c.source = "responses" /\ call \notin c.calls
      /\ c.pending = {} \/ BackRole(c.messages) = "assistant"
      /\ conversation' = d
  BY DEF ReadCall, FromResponses, CallMayFollow, Adds
<1>3. /\ k \in Conversations /\ k.source = c.source /\ k.wire = c.wire
      /\ k.declared = c.declared /\ k.messages = c.messages /\ k.given = c.given
      /\ k.pending = c.pending \cup {call} /\ k.calls = c.calls \cup {call}
      /\ k.assistantSeen = TRUE
  BY <1>1 DEF Conversations
<1>4. part \in Parts /\ part.kind = "call" /\ part.id = call /\ "assistant" \in Roles
  BY DEF Parts, ToolCall, Roles
<1> HIDE DEF k, part
<1>5. Added(k, d, "assistant", part)
  BY <1>3, <1>4, AddsType
<1> HIDE DEF d
<1>6. PutIn(c, d, "assistant", part)
  BY <1>3, <1>5 DEF PutIn, Added
<1>7. Fits(c, "assistant", part) /\ Books(c, d, part)
  BY <1>2, <1>3, <1>4, <1>5 DEF Fits, Books, Added
<1>8. d \in Conversations /\ d.pending \subseteq d.calls /\ d.assistantSeen
  BY <1>1, <1>3, <1>5 DEF Added
<1>9. TranslationInv(d)
  BY <1>4, <1>6, <1>7, <1>8, PutInInv
<1> QED BY <1>2, <1>9

LEMMA ReadOutputInv ==
  ASSUME TranslationInv(conversation), NEW call \in Calls, ReadOutput(call)
  PROVE  TranslationInv(conversation')
<1> DEFINE c == conversation
           part == ToolResult(call)
           k == [c EXCEPT !.pending = c.pending \ {call}]
           d == [k EXCEPT !.messages = Merge(k.messages, "user", part),
                          !.given = Given(k, "user", part)]
<1>1. c \in Conversations /\ c.pending \subseteq c.calls
  BY DEF TranslationInv
<1>2. c.source = "responses" /\ call \in c.pending /\ conversation' = d
  BY DEF ReadOutput, FromResponses, Adds
<1>3. /\ k \in Conversations /\ k.source = c.source /\ k.wire = c.wire
      /\ k.declared = c.declared /\ k.messages = c.messages /\ k.given = c.given
      /\ k.pending = c.pending \ {call} /\ k.calls = c.calls
      /\ k.assistantSeen = c.assistantSeen
  BY <1>1 DEF Conversations
<1>4. part \in Parts /\ part.kind = "result" /\ part.id = call /\ "user" \in Roles
  BY DEF Parts, ToolResult, Roles
<1> HIDE DEF k, part
<1>5. Added(k, d, "user", part)
  BY <1>3, <1>4, AddsType
<1> HIDE DEF d
<1>6. PutIn(c, d, "user", part)
  BY <1>3, <1>5 DEF PutIn, Added
<1>7. Fits(c, "user", part) /\ Books(c, d, part)
  BY <1>2, <1>3, <1>4, <1>5 DEF Fits, Books, Added
<1>8. /\ d \in Conversations /\ d.pending \subseteq d.calls
      /\ c.assistantSeen => d.assistantSeen
  BY <1>1, <1>3, <1>5 DEF Added
<1>9. TranslationInv(d)
  BY <1>4, <1>6, <1>7, <1>8, PutInInv
<1> QED BY <1>2, <1>9

LEMMA PutPartInv ==
  ASSUME TranslationInv(conversation), NEW role \in Roles, NEW part \in Parts,
         NEW fresh \in BOOLEAN, PutPart(role, part, fresh)
  PROVE  TranslationInv(conversation')
<1> DEFINE c == conversation
           N == IF fresh THEN NewMessage(c.messages, role, part)
                ELSE Continue(c.messages, part)
           g == [role |-> role, part |-> part]
           d == [c EXCEPT !.messages = N, !.given = Append(c.given, g)]
<1>1. c \in Conversations /\ c.pending \subseteq c.calls
  BY DEF TranslationInv
<1>2. c.source = "neutral" /\ (fresh \/ BackRole(c.messages) = role) /\ conversation' = d
  BY DEF PutPart, Given
<1>3. \/ N = NewMessage(c.messages, role, part)
      \/ BackRole(c.messages) = role /\ N = Continue(c.messages, part)
  BY <1>2
<1>4. g \in GivenParts
  BY DEF GivenParts
<1> HIDE DEF N, g
<1>5. N \in Seq(MessagesOf(Parts)) /\ Append(c.given, g) \in Seq(GivenParts)
  <2>1. c.messages \in Seq(MessagesOf(Parts)) /\ c.given \in Seq(GivenParts)
    BY <1>1 DEF Conversations
  <2> QED BY <1>3, <1>4, <2>1, PutInEnds, AppendProperties
<1>6. /\ d \in Conversations /\ d.source = c.source /\ d.wire = c.wire
      /\ d.declared = c.declared /\ d.pending = c.pending /\ d.calls = c.calls
      /\ d.assistantSeen = c.assistantSeen
      /\ d.given = Append(c.given, g) /\ d.messages = N
  BY <1>1, <1>5 DEF Conversations
<1> HIDE DEF d
<1>7. PutIn(c, d, role, part)
  BY <1>3, <1>6 DEF PutIn, g
<1>8. c.source # "responses"
  BY <1>2
<1>9. TranslationInv(d)
  BY <1>1, <1>6, <1>7, <1>8, PutInInv
<1> QED BY <1>2, <1>9

(* The invariant is inductive.                                             *)
LEMMA TranslationStep ==
  TranslationInv(conversation) /\ [TranslationNext]_conversation =>
    TranslationInv(conversation')
<1> SUFFICES ASSUME TranslationInv(conversation), [TranslationNext]_conversation
             PROVE  TranslationInv(conversation')
  OBVIOUS
<1>1. CASE ReadInstruction
  BY <1>1, ReadInstructionInv
<1>2. ASSUME NEW role \in {"user", "assistant"}, NEW empty \in BOOLEAN, ReadMessage(role, empty)
      PROVE  TranslationInv(conversation')
  BY <1>2, ReadMessageInv DEF Roles
<1>3. ASSUME NEW call \in Calls, NEW tool \in Tools, ReadCall(call, tool)
      PROVE  TranslationInv(conversation')
  BY <1>3, ReadCallInv
<1>4. ASSUME NEW call \in Calls, ReadOutput(call) PROVE TranslationInv(conversation')
  BY <1>4, ReadOutputInv
<1>5. ASSUME NEW role \in {"user", "assistant"}, NEW part \in Parts, NEW fresh \in BOOLEAN,
             PutPart(role, part, fresh)
      PROVE  TranslationInv(conversation')
  BY <1>5, PutPartInv DEF Roles
<1>6. CASE UNCHANGED conversation
  BY <1>6
<1> QED BY <1>1, <1>2, <1>3, <1>4, <1>5, <1>6 DEF TranslationNext

-----------------------------------------------------------------------------
(* What the invariant says of a request *)

(* Roles that differ from one message to the next, from a user's to a      *)
(* user's, alternate.                                                      *)
LEMMA Alternate ==
  ASSUME NEW B, NEW M \in Seq(MessagesOf(B)), M # <<>>, M[1].role = "user",
         BackRole(M) = "user",
         \A i \in DOMAIN M : i > 1 => M[i].role # M[i - 1].role
  PROVE  TurnsAlternate(M)
<1> DEFINE Turn(i) == IF i % 2 = 1 THEN "user" ELSE "assistant"
           G == {i \in Nat : i + 1 \in DOMAIN M => M[i + 1].role = Turn(i + 1)}
<1>1. Len(M) \in Nat \ {0} /\ DOMAIN M = 1 .. Len(M)
  BY EmptySeq, LenProperties
<1>2. \A i \in 1 .. Len(M) : M[i].role = "user" \/ M[i].role = "assistant"
  <2>1. \A i \in 1 .. Len(M) : M[i] \in MessagesOf(B)
    BY ElementOfSeq
  <2> QED BY <2>1 DEF MessagesOf, Roles
<1>3. 0 \in G
  BY <1>1
<1>4. ASSUME NEW n \in Nat, n \in G PROVE n + 1 \in G
  <2> SUFFICES ASSUME n + 1 + 1 \in 1 .. Len(M) PROVE M[n + 1 + 1].role = Turn(n + 1 + 1)
    BY <1>1
  <2>1. n + 1 \in 1 .. Len(M) /\ n + 1 + 1 > 1 /\ n + 1 + 1 - 1 = n + 1
    BY <1>1
  <2> DEFINE i == n + 1 + 1
  <2>2. M[n + 1].role = Turn(n + 1) /\ M[n + 1 + 1].role # M[n + 1].role
    <3>1. M[n + 1].role = Turn(n + 1)
      BY <1>1, <1>4, <2>1
    <3>2. i \in DOMAIN M /\ i > 1 /\ i - 1 = n + 1
      BY <1>1, <2>1
    <3>3. M[i].role # M[i - 1].role
      <4> HIDE DEF i
      <4> QED BY <3>2
    <3> QED BY <3>1, <3>2, <3>3
  <2>3. (n + 1) % 2 = 1 <=> ~((n + 1 + 1) % 2 = 1)
    OBVIOUS
  <2> QED BY <1>2, <2>1, <2>2, <2>3
<1>5. Nat \subseteq G
  <2> HIDE DEF G
  <2> QED BY <1>3, <1>4, SetInduction
<1>6. ASSUME NEW i \in 1 .. Len(M) PROVE M[i].role = Turn(i)
  <2>1. i - 1 \in Nat /\ i - 1 + 1 = i
    BY <1>1
  <2>2. i - 1 \in G
    BY <1>5, <2>1
  <2> QED BY <1>1, <2>1, <2>2
<1>7. Len(M) % 2 = 1
  <2>1. Last(M) = M[Len(M)] /\ M[Len(M)].role = "user"
    BY DEF BackRole, Last
  <2>2. Len(M) \in 1 .. Len(M)
    BY <1>1
  <2>3. M[Len(M)].role = Turn(Len(M))
    BY <1>6, <2>2
  <2> QED BY <2>1, <2>3
<1> QED BY <1>1, <1>6, <1>7 DEF TurnsAlternate

(* When no call is open, every turn of the user's has the results of the   *)
(* calls before it.                                                        *)
LEMMA GoodFollows ==
  ASSUME NEW M, Good(M, {}) PROVE ResultsFollowCalls(M)
<1> SUFFICES ASSUME NEW i \in DOMAIN M, M[i].role = "user"
             PROVE  /\ Ids(Of(M[i], "result")) = Ids(CallsBefore(M, i))
                    /\ Len(Of(M[i], "result")) = Len(CallsBefore(M, i))
                    /\ IsPrefix(Of(M[i], "result"), M[i].content)
  BY DEF ResultsFollowCalls, CallsBefore
<1>1. Answers(CallsBefore(M, i), M[i], {})
  BY DEF Good, Waiting
<1> DEFINE calls == CallsBefore(M, i)
           results == Of(M[i], "result")
<1>2. /\ Ids(results) \cup {} = Ids(calls)
      /\ Len(results) + Cardinality({}) = Len(calls)
      /\ IsPrefix(results, M[i].content)
  BY <1>1 DEF Answers
<1>3. Cardinality({}) = 0
  BY FS_EmptySet
<1>4. Len(results) \in Nat
  OBVIOUS
<1> QED BY <1>2, <1>3, <1>4

(* No instruction comes after what the assistant said.                     *)
LEMMA InstructionsFirst ==
  ASSUME NEW c \in Conversations, Instructions(c) PROVE InstructionsLead(c)
<1>1. DOMAIN c.given = 1 .. Len(c.given) /\ Len(c.given) \in Nat
  BY LenProperties DEF Conversations
<1> SUFFICES ASSUME NEW i \in 1 .. Len(c.given), NEW j \in 1 .. Len(c.given),
                    c.given[i].role = "assistant", c.given[j].role = "system"
             PROVE  j < i
  BY <1>1 DEF InstructionsLead
<1>2. i \notin 1 .. j
  BY <1>1 DEF Instructions
<1> QED BY <1>1, <1>2

LEMMA InvKeeps == TranslationInv(conversation) => ConversationsAreKept
<1> SUFFICES ASSUME TranslationInv(conversation) PROVE ConversationsAreKept
  OBVIOUS
<1> DEFINE c == conversation
           r == PrepareMessages(c)
           p == Prepare(c)
           ends == /\ r.messages # <<>> /\ Head(r.messages).role = "user"
                   /\ BackRole(r.messages) = "user" /\ r.pending = {}
<1>1. c \in Conversations /\ Faithful(c) /\ Accepted(c) /\ Instructions(c)
  BY DEF TranslationInv
<1>2. r \in PStates
  BY <1>1, PreparedLaws
<1>3. p = Require(ends, r)
  BY DEF Prepare
<1>4. /\ ~p.refused => ~r.refused /\ ends
      /\ p.messages = r.messages /\ p.names = r.names
      /\ ~r.refused /\ ends => ~p.refused
  <2> HIDE DEF r, p
  <2>1. ends \in BOOLEAN
    BY Zenon
  <2> HIDE DEF ends
  <2> QED BY <1>2, <1>3, <2>1 DEF Require, PStates
<1>5. ~r.refused => /\ Fine(c.wire, r) /\ c.declared \subseteq r.names
                    /\ SameEnds(r.messages, c.messages)
                    /\ Sent(r.messages) = AsGiven(c)
  BY <1>1 DEF Faithful
<1>6. /\ r.messages \in Seq(MessagesOf(Blocks)) /\ c.messages \in Seq(MessagesOf(Parts))
      /\ r.names \subseteq Tools
  BY <1>1, <1>2 DEF PStates, Conversations
<1>7. Accepted(c) => (c.source = "responses" /\ Distinct(c.wire) =>
                        ~r.refused /\ r.pending = c.pending)
  BY DEF Accepted
<1> HIDE DEF p, r, ends
<1>8. ASSUME ~p.refused
      PROVE  /\ TurnsAlternate(p.messages) /\ ResultsFollowCalls(p.messages)
             /\ Sent(p.messages) = AsGiven(c) /\ InstructionsLead(c)
             /\ NamesComeBack(c, p)
  <2>1. Fine(c.wire, r) /\ ends
    BY <1>4, <1>5, <1>8
  <2>2. /\ r.messages # <<>> /\ r.messages[1].role = "user"
        /\ BackRole(r.messages) = "user" /\ r.pending = {}
    BY <1>6, <2>1 DEF ends
  <2>3. Good(r.messages, {})
    BY <2>1, <2>2 DEF Fine
  <2>4. \A i \in DOMAIN r.messages : i > 1 => r.messages[i].role # r.messages[i - 1].role
    BY <2>3 DEF Good
  <2>5. TurnsAlternate(p.messages)
    BY <1>4, <1>6, <2>2, <2>4, Alternate
  <2>6. ResultsFollowCalls(p.messages)
    BY <1>4, <2>3, GoodFollows
  <2>7. Sent(p.messages) = AsGiven(c) /\ InstructionsLead(c)
    BY <1>1, <1>4, <1>5, <1>8, InstructionsFirst
  <2>8. \A s, t \in r.names : c.wire[s] = c.wire[t] => s = t
    BY <2>1 DEF Fine
  <2>9. ToolNames(c, p) = c.declared
    BY <1>4, <1>5, <1>8 DEF ToolNames
  <2> QED BY <1>4, <2>5, <2>6, <2>7, <2>8, <2>9 DEF NamesComeBack
<1>9. ASSUME c.source = "responses", Parsed(c), Head(c.messages).role = "user",
             BackRole(c.messages) = "user",
             \A s, t \in Tools : c.wire[s] = c.wire[t] => s = t
      PROVE  ~p.refused
  <2>1. ~r.refused /\ r.pending = {}
    BY <1>1, <1>7, <1>9 DEF Distinct, Parsed
  <2>2. SameEnds(r.messages, c.messages)
    BY <1>5, <2>1
  <2>3. c.messages # <<>> /\ c.messages[1].role = "user"
    BY <1>6, <1>9 DEF Parsed
  <2>4. r.messages # <<>> /\ r.messages[1].role = "user" /\ BackRole(r.messages) = "user"
    BY <1>9, <2>2, <2>3 DEF SameEnds
  <2>5. ends
    BY <1>6, <2>1, <2>4 DEF ends
  <2> QED BY <1>4, <2>1, <2>5
<1> QED BY <1>8, <1>9 DEF ConversationsAreKept, c, p

LEMMA InvTypes == TranslationInv(conversation) => TranslationTypeOK
<1> SUFFICES ASSUME TranslationInv(conversation) PROVE TranslationTypeOK
  OBVIOUS
<1>1. /\ conversation.wire \in [Tools -> WireNames] /\ conversation.declared \subseteq Tools
      /\ conversation.pending \subseteq conversation.calls /\ conversation.calls \subseteq Calls
      /\ conversation.messages \in Seq(MessagesOf(Parts))
  BY DEF TranslationInv, Conversations
<1>2. DOMAIN conversation.messages = 1 .. Len(conversation.messages)
  BY <1>1, LenProperties
<1>3. ASSUME NEW i \in DOMAIN conversation.messages
      PROVE  /\ conversation.messages[i].role \in {"user", "assistant"}
             /\ conversation.messages[i].content \in Seq(Parts)
  <2>1. conversation.messages[i] \in MessagesOf(Parts)
    BY <1>1, <1>2, ElementOfSeq
  <2> QED BY <2>1 DEF MessagesOf, Roles
<1> QED BY <1>1, <1>3 DEF TranslationTypeOK

-----------------------------------------------------------------------------
(* The theorems *)

(* In every behaviour a conversation is of messages of the two roles, and  *)
(* what waits for a result is a call.                                      *)
THEOREM TranslationTypeCorrect ==
  TranslationInit /\ [][TranslationNext]_conversation => []TranslationTypeOK
<1>1. TranslationInv(conversation) /\ [TranslationNext]_conversation =>
        TranslationInv(conversation)'
  BY TranslationStep
<1> QED BY TranslationInitInv, <1>1, InvTypes, PTL

(* Whatever is read or put into a request: what is sent is a conversation  *)
(* that Anthropic takes, with nothing lost, added or moved and with names  *)
(* that come back, and a history of Codex's is not refused.                *)
THEOREM ConversationsKept ==
  TranslationInit /\ [][TranslationNext]_conversation => []ConversationsAreKept
<1>1. TranslationInv(conversation) /\ [TranslationNext]_conversation =>
        TranslationInv(conversation)'
  BY TranslationStep
<1> QED BY TranslationInitInv, <1>1, InvKeeps, PTL
===============================================================================
