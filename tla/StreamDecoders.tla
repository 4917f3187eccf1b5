---------------------------- MODULE StreamDecoders ----------------------------
(***************************************************************************)
(* The two decoders between the Anthropic stream and Codex, as algorithms: *)
(* ai::http::SseDecoder, which cuts the bytes of the HTTP body into events,*)
(* and ResponsesStream::CustomInput, which takes the text of a custom tool *)
(* out of the JSON object it arrives in.  Both consume one byte after the  *)
(* other, so how the bytes are cut into chunks makes no difference.        *)
(*                                                                         *)
(* A byte is a string; "data", "event" and "input" stand for the bytes of  *)
(* those words, and the name of a surrogate for its four hex digits.       *)
(***************************************************************************)
EXTENDS Naturals, Sequences, SequencesExt

Strings(alphabet, n) == UNION {[1 .. k -> alphabet] : k \in 0 .. n}

-----------------------------------------------------------------------------
(* SseDecoder *)

SseStart == [line |-> <<>>, event |-> <<>>, data |-> <<>>, afterCr |-> FALSE,
             firstLine |-> TRUE, failed |-> FALSE, events |-> <<>>]
Held(s) == Len(s.line) + Len(s.event) + Len(s.data)

WithoutMark(line) == IF line # <<>> /\ Head(line) = "BOM" THEN Tail(line) ELSE line
Colon(line) == IF \E i \in DOMAIN line : line[i] = ":"
               THEN Min({i \in DOMAIN line : line[i] = ":"}) ELSE Len(line) + 1
Field(line) == SubSeq(line, 1, Colon(line) - 1)
Body(line) == LET body == SubSeq(line, Colon(line) + 1, Len(line))
              IN IF body # <<>> /\ Head(body) = "space" THEN Tail(body) ELSE body

DispatchEvent(s) ==
  [s EXCEPT !.event = <<>>, !.data = <<>>,
            !.events = IF s.data = <<>> THEN @
                       ELSE Append(@, [event |-> IF s.event = <<>> THEN <<"message">> ELSE s.event,
                                       data |-> Front(s.data)])]
Line_KeepsEvent(s) ==
  LET value == IF s.firstLine THEN WithoutMark(s.line) ELSE s.line
      t == [s EXCEPT !.line = <<>>, !.firstLine = FALSE]
  IN IF value = <<>> THEN [DispatchEvent(t) EXCEPT !.event = s.event]
     ELSE IF Field(value) = <<"event">> THEN [t EXCEPT !.event = Body(value)]
     ELSE IF Field(value) = <<"data">> THEN [t EXCEPT !.data = @ \o Body(value) \o <<"LF">>]
     ELSE t
Line(s) ==
  LET value == IF s.firstLine THEN WithoutMark(s.line) ELSE s.line
      t == [s EXCEPT !.line = <<>>, !.firstLine = FALSE]
  IN IF value = <<>> THEN DispatchEvent(t)
     ELSE IF Field(value) = <<"event">> THEN [t EXCEPT !.event = Body(value)]
     ELSE IF Field(value) = <<"data">> THEN [t EXCEPT !.data = @ \o Body(value) \o <<"LF">>]
     ELSE t

EndsOfLine == {"CR", "LF"}
ConsumeByte(limit, s, c) ==
  LET ended == Line([s EXCEPT !.afterCr = (c = "CR")])
  IN IF s.failed \/ (s.afterCr /\ c = "LF") THEN [s EXCEPT !.afterCr = FALSE]
     ELSE IF c \in EndsOfLine THEN [ended EXCEPT !.failed = Held(ended) > limit]
     ELSE IF Held(s) >= limit THEN [s EXCEPT !.failed = TRUE]
     ELSE [s EXCEPT !.afterCr = FALSE, !.line = Append(@, c)]
SseDecode(limit, bytes) ==
  FoldLeft(LAMBDA s, c : ConsumeByte(limit, s, c), SseStart, bytes)

(* What the format says, with no decoder: a line is what stands between    *)
(* two ends of line, and an event is made of the lines between two blank   *)
(* ones, if one of them is data.                                           *)
Positions(b) == [i \in DOMAIN b |-> i]
Behind(seq, marks) == SubSeq(seq, Max({0} \cup marks) + 1, Len(seq))

LineEnds(b) == {i \in DOMAIN b : b[i] \in EndsOfLine}
IsEnd(before, c) == c \in EndsOfLine /\ ~(c = "LF" /\ before # <<>> /\ Last(before) = "CR")
LineBehind(b) ==
  LET line == Behind(b, LineEnds(b)) IN IF LineEnds(b) = {} THEN WithoutMark(line) ELSE line
LinesOf(b) ==
  FoldLeft(LAMBDA lines, i : LET before == SubSeq(b, 1, i - 1)
                             IN IF IsEnd(before, b[i]) THEN Append(lines, LineBehind(before))
                                ELSE lines,
           <<>>, Positions(b))

Named(lines) == {k \in DOMAIN lines : Field(lines[k]) = <<"event">>}
NameOf(lines) == IF Named(lines) = {} THEN <<>> ELSE Body(lines[Max(Named(lines))])
DataOf(lines) ==
  FoldLeft(LAMBDA data, l : IF Field(l) = <<"data">> THEN Append(data, Body(l)) ELSE data,
           <<>>, lines)
Joined(data) ==
  FoldLeft(LAMBDA text, d : text \o <<"LF">> \o d, Head(data), Tail(data))
EventOf(lines) ==
  IF DataOf(lines) = <<>> THEN <<>>
  ELSE <<[event |-> IF NameOf(lines) = <<>> THEN <<"message">> ELSE NameOf(lines),
          data |-> Joined(DataOf(lines))]>>
Blanks(lines) == {k \in DOMAIN lines : lines[k] = <<>>}
OpenLines(lines) == Behind(lines, Blanks(lines))
EventsOf(lines) ==
  FoldLeft(LAMBDA events, k : IF lines[k] = <<>>
                              THEN events \o EventOf(OpenLines(SubSeq(lines, 1, k - 1)))
                              ELSE events,
           <<>>, Positions(lines))
Events(b) == EventsOf(LinesOf(b))

SseBytes == {"CR", "LF", ":", "space", "data", "event", "BOM"}
SseLines == {<<>>, <<"data">>, <<"data", ":", "space", "x">>, <<"event", ":", "x">>}
LineBreaks == {<<"CR">>, <<"LF">>, <<"CR", "LF">>}
SseBody(f, e) == f[1] \o e[1] \o f[2] \o e[2] \o f[3] \o e[3] \o f[4] \o e[4]
SseInputs ==
  Strings(SseBytes, 4)
    \cup {SseBody(f, e) : f \in [1 .. 4 -> SseLines], e \in [1 .. 4 -> LineBreaks]}

(* Every event of the body is dispatched as the format defines it, however *)
(* its lines end; and the decoder never holds more than its limit: it      *)
(* fails, having dispatched whole events only.                             *)
SseAgrees ==
  \A b \in SseInputs :
    /\ LET s == SseDecode(100, b) IN ~s.failed /\ s.events = Events(b)
    /\ LET s == SseDecode(3, b)
       IN /\ Held(s) <= 3
          /\ IsPrefix(s.events, Events(b)) /\ (~s.failed => s.events = Events(b))

-----------------------------------------------------------------------------
(* CustomInput *)

Quads == {"bmp", "high", "low"}
InputStart == [state |-> "Open", key |-> <<>>, escape |-> <<>>, failed |-> FALSE, output |-> <<>>]

(* What a \u escape of six bytes, or of twelve, is the JSON of.            *)
Unicode == <<"\\", "u", "bmp">>
Pair == <<"\\", "u", "high", "\\", "u", "low">>
EscapeBytes(escape) ==
  FoldLeft(LAMBDA n, c : n + (IF c \in Quads THEN 4 ELSE 1), 0, escape)

Reject(s) == [s EXCEPT !.failed = TRUE]
Need(condition, s, t) == IF condition THEN t ELSE Reject(s)
Enters(s, state) == [s EXCEPT !.state = state]

KeyByte(s, c) ==
  IF s.key = <<>> /\ c = "space" THEN s
  ELSE LET key == Append(s.key, c)
           t == [s EXCEPT !.key = key]
       IN IF Len(key) > 1 /\ c = "quote" /\ key[Len(key) - 1] # "\\"
          THEN Need(key = <<"quote", "input", "quote">>, s, Enters(t, "Colon"))
          ELSE t

ValueByte(s, c) ==
  IF s.escape # <<>>
  THEN LET escape == Append(s.escape, c) IN
       IF escape[2] # "u"
       THEN Need(c \in {"quote", "\\"}, s,
                 [s EXCEPT !.escape = <<>>, !.output = Append(@, c)])
       ELSE IF escape \in {Unicode, Pair}
       THEN [s EXCEPT !.escape = <<>>, !.output = Append(@, escape)]
       ELSE Need(EscapeBytes(escape) < 12, s, [s EXCEPT !.escape = escape])
  ELSE IF c = "\\" THEN [s EXCEPT !.escape = <<"\\">>]
  ELSE IF c = "quote" THEN Enters(s, "Close")
  ELSE [s EXCEPT !.output = Append(@, c)]

InputByte(s, c) ==
  IF s.failed \/ (s.state \notin {"Value", "Key"} /\ c = "space") THEN s
  ELSE CASE s.state = "Open"  -> Need(c = "lbrace", s, Enters(s, "Key"))
         [] s.state = "Key"   -> KeyByte(s, c)
         [] s.state = "Colon" -> Need(c = ":", s, Enters(s, "Quote"))
         [] s.state = "Quote" -> Need(c = "quote", s, Enters(s, "Value"))
         [] s.state = "Value" -> ValueByte(s, c)
         [] s.state = "Close" -> Need(c = "rbrace", s, Enters(s, "Done"))
         [] s.state = "Done"  -> Reject(s)
InputDecode(bytes) == FoldLeft(InputByte, InputStart, bytes)

(* JSON, with no decoder: white space between the tokens of the object,    *)
(* and a string that is a sequence of characters and escapes.              *)
Characters ==
  {[bytes |-> <<c>>, text |-> c] : c \in {"x", "u", "space", "lbrace", "rbrace", ":"} \cup Quads}
    \cup {[bytes |-> <<"\\", c>>, text |-> c] : c \in {"quote", "\\"}}
    \cup {[bytes |-> e, text |-> e] : e \in {Unicode, Pair}}
EndsWith(v, i, ends) == \E j \in ends, c \in Characters : SubSeq(v, j + 1, i) = c.bytes
TextEnds(v) ==
  FoldLeft(LAMBDA ends, i : IF EndsWith(v, i, ends) THEN ends \cup {i} ELSE ends,
           {0}, Positions(v))
IsText(v) == Len(v) \in TextEnds(v)

(* An object with the white space w around its tokens and the text of v.   *)
Flat(seqs) == FoldLeft(LAMBDA text, q : text \o q, <<>>, seqs)
Object(w, v) ==
  [bytes |-> w[1] \o <<"lbrace">> \o w[2] \o <<"quote", "input", "quote">> \o w[3] \o <<":">> \o w[4]
             \o <<"quote">> \o Flat([i \in DOMAIN v |-> v[i].bytes]) \o <<"quote">>
             \o w[5] \o <<"rbrace">> \o w[6],
   text |-> [i \in DOMAIN v |-> v[i].text]]
InputObjects == {Object(w, v) : w \in [1 .. 6 -> {<<>>, <<"space">>}], v \in Strings(Characters, 2)}
Bodies ==
  LET bytes == {"x", "\\", "u", "quote"} \cup Quads
  IN Strings(bytes, 5) \cup {Pair \o v : v \in Strings(bytes, 2)}

(* The text of an object is the text the decoder gives.  What is no such   *)
(* object, with a broken escape, half a surrogate pair or with something   *)
(* behind it, is never taken for a complete one.                           *)
Complete(s) == ~s.failed /\ s.state = "Done"
CustomInputAgrees ==
  /\ \A object \in InputObjects :
       LET s == InputDecode(object.bytes) IN
       /\ Complete(s) /\ s.output = object.text
       /\ ~Complete(InputByte(s, "rbrace")) /\ ~Complete(InputByte(s, "quote"))
  /\ \A v \in Bodies :
       LET s == InputDecode(<<"lbrace", "quote", "input", "quote", ":", "quote">> \o v
                              \o <<"quote", "rbrace">>)
       IN Complete(s) <=> IsText(v)
=============================================================================
