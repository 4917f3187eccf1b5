---------------------------- MODULE JsonLineFramer ----------------------------
(***************************************************************************)
(* The framing of JSON messages by lines on every byte stream of the       *)
(* bridge: protocol::JsonLineFramer, as an algorithm.                      *)
(*                                                                         *)
(* A byte is "LF", "CR", a digit, or "?", which no JSON begins with.  A    *)
(* message is a number, which may have carriage returns around it, as JSON *)
(* allows.                                                                 *)
(***************************************************************************)
EXTENDS Naturals, Sequences, SequencesExt

Digit == "1"
Bytes == {"LF", "CR", Digit, "?"}

(* "out" is what onMessage and "errors" how often onError was called; a    *)
(* framer is "consuming" as long as the loop of consume() goes on.         *)
NewFramer == [buffer |-> <<>>, offset |-> 0, failed |-> FALSE, consuming |-> FALSE,
              out |-> <<>>, errors |-> 0]

BufferedBytes(f) == Len(f.buffer) - f.offset

Compact_KeepsOffset(f) ==
  IF f.offset >= Len(f.buffer) \div 2
  THEN [f EXCEPT !.buffer = SubSeq(@, f.offset + 1, Len(@))]
  ELSE f
Compact(f) ==
  IF f.offset >= Len(f.buffer) \div 2
  THEN [f EXCEPT !.buffer = SubSeq(@, f.offset + 1, Len(@)), !.offset = 0]
  ELSE f

Leave(f) == [f EXCEPT !.consuming = FALSE]
FailFramer(f) ==
  [Leave(f) EXCEPT !.failed = TRUE, !.buffer = <<>>, !.offset = 0, !.errors = @ + 1]

WithoutCr(line) == IF line # <<>> /\ Last(line) = "CR" THEN Front(line) ELSE line
IsJson(line) ==
  LET digits == {i \in DOMAIN line : line[i] = Digit}
  IN /\ digits # {}
     /\ \A i \in DOMAIN line : IF Min(digits) <= i /\ i <= Max(digits)
                               THEN i \in digits ELSE line[i] = "CR"

(* One pass of the loop.  The handler of message number n throws when n is *)
(* in "throws": the call ends there, and the rest stays in the buffer.     *)
NextLine(limit, throws, f) ==
  LET newlines == {i \in f.offset + 1 .. Len(f.buffer) : f.buffer[i] = "LF"}
      line == SubSeq(f.buffer, f.offset + 1, Min(newlines) - 1)
      message == WithoutCr(line)
      taken == [f EXCEPT !.offset = Min(newlines)]
      told == [taken EXCEPT !.out = Append(@, message)]
  IN IF newlines = {}
     THEN IF BufferedBytes(f) > limit THEN FailFramer(f) ELSE Compact(Leave(f))
     ELSE IF Len(line) > limit THEN FailFramer(f)
     ELSE IF message = <<>> THEN taken
     ELSE IF ~IsJson(message) THEN FailFramer(taken)
     ELSE IF Len(told.out) \in throws THEN Leave(told)
     ELSE told

(* A pass takes a line feed or is the last, so that the loop is over after *)
(* one pass more than there are bytes.                                     *)
Positions(b) == [i \in DOMAIN b |-> i]
Drain(limit, throws, f) ==
  FoldLeft(LAMBDA g, n : IF g.consuming THEN NextLine(limit, throws, g) ELSE g,
           f, Positions(Append(f.buffer, "LF")))
Consume(limit, throws, f, bytes) ==
  IF f.failed THEN f
  ELSE Drain(limit, throws, [Compact(f) EXCEPT !.buffer = @ \o bytes, !.consuming = TRUE])

(* encode() throws when the message is too long.                           *)
Encodes(limit, message) == Len(message) <= limit
Encode(message) == Append(message, "LF")

-----------------------------------------------------------------------------
(* What framing means, with no buffer and no reads: one byte after the     *)
(* other belongs to a line or ends it, and the lines are messages up to    *)
(* the first that is no frame.                                             *)
IsFrame(limit, line) ==
  Len(line) <= limit /\ (WithoutCr(line) = <<>> \/ IsJson(WithoutCr(line)))
NextByte(limit, s, byte) ==
  LET broken == s.broken \/ ~IsFrame(limit, s.line)
      tells == ~broken /\ WithoutCr(s.line) # <<>>
  IN IF byte # "LF" THEN [s EXCEPT !.line = Append(@, byte)]
     ELSE [line |-> <<>>, broken |-> broken,
           out |-> IF tells THEN Append(s.out, WithoutCr(s.line)) ELSE s.out]
Framing(limit, b) ==
  FoldLeft(LAMBDA s, byte : NextByte(limit, s, byte),
           [line |-> <<>>, broken |-> FALSE, out |-> <<>>], b)
Messages(limit, b) == Framing(limit, b).out
Fails(limit, b) == Framing(limit, b).broken \/ Len(Framing(limit, b).line) > limit

Inputs == (UNION {[1 .. n -> Bytes] : n \in 0 .. 4}) \cup [1 .. 7 -> {"LF", Digit}]
(* The reads that b comes in: another one begins behind each of the cuts.  *)
Pieces(b, cuts) ==
  FoldLeft(LAMBDA pieces, i :
             IF pieces = <<>> \/ i - 1 \in cuts THEN Append(pieces, <<b[i]>>)
             ELSE [pieces EXCEPT ![Len(pieces)] = Append(@, b[i])],
           <<>>, Positions(b))
Read(limit, throws, pieces) ==
  FoldLeft(LAMBDA f, bytes : Consume(limit, throws, f, bytes), NewFramer, pieces)
Limit == 2

(* Whatever the reads cut the stream into, and whichever messages the      *)
(* application throws at, every frame is delivered once and in order, up   *)
(* to the first that is too long or no JSON, which is reported once; and   *)
(* two sides with the same limit understand each other.                    *)
FramingAgrees ==
  /\ \A b \in Inputs : \A cuts \in SUBSET (1 .. Len(b) - 1), throws \in SUBSET (1 .. 2) :
       LET all == b \o <<"LF", "LF">>
           f == Read(Limit, throws, Pieces(b, cuts) \o <<<<"LF">>, <<"LF">>>>)
       IN /\ f.out = Messages(Limit, all)
          /\ f.failed = Fails(Limit, all) /\ f.errors = (IF f.failed THEN 1 ELSE 0)
          /\ BufferedBytes(f) = 0
  /\ \A b \in Inputs : \A cuts \in SUBSET (1 .. Len(b) - 1) :
       LET f == Read(Limit, {}, Pieces(b, cuts))
       IN /\ f.out = Messages(Limit, b) /\ f.failed = Fails(Limit, b)
          /\ BufferedBytes(f) <= Limit
  /\ \A first, second \in UNION {[1 .. n -> {Digit}] : n \in 1 .. Limit + 1} :
       LET f == Read(Limit, {}, <<Encode(first) \o Encode(second)>>)
       IN Encodes(Limit, first) /\ Encodes(Limit, second) <=> f.out = <<first, second>>
=============================================================================
