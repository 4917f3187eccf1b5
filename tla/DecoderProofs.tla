---------------------------- MODULE DecoderProofs ----------------------------
(***************************************************************************)
(* The decoders of the model path, for every limit and every sequence of   *)
(* bytes.                                                                  *)
(*                                                                         *)
(* SseDecoder: what it has dispatched and holds is, byte by byte, what the *)
(* lines read so far make it (EventsDispatched).  CustomInput: its escape  *)
(* is what stands behind the last end of a character, as long as something *)
(* does that a character can begin with, and it has given up where nothing *)
(* does (Follows), so that it takes exactly the texts (TextsTaken); and it *)
(* reads an object token by token (ObjectsTaken).                          *)
(***************************************************************************)
EXTENDS MCModelPath, FoldTheorems

Bytes == {"CR", "LF", ":", "space", "data", "event", "BOM", "x", "message"}
Lines == Seq(Bytes)
SseEvents == [event : Lines, data : Lines]

-----------------------------------------------------------------------------
(* Positions, and what stands behind the last of some marks *)

LEMMA PositionsLaws ==
  ASSUME NEW E, NEW b \in Seq(E)
  PROVE  /\ Positions(b) \in Seq(1 .. Len(b)) /\ Len(Positions(b)) = Len(b)
         /\ \A i \in 1 .. Len(b) : Positions(b)[i] = i
         /\ \A e \in E : Positions(Append(b, e)) = Append(Positions(b), Len(b) + 1)
<1>1. Len(b) \in Nat /\ DOMAIN b = 1 .. Len(b)
  BY LenProperties
<1>2. /\ Positions(b) \in Seq(1 .. Len(b)) /\ Len(Positions(b)) = Len(b)
      /\ \A i \in 1 .. Len(b) : Positions(b)[i] = i
  BY <1>1 DEF Positions
<1>3. ASSUME NEW e \in E PROVE Positions(Append(b, e)) = Append(Positions(b), Len(b) + 1)
  <2> DEFINE more == Append(b, e)
             p == Positions(b)
             n == Len(b)
  <2>1. Len(more) = n + 1 /\ DOMAIN more = 1 .. n + 1
    BY <1>1, AppendProperties, LenProperties
  <2> HIDE DEF more
  <2>2. /\ Positions(more) \in Seq(Nat) /\ Len(Positions(more)) = n + 1
        /\ \A i \in 1 .. n + 1 : Positions(more)[i] = i
    BY <1>1, <2>1 DEF Positions
  <2>3. p \in Seq(Nat) /\ Len(p) = n /\ \A i \in 1 .. n : p[i] = i
    BY <1>1 DEF Positions
  <2> HIDE DEF p
  <2>4. n \in Nat /\ n + 1 \in Nat
    BY <1>1
  <2>5. /\ Append(p, n + 1) \in Seq(Nat) /\ Len(Append(p, n + 1)) = n + 1
        /\ \A i \in 1 .. n : Append(p, n + 1)[i] = p[i]
        /\ Append(p, n + 1)[n + 1] = n + 1
    BY <2>3, <2>4, AppendProperties
  <2>6. ASSUME NEW i \in 1 .. n + 1 PROVE Positions(more)[i] = Append(p, n + 1)[i]
    <3>1. CASE i = n + 1
      BY <3>1, <2>2, <2>5
    <3>2. CASE i \in 1 .. n
      BY <3>2, <2>2, <2>3, <2>5
    <3>3. i = n + 1 \/ i \in 1 .. n
      BY <2>4
    <3> QED BY <3>1, <3>2, <3>3
  <2> QED BY <2>2, <2>5, <2>6, SeqEqual DEF more, p
<1> QED BY <1>2, <1>3

LEMMA NoPositions == Positions(<<>>) = <<>>
<1>1. <<>> \in Seq(Nat)
  BY EmptySeq
<1>2. Positions(<<>>) \in Seq(1 .. Len(<<>>)) /\ Len(Positions(<<>>)) = 0
  BY <1>1, PositionsLaws, EmptySeq
<1> QED BY <1>2, EmptySeq

(* The last mark.                                                          *)
LEMMA LastMark ==
  ASSUME NEW n \in Nat, NEW marks \in SUBSET (1 .. n)
  PROVE  /\ Max({0} \cup marks) \in {0} \cup marks
         /\ \A m \in marks : m <= Max({0} \cup marks)
<1>1. CASE marks = {}
  <2>1. {0} \cup marks = {0}
    BY <1>1
  <2>2. Max({0}) = 0
    BY DEF Max
  <2> QED BY <1>1, <2>1, <2>2
<1>2. CASE marks # {}
  <2> DEFINE top == Max(marks)
             all == {0} \cup marks
  <2>1. top \in marks /\ \A m \in marks : m <= top
    BY <1>2, MaxProperties
  <2> HIDE DEF top
  <2>2. top \in all /\ \A m \in all : top >= m
    BY <2>1
  <2> HIDE DEF all
  <2>3. Max(all) \in all /\ \A m \in all : Max(all) >= m
    BY <2>2, Zenon DEF Max
  <2>4. Max(all) \in {0} \cup marks /\ \A m \in marks : m \in all /\ m \in Nat
    BY <2>3 DEF all
  <2>5. \A m \in marks : m <= Max(all)
    BY <2>3, <2>4
  <2> QED BY <2>4, <2>5 DEF all
<1> QED BY <1>1, <1>2

Marks(seq) == SUBSET DOMAIN seq
Longer(seq, e) == Append(seq, e)
MarkNext(seq, marks) == marks \cup {Len(seq) + 1}

LEMMA BehindLaws ==
  ASSUME NEW E, NEW seq \in Seq(E), NEW marks \in Marks(seq)
  PROVE  /\ Behind(seq, marks) \in Seq(E) /\ Len(Behind(seq, marks)) <= Len(seq)
         /\ \A e \in E : Behind(Longer(seq, e), marks) = Longer(Behind(seq, marks), e)
         /\ \A e \in E : Behind(Longer(seq, e), MarkNext(seq, marks)) = <<>>
<1> DEFINE n == Len(seq)
           m == Max({0} \cup marks)
<1>1. n \in Nat /\ DOMAIN seq = 1 .. n /\ \A i \in 1 .. n : seq[i] \in E
  BY LenProperties, ElementOfSeq
<1>2. m \in 0 .. n
  <2>1. marks \in SUBSET (1 .. n)
    BY <1>1 DEF Marks
  <2>2. m \in {0} \cup marks
    BY <1>1, <2>1, LastMark
  <2> HIDE DEF m, n
  <2> QED BY <1>1, <2>1, <2>2
<1> HIDE DEF m
<1>3. /\ SubSeq(seq, m + 1, n) \in Seq(E) /\ Len(SubSeq(seq, m + 1, n)) = n - m
      /\ \A i \in 1 .. n - m : SubSeq(seq, m + 1, n)[i] = seq[m + i]
  <2>1. m + 1 \in Int /\ n \in Int /\ \A i \in m + 1 .. n : seq[i] \in E
    BY <1>1, <1>2
  <2> QED BY <1>2, <2>1, SubSeqProperties
<1>4. Behind(seq, marks) = SubSeq(seq, m + 1, n)
  BY DEF Behind, m
<1> DEFINE behind == Behind(seq, marks)
<1>5. ASSUME NEW e \in E PROVE Behind(Append(seq, e), marks) = Append(behind, e)
  <2> DEFINE more == Append(seq, e)
  <2>1. /\ more \in Seq(E) /\ Len(more) = n + 1 /\ more[n + 1] = e
        /\ \A i \in 1 .. n : more[i] = seq[i]
    BY AppendProperties
  <2> HIDE DEF more
  <2>2. /\ SubSeq(more, m + 1, n + 1) \in Seq(E) /\ Len(SubSeq(more, m + 1, n + 1)) = n + 1 - m
        /\ \A i \in 1 .. n + 1 - m : SubSeq(more, m + 1, n + 1)[i] = more[m + i]
    <3>1. m + 1 \in Int /\ n + 1 \in Int /\ \A i \in m + 1 .. n + 1 : more[i] \in E
      BY <1>1, <1>2, <2>1
    <3> QED BY <1>1, <1>2, <3>1, SubSeqProperties
  <2>3. Behind(more, marks) = SubSeq(more, m + 1, n + 1)
    BY <2>1 DEF Behind, m
  <2>4. behind \in Seq(E) /\ Len(behind) = n - m /\ \A i \in 1 .. n - m : behind[i] = seq[m + i]
    BY <1>3, <1>4
  <2> HIDE DEF behind
  <2>5. /\ Append(behind, e) \in Seq(E) /\ Len(Append(behind, e)) = n - m + 1
        /\ \A i \in 1 .. n - m : Append(behind, e)[i] = behind[i]
        /\ Append(behind, e)[n - m + 1] = e
    BY <2>4, AppendProperties
  <2> DEFINE k == n - m
             f == SubSeq(more, m + 1, n + 1)
             g == Append(behind, e)
  <2>6. k \in Nat
    BY <1>1, <1>2
  <2>7. ASSUME NEW i \in 1 .. k + 1 PROVE f[i] = g[i]
    <3>1. CASE i = k + 1
      <4>1. f[i] = more[n + 1]
        BY <1>1, <1>2, <2>2, <3>1
      <4> QED BY <4>1, <2>1, <2>5, <3>1
    <3>2. CASE i \in 1 .. k
      <4>1. f[i] = more[m + i] /\ m + i \in 1 .. n
        BY <1>1, <1>2, <2>2, <3>2
      <4> QED BY <4>1, <2>1, <2>4, <2>5, <3>2
    <3>3. i = k + 1 \/ i \in 1 .. k
      BY <2>6
    <3> QED BY <3>1, <3>2, <3>3
  <2>8. f \in Seq(E) /\ g \in Seq(E) /\ Len(f) = k + 1 /\ Len(g) = k + 1
    BY <1>1, <1>2, <2>2, <2>5
  <2> HIDE DEF f, g
  <2>9. f = g
    BY <2>7, <2>8, SeqEqual
  <2> QED BY <2>3, <2>9 DEF f, g, more
<1>6. ASSUME NEW e \in E PROVE Behind(Append(seq, e), marks \cup {n + 1}) = <<>>
  <2> DEFINE all == marks \cup {n + 1}
  <2>1. all \in SUBSET (1 .. n + 1) /\ n + 1 \in all /\ n + 1 \in Nat
    BY <1>1 DEF Marks
  <2> HIDE DEF all
  <2>2. Max({0} \cup all) \in {0} \cup all /\ n + 1 <= Max({0} \cup all)
    BY <2>1, LastMark
  <2>3. Max({0} \cup all) = n + 1
    <3> DEFINE top == Max({0} \cup all)
    <3>1. top \in {0} \cup all /\ n + 1 <= top
      BY <2>2
    <3> HIDE DEF top, n
    <3>2. top = n + 1
      BY <1>1, <2>1, <3>1
    <3> QED BY <3>2 DEF top
  <2>4. Len(Append(seq, e)) = n + 1
    BY AppendProperties
  <2>5. SubSeq(Append(seq, e), n + 2, n + 1) = <<>>
    BY <1>1, SubSeqEmpty
  <2> QED BY <1>1, <2>3, <2>4, <2>5 DEF Behind, all
<1>7. behind \in Seq(E) /\ Len(behind) <= n
  <2>1. behind = SubSeq(seq, m + 1, n) /\ n - m <= n
    BY <1>1, <1>2, <1>4
  <2> HIDE DEF behind
  <2> QED BY <2>1, <1>3
<1> QED BY <1>5, <1>6, <1>7 DEF Longer, MarkNext

-----------------------------------------------------------------------------
(* Lines *)

LEMMA SubLine ==
  ASSUME NEW E, NEW q \in Seq(E), NEW i \in 1 .. Len(q) + 2, NEW j \in 0 .. Len(q)
  PROVE  /\ SubSeq(q, i, j) \in Seq(E)
         /\ Len(SubSeq(q, i, j)) = IF i <= j THEN j - i + 1 ELSE 0
         /\ \A k \in 1 .. j - i + 1 : SubSeq(q, i, j)[k] = q[i + k - 1]
<1>1. Len(q) \in Nat /\ \A k \in 1 .. Len(q) : q[k] \in E
  BY LenProperties, ElementOfSeq
<1>2. i \in Int /\ j \in Int /\ \A k \in i .. j : q[k] \in E
  BY <1>1
<1> QED BY <1>2, SubSeqProperties

LEMMA ColonType ==
  ASSUME NEW line \in Lines PROVE Colon(line) \in 1 .. Len(line) + 1
<1> DEFINE S == {i \in DOMAIN line : line[i] = ":"}
<1>1. Len(line) \in Nat /\ DOMAIN line = 1 .. Len(line)
  BY LenProperties DEF Lines
<1>2. CASE S = {}
  BY <1>1, <1>2 DEF Colon
<1>3. CASE S # {}
  <2>1. S \subseteq Nat /\ S \subseteq 1 .. Len(line)
    BY <1>1
  <2>2. Colon(line) = Min(S)
    BY <1>3 DEF Colon
  <2> HIDE DEF S
  <2>3. PICK x \in S : \A y \in S : x <= y
    BY <1>3, <2>1, LeastNatural
  <2>4. Min(S) \in S
    BY <2>3, Zenon DEF Min
  <2>5. Colon(line) \in 1 .. Len(line)
    BY <2>1, <2>2, <2>4, Zenon
  <2> QED BY <1>1, <2>5
<1> QED BY <1>2, <1>3

LEMMA LineTypes ==
  ASSUME NEW line \in Lines
  PROVE  /\ WithoutMark(line) \in Lines /\ Len(WithoutMark(line)) <= Len(line)
         /\ Field(line) \in Lines
         /\ Body(line) \in Lines
         /\ line # <<>> => Len(Body(line)) + 1 <= Len(line)
<1>1. Len(line) \in Nat /\ (line # <<>> => Len(line) > 0)
  BY LenProperties, EmptySeq DEF Lines
<1>2. \A q \in Lines : q # <<>> => Tail(q) \in Lines /\ Len(Tail(q)) = Len(q) - 1
  BY HeadTailProperties DEF Lines
<1>3. WithoutMark(line) \in Lines /\ Len(WithoutMark(line)) <= Len(line)
  BY <1>1, <1>2 DEF WithoutMark
<1>4. Colon(line) \in 1 .. Len(line) + 1
  BY ColonType
<1> DEFINE c == Colon(line)
           body == SubSeq(line, c + 1, Len(line))
<1> HIDE DEF c
<1>5. c \in 1 .. Len(line) + 1 /\ line \in Seq(Bytes)
  BY <1>4 DEF c, Lines
<1>6. SubSeq(line, 1, c - 1) \in Lines
  <2>1. 1 \in 1 .. Len(line) + 2 /\ c - 1 \in 0 .. Len(line)
    BY <1>1, <1>5
  <2> QED BY <1>5, <2>1, SubLine DEF Lines
<1>7. body \in Lines /\ (line # <<>> => Len(body) + 1 <= Len(line)) /\ Len(body) \in Nat
  <2>1. c + 1 \in 1 .. Len(line) + 2 /\ Len(line) \in 0 .. Len(line)
    BY <1>1, <1>5
  <2>2. /\ body \in Seq(Bytes)
        /\ Len(body) = IF c + 1 <= Len(line) THEN Len(line) - (c + 1) + 1 ELSE 0
    BY <1>5, <2>1, SubLine
  <2> HIDE DEF body
  <2> QED BY <1>1, <1>5, <2>2 DEF Lines
<1>8. Body(line) = IF body # <<>> /\ Head(body) = "space" THEN Tail(body) ELSE body
  BY DEF Body, c
<1> HIDE DEF body
<1>9. Body(line) \in Lines /\ (line # <<>> => Len(Body(line)) + 1 <= Len(line))
  <2>1. CASE Body(line) = body
    BY <1>7, <2>1
  <2>2. CASE body # <<>> /\ Body(line) = Tail(body)
    <3>1. Tail(body) \in Lines /\ Len(Tail(body)) = Len(body) - 1
      BY <1>2, <1>7, <2>2
    <3> QED BY <1>1, <1>7, <2>2, <3>1
  <2> QED BY <1>8, <2>1, <2>2
<1> QED BY <1>3, <1>6, <1>9 DEF Field, c

LEMMA EmptyField == Field(<<>>) = <<>>
<1>1. <<>> \in Lines /\ Len(<<>>) = 0
  BY EmptySeq DEF Lines
<1>2. Colon(<<>>) = 1
  BY <1>1, ColonType
<1> QED BY <1>2, SubSeqEmpty DEF Field

-----------------------------------------------------------------------------
(* The event that some lines make *)

LEMMA NameLaws ==
  /\ NameOf(<<>>) = <<>>
  /\ \A lines \in Seq(Lines) : NameOf(lines) \in Lines
  /\ \A lines \in Seq(Lines), l \in Lines :
       NameOf(Append(lines, l)) = IF Field(l) = <<"event">> THEN Body(l) ELSE NameOf(lines)
<1>1. NameOf(<<>>) = <<>>
  BY DEF NameOf, Named
<1>2. ASSUME NEW lines \in Seq(Lines) PROVE NameOf(lines) \in Lines
  <2>1. Named(lines) # {} => lines[Max(Named(lines))] \in Lines
    BY SequenceMax DEF Named
  <2>2. <<>> \in Lines
    BY EmptySeq DEF Lines
  <2> QED BY <2>1, <2>2, LineTypes DEF NameOf
<1>3. ASSUME NEW lines \in Seq(Lines), NEW l \in Lines
      PROVE  NameOf(Append(lines, l)) = IF Field(l) = <<"event">> THEN Body(l) ELSE NameOf(lines)
  <2> DEFINE n == Len(lines)
             more == Append(lines, l)
  <2>1. /\ n \in Nat /\ DOMAIN lines = 1 .. n /\ DOMAIN more = 1 .. n + 1
        /\ more[n + 1] = l /\ \A i \in 1 .. n : more[i] = lines[i]
    <3>1. more \in Seq(Lines) /\ Len(more) = n + 1
      BY AppendProperties
    <3> QED BY <3>1, AppendProperties, LenProperties
  <2> HIDE DEF n, more
  <2>2. Named(lines) \in SUBSET (1 .. n)
    BY <2>1 DEF Named
  <2>3. CASE Field(l) = <<"event">>
    <3>1. Named(more) \in SUBSET (1 .. n + 1) /\ n + 1 \in Named(more) /\ n + 1 \in Nat
      BY <2>1, <2>3 DEF Named
    <3>2. Max(Named(more)) = n + 1
      BY <3>1, MaxIsLast
    <3> QED BY <2>1, <2>3, <3>1, <3>2 DEF NameOf, more
  <2>4. CASE Field(l) # <<"event">>
    <3>1. Named(more) = Named(lines)
      BY <2>1, <2>4 DEF Named
    <3>2. Named(lines) # {} => Max(Named(lines)) \in 1 .. n
      BY <2>1, <2>2, MaxProperties
    <3>3. Named(lines) # {} => more[Max(Named(lines))] = lines[Max(Named(lines))]
      BY <2>1, <3>2
    <3> QED BY <2>4, <3>1, <3>3 DEF NameOf, more
  <2> QED BY <2>3, <2>4
<1> QED BY <1>1, <1>2, <1>3

Collects == [q \in Seq(Lines) \X Lines |->
               IF Field(q[2]) = <<"data">> THEN Append(q[1], Body(q[2])) ELSE q[1]]
LEMMA CollectsType == Collects \in FoldSteps(Seq(Lines), Lines)
<1>1. \A data \in Seq(Lines), l \in Lines : Append(data, Body(l)) \in Seq(Lines)
  BY LineTypes, AppendProperties
<1> QED BY <1>1 DEF Collects, FoldSteps

LEMMA DataFolded ==
  ASSUME NEW lines \in Seq(Lines)
  PROVE  DataOf(lines) = Folded(Collects, <<>>, lines)
<1> DEFINE seq == lines
           Chosen(h) == h = [s \in SUBSET DOMAIN seq |->
                               IF s = {} THEN <<>> ELSE
                                 IF Field(seq[Max(s)]) = <<"data">> THEN Append(h[s \ {Max(s)}], Body(seq[Max(s)])) ELSE h[s \ {Max(s)}]]
           C == CHOOSE h : Chosen(h)
<1>1. <<>> \in Seq(Lines) /\ seq \in Seq(Lines)
  BY EmptySeq
<1>2. \A s \in SUBSET DOMAIN seq : s # {} => seq[Max(s)] \in Lines
  BY <1>1, SequenceMax
<1>3. DataOf(lines) = C[DOMAIN seq]
  BY DEF DataOf, FoldLeft, MapThenFoldSet
<1> HIDE DEF seq
<1>4. Collects \in FoldSteps(Seq(Lines), Lines)
  BY CollectsType
<1>5. PICK g \in [SUBSET DOMAIN seq -> Seq(Lines)] : Solves(g, Collects, <<>>, seq)
  BY <1>1, <1>4, SolutionExists
<1>6. Chosen(g)
  BY <1>1, <1>2, <1>5, Zenon DEF Solves, Collects
<1>7. Chosen(C)
  BY <1>6, Zenon
<1> HIDE DEF C
<1>8. ASSUME NEW s \in SUBSET DOMAIN seq, s # {}, C[s \ {Max(s)}] \in Seq(Lines)
      PROVE  C[s] = Collects[<<C[s \ {Max(s)}], seq[Max(s)]>>]
  BY <1>2, <1>7, <1>8 DEF Collects
<1>9. FoldsLike(C, Seq(Lines), Collects, <<>>, seq)
  BY <1>7, <1>8 DEF FoldsLike
<1>10. Folded(Collects, <<>>, seq) = C[DOMAIN seq]
  <2> DEFINE step == Collects
             start == <<>>
             values == Seq(Lines)
             elements == Lines
  <2>1. /\ step \in FoldSteps(values, elements) /\ start \in values /\ seq \in Seq(elements)
        /\ FoldsLike(C, values, step, start, seq)
    BY <1>1, <1>4, <1>9
  <2> HIDE DEF step, start, values, elements
  <2>2. Folded(step, start, seq) = C[DOMAIN seq]
    BY <2>1, FoldedIsFold
  <2> QED BY <2>2 DEF step, start
<1> QED BY <1>3, <1>10 DEF seq

LEMMA DataLaws ==
  /\ DataOf(<<>>) = <<>>
  /\ \A lines \in Seq(Lines) : DataOf(lines) \in Seq(Lines)
  /\ \A lines \in Seq(Lines), l \in Lines :
       DataOf(Append(lines, l)) = IF Field(l) = <<"data">> THEN Append(DataOf(lines), Body(l))
                                  ELSE DataOf(lines)
<1> DEFINE S == Seq(Lines)
           op == Collects
           base == <<>>
<1>1. op \in FoldSteps(S, Lines) /\ base \in S
  BY CollectsType, EmptySeq
<1>2. \A lines \in S : DataOf(lines) = Folded(op, base, lines)
  BY DataFolded
<1>3. \A lines \in S, l \in Lines :
        op[<<lines, l>>] = IF Field(l) = <<"data">> THEN Append(lines, Body(l)) ELSE lines
  BY DEF Collects
<1>4. <<>> \in S /\ \A lines \in S, l \in Lines : Append(lines, l) \in S
  BY EmptySeq, AppendProperties
<1> SUFFICES /\ DataOf(<<>>) = base
             /\ \A lines \in S : DataOf(lines) \in S
             /\ \A lines \in S, l \in Lines :
                  DataOf(Append(lines, l)) = op[<<DataOf(lines), l>>]
  BY <1>3
<1> HIDE DEF S, op, base
<1>5. /\ Folded(op, base, <<>>) = base
      /\ \A lines \in S : lines \in Seq(Lines)
      /\ \A lines \in Seq(Lines) : Folded(op, base, lines) \in S
      /\ \A lines \in Seq(Lines), l \in Lines :
           Folded(op, base, Append(lines, l)) = op[<<Folded(op, base, lines), l>>]
  <2>1. \A lines \in S : lines \in Seq(Lines)
    BY DEF S
  <2> QED BY <1>1, <2>1, FoldedLaws
<1> QED BY <1>2, <1>4, <1>5

JoinsText == [q \in Lines \X Lines |-> q[1] \o <<"LF">> \o q[2]]
LEMMA JoinsTextType == JoinsText \in FoldSteps(Lines, Lines)
<1>1. <<"LF">> \in Lines
  BY DEF Lines, Bytes
<1>2. \A p \in Lines, q \in Lines : p \o q \in Lines
  BY ConcatProperties DEF Lines
<1>3. \A q \in Lines \X Lines : q[1] \o <<"LF">> \o q[2] \in Lines
  BY <1>1, <1>2
<1> QED BY <1>3 DEF JoinsText, FoldSteps

LEMMA JoinedFolded ==
  ASSUME NEW data \in Seq(Lines), data # <<>>
  PROVE  Joined(data) = Folded(JoinsText, Head(data), Tail(data))
<1> DEFINE seq == Tail(data)
           Chosen(h) == h = [s \in SUBSET DOMAIN seq |->
                               IF s = {} THEN Head(data) ELSE
                                 h[s \ {Max(s)}] \o <<"LF">> \o seq[Max(s)]]
           C == CHOOSE h : Chosen(h)
<1>1. Head(data) \in Lines /\ seq \in Seq(Lines)
  BY HeadTailProperties
<1>2. \A s \in SUBSET DOMAIN seq : s # {} => seq[Max(s)] \in Lines
  BY <1>1, SequenceMax
<1>3. Joined(data) = C[DOMAIN seq]
  BY DEF Joined, FoldLeft, MapThenFoldSet
<1> HIDE DEF seq
<1>4. JoinsText \in FoldSteps(Lines, Lines)
  BY JoinsTextType
<1>5. PICK g \in [SUBSET DOMAIN seq -> Lines] : Solves(g, JoinsText, Head(data), seq)
  BY <1>1, <1>4, SolutionExists
<1>6. Chosen(g)
  BY <1>1, <1>2, <1>5, Zenon DEF Solves, JoinsText
<1>7. Chosen(C)
  BY <1>6, Zenon
<1> HIDE DEF C
<1>8. ASSUME NEW s \in SUBSET DOMAIN seq, s # {}, C[s \ {Max(s)}] \in Lines
      PROVE  C[s] = JoinsText[<<C[s \ {Max(s)}], seq[Max(s)]>>]
  BY <1>2, <1>7, <1>8 DEF JoinsText
<1>9. FoldsLike(C, Lines, JoinsText, Head(data), seq)
  BY <1>7, <1>8 DEF FoldsLike
<1>10. Folded(JoinsText, Head(data), seq) = C[DOMAIN seq]
  <2> DEFINE step == JoinsText
             start == Head(data)
             values == Lines
             elements == Lines
  <2>1. /\ step \in FoldSteps(values, elements) /\ start \in values /\ seq \in Seq(elements)
        /\ FoldsLike(C, values, step, start, seq)
    BY <1>1, <1>4, <1>9
  <2> HIDE DEF step, start, values, elements
  <2>2. Folded(step, start, seq) = C[DOMAIN seq]
    BY <2>1, FoldedIsFold
  <2> QED BY <2>2 DEF step, start
<1> QED BY <1>3, <1>10 DEF seq

LEMMA JoinedLaws ==
  /\ \A data \in Seq(Lines) : data # <<>> => Joined(data) \in Lines
  /\ \A d \in Lines : Joined(<<d>>) = d
  /\ \A data \in Seq(Lines), d \in Lines :
       data # <<>> => Joined(Append(data, d)) = Joined(data) \o <<"LF">> \o d
<1>1. ASSUME NEW data \in Seq(Lines), data # <<>>, NEW d \in Lines
      PROVE  Joined(data) \in Lines /\ Joined(Append(data, d)) = Joined(data) \o <<"LF">> \o d
  <2> DEFINE more == Append(data, d)
             op == JoinsText
             base == Head(data)
             rest == Tail(data)
  <2>1. more \in Seq(Lines) /\ more # <<>> /\ Head(more) = base /\ Tail(more) = Append(rest, d)
    BY <1>1, AppendProperties, HeadTailAppend
  <2>2. base \in Lines /\ rest \in Seq(Lines) /\ op \in FoldSteps(Lines, Lines)
    BY <1>1, HeadTailProperties, JoinsTextType
  <2>3. Joined(data) = Folded(op, base, rest) /\ Joined(more) = Folded(op, Head(more), Tail(more))
    BY <1>1, <2>1, JoinedFolded
  <2>4. \A p \in Lines : op[<<p, d>>] = p \o <<"LF">> \o d
    BY DEF JoinsText
  <2> HIDE DEF more, op, base, rest
  <2>5. Folded(op, base, rest) \in Lines
    BY <2>2, FoldedLaws
  <2>6. Folded(op, base, Append(rest, d)) = op[<<Folded(op, base, rest), d>>]
    BY <2>2, FoldedAppend
  <2>7. Joined(more) = Joined(data) \o <<"LF">> \o d
    BY <2>1, <2>3, <2>4, <2>5, <2>6
  <2> QED BY <2>3, <2>5, <2>7 DEF more
<1>2. ASSUME NEW d \in Lines PROVE Joined(<<d>>) = d
  <2> DEFINE one == <<d>>
             op == JoinsText
             base == Head(one)
  <2>1. one \in Seq(Lines) /\ one # <<>> /\ Head(one) = d /\ Tail(one) = <<>>
    OBVIOUS
  <2>2. Joined(one) = Folded(op, Head(one), Tail(one))
    BY <2>1, JoinedFolded
  <2>3. op \in FoldSteps(Lines, Lines)
    BY JoinsTextType
  <2> HIDE DEF one, op
  <2>4. Folded(op, d, <<>>) = d
    BY <2>3, FoldedEmpty
  <2> QED BY <2>1, <2>2, <2>4 DEF one
<1>3. ASSUME NEW data \in Seq(Lines), data # <<>> PROVE Joined(data) \in Lines
  <2>1. <<>> \in Lines
    BY EmptySeq DEF Lines
  <2> QED BY <1>1, <1>3, <2>1
<1> QED BY <1>1, <1>2, <1>3

LEMMA EventTypes ==
  ASSUME NEW lines \in Seq(Lines) PROVE EventOf(lines) \in Seq(SseEvents)
<1>1. <<"message">> \in Lines
  <2>1. "message" \in Bytes
    BY DEF Bytes
  <2> HIDE DEF Bytes
  <2> QED BY <2>1 DEF Lines
<1>2. NameOf(lines) \in Lines /\ (DataOf(lines) # <<>> => Joined(DataOf(lines)) \in Lines)
  BY NameLaws, DataLaws, JoinedLaws
<1>3. CASE DataOf(lines) = <<>>
  BY <1>3, EmptySeq DEF EventOf
<1>4. CASE DataOf(lines) # <<>>
  <2> DEFINE event == [event |-> IF NameOf(lines) = <<>> THEN <<"message">> ELSE NameOf(lines),
                       data |-> Joined(DataOf(lines))]
  <2>1. event \in SseEvents
    BY <1>1, <1>2, <1>4 DEF SseEvents
  <2>2. EventOf(lines) = <<event>>
    BY <1>4 DEF EventOf
  <2> HIDE DEF event
  <2> QED BY <2>1, <2>2
<1> QED BY <1>3, <1>4

-----------------------------------------------------------------------------
(* The lines of a stream and the events of the lines, one more at a time *)

LEMMA Beginnings ==
  ASSUME NEW E, NEW seq \in Seq(E), NEW e \in E
  PROVE  /\ \A i \in 1 .. Len(seq) : /\ SubSeq(Append(seq, e), 1, i - 1) = SubSeq(seq, 1, i - 1)
                                     /\ Append(seq, e)[i] = seq[i]
         /\ SubSeq(Append(seq, e), 1, Len(seq)) = seq
         /\ \A i \in 1 .. Len(seq) : SubSeq(seq, 1, i - 1) \in Seq(E)
<1> DEFINE more == Append(seq, e)
           n == Len(seq)
<1>1. /\ n \in Nat /\ more \in Seq(E) /\ Len(more) = n + 1
      /\ \A i \in 1 .. n : more[i] = seq[i]
  BY AppendProperties, LenProperties
<1> HIDE DEF more
<1>2. ASSUME NEW j \in 0 .. n
      PROVE  SubSeq(more, 1, j) = SubSeq(seq, 1, j) /\ SubSeq(seq, 1, j) \in Seq(E)
  <2>1. /\ 1 \in 1 .. Len(seq) + 2 /\ j \in 0 .. Len(seq)
        /\ 1 \in 1 .. Len(more) + 2 /\ j \in 0 .. Len(more)
    BY <1>1
  <2> DEFINE f == SubSeq(more, 1, j)
             g == SubSeq(seq, 1, j)
  <2>2. /\ f \in Seq(E) /\ g \in Seq(E) /\ Len(f) = Len(g) /\ Len(g) = j
        /\ \A k \in 1 .. j - 1 + 1 : f[k] = more[1 + k - 1] /\ g[k] = seq[1 + k - 1]
    <3>1. /\ f \in Seq(E) /\ Len(f) = IF 1 <= j THEN j - 1 + 1 ELSE 0
          /\ \A k \in 1 .. j - 1 + 1 : f[k] = more[1 + k - 1]
      BY <1>1, <2>1, SubLine
    <3>2. /\ g \in Seq(E) /\ Len(g) = IF 1 <= j THEN j - 1 + 1 ELSE 0
          /\ \A k \in 1 .. j - 1 + 1 : g[k] = seq[1 + k - 1]
      BY <2>1, SubLine
    <3> HIDE DEF f, g
    <3> QED BY <3>1, <3>2
  <2> HIDE DEF f, g
  <2>3. \A k \in 1 .. Len(f) : f[k] = g[k]
    BY <1>1, <2>2
  <2>4. f = g
    BY <2>2, <2>3, SeqEqual
  <2> QED BY <2>2, <2>4 DEF f, g
<1>3. SubSeq(seq, 1, n) = seq
  BY SubSeqFull
<1>4. n \in 0 .. n /\ \A i \in 1 .. n : i - 1 \in 0 .. n
  BY <1>1
<1> QED BY <1>1, <1>2, <1>3, <1>4 DEF more

LEMMA LineBehindType ==
  ASSUME NEW b \in Lines PROVE Behind(b, LineEnds(b)) \in Lines /\ LineBehind(b) \in Lines
<1>1. Behind(b, LineEnds(b)) \in Lines
  BY BehindLaws DEF LineEnds, Lines, Marks
<1> QED BY <1>1, LineTypes DEF LineBehind

Cuts(b) == [q \in Seq(Lines) \X (1 .. Len(b)) |->
              IF IsEnd(SubSeq(b, 1, q[2] - 1), b[q[2]])
              THEN Append(q[1], LineBehind(SubSeq(b, 1, q[2] - 1))) ELSE q[1]]
LEMMA CutsType ==
  ASSUME NEW b \in Lines PROVE Cuts(b) \in FoldSteps(Seq(Lines), 1 .. Len(b))
<1>1. ASSUME NEW lines \in Seq(Lines), NEW i \in 1 .. Len(b)
      PROVE  Append(lines, LineBehind(SubSeq(b, 1, i - 1))) \in Seq(Lines)
  <2>1. SubSeq(b, 1, i - 1) \in Lines
    <3>1. b \in Seq(Bytes) /\ "x" \in Bytes
      BY DEF Lines, Bytes
    <3> QED BY <3>1, Beginnings DEF Lines
  <2>2. LineBehind(SubSeq(b, 1, i - 1)) \in Lines
    BY <2>1, LineBehindType
  <2> QED BY <2>2, AppendProperties
<1> QED BY <1>1 DEF Cuts, FoldSteps

LEMMA LinePositions ==
  ASSUME NEW b \in Lines
  PROVE  <<>> \in Seq(Lines) /\ Positions(b) \in Seq(1 .. Len(b))
BY EmptySeq, PositionsLaws DEF Lines

LEMMA LinesFolded ==
  ASSUME NEW b \in Lines
  PROVE  LinesOf(b) = Folded(Cuts(b), <<>>, Positions(b))
<1> DEFINE seq == Positions(b)
           Chosen(h) == h = [s \in SUBSET DOMAIN seq |->
                               IF s = {} THEN <<>> ELSE
                                 IF IsEnd(SubSeq(b, 1, seq[Max(s)] - 1), b[seq[Max(s)]])
                                 THEN Append(h[s \ {Max(s)}], LineBehind(SubSeq(b, 1, seq[Max(s)] - 1))) ELSE h[s \ {Max(s)}]]
           C == CHOOSE h : Chosen(h)
<1>1. <<>> \in Seq(Lines) /\ seq \in Seq((1 .. Len(b)))
  BY LinePositions
<1>2. \A s \in SUBSET DOMAIN seq : s # {} => seq[Max(s)] \in (1 .. Len(b))
  BY <1>1, SequenceMax
<1>3. LinesOf(b) = C[DOMAIN seq]
  BY DEF LinesOf, FoldLeft, MapThenFoldSet
<1> HIDE DEF seq
<1>4. Cuts(b) \in FoldSteps(Seq(Lines), (1 .. Len(b)))
  BY CutsType
<1>5. PICK g \in [SUBSET DOMAIN seq -> Seq(Lines)] : Solves(g, Cuts(b), <<>>, seq)
  BY <1>1, <1>4, SolutionExists
<1>6. Chosen(g)
  BY <1>1, <1>2, <1>5, Zenon DEF Solves, Cuts
<1>7. Chosen(C)
  BY <1>6, Zenon
<1> HIDE DEF C
<1>8. ASSUME NEW s \in SUBSET DOMAIN seq, s # {}, C[s \ {Max(s)}] \in Seq(Lines)
      PROVE  C[s] = Cuts(b)[<<C[s \ {Max(s)}], seq[Max(s)]>>]
  BY <1>2, <1>7, <1>8 DEF Cuts
<1>9. FoldsLike(C, Seq(Lines), Cuts(b), <<>>, seq)
  BY <1>7, <1>8 DEF FoldsLike
<1>10. Folded(Cuts(b), <<>>, seq) = C[DOMAIN seq]
  <2> DEFINE step == Cuts(b)
             start == <<>>
             values == Seq(Lines)
             elements == (1 .. Len(b))
  <2>1. /\ step \in FoldSteps(values, elements) /\ start \in values /\ seq \in Seq(elements)
        /\ FoldsLike(C, values, step, start, seq)
    BY <1>1, <1>4, <1>9
  <2> HIDE DEF step, start, values, elements
  <2>2. Folded(step, start, seq) = C[DOMAIN seq]
    BY <2>1, FoldedIsFold
  <2> QED BY <2>2 DEF step, start
<1> QED BY <1>3, <1>10 DEF seq

LEMMA LinesLaws ==
  /\ LinesOf(<<>>) = <<>>
  /\ \A b \in Lines : LinesOf(b) \in Seq(Lines)
  /\ \A b \in Lines, c \in Bytes :
       LinesOf(Append(b, c)) = IF IsEnd(b, c) THEN Append(LinesOf(b), LineBehind(b)) ELSE LinesOf(b)
<1> DEFINE S == Seq(Lines)
<1>0. <<>> \in Lines /\ <<>> \in S /\ Len(<<>>) = 0
  BY EmptySeq DEF Lines
<1>1. LinesOf(<<>>) = <<>>
  <2> DEFINE op == Cuts(<<>>)
             E == 1 .. Len(<<>>)
             base == <<>>
  <2>1. LinesOf(<<>>) = Folded(op, base, Positions(<<>>)) /\ op \in FoldSteps(S, E) /\ base \in S
    BY <1>0, LinesFolded, CutsType
  <2> HIDE DEF op, E, S, base
  <2>2. Folded(op, base, <<>>) = base
    BY <2>1, FoldedEmpty
  <2> QED BY <2>1, <2>2, NoPositions DEF base
<1>2. ASSUME NEW b \in Lines PROVE LinesOf(b) \in S
  <2> DEFINE op == Cuts(b)
             E == 1 .. Len(b)
             seq == Positions(b)
             base == <<>>
  <2>1. LinesOf(b) = Folded(op, base, seq) /\ op \in FoldSteps(S, E) /\ seq \in Seq(E) /\ base \in S
    BY <1>0, LinesFolded, CutsType, LinePositions
  <2> HIDE DEF op, E, seq, S, base
  <2> QED BY <2>1, FoldedLaws
<1>3. ASSUME NEW b \in Lines, NEW c \in Bytes
      PROVE  LinesOf(Append(b, c)) =
               IF IsEnd(b, c) THEN Append(LinesOf(b), LineBehind(b)) ELSE LinesOf(b)
  <2> DEFINE more == Append(b, c)
             n == Len(b)
             seq == Positions(b)
             op == Cuts(more)
             old == Cuts(b)
             E == 1 .. n + 1
             F == 1 .. n
             base == <<>>
  <2>1. n \in Nat /\ more \in Lines /\ Len(more) = n + 1
    BY AppendProperties, LenProperties DEF Lines
  <2>2. /\ op \in FoldSteps(S, E) /\ old \in FoldSteps(S, F) /\ base \in S
        /\ LinesOf(b) = Folded(old, base, seq) /\ LinesOf(b) \in S
        /\ LinesOf(more) = Folded(op, base, Positions(more))
    <3>1. 1 .. Len(more) = E
      BY <2>1
    <3> QED BY <2>1, <3>1, <1>0, <1>2, CutsType, LinesFolded
  <2>3. /\ seq \in Seq(F) /\ seq \in Seq(E) /\ Len(seq) = n /\ \A i \in 1 .. n : seq[i] = i
        /\ Positions(more) = Append(seq, n + 1) /\ n + 1 \in E
    <3>1. /\ seq \in Seq(F) /\ Len(seq) = n /\ \A i \in 1 .. n : seq[i] = i
          /\ Positions(more) = Append(seq, n + 1)
      BY PositionsLaws DEF Lines
    <3>2. n + 1 \in E /\ \A i \in F : i \in E
      BY <2>1
    <3> HIDE DEF seq, E, F
    <3> QED BY <3>1, <3>2
  <2>4. /\ \A i \in F : SubSeq(more, 1, i - 1) = SubSeq(b, 1, i - 1) /\ more[i] = b[i]
        /\ SubSeq(more, 1, n) = b /\ more[n + 1] = c
    BY Beginnings, AppendProperties DEF Lines
  <2>5. \A lines \in S, i \in F : op[<<lines, i>>] = old[<<lines, i>>]
    <3>1. \A i \in F : i \in 1 .. Len(more) /\ i \in 1 .. Len(b)
      BY <2>1
    <3> HIDE DEF more, F
    <3> QED BY <2>4, <3>1 DEF Cuts
  <2>6. \A lines \in S :
          op[<<lines, n + 1>>] = IF IsEnd(b, c) THEN Append(lines, LineBehind(b)) ELSE lines
    <3> DEFINE k == n + 1
    <3>1. k \in 1 .. Len(more) /\ k - 1 = n
      BY <2>1
    <3>2. k \in 1 .. Len(more) /\ SubSeq(more, 1, k - 1) = b /\ more[k] = c
      BY <2>4, <3>1
    <3> HIDE DEF more, n, k
    <3>3. \A lines \in S :
            op[<<lines, k>>] = IF IsEnd(b, c) THEN Append(lines, LineBehind(b)) ELSE lines
      BY <3>2 DEF Cuts
    <3> QED BY <3>3 DEF k
  <2>7. \A lines \in S, i \in 1 .. Len(seq) : op[<<lines, seq[i]>>] = old[<<lines, seq[i]>>]
    BY <2>3, <2>5
  <2> HIDE DEF op, old, E, F, S, base, seq, more, n
  <2>8. Folded(op, base, seq) = Folded(old, base, seq)
    BY <2>2, <2>3, <2>7, FoldedAlike
  <2>9. Folded(op, base, Append(seq, n + 1)) = op[<<Folded(op, base, seq), n + 1>>]
    BY <2>2, <2>3, FoldedAppend
  <2> QED BY <2>2, <2>3, <2>6, <2>8, <2>9 DEF more
<1> QED BY <1>1, <1>2, <1>3


LEMMA OpenLinesType ==
  ASSUME NEW lines \in Seq(Lines) PROVE OpenLines(lines) \in Seq(Lines)
BY BehindLaws DEF OpenLines, Blanks, Marks

Tells(lines) == [q \in Seq(SseEvents) \X (1 .. Len(lines)) |->
                   IF lines[q[2]] = <<>>
                   THEN q[1] \o EventOf(OpenLines(SubSeq(lines, 1, q[2] - 1))) ELSE q[1]]
LEMMA TellsType ==
  ASSUME NEW lines \in Seq(Lines) PROVE Tells(lines) \in FoldSteps(Seq(SseEvents), 1 .. Len(lines))
<1>1. ASSUME NEW events \in Seq(SseEvents), NEW i \in 1 .. Len(lines)
      PROVE  events \o EventOf(OpenLines(SubSeq(lines, 1, i - 1))) \in Seq(SseEvents)
  <2>1. SubSeq(lines, 1, i - 1) \in Seq(Lines)
    <3>1. <<>> \in Lines
      BY EmptySeq DEF Lines
    <3> QED BY <3>1, Beginnings
  <2>2. EventOf(OpenLines(SubSeq(lines, 1, i - 1))) \in Seq(SseEvents)
    BY <2>1, OpenLinesType, EventTypes
  <2> QED BY <2>2, ConcatProperties
<1> QED BY <1>1 DEF Tells, FoldSteps

LEMMA EventPositions ==
  ASSUME NEW lines \in Seq(Lines)
  PROVE  <<>> \in Seq(SseEvents) /\ Positions(lines) \in Seq(1 .. Len(lines))
BY EmptySeq, PositionsLaws

LEMMA EventsFolded ==
  ASSUME NEW lines \in Seq(Lines)
  PROVE  EventsOf(lines) = Folded(Tells(lines), <<>>, Positions(lines))
<1> DEFINE seq == Positions(lines)
           Chosen(h) == h = [s \in SUBSET DOMAIN seq |->
                               IF s = {} THEN <<>> ELSE
                                 IF lines[seq[Max(s)]] = <<>>
                                 THEN h[s \ {Max(s)}] \o EventOf(OpenLines(SubSeq(lines, 1, seq[Max(s)] - 1))) ELSE h[s \ {Max(s)}]]
           C == CHOOSE h : Chosen(h)
<1>1. <<>> \in Seq(SseEvents) /\ seq \in Seq((1 .. Len(lines)))
  BY EventPositions
<1>2. \A s \in SUBSET DOMAIN seq : s # {} => seq[Max(s)] \in (1 .. Len(lines))
  BY <1>1, SequenceMax
<1>3. EventsOf(lines) = C[DOMAIN seq]
  BY DEF EventsOf, FoldLeft, MapThenFoldSet
<1> HIDE DEF seq
<1>4. Tells(lines) \in FoldSteps(Seq(SseEvents), (1 .. Len(lines)))
  BY TellsType
<1>5. PICK g \in [SUBSET DOMAIN seq -> Seq(SseEvents)] : Solves(g, Tells(lines), <<>>, seq)
  BY <1>1, <1>4, SolutionExists
<1>6. Chosen(g)
  BY <1>1, <1>2, <1>5, Zenon DEF Solves, Tells
<1>7. Chosen(C)
  BY <1>6, Zenon
<1> HIDE DEF C
<1>8. ASSUME NEW s \in SUBSET DOMAIN seq, s # {}, C[s \ {Max(s)}] \in Seq(SseEvents)
      PROVE  C[s] = Tells(lines)[<<C[s \ {Max(s)}], seq[Max(s)]>>]
  BY <1>2, <1>7, <1>8 DEF Tells
<1>9. FoldsLike(C, Seq(SseEvents), Tells(lines), <<>>, seq)
  BY <1>7, <1>8 DEF FoldsLike
<1>10. Folded(Tells(lines), <<>>, seq) = C[DOMAIN seq]
  <2> DEFINE step == Tells(lines)
             start == <<>>
             values == Seq(SseEvents)
             elements == (1 .. Len(lines))
  <2>1. /\ step \in FoldSteps(values, elements) /\ start \in values /\ seq \in Seq(elements)
        /\ FoldsLike(C, values, step, start, seq)
    BY <1>1, <1>4, <1>9
  <2> HIDE DEF step, start, values, elements
  <2>2. Folded(step, start, seq) = C[DOMAIN seq]
    BY <2>1, FoldedIsFold
  <2> QED BY <2>2 DEF step, start
<1> QED BY <1>3, <1>10 DEF seq
LEMMA EventsLaws ==
  /\ EventsOf(<<>>) = <<>>
  /\ \A lines \in Seq(Lines) : EventsOf(lines) \in Seq(SseEvents)
  /\ \A lines \in Seq(Lines), l \in Lines :
       EventsOf(Append(lines, l)) = IF l = <<>> THEN EventsOf(lines) \o EventOf(OpenLines(lines)) ELSE EventsOf(lines)
<1> DEFINE S == Seq(SseEvents)
<1>0. <<>> \in Seq(Lines) /\ <<>> \in S /\ Len(<<>>) = 0
  BY EmptySeq
<1>1. EventsOf(<<>>) = <<>>
  <2> DEFINE op == Tells(<<>>)
             E == 1 .. Len(<<>>)
             base == <<>>
  <2>1. EventsOf(<<>>) = Folded(op, base, Positions(<<>>)) /\ op \in FoldSteps(S, E) /\ base \in S
    BY <1>0, EventsFolded, TellsType
  <2> HIDE DEF op, E, S, base
  <2>2. Folded(op, base, <<>>) = base
    BY <2>1, FoldedEmpty
  <2> QED BY <2>1, <2>2, NoPositions DEF base
<1>2. ASSUME NEW lines \in Seq(Lines) PROVE EventsOf(lines) \in S
  <2> DEFINE op == Tells(lines)
             E == 1 .. Len(lines)
             seq == Positions(lines)
             base == <<>>
  <2>1. EventsOf(lines) = Folded(op, base, seq) /\ op \in FoldSteps(S, E) /\ seq \in Seq(E) /\ base \in S
    BY <1>0, EventsFolded, TellsType, EventPositions
  <2> HIDE DEF op, E, seq, S, base
  <2> QED BY <2>1, FoldedLaws
<1>3. ASSUME NEW lines \in Seq(Lines), NEW l \in Lines
      PROVE  EventsOf(Append(lines, l)) =
               IF l = <<>> THEN EventsOf(lines) \o EventOf(OpenLines(lines)) ELSE EventsOf(lines)
  <2> DEFINE more == Append(lines, l)
             n == Len(lines)
             seq == Positions(lines)
             op == Tells(more)
             old == Tells(lines)
             E == 1 .. n + 1
             F == 1 .. n
             base == <<>>
  <2>1. n \in Nat /\ more \in Seq(Lines) /\ Len(more) = n + 1
    BY AppendProperties, LenProperties
  <2>2. /\ op \in FoldSteps(S, E) /\ old \in FoldSteps(S, F) /\ base \in S
        /\ EventsOf(lines) = Folded(old, base, seq) /\ EventsOf(lines) \in S
        /\ EventsOf(more) = Folded(op, base, Positions(more))
    <3>1. 1 .. Len(more) = E
      BY <2>1
    <3> QED BY <2>1, <3>1, <1>0, <1>2, TellsType, EventsFolded
  <2>3. /\ seq \in Seq(F) /\ seq \in Seq(E) /\ Len(seq) = n /\ \A i \in 1 .. n : seq[i] = i
        /\ Positions(more) = Append(seq, n + 1) /\ n + 1 \in E
    <3>1. /\ seq \in Seq(F) /\ Len(seq) = n /\ \A i \in 1 .. n : seq[i] = i
          /\ Positions(more) = Append(seq, n + 1)
      BY PositionsLaws
    <3>2. n + 1 \in E /\ \A i \in F : i \in E
      BY <2>1
    <3> HIDE DEF seq, E, F
    <3> QED BY <3>1, <3>2
  <2>4. /\ \A i \in F : SubSeq(more, 1, i - 1) = SubSeq(lines, 1, i - 1) /\ more[i] = lines[i]
        /\ SubSeq(more, 1, n) = lines /\ more[n + 1] = l
    BY Beginnings, AppendProperties
  <2>5. \A events \in S, i \in F : op[<<events, i>>] = old[<<events, i>>]
    <3>1. \A i \in F : i \in 1 .. Len(more) /\ i \in 1 .. Len(lines)
      BY <2>1
    <3> HIDE DEF more, F
    <3> QED BY <2>4, <3>1 DEF Tells
  <2>6. \A events \in S :
          op[<<events, n + 1>>] = IF l = <<>> THEN events \o EventOf(OpenLines(lines)) ELSE events
    <3> DEFINE k == n + 1
    <3>1. k \in 1 .. Len(more) /\ k - 1 = n
      BY <2>1
    <3>2. k \in 1 .. Len(more) /\ SubSeq(more, 1, k - 1) = lines /\ more[k] = l
      BY <2>4, <3>1
    <3> HIDE DEF more, n, k
    <3>3. \A events \in S :
            op[<<events, k>>] = IF l = <<>> THEN events \o EventOf(OpenLines(lines)) ELSE events
      BY <3>2 DEF Tells
    <3> QED BY <3>3 DEF k
  <2>7. \A events \in S, i \in 1 .. Len(seq) : op[<<events, seq[i]>>] = old[<<events, seq[i]>>]
    BY <2>3, <2>5
  <2> HIDE DEF op, old, E, F, S, base, seq, more, n
  <2>8. Folded(op, base, seq) = Folded(old, base, seq)
    BY <2>2, <2>3, <2>7, FoldedAlike
  <2>9. Folded(op, base, Append(seq, n + 1)) = op[<<Folded(op, base, seq), n + 1>>]
    BY <2>2, <2>3, FoldedAppend
  <2> QED BY <2>2, <2>3, <2>6, <2>8, <2>9 DEF more
<1> QED BY <1>1, <1>2, <1>3


-----------------------------------------------------------------------------
(* What is open: the line begun and the lines of an event begun *)

LEMMA PrefixKept ==
  ASSUME NEW E, NEW p \in Seq(E), NEW q \in Seq(E), NEW r \in Seq(E)
  PROVE  IsPrefix(p, p) /\ (IsPrefix(p, q) => IsPrefix(p, q \o r))
<1>1. IsPrefix(p, p)
  BY LenProperties DEF IsPrefix
<1>2. ASSUME IsPrefix(p, q) PROVE IsPrefix(p, q \o r)
  <2> DEFINE n == Len(p)
             more == q \o r
  <2>1. n \in Nat /\ n <= Len(q) /\ Len(q) \in Nat /\ SubSeq(p, 1, n) = SubSeq(q, 1, n)
    BY <1>2, LenProperties DEF IsPrefix
  <2>2. more \in Seq(E) /\ Len(more) >= Len(q) /\ Len(more) \in Nat
    BY ConcatProperties, LenProperties, <2>1
  <2>3. SubSeq(more, 1, n) = SubSeq(q, 1, n)
    <3>1. CASE n = 0
      BY <3>1, SubSeqEmpty
    <3>2. CASE n # 0
      <4>1. 1 \in 1 .. Len(q) /\ n \in 1 .. Len(q)
        BY <2>1, <3>2
      <4> QED BY <4>1, SubSeqOfConcat1
    <3> QED BY <3>1, <3>2
  <2> HIDE DEF n, more
  <2>4. n <= Len(more) /\ SubSeq(p, 1, n) = SubSeq(more, 1, n)
    BY <2>1, <2>2, <2>3
  <2> QED BY <2>4 DEF n, more, IsPrefix
<1> QED BY <1>1, <1>2

LEMMA OpenBytes ==
  ASSUME NEW b \in Lines, NEW c \in Bytes
  PROVE  /\ (LineEnds(Append(b, c)) = {}) = (LineEnds(b) = {} /\ c \notin EndsOfLine)
         /\ Behind(Append(b, c), LineEnds(Append(b, c))) =
              IF c \in EndsOfLine THEN <<>> ELSE Append(Behind(b, LineEnds(b)), c)
         /\ Append(b, c) # <<>> /\ Last(Append(b, c)) = c
<1> DEFINE more == Append(b, c)
           n == Len(b)
           marks == LineEnds(b)
<1>1. /\ n \in Nat /\ DOMAIN b = 1 .. n /\ more # <<>> /\ DOMAIN more = 1 .. n + 1
      /\ Len(more) = n + 1 /\ more[n + 1] = c /\ \A i \in 1 .. n : more[i] = b[i]
  <2>1. more \in Seq(Bytes) /\ Len(more) = n + 1
    BY AppendProperties DEF Lines
  <2> QED BY <2>1, AppendProperties, LenProperties DEF Lines
<1> HIDE DEF more, n
<1>2. LineEnds(more) = IF c \in EndsOfLine THEN marks \cup {n + 1} ELSE marks
  BY <1>1 DEF LineEnds
<1>3. marks \in Marks(b)
  BY DEF LineEnds, Marks
<1> HIDE DEF marks
<1>4. Behind(more, marks) = Append(Behind(b, marks), c) /\ Behind(more, marks \cup {n + 1}) = <<>>
  <2>1. b \in Seq(Bytes)
    BY DEF Lines
  <2>2. \A e \in Bytes : /\ Behind(Longer(b, e), marks) = Longer(Behind(b, marks), e)
                        /\ Behind(Longer(b, e), MarkNext(b, marks)) = <<>>
    BY <1>3, <2>1, BehindLaws
  <2> QED BY <2>2 DEF more, n, Longer, MarkNext
<1>5. more # <<>> /\ Last(more) = c
  BY <1>1 DEF Last
<1> QED BY <1>2, <1>4, <1>5 DEF more, marks

LEMMA OpenLinesLaws ==
  ASSUME NEW lines \in Seq(Lines), NEW l \in Lines
  PROVE  OpenLines(Append(lines, l)) = IF l = <<>> THEN <<>> ELSE Append(OpenLines(lines), l)
<1> DEFINE more == Append(lines, l)
           n == Len(lines)
           marks == Blanks(lines)
<1>1. /\ n \in Nat /\ DOMAIN lines = 1 .. n /\ DOMAIN more = 1 .. n + 1
      /\ more[n + 1] = l /\ \A i \in 1 .. n : more[i] = lines[i]
  <2>1. more \in Seq(Lines) /\ Len(more) = n + 1
    BY AppendProperties
  <2> QED BY <2>1, AppendProperties, LenProperties
<1> HIDE DEF more, n
<1>2. Blanks(more) = IF l = <<>> THEN marks \cup {n + 1} ELSE marks
  BY <1>1 DEF Blanks
<1>3. marks \in Marks(lines)
  BY DEF Blanks, Marks
<1> HIDE DEF marks
<1>4. Behind(more, marks) = Append(Behind(lines, marks), l) /\ Behind(more, marks \cup {n + 1}) = <<>>
  <2>1. \A e \in Lines : /\ Behind(Longer(lines, e), marks) = Longer(Behind(lines, marks), e)
                        /\ Behind(Longer(lines, e), MarkNext(lines, marks)) = <<>>
    BY <1>3, BehindLaws
  <2> QED BY <2>1 DEF more, n, Longer, MarkNext
<1> QED BY <1>2, <1>4 DEF OpenLines, more, marks

(* The data of some lines as the decoder keeps it.                         *)
TextOf(lines) == IF DataOf(lines) = <<>> THEN <<>> ELSE Append(Joined(DataOf(lines)), "LF")

LEMMA LfByte == "LF" \in Bytes /\ "CR" \in Bytes /\ <<"LF">> \in Lines
<1>1. "LF" \in Bytes /\ "CR" \in Bytes
  BY DEF Bytes
<1> HIDE DEF Bytes
<1> QED BY <1>1 DEF Lines

LEMMA TextLaws ==
  ASSUME NEW lines \in Seq(Lines), NEW l \in Lines
  PROVE  /\ TextOf(lines) \in Lines
         /\ TextOf(Append(lines, l)) = IF Field(l) = <<"data">>
                                       THEN TextOf(lines) \o Body(l) \o <<"LF">> ELSE TextOf(lines)
         /\ EventOf(lines) =
              IF TextOf(lines) = <<>> THEN <<>>
              ELSE <<[event |-> IF NameOf(lines) = <<>> THEN <<"message">> ELSE NameOf(lines),
                      data |-> Front(TextOf(lines))]>>
<1> DEFINE data == DataOf(lines)
           d == Body(l)
           text == Joined(data)
<1>1. data \in Seq(Lines) /\ d \in Lines /\ (data # <<>> => text \in Lines)
  BY DataLaws, LineTypes, JoinedLaws
<1>2. DataOf(Append(lines, l)) = IF Field(l) = <<"data">> THEN Append(data, d) ELSE data
  BY DataLaws
<1>3. data # <<>> => Append(text, "LF") \in Lines /\ Append(text, "LF") # <<>>
  <2> HIDE DEF text, data
  <2>1. \A q \in Seq(Bytes) : Append(q, "LF") \in Seq(Bytes) /\ Append(q, "LF") # <<>>
    BY LfByte, AppendProperties
  <2> QED BY <1>1, <2>1 DEF Lines
<1>4. data # <<>> => Front(Append(text, "LF")) = text
  <2> SUFFICES ASSUME data # <<>> PROVE Front(Append(text, "LF")) = text
    OBVIOUS
  <2> HIDE DEF text, data
  <2>1. text \in Seq(Bytes) /\ "LF" \in Bytes
    BY <1>1, LfByte DEF Lines
  <2>2. Len(Append(text, "LF")) = Len(text) + 1 /\ Len(text) \in Nat
    BY <2>1, AppendProperties, LenProperties
  <2>3. SubSeq(Append(text, "LF"), 1, Len(text)) = text
    BY <2>1, Beginnings
  <2> QED BY <2>2, <2>3 DEF Front
<1>5. TextOf(Append(lines, l)) = IF Field(l) = <<"data">>
                                 THEN TextOf(lines) \o d \o <<"LF">> ELSE TextOf(lines)
  <2> SUFFICES ASSUME Field(l) = <<"data">>
               PROVE  TextOf(Append(lines, l)) = TextOf(lines) \o d \o <<"LF">>
    BY <1>2 DEF TextOf
  <2> HIDE DEF data, d, text
  <2>1. Append(data, d) # <<>> /\ DataOf(Append(lines, l)) = Append(data, d)
    BY <1>1, <1>2, AppendProperties
  <2>2. TextOf(Append(lines, l)) = Append(Joined(Append(data, d)), "LF")
    BY <2>1 DEF TextOf
  <2>3. CASE data = <<>>
    <3>1. Append(data, d) = <<d>>
      BY <2>3
    <3>2. Joined(Append(data, d)) = d
      BY <1>1, <3>1, JoinedLaws
    <3>3. TextOf(lines) \o d \o <<"LF">> = Append(d, "LF")
      <4>1. TextOf(lines) = <<>>
        BY <2>3 DEF TextOf, data
      <4>2. <<>> \o d = d
        BY <1>1, ConcatEmptySeq DEF Lines
      <4>3. Append(d, "LF") = d \o <<"LF">>
        BY <1>1, LfByte, AppendIsConcat DEF Lines
      <4> QED BY <4>1, <4>2, <4>3
    <3> QED BY <2>2, <3>2, <3>3
  <2>4. CASE data # <<>>
    <3>1. Joined(Append(data, d)) = text \o <<"LF">> \o d
      BY <1>1, <2>4, JoinedLaws DEF text
    <3>2. text \in Lines /\ text \o <<"LF">> \in Lines /\ text \o <<"LF">> \o d \in Lines
      BY <1>1, <2>4, LfByte, ConcatProperties DEF Lines
    <3>3. Append(text \o <<"LF">> \o d, "LF") = text \o <<"LF">> \o d \o <<"LF">>
      BY <3>2, LfByte, AppendIsConcat DEF Lines
    <3>4. TextOf(lines) = text \o <<"LF">>
      <4>1. Append(text, "LF") = text \o <<"LF">>
        BY <3>2, LfByte, AppendIsConcat DEF Lines
      <4> QED BY <2>4, <4>1 DEF TextOf, text, data
    <3> QED BY <2>2, <3>1, <3>3, <3>4
  <2> QED BY <2>3, <2>4
<1>6. TextOf(lines) \in Lines
  BY <1>1, <1>3, EmptySeq DEF TextOf, Lines
<1>7. /\ (TextOf(lines) = <<>>) = (data = <<>>)
      /\ data # <<>> => Front(TextOf(lines)) = text
  <2> HIDE DEF text
  <2>1. TextOf(lines) = IF data = <<>> THEN <<>> ELSE Append(text, "LF")
    BY DEF TextOf, text
  <2> QED BY <2>1, <1>3, <1>4
<1> QED BY <1>5, <1>6, <1>7 DEF EventOf

-----------------------------------------------------------------------------
(* The event stream decoder *)

SseStates ==
  [line : Lines, event : Lines, data : Lines, afterCr : BOOLEAN, firstLine : BOOLEAN,
   failed : BOOLEAN, events : Seq(SseEvents)]

(* A decoder that has taken the bytes b has what is open in its buffers,   *)
(* and has dispatched the events.                                          *)
SseAt(b, s) ==
  /\ s.line = Behind(b, LineEnds(b)) /\ s.firstLine = (LineEnds(b) = {})
  /\ s.afterCr = (b # <<>> /\ Last(b) = "CR") /\ (s.afterCr => s.line = <<>> /\ ~s.firstLine)
  /\ s.event = NameOf(OpenLines(LinesOf(b))) /\ s.data = TextOf(OpenLines(LinesOf(b)))
  /\ s.events = Events(b)
SseInv(limit, b, s) ==
  /\ s \in SseStates /\ Held(s) <= limit /\ Held(s) <= Len(b)
  /\ s.failed => IsPrefix(s.events, Events(b)) /\ Len(b) > limit
  /\ ~s.failed => SseAt(b, s)

LEMMA HeldType ==
  ASSUME NEW s \in SseStates
  PROVE  /\ Len(s.line) \in Nat /\ Len(s.event) \in Nat /\ Len(s.data) \in Nat
         /\ Held(s) = Len(s.line) + Len(s.event) + Len(s.data) /\ Held(s) \in Nat
<1>1. s.line \in Seq(Bytes) /\ s.event \in Seq(Bytes) /\ s.data \in Seq(Bytes)
  BY DEF SseStates, Lines
<1>2. Len(s.line) \in Nat /\ Len(s.event) \in Nat /\ Len(s.data) \in Nat
  BY <1>1, LenProperties
<1> DEFINE x == Len(s.line)
           y == Len(s.event)
           z == Len(s.data)
<1>3. Held(s) = x + y + z
  BY DEF Held
<1> HIDE DEF x, y, z
<1>4. x \in Nat /\ y \in Nat /\ z \in Nat
  BY <1>2 DEF x, y, z
<1>5. Held(s) \in Nat
  BY <1>3, <1>4
<1> QED BY <1>2, <1>3, <1>5 DEF x, y, z

LEMMA EventsType ==
  ASSUME NEW b \in Lines, NEW c \in Bytes
  PROVE  /\ LinesOf(b) \in Seq(Lines) /\ Events(b) \in Seq(SseEvents)
         /\ \E r \in Seq(SseEvents) : Events(Append(b, c)) = Events(b) \o r
<1> DEFINE lines == LinesOf(b)
           l == LineBehind(b)
<1>1. lines \in Seq(Lines) /\ l \in Lines
  BY LinesLaws, LineBehindType
<1>2. LinesOf(Append(b, c)) = IF IsEnd(b, c) THEN Append(lines, l) ELSE lines
  BY LinesLaws
<1> HIDE DEF lines, l
<1>3. /\ EventsOf(lines) \in Seq(SseEvents) /\ EventOf(OpenLines(lines)) \in Seq(SseEvents)
      /\ EventsOf(Append(lines, l)) =
           IF l = <<>> THEN EventsOf(lines) \o EventOf(OpenLines(lines)) ELSE EventsOf(lines)
  BY <1>1, EventsLaws, OpenLinesType, EventTypes
<1>4. <<>> \in Seq(SseEvents) /\ EventsOf(lines) \o <<>> = EventsOf(lines)
  BY <1>3, EmptySeq, ConcatEmptySeq
<1>5. Events(b) = EventsOf(lines)
  BY DEF Events, lines
<1>6. \/ Events(Append(b, c)) = EventsOf(lines) \o <<>>
      \/ Events(Append(b, c)) = EventsOf(lines) \o EventOf(OpenLines(lines))
  BY <1>2, <1>3, <1>4 DEF Events
<1>7. \E r \in Seq(SseEvents) : Events(Append(b, c)) = EventsOf(lines) \o r
  BY <1>3, <1>4, <1>6
<1> QED BY <1>1, <1>3, <1>5, <1>7 DEF lines

(* What the end of a line does.                                            *)
ValueOf(s) == IF s.firstLine THEN WithoutMark(s.line) ELSE s.line
LineEnded(s, mark) == Line([s EXCEPT !.afterCr = mark])

LEMMA LineFields ==
  ASSUME NEW s \in SseStates, NEW mark \in BOOLEAN
  PROVE  LET t == LineEnded(s, mark)
             value == ValueOf(s)
         IN /\ t \in SseStates /\ t.line = <<>> /\ ~t.firstLine /\ t.afterCr = mark
            /\ t.failed = s.failed
            /\ value = <<>> =>
                 /\ t.event = <<>> /\ t.data = <<>>
                 /\ t.events =
                      IF s.data = <<>> THEN s.events
                      ELSE Append(s.events, [event |-> IF s.event = <<>> THEN <<"message">> ELSE s.event,
                                             data |-> Front(s.data)])
            /\ value # <<>> =>
                 /\ t.events = s.events
                 /\ t.event = IF Field(value) = <<"event">> THEN Body(value) ELSE s.event
                 /\ t.data = IF Field(value) = <<"data">> THEN s.data \o Body(value) \o <<"LF">>
                             ELSE s.data
<1> DEFINE value == ValueOf(s)
           u == [s EXCEPT !.afterCr = mark]
           t == [u EXCEPT !.line = <<>>, !.firstLine = FALSE]
           e == [event |-> IF s.event = <<>> THEN <<"message">> ELSE s.event,
                 data |-> Front(s.data)]
           new == LineEnded(s, mark)
<1>1. s.line \in Lines /\ s.event \in Lines /\ s.data \in Lines /\ s.events \in Seq(SseEvents)
  BY DEF SseStates
<1>2. value \in Lines
  BY <1>1, LineTypes DEF ValueOf
<1>3. <<>> \in Lines /\ <<"message">> \in Lines
  <2>1. "message" \in Bytes
    BY DEF Bytes
  <2> HIDE DEF Bytes
  <2> QED BY <2>1, EmptySeq DEF Lines
<1>4. s.data # <<>> => e \in SseEvents
  <2>1. s.data # <<>> => Front(s.data) \in Lines
    <3>1. ASSUME NEW q \in Seq(Bytes), q # <<>> PROVE Front(q) \in Seq(Bytes)
      <4>1. Len(q) \in Nat /\ Len(q) > 0
        BY <3>1, LenProperties, EmptySeq
      <4>2. 1 \in 1 .. Len(q) + 2 /\ Len(q) - 1 \in 0 .. Len(q)
        BY <4>1
      <4> QED BY <4>2, SubLine DEF Front
    <3> QED BY <1>1, <3>1 DEF Lines
  <2> QED BY <1>1, <1>3, <2>1 DEF SseEvents
<1>5. /\ t \in SseStates /\ t.line = <<>> /\ ~t.firstLine /\ t.afterCr = mark
      /\ t.failed = s.failed /\ t.event = s.event /\ t.data = s.data /\ t.events = s.events
  BY <1>3 DEF SseStates
<1>6. new = IF value = <<>> THEN DispatchEvent(t)
            ELSE IF Field(value) = <<"event">> THEN [t EXCEPT !.event = Body(value)]
            ELSE IF Field(value) = <<"data">> THEN [t EXCEPT !.data = @ \o Body(value) \o <<"LF">>]
            ELSE t
  <2>1. u.firstLine = s.firstLine /\ u.line = s.line
    BY DEF SseStates
  <2>2. value = IF u.firstLine THEN WithoutMark(u.line) ELSE u.line
    BY <2>1 DEF ValueOf
  <2> HIDE DEF u, value
  <2>3. new = Line(u)
    BY DEF LineEnded, u
  <2> HIDE DEF new
  <2> QED BY <2>2, <2>3 DEF Line
<1>7. <<"event">> # <<"data">>
  <2>1. <<"event">>[1] # <<"data">>[1]
    OBVIOUS
  <2> QED BY <2>1
<1> HIDE DEF t, new, value, e
<1>8. CASE value = <<>>
  <2> DEFINE told == IF s.data = <<>> THEN s.events ELSE Append(s.events, e)
  <2>1. told \in Seq(SseEvents)
    BY <1>1, <1>4, AppendProperties
  <2>2. new = [t EXCEPT !.event = <<>>, !.data = <<>>, !.events = told]
    BY <1>5, <1>6, <1>8 DEF DispatchEvent, e
  <2> HIDE DEF told
  <2>3. /\ new \in SseStates /\ new.line = t.line /\ new.firstLine = t.firstLine
        /\ new.afterCr = t.afterCr /\ new.failed = t.failed
        /\ new.event = <<>> /\ new.data = <<>> /\ new.events = told
    BY <1>3, <1>5, <2>1, <2>2 DEF SseStates
  <2> QED BY <1>5, <1>8, <2>3 DEF told, e, value, new
<1>9. CASE value # <<>> /\ Field(value) = <<"event">>
  <2>1. new = [t EXCEPT !.event = Body(value)] /\ Body(value) \in Lines
    BY <1>2, <1>6, <1>9, LineTypes
  <2>2. /\ new \in SseStates /\ new.line = t.line /\ new.firstLine = t.firstLine
        /\ new.afterCr = t.afterCr /\ new.failed = t.failed
        /\ new.event = Body(value) /\ new.data = t.data /\ new.events = t.events
    BY <1>5, <2>1 DEF SseStates
  <2> QED BY <1>5, <1>7, <1>9, <2>2 DEF value, new
<1>10. CASE value # <<>> /\ Field(value) = <<"data">>
  <2> DEFINE more == s.data \o Body(value) \o <<"LF">>
  <2>1. more \in Lines
    BY <1>1, <1>2, LineTypes, LfByte, ConcatProperties DEF Lines
  <2>2. new = [t EXCEPT !.data = more]
    BY <1>5, <1>6, <1>7, <1>10
  <2> HIDE DEF more
  <2>3. /\ new \in SseStates /\ new.line = t.line /\ new.firstLine = t.firstLine
        /\ new.afterCr = t.afterCr /\ new.failed = t.failed
        /\ new.event = t.event /\ new.data = more /\ new.events = t.events
    BY <1>5, <2>1, <2>2 DEF SseStates
  <2> QED BY <1>5, <1>7, <1>10, <2>3 DEF value, new, more
<1>11. CASE value # <<>> /\ Field(value) # <<"event">> /\ Field(value) # <<"data">>
  <2>1. new = t
    BY <1>6, <1>11
  <2> QED BY <1>5, <1>11, <2>1 DEF value, new
<1> QED BY <1>8, <1>9, <1>10, <1>11

(* The buffers hold no more than before: what a line leaves in one of them *)
(* is shorter than the line.                                               *)
LEMMA HeldShrinks ==
  ASSUME NEW s \in SseStates, NEW mark \in BOOLEAN
  PROVE  Held(LineEnded(s, mark)) <= Held(s)
<1> DEFINE value == ValueOf(s)
           t == LineEnded(s, mark)
           body == Body(value)
<1>1. /\ t \in SseStates /\ t.line = <<>>
      /\ value = <<>> => t.event = <<>> /\ t.data = <<>>
      /\ value # <<>> =>
           /\ t.event = IF Field(value) = <<"event">> THEN body ELSE s.event
           /\ t.data = IF Field(value) = <<"data">> THEN s.data \o body \o <<"LF">> ELSE s.data
  BY LineFields
<1>2. s.line \in Lines /\ s.event \in Lines /\ s.data \in Lines
  BY DEF SseStates
<1>3. /\ value \in Lines /\ Len(value) <= Len(s.line) /\ body \in Lines
      /\ value # <<>> => Len(body) + 1 <= Len(value)
  <2>1. \A l \in Lines : Len(l) \in Nat
    BY LenProperties DEF Lines
  <2>2. value \in Lines /\ Len(value) <= Len(s.line)
    BY <1>2, <2>1, LineTypes DEF ValueOf
  <2> HIDE DEF value
  <2> QED BY <2>2, LineTypes
<1>4. Len(s.data \o body \o <<"LF">>) = Len(s.data) + Len(body) + 1
  <2> HIDE DEF body
  <2>1. s.data \in Seq(Bytes) /\ body \in Seq(Bytes) /\ <<"LF">> \in Seq(Bytes) /\ Len(<<"LF">>) = 1
    BY <1>2, <1>3, LfByte DEF Lines
  <2>2. s.data \o body \in Seq(Bytes) /\ Len(s.data \o body) = Len(s.data) + Len(body)
    BY <2>1, ConcatProperties
  <2> QED BY <2>1, <2>2, ConcatProperties
<1>5. Len(<<>>) = 0
  BY EmptySeq
<1>6. /\ Held(s) = Len(s.line) + Len(s.event) + Len(s.data)
      /\ Len(s.line) \in Nat /\ Len(s.event) \in Nat /\ Len(s.data) \in Nat
      /\ Held(t) = Len(t.line) + Len(t.event) + Len(t.data)
      /\ Len(value) \in Nat /\ Len(body) \in Nat
  <2> HIDE DEF t, value, body
  <2>1. \A l \in Lines : Len(l) \in Nat
    BY LenProperties DEF Lines
  <2> QED BY <1>1, <1>3, <2>1, HeldType
<1> DEFINE x == Len(s.line)
           y == Len(s.event)
           z == Len(s.data)
           k == Len(body)
           v == Len(value)
<1>7. /\ Held(s) = x + y + z /\ x \in Nat /\ y \in Nat /\ z \in Nat /\ k \in Nat /\ v \in Nat
      /\ v <= x
      /\ \/ Held(t) = 0 + 0 + 0
         \/ k + 1 <= v /\ Held(t) = 0 + k + z
         \/ k + 1 <= v /\ Held(t) = 0 + y + z
         \/ k + 1 <= v /\ Held(t) = 0 + y + (z + k + 1)
  <2>1. <<"event">> # <<"data">>
    <3>1. <<"event">>[1] # <<"data">>[1]
      OBVIOUS
    <3> QED BY <3>1
  <2>2. CASE value = <<>>
    BY <1>1, <1>3, <1>5, <1>6, <2>2
  <2>3. CASE value # <<>> /\ Field(value) = <<"data">>
    BY <1>1, <1>3, <1>4, <1>5, <1>6, <2>1, <2>3
  <2>4. CASE value # <<>> /\ Field(value) # <<"data">>
    BY <1>1, <1>3, <1>5, <1>6, <2>4
  <2> QED BY <2>2, <2>3, <2>4
<1> DEFINE after == Held(t)
           before == Held(s)
<1> HIDE DEF x, y, z, k, v, t, after, before
<1>8. /\ before = x + y + z /\ x \in Nat /\ y \in Nat /\ z \in Nat /\ k \in Nat /\ v \in Nat
      /\ v <= x
      /\ \/ after = 0
         \/ k + 1 <= v /\ after = k + z
         \/ k + 1 <= v /\ after = y + z
         \/ k + 1 <= v /\ after = y + z + k + 1
  BY <1>7 DEF after, before
<1>9. after <= before
  BY <1>8
<1> QED BY <1>9 DEF after, before, t

(* Changing the flags and the line of a state.                             *)
LEMMA FlagsChanged ==
  ASSUME NEW s \in SseStates, NEW flag \in BOOLEAN, NEW l \in Lines
  PROVE  /\ LET t == [s EXCEPT !.afterCr = flag]
            IN /\ t \in SseStates /\ t.afterCr = flag /\ t.line = s.line /\ t.event = s.event
               /\ t.data = s.data /\ t.firstLine = s.firstLine /\ t.failed = s.failed
               /\ t.events = s.events /\ Held(t) = Held(s)
         /\ LET t == [s EXCEPT !.failed = flag]
            IN /\ t \in SseStates /\ t.failed = flag /\ t.line = s.line /\ t.event = s.event
               /\ t.data = s.data /\ t.firstLine = s.firstLine /\ t.afterCr = s.afterCr
               /\ t.events = s.events /\ Held(t) = Held(s)
         /\ LET t == [s EXCEPT !.afterCr = flag, !.line = l]
            IN /\ t \in SseStates /\ t.afterCr = flag /\ t.line = l /\ t.event = s.event
               /\ t.data = s.data /\ t.firstLine = s.firstLine /\ t.failed = s.failed
               /\ t.events = s.events
BY DEF SseStates, Held

LEMMA SseStep ==
  ASSUME NEW limit \in Nat, NEW b \in Lines, NEW c \in Bytes, NEW s, SseInv(limit, b, s)
  PROVE  SseInv(limit, Append(b, c), ConsumeByte(limit, s, c))
<1> DEFINE more == Append(b, c)
           lines == LinesOf(b)
           open == OpenLines(lines)
           l == LineBehind(b)
           ended == LineEnded(s, c = "CR")
           t == ConsumeByte(limit, s, c)
<1>1. /\ s \in SseStates /\ Held(s) \in Nat /\ Held(s) <= limit /\ Held(s) <= Len(b)
      /\ Len(b) \in Nat /\ more \in Lines /\ Len(more) = Len(b) + 1
  <2>1. s \in SseStates /\ Held(s) <= limit /\ Held(s) <= Len(b)
    BY DEF SseInv
  <2>2. Len(b) \in Nat /\ more \in Lines /\ Len(more) = Len(b) + 1
    BY LenProperties, AppendProperties DEF Lines
  <2> HIDE DEF more
  <2> QED BY <2>1, <2>2, HeldType
<1>2. /\ (LineEnds(more) = {}) = (LineEnds(b) = {} /\ c \notin EndsOfLine)
      /\ Behind(more, LineEnds(more)) =
           IF c \in EndsOfLine THEN <<>> ELSE Append(Behind(b, LineEnds(b)), c)
      /\ more # <<>> /\ Last(more) = c
  BY OpenBytes
<1>3. /\ lines \in Seq(Lines) /\ l \in Lines /\ open \in Seq(Lines)
      /\ LinesOf(more) = IF IsEnd(b, c) THEN Append(lines, l) ELSE lines
  BY LinesLaws, LineBehindType, OpenLinesType
<1>4. PICK r \in Seq(SseEvents) : Events(more) = Events(b) \o r
  BY EventsType
<1>5. s.events \in Seq(SseEvents) /\ Events(b) \in Seq(SseEvents)
  BY <1>1, EventsType DEF SseStates
<1>6. s.failed => IsPrefix(s.events, Events(b)) /\ Len(b) > limit
  BY DEF SseInv
<1>7. ~s.failed => SseAt(b, s)
  BY DEF SseInv
<1>8. IsPrefix(s.events, Events(b)) => IsPrefix(s.events, Events(more))
  BY <1>4, <1>5, PrefixKept
<1>9. t = IF s.failed \/ (s.afterCr /\ c = "LF") THEN [s EXCEPT !.afterCr = FALSE]
          ELSE IF c \in EndsOfLine THEN [ended EXCEPT !.failed = Held(ended) > limit]
          ELSE IF Held(s) >= limit THEN [s EXCEPT !.failed = TRUE]
          ELSE [s EXCEPT !.afterCr = FALSE, !.line = Append(@, c)]
  BY DEF ConsumeByte, LineEnded
<1> HIDE DEF more, lines, open, l, ended, t
<1>10. CASE s.failed
  <2>1. /\ t \in SseStates /\ t.events = s.events /\ t.failed = s.failed /\ Held(t) = Held(s)
    BY <1>1, <1>9, <1>10, FlagsChanged, Zenon
  <2>2. IsPrefix(t.events, Events(more)) /\ Len(more) > limit
    BY <1>1, <1>6, <1>8, <1>10, <2>1
  <2>3. Held(t) <= limit /\ Held(t) <= Len(more)
    BY <1>1, <2>1
  <2>4. t.failed
    BY <1>10, <2>1
  <2> QED BY <2>1, <2>2, <2>3, <2>4 DEF SseInv, t, more
<1>11. CASE ~s.failed /\ s.afterCr /\ c = "LF"
  <2>1. /\ t \in SseStates /\ t.afterCr = FALSE /\ t.line = s.line /\ t.event = s.event
        /\ t.data = s.data /\ t.firstLine = s.firstLine /\ t.failed = s.failed
        /\ t.events = s.events /\ Held(t) = Held(s)
    BY <1>1, <1>9, <1>11, FlagsChanged, Zenon
  <2>2. c \in EndsOfLine /\ c # "CR" /\ b # <<>> /\ Last(b) = "CR"
    BY <1>7, <1>11 DEF SseAt, EndsOfLine
  <2>3. LinesOf(more) = lines
    BY <1>3, <1>11, <2>2 DEF IsEnd
  <2>4. t.line = Behind(more, LineEnds(more)) /\ t.firstLine = (LineEnds(more) = {})
    BY <1>2, <1>7, <1>11, <2>1, <2>2 DEF SseAt, SseStates
  <2>5. t.afterCr = (more # <<>> /\ Last(more) = "CR")
    BY <1>2, <2>1, <2>2
  <2>6. Events(more) = Events(b)
    BY <2>3 DEF Events, lines
  <2>7. SseAt(more, t)
    BY <1>7, <1>11, <2>1, <2>3, <2>4, <2>5, <2>6 DEF SseAt, lines
  <2>8. Held(t) <= limit /\ Held(t) <= Len(more) /\ ~t.failed
    BY <1>1, <1>11, <2>1
  <2> QED BY <2>1, <2>7, <2>8 DEF SseInv, t, more
<1>12. CASE ~s.failed /\ ~(s.afterCr /\ c = "LF") /\ c \in EndsOfLine
  <2>1. /\ ended \in SseStates /\ ended.line = <<>> /\ ~ended.firstLine /\ ended.afterCr = (c = "CR")
        /\ ended.failed = s.failed
        /\ ValueOf(s) = <<>> =>
             /\ ended.event = <<>> /\ ended.data = <<>>
             /\ ended.events =
                  IF s.data = <<>> THEN s.events
                  ELSE Append(s.events, [event |-> IF s.event = <<>> THEN <<"message">> ELSE s.event,
                                         data |-> Front(s.data)])
        /\ ValueOf(s) # <<>> =>
             /\ ended.events = s.events
             /\ ended.event = IF Field(ValueOf(s)) = <<"event">> THEN Body(ValueOf(s)) ELSE s.event
             /\ ended.data = IF Field(ValueOf(s)) = <<"data">>
                             THEN s.data \o Body(ValueOf(s)) \o <<"LF">> ELSE s.data
    BY <1>1, LineFields DEF ended
  <2>2. Held(ended) <= Held(s) /\ Held(ended) \in Nat
    BY <1>1, <2>1, HeldShrinks, HeldType DEF ended
  <2>3. ~(Held(ended) > limit)
    BY <1>1, <2>2
  <2>4. t = [ended EXCEPT !.failed = FALSE]
    <3>1. t = [ended EXCEPT !.failed = Held(ended) > limit]
      BY <1>9, <1>12, Zenon
    <3>2. (Held(ended) > limit) = FALSE
      BY <2>3
    <3> QED BY <3>1, <3>2
  <2>5. /\ t \in SseStates /\ t.failed = FALSE /\ t.line = ended.line /\ t.event = ended.event
        /\ t.data = ended.data /\ t.firstLine = ended.firstLine /\ t.afterCr = ended.afterCr
        /\ t.events = ended.events /\ Held(t) = Held(ended)
    BY <2>1, <2>4, FlagsChanged, Zenon
  <2>6. ValueOf(s) = l
    BY <1>7, <1>12 DEF SseAt, ValueOf, LineBehind, l
  <2>7. LinesOf(more) = Append(lines, l)
    <3>1. IsEnd(b, c)
      BY <1>7, <1>12 DEF SseAt, IsEnd
    <3> QED BY <1>3, <3>1
  <2>8. /\ OpenLines(LinesOf(more)) = IF l = <<>> THEN <<>> ELSE Append(open, l)
        /\ Events(more) = IF l = <<>> THEN Events(b) \o EventOf(open) ELSE Events(b)
    <3>1. OpenLines(Append(lines, l)) = IF l = <<>> THEN <<>> ELSE Append(OpenLines(lines), l)
      BY <1>3, OpenLinesLaws
    <3>2. EventsOf(Append(lines, l)) =
            IF l = <<>> THEN EventsOf(lines) \o EventOf(OpenLines(lines)) ELSE EventsOf(lines)
      BY <1>3, EventsLaws
    <3>3. Events(more) = EventsOf(LinesOf(more)) /\ Events(b) = EventsOf(lines)
      BY DEF Events, lines
    <3> QED BY <2>7, <3>1, <3>2, <3>3 DEF open
  <2>9. s.event = NameOf(open) /\ s.data = TextOf(open) /\ s.events = Events(b)
    BY <1>7, <1>12 DEF SseAt, open, lines
  <2>10. /\ t.event = NameOf(OpenLines(LinesOf(more)))
         /\ t.data = TextOf(OpenLines(LinesOf(more)))
         /\ t.events = Events(more)
    <3>1. CASE l = <<>>
      <4>1. NameOf(<<>>) = <<>> /\ TextOf(<<>>) = <<>>
        BY NameLaws, DataLaws DEF TextOf
      <4>2. t.event = <<>> /\ t.data = <<>> /\ OpenLines(LinesOf(more)) = <<>>
        BY <2>1, <2>5, <2>6, <2>8, <3>1
      <4> DEFINE e == [event |-> IF NameOf(open) = <<>> THEN <<"message">> ELSE NameOf(open),
                       data |-> Front(TextOf(open))]
      <4>3. t.events = IF TextOf(open) = <<>> THEN Events(b) ELSE Append(Events(b), e)
        BY <2>1, <2>5, <2>6, <2>9, <3>1
      <4>4. EventOf(open) = IF TextOf(open) = <<>> THEN <<>> ELSE <<e>>
        BY <1>3, TextLaws
      <4>5. Events(b) \o <<>> = Events(b)
        BY <1>5, ConcatEmptySeq
      <4>6. EventOf(open) \in Seq(SseEvents)
        BY <1>3, EventTypes
      <4> HIDE DEF e
      <4>7. TextOf(open) # <<>> => Append(Events(b), e) = Events(b) \o <<e>>
        <5> SUFFICES ASSUME TextOf(open) # <<>> PROVE Append(Events(b), e) = Events(b) \o <<e>>
          OBVIOUS
        <5>1. <<e>> \in Seq(SseEvents) /\ <<e>>[1] = e /\ Len(<<e>>) = 1
          BY <4>4, <4>6
        <5>2. e \in SseEvents
          BY <5>1, ElementOfSeq
        <5> QED BY <1>5, <5>2, AppendIsConcat
      <4> QED BY <2>8, <3>1, <4>1, <4>2, <4>3, <4>4, <4>5, <4>7
    <3>2. CASE l # <<>>
      <4>1. OpenLines(LinesOf(more)) = Append(open, l) /\ Events(more) = Events(b)
        BY <2>8, <3>2
      <4>2. /\ NameOf(Append(open, l)) = IF Field(l) = <<"event">> THEN Body(l) ELSE NameOf(open)
            /\ TextOf(Append(open, l)) = IF Field(l) = <<"data">>
                                         THEN TextOf(open) \o Body(l) \o <<"LF">> ELSE TextOf(open)
        BY <1>3, NameLaws, TextLaws
      <4> QED BY <2>1, <2>5, <2>6, <2>9, <3>2, <4>1, <4>2
    <3> QED BY <3>1, <3>2
  <2>11. /\ t.line = Behind(more, LineEnds(more)) /\ t.firstLine = (LineEnds(more) = {})
         /\ t.afterCr = (more # <<>> /\ Last(more) = "CR") /\ (t.afterCr => t.line = <<>> /\ ~t.firstLine)
    BY <1>2, <1>12, <2>1, <2>5 DEF SseStates
  <2>12. SseAt(more, t)
    BY <2>10, <2>11 DEF SseAt
  <2>13. Held(t) <= limit /\ Held(t) <= Len(more) /\ ~t.failed
    BY <1>1, <2>2, <2>5
  <2> QED BY <2>5, <2>12, <2>13 DEF SseInv, t, more
<1>13. CASE ~s.failed /\ c \notin EndsOfLine /\ Held(s) >= limit
  <2>1. c # "LF"
    BY <1>13 DEF EndsOfLine
  <2>2. t \in SseStates /\ t.failed = TRUE /\ t.events = s.events /\ Held(t) = Held(s)
    BY <1>1, <1>9, <1>13, <2>1, FlagsChanged, Zenon
  <2>3. IsPrefix(t.events, Events(more))
    <3>1. s.events = Events(b)
      BY <1>7, <1>13 DEF SseAt
    <3>2. IsPrefix(s.events, Events(b))
      BY <1>5, <3>1, PrefixKept
    <3> QED BY <1>8, <2>2, <3>2
  <2>4. Len(more) > limit /\ Held(t) <= limit /\ Held(t) <= Len(more)
    BY <1>1, <1>13, <2>2
  <2> QED BY <2>2, <2>3, <2>4 DEF SseInv, t, more
<1>14. CASE ~s.failed /\ c \notin EndsOfLine /\ ~(Held(s) >= limit)
  <2> DEFINE longer == Append(s.line, c)
  <2>1. c # "LF" /\ c # "CR"
    BY <1>14 DEF EndsOfLine
  <2>2. s.line \in Seq(Bytes)
    BY <1>1 DEF SseStates, Lines
  <2>3. longer \in Lines /\ Len(longer) = Len(s.line) + 1
    BY <2>2, AppendProperties DEF Lines
  <2>4. t = [s EXCEPT !.afterCr = FALSE, !.line = longer]
    BY <1>9, <1>14, <2>1, Zenon DEF longer
  <2> HIDE DEF longer
  <2>5. /\ t \in SseStates /\ t.afterCr = FALSE /\ t.line = longer /\ t.event = s.event
        /\ t.data = s.data /\ t.firstLine = s.firstLine /\ t.failed = s.failed
        /\ t.events = s.events
    BY <1>1, <2>3, <2>4 DEF SseStates
  <2>6. LinesOf(more) = lines
    BY <1>3, <1>14 DEF IsEnd
  <2>7. t.line = Behind(more, LineEnds(more)) /\ t.firstLine = (LineEnds(more) = {})
    BY <1>2, <1>7, <1>14, <2>5 DEF SseAt, longer
  <2>8. t.afterCr = (more # <<>> /\ Last(more) = "CR")
    BY <1>2, <2>1, <2>5
  <2>9. Events(more) = Events(b)
    BY <2>6 DEF Events, lines
  <2>10. SseAt(more, t)
    BY <1>7, <1>14, <2>5, <2>6, <2>7, <2>8, <2>9 DEF SseAt, lines
  <2>11. Held(t) = Held(s) + 1
    <3>1. /\ Held(t) = Len(t.line) + Len(t.event) + Len(t.data)
          /\ Held(s) = Len(s.line) + Len(s.event) + Len(s.data)
          /\ Len(s.line) \in Nat /\ Len(s.event) \in Nat /\ Len(s.data) \in Nat
      BY <1>1, <2>5, HeldType
    <3> DEFINE x == Len(s.line)
               y == Len(s.event)
               z == Len(s.data)
    <3>2. Held(t) = x + 1 + y + z /\ Held(s) = x + y + z /\ x \in Nat /\ y \in Nat /\ z \in Nat
      BY <2>3, <2>5, <3>1
    <3> HIDE DEF x, y, z
    <3> QED BY <3>2
  <2>12. Held(t) <= limit /\ Held(t) <= Len(more) /\ ~t.failed
    BY <1>1, <1>14, <2>5, <2>11
  <2> QED BY <2>5, <2>10, <2>12 DEF SseInv, t, more
<1> QED BY <1>10, <1>11, <1>12, <1>13, <1>14

(* Every byte leaves a state of the decoder.                               *)
LEMMA ConsumeType ==
  ASSUME NEW limit \in Nat, NEW s \in SseStates, NEW c \in Bytes
  PROVE  ConsumeByte(limit, s, c) \in SseStates
<1> DEFINE ended == LineEnded(s, c = "CR")
           longer == Append(s.line, c)
<1>1. ended \in SseStates
  BY LineFields
<1>2. longer \in Lines /\ s.line \in Lines
  BY AppendProperties DEF SseStates, Lines
<1>3. ConsumeByte(limit, s, c) =
        IF s.failed \/ (s.afterCr /\ c = "LF") THEN [s EXCEPT !.afterCr = FALSE]
        ELSE IF c \in EndsOfLine THEN [ended EXCEPT !.failed = Held(ended) > limit]
        ELSE IF Held(s) >= limit THEN [s EXCEPT !.failed = TRUE]
        ELSE [s EXCEPT !.afterCr = FALSE, !.line = longer]
  BY DEF ConsumeByte, LineEnded
<1> HIDE DEF ended, longer
<1>4. (Held(ended) > limit) \in BOOLEAN
  OBVIOUS
<1> DEFINE over == Held(ended) > limit
<1> HIDE DEF over
<1>5. [ended EXCEPT !.failed = over] \in SseStates
  <2>1. over \in BOOLEAN
    BY <1>4 DEF over
  <2> QED BY <1>1, <2>1 DEF SseStates
<1>6. /\ [s EXCEPT !.afterCr = FALSE] \in SseStates /\ [s EXCEPT !.failed = TRUE] \in SseStates
      /\ [s EXCEPT !.afterCr = FALSE, !.line = longer] \in SseStates
  BY <1>2 DEF SseStates
<1> QED BY <1>3, <1>5, <1>6, Zenon DEF over

Consumes(limit) == [q \in SseStates \X Bytes |-> ConsumeByte(limit, q[1], q[2])]
LEMMA ConsumesType ==
  ASSUME NEW limit \in Nat PROVE Consumes(limit) \in FoldSteps(SseStates, Bytes)
BY ConsumeType DEF Consumes, FoldSteps

LEMMA StartType == SseStart \in SseStates
<1>1. <<>> \in Lines /\ <<>> \in Seq(SseEvents)
  BY EmptySeq DEF Lines
<1> QED BY <1>1 DEF SseStart, SseStates

LEMMA SseInputTypes ==
  ASSUME NEW b \in Lines PROVE SseStart \in SseStates /\ b \in Seq(Bytes)
BY StartType DEF Lines

LEMMA SseFolded ==
  ASSUME NEW limit \in Nat, NEW b \in Lines
  PROVE  SseDecode(limit, b) = Folded(Consumes(limit), SseStart, b)
<1> DEFINE seq == b
           Chosen(h) == h = [s \in SUBSET DOMAIN seq |->
                               IF s = {} THEN SseStart ELSE
                                 ConsumeByte(limit, h[s \ {Max(s)}], seq[Max(s)])]
           C == CHOOSE h : Chosen(h)
<1>1. SseStart \in SseStates /\ seq \in Seq(Bytes)
  BY SseInputTypes
<1>2. \A s \in SUBSET DOMAIN seq : s # {} => seq[Max(s)] \in Bytes
  BY <1>1, SequenceMax
<1>3. SseDecode(limit, b) = C[DOMAIN seq]
  BY DEF SseDecode, FoldLeft, MapThenFoldSet
<1> HIDE DEF seq
<1>4. Consumes(limit) \in FoldSteps(SseStates, Bytes)
  BY ConsumesType
<1>5. PICK g \in [SUBSET DOMAIN seq -> SseStates] : Solves(g, Consumes(limit), SseStart, seq)
  BY <1>1, <1>4, SolutionExists
<1>6. Chosen(g)
  BY <1>1, <1>2, <1>5 DEF Solves, Consumes
<1>7. Chosen(C)
  BY <1>6
<1> HIDE DEF C
<1>8. ASSUME NEW s \in SUBSET DOMAIN seq, s # {}, C[s \ {Max(s)}] \in SseStates
      PROVE  C[s] = Consumes(limit)[<<C[s \ {Max(s)}], seq[Max(s)]>>]
  BY <1>2, <1>7, <1>8 DEF Consumes
<1>9. FoldsLike(C, SseStates, Consumes(limit), SseStart, seq)
  BY <1>7, <1>8 DEF FoldsLike
<1>10. Folded(Consumes(limit), SseStart, seq) = C[DOMAIN seq]
  <2> DEFINE step == Consumes(limit)
             start == SseStart
             values == SseStates
             elements == Bytes
  <2>1. /\ step \in FoldSteps(values, elements) /\ start \in values /\ seq \in Seq(elements)
        /\ FoldsLike(C, values, step, start, seq)
    BY <1>1, <1>4, <1>9
  <2> HIDE DEF step, start, values, elements
  <2>2. Folded(step, start, seq) = C[DOMAIN seq]
    BY <2>1, FoldedIsFold
  <2> QED BY <2>2 DEF step, start
<1> QED BY <1>3, <1>10 DEF seq

LEMMA SseDecodes ==
  ASSUME NEW limit \in Nat, NEW b \in Lines
  PROVE  SseInv(limit, b, SseDecode(limit, b))
<1> DEFINE op == Consumes(limit)
           base == SseStart
           S == SseStates
           G == {q \in Lines : SseInv(limit, q, SseDecode(limit, q))}
<1>1. op \in FoldSteps(S, Bytes) /\ base \in S
  BY ConsumesType, StartType
<1>2. \A q \in Lines : SseDecode(limit, q) = Folded(op, base, q)
  BY SseFolded
<1>3. <<>> \in Lines
  BY EmptySeq DEF Lines
<1>4. \A s \in SseStates, c \in Bytes : op[<<s, c>>] = ConsumeByte(limit, s, c)
  BY DEF Consumes
<1>5. SseDecode(limit, <<>>) = SseStart
  <2> HIDE DEF op, base, S
  <2>1. Folded(op, base, <<>>) = base
    BY <1>1, FoldedEmpty
  <2> QED BY <1>2, <1>3, <2>1 DEF base
<1>6. SseInv(limit, <<>>, SseStart)
  <2>1. LinesOf(<<>>) = <<>> /\ EventsOf(<<>>) = <<>> /\ NameOf(<<>>) = <<>> /\ DataOf(<<>>) = <<>>
    BY LinesLaws, EventsLaws, NameLaws, DataLaws
  <2>2. LineEnds(<<>>) = {} /\ Blanks(<<>>) = {} /\ Len(<<>>) = 0
    BY EmptySeq DEF LineEnds, Blanks
  <2>3. Behind(<<>>, {}) = <<>>
    <3>1. Behind(<<>>, {}) \in Lines /\ Len(Behind(<<>>, {})) <= Len(<<>>)
      <4>1. {} \in Marks(<<>>)
        BY DEF Marks
      <4> QED BY <1>3, <4>1, BehindLaws DEF Lines
    <3>2. Len(Behind(<<>>, {})) = 0
      BY <2>2, <3>1, LenProperties DEF Lines
    <3> QED BY <3>1, <3>2, EmptySeq DEF Lines
  <2>4. OpenLines(<<>>) = <<>> /\ TextOf(<<>>) = <<>> /\ Events(<<>>) = <<>>
    BY <2>1, <2>2, <2>3 DEF OpenLines, TextOf, Events
  <2>5. SseAt(<<>>, SseStart)
    BY <2>1, <2>2, <2>3, <2>4 DEF SseAt, SseStart
  <2>6. Held(SseStart) = 0
    BY <2>2 DEF Held, SseStart
  <2> QED BY <2>2, <2>5, <2>6, StartType DEF SseInv, SseStart
<1>7. ASSUME NEW q \in Seq(Bytes), NEW c \in Bytes, q \in G PROVE Append(q, c) \in G
  <2> DEFINE more == Append(q, c)
             s == SseDecode(limit, q)
  <2>1. q \in Lines /\ SseInv(limit, q, s)
    BY <1>7
  <2>2. more \in Lines
    BY <1>7, AppendProperties DEF Lines
  <2>3. SseInv(limit, more, ConsumeByte(limit, s, c))
    BY <2>1, SseStep
  <2>4. s \in SseStates
    BY <2>1 DEF SseInv
  <2>5. SseDecode(limit, more) = ConsumeByte(limit, s, c)
    <3>1. s = Folded(op, base, q) /\ SseDecode(limit, more) = Folded(op, base, more)
      BY <1>2, <2>1, <2>2
    <3>2. op[<<s, c>>] = ConsumeByte(limit, s, c)
      BY <1>4, <2>4
    <3> HIDE DEF op, base, S, s
    <3>3. Folded(op, base, Append(q, c)) = op[<<Folded(op, base, q), c>>]
      BY <1>1, FoldedAppend
    <3> QED BY <3>1, <3>2, <3>3
  <2> QED BY <2>2, <2>3, <2>5
<1>8. <<>> \in G
  BY <1>3, <1>5, <1>6
<1> HIDE DEF G
<1>9. Seq(Bytes) \subseteq G
  BY <1>7, <1>8, AppendInduction
<1> QED BY <1>9 DEF G, Lines

(* Every event of the body is dispatched as the format defines it, whatever*)
(* the bytes and whatever the limit: the decoder never holds more than its *)
(* limit, has dispatched whole events only when it fails, and cannot fail  *)
(* on a body that is no longer than the limit.                             *)
THEOREM EventsDispatched ==
  ASSUME NEW limit \in Nat, NEW b \in Lines
  PROVE  LET s == SseDecode(limit, b)
         IN /\ Held(s) <= limit
            /\ IsPrefix(s.events, Events(b)) /\ (~s.failed => s.events = Events(b))
            /\ Len(b) <= limit => ~s.failed
<1> DEFINE s == SseDecode(limit, b)
<1>1. SseInv(limit, b, s)
  BY SseDecodes
<1> HIDE DEF s
<1>2. /\ s \in SseStates /\ Held(s) <= limit
      /\ s.failed => IsPrefix(s.events, Events(b)) /\ Len(b) > limit
      /\ ~s.failed => s.events = Events(b)
  BY <1>1 DEF SseInv, SseAt
<1>3. Events(b) \in Seq(SseEvents)
  <2>1. "x" \in Bytes
    BY DEF Bytes
  <2> QED BY <2>1, EventsType
<1>4. IsPrefix(Events(b), Events(b))
  BY <1>3, PrefixKept
<1>5. Len(b) \in Nat
  BY LenProperties DEF Lines
<1>6. Len(b) <= limit => ~s.failed
  BY <1>2, <1>5
<1> QED BY <1>2, <1>4, <1>6 DEF s

-----------------------------------------------------------------------------
(* The bodies that TLC tries are streams of bytes *)

Short(n) == {q \in Lines : Len(q) <= n}
LEMMA ShortOf ==
  ASSUME NEW q \in Seq(Bytes) PROVE Len(q) \in {0, 1, 2, 3, 4} => q \in Short(4)
<1> DEFINE n == Len(q)
<1> HIDE DEF n
<1>1. n \in {0, 1, 2, 3, 4} => n <= 4
  OBVIOUS
<1> QED BY <1>1 DEF n, Short, Lines

LEMMA ShortConcat ==
  ASSUME NEW m \in Nat, NEW n \in Nat, NEW p \in Short(m), NEW q \in Short(n)
  PROVE  p \o q \in Short(m + n)
<1>1. p \in Seq(Bytes) /\ q \in Seq(Bytes) /\ Len(p) <= m /\ Len(q) <= n
  BY DEF Short, Lines
<1>2. p \o q \in Seq(Bytes) /\ Len(p \o q) = Len(p) + Len(q) /\ Len(p) \in Nat /\ Len(q) \in Nat
  BY <1>1, ConcatProperties, LenProperties
<1> DEFINE x == Len(p)
           y == Len(q)
           pq == p \o q
<1>3. pq \in Seq(Bytes) /\ Len(pq) = x + y /\ x \in Nat /\ y \in Nat /\ x <= m /\ y <= n
  BY <1>1, <1>2
<1> HIDE DEF x, y, pq
<1>4. Len(pq) <= m + n
  BY <1>3
<1> QED BY <1>3, <1>4 DEF pq, Short, Lines

LEMMA ShortStrings ==
  ASSUME NEW alphabet, alphabet \subseteq Bytes, NEW n \in Nat
  PROVE  Strings(alphabet, n) \subseteq Short(n)
<1>1. ASSUME NEW k \in 0 .. n, NEW q \in [1 .. k -> alphabet] PROVE q \in Short(n)
  <2>1. q \in Seq(Bytes) /\ Len(q) = k
    <3>1. k \in Nat /\ q \in [1 .. k -> Bytes]
      BY <1>1
    <3> QED BY <3>1, IsASeq, LenProperties
  <2> QED BY <2>1 DEF Short, Lines
<1> QED BY <1>1 DEF Strings

LEMMA ShortBodies == SseInputs \subseteq Short(100)
<1>1. SseBytes \subseteq Bytes
  BY DEF SseBytes, Bytes
<1>2. Strings(SseBytes, 4) \subseteq Short(4)
  BY <1>1, ShortStrings
<1>3. \A q \in Short(4) : q \in Short(100)
  BY LenProperties DEF Short, Lines
<1>4. SseLines \subseteq Short(4)
  <2>1. "data" \in Bytes /\ ":" \in Bytes /\ "space" \in Bytes /\ "x" \in Bytes /\ "event" \in Bytes
    BY DEF Bytes
  <2> HIDE DEF Bytes
  <2>2. /\ <<>> \in Seq(Bytes) /\ <<"data">> \in Seq(Bytes)
        /\ <<"data", ":", "space", "x">> \in Seq(Bytes) /\ <<"event", ":", "x">> \in Seq(Bytes)
    <3>1. <<>> \in Seq(Bytes)
      BY EmptySeq
    <3>2. <<"data">> \in Seq(Bytes)
      BY <2>1
    <3>3. <<"data", ":", "space", "x">> \in Seq(Bytes)
      BY <2>1
    <3>4. <<"event", ":", "x">> \in Seq(Bytes)
      BY <2>1
    <3> QED BY <3>1, <3>2, <3>3, <3>4
  <2>3. /\ Len(<<>>) = 0 /\ Len(<<"data">>) = 1
        /\ Len(<<"data", ":", "space", "x">>) = 4 /\ Len(<<"event", ":", "x">>) = 3
    OBVIOUS
  <2>4. /\ <<>> \in Short(4) /\ <<"data">> \in Short(4)
        /\ <<"data", ":", "space", "x">> \in Short(4) /\ <<"event", ":", "x">> \in Short(4)
    BY <2>2, <2>3, ShortOf
  <2> QED BY <2>4 DEF SseLines
<1>5. LineBreaks \subseteq Short(2)
  <2>1. /\ <<"CR">> \in Seq(Bytes) /\ <<"LF">> \in Seq(Bytes) /\ <<"CR", "LF">> \in Seq(Bytes)
    BY LfByte
  <2>2. Len(<<"CR">>) = 1 /\ Len(<<"LF">>) = 1 /\ Len(<<"CR", "LF">>) = 2
    OBVIOUS
  <2> QED BY <2>1, <2>2 DEF LineBreaks, Short, Lines
<1>6. ASSUME NEW f \in [1 .. 4 -> SseLines], NEW e \in [1 .. 4 -> LineBreaks]
      PROVE  SseBody(f, e) \in Short(24)
  <2> DEFINE p1 == f[1] \o e[1]
             p2 == p1 \o f[2]
             p3 == p2 \o e[2]
             p4 == p3 \o f[3]
             p5 == p4 \o e[3]
             p6 == p5 \o f[4]
  <2>1. /\ f[1] \in Short(4) /\ f[2] \in Short(4) /\ f[3] \in Short(4) /\ f[4] \in Short(4)
        /\ e[1] \in Short(2) /\ e[2] \in Short(2) /\ e[3] \in Short(2) /\ e[4] \in Short(2)
    BY <1>4, <1>5
  <2>2. /\ 4 \in Nat /\ 2 \in Nat /\ 4 + 2 = 6 /\ 6 + 4 = 10 /\ 10 + 2 = 12 /\ 12 + 4 = 16
        /\ 16 + 2 = 18 /\ 18 + 4 = 22 /\ 22 + 2 = 24
    OBVIOUS
  <2>3. p1 \in Short(4 + 2)
    BY <2>1, ShortConcat
  <2> HIDE DEF p1
  <2>4. p2 \in Short(6 + 4)
    BY <2>1, <2>2, <2>3, ShortConcat
  <2> HIDE DEF p2
  <2>5. p3 \in Short(10 + 2)
    BY <2>1, <2>2, <2>4, ShortConcat
  <2> HIDE DEF p3
  <2>6. p4 \in Short(12 + 4)
    BY <2>1, <2>2, <2>5, ShortConcat
  <2> HIDE DEF p4
  <2>7. p5 \in Short(16 + 2)
    BY <2>1, <2>2, <2>6, ShortConcat
  <2> HIDE DEF p5
  <2>8. p6 \in Short(18 + 4)
    BY <2>1, <2>2, <2>7, ShortConcat
  <2> HIDE DEF p6
  <2>9. p6 \o e[4] \in Short(22 + 2)
    BY <2>1, <2>2, <2>8, ShortConcat
  <2>10. p6 \o e[4] \in Short(24)
    BY <2>2, <2>9
  <2> QED BY <2>10 DEF SseBody, p6, p5, p4, p3, p2, p1
<1>7. \A q \in Short(24) : q \in Short(100)
  BY LenProperties DEF Short, Lines
<1> QED BY <1>2, <1>3, <1>6, <1>7 DEF SseInputs

(* SseDecoder agrees with the format on the bodies that are checked, none  *)
(* of which is longer than the limit that is never reached.                *)
THEOREM SseDecoderCorrect == SseAgrees
<1>1. ASSUME NEW b \in SseInputs
      PROVE  /\ LET s == SseDecode(100, b) IN ~s.failed /\ s.events = Events(b)
             /\ LET s == SseDecode(3, b)
                IN /\ Held(s) <= 3
                   /\ IsPrefix(s.events, Events(b)) /\ (~s.failed => s.events = Events(b))
  <2>1. b \in Lines /\ Len(b) <= 100 /\ 100 \in Nat /\ 3 \in Nat
    BY ShortBodies DEF Short
  <2>2. ~SseDecode(100, b).failed /\ SseDecode(100, b).events = Events(b)
    BY <2>1, EventsDispatched
  <2>3. /\ Held(SseDecode(3, b)) <= 3 /\ IsPrefix(SseDecode(3, b).events, Events(b))
        /\ ~SseDecode(3, b).failed => SseDecode(3, b).events = Events(b)
    BY <2>1, EventsDispatched
  <2> QED BY <2>2, <2>3
<1> QED BY <1>1 DEF SseAgrees

-----------------------------------------------------------------------------
(* The decoder of a tool's input, one byte at a time *)

InputBytes == {"x", "u", "space", "lbrace", "rbrace", ":", "quote", "\\", "input"} \cup Quads
Texts == Seq(InputBytes)
Outputs == InputBytes \cup {Unicode, Pair}
InputStates ==
  [state : {"Open", "Key", "Colon", "Quote", "Value", "Close", "Done"}, key : Texts,
   escape : Texts, failed : BOOLEAN, output : Seq(Outputs)]

LEMMA ByteCases ==
  ASSUME NEW s, NEW c
  PROVE  /\ s.failed \/ (s.state \notin {"Value", "Key"} /\ c = "space") => InputByte(s, c) = s
         /\ ~s.failed /\ s.state = "Key" => InputByte(s, c) = KeyByte(s, c)
         /\ ~s.failed /\ s.state = "Value" => InputByte(s, c) = ValueByte(s, c)
         /\ ~s.failed /\ c # "space" =>
              /\ s.state = "Open" => InputByte(s, c) = Need(c = "lbrace", s, Enters(s, "Key"))
              /\ s.state = "Colon" => InputByte(s, c) = Need(c = ":", s, Enters(s, "Quote"))
              /\ s.state = "Quote" => InputByte(s, c) = Need(c = "quote", s, Enters(s, "Value"))
              /\ s.state = "Close" => InputByte(s, c) = Need(c = "rbrace", s, Enters(s, "Done"))
              /\ s.state = "Done" => InputByte(s, c) = Reject(s)
BY DEF InputByte

(* What the operators that make the next state change of it.               *)
LEMMA InputChanged ==
  ASSUME NEW s \in InputStates
  PROVE  /\ Reject(s) \in InputStates /\ Reject(s).failed
         /\ \A state \in {"Open", "Key", "Colon", "Quote", "Value", "Close", "Done"} :
              LET t == Enters(s, state)
              IN /\ t \in InputStates /\ t.state = state /\ t.key = s.key /\ t.escape = s.escape
                 /\ t.failed = s.failed /\ t.output = s.output
         /\ \A key \in Texts :
              LET t == [s EXCEPT !.key = key]
              IN /\ t \in InputStates /\ t.state = s.state /\ t.key = key /\ t.escape = s.escape
                 /\ t.failed = s.failed /\ t.output = s.output
         /\ \A escape \in Texts :
              LET t == [s EXCEPT !.escape = escape]
              IN /\ t \in InputStates /\ t.state = s.state /\ t.key = s.key /\ t.escape = escape
                 /\ t.failed = s.failed /\ t.output = s.output
         /\ \A escape \in Texts, output \in Seq(Outputs) :
              LET t == [s EXCEPT !.escape = escape, !.output = output]
              IN /\ t \in InputStates /\ t.state = s.state /\ t.key = s.key /\ t.escape = escape
                 /\ t.failed = s.failed /\ t.output = output
BY Zenon DEF InputStates, Reject, Enters

LEMMA KeyType ==
  ASSUME NEW s \in InputStates, NEW c \in InputBytes PROVE KeyByte(s, c) \in InputStates
<1> DEFINE key == Append(s.key, c)
           t == [s EXCEPT !.key = key]
<1>1. key \in Texts
  BY AppendProperties DEF InputStates, Texts
<1>2. KeyByte(s, c) \in {s, t, Reject(s), Enters(t, "Colon")}
  BY DEF KeyByte, Need
<1> HIDE DEF key
<1>3. t \in InputStates
  BY <1>1, InputChanged, Zenon
<1> HIDE DEF t
<1>4. Reject(s) \in InputStates /\ Enters(t, "Colon") \in InputStates
  BY <1>3, InputChanged, Zenon
<1> QED BY <1>2, <1>3, <1>4

LEMMA ValueType ==
  ASSUME NEW s \in InputStates, NEW c \in InputBytes PROVE ValueByte(s, c) \in InputStates
<1> DEFINE escape == Append(s.escape, c)
           out1 == Append(s.output, c)
           out2 == Append(s.output, escape)
           t1 == [s EXCEPT !.escape = <<>>, !.output = out1]
           t2 == [s EXCEPT !.escape = <<>>, !.output = out2]
           t3 == [s EXCEPT !.escape = escape]
           t4 == [s EXCEPT !.escape = <<"\\">>]
           t5 == Enters(s, "Close")
           t6 == [s EXCEPT !.output = out1]
<1>1. escape \in Texts /\ s.output \in Seq(Outputs) /\ s.escape \in Texts
  BY AppendProperties DEF InputStates, Texts
<1>2. out1 \in Seq(Outputs)
  <2>1. c \in Outputs
    BY DEF Outputs
  <2> QED BY <1>1, <2>1, AppendProperties
<1>3. <<>> \in Texts /\ <<"\\">> \in Texts
  <2>1. "\\" \in InputBytes
    BY DEF InputBytes
  <2> QED BY <2>1, EmptySeq DEF Texts
<1>4. ValueByte(s, c) \in {Reject(s), t1, t3, t4, t5, t6} \/ (escape \in {Unicode, Pair} /\ ValueByte(s, c) = t2)
  BY DEF ValueByte, Need
<1>5. escape \in {Unicode, Pair} => out2 \in Seq(Outputs)
  <2> HIDE DEF escape
  <2>1. escape \in {Unicode, Pair} => escape \in Outputs
    BY DEF Outputs
  <2> QED BY <1>1, <2>1, AppendProperties
<1> HIDE DEF escape, out1, out2
<1>6. t1 \in InputStates /\ t3 \in InputStates /\ t4 \in InputStates
  BY <1>1, <1>2, <1>3, InputChanged, Zenon
<1>7. t5 \in InputStates /\ Reject(s) \in InputStates
  BY InputChanged, Zenon
<1>8. t6 \in InputStates
  BY <1>2 DEF InputStates
<1>9. escape \in {Unicode, Pair} => t2 \in InputStates
  BY <1>3, <1>5, InputChanged, Zenon
<1> HIDE DEF t1, t2, t3, t4, t5, t6
<1> QED BY <1>4, <1>6, <1>7, <1>8, <1>9

LEMMA InputType ==
  ASSUME NEW s \in InputStates, NEW c \in InputBytes PROVE InputByte(s, c) \in InputStates
<1>1. KeyByte(s, c) \in InputStates /\ ValueByte(s, c) \in InputStates
  BY KeyType, ValueType
<1> DEFINE needs == {Need(c = "lbrace", s, Enters(s, "Key")), Need(c = ":", s, Enters(s, "Quote")),
                     Need(c = "quote", s, Enters(s, "Value")), Need(c = "rbrace", s, Enters(s, "Done"))}
<1>2. /\ Enters(s, "Key") \in InputStates /\ Enters(s, "Quote") \in InputStates
      /\ Enters(s, "Value") \in InputStates /\ Enters(s, "Done") \in InputStates
      /\ Reject(s) \in InputStates
  BY InputChanged, Zenon
<1>3. \A t \in needs : t \in InputStates
  BY <1>2 DEF Need
<1>4. s.state \in {"Open", "Key", "Colon", "Quote", "Value", "Close", "Done"}
  BY DEF InputStates
<1>5. InputByte(s, c) \in {s, KeyByte(s, c), ValueByte(s, c), Reject(s)} \cup needs
  BY <1>4, ByteCases
<1> HIDE DEF needs
<1> QED BY <1>1, <1>2, <1>3, <1>5

InputSteps == [q \in InputStates \X InputBytes |-> InputByte(q[1], q[2])]
LEMMA InputStepsType == InputSteps \in FoldSteps(InputStates, InputBytes)
BY InputType DEF InputSteps, FoldSteps

LEMMA InputTypes ==
  ASSUME NEW b \in Texts PROVE InputStart \in InputStates /\ b \in Seq(InputBytes)
<1>1. <<>> \in Texts /\ <<>> \in Seq(Outputs)
  BY EmptySeq DEF Texts
<1> QED BY <1>1 DEF InputStart, InputStates, Texts

LEMMA InputFolded ==
  ASSUME NEW b \in Texts
  PROVE  InputDecode(b) = Folded(InputSteps, InputStart, b)
<1> DEFINE seq == b
           Chosen(h) == h = [s \in SUBSET DOMAIN seq |->
                               IF s = {} THEN InputStart ELSE
                                 InputByte(h[s \ {Max(s)}], seq[Max(s)])]
           C == CHOOSE h : Chosen(h)
<1>1. InputStart \in InputStates /\ seq \in Seq(InputBytes)
  BY InputTypes
<1>2. \A s \in SUBSET DOMAIN seq : s # {} => seq[Max(s)] \in InputBytes
  BY <1>1, SequenceMax
<1>3. InputDecode(b) = C[DOMAIN seq]
  BY DEF InputDecode, FoldLeft, MapThenFoldSet
<1> HIDE DEF seq
<1>4. InputSteps \in FoldSteps(InputStates, InputBytes)
  BY InputStepsType
<1>5. PICK g \in [SUBSET DOMAIN seq -> InputStates] : Solves(g, InputSteps, InputStart, seq)
  BY <1>1, <1>4, SolutionExists
<1>6. Chosen(g)
  BY <1>1, <1>2, <1>5 DEF Solves, InputSteps
<1>7. Chosen(C)
  BY <1>6
<1> HIDE DEF C
<1>8. ASSUME NEW s \in SUBSET DOMAIN seq, s # {}, C[s \ {Max(s)}] \in InputStates
      PROVE  C[s] = InputSteps[<<C[s \ {Max(s)}], seq[Max(s)]>>]
  BY <1>2, <1>7, <1>8 DEF InputSteps
<1>9. FoldsLike(C, InputStates, InputSteps, InputStart, seq)
  BY <1>7, <1>8 DEF FoldsLike
<1>10. Folded(InputSteps, InputStart, seq) = C[DOMAIN seq]
  <2> DEFINE step == InputSteps
             start == InputStart
             values == InputStates
             elements == InputBytes
  <2>1. /\ step \in FoldSteps(values, elements) /\ start \in values /\ seq \in Seq(elements)
        /\ FoldsLike(C, values, step, start, seq)
    BY <1>1, <1>4, <1>9
  <2> HIDE DEF step, start, values, elements
  <2>2. Folded(step, start, seq) = C[DOMAIN seq]
    BY <2>1, FoldedIsFold
  <2> QED BY <2>2 DEF step, start
<1> QED BY <1>3, <1>10 DEF seq

(* What the decoder does with some bytes more.                             *)
Run(s, q) == Folded(InputSteps, s, q)

LEMMA RunLaws ==
  ASSUME NEW s \in InputStates
  PROVE  /\ Run(s, <<>>) = s
         /\ \A q \in Texts : Run(s, q) \in InputStates
         /\ \A q \in Texts, c \in InputBytes : Run(s, Append(q, c)) = InputByte(Run(s, q), c)
         /\ \A c \in InputBytes : <<c>> \in Texts /\ Run(s, <<c>>) = InputByte(s, c)
         /\ \A p \in Texts, q \in Texts : p \o q \in Texts /\ Run(s, p \o q) = Run(Run(s, p), q)
<1> DEFINE op == InputSteps
           S == InputStates
<1>1. op \in FoldSteps(S, InputBytes) /\ s \in S
  BY InputStepsType
<1>2. \A t \in InputStates, c \in InputBytes : op[<<t, c>>] = InputByte(t, c)
  BY DEF InputSteps
<1>3. \A q : Run(s, q) = Folded(op, s, q)
  BY DEF Run
<1> HIDE DEF op, S
<1>4. Run(s, <<>>) = s
  <2>1. Folded(op, s, <<>>) = s
    BY <1>1, FoldedEmpty
  <2> QED BY <1>3, <2>1
<1>5. ASSUME NEW q \in Texts PROVE Run(s, q) \in InputStates
  <2>1. q \in Seq(InputBytes)
    BY DEF Texts
  <2>2. Folded(op, s, q) \in S
    BY <1>1, <2>1, FoldedLaws
  <2> QED BY <1>3, <2>2 DEF S
<1>6. ASSUME NEW q \in Texts, NEW c \in InputBytes
      PROVE  Run(s, Append(q, c)) = InputByte(Run(s, q), c)
  <2>1. q \in Seq(InputBytes)
    BY DEF Texts
  <2>2. Folded(op, s, Append(q, c)) = op[<<Folded(op, s, q), c>>]
    BY <1>1, <2>1, FoldedAppend
  <2>3. Run(s, q) \in InputStates
    BY <1>5
  <2> QED BY <1>2, <1>3, <2>2, <2>3
<1>7. ASSUME NEW c \in InputBytes PROVE <<c>> \in Texts /\ Run(s, <<c>>) = InputByte(s, c)
  <2>1. <<>> \in Texts /\ Append(<<>>, c) = <<c>> /\ <<c>> \in Texts
    BY EmptySeq DEF Texts
  <2>2. Run(s, Append(<<>>, c)) = InputByte(Run(s, <<>>), c)
    BY <1>6, <2>1
  <2> QED BY <1>4, <2>1, <2>2
<1>8. ASSUME NEW p \in Texts, NEW q \in Texts
      PROVE  p \o q \in Texts /\ Run(s, p \o q) = Run(Run(s, p), q)
  <2>1. p \in Seq(InputBytes) /\ q \in Seq(InputBytes) /\ p \o q \in Texts
    BY ConcatProperties DEF Texts
  <2>2. Folded(op, s, p \o q) = Folded(op, Folded(op, s, p), q)
    BY <1>1, <2>1, FoldedConcat
  <2> QED BY <2>1, <2>2 DEF Run, op
<1> QED BY <1>4, <1>5, <1>6, <1>7, <1>8

(* White space between the tokens changes nothing.                         *)
Spaces == Seq({"space"})
BetweenTokens == {s \in InputStates : s.state \notin {"Value", "Key"} \/ (s.state = "Key" /\ s.key = <<>>)}
LEMMA SpacesSkipped ==
  ASSUME NEW s \in BetweenTokens, NEW w \in Spaces
  PROVE  w \in Texts /\ Run(s, w) = s
<1> DEFINE G == {q \in Texts : Run(s, q) = s}
           E == {"space"}
<1>1. s \in InputStates
  BY DEF BetweenTokens
<1>2. "space" \in InputBytes
  BY DEF InputBytes
<1>3. <<>> \in G
  BY <1>1, RunLaws, EmptySeq DEF Texts
<1>4. InputByte(s, "space") = s
  <2>1. CASE s.failed \/ s.state \notin {"Value", "Key"}
    BY <2>1, ByteCases
  <2>2. CASE ~s.failed /\ s.state = "Key" /\ s.key = <<>>
    BY <2>2, ByteCases DEF KeyByte
  <2> QED BY <2>1, <2>2 DEF BetweenTokens
<1>5. ASSUME NEW q \in Seq(E), NEW c \in E, q \in G PROVE Append(q, c) \in G
  <2>1. q \in Texts /\ Run(s, q) = s /\ c = "space" /\ c \in InputBytes
    BY <1>2, <1>5
  <2>2. Run(s, Append(q, c)) = InputByte(Run(s, q), c)
    BY <1>1, <2>1, RunLaws
  <2>3. Append(q, c) \in Texts
    BY <2>1, AppendProperties DEF Texts
  <2> QED BY <1>4, <2>1, <2>2, <2>3
<1> HIDE DEF G, E
<1>6. Seq(E) \subseteq G
  BY <1>3, <1>5, AppendInduction
<1> QED BY <1>6 DEF G, E, Spaces

-----------------------------------------------------------------------------
(* Escapes *)

LEMMA AppendIs ==
  ASSUME NEW E, NEW p \in Seq(E), NEW c \in E, NEW q \in Seq(E), Len(q) = Len(p) + 1,
         q[Len(p) + 1] = c, \A i \in 1 .. Len(p) : q[i] = p[i]
  PROVE  Append(p, c) = q
<1> DEFINE more == Append(p, c)
           n == Len(p)
<1>1. /\ n \in Nat /\ more \in Seq(E) /\ Len(more) = n + 1 /\ more[n + 1] = c
      /\ \A i \in 1 .. n : more[i] = p[i]
  BY AppendProperties, LenProperties
<1> HIDE DEF more, n
<1>2. Len(q) = n + 1 /\ q[n + 1] = c /\ \A i \in 1 .. n : q[i] = p[i]
  BY DEF n
<1>3. \A i \in 1 .. n + 1 : i = n + 1 \/ i \in 1 .. n
  BY <1>1
<1>4. \A i \in 1 .. Len(more) : more[i] = q[i]
  BY <1>1, <1>2, <1>3
<1>5. more = q
  BY <1>1, <1>2, <1>4, SeqEqual
<1> QED BY <1>5 DEF more

(* What a tuple becomes when a byte is appended to it.                     *)
LEMMA Tuple1 ==
  ASSUME NEW E, NEW a1 \in E, NEW c \in E
  PROVE  Append(<<a1>>, c) = <<a1, c>>
<1> DEFINE p == <<a1>>
           q == <<a1, c>>
<1>1. /\ p \in Seq(E) /\ Len(p) = 1 /\ q \in Seq(E) /\ Len(q) = 2
      /\ q[1 + 1] = c /\ \A i \in 1 .. 1 : q[i] = p[i]
  OBVIOUS
<1> HIDE DEF p, q
<1>2. Len(q) = Len(p) + 1 /\ q[Len(p) + 1] = c /\ \A i \in 1 .. Len(p) : q[i] = p[i]
  BY <1>1
<1>3. Append(p, c) = q
  BY <1>1, <1>2, AppendIs, Zenon
<1> QED BY <1>3 DEF p, q

LEMMA Tuple2 ==
  ASSUME NEW E, NEW a1 \in E, NEW a2 \in E, NEW c \in E
  PROVE  Append(<<a1, a2>>, c) = <<a1, a2, c>>
<1> DEFINE p == <<a1, a2>>
           q == <<a1, a2, c>>
<1>1. /\ p \in Seq(E) /\ Len(p) = 2 /\ q \in Seq(E) /\ Len(q) = 3
      /\ q[2 + 1] = c /\ \A i \in 1 .. 2 : q[i] = p[i]
  OBVIOUS
<1> HIDE DEF p, q
<1>2. Len(q) = Len(p) + 1 /\ q[Len(p) + 1] = c /\ \A i \in 1 .. Len(p) : q[i] = p[i]
  BY <1>1
<1>3. Append(p, c) = q
  BY <1>1, <1>2, AppendIs, Zenon
<1> QED BY <1>3 DEF p, q

LEMMA Tuple3 ==
  ASSUME NEW E, NEW a1 \in E, NEW a2 \in E, NEW a3 \in E, NEW c \in E
  PROVE  Append(<<a1, a2, a3>>, c) = <<a1, a2, a3, c>>
<1> DEFINE p == <<a1, a2, a3>>
           q == <<a1, a2, a3, c>>
<1>1. /\ p \in Seq(E) /\ Len(p) = 3 /\ q \in Seq(E) /\ Len(q) = 4
      /\ q[3 + 1] = c /\ \A i \in 1 .. 3 : q[i] = p[i]
  OBVIOUS
<1> HIDE DEF p, q
<1>2. Len(q) = Len(p) + 1 /\ q[Len(p) + 1] = c /\ \A i \in 1 .. Len(p) : q[i] = p[i]
  BY <1>1
<1>3. Append(p, c) = q
  BY <1>1, <1>2, AppendIs, Zenon
<1> QED BY <1>3 DEF p, q

LEMMA Tuple4 ==
  ASSUME NEW E, NEW a1 \in E, NEW a2 \in E, NEW a3 \in E, NEW a4 \in E, NEW c \in E
  PROVE  Append(<<a1, a2, a3, a4>>, c) = <<a1, a2, a3, a4, c>>
<1> DEFINE p == <<a1, a2, a3, a4>>
           q == <<a1, a2, a3, a4, c>>
<1>1. /\ p \in Seq(E) /\ Len(p) = 4 /\ q \in Seq(E) /\ Len(q) = 5
      /\ q[4 + 1] = c /\ \A i \in 1 .. 4 : q[i] = p[i]
  OBVIOUS
<1> HIDE DEF p, q
<1>2. Len(q) = Len(p) + 1 /\ q[Len(p) + 1] = c /\ \A i \in 1 .. Len(p) : q[i] = p[i]
  BY <1>1
<1>3. Append(p, c) = q
  BY <1>1, <1>2, AppendIs, Zenon
<1> QED BY <1>3 DEF p, q

LEMMA Tuple5 ==
  ASSUME NEW E, NEW a1 \in E, NEW a2 \in E, NEW a3 \in E, NEW a4 \in E, NEW a5 \in E, NEW c \in E
  PROVE  Append(<<a1, a2, a3, a4, a5>>, c) = <<a1, a2, a3, a4, a5, c>>
<1> DEFINE p == <<a1, a2, a3, a4, a5>>
           q == <<a1, a2, a3, a4, a5, c>>
<1>1. /\ p \in Seq(E) /\ Len(p) = 5 /\ q \in Seq(E) /\ Len(q) = 6
      /\ q[5 + 1] = c /\ \A i \in 1 .. 5 : q[i] = p[i]
  OBVIOUS
<1> HIDE DEF p, q
<1>2. Len(q) = Len(p) + 1 /\ q[Len(p) + 1] = c /\ \A i \in 1 .. Len(p) : q[i] = p[i]
  BY <1>1
<1>3. Append(p, c) = q
  BY <1>1, <1>2, AppendIs, Zenon
<1> QED BY <1>3 DEF p, q

(* The escapes that have begun, and what is escaped.                       *)
Begun == {<<>>, <<"\\">>, <<"\\", "u">>, <<"\\", "u", "high">>, <<"\\", "u", "high", "\\">>,
          <<"\\", "u", "high", "\\", "u">>}
Whole == {<<"\\", "quote">>, <<"\\", "\\">>, Unicode, Pair}

LEMMA EscapeByte ==
  /\ "\\" \in InputBytes /\ "u" \in InputBytes /\ "high" \in InputBytes
  /\ "bmp" \in InputBytes /\ "low" \in InputBytes /\ "quote" \in InputBytes /\ "rbrace" \in InputBytes
BY DEF InputBytes, Quads

LEMMA BegunNext ==
  ASSUME NEW c \in InputBytes
  PROVE  /\ Append(<<>>, c) = <<c>>
         /\ Append(<<"\\">>, c) = <<"\\", c>>
         /\ Append(<<"\\", "u">>, c) = <<"\\", "u", c>>
         /\ Append(<<"\\", "u", "high">>, c) = <<"\\", "u", "high", c>>
         /\ Append(<<"\\", "u", "high", "\\">>, c) = <<"\\", "u", "high", "\\", c>>
         /\ Append(<<"\\", "u", "high", "\\", "u">>, c) = <<"\\", "u", "high", "\\", "u", c>>
<1>1. Append(<<>>, c) = <<c>>
  OBVIOUS
<1>2. Append(<<"\\">>, c) = <<"\\", c>>
  BY EscapeByte, Tuple1
<1>3. Append(<<"\\", "u">>, c) = <<"\\", "u", c>>
  BY EscapeByte, Tuple2
<1>4. Append(<<"\\", "u", "high">>, c) = <<"\\", "u", "high", c>>
  BY EscapeByte, Tuple3
<1>5. Append(<<"\\", "u", "high", "\\">>, c) = <<"\\", "u", "high", "\\", c>>
  BY EscapeByte, Tuple4
<1>6. Append(<<"\\", "u", "high", "\\", "u">>, c) = <<"\\", "u", "high", "\\", "u", c>>
  BY EscapeByte, Tuple5
<1> QED BY <1>1, <1>2, <1>3, <1>4, <1>5, <1>6

LEMMA BegunCases ==
  ASSUME NEW c
  PROVE  /\ (<<c>> \in Begun) = (c = "\\") /\ <<c>> \notin Whole
         /\ (<<"\\", c>> \in Begun) = (c = "u") /\ (<<"\\", c>> \in Whole) = (c \in {"quote", "\\"})
         /\ (<<"\\", "u", c>> \in Begun) = (c = "high") /\ (<<"\\", "u", c>> \in Whole) = (c = "bmp")
         /\ (<<"\\", "u", "high", c>> \in Begun) = (c = "\\") /\ <<"\\", "u", "high", c>> \notin Whole
         /\ (<<"\\", "u", "high", "\\", c>> \in Begun) = (c = "u")
         /\ <<"\\", "u", "high", "\\", c>> \notin Whole
         /\ <<"\\", "u", "high", "\\", "u", c>> \notin Begun
         /\ (<<"\\", "u", "high", "\\", "u", c>> \in Whole) = (c = "low")
<1>1. (<<c>> \in Begun) = (c = "\\") /\ (<<c>> \in Whole) = (FALSE)
  BY DEF Begun, Whole, Unicode, Pair
<1>2. (<<"\\", c>> \in Begun) = (c = "u") /\ (<<"\\", c>> \in Whole) = (c \in {"quote", "\\"})
  BY DEF Begun, Whole, Unicode, Pair
<1>3. (<<"\\", "u", c>> \in Begun) = (c = "high") /\ (<<"\\", "u", c>> \in Whole) = (c = "bmp")
  BY DEF Begun, Whole, Unicode, Pair
<1>4. (<<"\\", "u", "high", c>> \in Begun) = (c = "\\") /\ (<<"\\", "u", "high", c>> \in Whole) = (FALSE)
  BY DEF Begun, Whole, Unicode, Pair
<1>5. (<<"\\", "u", "high", "\\", c>> \in Begun) = (c = "u") /\ (<<"\\", "u", "high", "\\", c>> \in Whole) = (FALSE)
  BY DEF Begun, Whole, Unicode, Pair
<1>6. (<<"\\", "u", "high", "\\", "u", c>> \in Begun) = (FALSE) /\ (<<"\\", "u", "high", "\\", "u", c>> \in Whole) = (c = "low")
  BY DEF Begun, Whole, Unicode, Pair
<1> QED BY <1>1, <1>2, <1>3, <1>4, <1>5, <1>6

Sizes == [q \in Nat \X InputBytes |-> q[1] + (IF q[2] \in Quads THEN 4 ELSE 1)]
LEMMA SizesType == Sizes \in FoldSteps(Nat, InputBytes)
BY DEF Sizes, FoldSteps

LEMMA EscapeTypes ==
  ASSUME NEW escape \in Texts PROVE 0 \in Nat /\ escape \in Seq(InputBytes)
BY DEF Texts

LEMMA EscapeFolded ==
  ASSUME NEW escape \in Texts
  PROVE  EscapeBytes(escape) = Folded(Sizes, 0, escape)
<1> DEFINE seq == escape
           Chosen(h) == h = [s \in SUBSET DOMAIN seq |->
                               IF s = {} THEN 0 ELSE
                                 h[s \ {Max(s)}] + (IF seq[Max(s)] \in Quads THEN 4 ELSE 1)]
           C == CHOOSE h : Chosen(h)
<1>1. 0 \in Nat /\ seq \in Seq(InputBytes)
  BY EscapeTypes
<1>2. \A s \in SUBSET DOMAIN seq : s # {} => seq[Max(s)] \in InputBytes
  BY <1>1, SequenceMax
<1>3. EscapeBytes(escape) = C[DOMAIN seq]
  BY DEF EscapeBytes, FoldLeft, MapThenFoldSet
<1> HIDE DEF seq
<1>4. Sizes \in FoldSteps(Nat, InputBytes)
  BY SizesType
<1>5. PICK g \in [SUBSET DOMAIN seq -> Nat] : Solves(g, Sizes, 0, seq)
  BY <1>1, <1>4, SolutionExists
<1>6. Chosen(g)
  BY <1>1, <1>2, <1>5 DEF Solves, Sizes
<1>7. Chosen(C)
  BY <1>6
<1> HIDE DEF C
<1>8. ASSUME NEW s \in SUBSET DOMAIN seq, s # {}, C[s \ {Max(s)}] \in Nat
      PROVE  C[s] = Sizes[<<C[s \ {Max(s)}], seq[Max(s)]>>]
  BY <1>2, <1>7, <1>8 DEF Sizes
<1>9. FoldsLike(C, Nat, Sizes, 0, seq)
  BY <1>7, <1>8 DEF FoldsLike
<1>10. Folded(Sizes, 0, seq) = C[DOMAIN seq]
  <2> DEFINE step == Sizes
             start == 0
             values == Nat
             elements == InputBytes
  <2>1. /\ step \in FoldSteps(values, elements) /\ start \in values /\ seq \in Seq(elements)
        /\ FoldsLike(C, values, step, start, seq)
    BY <1>1, <1>4, <1>9
  <2> HIDE DEF step, start, values, elements
  <2>2. Folded(step, start, seq) = C[DOMAIN seq]
    BY <2>1, FoldedIsFold
  <2> QED BY <2>2 DEF step, start
<1> QED BY <1>3, <1>10 DEF seq

LEMMA EscapeLaws ==
  /\ EscapeBytes(<<>>) = 0 /\ <<>> \in Texts
  /\ \A q \in Texts : EscapeBytes(q) \in Nat
  /\ \A q \in Texts, c \in InputBytes :
       /\ Append(q, c) \in Texts
       /\ EscapeBytes(Append(q, c)) = EscapeBytes(q) + (IF c \in Quads THEN 4 ELSE 1)
<1> DEFINE op == Sizes
           base == 0
           S == Nat
<1>1. op \in FoldSteps(S, InputBytes) /\ base \in S
  BY SizesType
<1>2. \A q \in Texts : EscapeBytes(q) = Folded(op, base, q) /\ q \in Seq(InputBytes)
  BY EscapeFolded DEF Texts
<1>3. \A n \in Nat, c \in InputBytes : op[<<n, c>>] = n + (IF c \in Quads THEN 4 ELSE 1)
  BY DEF Sizes
<1>4. <<>> \in Texts /\ \A q \in Texts, c \in InputBytes : Append(q, c) \in Texts
  BY EmptySeq, AppendProperties DEF Texts
<1> HIDE DEF op, base, S
<1>5. /\ Folded(op, base, <<>>) = base
      /\ \A q \in Seq(InputBytes) : Folded(op, base, q) \in S
      /\ \A q \in Seq(InputBytes), c \in InputBytes :
           Folded(op, base, Append(q, c)) = op[<<Folded(op, base, q), c>>]
  BY <1>1, FoldedLaws
<1>6. EscapeBytes(<<>>) = 0
  BY <1>2, <1>4, <1>5 DEF base
<1>7. \A q \in Texts : EscapeBytes(q) \in Nat
  BY <1>2, <1>5 DEF S
<1>8. ASSUME NEW q \in Texts, NEW c \in InputBytes
      PROVE  EscapeBytes(Append(q, c)) = EscapeBytes(q) + (IF c \in Quads THEN 4 ELSE 1)
  <2>1. EscapeBytes(q) = Folded(op, base, q) /\ EscapeBytes(Append(q, c)) = Folded(op, base, Append(q, c))
    BY <1>2, <1>4
  <2>2. Folded(op, base, Append(q, c)) = op[<<Folded(op, base, q), c>>]
    BY <1>2, <1>5
  <2>3. EscapeBytes(q) \in Nat
    BY <1>7
  <2> QED BY <1>3, <2>1, <2>2, <2>3
<1> QED BY <1>4, <1>6, <1>7, <1>8

(* An escape that has begun has room for one more byte.                    *)
LEMMA BegunSizes ==
  ASSUME NEW e \in Begun
  PROVE  e \in Texts /\ EscapeBytes(e) < 12
<1> DEFINE a == <<"\\">>
           b == <<"\\", "u">>
           c == <<"\\", "u", "high">>
           d == <<"\\", "u", "high", "\\">>
           f == <<"\\", "u", "high", "\\", "u">>
<1>1. /\ a = Append(<<>>, "\\") /\ b = Append(a, "u") /\ c = Append(b, "high")
      /\ d = Append(c, "\\") /\ f = Append(d, "u")
  BY EscapeByte, BegunNext
<1>2. "u" \notin Quads /\ "\\" \notin Quads /\ "high" \in Quads
  BY DEF Quads
<1>3. e \in {<<>>, a, b, c, d, f}
  BY DEF Begun
<1> HIDE DEF a, b, c, d, f
<1>4. a \in Texts /\ EscapeBytes(a) = 1
  <2> DEFINE none == <<>>
  <2>1. none \in Texts /\ EscapeBytes(none) = 0 /\ a = Append(none, "\\")
    BY <1>1, EscapeLaws
  <2> HIDE DEF none
  <2> QED BY <1>2, <2>1, EscapeByte, EscapeLaws
<1>5. b \in Texts /\ EscapeBytes(b) = 2
  BY <1>1, <1>2, <1>4, EscapeByte, EscapeLaws
<1>6. c \in Texts /\ EscapeBytes(c) = 6
  BY <1>1, <1>2, <1>5, EscapeByte, EscapeLaws
<1>7. d \in Texts /\ EscapeBytes(d) = 7
  BY <1>1, <1>2, <1>6, EscapeByte, EscapeLaws
<1>8. f \in Texts /\ EscapeBytes(f) = 8
  BY <1>1, <1>2, <1>7, EscapeByte, EscapeLaws
<1> QED BY <1>3, <1>4, <1>5, <1>6, <1>7, <1>8, EscapeLaws

(* One byte more of an escape that has begun.                              *)
LEMMA EscapeGrown ==
  ASSUME NEW b \in Begun, b # <<>>, NEW c \in InputBytes
  PROVE  LET e == Append(b, c)
         IN /\ e \in Texts /\ Len(e) >= 2
            /\ b = <<"\\">> => /\ e[2] = c /\ e \notin {Unicode, Pair} /\ (e \in Begun) = (c = "u")
                               /\ (e \in Whole) = (c \in {"quote", "\\"})
            /\ b # <<"\\">> => e[2] = "u" /\ (e \in Whole) = (e \in {Unicode, Pair})
<1> DEFINE e == Append(b, c)
<1>1. e \in Texts /\ Len(e) = Len(b) + 1
  <2>1. b \in Seq(InputBytes)
    BY BegunSizes DEF Texts
  <2> QED BY <2>1, AppendProperties DEF Texts
<1>2. CASE b = <<"\\">>
  <2>1. e = <<"\\", c>>
    BY <1>2, BegunNext
  <2> HIDE DEF e
  <2>2. e \notin {Unicode, Pair} /\ e[2] = c
    BY <2>1 DEF Unicode, Pair
  <2>3. Len(b) = 1 /\ b = <<"\\">>
    BY <1>2
  <2>4. (e \in Begun) = (c = "u") /\ (e \in Whole) = (c \in {"quote", "\\"})
    BY <2>1, BegunCases
  <2> QED BY <1>1, <2>2, <2>3, <2>4 DEF e
<1>3. CASE b = <<"\\", "u">>
  <2>1. e = <<"\\", "u", c>>
    BY <1>3, BegunNext
  <2> HIDE DEF e
  <2>2. e[2] = "u" /\ e \notin {<<"\\", "quote">>, <<"\\", "\\">>}
    BY <2>1 DEF Unicode, Pair
  <2>3. Len(b) = 2 /\ b # <<"\\">>
    BY <1>3
  <2>4. (e \in Whole) = (e \in {Unicode, Pair})
    BY <2>2 DEF Whole
  <2> QED BY <1>1, <2>2, <2>3, <2>4 DEF e
<1>4. CASE b = <<"\\", "u", "high">>
  <2>1. e = <<"\\", "u", "high", c>>
    BY <1>4, BegunNext
  <2> HIDE DEF e
  <2>2. e[2] = "u" /\ e \notin {<<"\\", "quote">>, <<"\\", "\\">>}
    BY <2>1 DEF Unicode, Pair
  <2>3. Len(b) = 3 /\ b # <<"\\">>
    BY <1>4
  <2>4. (e \in Whole) = (e \in {Unicode, Pair})
    BY <2>2 DEF Whole
  <2> QED BY <1>1, <2>2, <2>3, <2>4 DEF e
<1>5. CASE b = <<"\\", "u", "high", "\\">>
  <2>1. e = <<"\\", "u", "high", "\\", c>>
    BY <1>5, BegunNext
  <2> HIDE DEF e
  <2>2. e[2] = "u" /\ e \notin {<<"\\", "quote">>, <<"\\", "\\">>}
    BY <2>1 DEF Unicode, Pair
  <2>3. Len(b) = 4 /\ b # <<"\\">>
    BY <1>5
  <2>4. (e \in Whole) = (e \in {Unicode, Pair})
    BY <2>2 DEF Whole
  <2> QED BY <1>1, <2>2, <2>3, <2>4 DEF e
<1>6. CASE b = <<"\\", "u", "high", "\\", "u">>
  <2>1. e = <<"\\", "u", "high", "\\", "u", c>>
    BY <1>6, BegunNext
  <2> HIDE DEF e
  <2>2. e[2] = "u" /\ e \notin {<<"\\", "quote">>, <<"\\", "\\">>}
    BY <2>1 DEF Unicode, Pair
  <2>3. Len(b) = 5 /\ b # <<"\\">>
    BY <1>6
  <2>4. (e \in Whole) = (e \in {Unicode, Pair})
    BY <2>2 DEF Whole
  <2> QED BY <1>1, <2>2, <2>3, <2>4 DEF e
<1> QED BY <1>2, <1>3, <1>4, <1>5, <1>6 DEF Begun

(* In the text of the tool's input, or in what can no longer become one:   *)
(* a byte that was not expected, the end of the text, or an escape that    *)
(* will never be one.                                                      *)
Live(s) == s \in InputStates /\ ~s.failed /\ s.state = "Value" /\ s.escape \in Begun
Stuck == {e \in Texts : Len(e) >= 2 /\ e[2] = "u" /\ e \notin Begun /\ e \notin {Unicode, Pair}}
Dead(s) ==
  s \in InputStates /\ (s.failed \/ s.state \in {"Close", "Done"} \/ (s.state = "Value" /\ s.escape \in Stuck))

LEMMA LiveStep ==
  ASSUME NEW s, Live(s), NEW c \in InputBytes
  PROVE  LET e == Append(s.escape, c)
             t == InputByte(s, c)
             plain == s.escape = <<>> /\ c \notin {"quote", "\\"}
         IN /\ plain => t = [s EXCEPT !.output = Append(@, c)]
            /\ e \in Begun => t = [s EXCEPT !.escape = e]
            /\ e \in {Unicode, Pair} => t = [s EXCEPT !.escape = <<>>, !.output = Append(@, e)]
            /\ e \in Whole \ {Unicode, Pair} => t = [s EXCEPT !.escape = <<>>, !.output = Append(@, c)]
            /\ ~plain /\ e \notin Begun \cup Whole => Dead(t)
<1> DEFINE e == Append(s.escape, c)
           t == InputByte(s, c)
           b == s.escape
<1>1. s \in InputStates /\ ~s.failed /\ s.state = "Value" /\ b \in Begun
  BY DEF Live
<1>2. t = ValueByte(s, c) /\ t \in InputStates /\ Reject(s).failed
  <2>1. t = ValueByte(s, c)
    BY <1>1, ByteCases
  <2>2. t \in InputStates
    BY <1>1, InputType
  <2>3. Reject(s).failed
    BY <1>1, InputChanged, Zenon
  <2> QED BY <2>1, <2>2, <2>3
<1>3. CASE b = <<>>
  <2>1. e = <<c>>
    BY <1>3, BegunNext
  <2>2. (e \in Begun) = (c = "\\") /\ e \notin Whole
    <3> HIDE DEF e
    <3> QED BY <2>1, BegunCases
  <2>3. t = IF c = "\\" THEN [s EXCEPT !.escape = <<"\\">>]
            ELSE IF c = "quote" THEN Enters(s, "Close")
            ELSE [s EXCEPT !.output = Append(@, c)]
    BY <1>2, <1>3 DEF ValueByte
  <2>4. e \notin {Unicode, Pair}
    BY <2>2 DEF Whole
  <2>5. c = "quote" => Dead(t)
    <3>1. Enters(s, "Close").state = "Close"
      BY <1>1, InputChanged, Zenon
    <3> QED BY <1>2, <2>3, <3>1 DEF Dead
  <2> HIDE DEF t
  <2>6. c = "\\" => e = <<"\\">>
    BY <2>1
  <2> HIDE DEF e
  <2> QED BY <1>3, <2>2, <2>3, <2>4, <2>5, <2>6 DEF e, t
<1>4. CASE b # <<>>
  <2>1. /\ e \in Texts /\ Len(e) >= 2
        /\ b = <<"\\">> => /\ e[2] = c /\ e \notin {Unicode, Pair} /\ (e \in Begun) = (c = "u")
                           /\ (e \in Whole) = (c \in {"quote", "\\"})
        /\ b # <<"\\">> => e[2] = "u" /\ (e \in Whole) = (e \in {Unicode, Pair})
    BY <1>1, <1>4, EscapeGrown
  <2>2. t = IF e[2] # "u"
            THEN Need(c \in {"quote", "\\"}, s, [s EXCEPT !.escape = <<>>, !.output = Append(@, c)])
            ELSE IF e \in {Unicode, Pair}
            THEN [s EXCEPT !.escape = <<>>, !.output = Append(@, e)]
            ELSE Need(EscapeBytes(e) < 12, s, [s EXCEPT !.escape = e])
    BY <1>2, <1>4 DEF ValueByte
  <2>3. e \in Begun => EscapeBytes(e) < 12 /\ e \notin {Unicode, Pair} /\ e[2] = "u" /\ e \notin Whole
    <3>1. e \in Begun => EscapeBytes(e) < 12
      BY BegunSizes
    <3>2. Unicode \notin Begun /\ Pair \notin Begun
      BY DEF Unicode, Pair, Begun
    <3> HIDE DEF e
    <3>3. e \in Begun => e \notin {Unicode, Pair}
      BY <3>2
    <3>4. "u" \notin {"quote", "\\"}
      OBVIOUS
    <3> QED BY <2>1, <3>1, <3>3, <3>4
  <2> DEFINE longer == [s EXCEPT !.escape = e]
             more1 == [s EXCEPT !.escape = <<>>, !.output = Append(@, c)]
             more2 == [s EXCEPT !.escape = <<>>, !.output = Append(@, e)]
  <2>4. e \in Texts => longer.escape = e /\ longer.state = s.state
    <3> HIDE DEF e
    <3> QED BY <1>1 DEF InputStates
  <2>5. t = IF e[2] # "u" THEN Need(c \in {"quote", "\\"}, s, more1)
            ELSE IF e \in {Unicode, Pair} THEN more2
            ELSE Need(EscapeBytes(e) < 12, s, longer)
    BY <2>2
  <2>6. {Unicode, Pair} \subseteq Whole
    BY DEF Whole
  <2> HIDE DEF e, t, more1, more2, longer
  <2>7. e \in Begun => t = longer
    BY <2>3, <2>5 DEF Need
  <2>8. e \in {Unicode, Pair} => t = more2
    BY <2>1, <2>5
  <2>9. e \in Whole \ {Unicode, Pair} => t = more1
    BY <2>1, <2>5 DEF Need
  <2>10. e \notin Begun \cup Whole => Dead(t)
    <3> SUFFICES ASSUME e \notin Begun, e \notin Whole PROVE Dead(t)
      OBVIOUS
    <3>1. e \notin {Unicode, Pair}
      BY <2>6
    <3>2. CASE t = Reject(s)
      BY <1>2, <3>2 DEF Dead, t
    <3>3. CASE t # Reject(s)
      <4>1. e[2] = "u" /\ t = longer
        BY <2>1, <2>5, <3>1, <3>3 DEF Need
      <4>2. e \in Stuck
        BY <2>1, <3>1, <4>1 DEF Stuck
      <4> QED BY <1>1, <1>2, <2>1, <2>4, <4>1, <4>2 DEF Dead, t
    <3> QED BY <3>2, <3>3
  <2> QED BY <1>4, <2>7, <2>8, <2>9, <2>10 DEF e, t, more1, more2, longer
<1> QED BY <1>3, <1>4

(* The bytes of a character: what is one, or has begun, had only begun     *)
(* before its last byte; and no character is the beginning of another.     *)
Plain == {"x", "u", "space", "lbrace", "rbrace", ":"} \cup Quads
CharBytes == {<<c>> : c \in Plain} \cup Whole

LEMMA CharacterBytes == \A r : (\E ch \in Characters : r = ch.bytes) <=> r \in CharBytes
<1> DEFINE A == {[bytes |-> <<c>>, text |-> c] : c \in Plain}
           B == {[bytes |-> <<"\\", c>>, text |-> c] : c \in {"quote", "\\"}}
           C == {[bytes |-> e, text |-> e] : e \in {Unicode, Pair}}
<1>1. Characters = A \cup B \cup C
  BY DEF Characters, Plain
<1>2. \A r : (\E ch \in A : r = ch.bytes) <=> r \in {<<c>> : c \in Plain}
  <2>1. ASSUME NEW ch \in A PROVE ch.bytes \in {<<c>> : c \in Plain}
    BY <2>1
  <2>2. ASSUME NEW c \in Plain PROVE \E ch \in A : <<c>> = ch.bytes
    <3>1. [bytes |-> <<c>>, text |-> c] \in A /\ [bytes |-> <<c>>, text |-> c].bytes = <<c>>
      BY <2>2
    <3> HIDE DEF A
    <3> QED BY <3>1
  <2> HIDE DEF A
  <2> QED BY <2>1, <2>2
<1>3. \A r : (\E ch \in B : r = ch.bytes) <=> r \in {<<"\\", "quote">>, <<"\\", "\\">>}
  <2>1. ASSUME NEW ch \in B PROVE ch.bytes \in {<<"\\", "quote">>, <<"\\", "\\">>}
    BY <2>1
  <2>2. ASSUME NEW c \in {"quote", "\\"} PROVE \E ch \in B : <<"\\", c>> = ch.bytes
    <3>1. /\ [bytes |-> <<"\\", c>>, text |-> c] \in B
          /\ [bytes |-> <<"\\", c>>, text |-> c].bytes = <<"\\", c>>
      BY <2>2
    <3> HIDE DEF B
    <3> QED BY <3>1
  <2> HIDE DEF B
  <2> QED BY <2>1, <2>2
<1>4. \A r : (\E ch \in C : r = ch.bytes) <=> r \in {Unicode, Pair}
  <2>1. ASSUME NEW ch \in C PROVE ch.bytes \in {Unicode, Pair}
    BY <2>1
  <2>2. ASSUME NEW e \in {Unicode, Pair} PROVE \E ch \in C : e = ch.bytes
    <3>1. [bytes |-> e, text |-> e] \in C /\ [bytes |-> e, text |-> e].bytes = e
      BY <2>2
    <3> HIDE DEF C
    <3> QED BY <3>1
  <2> HIDE DEF C
  <2> QED BY <2>1, <2>2
<1>5. \A r : r \in CharBytes <=> \/ r \in {<<c>> : c \in Plain}
                                 \/ r \in {<<"\\", "quote">>, <<"\\", "\\">>} \/ r \in {Unicode, Pair}
  BY DEF CharBytes, Whole
<1> HIDE DEF A, B, C
<1>6. \A r : (\E ch \in Characters : r = ch.bytes) <=>
               \/ \E ch \in A : r = ch.bytes
               \/ \E ch \in B : r = ch.bytes
               \/ \E ch \in C : r = ch.bytes
  BY <1>1
<1> QED BY <1>2, <1>3, <1>4, <1>5, <1>6

LEMMA BegunClosed ==
  ASSUME NEW r \in Texts, NEW c \in InputBytes, Append(r, c) \in Begun \cup CharBytes
  PROVE  r \in Begun
<1> DEFINE more == Append(r, c)
<1>1. r \in Seq(InputBytes) /\ Len(more) = Len(r) + 1 /\ Len(r) \in Nat
  BY AppendProperties, LenProperties DEF Texts
<1>2. \A b \in Begun, d \in InputBytes : more = Append(b, d) => r \in Begun
  <2> SUFFICES ASSUME NEW b \in Begun, NEW d \in InputBytes, more = Append(b, d) PROVE r \in Begun
    OBVIOUS
  <2>1. b \in Seq(InputBytes)
    BY BegunSizes DEF Texts
  <2>2. r = b
    BY <1>1, <2>1, AppendInjective
  <2> QED BY <2>2
<1>3. /\ <<"\\">> \in Begun /\ <<"\\", "u">> \in Begun /\ <<"\\", "u", "high">> \in Begun
      /\ <<"\\", "u", "high", "\\">> \in Begun /\ <<"\\", "u", "high", "\\", "u">> \in Begun
      /\ <<>> \in Begun
  BY DEF Begun
<1>4. more \in Begun \cup CharBytes
  OBVIOUS
<1> HIDE DEF more
<1>5. ASSUME NEW d \in InputBytes, more = <<d>> PROVE r \in Begun
  <2>1. Append(<<>>, d) = <<d>>
    BY BegunNext
  <2> QED BY <1>2, <1>3, <1>5, <2>1
<1>6. more # <<>>
  <2>1. Len(<<>>) = 0
    OBVIOUS
  <2> QED BY <1>1, <2>1
<1>7. CASE more \in Begun \cup Whole
  <2>1. /\ Append(<<"\\">>, "u") = <<"\\", "u">>
        /\ Append(<<"\\">>, "quote") = <<"\\", "quote">>
        /\ Append(<<"\\">>, "\\") = <<"\\", "\\">>
        /\ Append(<<"\\", "u">>, "high") = <<"\\", "u", "high">>
        /\ Append(<<"\\", "u">>, "bmp") = Unicode
        /\ Append(<<"\\", "u", "high">>, "\\") = <<"\\", "u", "high", "\\">>
        /\ Append(<<"\\", "u", "high", "\\">>, "u") = <<"\\", "u", "high", "\\", "u">>
        /\ Append(<<"\\", "u", "high", "\\", "u">>, "low") = Pair
    BY EscapeByte, BegunNext DEF Unicode, Pair
  <2>2. more \in {<<"\\">>, <<"\\", "u">>, <<"\\", "quote">>, <<"\\", "\\">>, <<"\\", "u", "high">>,
                  Unicode, <<"\\", "u", "high", "\\">>, <<"\\", "u", "high", "\\", "u">>, Pair}
    BY <1>6, <1>7 DEF Begun, Whole
  <2>3. more = <<"\\">> => r \in Begun
    BY <1>5, EscapeByte
  <2> QED BY <1>2, <1>3, <2>1, <2>2, <2>3, EscapeByte
<1>8. CASE more \in {<<d>> : d \in Plain}
  <2>1. Plain \subseteq InputBytes
    BY DEF Plain, InputBytes
  <2> QED BY <1>5, <1>8, <2>1
<1> QED BY <1>4, <1>7, <1>8 DEF CharBytes

LEMMA CharactersApart == \A r \in CharBytes : r \notin Begun
<1>1. \A c \in Plain : <<c>> \notin Begun
  <2>1. "\\" \notin Plain
    BY DEF Plain, Quads
  <2> QED BY <2>1, BegunCases, Zenon
<1>2. \A r \in Whole : r \notin Begun
  <2>1. <<"\\", "quote">> \notin Begun /\ <<"\\", "\\">> \notin Begun
    BY BegunCases
  <2>2. Unicode \notin Begun
    BY BegunCases DEF Unicode
  <2>3. Pair \notin Begun
    BY BegunCases DEF Pair
  <2> QED BY <2>1, <2>2, <2>3 DEF Whole
<1> QED BY <1>1, <1>2 DEF CharBytes

LEMMA StuckStays ==
  ASSUME NEW e \in Stuck, NEW c \in InputBytes
  PROVE  Append(e, c) \in Stuck
<1> DEFINE more == Append(e, c)
<1>1. e \in Seq(InputBytes) /\ e \in Texts /\ Len(e) >= 2 /\ e[2] = "u" /\ e \notin Begun
  BY DEF Stuck, Texts
<1>2. more \in Texts /\ Len(more) = Len(e) + 1 /\ Len(e) \in Nat /\ more[2] = e[2]
  <2>1. more \in Seq(InputBytes) /\ Len(more) = Len(e) + 1 /\ Len(e) \in Nat
        /\ \A i \in 1 .. Len(e) : more[i] = e[i]
    BY <1>1, AppendProperties, LenProperties
  <2>2. 2 \in 1 .. Len(e)
    BY <1>1, <2>1
  <2> HIDE DEF more
  <2> QED BY <2>1, <2>2 DEF Texts
<1>3. more \notin Begun \cup CharBytes
  BY <1>1, BegunClosed
<1>4. Unicode \in CharBytes /\ Pair \in CharBytes
  BY DEF CharBytes, Whole
<1>5. Len(more) >= 2
  BY <1>1, <1>2
<1> HIDE DEF more
<1> QED BY <1>1, <1>2, <1>3, <1>4, <1>5 DEF Stuck, more

LEMMA DeadStep ==
  ASSUME NEW s, Dead(s), NEW c \in InputBytes
  PROVE  Dead(InputByte(s, c))
<1> DEFINE t == InputByte(s, c)
<1>1. s \in InputStates /\ t \in InputStates /\ Reject(s).failed
  <2>1. s \in InputStates
    BY DEF Dead
  <2>2. t \in InputStates
    BY <2>1, InputType
  <2>3. Reject(s).failed
    BY <2>1, InputChanged, Zenon
  <2> QED BY <2>1, <2>2, <2>3
<1>2. CASE t = s
  BY <1>2 DEF Dead
<1>3. CASE t = Reject(s)
  BY <1>1, <1>3 DEF Dead
<1>4. CASE s.failed
  BY <1>4, <1>2, ByteCases
<1>5. CASE ~s.failed /\ s.state \in {"Close", "Done"}
  <2>1. Enters(s, "Done").state = "Done"
    BY <1>1, InputChanged, Zenon
  <2>2. t \in {s, Reject(s), Enters(s, "Done")}
    BY <1>5, ByteCases DEF Need
  <2>3. CASE t = Enters(s, "Done")
    BY <1>1, <2>1, <2>3 DEF Dead
  <2> QED BY <1>2, <1>3, <2>2, <2>3
<1>6. CASE ~s.failed /\ s.state = "Value" /\ s.escape \in Stuck
  <2> DEFINE e == Append(s.escape, c)
             longer == [s EXCEPT !.escape = e]
  <2>1. e \in Stuck
    BY <1>6, StuckStays
  <2>2. e[2] = "u" /\ e \notin {Unicode, Pair} /\ e \in Texts
    BY <2>1 DEF Stuck
  <2>3. s.escape # <<>>
    <3>1. Len(s.escape) >= 2
      BY <1>6 DEF Stuck
    <3>2. Len(<<>>) = 0
      OBVIOUS
    <3> QED BY <3>1, <3>2
  <2>4. t = ValueByte(s, c)
    BY <1>6, ByteCases
  <2>5. t = Need(EscapeBytes(e) < 12, s, longer)
    BY <2>2, <2>3, <2>4 DEF ValueByte
  <2> HIDE DEF e
  <2>6. longer.escape = e /\ longer.state = s.state
    BY <1>1 DEF InputStates
  <2> HIDE DEF longer
  <2>7. t \in {Reject(s), longer}
    BY <2>5 DEF Need
  <2>8. CASE t = longer
    BY <1>1, <1>6, <2>1, <2>6, <2>8 DEF Dead
  <2> QED BY <1>3, <2>7, <2>8
<1> QED BY <1>4, <1>5, <1>6 DEF Dead

-----------------------------------------------------------------------------
(* The texts of a tool's input *)

Rest(v, j) == SubSeq(v, j + 1, Len(v))
LEMMA RestLaws ==
  ASSUME NEW E, NEW v \in Seq(E), NEW e \in E, NEW j \in 0 .. Len(v)
  PROVE  /\ Rest(v, j) \in Seq(E) /\ (Rest(v, j) = <<>>) = (j = Len(v))
         /\ Rest(Append(v, e), j) = Append(Rest(v, j), e)
<1> DEFINE n == Len(v)
           more == Append(v, e)
           p == SubSeq(v, j + 1, n)
           q == SubSeq(more, j + 1, n + 1)
<1>1. /\ n \in Nat /\ more \in Seq(E) /\ Len(more) = n + 1 /\ more[n + 1] = e
      /\ \A i \in 1 .. n : more[i] = v[i]
  BY AppendProperties, LenProperties
<1> HIDE DEF more
<1>2. p \in Seq(E) /\ Len(p) = n - j /\ \A k \in 1 .. n - j : p[k] = v[j + k]
  <2>1. j + 1 \in 1 .. n + 2 /\ n \in 0 .. n
    BY <1>1
  <2>2. /\ p \in Seq(E) /\ Len(p) = IF j + 1 <= n THEN n - (j + 1) + 1 ELSE 0
        /\ \A k \in 1 .. n - (j + 1) + 1 : p[k] = v[j + 1 + k - 1]
    BY <2>1, SubLine
  <2> HIDE DEF p
  <2> QED BY <1>1, <2>2
<1>3. q \in Seq(E) /\ Len(q) = n + 1 - j /\ \A k \in 1 .. n + 1 - j : q[k] = more[j + k]
  <2>1. j + 1 \in 1 .. Len(more) + 2 /\ n + 1 \in 0 .. Len(more)
    BY <1>1
  <2>2. /\ q \in Seq(E) /\ Len(q) = IF j + 1 <= n + 1 THEN n + 1 - (j + 1) + 1 ELSE 0
        /\ \A k \in 1 .. n + 1 - (j + 1) + 1 : q[k] = more[j + 1 + k - 1]
    BY <1>1, <2>1, SubLine
  <2> HIDE DEF q
  <2> QED BY <1>1, <2>2
<1> HIDE DEF p, q
<1>4. Len(q) = Len(p) + 1 /\ q[Len(p) + 1] = e /\ \A i \in 1 .. Len(p) : q[i] = p[i]
  <2> DEFINE m == n - j
  <2>1. m \in Nat /\ j + (m + 1) = n + 1 /\ Len(p) = m /\ Len(q) = m + 1
    BY <1>1, <1>2, <1>3
  <2>2. q[m + 1] = e
    BY <1>1, <1>3, <2>1
  <2>3. ASSUME NEW i \in 1 .. m PROVE q[i] = p[i]
    <3>1. q[i] = more[j + i] /\ j + i \in 1 .. n /\ p[i] = v[j + i]
      BY <1>1, <1>2, <1>3
    <3> QED BY <1>1, <3>1
  <2> QED BY <2>1, <2>2, <2>3
<1>5. Append(p, e) = q
  BY <1>2, <1>3, <1>4, AppendIs, Zenon
<1>6. Rest(v, j) = p /\ Rest(more, j) = q
  BY <1>1 DEF Rest, p, q
<1>7. (p = <<>>) = (j = n)
  <2>1. (p = <<>>) = (Len(p) = 0)
    BY <1>2, EmptySeq
  <2> QED BY <1>1, <1>2, <2>1
<1> QED BY <1>2, <1>5, <1>6, <1>7 DEF more

LEMMA BeginningKept ==
  ASSUME NEW E, NEW v \in Seq(E), NEW e \in E, NEW j \in Nat, NEW i \in 1 .. Len(v)
  PROVE  SubSeq(Append(v, e), j + 1, i) = SubSeq(v, j + 1, i)
<1> DEFINE n == Len(v)
           more == Append(v, e)
           p == SubSeq(v, j + 1, i)
           q == SubSeq(more, j + 1, i)
<1>1. /\ n \in Nat /\ more \in Seq(E) /\ Len(more) = n + 1
      /\ \A k \in 1 .. n : more[k] = v[k]
  BY AppendProperties, LenProperties
<1> HIDE DEF more
<1>2. CASE j + 1 > i
  BY <1>1, <1>2, SubSeqEmpty
<1>3. CASE j + 1 <= i
  <2>1. /\ j + 1 \in 1 .. n + 2 /\ i \in 0 .. n
        /\ j + 1 \in 1 .. Len(more) + 2 /\ i \in 0 .. Len(more)
    BY <1>1, <1>3
  <2> DEFINE a == j + 1
  <2> HIDE DEF a
  <2>8. /\ p \in Seq(E) /\ Len(p) = IF a <= i THEN i - a + 1 ELSE 0
        /\ \A k \in 1 .. i - a + 1 : p[k] = v[a + k - 1]
    BY <2>1, SubLine DEF a
  <2>9. /\ q \in Seq(E) /\ Len(q) = IF a <= i THEN i - a + 1 ELSE 0
        /\ \A k \in 1 .. i - a + 1 : q[k] = more[a + k - 1]
    BY <1>1, <2>1, SubLine DEF a
  <2> HIDE DEF p, q
  <2>2. /\ p \in Seq(E) /\ Len(p) = i - (j + 1) + 1
        /\ \A k \in 1 .. i - (j + 1) + 1 : p[k] = v[j + 1 + k - 1]
    BY <1>3, <2>8 DEF a
  <2>3. /\ q \in Seq(E) /\ Len(q) = i - (j + 1) + 1
        /\ \A k \in 1 .. i - (j + 1) + 1 : q[k] = more[j + 1 + k - 1]
    BY <1>3, <2>9 DEF a
  <2>4. \A k \in 1 .. i - (j + 1) + 1 : j + 1 + k - 1 \in 1 .. n
    BY <1>1, <1>3
  <2>5. \A k \in 1 .. Len(p) : q[k] = p[k]
    BY <1>1, <2>2, <2>3, <2>4
  <2>6. Len(p) = Len(q)
    BY <2>2, <2>3
  <2>7. p = q
    BY <2>2, <2>3, <2>5, <2>6, SeqEqual
  <2> QED BY <2>7 DEF p, q
<1> QED BY <1>1, <1>2, <1>3

EndsStep(v) == [q \in (SUBSET Nat) \X (1 .. Len(v)) |->
              IF EndsWith(v, q[2], q[1]) THEN q[1] \cup {q[2]} ELSE q[1]]
LEMMA EndsType ==
  ASSUME NEW v \in Texts PROVE EndsStep(v) \in FoldSteps(SUBSET Nat, 1 .. Len(v))
BY DEF EndsStep, FoldSteps

LEMMA EndPositions ==
  ASSUME NEW v \in Texts PROVE {0} \in SUBSET Nat /\ Positions(v) \in Seq(1 .. Len(v))
BY PositionsLaws, EscapeByte DEF Texts

LEMMA EndsFolded ==
  ASSUME NEW v \in Texts
  PROVE  TextEnds(v) = Folded(EndsStep(v), {0}, Positions(v))
<1> DEFINE seq == Positions(v)
           Chosen(h) == h = [s \in SUBSET DOMAIN seq |->
                               IF s = {} THEN {0} ELSE
                                 IF EndsWith(v, seq[Max(s)], h[s \ {Max(s)}]) THEN h[s \ {Max(s)}] \cup {seq[Max(s)]} ELSE h[s \ {Max(s)}]]
           C == CHOOSE h : Chosen(h)
<1>1. {0} \in (SUBSET Nat) /\ seq \in Seq((1 .. Len(v)))
  BY EndPositions
<1>2. \A s \in SUBSET DOMAIN seq : s # {} => seq[Max(s)] \in (1 .. Len(v))
  BY <1>1, SequenceMax
<1>3. TextEnds(v) = C[DOMAIN seq]
  BY DEF TextEnds, FoldLeft, MapThenFoldSet
<1> HIDE DEF seq
<1>4. EndsStep(v) \in FoldSteps((SUBSET Nat), (1 .. Len(v)))
  BY EndsType
<1>5. PICK g \in [SUBSET DOMAIN seq -> (SUBSET Nat)] : Solves(g, EndsStep(v), {0}, seq)
  BY <1>1, <1>4, SolutionExists
<1>6. Chosen(g)
  BY <1>1, <1>2, <1>5 DEF Solves, EndsStep
<1>7. Chosen(C)
  BY <1>6
<1> HIDE DEF C
<1>8. ASSUME NEW s \in SUBSET DOMAIN seq, s # {}, C[s \ {Max(s)}] \in (SUBSET Nat)
      PROVE  C[s] = EndsStep(v)[<<C[s \ {Max(s)}], seq[Max(s)]>>]
  BY <1>2, <1>7, <1>8 DEF EndsStep
<1>9. FoldsLike(C, (SUBSET Nat), EndsStep(v), {0}, seq)
  BY <1>7, <1>8 DEF FoldsLike
<1>10. Folded(EndsStep(v), {0}, seq) = C[DOMAIN seq]
  <2> DEFINE step == EndsStep(v)
             start == {0}
             values == (SUBSET Nat)
             elements == (1 .. Len(v))
  <2>1. /\ step \in FoldSteps(values, elements) /\ start \in values /\ seq \in Seq(elements)
        /\ FoldsLike(C, values, step, start, seq)
    BY <1>1, <1>4, <1>9
  <2> HIDE DEF step, start, values, elements
  <2>2. Folded(step, start, seq) = C[DOMAIN seq]
    BY <2>1, FoldedIsFold
  <2> QED BY <2>2 DEF step, start
<1> QED BY <1>3, <1>10 DEF seq

LEMMA EndsLaws ==
  /\ TextEnds(<<>>) = {0}
  /\ \A v \in Texts : TextEnds(v) \in SUBSET Nat
  /\ \A v \in Texts, c \in InputBytes :
       TextEnds(Append(v, c)) =
         IF EndsWith(Append(v, c), Len(v) + 1, TextEnds(v)) THEN TextEnds(v) \cup {Len(v) + 1} ELSE TextEnds(v)
<1> DEFINE S == SUBSET Nat
<1>0. <<>> \in Texts /\ {0} \in S /\ Len(<<>>) = 0
  BY EmptySeq DEF Texts
<1>1. TextEnds(<<>>) = {0}
  <2> DEFINE op == EndsStep(<<>>)
             E == 1 .. Len(<<>>)
             base == {0}
  <2>1. TextEnds(<<>>) = Folded(op, base, Positions(<<>>)) /\ op \in FoldSteps(S, E) /\ base \in S
    BY <1>0, EndsFolded, EndsType
  <2> HIDE DEF op, E, S, base
  <2>2. Folded(op, base, <<>>) = base
    BY <2>1, FoldedEmpty
  <2> QED BY <2>1, <2>2, NoPositions DEF base
<1>2. ASSUME NEW v \in Texts PROVE TextEnds(v) \in S
  <2> DEFINE op == EndsStep(v)
             E == 1 .. Len(v)
             seq == Positions(v)
             base == {0}
  <2>1. TextEnds(v) = Folded(op, base, seq) /\ op \in FoldSteps(S, E) /\ seq \in Seq(E) /\ base \in S
    BY <1>0, EndsFolded, EndsType, EndPositions
  <2> HIDE DEF op, E, seq, S, base
  <2> QED BY <2>1, FoldedLaws
<1>3. ASSUME NEW v \in Texts, NEW c \in InputBytes
      PROVE  TextEnds(Append(v, c)) =
               IF EndsWith(Append(v, c), Len(v) + 1, TextEnds(v)) THEN TextEnds(v) \cup {Len(v) + 1} ELSE TextEnds(v)
  <2> DEFINE more == Append(v, c)
             n == Len(v)
             seq == Positions(v)
             op == EndsStep(more)
             old == EndsStep(v)
             E == 1 .. n + 1
             F == 1 .. n
             base == {0}
  <2>1. n \in Nat /\ more \in Texts /\ Len(more) = n + 1
    BY AppendProperties, LenProperties DEF Texts
  <2>2. /\ op \in FoldSteps(S, E) /\ old \in FoldSteps(S, F) /\ base \in S
        /\ TextEnds(v) = Folded(old, base, seq) /\ TextEnds(v) \in S
        /\ TextEnds(more) = Folded(op, base, Positions(more))
    <3>1. 1 .. Len(more) = E
      BY <2>1
    <3>2. op \in FoldSteps(S, 1 .. Len(more)) /\ old \in FoldSteps(S, F)
      BY <2>1, EndsType
    <3>3. TextEnds(v) = Folded(old, base, seq) /\ TextEnds(more) = Folded(op, base, Positions(more))
      BY <2>1, EndsFolded
    <3> QED BY <3>1, <3>2, <3>3, <1>0, <1>2
  <2>3. /\ seq \in Seq(F) /\ seq \in Seq(E) /\ Len(seq) = n /\ \A i \in 1 .. n : seq[i] = i
        /\ Positions(more) = Append(seq, n + 1) /\ n + 1 \in E
    <3>1. /\ seq \in Seq(F) /\ Len(seq) = n /\ \A i \in 1 .. n : seq[i] = i
          /\ Positions(more) = Append(seq, n + 1)
      BY PositionsLaws DEF Texts
    <3>2. n + 1 \in E /\ \A i \in F : i \in E
      BY <2>1
    <3> HIDE DEF seq, E, F
    <3> QED BY <3>1, <3>2
  <2>4. \A j \in Nat, i \in F : SubSeq(more, j + 1, i) = SubSeq(v, j + 1, i)
    BY BeginningKept DEF Texts
  <2>5. \A ends \in S, i \in F : op[<<ends, i>>] = old[<<ends, i>>]
    <3> SUFFICES ASSUME NEW ends \in S, NEW i \in F PROVE op[<<ends, i>>] = old[<<ends, i>>]
      BY Zenon
    <3>1. i \in 1 .. Len(more) /\ i \in 1 .. Len(v) /\ ends \subseteq Nat
      BY <2>1
    <3> DEFINE news == EndsWith(more, i, ends)
               olds == EndsWith(v, i, ends)
    <3>2. news = olds
      <4>1. \A j \in ends : SubSeq(more, j + 1, i) = SubSeq(v, j + 1, i)
        BY <2>4, <3>1
      <4> HIDE DEF more
      <4> QED BY <4>1 DEF EndsWith
    <3>3. op[<<ends, i>>] = IF news THEN ends \cup {i} ELSE ends
      <4> HIDE DEF more
      <4> QED BY <3>1 DEF EndsStep
    <3>4. old[<<ends, i>>] = IF olds THEN ends \cup {i} ELSE ends
      BY <3>1 DEF EndsStep
    <3> QED BY <3>2, <3>3, <3>4
  <2>6. \A ends \in S :
          op[<<ends, n + 1>>] =
            IF EndsWith(more, n + 1, ends) THEN ends \cup {n + 1} ELSE ends
    <3> DEFINE k == n + 1
    <3>1. k \in 1 .. Len(more)
      BY <2>1
    <3> HIDE DEF more, n, k
    <3>2. \A ends \in S :
            op[<<ends, k>>] = IF EndsWith(more, k, ends) THEN ends \cup {k} ELSE ends
      BY <3>1 DEF EndsStep
    <3> QED BY <3>2 DEF k
  <2>7. \A ends \in S, i \in 1 .. Len(seq) : op[<<ends, seq[i]>>] = old[<<ends, seq[i]>>]
    BY <2>3, <2>5
  <2> HIDE DEF op, old, E, F, S, base, seq, more, n
  <2>8. Folded(op, base, seq) = Folded(old, base, seq)
    BY <2>2, <2>3, <2>7, FoldedAlike
  <2>9. Folded(op, base, Append(seq, n + 1)) = op[<<Folded(op, base, seq), n + 1>>]
    BY <2>2, <2>3, FoldedAppend
  <2> QED BY <2>2, <2>3, <2>6, <2>8, <2>9 DEF more, n
<1> QED BY <1>1, <1>2, <1>3

LEMMA EndsInside == \A v \in Texts : TextEnds(v) \subseteq 0 .. Len(v)
<1> DEFINE G == {v \in Texts : TextEnds(v) \subseteq 0 .. Len(v)}
<1>1. <<>> \in G
  <2>1. <<>> \in Texts /\ Len(<<>>) = 0
    BY EmptySeq DEF Texts
  <2> QED BY <2>1, EndsLaws
<1>2. ASSUME NEW v \in Seq(InputBytes), NEW c \in InputBytes, v \in G PROVE Append(v, c) \in G
  <2> DEFINE more == Append(v, c)
             n == Len(v)
  <2>1. v \in Texts /\ TextEnds(v) \subseteq 0 .. n /\ n \in Nat
    BY <1>2, LenProperties
  <2>2. more \in Texts /\ Len(more) = n + 1
    BY AppendProperties DEF Texts
  <2>3. TextEnds(more) = IF EndsWith(more, n + 1, TextEnds(v)) THEN TextEnds(v) \cup {n + 1} ELSE TextEnds(v)
    BY <2>1, EndsLaws
  <2> HIDE DEF more, n
  <2>4. TextEnds(more) \subseteq TextEnds(v) \cup {n + 1}
    BY <2>3
  <2>5. TextEnds(more) \subseteq 0 .. n + 1
    BY <2>1, <2>4
  <2> QED BY <2>2, <2>5 DEF more
<1> HIDE DEF G
<1>3. Seq(InputBytes) \subseteq G
  BY <1>1, <1>2, AppendInduction
<1> QED BY <1>3 DEF G, Texts

(* What stands behind the ends of characters, as far as a character has    *)
(* begun with it.                                                          *)
Rests(v) == {Rest(v, j) : j \in TextEnds(v)}
Open(v) == Rests(v) \cap Begun

LEMMA OpenLaws ==
  /\ Open(<<>>) = {<<>>}
  /\ \A v \in Texts : IsText(v) = (<<>> \in Open(v))
  /\ \A v \in Texts, c \in InputBytes :
       LET longer == {Append(r, c) : r \in Open(v)}
       IN Open(Append(v, c)) =
            (longer \cap Begun) \cup (IF longer \cap CharBytes = {} THEN {} ELSE {<<>>})
<1>1. Open(<<>>) = {<<>>}
  <2>1. TextEnds(<<>>) = {0}
    BY EndsLaws
  <2>2. Rest(<<>>, 0) = <<>>
    BY SubSeqEmpty, EmptySeq DEF Rest
  <2>3. <<>> \in Begun
    BY DEF Begun
  <2> QED BY <2>1, <2>2, <2>3 DEF Open, Rests
<1>2. ASSUME NEW v \in Texts PROVE IsText(v) = (<<>> \in Open(v))
  <2> DEFINE ends == TextEnds(v)
             n == Len(v)
  <2>1. ends \subseteq 0 .. n /\ n \in 0 .. n
    BY EndsInside, LenProperties DEF Texts
  <2>2. \A j \in 0 .. n : (Rest(v, j) = <<>>) = (j = n)
    <3>1. v \in Seq(InputBytes)
      BY DEF Texts
    <3> QED BY <3>1, EscapeByte, RestLaws
  <2>3. (<<>> \in Rests(v)) = (n \in ends)
    <3> HIDE DEF n
    <3>1. n \in ends => <<>> \in Rests(v)
      BY <2>1, <2>2 DEF Rests
    <3>2. <<>> \in Rests(v) => n \in ends
      BY <2>1, <2>2 DEF Rests
    <3>3. (<<>> \in Rests(v)) \in BOOLEAN /\ (n \in ends) \in BOOLEAN
      OBVIOUS
    <3> QED BY <3>1, <3>2
  <2>4. <<>> \in Begun
    BY DEF Begun
  <2> QED BY <2>3, <2>4 DEF Open, IsText
<1>3. ASSUME NEW v \in Texts, NEW c \in InputBytes
      PROVE  LET longer == {Append(r, c) : r \in Open(v)}
             IN Open(Append(v, c)) =
                  (longer \cap Begun) \cup (IF longer \cap CharBytes = {} THEN {} ELSE {<<>>})
  <2> DEFINE more == Append(v, c)
             n == Len(v)
             ends == TextEnds(v)
             all == {Append(r, c) : r \in Rests(v)}
             longer == {Append(r, c) : r \in Open(v)}
  <2>1. /\ v \in Seq(InputBytes) /\ n \in Nat /\ ends \subseteq 0 .. n
        /\ more \in Texts /\ more \in Seq(InputBytes) /\ Len(more) = n + 1
    BY EndsInside, LenProperties, AppendProperties DEF Texts
  <2>2. \A j \in 0 .. n : Rest(v, j) \in Texts /\ Rest(more, j) = Append(Rest(v, j), c)
    BY <2>1, RestLaws DEF Texts
  <2>3. Rest(more, n + 1) = <<>>
    <3>1. n + 1 \in 0 .. Len(more)
      BY <2>1
    <3>2. "u" \in InputBytes
      BY EscapeByte
    <3> HIDE DEF more
    <3> DEFINE k == n + 1
    <3>3. k = Len(more) /\ k \in 0 .. Len(more)
      BY <2>1, <3>1
    <3> HIDE DEF k
    <3>4. (Rest(more, k) = <<>>) = (k = Len(more))
      BY <2>1, <3>2, <3>3, RestLaws
    <3>5. Rest(more, k) = <<>>
      BY <3>3, <3>4
    <3> QED BY <3>5 DEF k
  <2>4. \A j \in 0 .. n : SubSeq(more, j + 1, n + 1) = Rest(more, j)
    BY <2>1 DEF Rest
  <2> HIDE DEF more, n, ends
  <2>5. all = {Rest(more, j) : j \in ends}
    BY <2>1, <2>2 DEF Rests, ends
  <2>6. EndsWith(more, n + 1, ends) = (all \cap CharBytes # {})
    <3>1. EndsWith(more, n + 1, ends) = \E j \in ends : \E ch \in Characters : Rest(more, j) = ch.bytes
      BY <2>1, <2>4 DEF EndsWith
    <3>2. EndsWith(more, n + 1, ends) = \E j \in ends : Rest(more, j) \in CharBytes
      BY <3>1, CharacterBytes
    <3> HIDE DEF all
    <3> QED BY <2>5, <3>2
  <2>7. Rests(more) = all \cup (IF all \cap CharBytes = {} THEN {} ELSE {<<>>})
    <3>1. TextEnds(more) = IF EndsWith(more, n + 1, ends) THEN ends \cup {n + 1} ELSE ends
      BY EndsLaws DEF more, n, ends
    <3>2. Rests(more) = {Rest(more, j) : j \in TextEnds(more)}
      BY DEF Rests
    <3> HIDE DEF all
    <3> QED BY <2>3, <2>5, <2>6, <3>1, <3>2
  <2>8. \A r \in Rests(v) : r \in Texts
    BY <2>1, <2>2 DEF Rests, ends
  <2>9. ASSUME NEW r \in Rests(v), Append(r, c) \in Begun \cup CharBytes
        PROVE  Append(r, c) \in longer
    <3>1. r \in Begun
      BY <2>8, <2>9, BegunClosed
    <3> QED BY <2>9, <3>1 DEF Open
  <2>10. all \cap Begun = longer \cap Begun /\ all \cap CharBytes = longer \cap CharBytes
    <3>1. longer \subseteq all
      BY DEF Open
    <3>2. \A e \in all : e \in Begun \cup CharBytes => e \in longer
      BY <2>9
    <3> HIDE DEF all, longer
    <3> QED BY <3>1, <3>2
  <2>11. <<>> \in Begun
    BY DEF Begun
  <2> HIDE DEF all, longer
  <2>12. Open(more) = (longer \cap Begun) \cup (IF longer \cap CharBytes = {} THEN {} ELSE {<<>>})
    BY <2>7, <2>10, <2>11 DEF Open
  <2> QED BY <2>12 DEF longer, more
<1> QED BY <1>1, <1>2, <1>3

-----------------------------------------------------------------------------
(* The decoder and the definition of a text *)

(* The bytes of a text: a quote is only escaped in it.                     *)
ValueBytes == {"x", "u", "space", "lbrace", "rbrace", ":", "quote", "\\"} \cup Quads

(* A decoder that reads a text holds what has begun behind the last end of *)
(* a character; where nothing has, it has given up.                        *)
Follows(s, open) == (Live(s) /\ open = {s.escape}) \/ (Dead(s) /\ open = {})

LEMMA LiveAfter ==
  ASSUME NEW s, Live(s), NEW c \in ValueBytes
  PROVE  LET e == Append(s.escape, c)
             longer == {e}
         IN Follows(InputByte(s, c),
                    (longer \cap Begun) \cup (IF longer \cap CharBytes = {} THEN {} ELSE {<<>>}))
<1> DEFINE e == Append(s.escape, c)
           t == InputByte(s, c)
           plain == s.escape = <<>> /\ c \notin {"quote", "\\"}
           open == ({e} \cap Begun) \cup (IF {e} \cap CharBytes = {} THEN {} ELSE {<<>>})
<1>1. c \in InputBytes /\ s \in InputStates /\ ~s.failed /\ s.state = "Value" /\ s.escape \in Begun
  BY DEF ValueBytes, InputBytes, Live
<1>2. t \in InputStates
  BY <1>1, InputType
<1>3. <<>> \in Begun
  BY DEF Begun
<1>4. CASE plain
  <2>1. t = [s EXCEPT !.output = Append(@, c)]
    BY <1>1, <1>4, LiveStep, Zenon
  <2>2. t.failed = s.failed /\ t.state = s.state /\ t.escape = s.escape
    BY <1>1, <2>1 DEF InputStates
  <2>3. e = <<c>> /\ c \in Plain
    <3>1. Append(<<>>, c) = <<c>>
      BY <1>1, BegunNext
    <3> QED BY <1>1, <1>4, <3>1 DEF Plain, ValueBytes
  <2>4. e \in CharBytes /\ e \notin Begun
    BY <2>3, CharactersApart DEF CharBytes
  <2> HIDE DEF e, t
  <2>5. open = {<<>>}
    BY <2>4
  <2>6. Live(t) /\ t.escape = <<>>
    BY <1>1, <1>2, <1>3, <1>4, <2>2 DEF Live
  <2> QED BY <2>5, <2>6 DEF Follows, e, t
<1>5. CASE ~plain /\ e \in Begun
  <2>1. t = [s EXCEPT !.escape = e]
    BY <1>1, <1>5, LiveStep, Zenon
  <2>2. e \in Texts
    BY <1>5, BegunSizes
  <2> HIDE DEF e, t
  <2>3. t.failed = s.failed /\ t.state = s.state /\ t.escape = e
    BY <1>1, <2>1, <2>2 DEF InputStates
  <2>4. e \notin CharBytes
    BY <1>5, CharactersApart
  <2>5. open = {e}
    BY <1>5, <2>4
  <2>6. Live(t) /\ t.escape = e
    BY <1>1, <1>2, <1>5, <2>3 DEF Live
  <2> QED BY <2>5, <2>6 DEF Follows, e, t
<1>6. CASE ~plain /\ e \in Whole
  <2>1. e \in CharBytes /\ e \notin Begun
    BY <1>6, CharactersApart DEF CharBytes
  <2>2. \E output : t = [s EXCEPT !.escape = <<>>, !.output = output]
    <3>1. CASE e \in {Unicode, Pair}
      <4>1. t = [s EXCEPT !.escape = <<>>, !.output = Append(@, e)]
        BY <1>1, <3>1, LiveStep, Zenon
      <4> HIDE DEF t
      <4> QED BY <4>1, Zenon
    <3>2. CASE e \notin {Unicode, Pair}
      <4>1. t = [s EXCEPT !.escape = <<>>, !.output = Append(@, c)]
        BY <1>1, <1>6, <3>2, LiveStep, Zenon
      <4> HIDE DEF t
      <4> QED BY <4>1, Zenon
    <3> QED BY <3>1, <3>2, Zenon
  <2> HIDE DEF e, t
  <2>3. t.failed = s.failed /\ t.state = s.state /\ t.escape = <<>>
    BY <1>1, <2>2 DEF InputStates
  <2>5. open = {<<>>}
    BY <2>1
  <2>6. Live(t) /\ t.escape = <<>>
    BY <1>1, <1>2, <1>3, <2>3 DEF Live
  <2> QED BY <2>5, <2>6 DEF Follows, e, t
<1>7. CASE ~plain /\ e \notin Begun \cup Whole
  <2>1. Dead(t)
    BY <1>1, <1>7, LiveStep, Zenon
  <2>2. e \notin {<<d>> : d \in Plain}
    <3> SUFFICES ASSUME NEW d \in Plain, e = <<d>> PROVE FALSE
      OBVIOUS
    <3>1. Len(s.escape) = 0
      <4>1. s.escape \in Seq(InputBytes)
        BY <1>1, BegunSizes DEF Texts
      <4>2. Len(e) = Len(s.escape) + 1 /\ Len(s.escape) \in Nat
        BY <1>1, <4>1, AppendProperties, LenProperties
      <4>3. Len(<<d>>) = 1
        OBVIOUS
      <4> QED BY <4>2, <4>3
    <3>2. s.escape = <<>>
      <4>1. s.escape \in Seq(InputBytes)
        BY <1>1, BegunSizes DEF Texts
      <4> QED BY <3>1, <4>1, EmptySeq
    <3>3. e = <<c>>
      BY <1>1, <3>2, BegunNext
    <3>4. c = d
      BY <3>3
    <3> QED BY <1>7, <3>2, <3>4 DEF Plain, Quads
  <2>3. e \notin CharBytes
    BY <1>7, <2>2 DEF CharBytes
  <2> HIDE DEF e, t
  <2>4. open = {}
    BY <1>7, <2>3
  <2> QED BY <2>1, <2>4 DEF Follows, e, t
<1> HIDE DEF e, t
<1> QED BY <1>4, <1>5, <1>6, <1>7 DEF e, t

LEMMA TextFollowed ==
  ASSUME NEW s, Live(s), s.escape = <<>>
  PROVE  \A v \in Seq(ValueBytes) : v \in Texts /\ Follows(Run(s, v), Open(v))
<1> DEFINE G == {v \in Texts : Follows(Run(s, v), Open(v))}
<1>1. s \in InputStates
  BY DEF Live
<1>2. <<>> \in G
  <2>1. Run(s, <<>>) = s /\ <<>> \in Texts
    BY <1>1, RunLaws, EmptySeq DEF Texts
  <2>2. Open(<<>>) = {<<>>}
    BY OpenLaws
  <2> QED BY <2>1, <2>2 DEF Follows
<1>3. ASSUME NEW v \in Seq(ValueBytes), NEW c \in ValueBytes, v \in G PROVE Append(v, c) \in G
  <2> DEFINE t == Run(s, v)
             longer == {Append(r, c) : r \in Open(v)}
             open == (longer \cap Begun) \cup (IF longer \cap CharBytes = {} THEN {} ELSE {<<>>})
  <2>1. v \in Texts /\ Follows(t, Open(v)) /\ c \in InputBytes
    BY <1>3 DEF ValueBytes, InputBytes
  <2>2. Append(v, c) \in Texts
    BY <2>1, AppendProperties DEF Texts
  <2>3. Open(Append(v, c)) = open
    BY <2>1, OpenLaws
  <2>4. Run(s, Append(v, c)) = InputByte(t, c)
    BY <1>1, <2>1, RunLaws
  <2> HIDE DEF t
  <2>5. CASE Live(t) /\ Open(v) = {t.escape}
    <3>1. longer = {Append(t.escape, c)}
      BY <2>5
    <3> DEFINE e == Append(t.escape, c)
    <3>2. Follows(InputByte(t, c), ({e} \cap Begun) \cup (IF {e} \cap CharBytes = {} THEN {} ELSE {<<>>}))
      BY <2>5, LiveAfter
    <3> HIDE DEF longer, e
    <3>3. Follows(InputByte(t, c), open)
      BY <3>1, <3>2 DEF e
    <3> HIDE DEF open
    <3> QED BY <2>2, <2>3, <2>4, <3>3
  <2>6. CASE Dead(t) /\ Open(v) = {}
    <3>1. open = {}
      BY <2>6
    <3>2. Dead(InputByte(t, c))
      BY <2>1, <2>6, DeadStep
    <3> HIDE DEF open
    <3> QED BY <2>2, <2>3, <2>4, <3>1, <3>2 DEF Follows
  <2> QED BY <2>1, <2>5, <2>6 DEF Follows
<1> HIDE DEF G
<1>4. Seq(ValueBytes) \subseteq G
  BY <1>2, <1>3, AppendInduction
<1> QED BY <1>4 DEF G

(* The quote and the brace that follow it complete an object exactly where *)
(* no character is left open.                                              *)
LEMMA TextEnded ==
  ASSUME NEW s, NEW open, Follows(s, open)
  PROVE  Complete(InputByte(InputByte(s, "quote"), "rbrace")) = (<<>> \in open)
<1> DEFINE t == InputByte(s, "quote")
           u == InputByte(t, "rbrace")
<1>1. /\ "quote" \in InputBytes /\ "rbrace" \in InputBytes /\ s \in InputStates
      /\ t \in InputStates /\ u \in InputStates
  <2>1. "quote" \in InputBytes /\ "rbrace" \in InputBytes
    BY EscapeByte
  <2>2. s \in InputStates
    BY DEF Follows, Live, Dead
  <2>3. t \in InputStates
    BY <2>1, <2>2, InputType
  <2> HIDE DEF t
  <2>4. u \in InputStates
    BY <2>1, <2>3, InputType
  <2> QED BY <2>1, <2>2, <2>3, <2>4
<1>2. Reject(s).failed /\ Reject(t).failed
  BY <1>1, InputChanged, Zenon
<1>3. ~Complete(u) \/ (t.state \in {"Close", "Done"} /\ ~t.failed)
  <2> HIDE DEF t
  <2>1. CASE t.failed
    <3>1. u = t
      BY <2>1, ByteCases
    <3> QED BY <2>1, <3>1 DEF Complete
  <2>2. CASE ~t.failed /\ t.state = "Value"
    <3>1. u = ValueByte(t, "rbrace")
      BY <2>2, ByteCases
    <3>2. "rbrace" # "quote"
      OBVIOUS
    <3> DEFINE e == Append(t.escape, "rbrace")
    <3>3. \/ u = Reject(t) \/ \E esc, out : u = [t EXCEPT !.escape = esc, !.output = out]
      <4>1. \/ u = Reject(t)
            \/ u = [t EXCEPT !.escape = <<>>, !.output = Append(@, "rbrace")]
            \/ u = [t EXCEPT !.escape = <<>>, !.output = Append(@, e)]
            \/ u = [t EXCEPT !.escape = e]
            \/ u = [t EXCEPT !.output = Append(@, "rbrace")]
        BY <3>1, <3>2 DEF ValueByte, Need
      <4>2. /\ [t EXCEPT !.escape = e] = [t EXCEPT !.escape = e, !.output = t.output]
            /\ [t EXCEPT !.output = Append(@, "rbrace")] =
                 [t EXCEPT !.escape = t.escape, !.output = Append(@, "rbrace")]
        BY <1>1 DEF InputStates
      <4> HIDE DEF u, e
      <4> QED BY <4>1, <4>2, Zenon
    <3> HIDE DEF u
    <3>4. u.failed \/ u.state = "Value"
      BY <1>1, <1>2, <2>2, <3>3, Zenon DEF InputStates
    <3> QED BY <3>4 DEF Complete
  <2>3. CASE ~t.failed /\ t.state \in {"Open", "Key", "Colon", "Quote"}
    <3>1. /\ t.state = "Open" => u = Reject(t)
          /\ t.state = "Colon" => u = Reject(t)
          /\ t.state = "Quote" => u = Reject(t)
      BY <2>3, ByteCases DEF Need
    <3>2. t.state = "Key" => u.failed \/ u.state # "Done"
      <4> SUFFICES ASSUME t.state = "Key" PROVE u.failed \/ u.state # "Done"
        OBVIOUS
      <4>1. u = KeyByte(t, "rbrace")
        BY <2>3, ByteCases
      <4>2. u = [t EXCEPT !.key = Append(t.key, "rbrace")]
        BY <4>1 DEF KeyByte
      <4>3. u.state = t.state
        BY <1>1, <4>2 DEF InputStates
      <4> HIDE DEF u
      <4> QED BY <4>3
    <3> HIDE DEF u
    <3> QED BY <1>2, <2>3, <3>1, <3>2 DEF Complete
  <2>4. t.state \in {"Open", "Key", "Colon", "Quote", "Value", "Close", "Done"}
    BY <1>1 DEF InputStates
  <2> HIDE DEF u
  <2> QED BY <2>1, <2>2, <2>3, <2>4
<1>4. ASSUME Live(s), s.escape = <<>> PROVE Complete(u)
  <2>1. t = Enters(s, "Close")
    <3>1. t = ValueByte(s, "quote")
      BY <1>4, ByteCases DEF Live
    <3>2. "quote" # "\\"
      OBVIOUS
    <3> HIDE DEF t
    <3> QED BY <1>4, <3>1, <3>2 DEF ValueByte
  <2>2. t.state = "Close" /\ ~t.failed
    <3>1. Enters(s, "Close").state = "Close" /\ Enters(s, "Close").failed = s.failed
      BY <1>1, InputChanged, Zenon
    <3> HIDE DEF t
    <3> QED BY <1>4, <2>1, <3>1 DEF Live
  <2> HIDE DEF t
  <2>3. u = Enters(t, "Done")
    <3>1. u = Need("rbrace" = "rbrace", t, Enters(t, "Done"))
      <4>1. "rbrace" # "space"
        OBVIOUS
      <4> QED BY <2>2, <4>1, ByteCases
    <3> HIDE DEF u
    <3> QED BY <3>1 DEF Need
  <2>4. Enters(t, "Done").state = "Done" /\ Enters(t, "Done").failed = t.failed
    BY <1>1, InputChanged, Zenon
  <2> QED BY <2>2, <2>3, <2>4 DEF Complete
<1>5. ASSUME Live(s), s.escape # <<>> PROVE ~Complete(u)
  <2> DEFINE e == Append(s.escape, "quote")
  <2>1. t = ValueByte(s, "quote")
    BY <1>5, ByteCases DEF Live
  <2>2. \/ t = Reject(s) \/ \E esc, out : t = [s EXCEPT !.escape = esc, !.output = out]
    <3>1. \/ t = Reject(s)
          \/ t = [s EXCEPT !.escape = <<>>, !.output = Append(@, "quote")]
          \/ t = [s EXCEPT !.escape = <<>>, !.output = Append(@, e)]
          \/ t = [s EXCEPT !.escape = e]
      BY <1>5, <2>1 DEF ValueByte, Need
    <3>2. [s EXCEPT !.escape = e] = [s EXCEPT !.escape = e, !.output = s.output]
      BY <1>1 DEF InputStates
    <3> HIDE DEF t, e
    <3> QED BY <3>1, <3>2, Zenon
  <2> HIDE DEF t, u
  <2>3. t.failed \/ t.state = "Value"
    BY <1>1, <1>2, <1>5, <2>2, Zenon DEF Live, InputStates
  <2> QED BY <1>3, <2>3
<1>6. ASSUME Dead(s) PROVE ~Complete(u)
  <2>1. CASE s.failed
    <3>1. t = s
      BY <2>1, ByteCases
    <3> HIDE DEF t, u
    <3> QED BY <1>3, <2>1, <3>1
  <2>2. CASE ~s.failed /\ s.state \in {"Close", "Done"}
    <3>1. t = Reject(s)
      BY <2>2, ByteCases DEF Need
    <3> HIDE DEF t, u
    <3> QED BY <1>2, <1>3, <3>1
  <2>3. CASE ~s.failed /\ s.state = "Value" /\ s.escape \in Stuck
    <3> DEFINE e == Append(s.escape, "quote")
    <3>1. s.escape # <<>>
      <4>1. Len(s.escape) >= 2
        BY <2>3 DEF Stuck
      <4>2. Len(<<>>) = 0
        OBVIOUS
      <4> QED BY <4>1, <4>2
    <3>2. e \in Stuck
      BY <1>1, <2>3, StuckStays
    <3>3. t = ValueByte(s, "quote")
      BY <2>3, ByteCases
    <3>4. e[2] = "u" /\ e \notin {Unicode, Pair} /\ e \in Texts
      BY <3>2 DEF Stuck
    <3>5. t = Reject(s) \/ t = [s EXCEPT !.escape = e]
      BY <3>1, <3>3, <3>4 DEF ValueByte, Need
    <3> HIDE DEF t, u, e
    <3>6. t.failed \/ t.state = "Value"
      BY <1>1, <1>2, <2>3, <3>5 DEF InputStates
    <3> QED BY <1>3, <3>6
  <2> QED BY <1>6, <2>1, <2>2, <2>3 DEF Dead
<1> HIDE DEF t, u
<1>7. Complete(u) \in BOOLEAN
  BY <1>1 DEF Complete, InputStates
<1> QED BY <1>4, <1>5, <1>6, <1>7 DEF Follows, t, u

-----------------------------------------------------------------------------
(* The tokens of an object *)

InputAt(state, key, output) ==
  [state |-> state, key |-> key, escape |-> <<>>, failed |-> FALSE, output |-> output]
InputKey == <<"quote", "input", "quote">>
States == {"Open", "Key", "Colon", "Quote", "Value", "Close", "Done"}

LEMMA SameState ==
  ASSUME NEW s \in InputStates, NEW t \in InputStates, s.state = t.state, s.key = t.key,
         s.escape = t.escape, s.failed = t.failed, s.output = t.output
  PROVE  s = t
BY DEF InputStates

LEMMA AtState ==
  ASSUME NEW state \in States, NEW key \in Texts, NEW output \in Seq(Outputs)
  PROVE  LET s == InputAt(state, key, output)
         IN /\ s \in InputStates /\ s.state = state /\ s.key = key /\ s.escape = <<>>
            /\ s.failed = FALSE /\ s.output = output
<1>1. <<>> \in Texts
  BY EmptySeq DEF Texts
<1> DEFINE s == InputAt(state, key, output)
<1>2. s \in InputStates
  BY <1>1 DEF InputAt, InputStates, States
<1>3. s.state = state /\ s.key = key /\ s.escape = <<>> /\ s.failed = FALSE /\ s.output = output
  BY DEF InputAt
<1> HIDE DEF s
<1> QED BY <1>2, <1>3 DEF s

LEMMA AtEnters ==
  ASSUME NEW state \in States, NEW key \in Texts, NEW output \in Seq(Outputs), NEW next \in States
  PROVE  Enters(InputAt(state, key, output), next) = InputAt(next, key, output)
<1> DEFINE s == InputAt(state, key, output)
           t == Enters(s, next)
           u == InputAt(next, key, output)
<1>1. /\ s \in InputStates /\ s.state = state /\ s.key = key /\ s.escape = <<>>
      /\ s.failed = FALSE /\ s.output = output
  BY AtState
<1>2. /\ u \in InputStates /\ u.state = next /\ u.key = key /\ u.escape = <<>>
      /\ u.failed = FALSE /\ u.output = output
  BY AtState
<1> HIDE DEF s, u
<1>3. t \in InputStates /\ t.state = next /\ t.key = s.key /\ t.escape = s.escape
      /\ t.failed = s.failed /\ t.output = s.output
  BY <1>1 DEF InputStates, Enters, States
<1> HIDE DEF t
<1>4. t = u
  BY <1>1, <1>2, <1>3, SameState
<1> QED BY <1>4 DEF t, u, s

LEMMA AtKey ==
  ASSUME NEW state \in States, NEW key \in Texts, NEW output \in Seq(Outputs), NEW longer \in Texts
  PROVE  [InputAt(state, key, output) EXCEPT !.key = longer] = InputAt(state, longer, output)
<1> DEFINE s == InputAt(state, key, output)
           t == [s EXCEPT !.key = longer]
           u == InputAt(state, longer, output)
<1>1. /\ s \in InputStates /\ s.state = state /\ s.key = key /\ s.escape = <<>>
      /\ s.failed = FALSE /\ s.output = output
  BY AtState
<1>2. /\ u \in InputStates /\ u.state = state /\ u.key = longer /\ u.escape = <<>>
      /\ u.failed = FALSE /\ u.output = output
  BY AtState
<1> HIDE DEF s, u
<1>3. t \in InputStates /\ t.state = s.state /\ t.key = longer /\ t.escape = s.escape
      /\ t.failed = s.failed /\ t.output = s.output
  BY <1>1 DEF InputStates
<1> HIDE DEF t
<1>4. t = u
  BY <1>1, <1>2, <1>3, SameState
<1> QED BY <1>4 DEF t, u, s

LEMMA AtOutput ==
  ASSUME NEW state \in States, NEW key \in Texts, NEW output \in Seq(Outputs), NEW longer \in Seq(Outputs)
  PROVE  /\ [InputAt(state, key, output) EXCEPT !.output = longer] = InputAt(state, key, longer)
         /\ [InputAt(state, key, output) EXCEPT !.escape = <<>>, !.output = longer] =
               InputAt(state, key, longer)
<1> DEFINE s == InputAt(state, key, output)
           t == [s EXCEPT !.output = longer]
           v == [s EXCEPT !.escape = <<>>, !.output = longer]
           u == InputAt(state, key, longer)
<1>1. /\ s \in InputStates /\ s.state = state /\ s.key = key /\ s.escape = <<>>
      /\ s.failed = FALSE /\ s.output = output
  BY AtState
<1>2. /\ u \in InputStates /\ u.state = state /\ u.key = key /\ u.escape = <<>>
      /\ u.failed = FALSE /\ u.output = longer
  BY AtState
<1> HIDE DEF s, u
<1>3. t \in InputStates /\ t.state = s.state /\ t.key = s.key /\ t.escape = s.escape
      /\ t.failed = s.failed /\ t.output = longer
  BY <1>1 DEF InputStates
<1>4. v \in InputStates /\ v.state = s.state /\ v.key = s.key /\ v.escape = <<>>
      /\ v.failed = s.failed /\ v.output = longer
  <2>1. <<>> \in Texts
    BY EmptySeq DEF Texts
  <2> QED BY <1>1, <2>1 DEF InputStates
<1> HIDE DEF t, v
<1>5. t = u
  BY <1>1, <1>2, <1>3, SameState
<1>6. v = u
  BY <1>1, <1>2, <1>4, SameState
<1> QED BY <1>5, <1>6 DEF t, u, v, s

LEMMA AtKeyState ==
  ASSUME NEW key \in Texts, NEW output \in Seq(Outputs), NEW longer \in Texts
  PROVE  /\ InputAt("Key", key, output) \in InputStates /\ ~InputAt("Key", key, output).failed
         /\ InputAt("Key", key, output).state = "Key" /\ InputAt("Key", key, output).key = key
         /\ [InputAt("Key", key, output) EXCEPT !.key = longer] = InputAt("Key", longer, output)
<1> DEFINE state == "Key"
           s == InputAt(state, key, output)
<1>1. state \in States
  BY DEF States
<1> HIDE DEF state
<1>2. /\ s \in InputStates /\ s.state = state /\ s.key = key /\ s.escape = <<>>
      /\ s.failed = FALSE /\ s.output = output
  BY <1>1, AtState
<1>3. [s EXCEPT !.key = longer] = InputAt(state, longer, output)
  BY <1>1, AtKey
<1> HIDE DEF s
<1>4. s \in InputStates /\ ~s.failed /\ s.state = state /\ s.key = key
  BY <1>2
<1> QED BY <1>3, <1>4 DEF s, state

LEMMA KeyRead ==
  ASSUME NEW output \in Seq(Outputs)
  PROVE  /\ InputKey \in Texts
         /\ Run(InputAt("Key", <<>>, output), InputKey) = InputAt("Colon", InputKey, output)
<1> DEFINE a == <<"quote">>
           b == <<"quote", "input">>
           s == InputAt("Key", <<>>, output)
           sa == InputAt("Key", a, output)
           sb == InputAt("Key", b, output)
           sc == InputAt("Key", InputKey, output)
<1>1. "quote" \in InputBytes /\ "input" \in InputBytes /\ "Key" \in States /\ "Colon" \in States
  BY DEF InputBytes, States
<1>2. <<>> \in Texts /\ a \in Texts /\ b \in Texts /\ InputKey \in Texts
  <2>1. a \in Seq(InputBytes) /\ b \in Seq(InputBytes) /\ InputKey \in Seq(InputBytes)
    BY <1>1 DEF InputKey
  <2>2. <<>> \in Texts
    BY EmptySeq DEF Texts
  <2> HIDE DEF a, b
  <2> QED BY <2>1, <2>2 DEF Texts
<1>3. a = Append(<<>>, "quote") /\ b = Append(a, "input") /\ InputKey = Append(b, "quote")
  <2>1. a = Append(<<>>, "quote")
    OBVIOUS
  <2>2. b = Append(a, "input")
    BY <1>1, Tuple1
  <2>3. InputKey = Append(b, "quote")
    BY <1>1, Tuple2 DEF InputKey
  <2> QED BY <2>1, <2>2, <2>3
<1>4. Len(a) = 1 /\ Len(b) = 2 /\ b[2] # "\\" /\ Len(InputKey) = 3 /\ InputKey[2] = "input"
  BY DEF InputKey
<1>5. /\ s \in InputStates /\ ~s.failed /\ s.state = "Key" /\ s.key = <<>>
      /\ [s EXCEPT !.key = a] = sa
  <2> HIDE DEF a
  <2> DEFINE k == <<>>
  <2>1. k \in Texts
    BY <1>2
  <2> HIDE DEF k
  <2> QED BY <1>2, <2>1, AtKeyState DEF k
<1>6. /\ sa \in InputStates /\ ~sa.failed /\ sa.state = "Key" /\ sa.key = a
      /\ [sa EXCEPT !.key = b] = sb
  <2> HIDE DEF a, b
  <2> DEFINE k == a
  <2>1. k \in Texts
    BY <1>2
  <2> HIDE DEF k
  <2> QED BY <1>2, <2>1, AtKeyState DEF k
<1>7. /\ sb \in InputStates /\ ~sb.failed /\ sb.state = "Key" /\ sb.key = b
      /\ [sb EXCEPT !.key = InputKey] = sc
  <2> HIDE DEF b
  <2> DEFINE k == b
  <2>1. k \in Texts
    BY <1>2
  <2> HIDE DEF k
  <2> QED BY <1>2, <2>1, AtKeyState DEF k
<1>8. Enters(sc, "Colon") = InputAt("Colon", InputKey, output)
  BY <1>1, <1>2, AtEnters
<1> HIDE DEF s, sa, sb, sc, a, b
<1>9. InputByte(s, "quote") = sa
  <2>1. InputByte(s, "quote") = KeyByte(s, "quote")
    BY <1>5, ByteCases
  <2>2. KeyByte(s, "quote") = [s EXCEPT !.key = a]
    BY <1>3, <1>4, <1>5 DEF KeyByte
  <2> QED BY <1>5, <2>1, <2>2
<1>10. InputByte(sa, "input") = sb
  <2>1. InputByte(sa, "input") = KeyByte(sa, "input")
    BY <1>6, ByteCases
  <2>2. KeyByte(sa, "input") = [sa EXCEPT !.key = b]
    BY <1>3, <1>6 DEF KeyByte
  <2> QED BY <1>6, <2>1, <2>2
<1>11. InputByte(sb, "quote") = InputAt("Colon", InputKey, output)
  <2>1. InputByte(sb, "quote") = KeyByte(sb, "quote")
    BY <1>7, ByteCases
  <2>2. Len(InputKey) > 1 /\ InputKey[Len(InputKey) - 1] # "\\"
    BY <1>4
  <2>3. InputKey = <<"quote", "input", "quote">>
    BY DEF InputKey
  <2>4. KeyByte(sb, "quote") = Enters([sb EXCEPT !.key = InputKey], "Colon")
    <3> DEFINE key == Append(sb.key, "quote")
               t == [sb EXCEPT !.key = key]
    <3>1. key = InputKey
      BY <1>3, <1>7
    <3>2. KeyByte(sb, "quote") = Need(key = InputKey, sb, Enters(t, "Colon"))
      <4>1. Len(key) > 1 /\ key[Len(key) - 1] # "\\"
        BY <2>2, <3>1
      <4>2. "quote" # "space"
        OBVIOUS
      <4> HIDE DEF key
      <4> QED BY <2>3, <4>1, <4>2 DEF KeyByte, key
    <3> HIDE DEF key
    <3> QED BY <3>1, <3>2 DEF Need
  <2> QED BY <1>7, <1>8, <2>1, <2>4
<1>12. Run(s, a) = sa
  BY <1>1, <1>2, <1>3, <1>5, <1>9, RunLaws DEF a
<1>13. Run(s, b) = sb
  <2>1. Run(s, b) = InputByte(Run(s, a), "input")
    BY <1>1, <1>2, <1>3, <1>5, RunLaws
  <2> QED BY <1>10, <1>12, <2>1
<1>14. Run(s, InputKey) = InputAt("Colon", InputKey, output)
  <2>1. Run(s, InputKey) = InputByte(Run(s, b), "quote")
    BY <1>1, <1>2, <1>3, <1>5, RunLaws
  <2> QED BY <1>11, <1>13, <2>1
<1> QED BY <1>2, <1>14 DEF s

LEMMA TokenBytes ==
  ASSUME NEW key \in Texts, NEW output \in Seq(Outputs)
  PROVE  /\ InputByte(InputAt("Open", key, output), "lbrace") = InputAt("Key", key, output)
         /\ InputByte(InputAt("Colon", key, output), ":") = InputAt("Quote", key, output)
         /\ InputByte(InputAt("Quote", key, output), "quote") = InputAt("Value", key, output)
         /\ InputByte(InputAt("Value", key, output), "quote") = InputAt("Close", key, output)
         /\ InputByte(InputAt("Close", key, output), "rbrace") = InputAt("Done", key, output)
         /\ \A c \in {"quote", "rbrace"} : InputByte(InputAt("Done", key, output), c).failed
<1> DEFINE at(state) == InputAt(state, key, output)
<1>1. \A state \in States :
        at(state).state = state /\ at(state).escape = <<>> /\ ~at(state).failed /\ at(state) \in InputStates
  <2> SUFFICES ASSUME NEW state \in States
               PROVE  /\ at(state).state = state /\ at(state).escape = <<>> /\ ~at(state).failed
                      /\ at(state) \in InputStates
    OBVIOUS
  <2>1. /\ at(state) \in InputStates /\ at(state).state = state /\ at(state).key = key /\ at(state).escape = <<>>
        /\ at(state).failed = FALSE /\ at(state).output = output
    BY AtState
  <2> HIDE DEF at
  <2> QED BY <2>1
<1>2. \A state \in States, next \in States : Enters(at(state), next) = at(next)
  BY AtEnters
<1> HIDE DEF at
<1>3. /\ "Open" \in States /\ "Key" \in States /\ "Colon" \in States /\ "Quote" \in States /\ "Value" \in States
      /\ "Close" \in States /\ "Done" \in States
  BY DEF States
<1>4. InputByte(at("Open"), "lbrace") = at("Key")
  <2>1. at("Open").state = "Open" /\ ~at("Open").failed /\ "lbrace" # "space"
    BY <1>1, <1>3
  <2>2. InputByte(at("Open"), "lbrace") = Enters(at("Open"), "Key")
    BY <2>1, ByteCases DEF Need
  <2> QED BY <1>2, <1>3, <2>2
<1>5. InputByte(at("Colon"), ":") = at("Quote")
  <2>1. at("Colon").state = "Colon" /\ ~at("Colon").failed /\ ":" # "space"
    BY <1>1, <1>3
  <2>2. InputByte(at("Colon"), ":") = Enters(at("Colon"), "Quote")
    BY <2>1, ByteCases DEF Need
  <2> QED BY <1>2, <1>3, <2>2
<1>6. InputByte(at("Quote"), "quote") = at("Value")
  <2>1. at("Quote").state = "Quote" /\ ~at("Quote").failed /\ "quote" # "space"
    BY <1>1, <1>3
  <2>2. InputByte(at("Quote"), "quote") = Enters(at("Quote"), "Value")
    BY <2>1, ByteCases DEF Need
  <2> QED BY <1>2, <1>3, <2>2
<1>7. InputByte(at("Value"), "quote") = at("Close")
  <2>1. at("Value").state = "Value" /\ ~at("Value").failed /\ at("Value").escape = <<>> /\ "quote" # "\\"
    BY <1>1, <1>3
  <2>2. InputByte(at("Value"), "quote") = ValueByte(at("Value"), "quote")
    BY <2>1, ByteCases
  <2>3. ValueByte(at("Value"), "quote") = Enters(at("Value"), "Close")
    BY <2>1 DEF ValueByte
  <2> QED BY <1>2, <1>3, <2>2, <2>3
<1>8. InputByte(at("Close"), "rbrace") = at("Done")
  <2>1. at("Close").state = "Close" /\ ~at("Close").failed /\ "rbrace" # "space"
    BY <1>1, <1>3
  <2>2. InputByte(at("Close"), "rbrace") = Enters(at("Close"), "Done")
    BY <2>1, ByteCases DEF Need
  <2> QED BY <1>2, <1>3, <2>2
<1>9. ASSUME NEW c \in {"quote", "rbrace"} PROVE InputByte(at("Done"), c).failed
  <2>1. at("Done").state = "Done" /\ ~at("Done").failed /\ c # "space" /\ at("Done") \in InputStates
    BY <1>1, <1>3
  <2>2. InputByte(at("Done"), c) = Reject(at("Done"))
    BY <2>1, ByteCases
  <2>3. Reject(at("Done")).failed
    BY <2>1, InputChanged, Zenon
  <2> QED BY <2>2, <2>3
<1> QED BY <1>4, <1>5, <1>6, <1>7, <1>8, <1>9 DEF at


LEMMA RunByte ==
  ASSUME NEW s \in InputStates, NEW q \in Texts, NEW c \in InputBytes
  PROVE  Run(s, Append(q, c)) = InputByte(Run(s, q), c)
BY RunLaws
LEMMA RunOne ==
  ASSUME NEW s \in InputStates, NEW c \in InputBytes
  PROVE  <<c>> \in Texts /\ Run(s, <<c>>) = InputByte(s, c)
BY RunLaws
LEMMA RunConcat ==
  ASSUME NEW s \in InputStates, NEW p \in Texts, NEW q \in Texts
  PROVE  p \o q \in Texts /\ Run(s, p \o q) = Run(Run(s, p), q)
BY RunLaws

LEMMA StartIs == InputStart = InputAt("Open", <<>>, <<>>) /\ InputStart \in InputStates
BY InputTypes, EmptySeq DEF InputStart, InputAt, Texts

LEMMA Decoded ==
  ASSUME NEW b \in Texts PROVE InputDecode(b) = Run(InputStart, b)
BY InputFolded DEF Run

LEMMA ValueOpened ==
  LET prefix == <<"lbrace", "quote", "input", "quote", ":", "quote">>
  IN prefix \in Texts /\ Run(InputStart, prefix) = InputAt("Value", InputKey, <<>>)
<1> DEFINE lb == "lbrace"
           qu == "quote"
           ip == "input"
           co == ":"
           q == <<lb, qu, ip, qu>>
           p == <<lb, qu, ip, qu, co>>
           prefix == <<lb, qu, ip, qu, co, qu>>
           none == <<>>
<1>1. lb \in InputBytes /\ qu \in InputBytes /\ ip \in InputBytes /\ co \in InputBytes
  BY DEF InputBytes
<1>2. none \in Seq(Outputs) /\ none \in Texts
  BY EmptySeq DEF Texts
<1>3. InputKey = <<qu, ip, qu>>
  BY DEF InputKey
<1>4. InputStart = InputAt("Open", none, none) /\ InputStart \in InputStates
  BY StartIs
<1>5. InputByte(InputStart, lb) = InputAt("Key", none, none)
  <2> HIDE DEF none
  <2> QED BY <1>2, <1>4, TokenBytes
<1>6. Run(InputAt("Key", none, none), InputKey) = InputAt("Colon", InputKey, none) /\ InputKey \in Texts
  <2>1. none \in Seq(Outputs)
    BY <1>2
  <2>2. \A out \in Seq(Outputs) : Run(InputAt("Key", <<>>, out), InputKey) = InputAt("Colon", InputKey, out)
    BY KeyRead
  <2>3. InputKey \in Texts
    BY <1>2, KeyRead
  <2> QED BY <2>1, <2>2, <2>3
<1>7. /\ InputByte(InputAt("Colon", InputKey, none), co) = InputAt("Quote", InputKey, none)
      /\ InputByte(InputAt("Quote", InputKey, none), qu) = InputAt("Value", InputKey, none)
  <2> HIDE DEF none
  <2> QED BY <1>2, <1>6, TokenBytes
<1> HIDE DEF lb, qu, ip, co, none
<1>8. /\ Append(<<lb>>, qu) = <<lb, qu>> /\ Append(<<lb, qu>>, ip) = <<lb, qu, ip>>
      /\ Append(<<lb, qu, ip>>, qu) = q /\ Append(q, co) = p /\ Append(p, qu) = prefix
      /\ <<qu>> = Append(<<>>, qu) /\ <<qu, ip>> = Append(<<qu>>, ip) /\ <<qu, ip, qu>> = Append(<<qu, ip>>, qu)
  <2>1. Append(<<lb>>, qu) = <<lb, qu>> /\ <<qu, ip>> = Append(<<qu>>, ip)
    BY <1>1, Tuple1
  <2>2. Append(<<lb, qu>>, ip) = <<lb, qu, ip>> /\ <<qu, ip, qu>> = Append(<<qu, ip>>, qu)
    BY <1>1, Tuple2
  <2>3. Append(<<lb, qu, ip>>, qu) = q
    BY <1>1, Tuple3
  <2>4. Append(q, co) = p
    BY <1>1, Tuple4
  <2>5. Append(p, qu) = prefix
    BY <1>1, Tuple5
  <2>6. <<qu>> = Append(<<>>, qu)
    OBVIOUS
  <2> HIDE DEF q, p, prefix
  <2> QED BY <2>1, <2>2, <2>3, <2>4, <2>5, <2>6
<1>9. /\ <<lb>> \in Texts /\ <<lb, qu>> \in Texts /\ <<lb, qu, ip>> \in Texts /\ q \in Texts
      /\ p \in Texts /\ prefix \in Texts /\ <<qu>> \in Texts /\ <<qu, ip>> \in Texts
  BY <1>1 DEF Texts
<1>10. <<lb>> \o InputKey = q
  <2> DEFINE a == <<lb>>
             b == <<qu>>
             c == <<qu, ip>>
             d == <<qu, ip, qu>>
  <2>1. /\ b = Append(<<>>, qu) /\ c = Append(b, ip) /\ d = Append(c, qu)
        /\ a \in Seq(InputBytes) /\ b \in Seq(InputBytes) /\ c \in Seq(InputBytes)
    BY <1>8, <1>9 DEF Texts
  <2>2. Append(Append(Append(a, qu), ip), qu) = q
    BY <1>8
  <2> HIDE DEF a, b, c, d, q
  <2>3. a \o <<>> = a /\ <<>> \in Seq(InputBytes)
    BY <2>1, ConcatEmptySeq, EmptySeq
  <2>4. a \o b = Append(a, qu)
    BY <1>1, <2>1, <2>3, ConcatAppend
  <2>5. a \o c = Append(a \o b, ip)
    BY <1>1, <2>1, ConcatAppend
  <2>6. a \o d = Append(a \o c, qu)
    BY <1>1, <2>1, ConcatAppend
  <2> QED BY <1>3, <2>2, <2>4, <2>5, <2>6 DEF a, d
<1> HIDE DEF q, p, prefix
<1>11. Run(InputStart, q) = InputAt("Colon", InputKey, none)
  <2>1. Run(InputStart, <<lb>>) = InputByte(InputStart, lb)
    BY <1>1, <1>4, RunLaws
  <2>2. Run(InputStart, <<lb>> \o InputKey) = Run(Run(InputStart, <<lb>>), InputKey)
    BY <1>4, <1>6, <1>9, RunLaws
  <2> QED BY <1>5, <1>6, <1>10, <2>1, <2>2
<1>12. Run(InputStart, p) = InputByte(Run(InputStart, q), co)
  BY <1>1, <1>4, <1>8, <1>9, RunByte
<1>13. Run(InputStart, prefix) = InputByte(Run(InputStart, p), qu)
  BY <1>1, <1>4, <1>8, <1>9, RunByte
<1>14. prefix \in Texts /\ Run(InputStart, prefix) = InputAt("Value", InputKey, none)
  BY <1>7, <1>9, <1>11, <1>12, <1>13
<1> QED BY <1>14 DEF prefix, lb, qu, ip, co, none

(* Whatever stands between the quotes of the tool's input, its object is   *)
(* taken for a complete one exactly where that is a text of whole          *)
(* characters.                                                             *)
THEOREM TextsTaken ==
  \A v \in Seq(ValueBytes) :
    LET s == InputDecode(<<"lbrace", "quote", "input", "quote", ":", "quote">> \o v
                           \o <<"quote", "rbrace">>)
    IN Complete(s) <=> IsText(v)
<1> DEFINE prefix == <<"lbrace", "quote", "input", "quote", ":", "quote">>
           qu == "quote"
           rb == "rbrace"
           suffix == <<qu, rb>>
<1>1. prefix \in Texts /\ Run(InputStart, prefix) = InputAt("Value", InputKey, <<>>)
  BY ValueOpened
<1>2. Live(Run(InputStart, prefix)) /\ Run(InputStart, prefix).escape = <<>>
  <2> DEFINE state == "Value"
             none == <<>>
             s == InputAt(state, InputKey, none)
  <2>1. state \in States /\ InputKey \in Texts /\ none \in Seq(Outputs)
    <3>1. none \in Seq(Outputs)
      BY EmptySeq
    <3>2. InputKey \in Texts
      BY <3>1, KeyRead
    <3> QED BY <3>1, <3>2 DEF States
  <2>2. Run(InputStart, prefix) = s
    BY <1>1
  <2> HIDE DEF state, none
  <2>3. /\ s \in InputStates /\ s.state = state /\ s.key = InputKey /\ s.escape = <<>>
        /\ s.failed = FALSE /\ s.output = none
    BY <2>1, AtState
  <2>4. <<>> \in Begun
    BY DEF Begun
  <2> HIDE DEF s
  <2> QED BY <2>2, <2>3, <2>4 DEF Live, state
<1> HIDE DEF prefix
<1>3. qu \in InputBytes /\ rb \in InputBytes /\ suffix \in Texts
  <2>1. qu \in InputBytes /\ rb \in InputBytes
    BY EscapeByte
  <2> QED BY <2>1 DEF Texts
<1>4. ASSUME NEW t \in InputStates PROVE Run(t, suffix) = InputByte(InputByte(t, qu), rb)
  <2> HIDE DEF qu, rb
  <2>1. Run(t, <<qu>>) = InputByte(t, qu) /\ <<qu>> \in Texts
    BY <1>3, <1>4, RunLaws
  <2>2. Append(<<qu>>, rb) = suffix
    BY <1>3, Tuple1
  <2>3. Run(t, Append(<<qu>>, rb)) = InputByte(Run(t, <<qu>>), rb)
    BY <1>3, <1>4, <2>1, RunLaws
  <2> QED BY <2>1, <2>2, <2>3
<1> HIDE DEF qu, rb, suffix
<1>5. ASSUME NEW v \in Seq(ValueBytes)
      PROVE  Complete(InputDecode(prefix \o v \o suffix)) <=> IsText(v)
  <2> DEFINE t == Run(InputStart, prefix)
             u == Run(t, v)
  <2>1. v \in Texts /\ Follows(u, Open(v))
    BY <1>2, TextFollowed
  <2>2. t \in InputStates /\ u \in InputStates /\ InputStart \in InputStates
    <3>1. t \in InputStates
      BY <1>2 DEF Live
    <3>2. u \in InputStates
      BY <2>1, <3>1, RunLaws
    <3> QED BY <3>1, <3>2, StartIs
  <2>3. prefix \o v \in Texts /\ Run(InputStart, prefix \o v) = u
    BY <1>1, <2>1, <2>2, RunLaws
  <2>4. prefix \o v \o suffix \in Texts /\ Run(InputStart, prefix \o v \o suffix) = Run(u, suffix)
    <3> DEFINE w == prefix \o v
    <3> HIDE DEF u
    <3>1. w \in Texts /\ Run(InputStart, w) = u
      BY <2>3
    <3> HIDE DEF w
    <3>2. w \o suffix \in Texts /\ Run(InputStart, w \o suffix) = Run(Run(InputStart, w), suffix)
      BY <1>3, <2>2, <3>1, RunLaws
    <3> QED BY <3>1, <3>2 DEF w
  <2> HIDE DEF u
  <2>5. Run(u, suffix) = InputByte(InputByte(u, qu), rb)
    BY <1>4, <2>2
  <2>6. InputDecode(prefix \o v \o suffix) = InputByte(InputByte(u, qu), rb)
    BY <2>4, <2>5, Decoded
  <2>7. Complete(InputByte(InputByte(u, qu), rb)) = (<<>> \in Open(v))
    BY <2>1, TextEnded DEF qu, rb
  <2>8. IsText(v) = (<<>> \in Open(v))
    BY <2>1, OpenLaws
  <2> QED BY <2>6, <2>7, <2>8
<1> QED BY <1>5 DEF prefix, suffix, qu, rb

-----------------------------------------------------------------------------
(* The characters of a text *)

EscapeAt(escape, output) ==
  [state |-> "Value", key |-> InputKey, escape |-> escape, failed |-> FALSE, output |-> output]

Changed(s, escape, output) == [s EXCEPT !.escape = escape, !.output = output]

LEMMA EscapeState ==
  ASSUME NEW b \in Texts, NEW out \in Seq(Outputs)
  PROVE  LET s == EscapeAt(b, out)
         IN /\ s \in InputStates /\ s.state = "Value" /\ s.key = InputKey /\ s.escape = b
            /\ s.failed = FALSE /\ s.output = out
<1> DEFINE s == EscapeAt(b, out)
<1>1. InputKey \in Texts
  BY KeyRead
<1>2. s \in InputStates
  BY <1>1 DEF EscapeAt, InputStates
<1>3. /\ s.state = "Value" /\ s.key = InputKey /\ s.escape = b
      /\ s.failed = FALSE /\ s.output = out
  BY DEF EscapeAt
<1> HIDE DEF s
<1> QED BY <1>2, <1>3 DEF s

LEMMA EscapeChanged ==
  ASSUME NEW b \in Texts, NEW out \in Seq(Outputs), NEW e \in Texts, NEW more \in Seq(Outputs)
  PROVE  Changed(EscapeAt(b, out), e, more) = EscapeAt(e, more)
<1> DEFINE s == EscapeAt(b, out)
           t == Changed(s, e, more)
           u == EscapeAt(e, more)
<1>1. /\ s \in InputStates /\ s.state = "Value" /\ s.key = InputKey /\ s.escape = b
      /\ s.failed = FALSE /\ s.output = out
  BY EscapeState
<1>2. /\ u \in InputStates /\ u.state = "Value" /\ u.key = InputKey /\ u.escape = e
      /\ u.failed = FALSE /\ u.output = more
  BY EscapeState
<1> HIDE DEF s, u
<1>3. t \in InputStates /\ t.state = s.state /\ t.key = s.key /\ t.escape = e
      /\ t.failed = s.failed /\ t.output = more
  BY <1>1 DEF InputStates, Changed
<1> HIDE DEF t
<1>4. t = u
  BY <1>1, <1>2, <1>3, SameState
<1> QED BY <1>4 DEF t, u, s

LEMMA EscapeSteps ==
  ASSUME NEW b \in Begun, NEW out \in Seq(Outputs), NEW c \in InputBytes
  PROVE  LET e == Append(b, c)
             t == InputByte(EscapeAt(b, out), c)
         IN /\ b = <<>> /\ c \notin {"quote", "\\"} =>
                 Append(out, c) \in Seq(Outputs) /\ t = EscapeAt(<<>>, Append(out, c))
            /\ e \in Begun => t = EscapeAt(e, out)
            /\ e \in {Unicode, Pair} =>
                 Append(out, e) \in Seq(Outputs) /\ t = EscapeAt(<<>>, Append(out, e))
            /\ e \in Whole \ {Unicode, Pair} =>
                 Append(out, c) \in Seq(Outputs) /\ t = EscapeAt(<<>>, Append(out, c))
<1> DEFINE e == Append(b, c)
           s == EscapeAt(b, out)
           t == InputByte(s, c)
           out1 == Append(out, c)
           out2 == Append(out, e)
<1>1. b \in Texts /\ <<>> \in Texts
  BY BegunSizes, EmptySeq DEF Texts
<1>2. /\ s \in InputStates /\ s.state = "Value" /\ s.key = InputKey /\ s.escape = b
      /\ s.failed = FALSE /\ s.output = out
  BY <1>1, EscapeState
<1>3. out1 \in Seq(Outputs) /\ (e \in {Unicode, Pair} => out2 \in Seq(Outputs))
  <2>1. c \in Outputs /\ (e \in {Unicode, Pair} => e \in Outputs)
    BY DEF Outputs
  <2> HIDE DEF e
  <2> QED BY <2>1, AppendProperties
<1>4. Live(s)
  <2> HIDE DEF s
  <2> QED BY <1>2 DEF Live
<1>5. /\ s.escape = <<>> /\ c \notin {"quote", "\\"} => t = [s EXCEPT !.output = Append(@, c)]
      /\ Append(s.escape, c) \in Begun => t = [s EXCEPT !.escape = Append(s.escape, c)]
      /\ Append(s.escape, c) \in {Unicode, Pair} =>
           t = [s EXCEPT !.escape = <<>>, !.output = Append(@, Append(s.escape, c))]
      /\ Append(s.escape, c) \in Whole \ {Unicode, Pair} =>
           t = [s EXCEPT !.escape = <<>>, !.output = Append(@, c)]
  <2> HIDE DEF s
  <2> QED BY <1>4, LiveStep, Zenon DEF t
<1>6. Append(s.escape, c) = e
  BY <1>2
<1>7. /\ [s EXCEPT !.escape = <<>>, !.output = out1] = EscapeAt(<<>>, out1)
      /\ e \in {Unicode, Pair} => [s EXCEPT !.escape = <<>>, !.output = out2] = EscapeAt(<<>>, out2)
      /\ e \in Begun => [s EXCEPT !.escape = e, !.output = out] = EscapeAt(e, out)
  <2>1. e \in Begun => e \in Texts
    BY BegunSizes
  <2> DEFINE none == <<>>
  <2>2. none \in Texts
    BY <1>1
  <2>3. ASSUME NEW x \in Texts, NEW y \in Seq(Outputs) PROVE Changed(s, x, y) = EscapeAt(x, y)
    BY <1>1, EscapeChanged
  <2> HIDE DEF e, s, out1, out2, none
  <2>4. /\ Changed(s, none, out1) = EscapeAt(none, out1)
        /\ e \in {Unicode, Pair} => Changed(s, none, out2) = EscapeAt(none, out2)
        /\ e \in Begun => Changed(s, e, out) = EscapeAt(e, out)
    BY <1>3, <2>1, <2>2, <2>3
  <2> QED BY <2>4 DEF none, Changed
<1> HIDE DEF s, t, e
<1>8. /\ [s EXCEPT !.output = Append(@, c)] = [s EXCEPT !.escape = b, !.output = out1]
      /\ [s EXCEPT !.escape = e] = [s EXCEPT !.escape = e, !.output = out]
      /\ [s EXCEPT !.escape = <<>>, !.output = Append(@, c)] = [s EXCEPT !.escape = <<>>, !.output = out1]
      /\ [s EXCEPT !.escape = <<>>, !.output = Append(@, e)] = [s EXCEPT !.escape = <<>>, !.output = out2]
  <2>1. [s EXCEPT !.output = Append(@, c)] = [s EXCEPT !.escape = b, !.output = out1]
    BY <1>2 DEF InputStates
  <2>2. [s EXCEPT !.escape = e] = [s EXCEPT !.escape = e, !.output = out]
    BY <1>2 DEF InputStates
  <2>3. [s EXCEPT !.escape = <<>>, !.output = Append(@, c)] = [s EXCEPT !.escape = <<>>, !.output = out1]
    BY <1>2 DEF InputStates
  <2>4. [s EXCEPT !.escape = <<>>, !.output = Append(@, e)] = [s EXCEPT !.escape = <<>>, !.output = out2]
    BY <1>2 DEF InputStates
  <2> HIDE DEF out1, out2
  <2> QED BY <2>1, <2>2, <2>3, <2>4
<1>9. b = <<>> /\ c \notin {"quote", "\\"} => t = EscapeAt(<<>>, out1)
  BY <1>2, <1>5, <1>7, <1>8, Zenon
<1>10. e \in Begun => t = EscapeAt(e, out)
  BY <1>5, <1>6, <1>7, <1>8, Zenon
<1>11. e \in {Unicode, Pair} => t = EscapeAt(<<>>, out2)
  BY <1>5, <1>6, <1>7, <1>8, Zenon
<1>12. e \in Whole \ {Unicode, Pair} => t = EscapeAt(<<>>, out1)
  BY <1>5, <1>6, <1>7, <1>8, Zenon
<1> QED BY <1>3, <1>9, <1>10, <1>11, <1>12, Zenon DEF s, t, e

LEMMA EscapesBegin ==
  ASSUME NEW out \in Seq(Outputs), NEW b \in Begun
  PROVE  b \in Texts /\ Run(EscapeAt(<<>>, out), b) = EscapeAt(b, out)
<1> DEFINE none == <<>>
           z == EscapeAt(none, out)
           Good(q) == q \in Texts /\ Run(z, q) = EscapeAt(q, out)
<1>1. none \in Begun /\ none \in Texts /\ z \in InputStates
  <2>1. none \in Begun /\ none \in Texts
    BY EmptySeq DEF Begun, Texts
  <2> HIDE DEF none
  <2>2. /\ z \in InputStates /\ z.state = "Value" /\ z.key = InputKey /\ z.escape = none
        /\ z.failed = FALSE /\ z.output = out
    BY <2>1, EscapeState
  <2> HIDE DEF z
  <2> QED BY <2>1, <2>2
<1>2. Good(none)
  BY <1>1, RunLaws
<1> HIDE DEF none
<1>3. ASSUME NEW q \in Begun, NEW c \in InputBytes, Good(q), Append(q, c) \in Begun
      PROVE  Good(Append(q, c))
  <2> DEFINE e == Append(q, c)
  <2>1. q \in Texts /\ Run(z, q) = EscapeAt(q, out) /\ e \in Texts
    BY <1>3, BegunSizes
  <2>2. InputByte(EscapeAt(q, out), c) = EscapeAt(e, out)
    BY <1>3, EscapeSteps
  <2>3. Run(z, e) = InputByte(Run(z, q), c)
    BY <1>1, <2>1, RunByte
  <2> HIDE DEF e, z
  <2> QED BY <2>1, <2>2, <2>3 DEF e
<1> HIDE DEF Good
<1> DEFINE a == <<"\\">>
           d == <<"\\", "u">>
           f == <<"\\", "u", "high">>
           g == <<"\\", "u", "high", "\\">>
           h == <<"\\", "u", "high", "\\", "u">>
<1>4. /\ a = Append(none, "\\") /\ d = Append(a, "u") /\ f = Append(d, "high")
      /\ g = Append(f, "\\") /\ h = Append(g, "u")
  BY EscapeByte, BegunNext DEF none
<1>5. a \in Begun /\ d \in Begun /\ f \in Begun /\ g \in Begun /\ h \in Begun
  BY DEF Begun
<1>6. \A q \in Begun : q = none \/ q = a \/ q = d \/ q = f \/ q = g \/ q = h
  BY DEF Begun, none
<1> HIDE DEF a, d, f, g, h
<1>7. Good(a)
  BY <1>1, <1>2, <1>3, <1>4, <1>5, EscapeByte
<1>8. Good(d)
  BY <1>3, <1>4, <1>5, <1>7, EscapeByte
<1>9. Good(f)
  BY <1>3, <1>4, <1>5, <1>8, EscapeByte
<1>10. Good(g)
  BY <1>3, <1>4, <1>5, <1>9, EscapeByte
<1>11. Good(h)
  BY <1>3, <1>4, <1>5, <1>10, EscapeByte
<1>12. Good(b)
  BY <1>2, <1>6, <1>7, <1>8, <1>9, <1>10, <1>11
<1> QED BY <1>12 DEF Good, none

(* A character is read as what it stands for.                              *)
LEMMA CharacterRead ==
  ASSUME NEW ch \in Characters, NEW out \in Seq(Outputs)
  PROVE  /\ ch.bytes \in Texts /\ ch.text \in Outputs
         /\ Run(EscapeAt(<<>>, out), ch.bytes) = EscapeAt(<<>>, Append(out, ch.text))
<1> DEFINE none == <<>>
           z == EscapeAt(none, out)
           Reads(bytes, text) == bytes \in Texts /\ text \in Outputs
                                 /\ Run(z, bytes) = EscapeAt(none, Append(out, text))
<1>1. none \in Texts /\ none \in Begun /\ z \in InputStates
  <2>1. none \in Begun /\ none \in Texts
    BY EmptySeq DEF Begun, Texts
  <2> HIDE DEF none
  <2>2. /\ z \in InputStates /\ z.state = "Value" /\ z.key = InputKey /\ z.escape = none
        /\ z.failed = FALSE /\ z.output = out
    BY <2>1, EscapeState
  <2> HIDE DEF z
  <2> QED BY <2>1, <2>2
<1>2. ASSUME NEW c \in Plain PROVE Reads(<<c>>, c)
  <2>1. c \in InputBytes /\ c \in Outputs /\ c \notin {"quote", "\\"}
    BY DEF Plain, InputBytes, Outputs, Quads
  <2>2. <<c>> \in Texts /\ Run(z, <<c>>) = InputByte(z, c)
    BY <1>1, <2>1, RunOne
  <2>3. InputByte(z, c) = EscapeAt(none, Append(out, c))
    BY <1>1, <2>1, EscapeSteps
  <2> HIDE DEF z, none
  <2> QED BY <2>1, <2>2, <2>3
<1>3. ASSUME NEW b \in Begun, NEW c \in InputBytes, Append(b, c) \in Whole
      PROVE  Reads(Append(b, c), IF Append(b, c) \in {Unicode, Pair} THEN Append(b, c) ELSE c)
  <2> DEFINE e == Append(b, c)
             text == IF e \in {Unicode, Pair} THEN e ELSE c
  <2>1. b \in Texts /\ Run(z, b) = EscapeAt(b, out)
    BY EscapesBegin
  <2>2. Run(z, e) = InputByte(EscapeAt(b, out), c)
    <3>1. Run(z, e) = InputByte(Run(z, b), c)
      BY <1>1, <2>1, RunByte
    <3> QED BY <2>1, <3>1
  <2>3. e \in Texts
    BY <2>1, AppendProperties DEF Texts
  <2>4. text \in Outputs
    BY DEF Outputs
  <2>5. e \in {Unicode, Pair} => InputByte(EscapeAt(b, out), c) = EscapeAt(<<>>, Append(out, e))
    BY <1>3, EscapeSteps
  <2>6. e \notin {Unicode, Pair} => InputByte(EscapeAt(b, out), c) = EscapeAt(<<>>, Append(out, c))
    BY <1>3, EscapeSteps
  <2> HIDE DEF z, e
  <2>7. InputByte(EscapeAt(b, out), c) = EscapeAt(none, Append(out, text))
    BY <2>5, <2>6
  <2> HIDE DEF text, none
  <2> QED BY <2>2, <2>3, <2>4, <2>7 DEF e, text
<1> HIDE DEF z, none
<1>4. ASSUME NEW c \in {"quote", "\\"} PROVE Reads(<<"\\", c>>, c)
  <2> DEFINE b == <<"\\">>
             e == <<"\\", c>>
  <2>1. c \in InputBytes /\ b \in Begun
    BY EscapeByte DEF Begun
  <2>2. e = Append(b, c)
    BY <2>1, BegunNext
  <2>3. e \in Whole
    BY DEF Whole
  <2>4. e \notin {Unicode, Pair}
    <3>1. e[2] = c /\ Unicode[2] = "u" /\ Pair[2] = "u" /\ c # "u"
      BY DEF Unicode, Pair
    <3> HIDE DEF e
    <3> QED BY <3>1, Zenon
  <2> HIDE DEF b, e, Reads
  <2>5. Reads(e, c)
    BY <1>3, <2>1, <2>2, <2>3, <2>4
  <2> QED BY <2>5 DEF e
<1>5. Reads(Unicode, Unicode)
  <2> DEFINE b == <<"\\", "u">>
             c == "bmp"
  <2>1. c \in InputBytes /\ b \in Begun /\ Unicode \in Whole /\ Unicode \in {Unicode, Pair}
    BY EscapeByte DEF Begun, Whole
  <2>2. Unicode = Append(b, c)
    BY <2>1, BegunNext DEF Unicode
  <2> HIDE DEF b, c, Reads
  <2> QED BY <1>3, <2>1, <2>2
<1>6. Reads(Pair, Pair)
  <2> DEFINE b == <<"\\", "u", "high", "\\", "u">>
             c == "low"
  <2>1. c \in InputBytes /\ b \in Begun /\ Pair \in Whole /\ Pair \in {Unicode, Pair}
    BY EscapeByte DEF Begun, Whole
  <2>2. Pair = Append(b, c)
    BY <2>1, BegunNext DEF Pair
  <2> HIDE DEF b, c, Reads
  <2> QED BY <1>3, <2>1, <2>2
<1> HIDE DEF Reads
<1>7. Reads(ch.bytes, ch.text)
  <2>1. CASE ch \in {[bytes |-> <<c>>, text |-> c] : c \in Plain}
    <3>1. PICK c \in Plain : ch = [bytes |-> <<c>>, text |-> c]
      BY <2>1
    <3>2. ch.bytes = <<c>> /\ ch.text = c
      BY <3>1
    <3> QED BY <1>2, <3>2
  <2>2. CASE ch \in {[bytes |-> <<"\\", c>>, text |-> c] : c \in {"quote", "\\"}}
    <3>1. PICK c \in {"quote", "\\"} : ch = [bytes |-> <<"\\", c>>, text |-> c]
      BY <2>2
    <3>2. ch.bytes = <<"\\", c>> /\ ch.text = c
      BY <3>1
    <3> QED BY <1>4, <3>2
  <2>3. CASE ch \in {[bytes |-> e, text |-> e] : e \in {Unicode, Pair}}
    <3>1. PICK e \in {Unicode, Pair} : ch = [bytes |-> e, text |-> e]
      BY <2>3
    <3>2. ch.bytes = e /\ ch.text = e
      BY <3>1
    <3> QED BY <1>5, <1>6, <3>1, <3>2
  <2> QED BY <2>1, <2>2, <2>3 DEF Characters, Plain
<1> QED BY <1>7 DEF Reads, z, none

-----------------------------------------------------------------------------
(* The text of an object *)

Concats == [q \in Texts \X Texts |-> q[1] \o q[2]]
LEMMA ConcatsType == Concats \in FoldSteps(Texts, Texts)
<1>1. \A p \in Texts, q \in Texts : p \o q \in Texts
  BY ConcatProperties DEF Texts
<1> QED BY <1>1 DEF Concats, FoldSteps
LEMMA FlatTypes ==
  ASSUME NEW seqs \in Seq(Texts) PROVE <<>> \in Texts /\ seqs \in Seq(Texts)
BY EmptySeq DEF Texts


LEMMA FlatFolded ==
  ASSUME NEW seqs \in Seq(Texts)
  PROVE  Flat(seqs) = Folded(Concats, <<>>, seqs)
<1> DEFINE seq == seqs
           Chosen(h) == h = [s \in SUBSET DOMAIN seq |->
                               IF s = {} THEN <<>> ELSE
                                 h[s \ {Max(s)}] \o seq[Max(s)]]
           C == CHOOSE h : Chosen(h)
<1>1. <<>> \in Texts /\ seq \in Seq(Texts)
  BY FlatTypes
<1>2. \A s \in SUBSET DOMAIN seq : s # {} => seq[Max(s)] \in Texts
  BY <1>1, SequenceMax
<1>3. Flat(seqs) = C[DOMAIN seq]
  BY DEF Flat, FoldLeft, MapThenFoldSet
<1> HIDE DEF seq
<1>4. Concats \in FoldSteps(Texts, Texts)
  BY ConcatsType
<1>5. PICK g \in [SUBSET DOMAIN seq -> Texts] : Solves(g, Concats, <<>>, seq)
  BY <1>1, <1>4, SolutionExists
<1>6. Chosen(g)
  BY <1>1, <1>2, <1>5, Zenon DEF Solves, Concats
<1>7. Chosen(C)
  BY <1>6, Zenon
<1> HIDE DEF C
<1>8. ASSUME NEW s \in SUBSET DOMAIN seq, s # {}, C[s \ {Max(s)}] \in Texts
      PROVE  C[s] = Concats[<<C[s \ {Max(s)}], seq[Max(s)]>>]
  BY <1>2, <1>7, <1>8 DEF Concats
<1>9. FoldsLike(C, Texts, Concats, <<>>, seq)
  BY <1>7, <1>8 DEF FoldsLike
<1>10. Folded(Concats, <<>>, seq) = C[DOMAIN seq]
  <2> DEFINE step == Concats
             start == <<>>
             values == Texts
             elements == Texts
  <2>1. /\ step \in FoldSteps(values, elements) /\ start \in values /\ seq \in Seq(elements)
        /\ FoldsLike(C, values, step, start, seq)
    BY <1>1, <1>4, <1>9
  <2> HIDE DEF step, start, values, elements
  <2>2. Folded(step, start, seq) = C[DOMAIN seq]
    BY <2>1, FoldedIsFold
  <2> QED BY <2>2 DEF step, start
<1> QED BY <1>3, <1>10 DEF seq


BytesOf(v) == [i \in DOMAIN v |-> v[i].bytes]
SpelledBy(v) == [i \in DOMAIN v |-> v[i].text]

LEMMA FlatLaws ==
  /\ Flat(<<>>) = <<>>
  /\ \A seqs \in Seq(Texts) : Flat(seqs) \in Texts
  /\ \A seqs \in Seq(Texts), q \in Texts : Flat(Append(seqs, q)) = Flat(seqs) \o q
<1> DEFINE none == <<>>
<1>1. none \in Texts /\ none \in Seq(Texts) /\ Concats \in FoldSteps(Texts, Texts)
  BY EmptySeq, ConcatsType DEF Texts
<1>2. \A seqs \in Seq(Texts) : Flat(seqs) = Folded(Concats, none, seqs)
  BY FlatFolded
<1> HIDE DEF none
<1>3. Flat(none) = none
  <2>1. Folded(Concats, none, <<>>) = none
    BY <1>1, FoldedEmpty
  <2> QED BY <1>1, <1>2, <2>1 DEF none
<1>4. ASSUME NEW seqs \in Seq(Texts) PROVE Flat(seqs) \in Texts
  <2>1. Folded(Concats, none, seqs) \in Texts
    BY <1>1, FoldedLaws
  <2> QED BY <1>2, <2>1
<1>5. ASSUME NEW seqs \in Seq(Texts), NEW q \in Texts PROVE Flat(Append(seqs, q)) = Flat(seqs) \o q
  <2>1. Append(seqs, q) \in Seq(Texts)
    BY AppendProperties
  <2>2. Folded(Concats, none, Append(seqs, q)) = Concats[<<Folded(Concats, none, seqs), q>>]
    BY <1>1, FoldedAppend
  <2>3. Concats[<<Flat(seqs), q>>] = Flat(seqs) \o q
    BY <1>4 DEF Concats
  <2> QED BY <1>2, <2>1, <2>2, <2>3
<1> QED BY <1>3, <1>4, <1>5 DEF none

LEMMA FunctionIsSequence ==
  ASSUME NEW T, NEW m \in Nat, NEW f \in [1 .. m -> T]
  PROVE  f \in Seq(T) /\ Len(f) = m
OBVIOUS

LEMMA PartsLaws ==
  ASSUME NEW v \in Seq(Characters), NEW ch \in Characters
  PROVE  /\ BytesOf(v) \in Seq(Texts) /\ SpelledBy(v) \in Seq(Outputs)
         /\ BytesOf(Append(v, ch)) = Append(BytesOf(v), ch.bytes)
         /\ SpelledBy(Append(v, ch)) = Append(SpelledBy(v), ch.text)
<1> DEFINE more == Append(v, ch)
           n == Len(v)
<1>1. \A d \in Characters : d.bytes \in Texts /\ d.text \in Outputs
  <2>1. <<>> \in Seq(Outputs)
    BY EmptySeq
  <2> QED BY <2>1, CharacterRead
<1>2. /\ n \in Nat /\ more \in Seq(Characters) /\ Len(more) = n + 1 /\ more[n + 1] = ch
      /\ \A i \in 1 .. n : more[i] = v[i] /\ v[i] \in Characters
  BY AppendProperties, LenProperties, ElementOfSeq
<1>3. DOMAIN v = 1 .. n /\ DOMAIN more = 1 .. n + 1
  <2>1. DOMAIN v = 1 .. Len(v)
    BY LenProperties
  <2>2. DOMAIN more = 1 .. Len(more)
    BY <1>2, LenProperties
  <2> QED BY <1>2, <2>1, <2>2
<1> HIDE DEF more, n
<1>4. /\ BytesOf(v) = [i \in 1 .. n |-> v[i].bytes] /\ SpelledBy(v) = [i \in 1 .. n |-> v[i].text]
      /\ BytesOf(more) = [i \in 1 .. n + 1 |-> more[i].bytes]
      /\ SpelledBy(more) = [i \in 1 .. n + 1 |-> more[i].text]
  BY <1>3 DEF BytesOf, SpelledBy
<1>5. /\ BytesOf(v) \in [1 .. n -> Texts] /\ SpelledBy(v) \in [1 .. n -> Outputs]
  BY <1>1, <1>2, <1>4
<1>6. \A i \in 1 .. n + 1 : more[i] \in Characters
  <2>1. \A i \in 1 .. n + 1 : i = n + 1 \/ i \in 1 .. n
    BY <1>2
  <2> QED BY <1>2, <2>1
<1>7. BytesOf(more) \in [1 .. n + 1 -> Texts] /\ SpelledBy(more) \in [1 .. n + 1 -> Outputs]
  BY <1>1, <1>4, <1>6
<1>8. /\ BytesOf(v) \in Seq(Texts) /\ Len(BytesOf(v)) = n
      /\ SpelledBy(v) \in Seq(Outputs) /\ Len(SpelledBy(v)) = n
      /\ BytesOf(more) \in Seq(Texts) /\ Len(BytesOf(more)) = n + 1
      /\ SpelledBy(more) \in Seq(Outputs) /\ Len(SpelledBy(more)) = n + 1
  <2>1. n + 1 \in Nat
    BY <1>2
  <2>2. BytesOf(v) \in Seq(Texts) /\ Len(BytesOf(v)) = n
    BY <1>2, <1>5, FunctionIsSequence
  <2>3. SpelledBy(v) \in Seq(Outputs) /\ Len(SpelledBy(v)) = n
    BY <1>2, <1>5, FunctionIsSequence
  <2>4. BytesOf(more) \in Seq(Texts) /\ Len(BytesOf(more)) = n + 1
    BY <1>7, <2>1, FunctionIsSequence
  <2>5. SpelledBy(more) \in Seq(Outputs) /\ Len(SpelledBy(more)) = n + 1
    BY <1>7, <2>1, FunctionIsSequence
  <2> QED BY <2>2, <2>3, <2>4, <2>5
<1>9. BytesOf(more) = Append(BytesOf(v), ch.bytes)
  <2> DEFINE p == BytesOf(v)
             q == BytesOf(more)
             c == ch.bytes
  <2>1. q[n + 1] = c /\ \A i \in 1 .. n : q[i] = p[i]
    BY <1>2, <1>4
  <2>2. c \in Texts /\ p \in Seq(Texts) /\ q \in Seq(Texts) /\ Len(p) = n /\ Len(q) = n + 1
    BY <1>1, <1>8
  <2> HIDE DEF p, q, c
  <2>3. Append(p, c) = q
    BY <2>1, <2>2, AppendIs
  <2> QED BY <2>3 DEF p, q, c
<1>10. SpelledBy(more) = Append(SpelledBy(v), ch.text)
  <2> DEFINE p == SpelledBy(v)
             q == SpelledBy(more)
             c == ch.text
  <2>1. q[n + 1] = c /\ \A i \in 1 .. n : q[i] = p[i]
    BY <1>2, <1>4
  <2>2. c \in Outputs /\ p \in Seq(Outputs) /\ q \in Seq(Outputs) /\ Len(p) = n /\ Len(q) = n + 1
    BY <1>1, <1>8
  <2> HIDE DEF p, q, c
  <2>3. Append(p, c) = q
    BY <2>1, <2>2, AppendIs
  <2> QED BY <2>3 DEF p, q, c
<1> QED BY <1>8, <1>9, <1>10 DEF more

(* A text is read as what its characters stand for.                        *)
LEMMA TextRead ==
  ASSUME NEW v \in Seq(Characters)
  PROVE  /\ Flat(BytesOf(v)) \in Texts /\ SpelledBy(v) \in Seq(Outputs)
         /\ Run(EscapeAt(<<>>, <<>>), Flat(BytesOf(v))) = EscapeAt(<<>>, SpelledBy(v))
<1> DEFINE none == <<>>
           z == EscapeAt(none, none)
           Read(u) == /\ Flat(BytesOf(u)) \in Texts /\ SpelledBy(u) \in Seq(Outputs)
                      /\ Run(z, Flat(BytesOf(u))) = EscapeAt(none, SpelledBy(u))
           G == {u \in Seq(Characters) : Read(u)}
<1>1. none \in Texts /\ none \in Seq(Outputs) /\ none \in Seq(Characters) /\ z \in InputStates
  <2>1. none \in Texts /\ none \in Seq(Outputs) /\ none \in Seq(Characters)
    BY EmptySeq DEF Texts
  <2> HIDE DEF none
  <2>2. /\ z \in InputStates /\ z.state = "Value" /\ z.key = InputKey /\ z.escape = none
        /\ z.failed = FALSE /\ z.output = none
    BY <2>1, EscapeState
  <2> HIDE DEF z
  <2> QED BY <2>1, <2>2
<1>2. Read(none)
  <2>1. BytesOf(none) = none /\ SpelledBy(none) = none
    BY DEF BytesOf, SpelledBy
  <2>2. Flat(none) = none
    BY FlatLaws
  <2>3. Run(z, none) = z
    BY <1>1, RunLaws
  <2> HIDE DEF none
  <2> QED BY <1>1, <2>1, <2>2, <2>3
<1> HIDE DEF none
<1>3. ASSUME NEW u \in Seq(Characters), NEW ch \in Characters, Read(u) PROVE Read(Append(u, ch))
  <2> DEFINE w == Append(u, ch)
             bytes == BytesOf(u)
             text == SpelledBy(u)
  <2>1. /\ bytes \in Seq(Texts) /\ text \in Seq(Outputs)
        /\ BytesOf(w) = Append(bytes, ch.bytes) /\ SpelledBy(w) = Append(text, ch.text)
    BY PartsLaws
  <2>2. /\ ch.bytes \in Texts /\ ch.text \in Outputs
        /\ Run(EscapeAt(none, text), ch.bytes) = EscapeAt(none, Append(text, ch.text))
    BY <2>1, CharacterRead DEF none
  <2>3. Flat(bytes) \in Texts /\ Run(z, Flat(bytes)) = EscapeAt(none, text)
    BY <1>3
  <2> HIDE DEF w, bytes, text, z
  <2>4. Flat(BytesOf(w)) = Flat(bytes) \o ch.bytes
    BY <2>1, <2>2, FlatLaws
  <2>5. Flat(bytes) \o ch.bytes \in Texts
        /\ Run(z, Flat(bytes) \o ch.bytes) = Run(Run(z, Flat(bytes)), ch.bytes)
    BY <1>1, <2>2, <2>3, RunConcat
  <2>6. SpelledBy(w) \in Seq(Outputs)
    BY <2>1, <2>2, AppendProperties
  <2> USE DEF z
  <2> QED BY <2>1, <2>2, <2>3, <2>4, <2>5, <2>6 DEF w
<1> HIDE DEF Read
<1>4. none \in G
  BY <1>1, <1>2
<1>5. ASSUME NEW u \in Seq(Characters), NEW ch \in Characters, u \in G PROVE Append(u, ch) \in G
  BY <1>3, <1>5, AppendProperties
<1> HIDE DEF G
<1>6. Seq(Characters) \subseteq G
  BY <1>4, <1>5, AppendInduction DEF none
<1>7. Read(v)
  BY <1>6 DEF G
<1> QED BY <1>7 DEF Read, z, none

(* What is read after the bytes b have left the decoder in the state s.    *)
Reads(b, s) == b \in Texts /\ s \in InputStates /\ Run(InputStart, b) = s

LEMMA ReadsMore ==
  ASSUME NEW b, NEW s, Reads(b, s), NEW q \in Texts, NEW t, Run(s, q) = t
  PROVE  Reads(b \o q, t)
<1>1. b \in Texts /\ s \in InputStates /\ Run(InputStart, b) = s /\ InputStart \in InputStates
  BY StartIs DEF Reads
<1>2. b \o q \in Texts /\ Run(InputStart, b \o q) = Run(Run(InputStart, b), q)
  BY <1>1, RunConcat
<1>3. t \in InputStates
  BY <1>1, RunLaws
<1> QED BY <1>1, <1>2, <1>3 DEF Reads

LEMMA ReadsByte ==
  ASSUME NEW b, NEW s, Reads(b, s), NEW c \in InputBytes, NEW t, InputByte(s, c) = t
  PROVE  Reads(b \o <<c>>, t)
<1>1. s \in InputStates
  BY DEF Reads
<1>2. <<c>> \in Texts /\ Run(s, <<c>>) = t
  BY <1>1, RunOne
<1> DEFINE q == <<c>>
<1> HIDE DEF q
<1>3. Reads(b \o q, t)
  BY <1>2, ReadsMore DEF q
<1> QED BY <1>3 DEF q

LEMMA ReadsSpaces ==
  ASSUME NEW b, NEW s, Reads(b, s), s \in BetweenTokens, NEW w \in Spaces
  PROVE  Reads(b \o w, s)
<1>1. w \in Texts /\ Run(s, w) = s
  BY SpacesSkipped
<1> QED BY <1>1, ReadsMore

LEMMA Between ==
  ASSUME NEW out \in Seq(Outputs), NEW key \in Texts
  PROVE  /\ InputAt("Open", key, out) \in BetweenTokens /\ InputAt("Key", <<>>, out) \in BetweenTokens
         /\ InputAt("Colon", key, out) \in BetweenTokens /\ InputAt("Quote", key, out) \in BetweenTokens
         /\ InputAt("Close", key, out) \in BetweenTokens /\ InputAt("Done", key, out) \in BetweenTokens
<1>1. ASSUME NEW state \in States, NEW k \in Texts, state \notin {"Value", "Key"} \/ (state = "Key" /\ k = <<>>)
      PROVE  InputAt(state, k, out) \in BetweenTokens
  <2> DEFINE s == InputAt(state, k, out)
  <2>1. /\ s \in InputStates /\ s.state = state /\ s.key = k /\ s.escape = <<>>
        /\ s.failed = FALSE /\ s.output = out
    BY AtState
  <2> HIDE DEF s
  <2>2. s \in BetweenTokens
    BY <1>1, <2>1 DEF BetweenTokens
  <2> QED BY <2>2 DEF s
<1>2. <<>> \in Texts
  BY EmptySeq DEF Texts
<1>3. \A state \in {"Open", "Colon", "Quote", "Close", "Done"} : state \in States /\ state \notin {"Value", "Key"}
  BY DEF States
<1>4. \A state \in {"Open", "Colon", "Quote", "Close", "Done"} : InputAt(state, key, out) \in BetweenTokens
  BY <1>1, <1>3
<1>5. "Key" \in States
  BY DEF States
<1>6. InputAt("Key", <<>>, out) \in BetweenTokens
  <2> DEFINE state == "Key"
             none == <<>>
  <2>1. state \in States /\ none \in Texts /\ (state = "Key" /\ none = <<>>)
    BY <1>2, <1>5
  <2>2. InputAt(state, none, out) \in BetweenTokens
    <3> HIDE DEF state, none
    <3> QED BY <1>1, <2>1
  <2> QED BY <2>2
<1> QED BY <1>4, <1>6

(* An object with a text of characters and white space between its tokens  *)
(* is complete when its bytes are read, and what it gives is its text; and *)
(* it is no longer a complete one with anything behind it.                 *)
THEOREM ObjectsTaken ==
  ASSUME NEW w, \A i \in 1 .. 6 : w[i] \in Spaces, NEW v \in Seq(Characters)
  PROVE  LET s == InputDecode(Object(w, v).bytes)
         IN /\ Complete(s) /\ s.output = Object(w, v).text
            /\ \A c \in {"quote", "rbrace"} : InputByte(s, c).failed
<1> DEFINE none == <<>>
           key == InputKey
           flat == Flat(BytesOf(v))
           text == SpelledBy(v)
           b1 == w[1]
           b2 == b1 \o <<"lbrace">>
           b3 == b2 \o w[2]
           b4 == b3 \o key
           b5 == b4 \o w[3]
           b6 == b5 \o <<":">>
           b7 == b6 \o w[4]
           b8 == b7 \o <<"quote">>
           b9 == b8 \o flat
           b10 == b9 \o <<"quote">>
           b11 == b10 \o w[5]
           b12 == b11 \o <<"rbrace">>
           b13 == b12 \o w[6]
<1>1. Object(w, v).bytes = b13 /\ Object(w, v).text = text
  BY DEF Object, InputKey, BytesOf, SpelledBy
<1>2. none \in Seq(Outputs) /\ none \in Texts /\ key \in Texts
  <2>1. none \in Seq(Outputs) /\ none \in Texts
    BY EmptySeq DEF Texts
  <2>2. InputKey \in Texts
    BY <2>1, KeyRead
  <2> QED BY <2>1, <2>2
<1>3. /\ "lbrace" \in InputBytes /\ ":" \in InputBytes /\ "quote" \in InputBytes
      /\ "rbrace" \in InputBytes
  BY DEF InputBytes
<1>4. /\ w[1] \in Spaces /\ w[2] \in Spaces /\ w[3] \in Spaces /\ w[4] \in Spaces
      /\ w[5] \in Spaces /\ w[6] \in Spaces
  OBVIOUS
<1>5. /\ flat \in Texts /\ text \in Seq(Outputs)
      /\ Run(EscapeAt(<<>>, <<>>), flat) = EscapeAt(<<>>, text)
  BY TextRead
<1>6. /\ InputAt("Open", none, none) \in BetweenTokens /\ InputAt("Key", none, none) \in BetweenTokens
      /\ InputAt("Colon", key, none) \in BetweenTokens /\ InputAt("Quote", key, none) \in BetweenTokens
      /\ InputAt("Close", key, text) \in BetweenTokens /\ InputAt("Done", key, text) \in BetweenTokens
  <2>1. InputAt("Open", none, none) \in BetweenTokens /\ InputAt("Key", <<>>, none) \in BetweenTokens
    <3> HIDE DEF none
    <3> QED BY <1>2, Between
  <2>2. InputAt("Colon", key, none) \in BetweenTokens /\ InputAt("Quote", key, none) \in BetweenTokens
    <3> HIDE DEF none, key
    <3> QED BY <1>2, Between
  <2>3. InputAt("Close", key, text) \in BetweenTokens /\ InputAt("Done", key, text) \in BetweenTokens
    <3> HIDE DEF text, key
    <3> QED BY <1>2, <1>5, Between
  <2> QED BY <2>1, <2>2, <2>3
<1>7. /\ InputByte(InputAt("Open", none, none), "lbrace") = InputAt("Key", none, none)
      /\ InputByte(InputAt("Colon", key, none), ":") = InputAt("Quote", key, none)
      /\ InputByte(InputAt("Quote", key, none), "quote") = InputAt("Value", key, none)
      /\ InputByte(InputAt("Value", key, text), "quote") = InputAt("Close", key, text)
      /\ InputByte(InputAt("Close", key, text), "rbrace") = InputAt("Done", key, text)
      /\ \A c \in {"quote", "rbrace"} : InputByte(InputAt("Done", key, text), c).failed
  <2> HIDE DEF none, key, text
  <2>1. InputByte(InputAt("Open", none, none), "lbrace") = InputAt("Key", none, none)
    BY <1>2, TokenBytes
  <2>2. /\ InputByte(InputAt("Colon", key, none), ":") = InputAt("Quote", key, none)
        /\ InputByte(InputAt("Quote", key, none), "quote") = InputAt("Value", key, none)
    BY <1>2, TokenBytes
  <2>3. /\ InputByte(InputAt("Value", key, text), "quote") = InputAt("Close", key, text)
        /\ InputByte(InputAt("Close", key, text), "rbrace") = InputAt("Done", key, text)
        /\ \A c \in {"quote", "rbrace"} : InputByte(InputAt("Done", key, text), c).failed
    BY <1>2, <1>5, TokenBytes
  <2> QED BY <2>1, <2>2, <2>3
<1>8. Run(InputAt("Key", none, none), key) = InputAt("Colon", key, none)
  BY <1>2, KeyRead
<1>9. /\ InputAt("Value", key, none) = EscapeAt(<<>>, <<>>)
      /\ InputAt("Value", key, text) = EscapeAt(<<>>, text)
  BY DEF InputAt, EscapeAt
<1>10. Reads(<<>>, InputAt("Open", none, none))
  <2>1. Run(InputStart, <<>>) = InputStart /\ InputStart \in InputStates
    BY StartIs, RunLaws
  <2> QED BY <1>2, <2>1, StartIs DEF Reads
<1>11. Reads(b1, InputAt("Open", none, none))
  <2>1. w[1] \in Texts /\ Run(InputAt("Open", none, none), w[1]) = InputAt("Open", none, none)
    BY <1>4, <1>6, SpacesSkipped
  <2> QED BY <1>10, <2>1, StartIs DEF Reads
<1> HIDE DEF none, key, flat, text, b1
<1>12. Reads(b2, InputAt("Key", none, none))
  BY <1>3, <1>7, <1>11, ReadsByte
<1> HIDE DEF b2
<1>13. Reads(b3, InputAt("Key", none, none))
  BY <1>4, <1>6, <1>12, ReadsSpaces
<1> HIDE DEF b3
<1>14. Reads(b4, InputAt("Colon", key, none))
  BY <1>2, <1>8, <1>13, ReadsMore
<1> HIDE DEF b4
<1>15. Reads(b5, InputAt("Colon", key, none))
  BY <1>4, <1>6, <1>14, ReadsSpaces
<1> HIDE DEF b5
<1>16. Reads(b6, InputAt("Quote", key, none))
  BY <1>3, <1>7, <1>15, ReadsByte
<1> HIDE DEF b6
<1>17. Reads(b7, InputAt("Quote", key, none))
  BY <1>4, <1>6, <1>16, ReadsSpaces
<1> HIDE DEF b7
<1>18. Reads(b8, InputAt("Value", key, none))
  BY <1>3, <1>7, <1>17, ReadsByte
<1> HIDE DEF b8
<1>19. Reads(b9, InputAt("Value", key, text))
  BY <1>5, <1>9, <1>18, ReadsMore
<1> HIDE DEF b9
<1>20. Reads(b10, InputAt("Close", key, text))
  BY <1>3, <1>7, <1>19, ReadsByte
<1> HIDE DEF b10
<1>21. Reads(b11, InputAt("Close", key, text))
  BY <1>4, <1>6, <1>20, ReadsSpaces
<1> HIDE DEF b11
<1>22. Reads(b12, InputAt("Done", key, text))
  BY <1>3, <1>7, <1>21, ReadsByte
<1> HIDE DEF b12
<1>23. Reads(b13, InputAt("Done", key, text))
  BY <1>4, <1>6, <1>22, ReadsSpaces
<1> HIDE DEF b13
<1>24. InputDecode(b13) = InputAt("Done", key, text)
  BY <1>23, Decoded DEF Reads
<1>25. Complete(InputAt("Done", key, text)) /\ InputAt("Done", key, text).output = text
  BY DEF Complete, InputAt
<1> QED BY <1>1, <1>7, <1>24, <1>25

-----------------------------------------------------------------------------
(* The decoders of the model path *)

(* CustomInput agrees with JSON on the tool inputs that are checked, which *)
(* are among those of the two theorems.                                    *)
THEOREM CustomInputCorrect == CustomInputAgrees
<1>1. ASSUME NEW object \in InputObjects
      PROVE  LET s == InputDecode(object.bytes)
             IN /\ Complete(s) /\ s.output = object.text
                /\ ~Complete(InputByte(s, "rbrace")) /\ ~Complete(InputByte(s, "quote"))
  <2>1. PICK w \in [1 .. 6 -> {<<>>, <<"space">>}], v \in Strings(Characters, 2) : object = Object(w, v)
    BY DEF InputObjects
  <2>2. \A i \in 1 .. 6 : w[i] \in Spaces
    <3>1. <<>> \in Spaces /\ <<"space">> \in Spaces
      BY EmptySeq DEF Spaces
    <3> QED BY <3>1
  <2>3. v \in Seq(Characters)
    <3>1. PICK k \in 0 .. 2 : v \in [1 .. k -> Characters]
      BY DEF Strings
    <3>2. k \in Nat
      OBVIOUS
    <3> QED BY <3>1, <3>2, FunctionIsSequence
  <2> DEFINE s == InputDecode(Object(w, v).bytes)
  <2>4. /\ Complete(s) /\ s.output = Object(w, v).text
        /\ \A c \in {"quote", "rbrace"} : InputByte(s, c).failed
    BY <2>2, <2>3, ObjectsTaken
  <2>5. InputDecode(object.bytes) = s /\ object.text = Object(w, v).text
    BY <2>1
  <2> HIDE DEF s
  <2>6. ~Complete(InputByte(s, "rbrace")) /\ ~Complete(InputByte(s, "quote"))
    BY <2>4 DEF Complete
  <2> QED BY <2>4, <2>5, <2>6
<1>2. Bodies \subseteq Seq(ValueBytes)
  <2> DEFINE bytes == {"x", "\\", "u", "quote"} \cup Quads
  <2>1. bytes \subseteq ValueBytes
    BY DEF ValueBytes
  <2> HIDE DEF bytes
  <2>2. ASSUME NEW n \in Nat, NEW q \in Strings(bytes, n) PROVE q \in Seq(ValueBytes)
    <3>1. PICK k \in 0 .. n : q \in [1 .. k -> bytes]
      BY DEF Strings
    <3>2. k \in Nat /\ q \in [1 .. k -> ValueBytes]
      BY <2>1, <3>1
    <3> QED BY <3>2, FunctionIsSequence
  <2>3. Pair \in Seq(ValueBytes)
    BY DEF Pair, ValueBytes, Quads
  <2>4. ASSUME NEW q \in Strings(bytes, 2) PROVE Pair \o q \in Seq(ValueBytes)
    BY <2>2, <2>3, ConcatProperties
  <2> QED BY <2>2, <2>4 DEF Bodies, bytes
<1> QED BY <1>1, <1>2, TextsTaken DEF CustomInputAgrees

(* Whenever a response streams, the decoders agree with the formats.       *)
THEOREM DecodersCorrect == Spec => []DecodersAgree
<1>1. DecodersAgree
  BY SseDecoderCorrect, CustomInputCorrect DEF DecodersAgree
<1> QED BY <1>1, PTL

=============================================================================
