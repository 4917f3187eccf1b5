----------------------------- MODULE FoldTheorems -----------------------------
(***************************************************************************)
(* Induction and folds in the first-order form that the provers can cite.  *)
(* The library's induction theorems are about an operator P(_); here the   *)
(* set of the values that satisfy P takes its place, and the step of a     *)
(* fold is a function of pairs.                                            *)
(***************************************************************************)
EXTENDS Naturals, Sequences, SequencesExt, WellFoundedInduction,
        SequenceTheorems, TLAPS

-----------------------------------------------------------------------------
(* Induction *)

(* A set of naturals that is not empty has a least element.                *)
LEMMA LeastNatural ==
  ASSUME NEW T, T \subseteq Nat, T # {}
  PROVE  \E x \in T : \A y \in T : x <= y
<1> DEFINE R == {ss \in Nat \X Nat : ss[1] < ss[2]}
<1>1. IsWellFoundedOn(R, Nat)
  BY NatLessThanWellFounded DEF OpToRel
<1>2. PICK x \in T : \A y \in T : <<y, x>> \notin R
  <2> HIDE DEF R
  <2> QED BY <1>1, WFMin
<1>3. ASSUME NEW y \in T PROVE x <= y
  <2>1. <<y, x>> \in Nat \X Nat /\ <<y, x>> \notin R
    BY <1>2
  <2>2. ~(y < x)
    BY <2>1, Zenon
  <2> QED BY <2>2
<1> QED BY <1>3

(* Induction over the naturals.                                            *)
THEOREM SetInduction ==
  ASSUME NEW S, 0 \in S, \A n \in Nat : n \in S => n + 1 \in S
  PROVE  Nat \subseteq S
<1> SUFFICES ASSUME Nat \ S # {} PROVE FALSE
  OBVIOUS
<1>1. PICK x \in Nat \ S : \A y \in Nat \ S : x <= y
  BY LeastNatural
<1>2. x # 0 /\ x - 1 \in Nat /\ ~(x <= x - 1)
  BY <1>1
<1>3. x - 1 \in S
  BY <1>1, <1>2
<1> QED BY <1>1, <1>2, <1>3

(* The greatest of some numbers up to n.                                   *)
LEMMA MaxProperties ==
  ASSUME NEW n \in Nat, NEW s \in SUBSET (1 .. n), s # {}
  PROVE  Max(s) \in s /\ \A y \in s : y <= Max(s)
<1> DEFINE T == {m \in Nat : \A y \in s : y <= m}
<1>1. PICK m \in T : \A k \in T : m <= k
  <2>1. n \in T
    OBVIOUS
  <2> HIDE DEF T
  <2> QED BY <2>1, LeastNatural, T \subseteq Nat DEF T
<1>2. m \in s
  <2> SUFFICES ASSUME m \notin s PROVE FALSE
    OBVIOUS
  <2>1. \A y \in s : y <= m - 1
    BY <1>1
  <2>2. PICK y \in s : TRUE
    OBVIOUS
  <2>3. m - 1 \in Nat
    BY <2>1, <2>2, <1>1
  <2> QED BY <2>1, <2>3, <1>1
<1>3. m \in s /\ \A y \in s : m >= y
  BY <1>1, <1>2
<1>4. Max(s) \in s /\ \A y \in s : Max(s) >= y
  BY <1>3, Zenon DEF Max
<1> QED BY <1>4

(* The greatest of all numbers up to n is n.                               *)
LEMMA MaxInterval ==
  ASSUME NEW n \in Nat, n > 0
  PROVE  Max(1 .. n) = n /\ (1 .. n) \ {n} = 1 .. n - 1
<1> DEFINE s == 1 .. n
<1>1. s \in SUBSET (1 .. n) /\ s # {} /\ n \in s
  OBVIOUS
<1> HIDE DEF s
<1>2. Max(s) \in s /\ \A y \in s : y <= Max(s)
  BY <1>1, MaxProperties
<1> QED BY <1>1, <1>2 DEF s

(* So it is of every set of numbers up to n that has n.                    *)
LEMMA MaxIsLast ==
  ASSUME NEW n \in Nat, NEW s \in SUBSET (1 .. n), n \in s
  PROVE  Max(s) = n
<1> DEFINE m == Max(s)
<1>1. m \in 1 .. n /\ n <= m
  BY MaxProperties
<1> HIDE DEF m
<1>2. m = n
  BY <1>1
<1> QED BY <1>2 DEF m

(* The last of some positions in a sequence.                               *)
LEMMA SequenceMax ==
  ASSUME NEW E, NEW seq \in Seq(E)
  PROVE  \A s \in SUBSET DOMAIN seq : s # {} => Max(s) \in DOMAIN seq /\ seq[Max(s)] \in E
<1>1. PICK n \in Nat : DOMAIN seq = 1 .. n /\ \A i \in 1 .. n : seq[i] \in E
  BY LenProperties, ElementOfSeq
<1> QED BY <1>1, MaxProperties

(* Induction over sets of numbers, from which the greatest is taken.       *)
LEMMA SubsetInduction ==
  ASSUME NEW n \in Nat, NEW G, {} \in G,
         \A s \in SUBSET (1 .. n) : s # {} /\ s \ {Max(s)} \in G => s \in G
  PROVE  SUBSET (1 .. n) \subseteq G
<1> DEFINE P == {k \in Nat : k <= n => SUBSET (1 .. k) \subseteq G}
<1>1. 0 \in P
  <2>1. SUBSET (1 .. 0) = {{}}
    OBVIOUS
  <2> QED BY <2>1
<1>2. ASSUME NEW k \in Nat, k \in P PROVE k + 1 \in P
  <2> SUFFICES ASSUME k + 1 <= n, NEW s \in SUBSET (1 .. k + 1) PROVE s \in G
    OBVIOUS
  <2>1. SUBSET (1 .. k) \subseteq G
    BY <1>2
  <2>2. CASE s \in SUBSET (1 .. k)
    BY <2>1, <2>2
  <2>3. CASE s \notin SUBSET (1 .. k)
    <3>1. k + 1 \in s
      BY <2>3
    <3>2. s # {} /\ s \in SUBSET (1 .. n)
      BY <3>1
    <3>3. Max(s) \in s /\ \A y \in s : y <= Max(s)
      BY <3>2, MaxProperties
    <3>4. Max(s) = k + 1
      <4> DEFINE m == Max(s)
      <4>1. m \in 1 .. k + 1 /\ k + 1 <= m
        BY <3>1, <3>3
      <4> HIDE DEF m
      <4>2. m = k + 1
        BY <4>1
      <4> QED BY <4>2 DEF m
    <3>5. s \ {Max(s)} \in SUBSET (1 .. k)
      BY <3>4
    <3> QED BY <3>2, <3>5, <2>1
  <2> QED BY <2>2, <2>3
<1>3. Nat \subseteq P
  <2> HIDE DEF P
  <2> QED BY <1>1, <1>2, SetInduction
<1> QED BY <1>3

-----------------------------------------------------------------------------
(* Folds *)

(* The steps of a fold of elements of E into a value of S.  The provers    *)
(* apply the lemmas where this stays a name.                               *)
FoldSteps(S, E) == [S \X E -> S]

(* The equation whose solution FoldLeft chooses.                           *)
Solves(g, Op, base, seq) ==
  g = [s \in SUBSET DOMAIN seq |->
         IF s = {} THEN base ELSE Op[<<g[s \ {Max(s)}], seq[Max(s)]>>]]

(* The fold of a step that is a function.                                  *)
Folded(Op, base, seq) == FoldLeft(LAMBDA s, e : Op[<<s, e>>], base, seq)

(* What a solution gives lies in the set that holds the base and is closed *)
(* under the step.                                                         *)
LEMMA SolutionType ==
  ASSUME NEW E, NEW seq \in Seq(E), NEW g, NEW I, g[{}] \in I,
         \A s \in SUBSET DOMAIN seq :
           s # {} /\ g[s \ {Max(s)}] \in I => g[s] \in I
  PROVE  \A s \in SUBSET DOMAIN seq : g[s] \in I
<1> DEFINE G == {s \in SUBSET DOMAIN seq : g[s] \in I}
<1>1. PICK n \in Nat : n = Len(seq) /\ DOMAIN seq = 1 .. n
  BY LenProperties
<1>2. {} \in G
  OBVIOUS
<1>3. \A s \in SUBSET (1 .. n) : s # {} /\ s \ {Max(s)} \in G => s \in G
  BY <1>1
<1>4. SUBSET (1 .. n) \subseteq G
  <2> HIDE DEF G
  <2> QED BY <1>2, <1>3, SubsetInduction
<1> QED BY <1>4, <1>1

(* There is a solution.                                                    *)
LEMMA SolutionExists ==
  ASSUME NEW S, NEW E, NEW Op \in FoldSteps(S, E), NEW base \in S, NEW seq \in Seq(E)
  PROVE  \E g \in [SUBSET DOMAIN seq -> S] : Solves(g, Op, base, seq)
<1> DEFINE
      Up(g, k) ==
        \A s \in SUBSET (1 .. k) :
          g[s] = IF s = {} THEN base ELSE Op[<<g[s \ {Max(s)}], seq[Max(s)]>>]
      P == {k \in Nat : k <= Len(seq) => \E g \in [SUBSET (1 .. k) -> S] : Up(g, k)}
<1>1. Len(seq) \in Nat /\ DOMAIN seq = 1 .. Len(seq) /\ \A i \in 1 .. Len(seq) : seq[i] \in E
  BY LenProperties, ElementOfSeq
<1> USE DEF FoldSteps
<1>2. 0 \in P
  <2> DEFINE g == [s \in SUBSET (1 .. 0) |-> base]
  <2>1. SUBSET (1 .. 0) = {{}}
    OBVIOUS
  <2>2. g \in [SUBSET (1 .. 0) -> S] /\ Up(g, 0)
    BY <2>1
  <2> QED BY <2>2
<1>3. ASSUME NEW k \in Nat, k \in P PROVE k + 1 \in P
  <2> SUFFICES ASSUME k + 1 <= Len(seq)
               PROVE  \E g \in [SUBSET (1 .. k + 1) -> S] : Up(g, k + 1)
    <3>1. k + 1 \in Nat
      OBVIOUS
    <3> QED BY <3>1, Zenon
  <2>1. PICK g \in [SUBSET (1 .. k) -> S] : Up(g, k)
    <3>1. k <= Len(seq)
      BY <1>1
    <3>2. k \in P
      BY <1>3
    <3> QED BY <3>1, <3>2, Zenon
  <2> DEFINE h == [s \in SUBSET (1 .. k + 1) |->
                     IF k + 1 \in s THEN Op[<<g[s \ {k + 1}], seq[k + 1]>>] ELSE g[s]]
  <2>2. \A s \in SUBSET (1 .. k + 1) :
          /\ k + 1 \notin s => s \in SUBSET (1 .. k)
          /\ s \ {k + 1} \in SUBSET (1 .. k)
    OBVIOUS
  <2>3. seq[k + 1] \in E
    BY <1>1
  <2>4. h \in [SUBSET (1 .. k + 1) -> S]
    BY <2>2, <2>3
  <2>5. ASSUME NEW s \in SUBSET (1 .. k + 1)
        PROVE  h[s] = IF s = {} THEN base ELSE Op[<<h[s \ {Max(s)}], seq[Max(s)]>>]
    <3>1. CASE k + 1 \in s
      <4>1. Max(s) = k + 1
        BY <3>1, MaxIsLast
      <4>2. Max(s) = k + 1
        BY <4>1
      <4>3. h[s \ {k + 1}] = g[s \ {k + 1}]
        OBVIOUS
      <4> QED BY <3>1, <4>2, <4>3
    <3>2. CASE s = {}
      BY <3>2, <2>1
    <3>3. CASE k + 1 \notin s /\ s # {}
      <4>1. s \in SUBSET (1 .. k) /\ s \ {Max(s)} \in SUBSET (1 .. k)
        BY <3>3, <2>2
      <4>2. h[s] = g[s] /\ h[s \ {Max(s)}] = g[s \ {Max(s)}]
        BY <4>1, <3>3
      <4> QED BY <4>1, <4>2, <3>3, <2>1
    <3> QED BY <3>1, <3>2, <3>3
  <2> QED BY <2>4, <2>5
<1>4. Nat \subseteq P
  <2> HIDE DEF P
  <2> QED BY <1>2, <1>3, SetInduction
<1>5. PICK g \in [SUBSET (1 .. Len(seq)) -> S] : Up(g, Len(seq))
  <2>1. Len(seq) \in P /\ Len(seq) <= Len(seq)
    <3> HIDE DEF P
    <3> QED BY <1>1, <1>4
  <2> QED BY <2>1, Zenon
<1> QED BY <1>1, <1>5 DEF Solves

(* There is one.                                                           *)
LEMMA SolutionUnique ==
  ASSUME NEW Op, NEW base, NEW E, NEW seq \in Seq(E),
         NEW g, Solves(g, Op, base, seq), NEW h, Solves(h, Op, base, seq)
  PROVE  g = h
<1> DEFINE G == {s \in SUBSET DOMAIN seq : g[s] = h[s]}
<1>1. PICK n \in Nat : n = Len(seq) /\ DOMAIN seq = 1 .. n
  BY LenProperties
<1>2. {} \in G
  BY DEF Solves
<1>3. ASSUME NEW s \in SUBSET (1 .. n), s # {}, s \ {Max(s)} \in G PROVE s \in G
  <2>1. s \in SUBSET DOMAIN seq
    BY <1>1
  <2>2. /\ g[s] = Op[<<g[s \ {Max(s)}], seq[Max(s)]>>]
        /\ h[s] = Op[<<h[s \ {Max(s)}], seq[Max(s)]>>]
    BY <2>1, <1>3 DEF Solves
  <2> QED BY <2>1, <2>2, <1>3
<1>4. SUBSET (1 .. n) \subseteq G
  <2> HIDE DEF G
  <2> QED BY <1>2, <1>3, SubsetInduction
<1> QED BY <1>4, <1>1 DEF Solves

(* A fold is what any solution gives for the whole sequence.               *)
LEMMA FoldedIsSolution ==
  ASSUME NEW Op, NEW base, NEW E, NEW seq \in Seq(E), NEW g, Solves(g, Op, base, seq)
  PROVE  Folded(Op, base, seq) = g[DOMAIN seq]
<1> DEFINE C == CHOOSE h : Solves(h, Op, base, seq)
<1>1. Folded(Op, base, seq) = C[DOMAIN seq]
  BY DEF Folded, FoldLeft, MapThenFoldSet, Solves
<1>2. Solves(C, Op, base, seq)
  OBVIOUS
<1> HIDE DEF C
<1> QED BY <1>1, <1>2, SolutionUnique

(* A solution in which the step is written as an operator: it is enough    *)
(* that the two steps agree on what the fold reaches.                      *)
FoldsLike(g, S, Op, base, seq) ==
  /\ g = [s \in SUBSET DOMAIN seq |-> g[s]] /\ g[{}] = base
  /\ \A s \in SUBSET DOMAIN seq :
       s # {} /\ g[s \ {Max(s)}] \in S => g[s] = Op[<<g[s \ {Max(s)}], seq[Max(s)]>>]
LEMMA FoldedIsFold ==
  ASSUME NEW S, NEW E, NEW Op \in FoldSteps(S, E), NEW base \in S, NEW seq \in Seq(E),
         NEW g, FoldsLike(g, S, Op, base, seq)
  PROVE  Folded(Op, base, seq) = g[DOMAIN seq]
<1> USE DEF FoldsLike
<1>1. ASSUME NEW s \in SUBSET DOMAIN seq, s # {}, g[s \ {Max(s)}] \in S PROVE g[s] \in S
  <2>1. seq[Max(s)] \in E
    BY <1>1, SequenceMax
  <2> QED BY <1>1, <2>1 DEF FoldSteps
<1>2. \A s \in SUBSET DOMAIN seq : g[s] \in S
  BY <1>1, SolutionType
<1>3. ASSUME NEW s \in SUBSET DOMAIN seq
      PROVE  g[s] = IF s = {} THEN base ELSE Op[<<g[s \ {Max(s)}], seq[Max(s)]>>]
  <2>1. s \ {Max(s)} \in SUBSET DOMAIN seq
    OBVIOUS
  <2> QED BY <1>2, <2>1
<1>4. Solves(g, Op, base, seq)
  BY <1>3 DEF Solves
<1> QED BY <1>4, FoldedIsSolution

(* Folding nothing gives the base.                                         *)
THEOREM FoldedEmpty ==
  ASSUME NEW S, NEW E, NEW Op \in FoldSteps(S, E), NEW base \in S
  PROVE  Folded(Op, base, <<>>) = base
<1>1. <<>> \in Seq(E) /\ DOMAIN <<>> = {}
  OBVIOUS
<1>2. PICK g : Solves(g, Op, base, <<>>)
  <2>1. \E g \in [SUBSET DOMAIN <<>> -> S] : Solves(g, Op, base, <<>>)
    BY <1>1, SolutionExists
  <2> QED BY <2>1
<1>3. g[{}] = base
  BY <1>2, <1>1 DEF Solves
<1> QED BY <1>1, <1>2, <1>3, FoldedIsSolution

(* The last element is folded last.                                        *)
THEOREM FoldedAppend ==
  ASSUME NEW S, NEW E, NEW Op \in FoldSteps(S, E), NEW base \in S
  PROVE  \A seq \in Seq(E), e \in E :
           Folded(Op, base, Append(seq, e)) = Op[<<Folded(Op, base, seq), e>>]
<1> SUFFICES ASSUME NEW seq \in Seq(E), NEW e \in E
             PROVE  Folded(Op, base, Append(seq, e)) = Op[<<Folded(Op, base, seq), e>>]
  OBVIOUS
<1> DEFINE n == Len(seq)
           more == Append(seq, e)
<1>1. /\ n \in Nat /\ DOMAIN seq = 1 .. n
      /\ more \in Seq(E) /\ DOMAIN more = 1 .. n + 1
      /\ more[n + 1] = e /\ \A i \in 1 .. n : more[i] = seq[i]
  BY LenProperties, AppendProperties
<1> HIDE DEF n, more
<1>2. PICK g : Solves(g, Op, base, more)
  <2>1. \E g \in [SUBSET DOMAIN more -> S] : Solves(g, Op, base, more)
    BY <1>1, SolutionExists, Zenon
  <2> QED BY <2>1
<1> DEFINE h == [s \in SUBSET DOMAIN seq |-> g[s]]
<1>3. Solves(h, Op, base, seq)
  <2> SUFFICES ASSUME NEW s \in SUBSET (1 .. n)
               PROVE  h[s] = IF s = {} THEN base ELSE Op[<<h[s \ {Max(s)}], seq[Max(s)]>>]
    BY <1>1 DEF Solves
  <2>1. s \in SUBSET (1 .. n + 1) /\ s \ {Max(s)} \in SUBSET (1 .. n)
    <3>1. 1 .. n \subseteq 1 .. n + 1
      BY <1>1
    <3> QED BY <3>1, Zenon
  <2>2. h[s] = g[s] /\ h[s \ {Max(s)}] = g[s \ {Max(s)}]
    BY <1>1, <2>1
  <2>3. g[s] = IF s = {} THEN base ELSE Op[<<g[s \ {Max(s)}], more[Max(s)]>>]
    BY <1>1, <1>2, <2>1 DEF Solves
  <2>4. s # {} => Max(s) \in 1 .. n
    BY <1>1, MaxProperties
  <2> QED BY <1>1, <2>2, <2>3, <2>4
<1>4. Folded(Op, base, seq) = g[1 .. n]
  <2>1. Folded(Op, base, seq) = h[1 .. n]
    <3> HIDE DEF h
    <3> QED BY <1>1, <1>3, FoldedIsSolution
  <2> QED BY <1>1, <2>1
<1>5. Folded(Op, base, more) = g[1 .. n + 1]
  BY <1>1, <1>2, FoldedIsSolution
<1>6. Max(1 .. n + 1) = n + 1 /\ (1 .. n + 1) \ {n + 1} = 1 .. n
  BY <1>1, MaxInterval
<1>7. g[1 .. n + 1] = Op[<<g[1 .. n], more[n + 1]>>]
  <2> DEFINE all == 1 .. n + 1
  <2>1. \A s \in SUBSET all :
          g[s] = IF s = {} THEN base ELSE Op[<<g[s \ {Max(s)}], more[Max(s)]>>]
    BY <1>1, <1>2 DEF Solves
  <2>2. all # {} /\ all \in SUBSET all /\ Max(all) = n + 1 /\ all \ {Max(all)} = 1 .. n
    <3>1. n + 1 \in all
      BY <1>1
    <3> QED BY <3>1, <1>6
  <2>3. g[all] = Op[<<g[all \ {Max(all)}], more[Max(all)]>>]
    <3> HIDE DEF all
    <3> QED BY <2>1, <2>2
  <2> QED BY <2>2, <2>3
<1> QED BY <1>1, <1>4, <1>5, <1>7 DEF more

(* Induction over the length of a sequence: what holds of the empty one    *)
(* and is preserved when an element is appended holds of all.              *)
THEOREM AppendInduction ==
  ASSUME NEW E, NEW G, <<>> \in G,
         \A seq \in Seq(E), e \in E : seq \in G => Append(seq, e) \in G
  PROVE  Seq(E) \subseteq G
<1> DEFINE P == {n \in Nat : \A seq \in Seq(E) : Len(seq) = n => seq \in G}
<1>1. 0 \in P
  BY EmptySeq
<1>2. ASSUME NEW n \in Nat, n \in P PROVE n + 1 \in P
  <2> SUFFICES ASSUME NEW seq \in Seq(E), Len(seq) = n + 1 PROVE seq \in G
    OBVIOUS
  <2>1. seq # <<>>
    BY EmptySeq
  <2>2. PICK front \in Seq(E), e \in E : seq = Append(front, e)
    BY <2>1, SequenceEmptyOrAppend
  <2>3. Len(front) = n
    BY <2>2, AppendProperties, LenProperties
  <2> QED BY <1>2, <2>2, <2>3
<1>3. Nat \subseteq P
  <2> HIDE DEF P
  <2> QED BY <1>1, <1>2, SetInduction
<1> QED BY <1>3, LenProperties

(* What the base satisfies and every step preserves, the fold satisfies.   *)
THEOREM FoldedInvariant ==
  ASSUME NEW S, NEW E, NEW Op \in FoldSteps(S, E), NEW base \in S, NEW seq \in Seq(E),
         NEW I, base \in I, \A s \in S, e \in E : s \in I => Op[<<s, e>>] \in I
  PROVE  Folded(Op, base, seq) \in S /\ Folded(Op, base, seq) \in I
<1>0. Folded(Op, base, <<>>) = base
  BY FoldedEmpty
<1>a. \A q \in Seq(E), e \in E :
        Folded(Op, base, Append(q, e)) = Op[<<Folded(Op, base, q), e>>]
  BY FoldedAppend
<1> DEFINE G == {q \in Seq(E) : Folded(Op, base, q) \in S /\ Folded(Op, base, q) \in I}
<1>1. <<>> \in G
  BY <1>0, EmptySeq
<1>2. ASSUME NEW q \in Seq(E), NEW e \in E, q \in G PROVE Append(q, e) \in G
  <2>1. Folded(Op, base, Append(q, e)) = Op[<<Folded(Op, base, q), e>>]
    BY <1>a
  <2>2. Append(q, e) \in Seq(E)
    BY AppendProperties
  <2> QED BY <1>2, <2>1, <2>2 DEF FoldSteps
<1>3. Seq(E) \subseteq G
  <2> HIDE DEF G
  <2> QED BY <1>1, <1>2, AppendInduction
<1> QED BY <1>3

(* What a fold gives for every sequence: its base, and a step for each     *)
(* element more, all of them in the set that the step is closed in.        *)
THEOREM FoldedLaws ==
  ASSUME NEW S, NEW E, NEW op \in FoldSteps(S, E), NEW base \in S
  PROVE  /\ Folded(op, base, <<>>) = base
         /\ \A seq \in Seq(E) : Folded(op, base, seq) \in S
         /\ \A seq \in Seq(E), e \in E :
              Folded(op, base, Append(seq, e)) = op[<<Folded(op, base, seq), e>>]
<1>0. \A s \in S, e \in E : s \in S => op[<<s, e>>] \in S
  BY DEF FoldSteps
<1>1. \A seq \in Seq(E) : Folded(op, base, seq) \in S
  BY <1>0, FoldedInvariant
<1> QED BY <1>1, FoldedEmpty, FoldedAppend

(* Replacing the last element replaces what was appended.                  *)
LEMMA LastReplaced ==
  ASSUME NEW E, NEW front \in Seq(E), NEW m \in E
  PROVE  \A n \in E : [Append(front, m) EXCEPT ![Len(Append(front, m))] = n] = Append(front, n)
<1> SUFFICES ASSUME NEW n \in E
             PROVE  [Append(front, m) EXCEPT ![Len(Append(front, m))] = n] = Append(front, n)
  OBVIOUS
<1> DEFINE M == Append(front, m)
           N == [M EXCEPT ![Len(M)] = n]
<1>1. /\ M \in Seq(E) /\ M # <<>> /\ Len(M) = Len(front) + 1 /\ M[Len(front) + 1] = m
      /\ \A i \in 1 .. Len(front) : M[i] = front[i]
  BY AppendProperties
<1>2. Len(front) \in Nat /\ Len(M) \in 1 .. Len(M)
  BY <1>1, LenProperties
<1>3. /\ N \in Seq(E) /\ Len(N) = Len(M)
      /\ \A j \in 1 .. Len(M) : N[j] = IF j = Len(M) THEN n ELSE M[j]
  <2> HIDE DEF M
  <2> QED BY <1>1, <1>2, ExceptSeq
<1>4. /\ Append(front, n) \in Seq(E) /\ Len(Append(front, n)) = Len(front) + 1
      /\ \A i \in 1 .. Len(front) : Append(front, n)[i] = front[i]
      /\ Append(front, n)[Len(front) + 1] = n
  BY AppendProperties
<1> HIDE DEF M, N
<1>5. ASSUME NEW i \in 1 .. Len(N) PROVE N[i] = Append(front, n)[i]
  <2>1. i \in 1 .. Len(front) \/ i = Len(front) + 1
    BY <1>1, <1>2, <1>3
  <2> QED BY <2>1, <1>1, <1>2, <1>3, <1>4
<1>6. N = Append(front, n)
  BY <1>1, <1>3, <1>4, <1>5, SeqEqual
<1> QED BY <1>6 DEF M, N

(* Appending to what comes behind.                                         *)
LEMMA ConcatAppend ==
  ASSUME NEW B, NEW f \in Seq(B), NEW t \in Seq(B), NEW b \in B
  PROVE  f \o Append(t, b) = Append(f \o t, b)
<1>1. <<b>> \in Seq(B) /\ f \o t \in Seq(B)
  BY ConcatProperties
<1>2. Append(t, b) = t \o <<b>> /\ Append(f \o t, b) = (f \o t) \o <<b>>
  BY <1>1, AppendIsConcat
<1> QED BY <1>1, <1>2, ConcatAssociative

(* Two steps that agree on the elements of a sequence fold it alike.       *)
THEOREM FoldedAlike ==
  ASSUME NEW S, NEW E, NEW F, NEW op \in FoldSteps(S, E), NEW or \in FoldSteps(S, F),
         NEW base \in S, NEW seq \in Seq(E), seq \in Seq(F),
         \A s \in S, i \in 1 .. Len(seq) : op[<<s, seq[i]>>] = or[<<s, seq[i]>>]
  PROVE  Folded(op, base, seq) = Folded(or, base, seq)
<1> DEFINE Agree(q) == \A s \in S, i \in 1 .. Len(q) : op[<<s, q[i]>>] = or[<<s, q[i]>>]
           G == {q \in Seq(E) : q \in Seq(F) /\ Agree(q) =>
                                  Folded(op, base, q) = Folded(or, base, q)}
<1>1. <<>> \in G
  <2>1. <<>> \in Seq(E)
    BY EmptySeq
  <2> QED BY <2>1, FoldedEmpty
<1>2. ASSUME NEW q \in Seq(E), NEW e \in E, q \in G PROVE Append(q, e) \in G
  <2> DEFINE more == Append(q, e)
  <2>1. /\ more \in Seq(E) /\ Len(more) = Len(q) + 1 /\ more[Len(q) + 1] = e
        /\ \A i \in 1 .. Len(q) : more[i] = q[i]
    BY AppendProperties
  <2>2. Len(q) \in Nat
    BY LenProperties
  <2> SUFFICES ASSUME more \in Seq(F), Agree(more)
               PROVE  Folded(op, base, more) = Folded(or, base, more)
    BY <2>1
  <2>3. q \in Seq(F) /\ e \in F
    <3>1. \A i \in 1 .. Len(q) + 1 : more[i] \in F
      BY <2>1, ElementOfSeq
    <3>2. \A i \in 1 .. Len(q) : q[i] \in F
      BY <3>1, <2>1, <2>2
    <3>3. e \in F
      BY <3>1, <2>1, <2>2
    <3> QED BY <3>2, <3>3
  <2>4. Agree(q)
    BY <2>1, <2>2
  <2>5. Folded(op, base, q) = Folded(or, base, q) /\ Folded(op, base, q) \in S
    <3>1. Folded(op, base, q) \in S
      BY FoldedLaws
    <3> QED BY <1>2, <2>3, <2>4, <3>1
  <2>6. \A s \in S : op[<<s, e>>] = or[<<s, e>>]
    BY <2>1, <2>2
  <2>7. Folded(op, base, more) = op[<<Folded(op, base, q), e>>]
    BY FoldedAppend
  <2>8. Folded(or, base, more) = or[<<Folded(or, base, q), e>>]
    BY <2>3, FoldedAppend
  <2> QED BY <2>5, <2>6, <2>7, <2>8
<1>3. Seq(E) \subseteq G
  <2> HIDE DEF G
  <2> QED BY <1>1, <1>2, AppendInduction
<1> QED BY <1>3

(* What comes behind is folded into what was folded before.                *)
THEOREM FoldedConcat ==
  ASSUME NEW S, NEW E, NEW op \in FoldSteps(S, E), NEW base \in S, NEW front \in Seq(E)
  PROVE  \A rest \in Seq(E) :
           Folded(op, base, front \o rest) = Folded(op, Folded(op, base, front), rest)
<1> DEFINE mid == Folded(op, base, front)
           G == {q \in Seq(E) : Folded(op, base, front \o q) = Folded(op, mid, q)}
<1>1. mid \in S
  BY FoldedLaws
<1> HIDE DEF mid
<1>2. <<>> \in G
  <2>1. <<>> \in Seq(E) /\ front \o <<>> = front
    BY EmptySeq, ConcatEmptySeq
  <2>2. Folded(op, mid, <<>>) = mid
    BY <1>1, FoldedEmpty
  <2> QED BY <2>1, <2>2 DEF mid
<1>3. ASSUME NEW q \in Seq(E), NEW e \in E, q \in G PROVE Append(q, e) \in G
  <2>1. Append(q, e) \in Seq(E) /\ front \o q \in Seq(E)
    BY AppendProperties, ConcatProperties
  <2>2. front \o Append(q, e) = Append(front \o q, e)
    BY ConcatAppend
  <2>3. \A more \in Seq(E) :
          Folded(op, base, Append(more, e)) = op[<<Folded(op, base, more), e>>]
    BY FoldedAppend
  <2>4. Folded(op, mid, Append(q, e)) = op[<<Folded(op, mid, q), e>>]
    BY <1>1, FoldedAppend
  <2> QED BY <1>3, <2>1, <2>2, <2>3, <2>4
<1>4. Seq(E) \subseteq G
  <2> HIDE DEF G
  <2> QED BY <1>2, <1>3, AppendInduction
<1> QED BY <1>4 DEF mid

===============================================================================
