------------------------------- MODULE Lemmas -------------------------------
(***************************************************************************)
(* What the proofs share: sequences used as stacks, once of elements of a  *)
(* known set and once of whatever records they hold, and induction.        *)
(***************************************************************************)
EXTENDS Integers, Sequences, SequencesExt, SequenceTheorems,
        WellFoundedInduction, TLAPS

LEMMA WiderSeq ==
  ASSUME NEW S, NEW T, S \subseteq T, NEW s \in Seq(S)
  PROVE  s \in Seq(T)
<1>1. Len(s) \in Nat /\ \A n \in 1 .. Len(s) : s[n] \in T
  OBVIOUS
<1> QED
  BY <1>1

LEMMA ElementShape ==
  ASSUME NEW S, NEW s \in Seq(S)
  PROVE  Len(s) \in Nat /\ DOMAIN s = 1 .. Len(s) /\ \A n \in 1 .. Len(s) : s[n] \in S
OBVIOUS

LEMMA LastShape ==
  ASSUME NEW S, NEW s \in Seq(S), s # << >>
  PROVE  Last(s) = s[Len(s)] /\ Last(s) \in S /\ Len(s) \in Nat /\ Len(s) >= 1
BY DEF Last

LEMMA SubSeqShape ==
  ASSUME NEW S, NEW s \in Seq(S),
         NEW m \in 1 .. Len(s) + 1, NEW n \in m - 1 .. Len(s)
  PROVE  /\ SubSeq(s, m, n) \in Seq(S)
         /\ Len(SubSeq(s, m, n)) = n - m + 1
         /\ \A k \in 1 .. n - m + 1 : SubSeq(s, m, n)[k] = s[m + k - 1]
<1>1. Len(s) \in Nat /\ m \in Int /\ n \in Int
  OBVIOUS
<1>2. \A k \in m .. n : s[k] \in S
  BY <1>1
<1>3. m <= n \/ n - m + 1 = 0
  BY <1>1
<1> QED
  BY <1>1, <1>2, <1>3, SubSeqProperties

LEMMA FrontShape ==
  ASSUME NEW S, NEW s \in Seq(S), s # << >>
  PROVE  /\ Front(s) \in Seq(S) /\ Len(Front(s)) = Len(s) - 1
         /\ \A n \in 1 .. Len(s) - 1 : Front(s)[n] = s[n]
<1>1. Len(s) \in Nat /\ Len(s) >= 1
  OBVIOUS
<1>2. 1 \in 1 .. Len(s) + 1 /\ Len(s) - 1 \in 1 - 1 .. Len(s)
  BY <1>1
<1>3. /\ Front(s) \in Seq(S) /\ Len(Front(s)) = (Len(s) - 1) - 1 + 1
      /\ \A k \in 1 .. (Len(s) - 1) - 1 + 1 : Front(s)[k] = s[1 + k - 1]
  BY <1>2, SubSeqShape, Zenon DEF Front
<1> QED
  BY <1>1, <1>3

LEMMA ReplaceShape ==
  ASSUME NEW S, NEW s \in Seq(S), NEW n \in 1 .. Len(s), NEW e \in S
  PROVE  /\ [s EXCEPT ![n] = e] \in Seq(S)
         /\ Len([s EXCEPT ![n] = e]) = Len(s)
         /\ \A k \in 1 .. Len(s) :
               [s EXCEPT ![n] = e][k] = IF k = n THEN e ELSE s[k]
OBVIOUS

LEMMA AppendShape ==
  ASSUME NEW S, NEW s \in Seq(S), NEW e \in S
  PROVE  /\ Append(s, e) \in Seq(S)
         /\ Len(Append(s, e)) = Len(s) + 1
         /\ Append(s, e)[Len(s) + 1] = e
         /\ \A k \in 1 .. Len(s) : Append(s, e)[k] = s[k]
         /\ Append(s, e) # << >>
OBVIOUS

-----------------------------------------------------------------------------
\* A sequence, of whatever records it holds.
Stack(s) == s \in Seq(Range(s))

LEMMA StackIs ==
  ASSUME NEW S, NEW s \in Seq(S)
  PROVE  Stack(s)
BY DEF Stack, Range

LEMMA StackHas ==
  ASSUME NEW s, Stack(s)
  PROVE  /\ Len(s) \in Nat /\ DOMAIN s = 1 .. Len(s)
         /\ \A n \in 1 .. Len(s) : s[n] \in Range(s)
BY DEF Stack, Range

LEMMA StackPush ==
  ASSUME NEW s, Stack(s), NEW f
  PROVE  /\ Stack(Append(s, f)) /\ Append(s, f) # << >>
         /\ Len(Append(s, f)) = Len(s) + 1
         /\ Append(s, f)[Len(s) + 1] = f
         /\ \A n \in 1 .. Len(s) : Append(s, f)[n] = s[n]
<1> DEFINE S == Range(s) \cup {f}
<1>1. s \in Seq(S)
  BY WiderSeq DEF Stack
<1>2. f \in S
  OBVIOUS
<1> HIDE DEF S
<1>3. /\ Append(s, f) \in Seq(S) /\ Len(Append(s, f)) = Len(s) + 1
      /\ Append(s, f)[Len(s) + 1] = f /\ Append(s, f) # << >>
      /\ \A k \in 1 .. Len(s) : Append(s, f)[k] = s[k]
  BY <1>1, <1>2, AppendShape
<1>4. Stack(Append(s, f))
  BY <1>3, StackIs
<1> QED
  BY <1>3, <1>4

LEMMA StackPop ==
  ASSUME NEW s, Stack(s), s # << >>
  PROVE  /\ Stack(Front(s)) /\ Len(Front(s)) = Len(s) - 1 /\ Len(s) \in Nat \ {0}
         /\ \A n \in 1 .. Len(s) - 1 : Front(s)[n] = s[n]
         /\ Last(s) = s[Len(s)]
<1> DEFINE S == Range(s)
<1>1. s \in Seq(S)
  BY DEF Stack
<1> HIDE DEF S
<1> QED
  BY <1>1, FrontShape, LastShape, StackIs

LEMMA StackTop ==
  ASSUME NEW s, Stack(s), s # << >>, NEW f
  PROVE  LET t == [s EXCEPT ![Len(s)] = f]
         IN  /\ Stack(t) /\ Len(t) = Len(s) /\ t # << >>
             /\ t[Len(s)] = f
             /\ \A n \in 1 .. Len(s) - 1 : t[n] = s[n]
<1> DEFINE S == Range(s) \cup {f}
<1>1. s \in Seq(S)
  BY WiderSeq DEF Stack
<1>2. f \in S /\ Len(s) \in 1 .. Len(s)
  BY StackPop
<1> HIDE DEF S
<1>3. /\ [s EXCEPT ![Len(s)] = f] \in Seq(S)
      /\ Len([s EXCEPT ![Len(s)] = f]) = Len(s)
      /\ \A k \in 1 .. Len(s) : [s EXCEPT ![Len(s)] = f][k] = IF k = Len(s) THEN f ELSE s[k]
  BY <1>1, <1>2, ReplaceShape
<1>4. Stack([s EXCEPT ![Len(s)] = f])
  BY <1>3, StackIs
<1>5. /\ [s EXCEPT ![Len(s)] = f] # << >>
      /\ [s EXCEPT ![Len(s)] = f][Len(s)] = f
  BY <1>2, <1>3
<1>6. \A k \in 1 .. Len(s) - 1 : k \in 1 .. Len(s) /\ k # Len(s)
  BY StackPop
<1>7. \A k \in 1 .. Len(s) - 1 : [s EXCEPT ![Len(s)] = f][k] = s[k]
  BY <1>3, <1>6
<1> QED
  BY <1>3, <1>4, <1>5, <1>7

\* The elements of what is made of stacks.
LEMMA RangeIn ==
  ASSUME NEW S, NEW s \in Seq(S)
  PROVE  /\ Stack(s) /\ Range(s) \subseteq S
         /\ \A n \in 1 .. Len(s) : s[n] \in Range(s)
BY DEF Stack, Range

LEMMA RangeEmpty == Stack(<< >>) /\ Range(<< >>) = {}
BY DEF Stack, Range

LEMMA RangeAppend ==
  ASSUME NEW s, Stack(s), NEW e
  PROVE  Stack(Append(s, e)) /\ Range(Append(s, e)) = Range(s) \cup {e}
<1> DEFINE t == Append(s, e)
<1>1. /\ Stack(t) /\ Len(t) = Len(s) + 1 /\ Len(s) \in Nat
      /\ t[Len(s) + 1] = e /\ \A n \in 1 .. Len(s) : t[n] = s[n]
  BY StackPush, StackHas
<1>2. DOMAIN t = 1 .. Len(s) + 1 /\ DOMAIN s = 1 .. Len(s)
  BY <1>1, StackHas
<1> HIDE DEF t
<1>3. Range(t) = {t[n] : n \in 1 .. Len(s) + 1} /\ Range(s) = {s[n] : n \in 1 .. Len(s)}
  BY <1>2 DEF Range
<1>4. \A n \in 1 .. Len(s) + 1 : n \in 1 .. Len(s) \/ n = Len(s) + 1
  BY <1>1
<1>5. \A n \in 1 .. Len(s) : n \in 1 .. Len(s) + 1
  BY <1>1
<1>6. Len(s) + 1 \in 1 .. Len(s) + 1
  BY <1>1
<1>7. Range(t) = Range(s) \cup {e}
  BY <1>1, <1>3, <1>4, <1>5, <1>6
<1> QED
  BY <1>1, <1>7 DEF t

LEMMA RangeFront ==
  ASSUME NEW s, Stack(s), s # << >>
  PROVE  /\ Stack(Front(s)) /\ Range(Front(s)) \subseteq Range(s)
         /\ Last(s) \in Range(s)
<1>1. s \in Seq(Range(s))
  BY DEF Stack
<1> QED
  BY <1>1, FrontShape, LastShape, RangeIn

LEMMA RangeTail ==
  ASSUME NEW s, Stack(s), s # << >>
  PROVE  /\ Stack(Tail(s)) /\ Range(Tail(s)) \subseteq Range(s)
         /\ Head(s) \in Range(s)
<1> DEFINE S == Range(s)
<1>1. s \in Seq(S)
  BY DEF Stack
<1> HIDE DEF S
<1>2. Tail(s) \in Seq(S) /\ Head(s) \in S
  BY <1>1
<1> QED
  BY <1>2, RangeIn DEF S

LEMMA RangeSubSeq ==
  ASSUME NEW s, Stack(s), NEW m \in 1 .. Len(s) + 1, NEW n \in m - 1 .. Len(s)
  PROVE  Stack(SubSeq(s, m, n)) /\ Range(SubSeq(s, m, n)) \subseteq Range(s)
<1>1. s \in Seq(Range(s))
  BY DEF Stack
<1>2. SubSeq(s, m, n) \in Seq(Range(s))
  BY <1>1, SubSeqShape
<1> QED
  BY <1>2, RangeIn

LEMMA RangeConcat ==
  ASSUME NEW s, NEW t, Stack(s), Stack(t)
  PROVE  Stack(s \o t) /\ Range(s \o t) \subseteq Range(s) \cup Range(t)
<1> DEFINE S == Range(s) \cup Range(t)
<1>1. s \in Seq(S) /\ t \in Seq(S)
  BY WiderSeq DEF Stack
<1> HIDE DEF S
<1>2. s \o t \in Seq(S)
  BY <1>1
<1> QED
  BY <1>2, RangeIn DEF S

-----------------------------------------------------------------------------
(* Induction over the natural numbers *)

\* A set of naturals has a least one.
LEMMA LeastOf ==
  ASSUME NEW T, T \subseteq Nat, T # {}
  PROVE  \E x \in T : \A y \in T : x <= y
<1>1. PICK x \in T : \A y \in T : <<y, x>> \notin OpToRel(<, Nat)
  BY NatLessThanWellFounded, WFMin, Zenon
<1>2. \A y \in T : ~ (y < x)
  BY <1>1, Zenon DEF OpToRel
<1> QED
  BY <1>2

\* ... in a form first-order provers can use: what is proved by induction is that a
\* set holds every number.
LEMMA NatSetInduction ==
  ASSUME NEW S, 0 \in S, \A n \in Nat : n \in S => n + 1 \in S
  PROVE  Nat \subseteq S
<1> SUFFICES ASSUME NEW m \in Nat, m \notin S PROVE FALSE
  OBVIOUS
<1> DEFINE T == Nat \ S
<1>1. T \subseteq Nat /\ T # {}
  OBVIOUS
<1>2. PICK x \in T : \A y \in T : x <= y
  BY <1>1, LeastOf
<1>3. x - 1 \in T /\ x - 1 < x
  OBVIOUS
<1> QED
  BY <1>2, <1>3
=============================================================================
