---------------------------- MODULE MacroProofs -----------------------------
(***************************************************************************)
(* The calls and buffers of the macro expander, for every set of macros,   *)
(* every text and every parser that gives tokens back (TypeCorrect).       *)
(***************************************************************************)
EXTENDS MacroExpand, Lemmas, FiniteSetTheorems

-----------------------------------------------------------------------------
(* Tokens *)

LEMMA TokensAre ==
  ASSUME NEW ts
  PROVE  IsTokens(ts) <=> Stack(ts) /\ \A t \in Range(ts) : IsToken(t)
BY DEF IsTokens, Stack

LEMMA TokensIndex ==
  ASSUME NEW ts, IsTokens(ts)
  PROVE  /\ Len(ts) \in Nat /\ DOMAIN ts = 1 .. Len(ts)
         /\ \A n \in DOMAIN ts : IsToken(ts[n])
BY TokensAre, StackHas

LEMMA TokensEmpty == IsTokens(<< >>)
BY TokensAre, RangeEmpty

LEMMA TokensAppend ==
  ASSUME NEW ts, NEW t, IsTokens(ts), IsToken(t)
  PROVE  IsTokens(Append(ts, t))
BY TokensAre, RangeAppend

LEMMA TokensFront ==
  ASSUME NEW ts, IsTokens(ts), ts # << >>
  PROVE  IsTokens(Front(ts)) /\ IsToken(Last(ts))
<1>1. Stack(ts)
  BY TokensAre
<1> QED
  BY <1>1, TokensAre, RangeFront

LEMMA TokensTail ==
  ASSUME NEW ts, IsTokens(ts), ts # << >>
  PROVE  IsTokens(Tail(ts)) /\ IsToken(Head(ts))
<1>1. Stack(ts)
  BY TokensAre
<1> QED
  BY <1>1, TokensAre, RangeTail

LEMMA TokensConcat ==
  ASSUME NEW ts, NEW us, IsTokens(ts), IsTokens(us)
  PROVE  IsTokens(ts \o us)
<1>1. Stack(ts) /\ Stack(us)
  BY TokensAre
<1> QED
  BY <1>1, TokensAre, RangeConcat

LEMMA HideSetChanged ==
  ASSUME NEW t, IsToken(t), NEW h
  PROVE  IsToken([t EXCEPT !.hs = h])
<1>1. t = [k |-> t.k, s |-> t.s, hs |-> t.hs] /\ t.k # "eof"
  BY DEF IsToken
<1> DEFINE v == [t EXCEPT !.hs = h]
<1>2. v.k = t.k /\ v = [k |-> v.k, s |-> v.s, hs |-> v.hs]
  BY <1>1
<1> QED
  BY <1>1, <1>2 DEF IsToken

LEMMA FreshToken ==
  ASSUME NEW k, NEW s, k # "eof"
  PROVE  IsToken(Fresh(k, s)) /\ Fresh(k, s).k = k
BY DEF IsToken, Fresh

-----------------------------------------------------------------------------
(* Arguments *)

LEMMA ArgsAre ==
  ASSUME NEW as
  PROVE  IsArgs(as) <=> Stack(as) /\ \A a \in Range(as) : IsTokens(a)
BY DEF IsArgs, Stack

LEMMA ArgsIndex ==
  ASSUME NEW as, IsArgs(as)
  PROVE  /\ Len(as) \in Nat /\ DOMAIN as = 1 .. Len(as)
         /\ \A n \in DOMAIN as : IsTokens(as[n])
<1>1. Stack(as) /\ \A a \in Range(as) : IsTokens(a)
  BY ArgsAre
<1> QED
  BY <1>1, StackHas

LEMMA ArgsEmpty == IsArgs(<< >>) /\ Len(<< >>) = 0
BY ArgsAre, RangeEmpty

LEMMA ArgsAppend ==
  ASSUME NEW as, NEW a, IsArgs(as), IsTokens(a)
  PROVE  IsArgs(Append(as, a))
<1>1. Stack(as) /\ \A b \in Range(as) : IsTokens(b)
  BY ArgsAre
<1>2. Stack(Append(as, a)) /\ Range(Append(as, a)) = Range(as) \cup {a}
  BY <1>1, RangeAppend
<1> QED
  BY <1>1, <1>2, ArgsAre

-----------------------------------------------------------------------------
(* Calls *)

Parser    == [k |-> "parser"]
Lower(cs) == IF cs = << >> THEN Parser ELSE Last(cs)

Nested(cs) == /\ Stack(cs)
              /\ \A n \in 1 .. Len(cs) :
                    IsCall(cs[n], IF n = 1 THEN Parser ELSE cs[n - 1])

AllOf(cs)   == {n \in DOMAIN cs : cs[n].k = "all"}
Stashed(cs) == Cardinality(AllOf(cs))

LEMMA StashedNat ==
  ASSUME NEW cs, Stack(cs)
  PROVE  IsFiniteSet(AllOf(cs)) /\ Stashed(cs) \in Nat
<1>1. DOMAIN cs = 1 .. Len(cs) /\ Len(cs) \in Nat
  BY StackHas
<1>2. IsFiniteSet(1 .. Len(cs))
  BY <1>1, FS_Interval
<1>3. AllOf(cs) \subseteq 1 .. Len(cs)
  BY <1>1 DEF AllOf
<1> QED
  BY <1>2, <1>3, FS_Subset, FS_CardinalityType DEF Stashed

LEMMA NestedEmpty == Nested(<< >>) /\ Stashed(<< >>) = 0
<1>1. AllOf(<< >>) = {}
  BY DEF AllOf
<1> QED
  BY <1>1, RangeEmpty, FS_EmptySet DEF Nested, Stashed

LEMMA NestedAppend ==
  ASSUME NEW cs, NEW c, Nested(cs), IsCall(c, Lower(cs))
  PROVE  /\ Nested(Append(cs, c)) /\ Append(cs, c) # << >>
         /\ Last(Append(cs, c)) = c
         /\ Stashed(cs) \in Nat
         /\ Stashed(Append(cs, c)) = Stashed(cs) + (IF c.k = "all" THEN 1 ELSE 0)
<1> DEFINE t == Append(cs, c)
<1>1. Stack(cs) /\ Len(cs) \in Nat /\ DOMAIN cs = 1 .. Len(cs)
  BY StackHas DEF Nested
<1>2. /\ Stack(t) /\ t # << >> /\ Len(t) = Len(cs) + 1 /\ t[Len(cs) + 1] = c
      /\ \A n \in 1 .. Len(cs) : t[n] = cs[n]
  BY <1>1, StackPush
<1>3. DOMAIN t = 1 .. Len(cs) + 1
  BY <1>2, StackHas
<1>4. Last(t) = c
  BY <1>2, StackPop
<1>5. cs # << >> => Last(cs) = cs[Len(cs)]
  BY <1>1, StackPop
<1>6. cs = << >> <=> Len(cs) = 0
  BY <1>1 DEF Stack
<1> HIDE DEF t
<1>7. ASSUME NEW n \in 1 .. Len(t)
      PROVE  IsCall(t[n], IF n = 1 THEN Parser ELSE t[n - 1])
  <2>1. CASE n = Len(cs) + 1
    <3>1. CASE cs = << >>
      BY <2>1, <3>1, <1>2, <1>6 DEF Lower
    <3>2. CASE cs # << >>
      <4>1. n # 1 /\ n - 1 \in 1 .. Len(cs) /\ n - 1 = Len(cs)
        BY <2>1, <3>2, <1>1, <1>6
      <4>2. t[n - 1] = Lower(cs)
        BY <4>1, <3>2, <1>2, <1>5 DEF Lower
      <4> QED
        BY <4>1, <4>2, <2>1, <1>2
    <3> QED
      BY <3>1, <3>2
  <2>2. CASE n # Len(cs) + 1
    <3>1. n \in 1 .. Len(cs) /\ (n # 1 => n - 1 \in 1 .. Len(cs))
      BY <2>2, <1>1, <1>2
    <3>2. IsCall(cs[n], IF n = 1 THEN Parser ELSE cs[n - 1])
      BY <3>1 DEF Nested
    <3>3. t[n] = cs[n] /\ (n # 1 => t[n - 1] = cs[n - 1])
      BY <3>1, <1>2
    <3>4. (IF n = 1 THEN Parser ELSE t[n - 1]) = (IF n = 1 THEN Parser ELSE cs[n - 1])
      BY <3>3
    <3> QED
      BY <3>2, <3>3, <3>4
  <2> QED
    BY <2>1, <2>2
<1>8. AllOf(t) = IF c.k = "all" THEN AllOf(cs) \cup {Len(cs) + 1} ELSE AllOf(cs)
  <2>1. \A n : n \in 1 .. Len(cs) + 1 <=> n \in 1 .. Len(cs) \/ n = Len(cs) + 1
    BY <1>1
  <2> QED
    BY <2>1, <1>1, <1>2, <1>3 DEF AllOf
<1>9. Len(cs) + 1 \notin AllOf(cs)
  BY <1>1 DEF AllOf
<1>10. Stashed(t) = Stashed(cs) + (IF c.k = "all" THEN 1 ELSE 0)
  <2>1. IsFiniteSet(AllOf(cs)) /\ Cardinality(AllOf(cs)) \in Nat
    BY <1>1, StashedNat DEF Stashed
  <2>2. Cardinality(AllOf(cs) \cup {Len(cs) + 1}) = Cardinality(AllOf(cs)) + 1
    BY <1>9, <2>1, FS_AddElement
  <2> QED
    BY <1>8, <2>1, <2>2 DEF Stashed
<1> QED
  BY <1>1, <1>2, <1>4, <1>7, <1>10, StashedNat DEF Nested, t

LEMMA NestedFront ==
  ASSUME NEW cs, Nested(cs), cs # << >>
  PROVE  /\ Nested(Front(cs)) /\ IsCall(Last(cs), Lower(Front(cs)))
         /\ Stashed(Front(cs)) \in Nat
         /\ Stashed(cs) = Stashed(Front(cs)) + (IF Last(cs).k = "all" THEN 1 ELSE 0)
<1> DEFINE t == Front(cs)
<1>1. Stack(cs) /\ Len(cs) \in Nat \ {0} /\ DOMAIN cs = 1 .. Len(cs)
  BY StackHas, StackPop DEF Nested
<1>2. /\ Stack(t) /\ Len(t) = Len(cs) - 1 /\ Last(cs) = cs[Len(cs)]
      /\ \A n \in 1 .. Len(cs) - 1 : t[n] = cs[n]
  BY <1>1, StackPop
<1>3. DOMAIN t = 1 .. Len(cs) - 1
  BY <1>2, StackHas
<1>4. t # << >> => Last(t) = t[Len(t)]
  BY <1>2, StackPop
<1>5. t = << >> <=> Len(t) = 0
  BY <1>2 DEF Stack
<1> HIDE DEF t
<1>6. ASSUME NEW n \in 1 .. Len(cs)
      PROVE  IsCall(cs[n], IF n = 1 THEN Parser ELSE cs[n - 1])
  BY DEF Nested
<1>7. ASSUME NEW n \in 1 .. Len(t)
      PROVE  IsCall(t[n], IF n = 1 THEN Parser ELSE t[n - 1])
  <2>1. n \in 1 .. Len(cs) /\ n \in 1 .. Len(cs) - 1
        /\ (n # 1 => n - 1 \in 1 .. Len(cs) - 1)
    BY <1>1, <1>2
  <2>2. t[n] = cs[n] /\ (n # 1 => t[n - 1] = cs[n - 1])
    BY <2>1, <1>2
  <2>3. (IF n = 1 THEN Parser ELSE t[n - 1]) = (IF n = 1 THEN Parser ELSE cs[n - 1])
    BY <2>2
  <2> QED
    BY <1>6, <2>1, <2>2, <2>3
<1>8. IsCall(Last(cs), Lower(t))
  <2>1. Len(cs) \in 1 .. Len(cs)
    BY <1>1
  <2>2. CASE Len(cs) = 1
    BY <1>6, <2>1, <2>2, <1>2, <1>5 DEF Lower
  <2>3. CASE Len(cs) # 1
    <3>1. Len(t) = Len(cs) - 1 /\ Len(cs) - 1 \in 1 .. Len(cs) - 1 /\ t # << >>
      BY <2>3, <1>1, <1>2, <1>5
    <3>2. Lower(t) = cs[Len(cs) - 1]
      BY <3>1, <1>2, <1>4 DEF Lower
    <3> QED
      BY <3>2, <2>1, <2>3, <1>2, <1>6
  <2> QED
    BY <2>2, <2>3
<1>9. AllOf(cs) = IF Last(cs).k = "all" THEN AllOf(t) \cup {Len(cs)} ELSE AllOf(t)
  <2>1. \A n : n \in 1 .. Len(cs) <=> n \in 1 .. Len(cs) - 1 \/ n = Len(cs)
    BY <1>1
  <2> QED
    BY <2>1, <1>1, <1>2, <1>3 DEF AllOf
<1>10. Len(cs) \notin AllOf(t)
  BY <1>1, <1>3 DEF AllOf
<1>11. Stashed(cs) = Stashed(t) + (IF Last(cs).k = "all" THEN 1 ELSE 0)
  <2>1. IsFiniteSet(AllOf(t)) /\ Cardinality(AllOf(t)) \in Nat
    BY <1>2, StashedNat DEF Stashed
  <2>2. Cardinality(AllOf(t) \cup {Len(cs)}) = Cardinality(AllOf(t)) + 1
    BY <1>10, <2>1, FS_AddElement
  <2> QED
    BY <1>9, <2>1, <2>2 DEF Stashed
<1> QED
  BY <1>2, <1>7, <1>8, <1>11, StashedNat DEF Nested, t

-----------------------------------------------------------------------------
(* What the steps work on *)

Stashes(bs, cs) == /\ Stack(bs) /\ \A b \in Range(bs) : IsTokens(b)
                   /\ Len(bs) = 1 + Stashed(cs)
Passed(o)       == IsTokens(o) /\ \A t \in Range(o) : t.k # "nl"
Defined         == \A s \in DOMAIN macros : IsMacroDef(macros[s])

LEMMA TypesAre ==
  TypeOK <=> /\ phase \in {"read", "end", "error"} /\ nback \in 0 .. MaxBack
             /\ Defined /\ Nested(calls) /\ Stashes(buffers, calls) /\ Passed(out)
<1> DEFINE N == \A n \in 1 .. Len(calls) :
                  IsCall(calls[n], IF n = 1 THEN Parser ELSE calls[n - 1])
<1>1. Stack(calls) => DOMAIN calls = 1 .. Len(calls)
  BY StackHas
<1>2. Stack(calls) => (N <=> \A n \in DOMAIN calls : IsCall(calls[n], Below(n)))
  BY <1>1 DEF Below, Parser
<1>3. Nested(calls) <=> Stack(calls) /\ N
  BY DEF Nested
<1> HIDE DEF N
<1> QED
  BY <1>2, <1>3 DEF TypeOK, Defined, Stashes, Passed, Stashed, AllOf, Stack

\* What a step makes of the calls and buffers is said in the old state.
LEMMA Keeps ==
  ASSUME TypeOK, UNCHANGED macros,
         phase' \in {"read", "end", "error"}, nback' \in 0 .. MaxBack,
         Nested(calls'), Stashes(buffers', calls'), Passed(out')
  PROVE  TypeOK'
<1>1. Defined'
  BY TypesAre DEF Defined
<1>2. Nested(calls)'
  BY DEF Nested, IsCall, IsArgsCall, IsSubst, IsPeek, IsAll, IsMacro
<1>3. Stashes(buffers, calls)' /\ Passed(out)'
  BY DEF Stashes, Passed, Stashed, AllOf
<1>4. (phase \in {"read", "end", "error"} /\ nback \in 0 .. MaxBack)'
  OBVIOUS
<1>5. (phase \in {"read", "end", "error"} /\ nback \in 0 .. MaxBack /\ Defined
         /\ Nested(calls) /\ Stashes(buffers, calls) /\ Passed(out))'
  BY <1>1, <1>2, <1>3, <1>4
<1> QED
  BY <1>5, TypesAre, PTL

\* The token that comes next
LEMMA NextToken ==
  ASSUME TypeOK
  PROVE  /\ buffers # << >> /\ IsTokens(Buf) /\ IsTokens(Rest)
         /\ Tok.k # "eof" => IsToken(Tok) /\ Buf # << >>
         /\ Called => Rest # << >> /\ IsTokens(Tail(Rest))
<1>1. Stashes(buffers, calls) /\ Nested(calls)
  BY TypesAre
<1>2. Stashed(calls) \in Nat
  BY <1>1, StashedNat DEF Nested
<1>3. Stack(buffers) /\ Len(buffers) >= 1 /\ \A b \in Range(buffers) : IsTokens(b)
  BY <1>1, <1>2 DEF Stashes
<1>4. buffers # << >>
  BY <1>3, StackHas
<1>5. IsTokens(Buf)
  BY <1>3, <1>4, RangeFront DEF Buf
<1>6. IsTokens(Rest)
  BY <1>5, TokensEmpty, TokensTail DEF Rest
<1>7. Tok.k # "eof" => IsToken(Tok) /\ Buf # << >>
  BY <1>5, TokensTail DEF Tok, Eof, Fresh
<1>8. ASSUME Called
      PROVE  Rest # << >> /\ IsTokens(Tail(Rest))
  <2>1. Buf \in Seq(Range(Buf)) /\ Len(Buf) \in Nat /\ Len(Buf) > 1
    BY <1>5, <1>8, TokensAre, StackHas DEF Called, Stack
  <2> DEFINE rest == Tail(Buf)
  <2>2. Len(rest) = Len(Buf) - 1 /\ Buf # << >>
    BY <2>1
  <2> HIDE DEF rest
  <2>3. rest # << >>
    BY <2>1, <2>2
  <2>4. Rest # << >>
    BY <2>2, <2>3 DEF Rest, rest
  <2> QED
    BY <2>4, <1>6, TokensTail
<1> QED
  BY <1>4, <1>5, <1>6, <1>7, <1>8

LEMMA Reads ==
  ASSUME TypeOK, NEW cs, Stashed(cs) = Stashed(calls), NEW ts, IsTokens(ts)
  PROVE  Stashes(Append(Front(buffers), ts), cs)
<1>1. Stashes(buffers, calls) /\ buffers # << >>
  BY TypesAre, NextToken
<1>2. Stack(buffers) /\ Len(buffers) \in Nat
  BY <1>1, StackHas DEF Stashes
<1>3. /\ Stack(Front(buffers)) /\ Range(Front(buffers)) \subseteq Range(buffers)
      /\ Len(Front(buffers)) = Len(buffers) - 1
  BY <1>1, <1>2, RangeFront, StackPop
<1>4. /\ Stack(Append(Front(buffers), ts))
      /\ Range(Append(Front(buffers), ts)) = Range(Front(buffers)) \cup {ts}
      /\ Len(Append(Front(buffers), ts)) = Len(Front(buffers)) + 1
  BY <1>3, RangeAppend, StackPush
<1> QED
  BY <1>1, <1>2, <1>3, <1>4 DEF Stashes

\* A step that only reads and gives back tokens.
LEMMA ReadsOnly ==
  ASSUME TypeOK, NEW ts, IsTokens(ts), Ahead(ts), UNCHANGED <<macros, calls>>,
         phase' \in {"read", "end", "error"}, nback' \in 0 .. MaxBack, Passed(out')
  PROVE  TypeOK'
<1>1. Nested(calls')
  BY TypesAre
<1>2. Stashes(Append(Front(buffers), ts), calls')
  BY Reads
<1> QED
  BY <1>1, <1>2, Keeps DEF Ahead

\* A step that enters, leaves or changes calls, none of them of expand_all.
LEMMA CallsOnly ==
  ASSUME TypeOK, NEW ts, IsTokens(ts), Ahead(ts) \/ UNCHANGED buffers,
         UNCHANGED <<macros, phase, nback, out>>,
         Nested(calls'), Stashed(calls') = Stashed(calls)
  PROVE  TypeOK'
<1>1. Stashes(Append(Front(buffers), ts), calls')
  BY Reads
<1>2. Stashes(buffers, calls')
  BY TypesAre DEF Stashes
<1>3. Stashes(buffers', calls')
  BY <1>1, <1>2 DEF Ahead
<1>4. phase' \in {"read", "end", "error"} /\ nback' \in 0 .. MaxBack /\ Passed(out')
  BY TypesAre
<1> QED
  BY <1>3, <1>4, Keeps

-----------------------------------------------------------------------------
(* read_expand *)

LEMMA ErrorStep ==
  ASSUME TypeOK, Error
  PROVE  TypeOK'
<1>1. Nested(calls') /\ Stashes(buffers', calls') /\ Passed(out')
      /\ nback' \in 0 .. MaxBack
  BY TypesAre DEF Error
<1> QED
  BY <1>1, Keeps DEF Error

LEMMA SkipNewlineStep ==
  ASSUME TypeOK, SkipNewline \/ ArgNewline
  PROVE  TypeOK'
<1>1. phase \in {"read", "end", "error"} /\ nback \in 0 .. MaxBack /\ Passed(out)
  BY TypesAre
<1>2. IsTokens(Rest)
  BY NextToken
<1> QED
  BY <1>1, <1>2, ReadsOnly DEF SkipNewline, ArgNewline

LEMMA PassedAppend ==
  ASSUME NEW o, Passed(o), NEW t, IsToken(t), t.k # "nl"
  PROVE  Passed(Append(o, t))
<1>1. Stack(o)
  BY TokensAre DEF Passed
<1> QED
  BY <1>1, TokensAppend, RangeAppend DEF Passed

LEMMA ReadTokenStep ==
  ASSUME TypeOK, ReadToken
  PROVE  TypeOK'
<1>1. phase \in {"read", "end", "error"} /\ nback \in 0 .. MaxBack /\ Passed(out)
  BY TypesAre
<1>2. IsTokens(Rest) /\ (Tok.k # "eof" => IsToken(Tok))
  BY NextToken
<1>3. Tok.k # "nl"
  BY DEF ReadToken, Plain
<1>4. Tok.k # "eof" => Passed(Append(out, Tok))
  BY <1>1, <1>2, <1>3, PassedAppend
<1>5. phase' \in {"read", "end", "error"} /\ Passed(out')
  BY <1>1, <1>4 DEF ReadToken
<1> QED
  BY <1>1, <1>2, <1>5, ReadsOnly DEF ReadToken

LEMMA PeekTokenStep ==
  ASSUME TypeOK, PeekToken
  PROVE  TypeOK'
<1>1. /\ phase \in {"read", "end", "error"} /\ nback \in 0 .. MaxBack /\ Passed(out)
      /\ IsTokens(Rest) /\ (Tok.k # "eof" => IsToken(Tok)) /\ Tok.k # "nl"
  BY TypesAre, NextToken DEF PeekToken, Plain
<1> DEFINE read == IF Tok.k = "eof" THEN out ELSE Append(out, Tok)
<1>2. Passed(read)
  BY <1>1, PassedAppend
<1>3. PICK n \in 1 .. back :
         /\ n <= Len(read)
         /\ Ahead(SubSeq(read, Len(read) - n + 1, Len(read)) \o Rest)
         /\ out' = SubSeq(read, 1, Len(read) - n)
  BY DEF PeekToken
<1> HIDE DEF read
<1>4. Stack(read) /\ Len(read) \in Nat /\ \A t \in Range(read) : IsToken(t) /\ t.k # "nl"
  BY <1>2, TokensAre, StackHas DEF Passed
<1>5. /\ Len(read) - n + 1 \in 1 .. Len(read) + 1
      /\ Len(read) \in (Len(read) - n + 1) - 1 .. Len(read)
      /\ 1 \in 1 .. Len(read) + 1 /\ Len(read) - n \in 1 - 1 .. Len(read)
  BY <1>3, <1>4
<1> DEFINE given == SubSeq(read, Len(read) - n + 1, Len(read))
           kept  == SubSeq(read, 1, Len(read) - n)
<1>6. Stack(given) /\ Range(given) \subseteq Range(read)
  BY <1>4, <1>5, RangeSubSeq
<1>7. Stack(kept) /\ Range(kept) \subseteq Range(read)
  BY <1>4, <1>5, RangeSubSeq
<1> HIDE DEF given, kept
<1>8. IsTokens(given) /\ Passed(kept)
  BY <1>4, <1>6, <1>7, TokensAre DEF Passed
<1>9. IsTokens(given \o Rest)
  BY <1>1, <1>8, TokensConcat
<1>10. Ahead(given \o Rest) /\ out' = kept
  BY <1>3 DEF given, kept
<1>11. nback' \in 0 .. MaxBack /\ UNCHANGED <<macros, calls, phase>>
  BY <1>1, MacroAssumption DEF PeekToken
<1> QED
  BY <1>1, <1>8, <1>9, <1>10, <1>11, ReadsOnly

\* Any call may be under the one that an expansion enters.
LEMMA Entered ==
  ASSUME TypeOK, NEW c, IsCall(c, Lower(calls)), c.k # "all"
  PROVE  /\ Nested(Append(calls, c)) /\ Stashed(Append(calls, c)) = Stashed(calls)
         /\ Lower(Append(calls, c)) = c
<1>1. Nested(calls)
  BY TypesAre
<1> DEFINE opened == Append(calls, c)
<1>2. /\ Nested(opened) /\ opened # << >> /\ Last(opened) = c
      /\ Stashed(calls) \in Nat
      /\ Stashed(opened) = Stashed(calls) + (IF c.k = "all" THEN 1 ELSE 0)
  BY <1>1, NestedAppend
<1> HIDE DEF opened
<1>3. Nested(opened) /\ Stashed(opened) = Stashed(calls) /\ Lower(opened) = c
  BY <1>2 DEF Lower
<1> QED
  BY <1>3 DEF opened

\* What a call that is being read or substituted is replaced by.
LEMMA Replaced ==
  ASSUME TypeOK, calls # << >>, NEW c, IsCall(c, Lower(Front(calls))),
         c.k = "all" <=> Frame.k = "all"
  PROVE  /\ Nested(Append(Front(calls), c))
         /\ Stashed(Append(Front(calls), c)) = Stashed(calls)
<1>1. Nested(calls)
  BY TypesAre
<1>2. /\ Nested(Front(calls)) /\ Stashed(Front(calls)) \in Nat
      /\ Stashed(calls) = Stashed(Front(calls)) + (IF Frame.k = "all" THEN 1 ELSE 0)
  BY <1>1, NestedFront DEF Frame
<1> QED
  BY <1>2, NestedAppend

LEMMA SubstCall ==
  ASSUME Defined, NEW m \in Range(macros), NEW args, IsArgs(args),
         Len(args) = Len(m.params), NEW hs, NEW below
  PROVE  IsCall(Subst(m, args, hs), below) /\ Subst(m, args, hs).k = "subst"
<1>1. IsMacroDef(m)
  BY DEF Defined, Range
<1>2. Len(m.body) \in Nat
  BY <1>1, TokensIndex DEF IsMacroDef
<1>3. 1 \in 1 .. Len(m.body) + 1
  BY <1>2
<1> QED
  BY <1>3, TokensEmpty DEF IsCall, IsSubst, Subst

LEMMA MacroOfToken ==
  ASSUME TypeOK, NEW t, IsMacro(t)
  PROVE  macros[t.s] \in Range(macros) /\ IsMacroDef(macros[t.s])
BY TypesAre DEF IsMacro, Defined, Range

LEMMA ExpandObjStep ==
  ASSUME TypeOK, ExpandObj
  PROVE  TypeOK'
<1>1. /\ Macro \in Range(macros) /\ IsMacroDef(Macro) /\ Defined
      /\ IsTokens(Rest) /\ Macro.kind = "obj"
  BY MacroOfToken, TypesAre, NextToken DEF ExpandObj, Expandable, Macro
<1>2. Len(<< >>) = Len(Macro.params)
  BY <1>1 DEF IsMacroDef
<1> DEFINE c == Subst(Macro, << >>, Tok.hs \cup {Tok.s})
<1>3. IsCall(c, Lower(calls)) /\ c.k = "subst"
  BY <1>1, <1>2, ArgsEmpty, SubstCall
<1> HIDE DEF c
<1>4. Nested(Append(calls, c)) /\ Stashed(Append(calls, c)) = Stashed(calls)
  BY <1>3, Entered
<1>5. Ahead(Rest) /\ UNCHANGED <<macros, phase, nback, out>> /\ calls' = Append(calls, c)
  BY DEF ExpandObj, c
<1> QED
  BY <1>1, <1>4, <1>5, CallsOnly

LEMMA ExpandSpecialStep ==
  ASSUME TypeOK, ExpandSpecial
  PROVE  TypeOK'
<1> DEFINE t == [k |-> "num", s |-> << >>, hs |-> Tok.hs]
<1>1. IsToken(t)
  BY DEF IsToken
<1>2. ExpandSpecial => Ahead(<<t>> \o Rest) /\ UNCHANGED <<macros, calls, out, phase, nback>>
  BY DEF ExpandSpecial
<1> HIDE DEF t
<1>3. IsTokens(<<t>>)
  <2> DEFINE ts == <<t>>
  <2>1. ts \in Seq({t})
    OBVIOUS
  <2> HIDE DEF ts
  <2>2. Stack(ts) /\ Range(ts) \subseteq {t}
    BY <2>1, RangeIn
  <2>3. IsTokens(ts)
    BY <1>1, <2>2, TokensAre
  <2> QED
    BY <2>3 DEF ts
<1>4. IsTokens(<<t>> \o Rest)
  BY <1>3, NextToken, TokensConcat
<1>5. phase \in {"read", "end", "error"} /\ nback \in 0 .. MaxBack /\ Passed(out)
  BY TypesAre
<1> QED
  BY <1>2, <1>4, <1>5, ReadsOnly

LEMMA OpenCallStep ==
  ASSUME TypeOK, OpenCall
  PROVE  TypeOK'
<1>1. /\ IsMacro(Tok) /\ Macro.kind = "func" /\ IsTokens(Tail(Rest))
      /\ Ahead(Tail(Rest)) /\ UNCHANGED <<macros, phase, nback, out>>
  BY NextToken DEF OpenCall, Expandable
<1>2. IsToken(Tok)
  BY <1>1, NextToken DEF IsMacro
<1> DEFINE c == [k |-> "args", name |-> Tok, args |-> << >>, arg |-> << >>, level |-> 0]
           opened == Append(calls, c)
           peek == [k |-> "peek"]
<1>3. IsCall(c, Lower(calls)) /\ c.k = "args" /\ c.args = << >> /\ c.name = Tok
  BY <1>1, <1>2, ArgsEmpty, TokensEmpty DEF IsCall, IsArgsCall, Macro
<1>4. Macro.params = << >> => IsCall(peek, c) /\ peek.k = "peek"
  BY <1>3 DEF IsCall, IsPeek, Macro
<1>5. calls' = IF Macro.params = << >> THEN Append(opened, peek) ELSE opened
  BY DEF OpenCall
<1> HIDE DEF c, peek
<1>6. Nested(opened) /\ Stashed(opened) = Stashed(calls) /\ Lower(opened) = c
  BY <1>3, Entered
<1> HIDE DEF opened
<1>7. Macro.params = << >> => /\ Nested(Append(opened, peek))
                              /\ Stashed(Append(opened, peek)) = Stashed(opened) + 0
                              /\ Stashed(opened) \in Nat
  BY <1>4, <1>6, NestedAppend
<1>8. Nested(calls') /\ Stashed(calls') = Stashed(calls)
  BY <1>5, <1>6, <1>7
<1> QED
  BY <1>1, <1>8, CallsOnly

-----------------------------------------------------------------------------
(* The arguments of a call *)

\* The call on top, and what it returns to.
LEMMA TopCall ==
  ASSUME TypeOK, calls # << >>
  PROVE  /\ IsCall(Frame, Lower(Front(calls)))
         /\ Nested(Front(calls)) /\ Stashed(Front(calls)) \in Nat
         /\ Stashed(calls) = Stashed(Front(calls)) + (IF Frame.k = "all" THEN 1 ELSE 0)
         /\ Frame.k = "args"  => IsArgsCall(Frame)
         /\ Frame.k = "subst" => IsSubst(Frame)
<1>1. Nested(calls)
  BY TypesAre
<1> QED
  BY <1>1, NestedFront DEF Frame, IsCall

\* A call whose list is complete gives way to the substitution of its body.
LEMMA EnterStep ==
  ASSUME TypeOK, NEW f, IsMacro(f.name), NEW args, IsArgs(args),
         Len(args) = Len(macros[f.name.s].params),
         NEW below, Nested(below), Stashed(below) = Stashed(calls),
         Enter(f, args, below)
  PROVE  TypeOK'
<1> DEFINE m == macros[f.name.s]
           hs == HideOfCall(f.name, Tok)
           c == Subst(m, args, hs)
<1>1. m \in Range(macros) /\ Defined
  BY MacroOfToken, TypesAre
<1>2. Ahead(Rest) /\ UNCHANGED <<macros, phase, nback, out>> /\ calls' = Append(below, c)
  BY DEF Enter
<1>3. Len(args) = Len(m.params)
  OBVIOUS
<1> HIDE DEF m, hs
<1>4. IsCall(c, Lower(below)) /\ c.k = "subst"
  BY <1>1, <1>3, SubstCall
<1> HIDE DEF c
<1>5. Nested(Append(below, c)) /\ Stashed(Append(below, c)) = Stashed(below)
  BY <1>4, NestedAppend
<1> QED
  BY <1>2, <1>5, NextToken, CallsOnly

LEMMA PeekParenStep ==
  ASSUME TypeOK, PeekParen
  PROVE  TypeOK'
<1>1. calls # << >> /\ Frame.k = "peek"
  BY DEF PeekParen, InCall
<1> DEFINE cs == Front(calls)
           f  == Last(cs)
<1>2. /\ IsPeek(Frame, Lower(cs)) /\ Nested(cs) /\ Stashed(cs) = Stashed(calls)
  BY <1>1, TopCall DEF IsCall
<1>3. cs # << >> /\ Lower(cs) = f
  BY <1>2 DEF IsPeek, Lower, Parser
<1>4. IsCall(f, Lower(Front(cs))) /\ f.k = "args" /\ f.args = << >>
      /\ macros[f.name.s].params = << >>
  BY <1>2, <1>3, NestedFront DEF IsPeek
<1>5. Nested(Front(cs)) /\ Stashed(Front(cs)) = Stashed(calls)
  BY <1>2, <1>3, <1>4, NestedFront
<1>6. CASE Tok.k = ")"
  <2>1. Enter(f, << >>, Front(cs))
    BY <1>6 DEF PeekParen
  <2>2. IsMacro(f.name)
    BY <1>4 DEF IsCall, IsArgsCall
  <2> HIDE DEF cs, f
  <2> QED
    BY <2>1, <2>2, <1>4, <1>5, ArgsEmpty, EnterStep
<1>7. CASE Tok.k # ")"
  <2>1. calls' = cs /\ UNCHANGED <<macros, buffers, out, phase, nback>>
    BY <1>7 DEF PeekParen
  <2> HIDE DEF cs
  <2> QED
    BY <2>1, <1>2, TokensEmpty, CallsOnly
<1> QED
  BY <1>6, <1>7

LEMMA ArgCommaStep ==
  ASSUME TypeOK, ArgComma
  PROVE  TypeOK'
<1>1. calls # << >> /\ Frame.k = "args" /\ IsArgsCall(Frame)
  BY TopCall DEF ArgComma, InCall
<1> DEFINE args == Append(Frame.args, Frame.arg)
           c == [Frame EXCEPT !.args = args, !.arg = << >>]
<1>2. c = [k |-> "args", name |-> Frame.name, args |-> args, arg |-> << >>,
           level |-> Frame.level]
  <2> DEFINE S == [k : {"args"}, name : {Frame.name}, args : {Frame.args, args},
                   arg : {Frame.arg, << >>}, level : {Frame.level}]
  <2>1. Frame \in S
    BY <1>1 DEF IsArgsCall
  <2> HIDE DEF args
  <2>2. c \in S /\ c.args = args /\ c.arg = << >>
    BY <2>1
  <2> HIDE DEF c
  <2> QED
    BY <2>2
<1>3. IsArgs(args)
  BY <1>1, ArgsAppend DEF IsArgsCall
<1>4. IsCall(c, Lower(Front(calls))) /\ c.k = "args"
  <2> HIDE DEF args, c
  <2> QED
    BY <1>1, <1>2, <1>3, TokensEmpty DEF IsCall, IsArgsCall
<1>5. calls' = Append(Front(calls), c) /\ Ahead(Rest)
      /\ UNCHANGED <<macros, out, phase, nback>>
  BY DEF ArgComma, Within
<1> HIDE DEF c
<1> QED
  BY <1>1, <1>4, <1>5, Replaced, NextToken, CallsOnly

LEMMA ArgTokenStep ==
  ASSUME TypeOK, ArgToken
  PROVE  TypeOK'
<1>1. calls # << >> /\ Frame.k = "args" /\ IsArgsCall(Frame) /\ IsToken(Tok)
  BY TopCall, NextToken DEF ArgToken, InCall
<1> DEFINE arg == Append(Frame.arg, Tok)
           level == Frame.level + Nesting
           c == [Frame EXCEPT !.arg = arg, !.level = level]
<1>2. c = [k |-> "args", name |-> Frame.name, args |-> Frame.args, arg |-> arg,
           level |-> level]
  <2> DEFINE S == [k : {"args"}, name : {Frame.name}, args : {Frame.args},
                   arg : {Frame.arg, arg}, level : {Frame.level, level}]
  <2>1. Frame \in S
    BY <1>1 DEF IsArgsCall
  <2> HIDE DEF arg, level
  <2>2. c \in S /\ c.arg = arg /\ c.level = level
    BY <2>1
  <2> HIDE DEF c
  <2> QED
    BY <2>2
<1>3. IsTokens(arg)
  BY <1>1, TokensAppend DEF IsArgsCall
<1>4. level \in Nat
  <2>1. Frame.level \in Nat /\ (Frame.level = 0 => Tok.k # ")")
    BY <1>1 DEF IsArgsCall, ArgToken, Separates
  <2>2. Nesting \in {-1, 0, 1} /\ (Nesting = -1 => Tok.k = ")")
    BY DEF Nesting
  <2> QED
    BY <2>1, <2>2
<1>5. IsCall(c, Lower(Front(calls))) /\ c.k = "args"
  <2> HIDE DEF arg, level, c
  <2> QED
    BY <1>1, <1>2, <1>3, <1>4 DEF IsCall, IsArgsCall
<1>6. calls' = Append(Front(calls), c) /\ Ahead(Rest)
      /\ UNCHANGED <<macros, out, phase, nback>>
  BY DEF ArgToken, Within
<1> HIDE DEF c
<1> QED
  BY <1>1, <1>5, <1>6, Replaced, NextToken, CallsOnly

LEMMA ArgEndStep ==
  ASSUME TypeOK, ArgEnd
  PROVE  TypeOK'
<1>1. calls # << >> /\ Frame.k = "args" /\ IsArgsCall(Frame)
  BY TopCall DEF ArgEnd, InCall
<1> DEFINE given == Append(Frame.args, Frame.arg)
           args  == IF Named.va /\ Len(given) = Len(Named.params) - 1
                    THEN Append(given, << >>) ELSE given
<1>2. IsArgs(args)
  <2>1. IsArgs(given)
    BY <1>1, ArgsAppend DEF IsArgsCall
  <2> HIDE DEF given
  <2>2. IsArgs(Append(given, << >>))
    BY <2>1, TokensEmpty, ArgsAppend
  <2> QED
    BY <2>1, <2>2
<1>3. IF Len(args) # Len(Named.params) THEN Error ELSE Enter(Frame, args, Front(calls))
  BY DEF ArgEnd
<1> HIDE DEF args
<1>4. CASE Len(args) # Len(Named.params)
  BY <1>3, <1>4, ErrorStep
<1>5. CASE Len(args) = Len(Named.params)
  <2>1. Enter(Frame, args, Front(calls)) /\ Len(args) = Len(macros[Frame.name.s].params)
    BY <1>3, <1>5 DEF Named
  <2>2. Nested(Front(calls)) /\ Stashed(Front(calls)) = Stashed(calls)
    BY <1>1, TopCall
  <2>3. IsMacro(Frame.name)
    BY <1>1 DEF IsArgsCall
  <2> QED
    BY <1>2, <2>1, <2>2, <2>3, EnterStep
<1> QED
  BY <1>4, <1>5

-----------------------------------------------------------------------------
(* subst *)

\* subst is at a token of the body, and knows an argument for each parameter.
LEMMA InBody ==
  ASSUME TypeOK, In
  PROVE  /\ calls # << >> /\ Frame.k = "subst" /\ IsSubst(Frame)
         /\ Frame.i \in Nat /\ Frame.i <= Len(Frame.m.body)
         /\ IsToken(T0) /\ (HasT1 => IsToken(T1))
         /\ \A t : IsParam(t) => IsTokens(Arg(t))
<1>1. calls # << >> /\ Frame.k = "subst" /\ IsSubst(Frame)
  BY TopCall DEF In, InCall
<1>2. IsMacroDef(Frame.m)
  BY <1>1, TypesAre DEF IsSubst, Defined, Range
<1>3. /\ Len(Frame.m.body) \in Nat /\ DOMAIN Frame.m.body = 1 .. Len(Frame.m.body)
      /\ \A n \in DOMAIN Frame.m.body : IsToken(Frame.m.body[n])
  BY <1>2, TokensIndex DEF IsMacroDef
<1>4. Frame.i \in 1 .. Len(Frame.m.body) + 1 /\ Frame.i <= Len(Frame.m.body)
  BY <1>1 DEF IsSubst, In, At
<1>5. IsToken(T0)
  BY <1>3, <1>4 DEF T0, T
<1>6. HasT1 => IsToken(T1)
  BY <1>3, <1>4 DEF HasT1, At, T1, T
<1>7. ASSUME NEW t, IsParam(t)
      PROVE  IsTokens(Arg(t))
  <2>1. /\ IsArgs(Frame.args) /\ Len(Frame.args) = Len(Frame.m.params)
        /\ Stack(Frame.m.params)
    BY <1>1, <1>2 DEF IsSubst, IsMacroDef, Stack
  <2>2. DOMAIN Frame.args = DOMAIN Frame.m.params
    BY <2>1, ArgsIndex, StackHas
  <2>3. \E p \in DOMAIN Frame.m.params : Frame.m.params[p] = t.s
    BY <1>7 DEF IsParam, Range
  <2> DEFINE at == CHOOSE n \in DOMAIN Frame.m.params : Frame.m.params[n] = t.s
  <2>4. at \in DOMAIN Frame.m.params
    BY <2>3
  <2> HIDE DEF at
  <2>5. IsTokens(Frame.args[at])
    BY <2>1, <2>2, <2>4, ArgsIndex
  <2> QED
    BY <2>5 DEF Arg, at
<1> QED
  BY <1>1, <1>3, <1>4, <1>5, <1>6, <1>7

LEMMA DoneStep ==
  ASSUME TypeOK, In, NEW n \in 1 .. 2, n = 2 => HasT1, NEW r, IsTokens(r), NEW hs,
         Done(n, r, hs)
  PROVE  TypeOK'
<1>1. /\ calls # << >> /\ Frame.k = "subst" /\ IsSubst(Frame)
      /\ Frame.i \in Nat /\ Frame.i <= Len(Frame.m.body)
  BY InBody
<1>2. Len(Frame.m.body) \in Nat
  <2>1. IsMacroDef(Frame.m)
    BY <1>1, TypesAre DEF IsSubst, Defined, Range
  <2> QED
    BY <2>1, TokensIndex DEF IsMacroDef
<1> DEFINE j == Frame.i + n
           c == [Frame EXCEPT !.i = j, !.r = r, !.hs = hs]
<1>3. j \in 1 .. Len(Frame.m.body) + 1
  BY <1>1, <1>2 DEF HasT1, At
<1>4. c = [k |-> "subst", m |-> Frame.m, args |-> Frame.args, hs |-> hs, i |-> j,
           r |-> r]
  <2> DEFINE S == [k : {"subst"}, m : {Frame.m}, args : {Frame.args},
                   hs : {Frame.hs, hs}, i : {Frame.i, j}, r : {Frame.r, r}]
  <2>1. Frame \in S
    BY <1>1 DEF IsSubst
  <2> HIDE DEF j
  <2>2. c \in S /\ c.i = j /\ c.r = r /\ c.hs = hs
    BY <2>1
  <2> HIDE DEF c
  <2> QED
    BY <2>2
<1>5. IsCall(c, Lower(Front(calls))) /\ c.k = "subst"
  <2> HIDE DEF j, c
  <2> QED
    BY <1>1, <1>3, <1>4 DEF IsCall, IsSubst
<1>6. calls' = Append(Front(calls), c) /\ UNCHANGED <<macros, buffers, out, phase, nback>>
  BY DEF Done, Within
<1> HIDE DEF c
<1> QED
  BY <1>1, <1>5, <1>6, Replaced, TokensEmpty, CallsOnly

LEMMA FrameResult ==
  ASSUME TypeOK, In
  PROVE  IsTokens(Frame.r)
BY InBody DEF IsSubst

LEMMA GlueStep ==
  ASSUME TypeOK, In, NEW n \in 1 .. 2, n = 2 => HasT1, NEW r, IsTokens(r),
         NEW t, NEW rest, IsTokens(rest), NEW hs, GlueOr(n, r, t, rest, hs)
  PROVE  TypeOK'
<1>1. CASE Glues(r, t)
  <2> DEFINE g == Fresh("id", Last(r).s \o t.s)
  <2>1. IsToken(g)
    BY FreshToken
  <2>2. Glue(r, t) = Append(Front(r), g)
    BY DEF Glue
  <2> HIDE DEF g
  <2>3. IsTokens(Glue(r, t))
    BY <1>1, <2>1, <2>2, TokensFront, TokensAppend DEF Glues
  <2>4. IsTokens(Glue(r, t) \o rest)
    BY <2>3, TokensConcat
  <2>5. Done(n, Glue(r, t) \o rest, hs)
    BY <1>1 DEF GlueOr
  <2> QED
    BY <2>4, <2>5, DoneStep
<1>2. CASE ~ Glues(r, t)
  BY <1>2, ErrorStep DEF GlueOr
<1> QED
  BY <1>1, <1>2

LEMMA StringizeStep ==
  ASSUME TypeOK, Stringize
  PROVE  TypeOK'
<1> DEFINE t == Fresh("str", [a \in DOMAIN Arg(T1) |-> Spelling(Arg(T1)[a])])
<1>1. In /\ HasT1 /\ Done(2, Append(Frame.r, t), Frame.hs)
  BY DEF Stringize, IsStringize
<1>2. IsToken(t)
  BY FreshToken
<1> HIDE DEF t
<1> QED
  BY <1>1, <1>2, FrameResult, TokensAppend, DoneStep

LEMMA PasteArgStep ==
  ASSUME TypeOK, PasteArg
  PROVE  TypeOK'
<1> DEFINE arg == Arg(T1)
           r   == Frame.r
           hs  == Frame.hs
<1>1. In /\ HasT1 /\ IsTokens(r) /\ IsTokens(arg)
  BY InBody, FrameResult DEF PasteArg, IsPasteArg
<1>2. \/ r # << >> /\ Done(2, Front(r), hs)
      \/ Done(2, r \o arg, hs)
      \/ Done(2, r, hs)
      \/ arg # << >> /\ GlueOr(2, r, Head(arg), Tail(arg), hs)
  BY DEF PasteArg
<1> HIDE DEF arg, r, hs
<1>3. CASE r # << >> /\ Done(2, Front(r), hs)
  BY <1>1, <1>3, TokensFront, DoneStep
<1>4. CASE Done(2, r \o arg, hs)
  BY <1>1, <1>4, TokensConcat, DoneStep
<1>5. CASE Done(2, r, hs)
  BY <1>1, <1>5, DoneStep
<1>6. CASE arg # << >> /\ GlueOr(2, r, Head(arg), Tail(arg), hs)
  BY <1>1, <1>6, TokensTail, GlueStep
<1> QED
  BY <1>2, <1>3, <1>4, <1>5, <1>6

LEMMA PasteStep ==
  ASSUME TypeOK, Paste
  PROVE  TypeOK'
<1>1. In /\ HasT1 /\ IsTokens(Frame.r) /\ GlueOr(2, Frame.r, T1, << >>, T1.hs)
  BY FrameResult DEF Paste, IsPaste
<1> QED
  BY <1>1, TokensEmpty, GlueStep

LEMMA PastedStep ==
  ASSUME TypeOK, Pasted
  PROVE  TypeOK'
<1>1. In /\ HasT1 /\ IsTokens(Frame.r) /\ IsTokens(Arg(T0))
  BY InBody, FrameResult DEF Pasted, IsPasted
<1>2. Done(2, Frame.r, T1.hs) \/ Done(1, Frame.r \o Arg(T0), T1.hs)
  BY DEF Pasted
<1>3. CASE Done(2, Frame.r, T1.hs)
  BY <1>1, <1>3, DoneStep
<1>4. CASE Done(1, Frame.r \o Arg(T0), T1.hs)
  BY <1>1, <1>4, TokensConcat, DoneStep
<1> QED
  BY <1>2, <1>3, <1>4

LEMMA CopyStep ==
  ASSUME TypeOK, Copy
  PROVE  TypeOK'
<1>1. In /\ IsToken(T0) /\ IsTokens(Frame.r) /\ Done(1, Append(Frame.r, T0), Frame.hs)
  BY InBody, FrameResult DEF Copy
<1> QED
  BY <1>1, TokensAppend, DoneStep

LEMMA OpenArgStep ==
  ASSUME TypeOK, OpenArg
  PROVE  TypeOK'
<1> DEFINE c == [k |-> "all", r |-> << >>]
<1>1. /\ In /\ IsTokens(Arg(T0)) /\ calls # << >> /\ Frame.k = "subst"
      /\ Frame.i <= Len(Frame.m.body)
  BY InBody DEF OpenArg
<1>2. IsCall(c, Lower(calls)) /\ c.k = "all"
  BY <1>1, TokensEmpty DEF IsCall, IsAll, Lower, Frame
<1>3. /\ buffers' = Append(buffers, Arg(T0)) /\ calls' = Append(calls, c)
      /\ UNCHANGED <<macros, out, phase, nback>>
  BY DEF OpenArg
<1> HIDE DEF c
<1>4. Nested(calls) /\ Stashes(buffers, calls)
  BY TypesAre
<1>5. /\ Nested(Append(calls, c)) /\ Stashed(calls) \in Nat
      /\ Stashed(Append(calls, c)) = Stashed(calls) + 1
  BY <1>2, <1>4, NestedAppend
<1>6. /\ Stack(Append(buffers, Arg(T0)))
      /\ Range(Append(buffers, Arg(T0))) = Range(buffers) \cup {Arg(T0)}
      /\ Len(Append(buffers, Arg(T0))) = Len(buffers) + 1
  BY <1>4, RangeAppend, StackPush DEF Stashes
<1>7. Stashes(Append(buffers, Arg(T0)), Append(calls, c))
  BY <1>1, <1>4, <1>5, <1>6 DEF Stashes
<1>8. phase' \in {"read", "end", "error"} /\ nback' \in 0 .. MaxBack /\ Passed(out')
  BY <1>3, TypesAre
<1> QED
  BY <1>3, <1>5, <1>7, <1>8, Keeps

LEMMA CollectArgStep ==
  ASSUME TypeOK, CollectArg
  PROVE  TypeOK'
<1> DEFINE r == Append(Frame.r, Tok)
           c == [Frame EXCEPT !.r = r]
<1>1. calls # << >> /\ Frame.k = "all" /\ IsToken(Tok)
  BY NextToken DEF CollectArg, InCall
<1>2. IsAll(Frame, Lower(Front(calls)))
  BY <1>1, TopCall DEF IsCall
<1>3. IsTokens(r)
  BY <1>1, <1>2, TokensAppend DEF IsAll
<1>4. c = [k |-> "all", r |-> r]
  BY <1>2 DEF IsAll
<1>5. calls' = Append(Front(calls), c) /\ Ahead(Rest) /\ UNCHANGED <<macros, out, phase, nback>>
  BY DEF CollectArg, Within
<1> HIDE DEF r, c
<1>6. IsCall(c, Lower(Front(calls))) /\ c.k = "all"
  BY <1>2, <1>3, <1>4 DEF IsCall, IsAll
<1> QED
  BY <1>1, <1>5, <1>6, Replaced, NextToken, CallsOnly

\* The call below the expansion of an argument goes on in its body.
LEMMA CloseArgStep ==
  ASSUME TypeOK, CloseArg
  PROVE  TypeOK'
<1> DEFINE cs == Front(calls)
           f  == Last(cs)
           i  == f.i + 1
           r  == f.r \o Frame.r
           c  == [f EXCEPT !.i = i, !.r = r]
<1>1. calls # << >> /\ Frame.k = "all"
  BY DEF CloseArg, InCall
<1>2. /\ IsAll(Frame, Lower(cs)) /\ Nested(cs) /\ Stashed(cs) \in Nat
      /\ Stashed(calls) = Stashed(cs) + 1
  BY <1>1, TopCall DEF IsCall
<1>3. cs # << >> /\ Lower(cs) = f
  BY <1>2 DEF IsAll, Lower, Parser
<1>4. /\ IsCall(f, Lower(Front(cs))) /\ f.k = "subst" /\ f.i <= Len(f.m.body)
      /\ Nested(Front(cs)) /\ Stashed(Front(cs)) = Stashed(cs)
  BY <1>2, <1>3, NestedFront DEF IsAll
<1>5. IsSubst(f)
  BY <1>4 DEF IsCall
<1>6. IsTokens(r)
  BY <1>2, <1>5, TokensConcat DEF IsAll, IsSubst
<1>7. i \in 1 .. Len(f.m.body) + 1
  <2>1. IsMacroDef(f.m)
    BY <1>5, TypesAre DEF IsSubst, Defined, Range
  <2>2. Len(f.m.body) \in Nat /\ f.i \in 1 .. Len(f.m.body) + 1
    BY <1>5, <2>1, TokensIndex DEF IsMacroDef, IsSubst
  <2> QED
    BY <1>4, <2>2
<1>8. c = [k |-> "subst", m |-> f.m, args |-> f.args, hs |-> f.hs, i |-> i, r |-> r]
  <2> DEFINE S == [k : {"subst"}, m : {f.m}, args : {f.args}, hs : {f.hs},
                   i : {f.i, i}, r : {f.r, r}]
  <2>1. f \in S
    BY <1>5 DEF IsSubst
  <2> HIDE DEF i, r, f
  <2>2. c \in S /\ c.i = i /\ c.r = r
    BY <2>1
  <2> HIDE DEF c
  <2> QED
    BY <2>2
<1>9. /\ calls' = Append(Front(cs), c) /\ buffers' = Front(buffers)
      /\ UNCHANGED <<macros, out, phase, nback>>
  BY DEF CloseArg, BackInBody
<1>10. IsCall(c, Lower(Front(cs))) /\ c.k = "subst"
  <2> HIDE DEF i, r, f, c
  <2> QED
    BY <1>5, <1>6, <1>7, <1>8 DEF IsCall, IsSubst
<1> HIDE DEF c, f
<1>11. Nested(calls') /\ Stashed(calls') = Stashed(cs)
  BY <1>2, <1>4, <1>9, <1>10, NestedAppend
<1>12. Stashes(buffers', calls')
  <2>1. Stashes(buffers, calls) /\ buffers # << >>
    BY TypesAre, NextToken
  <2>2. /\ Stack(Front(buffers)) /\ Range(Front(buffers)) \subseteq Range(buffers)
        /\ Len(Front(buffers)) = Len(buffers) - 1 /\ Len(buffers) \in Nat
    BY <2>1, RangeFront, StackPop DEF Stashes
  <2> QED
    BY <1>2, <1>9, <1>11, <2>1, <2>2 DEF Stashes
<1>13. phase' \in {"read", "end", "error"} /\ nback' \in 0 .. MaxBack /\ Passed(out')
  BY <1>9, TypesAre
<1> QED
  BY <1>9, <1>11, <1>12, <1>13, Keeps

LEMMA RescanStep ==
  ASSUME TypeOK, Rescan
  PROVE  TypeOK'
<1> DEFINE ts == [n \in DOMAIN Frame.r |->
                    [Frame.r[n] EXCEPT !.hs = @ \cup Frame.hs]]
<1>1. calls # << >> /\ Frame.k = "subst" /\ IsSubst(Frame)
  BY TopCall DEF Rescan, InCall
<1>2. IsTokens(ts)
  <2>1. /\ DOMAIN Frame.r = 1 .. Len(Frame.r) /\ Len(Frame.r) \in Nat
        /\ \A n \in DOMAIN Frame.r : IsToken(Frame.r[n])
    BY <1>1, TokensIndex DEF IsSubst
  <2>2. \A n \in DOMAIN Frame.r : IsToken([Frame.r[n] EXCEPT !.hs = @ \cup Frame.hs])
    BY <2>1, HideSetChanged
  <2>3. \A n \in DOMAIN ts : IsToken(ts[n])
    BY <2>2
  <2>4. ts \in [1 .. Len(Frame.r) -> Range(ts)]
    BY <2>1 DEF Range
  <2> HIDE DEF ts
  <2>5. ts \in Seq(Range(ts))
    BY <2>1, <2>4
  <2>6. \A t \in Range(ts) : IsToken(t)
    BY <2>3 DEF Range
  <2> QED
    BY <2>5, <2>6 DEF IsTokens
<1>3. /\ Ahead(ts \o Buf) /\ calls' = Front(calls)
      /\ UNCHANGED <<macros, out, phase, nback>>
  BY DEF Rescan
<1> HIDE DEF ts
<1>4. IsTokens(ts \o Buf)
  BY <1>2, NextToken, TokensConcat
<1>5. Nested(Front(calls)) /\ Stashed(Front(calls)) = Stashed(calls)
  BY <1>1, TopCall
<1> QED
  BY <1>3, <1>4, <1>5, CallsOnly

-----------------------------------------------------------------------------
(* All steps *)

LEMMA TypesInit == Init => TypeOK
<1> SUFFICES ASSUME Init PROVE TypeOK
  OBVIOUS
<1>1. PICK p \in Programs : macros = p.macros /\ back = p.back /\ buffers = <<p.text>>
  BY DEF Init
<1>2. Defined /\ IsTokens(p.text)
  BY <1>1, MacroAssumption DEF Defined
<1>3. buffers \in Seq({p.text}) /\ Len(buffers) = 1
  BY <1>1
<1>4. Stack(buffers) /\ \A b \in Range(buffers) : IsTokens(b)
  BY <1>2, <1>3, RangeIn
<1>5. calls = << >> /\ out = << >> /\ phase = "read" /\ nback = 0
  BY DEF Init
<1>6. Stashes(buffers, calls)
  BY <1>3, <1>4, <1>5, NestedEmpty DEF Stashes
<1>7. Nested(calls) /\ Passed(out)
  BY <1>5, NestedEmpty, TokensEmpty, RangeEmpty DEF Passed
<1> QED
  BY <1>2, <1>5, <1>6, <1>7, TypesAre, MacroAssumption

LEMMA TypesStep == TypeOK /\ [Next]_vars => TypeOK'
<1> SUFFICES ASSUME TypeOK, [Next]_vars PROVE TypeOK'
  OBVIOUS
<1>1. CASE UNCHANGED vars
  <2>1. /\ UNCHANGED <<macros, calls, buffers, out>> /\ phase' = phase /\ nback' = nback
    BY <1>1 DEF vars
  <2> QED
    BY <2>1, TypesAre, Keeps
<1>2. CASE Expand
  BY <1>2, SkipNewlineStep, ReadTokenStep, PeekTokenStep, ExpandObjStep,
     ExpandSpecialStep, OpenCallStep DEF Expand
<1>3. CASE ReadArgs
  BY <1>3, PeekParenStep, ErrorStep, SkipNewlineStep, ArgCommaStep, ArgEndStep,
     ArgTokenStep DEF ReadArgs, ArgEof
<1>4. CASE Substitute
  BY <1>4, StringizeStep, PasteArgStep, PasteStep, PastedStep, OpenArgStep,
     CollectArgStep, CloseArgStep, CopyStep, RescanStep DEF Substitute
<1> QED
  BY <1>1, <1>2, <1>3, <1>4 DEF Next

\* The expander of cpp.c: a body is substituted with an argument for each
\* parameter and expand_all is entered from a parameter of a body only; each
\* stashed buffer belongs to one expand_all under way; no end of a buffer is
\* read as a token of the text, and the parser sees no newline.
THEOREM TypeCorrect == Spec => []TypeOK
BY TypesInit, TypesStep, PTL DEF Spec
=============================================================================
