-------------------------- MODULE InitializerProofs --------------------------
(***************************************************************************)
(* Theorems about the members of structs and unions, which Layout places,  *)
(* and about the declarations of Initializer, which have such types.        *)
(*                                                                          *)
(* Layout: the end of the members placed so far, as a bit, only moves up,   *)
(* and each member is between the ends before and after it; alignments      *)
(* divide the one of the whole.  Initializer: the calls of the reader are   *)
(* nested, each reads a type that the set of types holds, and where types   *)
(* have sizes above 0 what it fills lies inside the variable.               *)
(***************************************************************************)
EXTENDS Initializer, Lemmas

-----------------------------------------------------------------------------
(* Arithmetic *)

LEMMA Decompose ==
  ASSUME NEW e \in Nat, NEW a \in Nat \ {0}
  PROVE  e % a \in 0 .. a - 1 /\ e \div a \in Nat /\ e = a * (e \div a) + (e % a)
OBVIOUS

LEMMA Multiple ==
  ASSUME NEW q \in Nat, NEW a \in Nat \ {0}
  PROVE  a * q \in Nat /\ (a * q) % a = 0
OBVIOUS

\* What compute_padding adds makes an offset a multiple of the alignment.
LEMMA PaddingAligns ==
  ASSUME NEW e \in Nat, NEW a \in Nat \ {0}
  PROVE  ComputePadding(e, a) \in Nat /\ (e + ComputePadding(e, a)) % a = 0
<1> DEFINE r == e % a
           q == e \div a
<1>1. r \in 0 .. a - 1 /\ q \in Nat /\ e = a * q + r
  BY Decompose
<1>2. CASE r = 0
  <2>1. e % a = 0
    BY <1>2
  <2> HIDE DEF r
  <2>2. a - r = a * 1 /\ (a * 1) % a = 0
    BY <1>2, Multiple
  <2> QED
    BY <2>1, <2>2 DEF ComputePadding, r
<1>3. CASE r # 0
  <2> HIDE DEF r, q
  <2>1. a - r \in 1 .. a - 1
    BY <1>1, <1>3
  <2>2. (a - r) % a = a - r
    BY <2>1
  <2>3. a * (q + 1) = a * q + a
    BY <1>1
  <2>4. e + (a - r) = a * (q + 1)
    BY <1>1, <2>3
  <2>5. (e + (a - r)) % a = 0
    BY <1>1, <2>4, Multiple
  <2>6. ComputePadding(e, a) = a - r
    BY <2>2 DEF ComputePadding, r
  <2> QED
    BY <2>1, <2>5, <2>6
<1> QED
  BY <1>2, <1>3

LEMMA DividesWith ==
  ASSUME NEW a \in Nat \ {0}, NEW b \in Nat, Divides(a, b)
  PROVE  \E q \in Nat : b = a * q
<1> DEFINE q == b \div a
<1>1. q \in Nat /\ b = a * q + (b % a)
  BY Decompose
<1>2. b % a = 0
  BY DEF Divides
<1> HIDE DEF q
<1>3. b = a * q
  BY <1>1, <1>2
<1> QED
  BY <1>1, <1>3

LEMMA DividesTransitive ==
  ASSUME NEW a \in Nat \ {0}, NEW b \in Nat \ {0}, NEW c \in Nat,
         Divides(a, b), Divides(b, c)
  PROVE  Divides(a, c)
<1>1. PICK p \in Nat : b = a * p
  BY DividesWith
<1>2. PICK q \in Nat : c = b * q
  BY DividesWith
<1>3. c = a * (p * q) /\ p * q \in Nat
  BY <1>1, <1>2
<1> QED
  BY <1>3, Multiple DEF Divides

LEMMA DividesSelf ==
  ASSUME NEW a \in Nat \ {0}
  PROVE  Divides(a, a) /\ Divides(1, a) /\ Divides(a, 0)
<1>1. (a * 1) % a = 0 /\ (a * 0) % a = 0 /\ (1 * a) % 1 = 0
  BY Multiple
<1> QED
  BY <1>1 DEF Divides

\* The larger of two alignments of which one divides the other is a multiple of
\* both.
LEMMA HigherDivides ==
  ASSUME NEW a \in Nat \ {0}, NEW b \in Nat \ {0}, Divides(a, b) \/ Divides(b, a)
  PROVE  /\ Higher(a, b) \in {a, b}
         /\ Divides(a, Higher(a, b)) /\ Divides(b, Higher(a, b))
<1>1. ASSUME NEW c \in Nat \ {0}, NEW d \in Nat \ {0}, Divides(c, d)
      PROVE  c <= d
  <2>1. PICK q \in Nat : d = c * q
    BY <1>1, DividesWith
  <2>2. q # 0
    BY <2>1
  <2> QED
    BY <2>1, <2>2
<1>2. a <= b /\ b <= a => a = b
  OBVIOUS
<1> QED
  BY <1>1, <1>2, DividesSelf DEF Higher


LEMMA ConcatRange ==
  ASSUME NEW S, NEW s \in Seq(S), NEW t \in Seq(S)
  PROVE  s \o t \in Seq(S) /\ Range(s) \cup Range(t) \subseteq Range(s \o t)
<1>1. /\ s \o t \in Seq(S) /\ Len(s \o t) = Len(s) + Len(t)
      /\ Len(s) \in Nat /\ Len(t) \in Nat
      /\ \A e \in 1 .. Len(s) : (s \o t)[e] = s[e]
      /\ \A e \in 1 .. Len(t) : (s \o t)[Len(s) + e] = t[e]
  OBVIOUS
<1>2. /\ DOMAIN s = 1 .. Len(s) /\ DOMAIN t = 1 .. Len(t)
      /\ DOMAIN (s \o t) = 1 .. Len(s) + Len(t)
  BY <1>1, ElementShape
<1>3. /\ \A e \in 1 .. Len(s) : e \in 1 .. Len(s) + Len(t)
      /\ \A e \in 1 .. Len(t) : Len(s) + e \in 1 .. Len(s) + Len(t)
  BY <1>1
<1> QED
  BY <1>1, <1>2, <1>3 DEF Range

-----------------------------------------------------------------------------
(* What one member adds to those placed before it *)

End(l) == 8 * l.off + l.bitoff

IsPlaced(l) == /\ l = [off |-> l.off, bitoff |-> l.bitoff, align |-> l.align,
                       keys |-> l.keys, fields |-> l.fields]
               /\ l.off \in Nat /\ l.bitoff \in Nat /\ l.align \in Nat \ {0}
               /\ l.keys \in Seq(DOMAIN l.fields)
               /\ DOMAIN l.fields \subseteq Range(l.keys)

LEMMA EndIsNatural ==
  ASSUME NEW l, IsPlaced(l)
  PROVE  End(l) \in Nat /\ l.off \in Nat /\ (l.bitoff = 0 => End(l) = 8 * l.off)
BY DEF IsPlaced, End

\* The members are those of l and the named ones.
Adds(l, m, names) == /\ IsPlaced(m)
                     /\ DOMAIN m.fields = DOMAIN l.fields \cup names
                     /\ \A k \in DOMAIN l.fields \ names : m.fields[k] = l.fields[k]

LEMMA NothingPlaced == IsPlaced(NoMembers) /\ DOMAIN NoMembers.fields = {}
                       /\ End(NoMembers) = 0 /\ NoMembers.align = 1
<1>1. DOMAIN [name \in {} |-> NONE] = {}
  OBVIOUS
<1> QED
  BY <1>1 DEF IsPlaced, NoMembers, End, Range

\* Up to the next cell, and from there to the next multiple of the alignment.
LEMMA NextCell ==
  ASSUME NEW l, IsPlaced(l), NEW a \in Nat \ {0}
  PROVE  LET c == FinishBitfield(l, a)
         IN  /\ Adds(l, c, {}) /\ c.align = l.align /\ c.bitoff = 0
             /\ c.fields = l.fields
             /\ Divides(a, c.off) /\ End(l) <= End(c)
<1> DEFINE o == l.off + (l.bitoff + 7) \div 8
           c == FinishBitfield(l, a)
<1>1. o \in Nat /\ 8 * l.off + l.bitoff <= 8 * o
  BY DEF IsPlaced
<1>2. c = [l EXCEPT !.off = o + ComputePadding(o, a), !.bitoff = 0]
  BY DEF FinishBitfield
<1> HIDE DEF o, c
<1>3. ComputePadding(o, a) \in Nat /\ (o + ComputePadding(o, a)) % a = 0
  BY <1>1, PaddingAligns
<1>4. c = [off |-> o + ComputePadding(o, a), bitoff |-> 0,
           align |-> l.align, keys |-> l.keys, fields |-> l.fields]
  BY <1>2 DEF IsPlaced
<1>5. c.off \in Nat /\ 8 * o <= 8 * c.off + c.bitoff
  BY <1>1, <1>3, <1>4
<1>6. IsPlaced(c)
  BY <1>4, <1>5 DEF IsPlaced
<1>7. Adds(l, c, {}) /\ c.align = l.align /\ c.bitoff = 0 /\ c.fields = l.fields
  BY <1>4, <1>6 DEF Adds
<1>8. Divides(a, c.off) /\ End(l) <= End(c)
  BY <1>1, <1>3, <1>4, <1>5 DEF Divides, End, IsPlaced
<1> QED
  BY <1>7, <1>8 DEF c

LEMMA PutMember ==
  ASSUME NEW l, IsPlaced(l), NEW name, NEW f
  PROVE  LET d == DictPut(l, name, f)
         IN  /\ Adds(l, d, {name} \ {NONE}) /\ d.align = l.align
             /\ d.off = l.off /\ d.bitoff = l.bitoff
             /\ name # NONE => d.fields[name] = f
<1>1. CASE name = NONE
  BY <1>1 DEF DictPut, Adds
<1>2. CASE name # NONE
  <2> DEFINE g == Merged([k \in {name} |-> f], l.fields)
             ks == Append(l.keys, name)
             d == DictPut(l, name, f)
  <2>1. /\ DOMAIN g = DOMAIN l.fields \cup {name} /\ g[name] = f
        /\ \A k \in DOMAIN l.fields \ {name} : g[k] = l.fields[k]
    BY DEF Merged
  <2>2. Stack(l.keys) /\ Range(l.keys) \subseteq DOMAIN l.fields
    BY RangeIn DEF IsPlaced
  <2>3. Stack(ks) /\ Range(ks) = Range(l.keys) \cup {name}
    BY <2>2, RangeAppend
  <2>4. d = [l EXCEPT !.keys = ks, !.fields = g]
    BY <1>2 DEF DictPut
  <2> HIDE DEF g, ks, d
  <2>5. d = [off |-> l.off, bitoff |-> l.bitoff, align |-> l.align,
             keys |-> ks, fields |-> g]
    BY <2>4 DEF IsPlaced
  <2>6. ks \in Seq(DOMAIN g)
    BY <2>1, <2>2, <2>3, WiderSeq DEF Stack
  <2>7. DOMAIN g \subseteq Range(ks)
    BY <2>1, <2>3 DEF IsPlaced
  <2>8. IsPlaced(d)
    BY <2>5, <2>6, <2>7 DEF IsPlaced
  <2> QED
    BY <1>2, <2>1, <2>5, <2>8 DEF Adds, d
<1> QED
  BY <1>1, <1>2

LEMMA SquashMembers ==
  ASSUME NEW l, IsPlaced(l), NEW t, IsRecord(t), NEW off \in Nat
  PROVE  LET d == SquashUnnamedStruct(l, t, off)
         IN  /\ Adds(l, d, DOMAIN t.fields) /\ d.align = l.align
             /\ d.off = l.off /\ d.bitoff = l.bitoff
             /\ \A k \in DOMAIN t.fields :
                   d.fields[k] = [t.fields[k] EXCEPT !.off = @ + off]
<1> DEFINE g == Merged(Moved(t.fields, off), l.fields)
           ks == l.keys \o t.keys
           d == SquashUnnamedStruct(l, t, off)
<1>1. /\ DOMAIN g = DOMAIN l.fields \cup DOMAIN t.fields
      /\ \A k \in DOMAIN t.fields : g[k] = [t.fields[k] EXCEPT !.off = @ + off]
      /\ \A k \in DOMAIN l.fields \ DOMAIN t.fields : g[k] = l.fields[k]
  BY DEF Merged, Moved
<1>2. l.keys \in Seq(DOMAIN g) /\ t.keys \in Seq(DOMAIN g)
  BY <1>1, WiderSeq DEF IsPlaced, IsRecord
<1>3. d = [l EXCEPT !.keys = ks, !.fields = g]
  BY DEF SquashUnnamedStruct
<1>4. ks \in Seq(DOMAIN g) /\ Range(l.keys) \cup Range(t.keys) \subseteq Range(ks)
  BY <1>2, ConcatRange
<1> HIDE DEF g, ks, d
<1>5. d = [off |-> l.off, bitoff |-> l.bitoff, align |-> l.align,
           keys |-> ks, fields |-> g]
  BY <1>3 DEF IsPlaced
<1>6. DOMAIN g \subseteq Range(ks)
  BY <1>1, <1>4 DEF IsPlaced, IsRecord
<1>7. IsPlaced(d)
  BY <1>4, <1>5, <1>6 DEF IsPlaced
<1> QED
  BY <1>1, <1>5, <1>7 DEF Adds, d

\* A member of d bytes, and a bit-field of d bits, move the end by their size.
Moves(l, m, bits) ==
    /\ Adds(l, m, {}) /\ m.fields = l.fields /\ m.align = l.align
    /\ End(m) = End(l) + bits

LEMMA AdvancedBytes ==
  ASSUME NEW l, IsPlaced(l), NEW d \in Nat, NEW m, m = [l EXCEPT !.off = l.off + d]
  PROVE  Moves(l, m, 8 * d)
<1>1. m = [off |-> l.off + d, bitoff |-> l.bitoff, align |-> l.align,
           keys |-> l.keys, fields |-> l.fields]
  BY DEF IsPlaced
<1>2. l.off \in Nat /\ l.bitoff \in Nat
  BY DEF IsPlaced
<1>3. m.off = l.off + d /\ m.bitoff = l.bitoff /\ m.fields = l.fields /\ m.align = l.align
  BY <1>1
<1>4. IsPlaced(m)
  BY <1>1, <1>2 DEF IsPlaced
<1>5. End(m) = End(l) + 8 * d
  BY <1>2, <1>3 DEF End
<1> QED
  BY <1>3, <1>4, <1>5 DEF Adds, Moves

LEMMA AdvancedBits ==
  ASSUME NEW l, IsPlaced(l), NEW d \in Nat, NEW m, m = [l EXCEPT !.bitoff = l.bitoff + d]
  PROVE  Moves(l, m, d)
<1>1. m = [off |-> l.off, bitoff |-> l.bitoff + d, align |-> l.align,
           keys |-> l.keys, fields |-> l.fields]
  BY DEF IsPlaced
<1>2. l.off \in Nat /\ l.bitoff \in Nat
  BY DEF IsPlaced
<1>3. m.off = l.off /\ m.bitoff = l.bitoff + d /\ m.fields = l.fields /\ m.align = l.align
  BY <1>1
<1>4. IsPlaced(m)
  BY <1>1, <1>2 DEF IsPlaced
<1>5. End(m) = End(l) + d
  BY <1>2, <1>3 DEF End
<1> QED
  BY <1>3, <1>4, <1>5 DEF Adds, Moves

LEMMA Raised ==
  ASSUME NEW l, IsPlaced(l), NEW a \in Nat \ {0}
  PROVE  LET m == [l EXCEPT !.align = a]
         IN  /\ Adds(l, m, {}) /\ m.fields = l.fields /\ m.align = a
             /\ m.off = l.off /\ m.bitoff = l.bitoff
<1> DEFINE m == [l EXCEPT !.align = a]
<1>1. m = [off |-> l.off, bitoff |-> l.bitoff, align |-> a,
           keys |-> l.keys, fields |-> l.fields]
  BY DEF IsPlaced
<1> HIDE DEF m
<1>2. IsPlaced(m)
  BY <1>1 DEF IsPlaced
<1> QED
  BY <1>1, <1>2 DEF Adds, m

LEMMA AddsNothingAgain ==
  ASSUME NEW l, NEW m, NEW e, NEW names, Adds(l, m, {}), Adds(m, e, names)
  PROVE  Adds(l, e, names)
BY DEF Adds

\* The members named by f lie between what was placed before and what comes next.
Placement(l, m, f) ==
    /\ Adds(l, m, Names(f)) /\ End(l) <= End(m)
    /\ \A k \in Names(f) :
         /\ IsField(m.fields[k])
         /\ Divides(m.fields[k].type.align, m.fields[k].off)
         /\ Divides(m.fields[k].type.align, f.type.align)
         /\ \A b \in Bits(m.fields[k]) : End(l) <= b /\ b < End(m)

LEMMA AlignIs ==
  ASSUME NEW l, IsPlaced(l), NEW f, IsMember(f)
  PROVE  LET m == AlignFor(l, f)
         IN  /\ Adds(l, m, {}) /\ m.fields = l.fields
             /\ m.off = l.off /\ m.bitoff = l.bitoff
             /\ m.align = IF f.name = NONE THEN l.align ELSE Higher(l.align, f.type.align)
<1>1. CASE f.name = NONE
  BY <1>1 DEF AlignFor, Adds
<1>2. CASE f.name # NONE
  <2>1. Higher(l.align, f.type.align) \in Nat \ {0}
    BY DEF Higher, IsPlaced, IsMember, IsComplete
  <2> QED
    BY <1>2, <2>1, Raised DEF AlignFor
<1> QED
  BY <1>1, <1>2

LEMMA AnonymousPlaced ==
  ASSUME NEW c, IsPlaced(c), c.bitoff = 0,
         NEW f, IsMember(f), IsAnonymous(f), f.type.align = 1
  PROVE  LET m == [SquashUnnamedStruct(c, f.type, c.off) EXCEPT !.off = @ + f.type.size]
         IN  Placement(c, m, f) /\ m.align = c.align
<1> DEFINE t == f.type
           s == SquashUnnamedStruct(c, f.type, c.off)
           m == [s EXCEPT !.off = @ + t.size]
<1>1. IsRecord(t) /\ t.size \in Nat /\ t.align = 1 /\ c.off \in Nat
  BY DEF IsMember, IsComplete, IsPlaced
<1>2. /\ Adds(c, s, DOMAIN t.fields) /\ s.align = c.align
      /\ s.off = c.off /\ s.bitoff = c.bitoff
      /\ \A k \in DOMAIN t.fields :
            s.fields[k] = [t.fields[k] EXCEPT !.off = @ + c.off]
  BY <1>1, SquashMembers
<1> HIDE DEF s
<1>3. /\ Adds(s, m, {}) /\ m.fields = s.fields /\ m.align = s.align
      /\ End(m) = End(s) + 8 * t.size
  <2>1. m = [s EXCEPT !.off = s.off + t.size]
    OBVIOUS
  <2>2. IsPlaced(s)
    BY <1>2 DEF Adds
  <2>3. t.size \in Nat
    BY <1>1
  <2> HIDE DEF m, t
  <2>4. Moves(s, m, 8 * t.size)
    BY <2>1, <2>2, <2>3, AdvancedBytes
  <2> QED
    BY <2>4 DEF Moves
<1> HIDE DEF m
<1>4. Names(f) = DOMAIN t.fields
  BY DEF Names
<1>5. Adds(c, m, Names(f)) /\ m.align = c.align
  BY <1>2, <1>3, <1>4 DEF Adds
<1>6. End(m) = End(c) + 8 * t.size /\ End(c) = 8 * c.off
  BY <1>1, <1>2, <1>3 DEF End
<1>7. ASSUME NEW k \in DOMAIN t.fields
      PROVE  /\ IsField(m.fields[k])
             /\ Divides(m.fields[k].type.align, m.fields[k].off)
             /\ Divides(m.fields[k].type.align, t.align)
             /\ \A b \in Bits(m.fields[k]) : End(c) <= b /\ b < End(m)
  <2> DEFINE g == t.fields[k]
             h == m.fields[k]
  <2>1. IsField(g) /\ t.align % g.type.align = 0 /\ \A b \in Bits(g) : b < 8 * t.size
    BY <1>1 DEF IsRecord, LaidOut, IsAligned
  <2>2. h = [g EXCEPT !.off = @ + c.off]
    BY <1>2, <1>3
  <2> HIDE DEF g, h
  <2>3. h = [type |-> g.type, bits |-> g.bits, off |-> g.off + c.off, bitoff |-> g.bitoff]
    BY <2>1, <2>2 DEF IsField, Field
  <2>4. IsField(h)
    BY <1>1, <2>1, <2>3 DEF IsField, Field, IsComplete
  <2>5. g.type.align \in Nat \ {0} /\ Divides(g.type.align, 1)
    BY <1>1, <2>1 DEF IsField, IsComplete, Divides
  <2>6. h.off \in Nat /\ h.type = g.type
    BY <2>3, <2>4 DEF IsField
  <2>7. Divides(1, h.off)
    BY <2>6 DEF Divides
  <2>8. Divides(h.type.align, h.off)
    BY <2>5, <2>6, <2>7, DividesTransitive
  <2>9. ASSUME NEW b \in Bits(h) PROVE End(c) <= b /\ b < End(m)
    <3> DEFINE w == IF g.bits > 0 THEN g.bits ELSE 8 * g.type.size
    <3>1. w \in Nat /\ g.off \in Nat /\ g.bitoff \in Nat
      BY <2>1 DEF IsField, IsComplete
    <3>2. /\ Bits(g) = 8 * g.off + g.bitoff .. 8 * g.off + g.bitoff + w - 1
          /\ Bits(h) = 8 * (g.off + c.off) + g.bitoff .. 8 * (g.off + c.off) + g.bitoff + w - 1
      BY <2>3 DEF Bits
    <3> HIDE DEF w
    <3>3. b - 8 * c.off \in Bits(g) /\ b \in Int /\ 8 * c.off <= b
      <4>1. c.off \in Nat
        BY <1>1
      <4> DEFINE j == g.off
                 k2 == c.off
                 i == g.bitoff
      <4>2. j \in Nat /\ i \in Nat /\ k2 \in Nat
        BY <3>1, <4>1
      <4>3. Bits(g) = 8 * j + i .. 8 * j + i + w - 1
        BY <3>2
      <4>4. b \in 8 * (j + k2) + i .. 8 * (j + k2) + i + w - 1
        BY <3>2, <2>9
      <4> HIDE DEF j, k2, i
      <4>5. b \in Int /\ 8 * (j + k2) + i <= b /\ b <= 8 * (j + k2) + i + w - 1
        BY <3>1, <4>2, <4>4
      <4>6. b - 8 * k2 \in Int /\ 8 * j + i <= b - 8 * k2 /\ b - 8 * k2 <= 8 * j + i + w - 1
        BY <3>1, <4>2, <4>5
      <4>7. b - 8 * k2 \in 8 * j + i .. 8 * j + i + w - 1
        BY <3>1, <4>2, <4>6
      <4>8. 8 * k2 <= b
        BY <4>2, <4>5
      <4>9. b - 8 * k2 \in Bits(g)
        BY <4>3, <4>7
      <4> QED
        BY <4>5, <4>8, <4>9 DEF k2
    <3>4. b - 8 * c.off < 8 * t.size
      BY <2>1, <3>3
    <3> QED
      BY <1>1, <1>6, <3>3, <3>4
  <2> QED
    BY <1>1, <2>4, <2>5, <2>6, <2>8, <2>9 DEF h
<1>8. End(c) <= End(m)
  BY <1>1, <1>6
<1> QED
  BY <1>4, <1>5, <1>7, <1>8 DEF Placement, m, s

LEMMA NamedPlaced ==
  ASSUME NEW at, IsPlaced(at), NEW f, IsMember(f), ~ IsAnonymous(f), f.bits # 0,
         Divides(f.type.align, at.off)
  PROVE  LET d == DictPut(at, f.name, Field(f, at.off, at.bitoff))
             b == [d EXCEPT !.bitoff = @ + f.bits]
             o == [d EXCEPT !.off = @ + f.type.size]
         IN  /\ f.bits > 0 => Placement(at, b, f) /\ b.align = at.align
             /\ f.bits < 0 => Placement(at, o, f) /\ o.align = at.align
<1> DEFINE g == Field(f, at.off, at.bitoff)
           d == DictPut(at, f.name, g)
           m == IF f.bits > 0 THEN [d EXCEPT !.bitoff = @ + f.bits]
                ELSE [d EXCEPT !.off = @ + f.type.size]
           w == IF f.bits > 0 THEN f.bits ELSE 8 * f.type.size
<1>1. /\ f.type.size \in Nat /\ f.type.align \in Nat \ {0} /\ f.bits \in Int
      /\ at.off \in Nat /\ at.bitoff \in Nat /\ w \in Nat
      /\ f.bits > 0 => f.type.size = 1
  BY DEF IsMember, IsComplete, IsPlaced
<1>2. /\ g = [type |-> f.type, bits |-> f.bits, off |-> at.off, bitoff |-> at.bitoff]
      /\ IsField(g)
  BY <1>1 DEF Field, IsField, IsComplete
<1> HIDE DEF g
<1>3. /\ Adds(at, d, {f.name} \ {NONE}) /\ d.align = at.align
      /\ d.off = at.off /\ d.bitoff = at.bitoff
      /\ f.name # NONE => d.fields[f.name] = g
  BY PutMember
<1> HIDE DEF d
<1>4. IsPlaced(d) /\ End(d) = End(at)
  BY <1>3 DEF Adds, End
<1>5. /\ Adds(d, m, {}) /\ m.fields = d.fields /\ m.align = d.align
      /\ End(m) = End(d) + w
  <2>1. CASE f.bits > 0
    <3>1. f.bits \in Nat
      BY <1>1, <2>1
    <3>2. m = [d EXCEPT !.bitoff = d.bitoff + f.bits] /\ w = f.bits
      BY <2>1
    <3> HIDE DEF m, w
    <3>3. Moves(d, m, f.bits)
      BY <1>4, <3>1, <3>2, AdvancedBits
    <3> QED
      BY <3>2, <3>3 DEF Moves
  <2>2. CASE ~ (f.bits > 0)
    <3>1. f.type.size \in Nat
      BY <1>1
    <3>2. m = [d EXCEPT !.off = d.off + f.type.size] /\ w = 8 * f.type.size
      BY <2>2
    <3> HIDE DEF m, w
    <3>3. Moves(d, m, 8 * f.type.size)
      BY <1>4, <3>1, <3>2, AdvancedBytes
    <3> QED
      BY <3>2, <3>3 DEF Moves
  <2> QED
    BY <2>1, <2>2
<1> HIDE DEF m
<1>6. Names(f) = {f.name} \ {NONE}
  BY DEF Names
<1>7. Adds(at, m, Names(f)) /\ m.align = at.align
  BY <1>3, <1>5, <1>6 DEF Adds
<1>8. End(at) = 8 * at.off + at.bitoff /\ End(m) = End(at) + w
  BY <1>4, <1>5 DEF End
<1>9. Bits(g) = End(at) .. End(at) + w - 1
  BY <1>2, <1>8 DEF Bits
<1> HIDE DEF w
<1>10. \A b \in Bits(g) : End(at) <= b /\ b < End(m)
  BY <1>1, <1>8, <1>9
<1>11. Divides(g.type.align, g.off) /\ Divides(g.type.align, f.type.align)
  BY <1>1, <1>2, DividesSelf
<1>12. \A k \in Names(f) : m.fields[k] = g
  BY <1>3, <1>5, <1>6
<1>13. End(at) <= End(m)
  BY <1>1, <1>8
<1>14. Placement(at, m, f)
  BY <1>2, <1>7, <1>10, <1>11, <1>12, <1>13 DEF Placement
<1>15. /\ f.bits > 0 => m = [d EXCEPT !.bitoff = @ + f.bits]
       /\ f.bits < 0 => m = [d EXCEPT !.off = @ + f.type.size]
  BY <1>1 DEF m
<1> QED
  BY <1>7, <1>14, <1>15 DEF d, g

LEMMA BitsAreNumbers ==
  ASSUME NEW g, IsField(g), NEW b \in Bits(g)
  PROVE  b \in Int
<1> DEFINE lo == 8 * g.off + g.bitoff
           w == IF g.bits > 0 THEN g.bits ELSE 8 * g.type.size
<1>1. lo \in Int /\ w \in Int
  BY DEF IsField, IsComplete
<1>2. b \in lo .. lo + w - 1
  BY DEF Bits
<1> HIDE DEF lo, w
<1> QED
  BY <1>1, <1>2

LEMMA PlacementFrom ==
  ASSUME NEW l, NEW at, NEW m, NEW f, IsPlaced(l), Adds(l, at, {}), End(l) <= End(at),
         Placement(at, m, f), IsMember(f)
  PROVE  Placement(l, m, f)
<1>1. Adds(l, m, Names(f))
  BY AddsNothingAgain DEF Placement
<1>2. End(l) \in Int /\ End(at) \in Int /\ End(m) \in Int
  <2>1. IsPlaced(at) /\ IsPlaced(m)
    BY DEF Placement, Adds
  <2> QED
    BY <2>1, EndIsNatural
<1>3. ASSUME NEW k \in Names(f), NEW b \in Bits(m.fields[k])
      PROVE  End(l) <= b /\ b < End(m)
  <2>1. IsField(m.fields[k]) /\ End(at) <= b /\ b < End(m)
    BY DEF Placement
  <2>2. b \in Int
    BY <2>1, BitsAreNumbers
  <2> QED
    BY <1>2, <2>1, <2>2
<1>4. End(l) <= End(m)
  BY <1>2 DEF Placement
<1>5. \A k \in Names(f) : \A b \in Bits(m.fields[k]) : End(l) <= b /\ b < End(m)
  BY <1>3
<1> QED
  BY <1>1, <1>4, <1>5 DEF Placement

\* One turn of update_struct_offset.
LEMMA MemberPlaced ==
  ASSUME NEW before, IsPlaced(before), NEW f, IsMember(f),
         IsAnonymous(f) => f.type.align = 1
  PROVE  LET m == PlaceField(before, f)
         IN  /\ Placement(before, m, f)
             /\ f.bits = 0 => m.bitoff = 0
             /\ m.align = IF f.name = NONE THEN before.align
                          ELSE Higher(before.align, f.type.align)
<1> DEFINE l    == AlignFor(before, f)
           cell == FinishBitfield(l, f.type.align)
           unit == 8 * f.type.size
           room == unit - ((l.off * 8 + l.bitoff) % unit)
           at   == IF f.bits <= room THEN l ELSE cell
           m    == PlaceField(before, f)
           high == IF f.name = NONE THEN before.align
                   ELSE Higher(before.align, f.type.align)
<1>1. f.type.align \in Nat \ {0} /\ f.bits \in Int
  BY DEF IsMember, IsComplete
<1>2. /\ Adds(before, l, {}) /\ l.off = before.off /\ l.bitoff = before.bitoff
      /\ l.align = high
  BY AlignIs
<1>3. m = CASE IsAnonymous(f) ->
                 [SquashUnnamedStruct(cell, f.type, cell.off)
                    EXCEPT !.off = @ + f.type.size]
            [] ~ IsAnonymous(f) /\ f.bits = 0 -> cell
            [] ~ IsAnonymous(f) /\ f.bits > 0 ->
                 [DictPut(at, f.name, Field(f, at.off, at.bitoff))
                    EXCEPT !.bitoff = @ + f.bits]
            [] ~ IsAnonymous(f) /\ f.bits < 0 ->
                 [DictPut(cell, f.name, Field(f, cell.off, 0))
                    EXCEPT !.off = @ + f.type.size]
  BY DEF PlaceField
<1> HIDE DEF l, m, room, high
<1>4. IsPlaced(l) /\ End(before) = End(l)
  BY <1>2 DEF Adds, End
<1>5. /\ Adds(l, cell, {}) /\ cell.align = l.align /\ cell.bitoff = 0
      /\ Divides(f.type.align, cell.off) /\ End(l) <= End(cell)
  BY <1>1, <1>4, NextCell
<1> HIDE DEF cell
<1>6. Adds(before, cell, {}) /\ End(before) <= End(cell) /\ IsPlaced(cell)
  BY <1>2, <1>4, <1>5, AddsNothingAgain DEF Adds
<1>7. CASE IsAnonymous(f)
  <2>1. m = [SquashUnnamedStruct(cell, f.type, cell.off) EXCEPT !.off = @ + f.type.size]
    BY <1>3, <1>7
  <2>2. Placement(cell, m, f) /\ m.align = cell.align
    BY <1>5, <1>6, <1>7, <2>1, AnonymousPlaced
  <2>3. f.bits # 0
    BY <1>7 DEF IsMember
  <2>4. Placement(before, m, f)
    BY <1>6, <2>2, PlacementFrom
  <2> QED
    BY <1>2, <1>5, <2>2, <2>3, <2>4 DEF m, high
<1>8. CASE ~ IsAnonymous(f) /\ f.bits = 0
  <2>1. m = cell
    BY <1>3, <1>8
  <2>2. Names(f) = {}
    BY <1>8 DEF Names, IsMember
  <2>3. Placement(before, m, f)
    BY <1>6, <2>1, <2>2 DEF Placement
  <2> QED
    BY <1>2, <1>5, <2>1, <2>3 DEF m, high
<1>9. CASE ~ IsAnonymous(f) /\ f.bits > 0
  <2>1. m = [DictPut(at, f.name, Field(f, at.off, at.bitoff)) EXCEPT !.bitoff = @ + f.bits]
    BY <1>1, <1>3, <1>9
  <2>2. f.type.align = 1 /\ at \in {l, cell}
    BY <1>1, <1>9 DEF IsMember
  <2> HIDE DEF at
  <2>3. /\ Adds(before, at, {}) /\ IsPlaced(at) /\ End(before) <= End(at)
        /\ at.align = l.align
    <3>1. End(before) <= End(before)
      BY DEF End, IsPlaced
    <3> QED
      BY <1>2, <1>4, <1>5, <1>6, <2>2, <3>1
  <2>4. Divides(f.type.align, at.off)
    BY <2>2, <2>3 DEF Divides, IsPlaced
  <2>5. Placement(at, m, f) /\ m.align = at.align
    <3> DEFINE b == [DictPut(at, f.name, Field(f, at.off, at.bitoff))
                       EXCEPT !.bitoff = @ + f.bits]
    <3>1. f.bits # 0
      BY <1>1, <1>9
    <3>2. f.bits > 0 => Placement(at, b, f) /\ b.align = at.align
      BY <1>9, <2>3, <2>4, <3>1, NamedPlaced, Zenon
    <3> HIDE DEF b
    <3>3. Placement(at, b, f) /\ b.align = at.align
      BY <1>9, <3>2
    <3> QED
      BY <2>1, <3>3 DEF b
  <2>6. Placement(before, m, f)
    BY <2>3, <2>5, PlacementFrom
  <2> QED
    BY <1>1, <1>2, <1>9, <2>3, <2>5, <2>6 DEF m, high
<1>10. CASE ~ IsAnonymous(f) /\ f.bits < 0
  <2>1. m = [DictPut(cell, f.name, Field(f, cell.off, 0)) EXCEPT !.off = @ + f.type.size]
    BY <1>1, <1>3, <1>10
  <2>2. Placement(cell, m, f) /\ m.align = cell.align
    <3> DEFINE o == [DictPut(cell, f.name, Field(f, cell.off, cell.bitoff))
                       EXCEPT !.off = @ + f.type.size]
    <3>1. f.bits # 0
      BY <1>1, <1>10
    <3>2. f.bits < 0 => Placement(cell, o, f) /\ o.align = cell.align
      BY <1>5, <1>6, <1>10, <3>1, NamedPlaced, Zenon
    <3>3. m = o
      BY <1>5, <2>1
    <3> HIDE DEF o
    <3> QED
      BY <1>10, <3>2, <3>3
  <2>3. Placement(before, m, f)
    BY <1>6, <2>2, PlacementFrom
  <2> QED
    BY <1>1, <1>2, <1>5, <1>10, <2>2, <2>3 DEF m, high
<1> QED
  BY <1>1, <1>7, <1>8, <1>9, <1>10

-----------------------------------------------------------------------------
(* All the members of a struct *)

LEMMA PlacedIs ==
  ASSUME NEW decls, Len(decls) \in Nat
  PROVE  /\ Placed(decls)[0] = NoMembers
         /\ \A k \in 1 .. Len(decls) :
               Placed(decls)[k] = PlaceField(Placed(decls)[k - 1], decls[k])
<1> DEFINE Is(p, m) == p = [k \in 0 .. m |-> IF k = 0 THEN NoMembers
                                             ELSE PlaceField(p[k - 1], decls[k])]
           S == {m \in Nat : \E p : Is(p, m)}
<1>1. 0 \in S
  <2> DEFINE p == [k \in 0 .. 0 |-> NoMembers]
  <2>1. p = [k \in 0 .. 0 |-> IF k = 0 THEN NoMembers ELSE PlaceField(p[k - 1], decls[k])]
    OBVIOUS
  <2> HIDE DEF p
  <2> QED
    BY <2>1
<1>2. ASSUME NEW m \in Nat, m \in S PROVE m + 1 \in S
  <2>1. PICK p : Is(p, m)
    BY <1>2
  <2> DEFINE q == [k \in 0 .. m + 1 |->
                     IF k <= m THEN p[k] ELSE PlaceField(p[m], decls[m + 1])]
  <2>2. \A k \in 0 .. m : q[k] = p[k]
    OBVIOUS
  <2>3. \A k \in 0 .. m + 1 :
           q[k] = IF k = 0 THEN NoMembers ELSE PlaceField(q[k - 1], decls[k])
    <3> SUFFICES ASSUME NEW k \in 0 .. m + 1
                 PROVE  q[k] = IF k = 0 THEN NoMembers ELSE PlaceField(q[k - 1], decls[k])
      OBVIOUS
    <3>1. CASE k <= m
      <4>1. p[k] = IF k = 0 THEN NoMembers ELSE PlaceField(p[k - 1], decls[k])
        BY <2>1, <3>1
      <4>2. k # 0 => k - 1 \in 0 .. m
        BY <3>1
      <4>3. k # 0 => q[k - 1] = p[k - 1]
        BY <2>2, <4>2
      <4>4. q[k] = p[k]
        BY <2>2, <3>1
      <4> HIDE DEF q
      <4> QED
        BY <4>1, <4>3, <4>4
    <3>2. CASE ~ (k <= m)
      <4>1. k = m + 1 /\ k # 0 /\ k - 1 = m
        BY <3>2
      <4>2. q[m + 1] = PlaceField(p[m], decls[m + 1]) /\ q[m] = p[m]
        OBVIOUS
      <4> HIDE DEF q
      <4> QED
        BY <4>1, <4>2
    <3> QED
      BY <3>1, <3>2
  <2>4. q = [k \in 0 .. m + 1 |-> q[k]]
    OBVIOUS
  <2> HIDE DEF q
  <2>5. Is(q, m + 1)
    BY <2>3, <2>4
  <2> QED
    BY <2>5
<1> HIDE DEF S
<1>3. Len(decls) \in S
  BY <1>1, <1>2, NatSetInduction
<1>4. \E p : Is(p, Len(decls))
  BY <1>3 DEF S
<1> DEFINE P == CHOOSE p : Is(p, Len(decls))
<1>5. Is(P, Len(decls))
  BY <1>4
<1>6. Placed(decls) = P
  BY DEF Placed
<1> HIDE DEF P
<1>7. P[0] = NoMembers /\ \A k \in 1 .. Len(decls) : P[k] = PlaceField(P[k - 1], decls[k])
  BY <1>5
<1> QED
  BY <1>6, <1>7

\* The first k members lie one after the other.
InOrder(P, decls, k) ==
    /\ IsPlaced(P[k])
    /\ \A e \in 0 .. k : IsPlaced(P[e]) /\ End(P[e]) <= End(P[k])
    /\ DOMAIN P[k].fields = UNION {Names(decls[e]) : e \in 1 .. k}
    /\ \A e \in 1 .. k : \A x \in Names(decls[e]) :
         /\ IsField(P[k].fields[x])
         /\ Divides(P[k].fields[x].type.align, P[k].fields[x].off)
         /\ Divides(P[k].fields[x].type.align, decls[e].type.align)
         /\ \A b \in Bits(P[k].fields[x]) : End(P[e - 1]) <= b /\ b < End(P[e])
    /\ \A e \in 1 .. k : decls[e].bits = 0 => P[e].bitoff = 0

\* The alignment is that of a member, and a multiple of that of each.
Aligns(align, decls, k, counted) ==
    /\ align = 1 \/ \E e \in 1 .. k : align = decls[e].type.align
    /\ \A e \in counted : Divides(decls[e].type.align, align)

LEMMA NextAligns ==
  ASSUME NEW isStruct, NEW decls, Proper(isStruct, decls), Len(decls) \in Nat,
         DOMAIN decls = 1 .. Len(decls), NEW k \in 0 .. Len(decls) - 1,
         NEW counted \in SUBSET (1 .. k), NEW align, Aligns(align, decls, k, counted)
  PROVE  /\ Aligns(align, decls, k + 1, counted)
         /\ Aligns(Higher(align, decls[k + 1].type.align), decls, k + 1, counted \cup {k + 1})
<1> DEFINE a == decls[k + 1].type.align
           h == Higher(align, a)
<1>1. /\ k \in Nat /\ 1 .. k \subseteq 1 .. k + 1
      /\ 1 .. k + 1 \subseteq DOMAIN decls /\ k + 1 \in 1 .. k + 1
  OBVIOUS
<1>2. \A e \in 1 .. k + 1 : decls[e].type.align \in Nat \ {0}
  <2>1. \A e \in DOMAIN decls : IsMember(decls[e])
    BY DEF Proper
  <2> QED
    BY <1>1, <2>1 DEF IsMember, IsComplete
<1>3. align \in Nat \ {0}
  BY <1>1, <1>2 DEF Aligns
<1>4. Divides(align, a) \/ Divides(a, align)
  <2>1. CASE align = 1
    BY <1>1, <1>2, <2>1, DividesSelf
  <2>2. CASE \E e \in 1 .. k : align = decls[e].type.align
    BY <1>1, <2>2 DEF Proper, Comparable
  <2> QED
    BY <2>1, <2>2 DEF Aligns
<1>5. h \in {align, a} /\ Divides(align, h) /\ Divides(a, h)
  BY <1>1, <1>2, <1>3, <1>4, HigherDivides
<1> HIDE DEF h
<1>6. h \in Nat \ {0}
  BY <1>1, <1>2, <1>3, <1>5
<1>7. \A e \in counted : Divides(decls[e].type.align, h)
  <2> SUFFICES ASSUME NEW e \in counted PROVE Divides(decls[e].type.align, h)
    OBVIOUS
  <2>1. Divides(decls[e].type.align, align) /\ decls[e].type.align \in Nat \ {0}
    BY <1>1, <1>2 DEF Aligns
  <2> QED
    BY <1>3, <1>5, <1>6, <2>1, DividesTransitive
<1>8. h = 1 \/ \E e \in 1 .. k + 1 : h = decls[e].type.align
  BY <1>1, <1>5 DEF Aligns
<1>9. align = 1 \/ \E e \in 1 .. k + 1 : align = decls[e].type.align
  BY <1>1 DEF Aligns
<1>10. \A e \in counted \cup {k + 1} : Divides(decls[e].type.align, h)
  BY <1>5, <1>7
<1>11. Aligns(h, decls, k + 1, counted \cup {k + 1})
  BY <1>8, <1>10 DEF Aligns
<1>12. Aligns(align, decls, k + 1, counted)
  BY <1>9 DEF Aligns
<1> QED
  BY <1>11, <1>12 DEF h

LEMMA NextInOrder ==
  ASSUME NEW decls, Proper(TRUE, decls), Len(decls) \in Nat,
         DOMAIN decls = 1 .. Len(decls), NEW k \in 0 .. Len(decls) - 1,
         NEW P, InOrder(P, decls, k), P[k + 1] = PlaceField(P[k], decls[k + 1])
  PROVE  /\ InOrder(P, decls, k + 1)
         /\ P[k + 1].align = IF decls[k + 1].name = NONE THEN P[k].align
                             ELSE Higher(P[k].align, decls[k + 1].type.align)
<1> DEFINE l == P[k]
           m == P[k + 1]
           f == decls[k + 1]
<1>1. /\ k \in Nat /\ k + 1 \in DOMAIN decls /\ k + 1 \in 1 .. k + 1 /\ k \in 0 .. k
      /\ 0 .. k + 1 = 0 .. k \cup {k + 1} /\ 1 .. k + 1 = 1 .. k \cup {k + 1}
      /\ 1 .. k \subseteq DOMAIN decls /\ k + 1 \notin 1 .. k /\ (k + 1) - 1 = k
      /\ \A e \in 1 .. k : e # k + 1 /\ e \in 0 .. k /\ e - 1 \in 0 .. k
  OBVIOUS
<1>2. IsPlaced(l) /\ IsMember(f) /\ (IsAnonymous(f) => f.type.align = 1)
  BY <1>1 DEF InOrder, Proper
<1>3. /\ Placement(l, m, f)
      /\ f.bits = 0 => m.bitoff = 0
      /\ m.align = IF f.name = NONE THEN l.align ELSE Higher(l.align, f.type.align)
  BY <1>2, MemberPlaced
<1>4. Adds(l, m, Names(f)) /\ End(l) <= End(m) /\ IsPlaced(m)
  BY <1>3 DEF Placement, Adds
<1>5. \A e \in 1 .. k : Names(decls[e]) \cap Names(f) = {}
  BY <1>1 DEF Proper
<1>6. \A e \in 0 .. k + 1 : IsPlaced(P[e]) /\ End(P[e]) <= End(m)
  <2>1. \A e \in 0 .. k : IsPlaced(P[e]) /\ End(P[e]) <= End(l)
    BY DEF InOrder
  <2>2. \A e \in 0 .. k : End(P[e]) \in Int
    BY <2>1, EndIsNatural
  <2>3. End(l) \in Int /\ End(m) \in Int
    BY <1>2, <1>4, EndIsNatural
  <2>4. \A e \in 0 .. k : End(P[e]) <= End(m)
    BY <1>4, <2>1, <2>2, <2>3
  <2> QED
    BY <1>1, <1>4, <2>1, <2>3, <2>4
<1>7. DOMAIN m.fields = UNION {Names(decls[e]) : e \in 1 .. k + 1}
  <2>1. DOMAIN m.fields = (UNION {Names(decls[e]) : e \in 1 .. k}) \cup Names(f)
    BY <1>4 DEF InOrder, Adds
  <2> QED
    BY <1>1, <2>1, Zenon
<1>8. ASSUME NEW e \in 1 .. k + 1, NEW x \in Names(decls[e])
      PROVE  /\ IsField(m.fields[x])
             /\ Divides(m.fields[x].type.align, m.fields[x].off)
             /\ Divides(m.fields[x].type.align, decls[e].type.align)
             /\ \A b \in Bits(m.fields[x]) : End(P[e - 1]) <= b /\ b < End(P[e])
  <2>1. CASE e = k + 1
    <3>1. x \in Names(f) /\ P[e - 1] = l /\ P[e] = m /\ decls[e] = f
      BY <1>1, <2>1
    <3> HIDE DEF l, m, f
    <3> QED
      BY <1>3, <3>1 DEF Placement
  <2>2. CASE e \in 1 .. k
    <3>1. x \in DOMAIN l.fields \ Names(f)
      BY <1>5, <2>2 DEF InOrder
    <3>2. m.fields[x] = l.fields[x]
      BY <1>4, <3>1 DEF Adds
    <3> QED
      BY <2>2, <3>2 DEF InOrder
  <2> QED
    BY <1>1, <2>1, <2>2
<1>9. \A e \in 1 .. k + 1 : decls[e].bits = 0 => P[e].bitoff = 0
  BY <1>1, <1>3 DEF InOrder
<1> QED
  BY <1>3, <1>4, <1>6, <1>7, <1>8, <1>9 DEF InOrder

LEMMA AllInOrder ==
  ASSUME NEW decls, Proper(TRUE, decls), Len(decls) \in Nat,
         DOMAIN decls = 1 .. Len(decls)
  PROVE  /\ \A k \in 0 .. Len(decls) : InOrder(Placed(decls), decls, k)
         /\ Aligns(Placed(decls)[Len(decls)].align, decls, Len(decls),
                   {e \in 1 .. Len(decls) : decls[e].name # NONE})
<1> DEFINE P == Placed(decls)
           N == Len(decls)
           Named(k) == {e \in 1 .. k : decls[e].name # NONE}
           S == {k \in Nat : k <= N => /\ InOrder(P, decls, k)
                                       /\ Aligns(P[k].align, decls, k, Named(k))}
<1>1. P[0] = NoMembers /\ \A k \in 1 .. N : P[k] = PlaceField(P[k - 1], decls[k])
  BY PlacedIs
<1> HIDE DEF P
<1>2. 0 \in S
  <2>1. 1 .. 0 = {} /\ \A e \in 0 .. 0 : e = 0
    OBVIOUS
  <2>2. InOrder(P, decls, 0)
    BY <1>1, <2>1, NothingPlaced DEF InOrder
  <2>3. Aligns(P[0].align, decls, 0, Named(0))
    BY <1>1, <2>1, NothingPlaced DEF Aligns
  <2> QED
    BY <2>2, <2>3
<1>3. ASSUME NEW k \in Nat, k \in S PROVE k + 1 \in S
  <2> SUFFICES ASSUME k + 1 <= N
               PROVE  /\ InOrder(P, decls, k + 1)
                      /\ Aligns(P[k + 1].align, decls, k + 1, Named(k + 1))
    OBVIOUS
  <2>1. k \in 0 .. N - 1 /\ k + 1 \in 1 .. N /\ k <= N /\ k + 1 - 1 = k
    OBVIOUS
  <2>2. InOrder(P, decls, k) /\ Aligns(P[k].align, decls, k, Named(k))
    BY <1>3, <2>1
  <2>3. P[k + 1] = PlaceField(P[k], decls[k + 1])
    BY <1>1, <2>1
  <2>4. /\ InOrder(P, decls, k + 1)
        /\ P[k + 1].align = IF decls[k + 1].name = NONE THEN P[k].align
                            ELSE Higher(P[k].align, decls[k + 1].type.align)
    BY <2>1, <2>2, <2>3, NextInOrder
  <2>5. Named(k) \in SUBSET (1 .. k)
    OBVIOUS
  <2>6. Named(k + 1) = IF decls[k + 1].name = NONE THEN Named(k) ELSE Named(k) \cup {k + 1}
    OBVIOUS
  <2> HIDE DEF Named
  <2>7. /\ Aligns(P[k].align, decls, k + 1, Named(k))
        /\ Aligns(Higher(P[k].align, decls[k + 1].type.align), decls, k + 1,
                  Named(k) \cup {k + 1})
    BY <2>1, <2>2, <2>5, NextAligns
  <2> QED
    BY <2>4, <2>6, <2>7
<1> HIDE DEF S
<1>4. Nat \subseteq S
  BY <1>2, <1>3, NatSetInduction
<1>5. N <= N /\ \A k \in 0 .. N : k \in Nat /\ k <= N
  OBVIOUS
<1> QED
  BY <1>4, <1>5 DEF S, P

\* Members declared one before the other are apart.
LEMMA Before ==
  ASSUME NEW decls, Len(decls) \in Nat, DOMAIN decls = 1 .. Len(decls),
         Proper(TRUE, decls),
         NEW P, \A k \in 0 .. Len(decls) : InOrder(P, decls, k),
         NEW m \in 1 .. Len(decls), NEW e \in 1 .. Len(decls), m < e,
         NEW x \in Names(decls[m]), NEW y \in Names(decls[e]),
         NEW b \in Bits(P[Len(decls)].fields[x]),
         NEW c \in Bits(P[Len(decls)].fields[y])
  PROVE  /\ b \in Int /\ c \in Int /\ b < c
         /\ b < End(P[m]) /\ End(P[e - 1]) <= c
<1> DEFINE N == Len(decls)
           l == P[N].fields
<1>1. \A k \in 0 .. N : IsPlaced(P[k]) /\ End(P[k]) \in Nat
  BY EndIsNatural DEF InOrder
<1>2. \A j \in 0 .. N : \A k \in 0 .. j : End(P[k]) <= End(P[j])
  BY DEF InOrder
<1>3. InOrder(P, decls, N)
  OBVIOUS
<1>4. /\ IsField(l[x]) /\ End(P[m - 1]) <= b /\ b < End(P[m])
      /\ IsField(l[y]) /\ End(P[e - 1]) <= c /\ c < End(P[e])
  BY <1>3 DEF InOrder
<1>5. b \in Int /\ c \in Int
  BY <1>4 DEF IsField, IsComplete, Bits
<1> HIDE DEF l
<1>6. m \in 0 .. e - 1 /\ e - 1 \in 0 .. N /\ e \in 0 .. N /\ m \in 0 .. N
  OBVIOUS
<1>7. b < c
  <2>1. End(P[m]) <= End(P[e - 1])
    BY <1>2, <1>6
  <2>2. End(P[m]) \in Nat /\ End(P[e - 1]) \in Nat
    BY <1>1, <1>6
  <2>3. b < End(P[m]) /\ End(P[e - 1]) <= c
    BY <1>4
  <2> QED
    BY <1>5, <2>1, <2>2, <2>3
<1> QED
  BY <1>4, <1>5, <1>7

\* They are in different cells if the zero-width bit-field d is declared between them.
LEMMA Between ==
  ASSUME NEW decls, Len(decls) \in Nat, DOMAIN decls = 1 .. Len(decls),
         Proper(TRUE, decls),
         NEW P, \A k \in 0 .. Len(decls) : InOrder(P, decls, k),
         NEW m \in 1 .. Len(decls), NEW e \in 1 .. Len(decls), m < e,
         NEW d \in m + 1 .. e - 1, decls[d].bits = 0,
         NEW b \in Int, NEW c \in Int, b < End(P[m]), End(P[e - 1]) <= c
  PROVE  b \div 8 # c \div 8
<1> DEFINE N == Len(decls)
<1>1. /\ m \in 0 .. N /\ m \in 0 .. d /\ e - 1 \in 0 .. N
      /\ d \in 1 .. N /\ d \in 0 .. N /\ d \in 0 .. e - 1
  OBVIOUS
<1>3. IsPlaced(P[m]) /\ IsPlaced(P[d]) /\ IsPlaced(P[e - 1])
  BY <1>1 DEF InOrder
<1>4. End(P[m]) \in Nat /\ End(P[d]) \in Nat /\ End(P[e - 1]) \in Nat
  BY <1>3, EndIsNatural
<1>5. End(P[m]) <= End(P[d]) /\ End(P[d]) <= End(P[e - 1])
  BY <1>1 DEF InOrder
<1>6. P[d].bitoff = 0
  <2>1. InOrder(P, decls, N)
    OBVIOUS
  <2> QED
    BY <1>1, <2>1 DEF InOrder
<1>7. PICK o \in Nat : End(P[d]) = 8 * o
  BY <1>3, <1>6, EndIsNatural
<1>8. b < 8 * o /\ 8 * o <= c
  BY <1>4, <1>5, <1>7
<1>9. b \div 8 < o /\ o <= c \div 8
  BY <1>8
<1> QED
  BY <1>9

LEMMA StructLaidOut ==
  ASSUME NEW decls, Len(decls) \in Nat, DOMAIN decls = 1 .. Len(decls),
         Proper(TRUE, decls)
  PROVE  IsRecord(UpdateStructOffset(decls))
<1> DEFINE N == Len(decls)
           P == Placed(decls)
           l == P[N]
           c == FinishBitfield(l, 1)
           t == UpdateStructOffset(decls)
           whole == c.off + ComputePadding(c.off, l.align)
<1>1. /\ \A k \in 0 .. N : InOrder(P, decls, k)
      /\ Aligns(l.align, decls, N, {e \in 1 .. N : decls[e].name # NONE})
  BY AllInOrder
<1>2. t = [kind |-> "rec", struct |-> TRUE, decls |-> decls, keys |-> l.keys,
           fields |-> l.fields, size |-> whole, align |-> l.align]
  BY DEF UpdateStructOffset, Record
<1> HIDE DEF P, t
<1>3. InOrder(P, decls, N) /\ N \in 0 .. N
  BY <1>1
<1>4. IsPlaced(l)
  BY <1>3 DEF InOrder
<1>5. IsPlaced(c) /\ c.bitoff = 0 /\ End(l) <= End(c)
  BY <1>4, NextCell DEF Adds
<1> HIDE DEF l, c
<1>6. /\ ComputePadding(c.off, l.align) \in Nat /\ whole % l.align = 0
      /\ c.off \in Nat /\ l.align \in Nat \ {0}
  BY <1>4, <1>5, PaddingAligns DEF IsPlaced
<1>7. whole \in Nat /\ End(l) <= 8 * whole /\ End(l) \in Nat
  BY <1>4, <1>5, <1>6, EndIsNatural DEF End
<1> HIDE DEF whole
<1>8. ASSUME NEW k \in DOMAIN l.fields
      PROVE  \E e \in 1 .. N : k \in Names(decls[e])
  BY <1>3 DEF InOrder, l
<1>9. \A e \in 1 .. N : /\ IsMember(decls[e])
                        /\ IsAnonymous(decls[e]) => decls[e].type.align = 1
  BY DEF Proper
<1>10. NONE \notin DOMAIN l.fields
  BY <1>8, <1>9 DEF IsMember, IsRecord, Names
<1>11. \A e \in 1 .. N : \A k \in Names(decls[e]) :
          /\ IsField(l.fields[k]) /\ Divides(l.fields[k].type.align, l.fields[k].off)
          /\ Divides(l.fields[k].type.align, decls[e].type.align)
          /\ \A b \in Bits(l.fields[k]) : b < End(P[e])
          /\ k \in DOMAIN l.fields
  BY <1>3 DEF InOrder, l
<1>12. \A e \in 1 .. N : End(P[e]) <= End(l) /\ End(P[e]) \in Nat
  BY <1>3, EndIsNatural DEF InOrder, l
<1>13. ASSUME NEW k \in DOMAIN l.fields
       PROVE  /\ IsField(l.fields[k])
              /\ l.fields[k].off % l.fields[k].type.align = 0
              /\ l.align % l.fields[k].type.align = 0
              /\ \A b \in Bits(l.fields[k]) : b < 8 * whole
  <2> DEFINE f == l.fields[k]
  <2>1. PICK e \in 1 .. N : k \in Names(decls[e])
    BY <1>8
  <2>2. /\ IsField(f) /\ Divides(f.type.align, f.off)
        /\ Divides(f.type.align, decls[e].type.align)
        /\ \A b \in Bits(f) : b < End(P[e])
    BY <1>11, <2>1
  <2> HIDE DEF f
  <2>3. f.type.align \in Nat \ {0} /\ decls[e].type.align \in Nat \ {0}
    BY <1>9, <2>2 DEF IsField, IsMember, IsComplete
  <2>4. Divides(decls[e].type.align, l.align)
    <3>1. CASE decls[e].name # NONE
      BY <1>1, <3>1 DEF Aligns, l
    <3>2. CASE decls[e].name = NONE
      <4>1. IsAnonymous(decls[e])
        BY <2>1, <3>2 DEF Names
      <4> QED
        BY <1>6, <1>9, <4>1, DividesSelf
    <3> QED
      BY <3>1, <3>2
  <2>5. Divides(f.type.align, l.align)
    BY <1>6, <2>2, <2>3, <2>4, DividesTransitive
  <2>6. \A b \in Bits(f) : b \in Int
    BY <2>2 DEF IsField, IsComplete, Bits
  <2>7. \A b \in Bits(f) : b < 8 * whole
    BY <1>7, <1>12, <2>2, <2>6
  <2> QED
    BY <2>2, <2>5, <2>7 DEF Divides, f
<1>14. IsAligned(t)
  BY <1>2, <1>6, <1>13 DEF IsAligned
<1>15. ASSUME NEW m \in 1 .. N, NEW e \in 1 .. N, m < e,
              NEW x \in Names(decls[m]), NEW y \in Names(decls[e]),
              NEW b \in Bits(l.fields[x]), NEW c2 \in Bits(l.fields[y])
       PROVE  /\ b \in Int /\ c2 \in Int /\ b < c2
              /\ b < End(P[m]) /\ End(P[e - 1]) <= c2
  <2>1. \A k \in 0 .. Len(decls) : InOrder(P, decls, k)
    BY <1>1
  <2>2. b \in Bits(P[Len(decls)].fields[x]) /\ c2 \in Bits(P[Len(decls)].fields[y])
    BY DEF l
  <2> QED
    BY <1>15, <2>1, <2>2, Before
<1>16. MembersApart(t)
  <2> SUFFICES ASSUME NEW e \in 1 .. N, NEW k \in DOMAIN l.fields, NEW m \in DOMAIN l.fields,
                      k \in Names(decls[e]), m \notin Names(decls[e]),
                      NEW b \in Bits(l.fields[k]), b \in Bits(l.fields[m])
               PROVE  FALSE
    BY <1>2 DEF MembersApart, Declares
  <2>1. PICK j \in 1 .. N : m \in Names(decls[j])
    BY <1>8
  <2>2. j < e \/ e < j
    BY <2>1
  <2>3. b \in Int
    BY <1>13 DEF IsField, IsComplete, Bits
  <2>4. CASE j < e
    <3>1. b < b
      BY <1>15, <2>1, <2>4
    <3> QED
      BY <2>3, <3>1
  <2>5. CASE e < j
    <3>1. b < b
      BY <1>15, <2>1, <2>5
    <3> QED
      BY <2>3, <3>1
  <2> QED
    BY <2>2, <2>4, <2>5
<1>17. ZeroWidthSeparates(t)
  <2> SUFFICES ASSUME NEW d \in 1 .. N, NEW m \in 1 .. d - 1, NEW e \in d + 1 .. N,
                      decls[d].bits = 0,
                      NONE \notin {decls[m].name, decls[e].name},
                      NEW b \in Bits(l.fields[decls[m].name]),
                      NEW c2 \in Bits(l.fields[decls[e].name])
               PROVE  b \div 8 # c2 \div 8
    BY <1>2 DEF ZeroWidthSeparates
  <2>1. decls[m].name \in Names(decls[m]) /\ decls[e].name \in Names(decls[e])
    BY DEF Names, IsAnonymous
  <2>2. m \in 1 .. N /\ e \in 1 .. N /\ m < e /\ d \in m + 1 .. e - 1
    OBVIOUS
  <2>3. \A k \in 0 .. Len(decls) : InOrder(P, decls, k)
    BY <1>1
  <2>4. b \in Int /\ c2 \in Int /\ b < End(P[m]) /\ End(P[e - 1]) <= c2
    BY <1>15, <2>1, <2>2
  <2> QED
    BY <2>2, <2>3, <2>4, Between
<1>18. /\ l.keys \in Seq(DOMAIN l.fields) /\ DOMAIN l.fields \subseteq Range(l.keys)
  BY <1>4 DEF IsPlaced
<1>19. IsRecord(t)
  BY <1>2, <1>6, <1>7, <1>10, <1>13, <1>14, <1>16, <1>17, <1>18
     DEF IsRecord, IsComplete, LaidOut
<1> QED
  BY <1>19 DEF t

-----------------------------------------------------------------------------
(* Unions *)

LEMMA OverlaidIs ==
  ASSUME NEW decls, Len(decls) \in Nat
  PROVE  /\ Overlaid(decls)[0] = NoMembers
         /\ \A k \in 1 .. Len(decls) :
               Overlaid(decls)[k] = OverlayField(Overlaid(decls)[k - 1], decls[k])
<1> DEFINE Is(p, m) == p = [k \in 0 .. m |-> IF k = 0 THEN NoMembers
                                             ELSE OverlayField(p[k - 1], decls[k])]
           S == {m \in Nat : \E p : Is(p, m)}
<1>1. 0 \in S
  <2> DEFINE p == [k \in 0 .. 0 |-> NoMembers]
  <2>1. p = [k \in 0 .. 0 |-> IF k = 0 THEN NoMembers ELSE OverlayField(p[k - 1], decls[k])]
    OBVIOUS
  <2> HIDE DEF p
  <2> QED
    BY <2>1
<1>2. ASSUME NEW m \in Nat, m \in S PROVE m + 1 \in S
  <2>1. PICK p : Is(p, m)
    BY <1>2
  <2> DEFINE q == [k \in 0 .. m + 1 |->
                     IF k <= m THEN p[k] ELSE OverlayField(p[m], decls[m + 1])]
  <2>2. \A k \in 0 .. m : q[k] = p[k]
    OBVIOUS
  <2>3. \A k \in 0 .. m + 1 :
           q[k] = IF k = 0 THEN NoMembers ELSE OverlayField(q[k - 1], decls[k])
    <3> SUFFICES ASSUME NEW k \in 0 .. m + 1
                 PROVE  q[k] = IF k = 0 THEN NoMembers ELSE OverlayField(q[k - 1], decls[k])
      OBVIOUS
    <3>1. CASE k <= m
      <4>1. p[k] = IF k = 0 THEN NoMembers ELSE OverlayField(p[k - 1], decls[k])
        BY <2>1, <3>1
      <4>2. k # 0 => k - 1 \in 0 .. m
        BY <3>1
      <4>3. k # 0 => q[k - 1] = p[k - 1]
        BY <2>2, <4>2
      <4>4. q[k] = p[k]
        BY <2>2, <3>1
      <4> HIDE DEF q
      <4> QED
        BY <4>1, <4>3, <4>4
    <3>2. CASE ~ (k <= m)
      <4>1. k = m + 1 /\ k # 0 /\ k - 1 = m
        BY <3>2
      <4>2. q[m + 1] = OverlayField(p[m], decls[m + 1]) /\ q[m] = p[m]
        OBVIOUS
      <4> HIDE DEF q
      <4> QED
        BY <4>1, <4>2
    <3> QED
      BY <3>1, <3>2
  <2>4. q = [k \in 0 .. m + 1 |-> q[k]]
    OBVIOUS
  <2> HIDE DEF q
  <2>5. Is(q, m + 1)
    BY <2>3, <2>4
  <2> QED
    BY <2>5
<1> HIDE DEF S
<1>3. Len(decls) \in S
  BY <1>1, <1>2, NatSetInduction
<1>4. \E p : Is(p, Len(decls))
  BY <1>3 DEF S
<1> DEFINE P == CHOOSE p : Is(p, Len(decls))
<1>5. Is(P, Len(decls))
  BY <1>4
<1>6. Overlaid(decls) = P
  BY DEF Overlaid
<1> HIDE DEF P
<1>7. P[0] = NoMembers /\ \A k \in 1 .. Len(decls) : P[k] = OverlayField(P[k - 1], decls[k])
  BY <1>5
<1> QED
  BY <1>6, <1>7

\* A member at the start, inside the size.
Inside(f, whole, align) ==
    /\ IsField(f) /\ Divides(f.type.align, f.off) /\ Divides(f.type.align, align)
    /\ \A b \in Bits(f) : b < 8 * whole

\* One turn of update_union_offset.
LEMMA MemberOverlaid ==
  ASSUME NEW before, IsPlaced(before), NEW f, IsMember(f)
  PROVE  LET m == OverlayField(before, f)
         IN  /\ Adds(before, m, Names(f))
             /\ before.off <= m.off /\ f.type.size <= m.off
             /\ m.align = Higher(before.align, f.type.align)
             /\ \A x \in Names(f) : Inside(m.fields[x], f.type.size, f.type.align)
<1> DEFINE a == Higher(before.align, f.type.align)
           o == Higher(before.off, f.type.size)
           l == [before EXCEPT !.align = a, !.off = o]
           g == Field(f, 0, 0)
           m == OverlayField(before, f)
<1>1. /\ f.type.size \in Nat /\ f.type.align \in Nat \ {0} /\ f.bits \in Int
      /\ f.bits > 0 => f.type.size = 1
  BY DEF IsMember, IsComplete
<1>2. /\ a \in Nat \ {0} /\ o \in Nat
      /\ before.off <= o /\ f.type.size <= o
  BY <1>1 DEF IsPlaced, Higher
<1>3. m = IF IsAnonymous(f) THEN SquashUnnamedStruct(l, f.type, 0)
          ELSE DictPut(l, f.name, g)
  BY DEF OverlayField
<1> HIDE DEF a, o, m
<1>4. l = [off |-> o, bitoff |-> before.bitoff, align |-> a,
           keys |-> before.keys, fields |-> before.fields]
  <2>1. l = [before EXCEPT !.align = a, !.off = o]
    OBVIOUS
  <2> HIDE DEF l
  <2> QED
    BY <2>1 DEF IsPlaced
<1> HIDE DEF l
<1>5. IsPlaced(l) /\ Adds(before, l, {}) /\ l.off = o /\ l.align = a
  BY <1>2, <1>4 DEF IsPlaced, Adds
<1>6. CASE IsAnonymous(f)
  <2> DEFINE t == f.type
  <2>1. IsRecord(t) /\ Names(f) = DOMAIN t.fields /\ 0 \in Nat
    BY <1>6 DEF IsMember, Names
  <2>2. /\ Adds(l, m, DOMAIN t.fields) /\ m.align = a /\ m.off = o
        /\ \A x \in DOMAIN t.fields : m.fields[x] = [t.fields[x] EXCEPT !.off = @ + 0]
    BY <1>3, <1>5, <1>6, <2>1, SquashMembers
  <2>3. ASSUME NEW x \in DOMAIN t.fields
        PROVE  Inside(m.fields[x], t.size, t.align)
    <3> DEFINE h == t.fields[x]
    <3>1. /\ IsField(h) /\ h.off % h.type.align = 0 /\ t.align % h.type.align = 0
          /\ \A b \in Bits(h) : b < 8 * t.size
      BY <2>1 DEF IsRecord, LaidOut, IsAligned
    <3>2. m.fields[x] = [h EXCEPT !.off = @ + 0]
      BY <2>2
    <3> HIDE DEF h
    <3>3. m.fields[x] = h
      BY <3>1, <3>2 DEF IsField, Field
    <3> QED
      BY <3>1, <3>3 DEF Inside, Divides
  <2>4. Adds(before, m, Names(f))
    BY <1>5, <2>1, <2>2, AddsNothingAgain
  <2> QED
    BY <1>2, <2>1, <2>2, <2>3, <2>4 DEF m, a
<1>7. CASE ~ IsAnonymous(f)
  <2>1. /\ Adds(l, m, {f.name} \ {NONE}) /\ m.align = a /\ m.off = o
        /\ f.name # NONE => m.fields[f.name] = g
    BY <1>3, <1>5, <1>7, PutMember
  <2>2. Names(f) = {f.name} \ {NONE}
    BY <1>7 DEF Names
  <2>3. g = [type |-> f.type, bits |-> f.bits, off |-> 0, bitoff |-> 0]
    BY DEF Field
  <2> HIDE DEF g
  <2>4. IsField(g)
    BY <1>1, <2>3 DEF IsField, Field, IsComplete
  <2>5. Divides(g.type.align, g.off) /\ Divides(g.type.align, f.type.align)
    BY <1>1, <2>3, DividesSelf
  <2>6. \A b \in Bits(g) : b < 8 * f.type.size
    <3>1. f.bits <= 8 * f.type.size
      BY DEF IsMember, IsComplete
    <3> QED
      BY <1>1, <2>3, <3>1 DEF Bits
  <2>7. \A x \in Names(f) : Inside(m.fields[x], f.type.size, f.type.align)
    BY <2>1, <2>2, <2>4, <2>5, <2>6 DEF Inside
  <2>8. Adds(before, m, Names(f))
    BY <1>5, <2>1, <2>2, AddsNothingAgain
  <2> QED
    BY <1>2, <2>1, <2>7, <2>8 DEF m, a
<1> QED
  BY <1>6, <1>7

\* The members of the first k declarations, at the start of the union.
AtStart(l, decls, k) ==
    /\ IsPlaced(l) /\ Aligns(l.align, decls, k, 1 .. k)
    /\ DOMAIN l.fields = UNION {Names(decls[e]) : e \in 1 .. k}
    /\ \A e \in 1 .. k :
         /\ decls[e].type.size <= l.off
         /\ \A x \in Names(decls[e]) :
              Inside(l.fields[x], decls[e].type.size, decls[e].type.align)

LEMMA NextAtStart ==
  ASSUME NEW decls, Proper(FALSE, decls), Len(decls) \in Nat,
         DOMAIN decls = 1 .. Len(decls), NEW k \in 0 .. Len(decls) - 1,
         NEW l, AtStart(l, decls, k), NEW m, m = OverlayField(l, decls[k + 1])
  PROVE  AtStart(m, decls, k + 1)
<1> DEFINE f == decls[k + 1]
<1>1. /\ k \in Nat /\ k + 1 \in DOMAIN decls /\ k + 1 \in 1 .. k + 1
      /\ 1 .. k + 1 = 1 .. k \cup {k + 1}
      /\ 1 .. k \subseteq DOMAIN decls /\ k + 1 \notin 1 .. k
      /\ \A e \in 1 .. k : e # k + 1
  OBVIOUS
<1>2. IsPlaced(l) /\ \A e \in 1 .. k + 1 : IsMember(decls[e])
  BY <1>1 DEF AtStart, Proper
<1>3. /\ Adds(l, m, Names(f)) /\ l.off <= m.off /\ f.type.size <= m.off
      /\ m.align = Higher(l.align, f.type.align)
      /\ \A x \in Names(f) : Inside(m.fields[x], f.type.size, f.type.align)
  BY <1>1, <1>2, MemberOverlaid
<1>4. \A e \in 1 .. k : Names(decls[e]) \cap Names(f) = {}
  BY <1>1 DEF Proper
<1>5. 1 .. k \in SUBSET (1 .. k) /\ Aligns(l.align, decls, k, 1 .. k)
  BY DEF AtStart
<1>6. Aligns(m.align, decls, k + 1, 1 .. k + 1)
  BY <1>1, <1>3, <1>5, NextAligns
<1>7. DOMAIN m.fields = UNION {Names(decls[e]) : e \in 1 .. k + 1}
  <2>1. DOMAIN m.fields = (UNION {Names(decls[e]) : e \in 1 .. k}) \cup Names(f)
    BY <1>3 DEF AtStart, Adds
  <2> QED
    BY <1>1, <2>1, Zenon
<1>8. ASSUME NEW e \in 1 .. k + 1
      PROVE  /\ decls[e].type.size <= m.off
             /\ \A x \in Names(decls[e]) :
                   Inside(m.fields[x], decls[e].type.size, decls[e].type.align)
  <2>1. CASE e = k + 1
    BY <1>3, <2>1
  <2>2. CASE e \in 1 .. k
    <3>1. decls[e].type.size <= l.off /\ decls[e].type.size \in Nat
      BY <1>2, <2>2 DEF AtStart, IsMember, IsComplete
    <3>2. l.off \in Nat /\ m.off \in Nat
      BY <1>2, <1>3 DEF Adds, IsPlaced
    <3>3. decls[e].type.size <= m.off
      BY <1>3, <3>1, <3>2
    <3>4. \A x \in Names(decls[e]) : m.fields[x] = l.fields[x]
      BY <1>3, <1>4, <2>2 DEF AtStart, Adds
    <3> QED
      BY <2>2, <3>3, <3>4 DEF AtStart
  <2> QED
    BY <1>1, <2>1, <2>2
<1> QED
  BY <1>3, <1>6, <1>7, <1>8 DEF AtStart, Adds

LEMMA AllAtStart ==
  ASSUME NEW decls, Proper(FALSE, decls), Len(decls) \in Nat,
         DOMAIN decls = 1 .. Len(decls)
  PROVE  AtStart(Overlaid(decls)[Len(decls)], decls, Len(decls))
<1> DEFINE P == Overlaid(decls)
           N == Len(decls)
           S == {k \in Nat : k <= N => AtStart(P[k], decls, k)}
<1>1. P[0] = NoMembers /\ \A k \in 1 .. N : P[k] = OverlayField(P[k - 1], decls[k])
  BY OverlaidIs
<1> HIDE DEF P
<1>2. 0 \in S
  <2>1. 1 .. 0 = {}
    OBVIOUS
  <2>2. Aligns(P[0].align, decls, 0, 1 .. 0)
    BY <1>1, <2>1, NothingPlaced DEF Aligns
  <2>3. AtStart(P[0], decls, 0)
    BY <1>1, <2>1, <2>2, NothingPlaced DEF AtStart
  <2> QED
    BY <2>3
<1>3. ASSUME NEW k \in Nat, k \in S PROVE k + 1 \in S
  <2> SUFFICES ASSUME k + 1 <= N PROVE AtStart(P[k + 1], decls, k + 1)
    OBVIOUS
  <2>1. k \in 0 .. N - 1 /\ k + 1 \in 1 .. N /\ k <= N /\ k + 1 - 1 = k
    OBVIOUS
  <2>2. AtStart(P[k], decls, k)
    BY <1>3, <2>1
  <2>3. P[k + 1] = OverlayField(P[k], decls[k + 1])
    BY <1>1, <2>1
  <2> QED
    BY <2>1, <2>2, <2>3, NextAtStart
<1> HIDE DEF S
<1>4. N \in S
  BY <1>2, <1>3, NatSetInduction
<1> QED
  BY <1>4 DEF S, P

LEMMA UnionLaidOut ==
  ASSUME NEW decls, Len(decls) \in Nat, DOMAIN decls = 1 .. Len(decls),
         Proper(FALSE, decls)
  PROVE  IsRecord(UpdateUnionOffset(decls))
<1> DEFINE N == Len(decls)
           l == Overlaid(decls)[N]
           t == UpdateUnionOffset(decls)
           whole == l.off + ComputePadding(l.off, l.align)
<1>1. AtStart(l, decls, N)
  BY AllAtStart
<1>2. t = [kind |-> "rec", struct |-> FALSE, decls |-> decls, keys |-> l.keys,
           fields |-> l.fields, size |-> whole, align |-> l.align]
  BY DEF UpdateUnionOffset, Record
<1> HIDE DEF l, t
<1>3. IsPlaced(l)
  BY <1>1 DEF AtStart
<1>4. /\ ComputePadding(l.off, l.align) \in Nat /\ whole % l.align = 0
      /\ l.off \in Nat /\ l.align \in Nat \ {0}
  BY <1>3, PaddingAligns DEF IsPlaced
<1>5. whole \in Nat /\ l.off <= whole
  BY <1>4
<1> HIDE DEF whole
<1>6. \A k \in DOMAIN l.fields : \E e \in 1 .. N : k \in Names(decls[e])
  BY <1>1 DEF AtStart
<1>7. \A e \in 1 .. N : IsMember(decls[e])
  BY DEF Proper
<1>8. NONE \notin DOMAIN l.fields
  BY <1>6, <1>7 DEF IsMember, IsRecord, Names
<1>9. ASSUME NEW k \in DOMAIN l.fields
      PROVE  /\ IsField(l.fields[k])
             /\ l.fields[k].off % l.fields[k].type.align = 0
             /\ l.align % l.fields[k].type.align = 0
             /\ \A b \in Bits(l.fields[k]) : b < 8 * whole
  <2> DEFINE f == l.fields[k]
  <2>1. PICK e \in 1 .. N : k \in Names(decls[e])
    BY <1>6
  <2>2. /\ Inside(f, decls[e].type.size, decls[e].type.align)
        /\ decls[e].type.size <= l.off
        /\ Divides(decls[e].type.align, l.align)
    BY <1>1, <2>1 DEF AtStart, Aligns
  <2> HIDE DEF f
  <2>3. /\ f.type.align \in Nat \ {0} /\ decls[e].type.align \in Nat \ {0}
        /\ decls[e].type.size \in Nat
    BY <1>7, <2>2 DEF Inside, IsField, IsMember, IsComplete
  <2>4. Divides(f.type.align, l.align)
    BY <1>4, <2>2, <2>3, DividesTransitive DEF Inside
  <2>5. \A b \in Bits(f) : b \in Int /\ b < 8 * decls[e].type.size
    BY <2>2 DEF Inside, IsField, IsComplete, Bits
  <2>6. 8 * decls[e].type.size <= 8 * whole
    BY <1>4, <1>5, <2>2, <2>3
  <2>7. \A b \in Bits(f) : b < 8 * whole
    BY <1>5, <2>3, <2>5, <2>6
  <2> QED
    BY <2>2, <2>4, <2>7 DEF Inside, Divides, f
<1>10. IsAligned(t)
  BY <1>2, <1>4, <1>9 DEF IsAligned
<1>11. MembersApart(t) /\ ZeroWidthSeparates(t)
  BY <1>2 DEF MembersApart, ZeroWidthSeparates
<1>12. /\ l.keys \in Seq(DOMAIN l.fields) /\ DOMAIN l.fields \subseteq Range(l.keys)
  BY <1>3 DEF IsPlaced
<1>13. IsRecord(t)
  BY <1>2, <1>4, <1>5, <1>8, <1>9, <1>10, <1>11, <1>12
     DEF IsRecord, IsComplete, LaidOut
<1> QED
  BY <1>13 DEF t

-----------------------------------------------------------------------------
(* read_rectype_fields lays out whatever members the parser accepts: each at a *)
(* multiple of its alignment, in no bits of another, inside a size that is a    *)
(* multiple of the alignment of the whole, bit-fields with a zero-width one    *)
(* between them in different cells.  The result may be an anonymous member     *)
(* itself.                                                                     *)
THEOREM RecordsLaidOut ==
  ASSUME NEW isStruct \in BOOLEAN, NEW decls, Stack(decls),
         Proper(isStruct, FixFlexibleMember(decls))
  PROVE  IsRecord(ReadRectypeFields(isStruct, decls))
<1> DEFINE fixed == FixFlexibleMember(decls)
<1>1. Len(decls) \in Nat /\ DOMAIN decls = 1 .. Len(decls)
  BY StackHas
<1>2. fixed = [e \in 1 .. Len(decls) |-> fixed[e]]
  BY <1>1 DEF FixFlexibleMember
<1> HIDE DEF fixed
<1>3. Len(fixed) = Len(decls) /\ DOMAIN fixed = 1 .. Len(fixed)
  <2>1. fixed \in Seq(Range(fixed))
    <3>1. \A e \in 1 .. Len(decls) : fixed[e] \in Range(fixed)
      BY <1>2 DEF Range
    <3> QED
      BY <1>1, <1>2, <3>1
  <2>2. DOMAIN fixed = 1 .. Len(fixed) /\ Len(fixed) \in Nat
    BY <2>1
  <2> QED
    BY <1>1, <1>2, <2>2
<1>4. CASE isStruct
  BY <1>1, <1>3, <1>4, StructLaidOut DEF ReadRectypeFields, fixed
<1>5. CASE ~ isStruct
  BY <1>1, <1>3, <1>5, UnionLaidOut DEF ReadRectypeFields, fixed
<1> QED
  BY <1>4, <1>5

-----------------------------------------------------------------------------
(* A program is read declaration by declaration, and gen.c goes through them  *)
(* again and again: n always is one of them.                                  *)
Reads == /\ program \in Seq(Range(program))
         /\ \E f \in DOMAIN Programs : program \in Programs[f]
         /\ n \in 1 .. Len(program)

LEMMA InitReads == ASSUME Init PROVE Reads
<1>1. PICK f \in DOMAIN Programs : program \in Programs[f]
  BY DEF Init
<1>2. program \in Seq(Range(program)) \ {<< >>}
  BY <1>1, ProgramsAssumption
<1>3. Len(program) \in Nat /\ Len(program) >= 1
  BY <1>2
<1> QED
  BY <1>1, <1>2, <1>3 DEF Init, Reads

\* A step leaves n as it is or goes on to the next declaration, round and round.
LEMMA StepOn ==
  ASSUME [Next]_vars
  PROVE  /\ program' = program
         /\ n' = n \/ n' = IF n = Len(program) THEN 1 ELSE n + 1
<1>1. \/ Parses \/ Refuse \/ \E next : Onward(next)
      \/ /\ phase = "init" /\ open = << >> /\ UNCHANGED program
         /\ n' = IF n = Len(program) THEN 1 ELSE n + 1
      \/ UNCHANGED <<program, n>>
  <2>1. CASE BeginDecl
    BY <2>1 DEF BeginDecl, ReadInitializerList
  <2>2. CASE ReadList
    <3>1. CASE CloseList \/ LeaveList \/ FullList \/ AfterElem
      BY <3>1 DEF CloseList, LeaveList, FullList, AfterElem
    <3>2. CASE DesignateField \/ NextField \/ DesignateIndex \/ NextElem
      BY <3>2 DEF DesignateField, NextField, DesignateIndex, NextElem, Elem,
                  ReadInitializerElem, ReadInitializerList
    <3> QED
      BY <2>2, <3>1, <3>2 DEF ReadList
  <2>3. CASE ScalarElem \/ ScalarEnd \/ SkipElem \/ SkipEnd
    BY <2>3 DEF ScalarElem, ScalarEnd, SkipElem, SkipEnd, Elem,
                ReadInitializerElem, ReadInitializerList
  <2>4. CASE EndDecl
    BY <2>4 DEF EndDecl
  <2>5. CASE EmitToplevel \/ StoreGlobal \/ DeclareLocal \/ PassGlobal
    BY <2>5 DEF EmitToplevel, StoreGlobal, DeclareLocal, PassGlobal
  <2>6. CASE ZeroGlobals \/ UNCHANGED vars
    BY <2>6 DEF ZeroGlobals, vars
  <2> QED
    BY <2>1, <2>2, <2>3, <2>4, <2>5, <2>6 DEF Next
<1> QED
  BY <1>1 DEF Parses, Refuse, Onward

LEMMA NextReads == ASSUME Reads, [Next]_vars PROVE Reads'
<1>1. Len(program) \in Nat
  BY DEF Reads
<1>2. n' \in 1 .. Len(program)
  BY <1>1, StepOn DEF Reads
<1>3. program' = program
  BY StepOn
<1> QED
  BY <1>2, <1>3 DEF Reads

\* Each declaration of a program is given its type by read_rectype_fields and by
\* what reads the types without members: at n stands one that is laid out
\* (parse.c:1533-1659).
THEOREM WellLaidOutAlways == Spec => []WellLaidOut
<1>1. Init => Reads
  BY InitReads
<1>2. Reads /\ [Next]_vars => Reads'
  BY NextReads
<1>3. Reads => WellLaidOut
  <2> SUFFICES ASSUME Reads, TypeOf(n).kind = "rec"
               PROVE  LaidOut(TypeOf(n))
    BY DEF WellLaidOut, LaidOut
  <2>1. n \in DOMAIN program
    BY DEF Reads
  <2>2. IsRecordType(TypeOf(n))
    BY <2>1, ProgramsAssumption DEF Reads, TypeOf
  <2>3. IsRecord(ReadRectypeFields(TypeOf(n).struct, TypeOf(n).decls))
    BY <2>2, RecordsLaidOut DEF IsRecordType, Stack
  <2> QED
    BY <2>2, <2>3 DEF IsRecordType, IsRecord
<1> QED
  BY <1>1, <1>2, <1>3, PTL DEF Spec

-----------------------------------------------------------------------------
(* What the reader of initializers keeps, for types T with their parts        *)

\* The variables of the program under way are of types T.
Uses(T) == \A d \in DOMAIN program : TypeOf(d) \in T

\* A scalar in braces is read as an array of one.
Scalars(T)  == {t \in T : ~ IsAggregate(t)}
Openable(T) == T \cup {MakeArray(t, 1) : t \in Scalars(T)}

\* Where no type is empty or open, what is read is inside the variable, of
\* size w.
Sized(T)           == \A t \in T : t.size > 0
Fits(T, w, off, z) == Sized(T) => off + z <= w

Calls(T, w) ==
    {f \in [what : {"list", "scalar", "skip"}, type : Openable(T), off : Nat,
            brace : BOOLEAN, designated : BOOLEAN, i : Nat, called : BOOLEAN] :
       /\ f.what = "list" => IsAggregate(f.type)
       /\ f.what = "list" /\ f.type.kind = "rec" => f.i <= Len(f.type.keys)
       /\ f.what = "scalar" => ~ IsAggregate(f.type)
       /\ Fits(T, w, f.off, f.type.size)}
Callers(T, w) == {f \in Calls(T, w) : f.called}

\* Every call but the last waits for the one after it.
Nested(T, w, o) == o \in Seq(Calls(T, w)) /\ \A d \in 1 .. Len(o) - 1 : o[d].called

\* A store into a variable of size w.
Into(T, w, x)   == /\ x.off \in Nat
                   /\ \A k \in DOMAIN x.cells : k \in Nat \ {0} /\ Fits(T, w, x.off, k)
Stores(T, w, s) == Stack(s) /\ \A x \in Range(s) : Into(T, w, x)

Measured(T, w, z) == z \in Nat \cup {-1} /\ (Sized(T) => z = w)

Whole == TypeOf(n).size

ParserOK(T, o, p, s, z) == /\ Nested(T, Whole, o) /\ p \in 1 .. Len(Decl.toks) + 1
                           /\ Stores(T, Whole, s) /\ Measured(T, Whole, z)

\* A step of the reader: it goes on or the compiler stops.
Parsed(T) == \/ Parses /\ ParserOK(T, open', pos', inits', size')
             \/ Refuse

LEMMA ProductAbove ==
  ASSUME NEW z \in Nat \ {0}, NEW l \in Nat \ {0}
  PROVE  /\ z * l \in Nat \ {0} /\ l <= z * l
         /\ \A e \in Nat : e < l => z * e + z <= z * l
<1>1. z * l = l + (z - 1) * l /\ (z - 1) * l \in Nat /\ z * l \in Nat
  OBVIOUS
<1>2. ASSUME NEW e \in Nat, e < l
      PROVE  z * e + z <= z * l
  <2>1. z * l = z * e + z + z * (l - e - 1) /\ z * (l - e - 1) \in Nat
    BY <1>2
  <2> QED
    BY <2>1
<1> QED
  BY <1>1, <1>2

LEMMA TypesAre ==
  ASSUME NEW T, ClosedTypes(T), NEW t \in Openable(T)
  PROVE  /\ t.size \in Nat \cup {-1}
         /\ ~ IsAggregate(t) => t \in T /\ t.size \in Nat
         /\ t.kind = "array" => /\ t.of \in T /\ t.of.size \in Nat
                                /\ t.len \in Nat \cup {-1}
         /\ t.kind = "rec" =>
              /\ t \in T /\ t.keys \in Seq(DOMAIN t.fields)
              /\ DOMAIN t.fields \subseteq Range(t.keys)
              /\ \A k \in DOMAIN t.fields : t.fields[k].type \in T /\ t.fields[k].off \in Nat
<1>1. CASE t \in T /\ t.kind = "array"
  <2>1. /\ t = MakeArray(t.of, t.len) /\ t.len \in Nat \cup {-1}
        /\ t.of \in T /\ t.of.size \in Nat
    BY <1>1 DEF ClosedTypes, IsComplete
  <2>2. t.size = IF t.len < 0 THEN -1 ELSE t.of.size * t.len
    BY <2>1 DEF MakeArray
  <2>3. t.len \in Nat => t.of.size * t.len \in Nat
    BY <2>1
  <2> QED
    BY <1>1, <2>1, <2>2, <2>3 DEF IsAggregate
<1>2. CASE t \in T /\ t.kind = "rec"
  <2>1. IsRecordType(t) /\ \A k \in DOMAIN t.fields : t.fields[k].type \in T
    BY <1>2 DEF ClosedTypes
  <2>2. IsRecord(t)
    BY <2>1, RecordsLaidOut DEF IsRecordType, Stack
  <2> QED
    BY <1>2, <2>1, <2>2 DEF IsRecord, IsField, IsComplete, IsAggregate
<1>3. CASE t \in T /\ ~ IsAggregate(t)
  BY <1>3 DEF ClosedTypes, IsComplete, IsAggregate
<1>4. CASE t \notin T
  <2>1. PICK c \in T : ~ IsAggregate(c) /\ t = MakeArray(c, 1)
    BY <1>4 DEF Openable, Scalars
  <2>2. c.size \in Nat
    BY <2>1 DEF ClosedTypes, IsComplete
  <2>3. /\ t.kind = "array" /\ t.of = c /\ t.len = 1
        /\ t.size = IF 1 < 0 THEN -1 ELSE c.size * 1
    BY <2>1 DEF MakeArray
  <2> QED
    BY <2>2, <2>3 DEF IsAggregate
<1> QED
  BY <1>1, <1>2, <1>3, <1>4 DEF IsAggregate

LEMMA PartsInside ==
  ASSUME NEW T, ClosedTypes(T), Sized(T), NEW t \in Openable(T)
  PROVE  /\ t.size \in Nat \ {0}
         /\ t.kind = "array" => /\ t.len \in Nat \ {0} /\ t.len <= t.size
                                /\ \A e \in Nat : e < t.len =>
                                     t.of.size * e + t.of.size <= t.size
         /\ t.kind = "rec" => \A k \in DOMAIN t.fields :
                                t.fields[k].off + t.fields[k].type.size <= t.size
<1>1. CASE t \in T /\ t.kind = "array"
  <2> DEFINE z == t.of.size
             l == t.len
  <2>1. t = MakeArray(t.of, t.len) /\ l \in Nat \cup {-1} /\ t.of \in T
    BY <1>1 DEF ClosedTypes
  <2>2. t.size = (IF l < 0 THEN -1 ELSE z * l) /\ t.size > 0 /\ z > 0
    BY <1>1, <2>1 DEF MakeArray, Sized
  <2>3. z \in Nat
    BY <1>1 DEF ClosedTypes, IsComplete
  <2>4. l \in Nat /\ t.size = z * l /\ l # 0
    BY <2>1, <2>2, <2>3
  <2>5. z \in Nat \ {0} /\ l \in Nat \ {0}
    BY <2>2, <2>3, <2>4
  <2> HIDE DEF z, l
  <2>6. z * l \in Nat \ {0} /\ l <= z * l /\ \A e \in Nat : e < l => z * e + z <= z * l
    BY <2>5, ProductAbove
  <2> QED
    BY <1>1, <2>4, <2>5, <2>6 DEF z, l
<1>2. CASE t \in T /\ t.kind = "rec"
  <2>1. IsRecord(t)
    BY <1>2, RecordsLaidOut DEF ClosedTypes, IsRecordType, Stack
  <2>2. t.size \in Nat /\ t.size > 0
    BY <1>2, <2>1 DEF IsRecord, IsComplete, Sized
  <2>3. ASSUME NEW k \in DOMAIN t.fields
        PROVE  t.fields[k].off + t.fields[k].type.size <= t.size
    <3> DEFINE f == t.fields[k]
    <3>1. /\ IsField(f) /\ f.type \in T /\ f.type.size > 0
          /\ \A b \in Bits(f) : b < 8 * t.size
      BY <1>2, <2>1 DEF IsRecord, LaidOut, IsAligned, ClosedTypes, Sized
    <3> HIDE DEF f
    <3>2. /\ f.off \in Nat /\ f.bitoff \in Nat /\ f.bits \in Int
          /\ f.type.size \in Nat \ {0} /\ (f.bits > 0 => f.type.size = 1)
      BY <3>1 DEF IsField, IsComplete
    <3>3. CASE f.bits > 0
      <4>1. 8 * f.off + f.bitoff \in Bits(f)
        BY <3>2, <3>3 DEF Bits
      <4>2. 8 * f.off + f.bitoff < 8 * t.size
        BY <3>1, <4>1
      <4> QED
        BY <2>2, <3>2, <3>3, <4>2 DEF f
    <3>4. CASE ~ (f.bits > 0)
      <4>1. 8 * f.off + f.bitoff + 8 * f.type.size - 1 \in Bits(f)
        BY <3>2, <3>4 DEF Bits
      <4>2. 8 * f.off + f.bitoff + 8 * f.type.size - 1 < 8 * t.size
        BY <3>1, <4>1
      <4> QED
        BY <2>2, <3>2, <4>2 DEF f
    <3> QED
      BY <3>3, <3>4
  <2> QED
    BY <1>2, <2>2, <2>3
<1>3. CASE t \in T /\ ~ IsAggregate(t)
  BY <1>3 DEF ClosedTypes, IsComplete, IsAggregate, Sized
<1>4. CASE t \notin T
  <2>1. PICK c \in T : ~ IsAggregate(c) /\ t = MakeArray(c, 1)
    BY <1>4 DEF Openable, Scalars
  <2>2. c.size \in Nat /\ c.size > 0
    BY <2>1 DEF ClosedTypes, IsComplete, Sized
  <2>3. t.kind = "array" /\ t.of = c /\ t.len = 1 /\ t.size = c.size * 1
    BY <2>1 DEF MakeArray
  <2>4. \A e \in Nat : e < 1 => c.size * e + c.size <= c.size
    BY <2>2
  <2> QED
    BY <2>2, <2>3, <2>4
<1> QED
  BY <1>1, <1>2, <1>3, <1>4 DEF IsAggregate

\* The stack of calls: a call is put on those that wait, or leaves them.
LEMMA Waiting ==
  ASSUME NEW T, NEW w, NEW o \in Seq(Callers(T, w))
  PROVE  Nested(T, w, o)
<1>1. Callers(T, w) \subseteq Calls(T, w) /\ \A g \in Callers(T, w) : g.called
  BY DEF Callers
<1> QED
  BY <1>1, WiderSeq, ElementShape DEF Nested

LEMMA CallPushed ==
  ASSUME NEW T, NEW w, NEW o \in Seq(Callers(T, w)), NEW f \in Calls(T, w)
  PROVE  Nested(T, w, Append(o, f))
<1>1. Callers(T, w) \subseteq Calls(T, w) /\ \A g \in Callers(T, w) : g.called
  BY DEF Callers
<1>2. o \in Seq(Calls(T, w)) /\ Len(o) \in Nat /\ \A d \in 1 .. Len(o) : o[d].called
  BY <1>1, WiderSeq, ElementShape
<1> QED
  BY <1>2, AppendShape DEF Nested

LEMMA CallPopped ==
  ASSUME NEW T, NEW w, NEW o, Nested(T, w, o), o # << >>
  PROVE  /\ Front(o) \in Seq(Callers(T, w)) /\ Last(o) \in Calls(T, w)
         /\ Nested(T, w, Front(o))
<1>1. /\ o \in Seq(Calls(T, w)) /\ Len(o) \in Nat /\ Last(o) \in Calls(T, w)
      /\ \A d \in 1 .. Len(o) - 1 : o[d].called
  BY LastShape DEF Nested
<1>2. /\ Front(o) \in Seq(Calls(T, w)) /\ Len(Front(o)) = Len(o) - 1
      /\ \A d \in 1 .. Len(o) - 1 : Front(o)[d] = o[d]
  BY <1>1, FrontShape
<1>3. \A d \in 1 .. Len(Front(o)) : Front(o)[d] \in Callers(T, w)
  BY <1>1, <1>2 DEF Callers
<1>4. Front(o) \in Seq(Callers(T, w))
  BY <1>2, <1>3
<1>5. Nested(T, w, Front(o))
  BY <1>1, <1>2 DEF Nested
<1> QED
  BY <1>1, <1>4, <1>5

\* The tokens of the declaration; a semicolon stands for their end.
LEMMA Tokens ==
  ASSUME Reads
  PROVE  /\ Len(Decl.toks) \in Nat
         /\ \A p \in Int : At(p).k # ";" => p \in 1 .. Len(Decl.toks)
         /\ \A p \in Int : IsToken(At(p))
<1>1. n \in DOMAIN program
  BY DEF Reads
<1>2. Stack(Decl.toks) /\ \A tok \in Range(Decl.toks) : IsToken(tok)
  BY <1>1, ProgramsAssumption DEF Reads, Decl, Stack
<1>3. /\ Len(Decl.toks) \in Nat /\ DOMAIN Decl.toks = 1 .. Len(Decl.toks)
      /\ \A p \in 1 .. Len(Decl.toks) : Decl.toks[p] \in Range(Decl.toks)
  BY <1>2, StackHas
<1> QED
  BY <1>2, <1>3 DEF At, IsToken

LEMMA OneOn ==
  ASSUME NEW m \in Nat, NEW x \in 1 .. m
  PROVE  x + 1 \in 1 .. m + 1
OBVIOUS

LEMMA TokenAt ==
  ASSUME Reads, NEW p \in Int, At(p).k # ";"
  PROVE  p \in 1 .. Len(Decl.toks) /\ p + 1 \in 1 .. Len(Decl.toks) + 1
<1>1. p \in 1 .. Len(Decl.toks) /\ Len(Decl.toks) \in Nat
  BY Tokens
<1> QED
  BY <1>1, OneOn

LEMMA TypeDeclared ==
  ASSUME NEW T, Uses(T), Reads, NEW d \in 1 .. Len(program)
  PROVE  TypeOf(d) \in T
<1>1. d \in DOMAIN program
  BY DEF Reads
<1> QED
  BY <1>1 DEF Uses

LEMMA WholeIs ==
  ASSUME NEW T, ClosedTypes(T), Uses(T), Reads
  PROVE  TypeOf(n) \in T /\ Whole \in Nat \cup {-1} /\ Measured(T, Whole, Whole)
<1>1. TypeOf(n) \in T
  BY TypeDeclared DEF Reads
<1>2. TypeOf(n) \in Openable(T)
  BY <1>1 DEF Openable
<1> QED
  BY <1>1, <1>2, TypesAre DEF Whole, Measured

\* A part of what fits.
LEMMA PartFits ==
  ASSUME NEW T, NEW w \in Int, NEW off \in Nat, NEW z \in Int, Fits(T, w, off, z),
         NEW a \in Nat, NEW y \in Int, Sized(T) => a + y <= z
  PROVE  Fits(T, w, off + a, y)
BY DEF Fits

LEMMA FieldFits ==
  ASSUME NEW T, ClosedTypes(T), NEW t \in Openable(T), t.kind = "rec",
         NEW w \in Int, NEW off \in Nat, Fits(T, w, off, t.size),
         NEW k \in DOMAIN t.fields
  PROVE  Fits(T, w, off + t.fields[k].off, t.fields[k].type.size)
<1>1. t.size \in Int /\ t.fields[k].off \in Nat /\ t.fields[k].type.size \in Int
  <2>1. t.fields[k].type \in Openable(T)
    BY TypesAre DEF Openable
  <2> QED
    BY <2>1, TypesAre
<1>2. Sized(T) => t.fields[k].off + t.fields[k].type.size <= t.size
  BY PartsInside
<1> QED
  BY <1>1, <1>2, PartFits

LEMMA ElementFits ==
  ASSUME NEW T, ClosedTypes(T), NEW t \in Openable(T), t.kind = "array",
         NEW w \in Int, NEW off \in Nat, Fits(T, w, off, t.size),
         NEW e \in Nat, t.len > 0 => e < t.len
  PROVE  Fits(T, w, off + t.of.size * e, t.of.size)
<1>1. t.size \in Int /\ t.of.size \in Nat
  BY TypesAre
<1>2. t.of.size * e \in Nat
  BY <1>1
<1>3. Sized(T) => t.of.size * e + t.of.size <= t.size
  BY PartsInside
<1> QED
  BY <1>1, <1>2, <1>3, PartFits

LEMMA StoreFound ==
  ASSUME NEW T, NEW w, NEW s, Stores(T, w, s),
         NEW x, Into(T, w, x)
  PROVE  Stores(T, w, Append(s, x))
BY RangeAppend DEF Stores

LEMMA OneCell ==
  ASSUME NEW T, NEW w, NEW off \in Nat, Fits(T, w, off, 1), NEW v
  PROVE  Into(T, w, Store(off, <<v>>))
<1> DEFINE x == Store(off, <<v>>)
<1>1. x.off = off /\ x.cells = <<v>>
  BY DEF Store
<1> HIDE DEF x
<1>2. DOMAIN x.cells = {1}
  BY <1>1
<1> QED
  BY <1>1, <1>2 DEF Into, x

LEMMA StringStored ==
  ASSUME NEW T, ClosedTypes(T), NEW t \in T, t.kind = "array", NEW off \in Nat,
         NEW chars \in Nat, NEW w \in Int, NEW s, Stores(T, w, s), Fits(T, w, off, t.size)
  PROVE  Stores(T, w, s \o AssignString(t, off, chars))
<1> DEFINE len == IF t.len = -1 THEN chars + 1 ELSE t.len
           u   == AssignString(t, off, chars)
<1>1. t.len \in Nat \cup {-1}
  BY DEF ClosedTypes
<1>2. len \in Nat
  BY <1>1
<1>3. /\ u = [k \in 1 .. len |-> u[k]]
      /\ \A k \in 1 .. len : \E v : u[k] = Store(off + k - 1, <<v>>)
  BY DEF AssignString
<1>4. Sized(T) => off + len <= w
  <2> SUFFICES ASSUME Sized(T) PROVE off + len <= w
    OBVIOUS
  <2>1. t \in Openable(T)
    BY DEF Openable
  <2>2. t.len \in Nat \ {0} /\ t.len <= t.size /\ t.size \in Nat
    BY <2>1, PartsInside
  <2> QED
    BY <2>1, <2>2 DEF Fits
<1> HIDE DEF len, u
<1>5. Stores(T, w, u)
  <2>1. DOMAIN u = 1 .. len
    BY <1>3
  <2>2. \A k \in 1 .. len : u[k] \in Range(u)
    BY <2>1 DEF Range
  <2>3. u \in Seq(Range(u))
    BY <1>2, <1>3, <2>2
  <2>4. ASSUME NEW k \in 1 .. len
        PROVE  Into(T, w, u[k])
    <3>1. k <= len /\ k \in Int /\ len \in Int /\ off + k - 1 \in Nat
      BY <1>2
    <3>2. Sized(T) => (off + k - 1) + 1 <= w
      BY <1>4, <3>1
    <3>3. Fits(T, w, off + k - 1, 1)
      BY <3>2 DEF Fits
    <3> QED
      BY <1>3, <3>1, <3>3, OneCell
  <2> QED
    BY <2>1, <2>3, <2>4 DEF Stack, Range, Stores
<1>6. Stack(s \o u) /\ Range(s \o u) \subseteq Range(s) \cup Range(u)
  BY <1>5, RangeConcat DEF Stores
<1> QED
  BY <1>5, <1>6 DEF Stores, u

-----------------------------------------------------------------------------
(* read_initializer_list and read_initializer_elem, leaving calls that wait   *)

LEMMA StringRead ==
  ASSUME NEW T, ClosedTypes(T), Uses(T), Reads,
         Stores(T, Whole, inits), Measured(T, Whole, size),
         NEW t \in T, IsString(t), NEW off \in Nat, Fits(T, Whole, off, t.size),
         NEW p \in Int, At(p).k = "string", ReadString(t, off, p)
  PROVE  Stores(T, Whole, inits') /\ Measured(T, Whole, size')
<1>1. At(p).len \in Nat /\ Whole \in Int
  <2>1. IsToken(At(p))
    BY Tokens
  <2>2. At(p).len \in Nat
    BY <2>1 DEF IsToken
  <2> QED
    BY <2>2, WholeIs
<1>2. Stores(T, Whole, inits \o AssignString(t, off, At(p).len))
  BY <1>1, StringStored DEF IsString
<1>3. Measured(T, Whole, size')
  <2>1. t \in Openable(T)
    BY DEF Openable
  <2>2. Sized(T) => t.len # -1
    BY <2>1, PartsInside DEF IsString
  <2> QED
    BY <1>1, <2>2 DEF ReadString, Measured
<1> QED
  BY <1>1, <1>2, <1>3 DEF ReadString

LEMMA ArrayOfOne ==
  ASSUME NEW t, t.size \in Nat
  PROVE  MakeArray(t, 1).size = t.size
<1>1. MakeArray(t, 1).size = IF 1 < 0 THEN -1 ELSE t.size * 1
  BY DEF MakeArray
<1>2. \A z \in Nat : (IF 1 < 0 THEN -1 ELSE z * 1) = z
  OBVIOUS
<1> QED
  BY <1>1, <1>2

LEMMA ListRead ==
  ASSUME NEW T, ClosedTypes(T), Uses(T), Reads,
         Stores(T, Whole, inits), Measured(T, Whole, size),
         NEW t \in T, NEW off \in Nat, Fits(T, Whole, off, t.size),
         NEW designated \in BOOLEAN,
         NEW p \in 1 .. Len(Decl.toks) + 1, NEW o \in Seq(Callers(T, Whole)),
         ReadInitializerList(t, off, designated, p, o)
  PROVE  Parsed(T)
<1>1. Len(Decl.toks) \in Nat /\ p \in Int
  <2>1. Len(Decl.toks) \in Nat
    BY Tokens
  <2> QED
    BY <2>1
<1>2. Nested(T, Whole, o)
  BY Waiting
<1>3. ASSUME IsString(t), At(p).k = "string",
             ReadString(t, off, p), Reading(o, p + 1), Parses
      PROVE  Parsed(T)
  <2>1. p + 1 \in 1 .. Len(Decl.toks) + 1
    BY <1>1, <1>3, TokenAt
  <2> QED
    BY <1>1, <1>2, <1>3, <2>1, StringRead DEF Parsed, ParserOK, Reading
<1>4. ASSUME IsString(t), At(p + 1).k = "string", At(p + 2).k = "}",
             ReadString(t, off, p + 1), Reading(o, p + 3), Parses
      PROVE  Parsed(T)
  <2>1. p + 2 \in Int /\ p + 1 \in Int
    BY <1>1
  <2>2. p + 2 \in 1 .. Len(Decl.toks)
    BY <1>4, <2>1, TokenAt
  <2>3. p + 3 \in 1 .. Len(Decl.toks) + 1
    BY <1>1, <2>2
  <2> QED
    BY <1>2, <1>4, <2>1, <2>3, StringRead DEF Parsed, ParserOK, Reading
<1>5. ASSUME NEW brace \in BOOLEAN, NEW next, next = IF brace THEN p + 1 ELSE p,
             brace => At(p).k = "{",
             NEW whole, whole = IF IsAggregate(t) THEN t ELSE MakeArray(t, 1),
             Reading(Append(o, Call("list", whole, off, brace, designated)), next),
             Keep, Parses
      PROVE  Parsed(T)
  <2>1. next \in 1 .. Len(Decl.toks) + 1
    BY <1>1, <1>5, TokenAt
  <2>2. whole \in Openable(T) /\ IsAggregate(whole)
    BY <1>5 DEF Openable, Scalars, IsAggregate, MakeArray
  <2>3. whole.kind = "rec" => Len(whole.keys) \in Nat
    BY <2>2, TypesAre
  <2>4. Fits(T, Whole, off, whole.size)
    <3>1. t.size \in Nat \cup {-1} /\ (~ IsAggregate(t) => t.size \in Nat)
      BY TypesAre DEF Openable
    <3>2. whole.size = t.size
      BY <1>5, <3>1, ArrayOfOne
    <3> QED
      BY <3>2
  <2>5. Call("list", whole, off, brace, designated) \in Calls(T, Whole)
    BY <2>2, <2>3, <2>4 DEF Call, Calls
  <2>6. Nested(T, Whole, Append(o, Call("list", whole, off, brace, designated)))
    BY <2>5, CallPushed
  <2> QED
    BY <1>5, <2>1, <2>6 DEF Parsed, ParserOK, Reading, Keep
<1>6. ReadInitializerList(t, off, designated, p, o) =>
        \/ Refuse
        \/ /\ IsString(t) /\ At(p).k = "string"
           /\ ReadString(t, off, p) /\ Reading(o, p + 1) /\ Parses
        \/ /\ IsString(t) /\ At(p + 1).k = "string" /\ At(p + 2).k = "}"
           /\ ReadString(t, off, p + 1) /\ Reading(o, p + 3) /\ Parses
        \/ \E brace \in BOOLEAN :
             /\ brace => At(p).k = "{"
             /\ Reading(Append(o, Call("list", IF IsAggregate(t) THEN t ELSE MakeArray(t, 1),
                                       off, brace, designated)),
                        IF brace THEN p + 1 ELSE p)
             /\ Keep /\ Parses
  <2>1. (At(p).k = "{") \in BOOLEAN
    OBVIOUS
  <2> QED
    BY <2>1 DEF ReadInitializerList
<1> QED
  BY <1>3, <1>4, <1>5, <1>6 DEF Parsed

LEMMA ElemRead ==
  ASSUME NEW T, ClosedTypes(T), Uses(T), Reads,
         Stores(T, Whole, inits), Measured(T, Whole, size),
         NEW t \in T, NEW off \in Nat, Fits(T, Whole, off, t.size),
         NEW designated \in BOOLEAN,
         NEW p \in 1 .. Len(Decl.toks) + 1, NEW o \in Seq(Callers(T, Whole)),
         ReadInitializerElem(t, off, designated, p, o)
  PROVE  Parsed(T)
<1>1. Len(Decl.toks) \in Nat /\ p \in Int
  <2>1. Len(Decl.toks) \in Nat
    BY Tokens
  <2> QED
    BY <2>1
<1>2. CASE IsAggregate(t) /\ ReadInitializerList(t, off, designated, p, o)
  BY <1>2, ListRead
<1>3. CASE /\ ~ IsAggregate(t) /\ At(p).k = "{"
           /\ Reading(Append(o, Call("scalar", t, off, TRUE, TRUE)), p + 1)
           /\ Keep /\ Parses
  <2>1. p + 1 \in 1 .. Len(Decl.toks) + 1
    BY <1>1, <1>3, TokenAt
  <2>2. Call("scalar", t, off, TRUE, TRUE) \in Calls(T, Whole)
    BY <1>3 DEF Call, Calls, Openable, Scalars
  <2>3. Nested(T, Whole, Append(o, Call("scalar", t, off, TRUE, TRUE)))
    BY <2>2, CallPushed
  <2> QED
    BY <1>3, <2>1, <2>3 DEF Parsed, ParserOK, Reading, Keep
<1>4. CASE /\ At(p).k \in {"expr", "string"}
           /\ inits' = Append(inits, Store(off, <<Value(0)>>))
           /\ Reading(o, p + 1) /\ Parses /\ UNCHANGED size
  <2>1. p + 1 \in 1 .. Len(Decl.toks) + 1
    BY <1>1, <1>4, TokenAt
  <2>2. Fits(T, Whole, off, 1)
    <3>1. t \in Openable(T) /\ Whole \in Int /\ t.size \in Int
      BY WholeIs, TypesAre DEF Openable
    <3>2. Sized(T) => t.size \in Nat \ {0}
      BY <3>1, PartsInside
    <3> QED
      BY <3>1, <3>2 DEF Fits
  <2>3. Stores(T, Whole, inits')
    BY <1>4, <2>2, OneCell, StoreFound
  <2>4. Nested(T, Whole, o)
    BY Waiting
  <2> QED
    BY <1>4, <2>1, <2>3, <2>4 DEF Parsed, ParserOK, Reading
<1>5. CASE Refuse
  BY <1>5 DEF Parsed
<1> QED
  BY <1>2, <1>3, <1>4, <1>5 DEF ReadInitializerElem

-----------------------------------------------------------------------------
(* The steps of the reader                                                    *)

Parser(T) == ParserOK(T, open, pos, inits, size)

LEMMA TopIs ==
  ASSUME NEW T, ClosedTypes(T), Parser(T), open # << >>
  PROVE  /\ Top \in Calls(T, Whole) /\ Leave \in Seq(Callers(T, Whole))
         /\ Nested(T, Whole, Leave) /\ Fits(T, Whole, Top.off, Top.type.size)
         /\ Top.type \in Openable(T) /\ Top.off \in Nat /\ Top.i \in Nat
         /\ Top.brace \in BOOLEAN /\ Top.designated \in BOOLEAN
         /\ Top.what = "list" => IsAggregate(Top.type)
         /\ Top.what = "list" /\ Top.type.kind = "rec" =>
              /\ Top.i <= Len(Top.type.keys) /\ Len(Top.type.keys) \in Nat
         /\ Top.what = "scalar" => ~ IsAggregate(Top.type)
<1>1. /\ Top \in Calls(T, Whole) /\ Leave \in Seq(Callers(T, Whole))
      /\ Nested(T, Whole, Leave)
  BY CallPopped DEF Parser, ParserOK, Top, Leave
<1> HIDE DEF Top
<1>2. /\ Top.type \in Openable(T) /\ Top.off \in Nat /\ Top.i \in Nat
      /\ Top.brace \in BOOLEAN /\ Top.designated \in BOOLEAN
      /\ Top.what = "list" => IsAggregate(Top.type)
      /\ Top.what = "list" /\ Top.type.kind = "rec" => Top.i <= Len(Top.type.keys)
      /\ Top.what = "scalar" => ~ IsAggregate(Top.type)
      /\ Fits(T, Whole, Top.off, Top.type.size)
  BY <1>1 DEF Calls
<1>3. Top.type.kind = "rec" => Len(Top.type.keys) \in Nat
  BY <1>2, TypesAre
<1> QED
  BY <1>1, <1>2, <1>3

LEMMA TopUpdated ==
  ASSUME NEW T, ClosedTypes(T), Parser(T), open # << >>, NEW f \in Calls(T, Whole)
  PROVE  /\ Nested(T, Whole, Update(f))
         /\ f.called => Update(f) \in Seq(Callers(T, Whole))
<1>1. Leave \in Seq(Callers(T, Whole)) /\ Update(f) = Append(Leave, f)
  BY TopIs DEF Update, Leave
<1>2. f.called => f \in Callers(T, Whole)
  BY DEF Callers
<1> QED
  BY <1>1, <1>2, CallPushed, AppendShape

LEMMA ElemOf ==
  ASSUME NEW T, ClosedTypes(T), Uses(T), Reads, Parser(T), open # << >>,
         NEW t \in T, NEW off \in Nat, Fits(T, Whole, off, t.size),
         NEW designated \in BOOLEAN,
         NEW p \in 1 .. Len(Decl.toks) + 1, NEW e \in Nat,
         Top.what = "list" /\ Top.type.kind = "rec" => e <= Len(Top.type.keys),
         Elem(t, off, designated, p, e)
  PROVE  Parsed(T)
<1> DEFINE f == [Top EXCEPT !.i = e, !.designated = designated, !.called = TRUE]
<1>1. Top \in Calls(T, Whole)
  BY TopIs
<1>2. f \in Calls(T, Whole) /\ f.called
  BY <1>1 DEF Calls
<1> HIDE DEF f
<1>3. Update(f) \in Seq(Callers(T, Whole))
  BY <1>2, TopUpdated
<1>4. ReadInitializerElem(t, off, designated, p, Update(f))
  BY DEF Elem, f
<1>5. Stores(T, Whole, inits) /\ Measured(T, Whole, size)
  BY DEF Parser, ParserOK
<1> QED
  BY <1>3, <1>4, <1>5, ElemRead

LEMMA ListEnded ==
  ASSUME NEW T, ClosedTypes(T), Parser(T), open # << >>, NEW p,
         EndList(p)
  PROVE  Nested(T, Whole, open') /\ pos' = p
<1> DEFINE f == [Top EXCEPT !.what = "skip"]
<1>1. Top \in Calls(T, Whole) /\ Nested(T, Whole, Leave)
  BY TopIs
<1>2. f \in Calls(T, Whole)
  BY <1>1 DEF Calls
<1> HIDE DEF f
<1>3. Nested(T, Whole, Update(f))
  BY <1>2, TopUpdated
<1> QED
  BY <1>1, <1>3 DEF EndList, Reading, f

\* The next token, and the one after a comma.
LEMMA TokIs ==
  ASSUME NEW T, Reads, Parser(T)
  PROVE  /\ pos \in Int /\ pos \in 1 .. Len(Decl.toks) + 1
         /\ Tok.k # ";" => pos + 1 \in 1 .. Len(Decl.toks) + 1
         /\ AfterComma \in 1 .. Len(Decl.toks) + 1
         /\ IsToken(Tok)
<1>1. pos \in 1 .. Len(Decl.toks) + 1 /\ Len(Decl.toks) \in Nat
  BY Tokens DEF Parser, ParserOK
<1>2. pos \in Int
  BY <1>1
<1>3. Tok.k # ";" => pos + 1 \in 1 .. Len(Decl.toks) + 1
  BY <1>2, TokenAt DEF Tok
<1>4. IsToken(Tok)
  BY <1>2, Tokens DEF Tok
<1> QED
  BY <1>1, <1>2, <1>3, <1>4 DEF AfterComma

LEMMA ElementOffset ==
  ASSUME NEW off \in Nat, NEW x \in Nat, NEW e \in Nat
  PROVE  off + x * e \in Nat
<1>1. x * e \in Nat
  OBVIOUS
<1> QED
  BY <1>1

LEMMA CloseListKeeps ==
  ASSUME NEW T, ClosedTypes(T), Uses(T), Reads, Parser(T), CloseList
  PROVE  Parsed(T)
<1>1. open # << >> /\ Tok.k = "}" /\ Top.what = "list"
  BY DEF CloseList, InLoop, InList, In
<1>2. /\ open' = Leave /\ pos' = IF Top.brace THEN pos + 1 ELSE pos
      /\ inits' = inits /\ Parses
  BY DEF CloseList, Reading
<1>3. pos' \in 1 .. Len(Decl.toks) + 1
  BY <1>1, <1>2, TokIs
<1>4. Measured(T, Whole, size')
  <2>1. Top.i \in Nat /\ Top.type \in Openable(T) /\ Measured(T, Whole, size)
    BY <1>1, TopIs DEF Parser, ParserOK
  <2>2. IsArray => Top.type.of.size \in Nat
    BY <2>1, TypesAre DEF IsArray
  <2>3. IsArray => Top.type.of.size * Top.i \in Nat
    BY <2>1, <2>2
  <2>4. Sized(T) => (IsArray => Top.type.len # -1)
    BY <2>1, PartsInside DEF IsArray
  <2>5. size' = IF IsArray /\ Top.type.len = -1 THEN Top.type.of.size * Top.i ELSE size
    BY DEF CloseList, Finish
  <2> QED
    BY <2>1, <2>3, <2>4, <2>5 DEF Measured
<1>5. Nested(T, Whole, open') /\ Stores(T, Whole, inits')
  BY <1>1, <1>2, TopIs DEF Parser, ParserOK
<1> QED
  BY <1>2, <1>3, <1>4, <1>5 DEF Parsed, ParserOK

LEMMA DesignateFieldKeeps ==
  ASSUME NEW T, ClosedTypes(T), Uses(T), Reads, Parser(T), DesignateField
  PROVE  Parsed(T)
<1>1. /\ open # << >> /\ Tok.k = "." /\ Top.what = "list" /\ ~ IsArray
  BY DEF DesignateField, InLoop, InList, In
<1>2. Top.type.kind = "rec" /\ Top.type \in Openable(T) /\ Top.off \in Nat
  BY <1>1, TopIs DEF IsArray, IsAggregate
<1>3. CASE Tok.name \in DOMAIN Top.type.fields
  <2> DEFINE f == Top.type.fields[Tok.name]
  <2>1. f.type \in T /\ f.off \in Nat
    BY <1>2, <1>3, TypesAre
  <2>2. /\ Tok.name \in Range(Top.type.keys)
        /\ Top.type.keys \in Seq(DOMAIN Top.type.fields)
    BY <1>2, <1>3, TypesAre
  <2>3. DOMAIN Top.type.keys = 1 .. Len(Top.type.keys) /\ Len(Top.type.keys) \in Nat
    BY <2>2, ElementShape
  <2>4. \E k \in DOMAIN Top.type.keys : Top.type.keys[k] = Tok.name
    BY <2>2 DEF Range
  <2>5. Index(Tok.name) \in 1 .. Len(Top.type.keys)
    BY <2>3, <2>4 DEF Index
  <2>6. Index(Tok.name) \in Nat /\ Index(Tok.name) <= Len(Top.type.keys)
    BY <2>3, <2>5
  <2>7. Elem(f.type, Top.off + f.off, TRUE, pos + 1, Index(Tok.name))
    BY <1>3 DEF DesignateField
  <2>8. Top.off + f.off \in Nat /\ pos + 1 \in 1 .. Len(Decl.toks) + 1
    BY <1>1, <1>2, <2>1, TokIs
  <2>9. Fits(T, Whole, Top.off + f.off, f.type.size)
    <3>1. Fits(T, Whole, Top.off, Top.type.size)
      BY <1>1, TopIs
    <3>2. Whole \in Int
      BY WholeIs
    <3> QED
      BY <1>2, <1>3, <3>1, <3>2, FieldFits
  <2> HIDE DEF f
  <2> QED
    BY <1>1, <2>1, <2>6, <2>7, <2>8, <2>9, ElemOf
<1>4. CASE Tok.name \notin DOMAIN Top.type.fields
  BY <1>4 DEF DesignateField, Parsed
<1> QED
  BY <1>3, <1>4

LEMMA NextFieldKeeps ==
  ASSUME NEW T, ClosedTypes(T), Uses(T), Reads, Parser(T), NextField
  PROVE  Parsed(T)
<1>1. /\ open # << >> /\ Top.what = "list" /\ ~ IsArray /\ Top.i < Len(Top.type.keys)
  BY DEF NextField, InLoop, InList, In
<1>2. /\ Top.type.kind = "rec" /\ Top.type \in Openable(T) /\ Top.off \in Nat
      /\ Top.i \in Nat /\ Len(Top.type.keys) \in Nat /\ Top.designated \in BOOLEAN
  BY <1>1, TopIs DEF IsArray, IsAggregate
<1>3. Top.i + 1 \in 1 .. Len(Top.type.keys) /\ Top.i + 1 \in Nat
  BY <1>1, <1>2
<1> DEFINE f == Top.type.fields[Top.type.keys[Top.i + 1]]
<1>4. f.type \in T /\ f.off \in Nat /\ Fits(T, Whole, Top.off + f.off, f.type.size)
  <2>1. Top.type.keys \in Seq(DOMAIN Top.type.fields)
    BY <1>2, TypesAre
  <2>2. Top.type.keys[Top.i + 1] \in DOMAIN Top.type.fields
    BY <1>3, <2>1, ElementShape
  <2>3. Fits(T, Whole, Top.off + f.off, f.type.size)
    <3>1. Fits(T, Whole, Top.off, Top.type.size)
      BY <1>1, TopIs
    <3>2. Whole \in Int
      BY WholeIs
    <3> QED
      BY <1>2, <2>2, <3>1, <3>2, FieldFits
  <2> QED
    BY <1>2, <2>2, <2>3, TypesAre
<1>5. Elem(f.type, Top.off + f.off, Top.designated, pos, Top.i + 1)
  BY DEF NextField
<1>6. Top.off + f.off \in Nat /\ pos \in 1 .. Len(Decl.toks) + 1
  <2>1. Top.off \in Nat /\ f.off \in Nat
    BY <1>2, <1>4
  <2>2. \A x, y \in Nat : x + y \in Nat
    OBVIOUS
  <2>3. Top.off + f.off \in Nat
    BY <2>1, <2>2
  <2> QED
    BY <2>3, TokIs
<1>7. Top.i + 1 <= Len(Top.type.keys)
  BY <1>1, <1>2
<1> HIDE DEF f
<1> QED
  BY <1>1, <1>2, <1>3, <1>4, <1>5, <1>6, <1>7, ElemOf

LEMMA DesignateIndexKeeps ==
  ASSUME NEW T, ClosedTypes(T), Uses(T), Reads, Parser(T), DesignateIndex
  PROVE  Parsed(T)
<1>1. /\ open # << >> /\ Tok.k = "[" /\ Top.what = "list" /\ Top.type.kind = "array"
  BY DEF DesignateIndex, InLoop, InList, In, IsArray
<1>2. Top.type \in Openable(T) /\ Top.off \in Nat
  BY <1>1, TopIs
<1>3. Top.type.of \in T /\ Top.type.of.size \in Nat
  BY <1>1, <1>2, TypesAre
<1>4. Tok.index \in Nat /\ pos + 1 \in 1 .. Len(Decl.toks) + 1
  BY <1>1, TokIs DEF IsToken
<1>5. Top.off + Top.type.of.size * Tok.index \in Nat
  BY <1>2, <1>3, <1>4, ElementOffset
<1>6. \/ Refuse
      \/ /\ Flexible \/ Tok.index < Top.type.len
         /\ Elem(Top.type.of, Top.off + Top.type.of.size * Tok.index, TRUE,
                 pos + 1, Tok.index)
  BY DEF DesignateIndex
<1>7. CASE Refuse
  BY <1>7 DEF Parsed
<1>8. CASE ~ Refuse
  <2>1. Top.type.len > 0 => Tok.index < Top.type.len
    <3>1. Top.type.len \in Int
      BY <1>1, <1>2, TypesAre
    <3>2. Top.type.len > 0 => ~ Flexible
      BY <3>1 DEF Flexible
    <3>3. Flexible \/ Tok.index < Top.type.len
      BY <1>6, <1>8
    <3> QED
      BY <3>2, <3>3
  <2>2. Fits(T, Whole, Top.off + Top.type.of.size * Tok.index, Top.type.of.size)
    BY <1>1, <1>2, <1>4, <2>1, TopIs, WholeIs, ElementFits
  <2> QED
    BY <1>1, <1>3, <1>4, <1>5, <1>6, <1>8, <2>2, ElemOf
<1> QED
  BY <1>7, <1>8

LEMMA NextElemKeeps ==
  ASSUME NEW T, ClosedTypes(T), Uses(T), Reads, Parser(T), NextElem
  PROVE  Parsed(T)
<1>1. /\ open # << >> /\ Top.what = "list" /\ Top.type.kind = "array"
  BY DEF NextElem, InLoop, InList, In, IsArray
<1>2. /\ Top.type \in Openable(T) /\ Top.off \in Nat /\ Top.i \in Nat
      /\ Top.designated \in BOOLEAN
  BY <1>1, TopIs
<1>3. Top.type.of \in T /\ Top.type.of.size \in Nat
  BY <1>1, <1>2, TypesAre
<1>4. Top.off + Top.type.of.size * Top.i \in Nat /\ pos \in 1 .. Len(Decl.toks) + 1
  BY <1>2, <1>3, ElementOffset, TokIs
<1>5. Elem(Top.type.of, Top.off + Top.type.of.size * Top.i, Top.designated, pos, Top.i)
  BY DEF NextElem
<1>6. Top.type.len > 0 => Top.i < Top.type.len
  <2>1. MoreElems
    BY <1>1 DEF NextElem, InLoop, IsArray
  <2>2. Top.type.len \in Int
    BY <1>1, <1>2, TypesAre
  <2> QED
    BY <2>1, <2>2 DEF MoreElems, Flexible
<1>7. Fits(T, Whole, Top.off + Top.type.of.size * Top.i, Top.type.of.size)
  BY <1>1, <1>2, <1>6, TopIs, WholeIs, ElementFits
<1> QED
  BY <1>1, <1>2, <1>3, <1>4, <1>5, <1>7, ElemOf

\* A step that stores nothing.
LEMMA Kept ==
  ASSUME NEW T, Parser(T), Keep, Parses, Nested(T, Whole, open'),
         pos' \in 1 .. Len(Decl.toks) + 1
  PROVE  Parsed(T)
BY DEF Parser, ParserOK, Keep, Parsed

LEMMA ListLeft ==
  ASSUME NEW T, ClosedTypes(T), Uses(T), Reads, Parser(T), LeaveList \/ FullList
  PROVE  Parsed(T)
<1>1. open # << >> /\ pos \in 1 .. Len(Decl.toks) + 1
  BY TokIs DEF LeaveList, FullList, InLoop, InList, In
<1>2. Keep /\ Parses /\ (Reading(Leave, pos) \/ EndList(pos))
  BY DEF LeaveList, FullList
<1>3. Nested(T, Whole, open') /\ pos' = pos
  BY <1>1, <1>2, TopIs, ListEnded DEF Reading
<1> QED
  BY <1>1, <1>2, <1>3, Kept

LEMMA AfterElemKeeps ==
  ASSUME NEW T, ClosedTypes(T), Uses(T), Reads, Parser(T), AfterElem
  PROVE  Parsed(T)
<1>1. /\ open # << >> /\ Top.what = "list" /\ Keep /\ Parses
      /\ AfterComma \in 1 .. Len(Decl.toks) + 1
  BY TokIs DEF AfterElem, In
<1>2. CASE EndList(AfterComma)
  BY <1>1, <1>2, ListEnded, Kept
<1>3. CASE Reading(Update(Turned(Top)), AfterComma)
  <2> DEFINE e == IF Top.type.kind = "array" THEN Top.i + 1 ELSE Top.i
             f == [Top EXCEPT !.called = FALSE, !.designated = FALSE, !.i = e]
  <2>1. Top \in Calls(T, Whole) /\ Top.i \in Nat
    BY <1>1, TopIs
  <2>2. e \in Nat /\ (Top.type.kind # "array" => e = Top.i)
    BY <2>1
  <2>3. Turned(Top) = f
    BY DEF Turned
  <2> HIDE DEF e
  <2>4. f \in Calls(T, Whole)
    BY <2>1, <2>2 DEF Calls
  <2> HIDE DEF f
  <2>5. Nested(T, Whole, open') /\ pos' = AfterComma
    BY <1>1, <1>3, <2>3, <2>4, TopUpdated DEF Reading
  <2> QED
    BY <1>1, <2>5, Kept
<1> QED
  BY <1>2, <1>3 DEF AfterElem

LEMMA ScalarKeeps ==
  ASSUME NEW T, ClosedTypes(T), Uses(T), Reads, Parser(T), ScalarElem \/ ScalarEnd
  PROVE  Parsed(T)
<1>1. open # << >> /\ Top.what = "scalar"
  BY DEF ScalarElem, ScalarEnd, In
<1>2. CASE ScalarElem
  <2>1. Elem(Top.type, Top.off, TRUE, pos, 0)
    BY <1>2 DEF ScalarElem
  <2>2. Top.type \in Openable(T) /\ Top.off \in Nat /\ ~ IsAggregate(Top.type)
    BY <1>1, TopIs
  <2>3. /\ Top.type \in T /\ pos \in 1 .. Len(Decl.toks) + 1
        /\ Fits(T, Whole, Top.off, Top.type.size)
    BY <1>1, <2>2, TopIs, TypesAre, TokIs
  <2> QED
    BY <1>1, <2>1, <2>2, <2>3, ElemOf
<1>3. CASE ScalarEnd
  <2>1. CASE Tok.k = "}"
    <3>1. Keep /\ Parses /\ open' = Leave /\ pos' = pos + 1
      BY <1>3, <2>1 DEF ScalarEnd, Reading
    <3>2. Nested(T, Whole, Leave) /\ pos + 1 \in 1 .. Len(Decl.toks) + 1
      BY <1>1, <2>1, TopIs, TokIs
    <3> QED
      BY <3>1, <3>2, Kept
  <2>2. CASE Tok.k # "}"
    BY <1>3, <2>2 DEF ScalarEnd, Parsed
  <2> QED
    BY <2>1, <2>2
<1> QED
  BY <1>2, <1>3

LEMMA SkipKeeps ==
  ASSUME NEW T, ClosedTypes(T), Uses(T), Reads, Parser(T), SkipElem \/ SkipEnd
  PROVE  Parsed(T)
<1>1. /\ open # << >> /\ Nested(T, Whole, Leave)
      /\ pos \in Int /\ pos \in 1 .. Len(Decl.toks) + 1
  BY TopIs, TokIs DEF SkipElem, SkipEnd, In
<1>2. CASE SkipEnd
  <2>1. Tok.k = "}" /\ Keep /\ Parses /\ open' = Leave /\ pos' = pos + 1
    BY <1>2 DEF SkipEnd, Reading
  <2>2. pos + 1 \in 1 .. Len(Decl.toks) + 1
    BY <2>1, TokIs
  <2> QED
    BY <1>1, <2>1, <2>2, Kept
<1>3. CASE SkipElem
  <2> DEFINE p    == IF Tok.k = "." THEN pos + 1 ELSE pos
             next == IF At(p + 1).k = "," THEN p + 2 ELSE p + 1
  <2>1. p \in 1 .. Len(Decl.toks) + 1 /\ p \in Int
    <3>1. p \in 1 .. Len(Decl.toks) + 1
      BY <1>1, TokIs
    <3> QED
      BY <1>1, <3>1
  <2>2. CASE Refuse
    BY <2>2 DEF Parsed
  <2>3. CASE /\ At(p).k \in {"expr", "string"} /\ Reading(open, next)
             /\ UNCHANGED <<inits, size>> /\ Parses
    <3> HIDE DEF p
    <3>1. p + 1 \in 1 .. Len(Decl.toks) + 1 /\ p + 1 \in Int
      <4>1. p + 1 \in Int
        BY <2>1
      <4>2. p + 1 \in 1 .. Len(Decl.toks) + 1
        BY <2>1, <2>3, TokenAt
      <4> QED
        BY <4>1, <4>2
    <3>2. At(p + 1).k = "," => (p + 1) + 1 \in 1 .. Len(Decl.toks) + 1
      BY <3>1, TokenAt
    <3>3. p + 2 = (p + 1) + 1
      BY <2>1
    <3>4. next \in 1 .. Len(Decl.toks) + 1
      BY <3>1, <3>2, <3>3
    <3> QED
      BY <2>3, <3>4 DEF Parser, ParserOK, Parsed, Reading
  <2>4. CASE Reading(Leave, p) /\ Keep /\ Parses
    BY <1>1, <2>1, <2>4, Kept DEF Reading
  <2> QED
    BY <1>3, <2>2, <2>3, <2>4 DEF SkipElem
<1> QED
  BY <1>2, <1>3

LEMMA BeginDeclKeeps ==
  ASSUME NEW T, ClosedTypes(T), Uses(T), Reads, Parser(T), open = << >>, pos = 1, BeginDecl
  PROVE  Parsed(T)
<1>1. /\ Len(Decl.toks) \in Nat /\ TypeOf(n) \in T
      /\ pos \in 1 .. Len(Decl.toks) + 1
  BY Tokens, TypeDeclared DEF Reads, Parser, ParserOK
<1>2. open \in Seq(Callers(T, Whole)) /\ Nested(T, Whole, open)
  <2>1. << >> \in Seq(Callers(T, Whole))
    OBVIOUS
  <2>2. Nested(T, Whole, << >>)
    BY <2>1, Waiting
  <2> QED
    BY <2>1, <2>2
<1>3. Stores(T, Whole, inits) /\ Measured(T, Whole, size)
  BY DEF Parser, ParserOK
<1>4. CASE Keep /\ Reading(open, pos) /\ Parses
  BY <1>1, <1>2, <1>4, Kept DEF Reading
<1>5. CASE ReadInitializerList(TypeOf(n), 0, FALSE, pos, open)
  <2>1. Whole \in Int
    BY WholeIs
  <2>2. Fits(T, Whole, 0, TypeOf(n).size)
    BY <2>1 DEF Fits, Whole
  <2> QED
    BY <1>1, <1>2, <1>3, <1>5, <2>2, ListRead
<1>6. CASE /\ Decl.toks # << >>
           /\ inits' = << Store(0, [c \in 1 .. TypeOf(n).size |-> Value(c - 1)]) >>
           /\ Reading(open, pos + 1) /\ Parses /\ UNCHANGED size
  <2>1. pos + 1 \in 1 .. Len(Decl.toks) + 1
    <3>1. Stack(Decl.toks)
      BY ProgramsAssumption DEF Reads, Decl, Stack
    <3>2. Decl.toks \in Seq(Range(Decl.toks))
      BY <3>1 DEF Stack
    <3>3. Len(Decl.toks) >= 1
      BY <1>6, <3>2
    <3> QED
      BY <1>1, <3>3
  <2>2. Stores(T, Whole, inits')
    <3> DEFINE x == Store(0, [c \in 1 .. TypeOf(n).size |-> Value(c - 1)])
    <3>1. x.off = 0 /\ x.cells = [c \in 1 .. Whole |-> Value(c - 1)]
      BY DEF Store, Whole
    <3>2. Whole \in Int
      BY WholeIs
    <3>3. Into(T, Whole, x)
      <4>1. DOMAIN x.cells = 1 .. Whole
        BY <3>1
      <4>2. \A w \in Int : \A k \in 1 .. w : k \in Nat \ {0} /\ 0 + k <= w
        OBVIOUS
      <4> HIDE DEF x
      <4> QED
        BY <3>1, <3>2, <4>1, <4>2 DEF Into, Fits
    <3> HIDE DEF x
    <3>4. Stack(<<x>>) /\ Range(<<x>>) = {x}
      BY DEF Stack, Range
    <3> QED
      BY <1>6, <3>3, <3>4 DEF Stores, x
  <2> QED
    BY <1>2, <1>3, <1>6, <2>1, <2>2 DEF Reading, Parsed, ParserOK
<1> QED
  BY <1>4, <1>5, <1>6 DEF BeginDecl

-----------------------------------------------------------------------------
(* Type correctness *)
Phases == {"decl", "init", "emit", "zero", "values", "main", "end", "error"}

\* Between declarations and while gen.c works no list is being read.
Typing(T) ==
    /\ Reads /\ phase \in Phases /\ size \in Nat \cup {-1}
    /\ phase \in {"decl", "init", "error"} => Parser(T)
    /\ phase \notin {"init", "error"} => pos = 1 /\ open = << >> /\ inits = << >>

LEMMA ParsedKeeps ==
  ASSUME NEW T, Typing(T), Reads', Parser(T), Parsed(T)
  PROVE  Typing(T)'
<1>1. CASE Refuse
  <2>1. /\ phase' = "error" /\ pos' = pos /\ open' = open /\ inits' = inits
        /\ size' = size /\ Decl' = Decl /\ Whole' = Whole
    BY <1>1 DEF Refuse, parser, Decl, Whole, TypeOf
  <2> QED
    BY <2>1 DEF Typing, Phases, Parser, ParserOK
<1>2. CASE Parses /\ ParserOK(T, open', pos', inits', size')
  <2>1. phase' = "init" /\ Decl' = Decl /\ Whole' = Whole
    BY <1>2 DEF Parses, Decl, Whole, TypeOf
  <2>2. size' \in Nat \cup {-1}
    BY <1>2 DEF ParserOK, Measured
  <2> QED
    BY <1>2, <2>1, <2>2 DEF Typing, Phases, Parser, ParserOK
<1> QED
  BY <1>1, <1>2 DEF Parsed

\* Where a declaration begins, the reader has nothing.
LEMMA DeclBegins ==
  ASSUME NEW T, ClosedTypes(T), Uses(T), Reads, NEW d \in 1 .. Len(program),
         NEW w, w = TypeOf(d).size
  PROVE  /\ Nested(T, w, << >>) /\ Stores(T, w, << >>) /\ Measured(T, w, w)
         /\ 1 \in 1 .. Len(program[d].toks) + 1
<1>1. Len(program[d].toks) \in Nat
  <2>1. d \in DOMAIN program
    BY DEF Reads
  <2>2. Stack(program[d].toks)
    BY <2>1, ProgramsAssumption DEF Reads, Stack
  <2> QED
    BY <2>2, StackHas
<1>2. 1 \in 1 .. Len(program[d].toks) + 1
  BY <1>1
<1>3. Nested(T, w, << >>) /\ Stores(T, w, << >>)
  <2>1. << >> \in Seq(Callers(T, w))
    OBVIOUS
  <2> QED
    BY <2>1, Waiting, RangeEmpty DEF Stores
<1>4. Measured(T, w, w)
  <2>1. TypeOf(d) \in Openable(T)
    BY TypeDeclared DEF Openable
  <2> QED
    BY <2>1, TypesAre DEF Measured
<1> QED
  BY <1>2, <1>3, <1>4

LEMMA EndDeclKeeps ==
  ASSUME NEW T, ClosedTypes(T), Uses(T), Typing(T), Reads', program' = program, EndDecl
  PROVE  Typing(T)'
<1>1. CASE Refuse
  BY <1>1, ParsedKeeps DEF Parsed, EndDecl, Typing
<1>2. CASE /\ phase' \in {"emit", "decl"} /\ pos' = 1 /\ inits' = << >> /\ open' = open
           /\ open = << >> /\ size' = TypeOf(n').size
  <2>1. Parser(T)' /\ size' \in Nat \cup {-1}
    <3>1. /\ n' \in 1 .. Len(program) /\ size' = TypeOf(n').size
          /\ Whole' = TypeOf(n').size /\ Decl' = program[n'] /\ open' = << >>
      BY <1>2 DEF Reads, Whole, TypeOf, Decl
    <3>2. /\ Nested(T, Whole', << >>) /\ Stores(T, Whole', << >>)
          /\ Measured(T, Whole', Whole') /\ 1 \in 1 .. Len(program[n'].toks) + 1
      BY <3>1, DeclBegins DEF Typing
    <3> QED
      BY <1>2, <3>1, <3>2 DEF Parser, ParserOK, Measured
  <2> QED
    BY <1>2, <2>1 DEF Typing, Phases
<1> QED
  BY <1>1, <1>2 DEF EndDecl

\* gen.c leaves the reader alone, between the declarations.
LEMMA EmitKeeps ==
  ASSUME NEW T, Typing(T), Reads', program' = program,
         EmitToplevel \/ ZeroGlobals \/ StoreGlobal \/ DeclareLocal \/ PassGlobal
  PROVE  Typing(T)'
<1>1. /\ phase \notin {"decl", "init", "error"} /\ phase' \in Phases
      /\ phase' \notin {"decl", "init", "error"}
      /\ pos' = pos /\ open' = open /\ inits' = inits /\ size' = size
  BY DEF EmitToplevel, ZeroGlobals, StoreGlobal, DeclareLocal, PassGlobal, Onward, Phases,
         parser
<1> QED
  BY <1>1 DEF Typing

LEMMA InitTyping ==
  ASSUME NEW T, ClosedTypes(T), Uses(T), Init
  PROVE  Typing(T)
<1>1. Reads
  BY InitReads
<1>2. /\ phase = "decl" /\ pos = 1 /\ open = << >> /\ inits = << >>
      /\ size = TypeOf(n).size
  BY DEF Init
<1>3. /\ n \in 1 .. Len(program) /\ Whole = size /\ Decl = program[n]
  BY <1>1, <1>2 DEF Reads, Whole, Decl
<1>4. /\ Nested(T, Whole, << >>) /\ Stores(T, Whole, << >>)
      /\ Measured(T, Whole, Whole) /\ 1 \in 1 .. Len(program[n].toks) + 1
  BY <1>1, <1>3, DeclBegins DEF Whole
<1>5. Parser(T) /\ size \in Nat \cup {-1}
  BY <1>2, <1>3, <1>4 DEF Parser, ParserOK, Measured
<1> QED
  BY <1>1, <1>2, <1>5 DEF Typing, Phases

LEMMA ReaderStep ==
  ASSUME NEW T, ClosedTypes(T), Uses(T), Typing(T),
         BeginDecl \/ ReadList \/ ScalarElem \/ ScalarEnd \/ SkipElem \/ SkipEnd
  PROVE  Parser(T) /\ Parsed(T) /\ phase \in {"decl", "init"}
<1>1. phase \in {"decl", "init"}
  BY DEF BeginDecl, ReadList, CloseList, LeaveList, DesignateField, NextField,
     DesignateIndex, NextElem, FullList, AfterElem, ScalarElem, ScalarEnd, SkipElem,
     SkipEnd, InLoop, InList, In
<1>2. Reads /\ Parser(T)
  BY <1>1 DEF Typing
<1>3. CASE BeginDecl
  <2>1. open = << >> /\ pos = 1
    BY <1>3 DEF BeginDecl, Typing
  <2> QED
    BY <1>1, <1>2, <1>3, <2>1, BeginDeclKeeps
<1>4. CASE ReadList
  BY <1>1, <1>2, <1>4, CloseListKeeps, ListLeft, DesignateFieldKeeps, NextFieldKeeps,
     DesignateIndexKeeps, NextElemKeeps, AfterElemKeeps DEF ReadList
<1>5. CASE ScalarElem \/ ScalarEnd
  BY <1>1, <1>2, <1>5, ScalarKeeps
<1>6. CASE SkipElem \/ SkipEnd
  BY <1>1, <1>2, <1>6, SkipKeeps
<1> QED
  BY <1>3, <1>4, <1>5, <1>6

LEMMA NextTyping ==
  ASSUME NEW T, ClosedTypes(T), Uses(T), Typing(T), [Next]_vars
  PROVE  Typing(T)'
<1>1. Reads
  BY DEF Typing
<1>2. program' = program /\ Reads'
  BY <1>1, NextReads, StepOn
<1>3. CASE BeginDecl \/ ReadList \/ ScalarElem \/ ScalarEnd \/ SkipElem \/ SkipEnd
  BY <1>2, <1>3, ReaderStep, ParsedKeeps
<1>4. CASE EndDecl
  BY <1>2, <1>4, EndDeclKeeps
<1>5. CASE EmitToplevel \/ ZeroGlobals \/ StoreGlobal \/ DeclareLocal \/ PassGlobal
  BY <1>2, <1>5, EmitKeeps
<1>6. CASE UNCHANGED vars
  <2>1. /\ phase' = phase /\ pos' = pos /\ open' = open /\ inits' = inits /\ size' = size
        /\ Decl' = Decl /\ Whole' = Whole
    BY <1>6 DEF vars, parser, Decl, Whole, TypeOf
  <2> QED
    BY <1>2, <2>1 DEF Typing, Parser, ParserOK
<1> QED
  BY <1>3, <1>4, <1>5, <1>6 DEF Next

LEMMA UsesStays ==
  ASSUME NEW T, [Next]_vars
  PROVE  Uses(T)' <=> Uses(T)
<1>1. program' = program
  BY StepOn
<1> QED
  BY <1>1 DEF Uses, TypeOf

LEMMA TypingIs ==
  ASSUME NEW T, ClosedTypes(T), Typing(T)
  PROVE  TypeOK
<1>1. /\ open \in Seq(Calls(T, Whole)) /\ \A d \in 1 .. Len(open) - 1 : open[d].called
      /\ Stack(inits) /\ \A x \in Range(inits) : x.off \in Nat
      /\ phase \in Phases /\ n \in DOMAIN program
      /\ pos \in 1 .. Len(Decl.toks) + 1 /\ size \in Nat \cup {-1}
  <2>1. CASE phase \in {"decl", "init", "error"}
    BY <2>1 DEF Typing, Parser, ParserOK, Nested, Stores, Into, Reads
  <2>2. CASE phase \notin {"decl", "init", "error"}
    <3>1. pos = 1 /\ open = << >> /\ inits = << >> /\ Len(Decl.toks) \in Nat
      BY <2>2, Tokens DEF Typing
    <3>2. pos \in 1 .. Len(Decl.toks) + 1
      BY <3>1
    <3> QED
      BY <3>1, <3>2, RangeEmpty DEF Typing, Reads
  <2> QED
    BY <2>1, <2>2
<1>2. ASSUME NEW d \in DOMAIN open
      PROVE  open[d] \in Calls(T, Whole) /\ (d < Len(open) => open[d].called)
  <2>1. Len(open) \in Nat /\ d \in 1 .. Len(open) /\ open[d] \in Calls(T, Whole)
    BY <1>1, ElementShape
  <2>2. d < Len(open) => d \in 1 .. Len(open) - 1
    BY <2>1
  <2> QED
    BY <1>1, <2>1, <2>2
<1>3. \A f \in Calls(T, Whole) :
         /\ f.what \in {"list", "scalar", "skip"}
         /\ f.what = "list" => IsAggregate(f.type)
         /\ f.off \in Nat /\ f.brace \in BOOLEAN /\ f.designated \in BOOLEAN
         /\ f.i \in Nat
         /\ f.what = "list" /\ f.type.kind = "rec" => f.i <= Len(f.type.keys)
  BY DEF Calls
<1>4. \A s \in DOMAIN inits : inits[s].off \in Nat
  BY <1>1 DEF Range
<1> QED
  BY <1>1, <1>2, <1>3, <1>4 DEF TypeOK, Phases

\* For every set of types closed under elements and members, and all programs of
\* them: the reader stays within the tokens of the declaration under way, its
\* calls are nested, each list is of an aggregate, a struct is never read
\* past its last member, and no store lies before the variable
\* (parse.c:1706-1889).
THEOREM TypeCorrect ==
  ASSUME NEW T, ClosedTypes(T), Typed(T)
  PROVE  Spec => []TypeOK
<1>1. Init => Uses(T) /\ Typing(T)
  <2>1. Init => Uses(T)
    BY DEF Init, Typed, Uses, TypeOf
  <2> QED
    BY <2>1, InitTyping
<1>2. Uses(T) /\ Typing(T) /\ [Next]_vars => (Uses(T) /\ Typing(T))'
  BY UsesStays, NextTyping
<1>3. Uses(T) /\ Typing(T) => TypeOK
  BY TypingIs
<1> QED
  BY <1>1, <1>2, <1>3, PTL DEF Spec

-----------------------------------------------------------------------------
(* Where the stores go                                                        *)

SizeOf(d)  == TypeOf(d).size
InReader   == phase \in {"decl", "init", "error"}
CellsOf(d) == place[d] .. place[d] + nodes[d].size - 1

\* The variables that have an address: globals, and locals once main has come to
\* them.
Addressed(d) == program[d].global \/ phase = "end" \/ (phase = "main" /\ d < n)

Made(T) ==
    /\ Stack(nodes)
    /\ Len(nodes) = IF InReader THEN n - 1 ELSE Len(program)
    /\ \A d \in DOMAIN nodes : /\ nodes[d].size = SizeOf(d)
                               /\ Stores(T, SizeOf(d), nodes[d].inits)

\* Each store the parser has made of an initializer is into its variable.
StoresInside ==
    \A d \in DOMAIN nodes : \A s \in DOMAIN nodes[d].inits :
       LET x == nodes[d].inits[s]
       IN  \A k \in DOMAIN x.cells : x.off + k - 1 \in 0 .. nodes[d].size - 1

LEMMA MadeStep ==
  ASSUME NEW T, ClosedTypes(T), Uses(T), Sized(T), Typing(T), Made(T), [Next]_vars
  PROVE  Made(T)'
<1>1. Reads /\ program' = program /\ Reads' /\ \A d : SizeOf(d)' = SizeOf(d)
  BY NextReads, StepOn DEF Typing, SizeOf, TypeOf
<1>2. ASSUME nodes' = nodes, (InReader /\ InReader' /\ n' = n) \/ (~ InReader /\ ~ InReader')
      PROVE  Made(T)'
  BY <1>1, <1>2 DEF Made
<1>3. CASE BeginDecl \/ ReadList \/ ScalarElem \/ ScalarEnd \/ SkipElem \/ SkipEnd
  <2>1. Parsed(T) /\ phase \in {"decl", "init"}
    BY <1>3, ReaderStep
  <2> QED
    BY <1>2, <2>1 DEF Parsed, Parses, Refuse, InReader
<1>4. CASE EndDecl
  <2>1. phase = "init" /\ Parser(T)
    BY <1>4 DEF EndDecl, Typing
  <2>2. CASE Refuse
    BY <1>2, <2>1, <2>2 DEF Refuse, InReader
  <2>3. CASE /\ nodes' = Append(nodes, [size |-> size, inits |-> inits])
             /\ n' = IF n = Len(program) THEN 1 ELSE n + 1
             /\ phase' = IF n = Len(program) THEN "emit" ELSE "decl"
    <3> DEFINE x == [size |-> size, inits |-> inits]
    <3>1. x.size = SizeOf(n) /\ Stores(T, SizeOf(n), x.inits)
      BY <2>1 DEF Parser, ParserOK, Measured, Whole, SizeOf
    <3> HIDE DEF x
    <3>2. Stack(nodes) /\ Len(nodes) = n - 1 /\ n \in 1 .. Len(program) /\ Len(program) \in Nat
      BY <1>1, <2>1 DEF Made, InReader, Reads
    <3>3. /\ Stack(nodes') /\ Len(nodes') = Len(nodes) + 1
          /\ nodes'[Len(nodes) + 1] = x /\ \A d \in 1 .. Len(nodes) : nodes'[d] = nodes[d]
      BY <2>3, <3>2, StackPush DEF x
    <3>4. DOMAIN nodes = 1 .. n - 1 /\ DOMAIN nodes' = 1 .. n
      BY <3>2, <3>3, StackHas
    <3>5. Len(nodes') = IF InReader' THEN n' - 1 ELSE Len(program)
      BY <2>3, <3>2, <3>3 DEF InReader
    <3>6. ASSUME NEW d \in DOMAIN nodes'
          PROVE  nodes'[d].size = SizeOf(d) /\ Stores(T, SizeOf(d), nodes'[d].inits)
      <4>1. CASE d = n
        BY <3>1, <3>2, <3>3, <4>1
      <4>2. CASE d # n
        <5>1. d \in 1 .. Len(nodes) /\ d \in DOMAIN nodes
          BY <3>2, <3>4, <4>2
        <5> QED
          BY <3>3, <5>1 DEF Made
      <4> QED
        BY <4>1, <4>2
    <3> QED
      BY <1>1, <3>3, <3>5, <3>6 DEF Made
  <2> QED
    BY <1>4, <2>2, <2>3 DEF EndDecl
<1>5. CASE EmitToplevel \/ ZeroGlobals \/ StoreGlobal \/ DeclareLocal \/ PassGlobal
  BY <1>2, <1>5 DEF EmitToplevel, ZeroGlobals, StoreGlobal, DeclareLocal, PassGlobal, Onward,
     InReader
<1>6. CASE UNCHANGED vars
  BY <1>2, <1>6 DEF vars, InReader
<1> QED
  BY <1>3, <1>4, <1>5, <1>6 DEF Next

LEMMA InitMade == ASSUME NEW T, Init PROVE Made(T)
<1>1. nodes = << >> /\ phase = "decl" /\ n = 1
  BY DEF Init
<1>2. Len(nodes) = 0 /\ DOMAIN nodes = {} /\ Stack(nodes)
  BY <1>1, RangeEmpty
<1> QED
  BY <1>1, <1>2 DEF Made, InReader

LEMMA SizesAre ==
  ASSUME NEW T, ClosedTypes(T), Uses(T), Sized(T), Reads, Made(T)
  PROVE  /\ Len(program) \in Nat /\ n \in 1 .. Len(program)
         /\ \A d \in 1 .. Len(program) : SizeOf(d) \in Nat \ {0}
         /\ DOMAIN nodes \subseteq 1 .. Len(program)
         /\ ~ InReader => DOMAIN nodes = 1 .. Len(program)
         /\ \A d \in DOMAIN nodes : nodes[d].size = SizeOf(d)
<1>1. Len(program) \in Nat /\ n \in 1 .. Len(program)
  BY DEF Reads
<1>2. ASSUME NEW d \in 1 .. Len(program)
      PROVE  SizeOf(d) \in Nat \ {0}
  <2>1. TypeOf(d) \in Openable(T)
    BY TypeDeclared DEF Openable
  <2> QED
    BY <2>1, PartsInside DEF SizeOf
<1>3. DOMAIN nodes = 1 .. Len(nodes)
  BY StackHas DEF Made
<1>4. Len(nodes) = IF InReader THEN n - 1 ELSE Len(program)
  BY DEF Made
<1> QED
  BY <1>1, <1>2, <1>3, <1>4 DEF Made

LEMMA MadeInside ==
  ASSUME NEW T, ClosedTypes(T), Uses(T), Sized(T), Reads, Made(T)
  PROVE  StoresInside
<1> SUFFICES ASSUME NEW d \in DOMAIN nodes, NEW s \in DOMAIN nodes[d].inits,
                    NEW k \in DOMAIN nodes[d].inits[s].cells
             PROVE  nodes[d].inits[s].off + k - 1 \in 0 .. nodes[d].size - 1
  BY DEF StoresInside
<1> DEFINE x == nodes[d].inits[s]
<1>1. Into(T, SizeOf(d), x) /\ nodes[d].size = SizeOf(d)
  BY DEF Made, Stores, Range
<1> HIDE DEF x
<1>2. x.off \in Nat /\ k \in Nat \ {0} /\ x.off + k <= nodes[d].size
  BY <1>1 DEF Into, Fits, x
<1>3. nodes[d].size \in Int
  <2>1. SizeOf(d) \in Nat
    BY SizesAre
  <2> QED
    BY <1>1, <2>1
<1> QED
  BY <1>2, <1>3 DEF x

\* Globals lie one after another from InitMem on, locals one after another above
\* the gap.
Located ==
    /\ initmem \in Nat /\ stackn \in Nat /\ Stack(place)
    /\ Len(place) = IF InReader THEN 0 ELSE IF phase = "emit" THEN n - 1 ELSE Len(program)
    /\ \A d \in DOMAIN place :
         /\ program[d].global => place[d] \in Nat /\ place[d] + SizeOf(d) <= initmem
         /\ ~ program[d].global /\ Addressed(d) =>
              /\ place[d] \in Nat /\ initmem + StackGap <= place[d]
              /\ place[d] + SizeOf(d) <= initmem + StackGap + stackn
    /\ \A d, e \in DOMAIN place :
         /\ d < e /\ Addressed(d) /\ Addressed(e)
         /\ program[d].global <=> program[e].global
         => place[d] + SizeOf(d) <= place[e]

\* No two variables that have an address share a cell.
VariablesApart ==
    \A d, e \in DOMAIN place :
       d # e /\ Addressed(d) /\ Addressed(e) => CellsOf(d) \cap CellsOf(e) = {}

LEMMA InitLocated == ASSUME Init PROVE Located
<1>1. /\ place = << >> /\ phase = "decl" /\ initmem = InitMem /\ stackn = 0
  BY DEF Init
<1>2. Len(place) = 0 /\ DOMAIN place = {} /\ Stack(place)
  BY <1>1, RangeEmpty
<1>3. InitMem \in Nat
  BY InitializerAssumption
<1> QED
  BY <1>1, <1>2, <1>3 DEF Located, InReader

\* A step that gives no variable an address.
LEMMA LocatedStays ==
  ASSUME Located, program' = program, UNCHANGED <<place, initmem, stackn>>,
         Len(place) = IF InReader' THEN 0
                      ELSE IF phase' = "emit" THEN n' - 1 ELSE Len(program),
         \A d \in DOMAIN place : ~ program[d].global /\ Addressed(d)' => Addressed(d)
  PROVE  Located'
<1>1. /\ \A d : SizeOf(d)' = SizeOf(d)
      /\ \A d \in DOMAIN place : Addressed(d)' => Addressed(d)
  BY DEF SizeOf, TypeOf, Addressed
<1> QED
  BY <1>1 DEF Located

LEMMA EmitLocates ==
  ASSUME NEW T, ClosedTypes(T), Uses(T), Sized(T), Reads, Made(T), Located,
         program' = program, EmitToplevel
  PROVE  Located'
<1>1. /\ phase = "emit" /\ ~ InReader /\ ~ InReader' /\ stackn' = stackn
      /\ n' = IF n = Len(program) THEN 1 ELSE n + 1
      /\ phase' = IF n = Len(program) THEN "zero" ELSE "emit"
      /\ \A d : Addressed(d)' => program[d].global
      /\ \A d : SizeOf(d)' = SizeOf(d)
  BY DEF EmitToplevel, Onward, InReader, Addressed, SizeOf, TypeOf
<1>2. /\ Len(program) \in Nat /\ n \in 1 .. Len(program)
      /\ SizeOf(n) \in Nat \ {0} /\ nodes[n].size = SizeOf(n)
      /\ \A d \in 1 .. Len(program) : SizeOf(d) \in Nat \ {0}
  BY <1>1, SizesAre
<1> DEFINE a == IF Decl.global THEN initmem ELSE NONE
<1>3. Stack(place) /\ Len(place) = n - 1 /\ initmem \in Nat /\ place' = Append(place, a)
  BY <1>1 DEF Located, EmitToplevel
<1>4. /\ program[n].global => a = initmem /\ initmem' = initmem + SizeOf(n)
      /\ ~ program[n].global => initmem' = initmem
  BY <1>2 DEF EmitToplevel, Decl, Node
<1> HIDE DEF a
<1>5. initmem' \in Nat /\ initmem <= initmem'
  BY <1>2, <1>3, <1>4
<1>6. /\ Stack(place') /\ Len(place') = n /\ place'[n] = a
      /\ \A d \in 1 .. n - 1 : place'[d] = place[d]
      /\ DOMAIN place = 1 .. n - 1 /\ DOMAIN place' = 1 .. n
  <2>1. /\ Stack(place') /\ Len(place') = Len(place) + 1 /\ place'[Len(place) + 1] = a
        /\ \A d \in 1 .. Len(place) : place'[d] = place[d]
    BY <1>3, StackPush
  <2> QED
    BY <1>2, <1>3, <2>1, StackHas
<1>7. ASSUME NEW d \in 1 .. n - 1, program[d].global
      PROVE  /\ place'[d] = place[d] /\ place[d] \in Nat
             /\ place[d] + SizeOf(d) <= initmem /\ SizeOf(d) \in Nat
  <2>1. d \in DOMAIN place /\ place'[d] = place[d]
    BY <1>6
  <2>2. place[d] \in Nat /\ place[d] + SizeOf(d) <= initmem
    BY <1>7, <2>1 DEF Located
  <2>3. d \in 1 .. Len(program)
    BY <1>2
  <2> QED
    BY <1>2, <2>1, <2>2, <2>3
<1>8. ASSUME NEW d \in 1 .. n, program[d].global
      PROVE  place'[d] \in Nat /\ place'[d] + SizeOf(d) <= initmem'
  <2>1. CASE d = n
    BY <1>2, <1>3, <1>4, <1>6, <1>8, <2>1
  <2>2. CASE d # n
    <3>1. d \in 1 .. n - 1
      BY <1>2, <2>2
    <3> QED
      BY <1>3, <1>5, <1>7, <1>8, <3>1
  <2> QED
    BY <2>1, <2>2
<1>9. ASSUME NEW d \in 1 .. n, NEW e \in 1 .. n, d < e, program[d].global, program[e].global
      PROVE  place'[d] + SizeOf(d) <= place'[e]
  <2>1. d \in 1 .. n - 1
    BY <1>2, <1>9
  <2>2. CASE e = n
    BY <1>4, <1>6, <1>7, <1>9, <2>1, <2>2
  <2>3. CASE e # n
    <3>1. e \in 1 .. n - 1
      BY <1>2, <2>3
    <3> QED
      BY <1>6, <1>9, <2>1, <3>1 DEF Located, Addressed
  <2> QED
    BY <2>2, <2>3
<1>10. Len(place') = IF phase' = "emit" THEN n' - 1 ELSE Len(program)
  BY <1>1, <1>2, <1>6
<1>11. stackn' \in Nat
  BY <1>1 DEF Located
<1> QED
  BY <1>1, <1>5, <1>6, <1>8, <1>9, <1>10, <1>11 DEF Located

LEMMA DeclareLocates ==
  ASSUME NEW T, ClosedTypes(T), Uses(T), Sized(T), Reads, Made(T), Located,
         program' = program, DeclareLocal
  PROVE  Located'
<1> DEFINE a == initmem + StackGap + stackn
<1>1. /\ phase = "main" /\ ~ program[n].global /\ initmem' = initmem
      /\ ~ InReader /\ ~ InReader' /\ phase # "emit" /\ phase' # "emit"
      /\ n' = IF n = Len(program) THEN 1 ELSE n + 1
      /\ phase' = IF n = Len(program) THEN "end" ELSE "main"
      /\ place' = [place EXCEPT ![n] = a] /\ stackn' = stackn + nodes[n].size
      /\ \A d : SizeOf(d)' = SizeOf(d)
  BY DEF DeclareLocal, Onward, InReader, Decl, Node, SizeOf, TypeOf
<1>2. /\ Len(program) \in Nat /\ n \in 1 .. Len(program)
      /\ SizeOf(n) \in Nat \ {0} /\ nodes[n].size = SizeOf(n)
  <2>1. /\ Len(program) \in Nat /\ n \in 1 .. Len(program)
        /\ \A d \in 1 .. Len(program) : SizeOf(d) \in Nat \ {0}
    BY SizesAre
  <2>2. DOMAIN nodes = 1 .. Len(program)
    BY <1>1, SizesAre
  <2>3. nodes[n].size = SizeOf(n)
    BY <2>1, <2>2, SizesAre
  <2> QED
    BY <2>1, <2>3
<1>3. /\ Stack(place) /\ Len(place) = Len(program) /\ initmem \in Nat /\ stackn \in Nat
      /\ DOMAIN place = 1 .. Len(program)
  BY <1>1, StackHas DEF Located
<1>4. a \in Nat /\ stackn' \in Nat /\ initmem + StackGap <= a
      /\ a + SizeOf(n) <= initmem + StackGap + stackn' /\ stackn <= stackn'
  <2> DEFINE s == SizeOf(n)
  <2>1. stackn' = stackn + s /\ s \in Nat
    BY <1>1, <1>2
  <2>2. initmem \in Nat /\ stackn \in Nat /\ StackGap \in Nat
    BY <1>3, InitializerAssumption
  <2> HIDE DEF s
  <2>3. a \in Nat /\ stackn' \in Nat /\ initmem + StackGap <= a
    BY <2>1, <2>2
  <2>4. a + s <= initmem + StackGap + stackn' /\ stackn <= stackn'
    BY <2>1, <2>2
  <2> QED
    BY <2>3, <2>4 DEF s
<1> HIDE DEF a
<1>5. /\ Stack(place') /\ Len(place') = Len(program) /\ place'[n] = a
      /\ DOMAIN place' = 1 .. Len(program)
      /\ \A d \in 1 .. Len(program) : d # n => place'[d] = place[d]
  <2> DEFINE S == Range(place) \cup {a}
  <2>1. place \in Seq(S)
    BY <1>3, WiderSeq DEF Stack
  <2> HIDE DEF S
  <2>2. a \in S
    BY DEF S
  <2>3. place' \in Seq(S)
    BY <1>1, <1>2, <1>3, <2>1, <2>2, ReplaceShape
  <2> QED
    BY <1>1, <1>2, <1>3, <2>1, <2>2, <2>3, ReplaceShape, StackIs
<1>6. \A d \in 1 .. Len(program) : Addressed(d)' =>
         program[d].global \/ d = n \/ (d < n /\ Addressed(d))
  BY <1>1, <1>2 DEF Addressed
<1>7. ASSUME NEW d \in 1 .. Len(program), program[d].global
      PROVE  place'[d] \in Nat /\ place'[d] + SizeOf(d) <= initmem'
  BY <1>1, <1>3, <1>5, <1>7 DEF Located
<1>8. ASSUME NEW d \in 1 .. Len(program), ~ program[d].global, d # n, Addressed(d)'
      PROVE  /\ place'[d] = place[d] /\ place[d] \in Nat /\ d < n
             /\ initmem + StackGap <= place[d] /\ place[d] + SizeOf(d) <= a
  BY <1>3, <1>5, <1>6, <1>8 DEF Located, a
<1>9. ASSUME NEW d \in 1 .. Len(program), ~ program[d].global, Addressed(d)'
      PROVE  /\ place'[d] \in Nat /\ initmem' + StackGap <= place'[d]
             /\ place'[d] + SizeOf(d) <= initmem' + StackGap + stackn'
  <2>1. CASE d = n
    BY <1>1, <1>4, <1>5, <2>1
  <2>2. CASE d # n
    <3>1. place[d] + SizeOf(d) <= a
      BY <1>8, <1>9, <2>2
    <3>2. SizeOf(d) \in Nat
      BY SizesAre
    <3>3. /\ place'[d] = place[d] /\ place[d] \in Nat
          /\ initmem + StackGap <= place[d]
      BY <1>8, <1>9, <2>2
    <3>4. initmem + StackGap + stackn' \in Int /\ a <= initmem + StackGap + stackn'
      BY <1>2, <1>3, <1>4, InitializerAssumption
    <3> QED
      BY <1>1, <1>4, <3>1, <3>2, <3>3, <3>4
  <2> QED
    BY <2>1, <2>2
<1>10. ASSUME NEW d \in 1 .. Len(program), NEW e \in 1 .. Len(program),
              d < e, Addressed(d)', Addressed(e)',
              program[d].global <=> program[e].global
       PROVE  place'[d] + SizeOf(d) <= place'[e]
  <2>1. CASE e = n
    <3>1. ~ program[d].global /\ d # n
      BY <1>1, <1>2, <1>10, <2>1
    <3>2. place'[d] = place[d] /\ place[d] + SizeOf(d) <= a
      BY <1>8, <1>10, <3>1
    <3> QED
      BY <1>5, <2>1, <3>2
  <2>2. CASE d = n
    <3>1. ~ program[e].global /\ e # n /\ ~ (e < n)
      BY <1>1, <1>2, <1>10, <2>2
    <3> QED
      BY <1>6, <1>10, <3>1
  <2>3. CASE d # n /\ e # n
    <3>1. Addressed(d) /\ Addressed(e)
      BY <1>6, <1>10, <2>3 DEF Addressed
    <3> QED
      BY <1>3, <1>5, <1>10, <2>3, <3>1 DEF Located
  <2> QED
    BY <2>1, <2>2, <2>3
<1>11. initmem' \in Nat
  BY <1>1, <1>3
<1> QED
  BY <1>1, <1>4, <1>5, <1>7, <1>9, <1>10, <1>11 DEF Located

LEMMA LocatedStep ==
  ASSUME NEW T, ClosedTypes(T), Uses(T), Sized(T), Typing(T), Made(T), Located, [Next]_vars
  PROVE  Located'
<1>1. Reads /\ program' = program /\ Len(program) \in Nat /\ n \in 1 .. Len(program)
  BY StepOn DEF Typing, Reads
<1>2. Len(place) = IF InReader THEN 0 ELSE IF phase = "emit" THEN n - 1 ELSE Len(program)
  BY DEF Located
<1>3. ASSUME InReader, InReader', UNCHANGED <<place, initmem, stackn>>
      PROVE  Located'
  <2>1. Len(place) = 0 /\ DOMAIN place = {}
    BY <1>2, <1>3, StackHas DEF Located
  <2> QED
    BY <1>1, <1>3, <2>1, LocatedStays
<1>4. CASE BeginDecl \/ ReadList \/ ScalarElem \/ ScalarEnd \/ SkipElem \/ SkipEnd
  <2>1. Parsed(T) /\ phase \in {"decl", "init"}
    BY <1>4, ReaderStep
  <2> QED
    BY <1>3, <2>1 DEF Parsed, Parses, Refuse, InReader, emitter
<1>5. CASE EndDecl
  <2>1. InReader /\ UNCHANGED <<place, initmem, stackn>>
    BY <1>5 DEF EndDecl, Refuse, InReader, emitter
  <2>2. CASE InReader'
    BY <1>3, <2>1, <2>2
  <2>3. CASE ~ InReader'
    <3>1. phase' = "emit" /\ n' = 1
      BY <1>5, <2>3 DEF EndDecl, Refuse, InReader
    <3>2. Len(place) = 0 /\ DOMAIN place = {}
      BY <1>2, <2>1, StackHas DEF Located
    <3> QED
      BY <1>1, <2>1, <2>3, <3>1, <3>2, LocatedStays
  <2> QED
    BY <2>2, <2>3
<1>6. CASE EmitToplevel
  BY <1>1, <1>6, EmitLocates
<1>7. CASE DeclareLocal
  BY <1>1, <1>7, DeclareLocates
<1>8. CASE ZeroGlobals \/ StoreGlobal \/ PassGlobal
  <2>1. /\ UNCHANGED <<place, initmem, stackn>>
        /\ phase \in {"zero", "values", "main"} /\ phase' \in {"values", "main", "end"}
    BY <1>8 DEF ZeroGlobals, StoreGlobal, PassGlobal, Onward, emitter
  <2>2. DOMAIN place = 1 .. Len(program) /\ Len(place) = Len(program)
    BY <1>2, <2>1, StackHas DEF Located, InReader
  <2>3. ASSUME NEW d \in DOMAIN place, ~ program[d].global, Addressed(d)'
        PROVE  Addressed(d)
    <3>1. CASE ZeroGlobals \/ StoreGlobal
      <4>1. phase' # "end" /\ (phase' = "main" => n' = 1)
        BY <3>1 DEF ZeroGlobals, StoreGlobal, Onward
      <4>2. d < n' /\ n' = 1 /\ d \in 1 .. Len(program)
        BY <1>1, <2>2, <2>3, <4>1 DEF Addressed
      <4> QED
        BY <1>1, <4>2
    <3>2. CASE PassGlobal
      <4>1. /\ phase = "main" /\ program[n].global
            /\ n' = IF n = Len(program) THEN 1 ELSE n + 1
            /\ phase' = IF n = Len(program) THEN "end" ELSE "main"
        BY <3>2 DEF PassGlobal, Onward, Decl
      <4>2. d \in 1 .. Len(program) /\ d # n
        BY <2>2, <2>3, <4>1
      <4>3. (n # Len(program) => d < n + 1) => d < n
        BY <1>1, <4>2
      <4>4. n # Len(program) => d < n + 1
        BY <1>1, <2>3, <4>1 DEF Addressed
      <4> QED
        BY <4>1, <4>3, <4>4 DEF Addressed
    <3> QED
      BY <1>8, <3>1, <3>2
  <2> QED
    BY <1>1, <2>1, <2>2, <2>3, LocatedStays DEF InReader
<1>9. CASE UNCHANGED vars
  BY <1>1, <1>2, <1>9, LocatedStays DEF vars, emitter, InReader, Addressed
<1> QED
  BY <1>4, <1>5, <1>6, <1>7, <1>8, <1>9 DEF Next

LEMMA LocatedApart ==
  ASSUME NEW T, ClosedTypes(T), Uses(T), Sized(T), Reads, Made(T), Located
  PROVE  VariablesApart
<1>1. ASSUME NEW d \in DOMAIN place, NEW e \in DOMAIN place, d # e,
             Addressed(d), Addressed(e)
      PROVE  CellsOf(d) \cap CellsOf(e) = {}
  <2>1. ~ InReader /\ DOMAIN place = 1 .. Len(place) /\ Len(place) <= Len(program)
    <3>1. Len(place) = IF InReader THEN 0
                       ELSE IF phase = "emit" THEN n - 1 ELSE Len(program)
      BY DEF Located
    <3>2. DOMAIN place = 1 .. Len(place)
      BY StackHas DEF Located
    <3> QED
      BY <1>1, <3>1, <3>2 DEF Reads
  <2>2. d \in 1 .. Len(program) /\ e \in 1 .. Len(program)
    BY <2>1 DEF Reads
  <2>3. /\ nodes[d].size = SizeOf(d) /\ nodes[e].size = SizeOf(e)
        /\ SizeOf(d) \in Nat /\ SizeOf(e) \in Nat
    BY <2>1, <2>2, SizesAre
  <2>4. place[d] \in Nat /\ place[e] \in Nat
    BY <1>1 DEF Located
  <2>5. place[d] + SizeOf(d) <= place[e] \/ place[e] + SizeOf(e) <= place[d]
    <3>1. CASE program[d].global <=> program[e].global
      <4>1. CASE d < e
        BY <1>1, <3>1, <4>1 DEF Located
      <4>2. CASE e < d
        BY <1>1, <3>1, <4>2 DEF Located
      <4> QED
        BY <1>1, <2>2, <4>1, <4>2
    <3>2. CASE program[d].global /\ ~ program[e].global
      <4>1. place[d] + SizeOf(d) <= initmem /\ initmem + StackGap <= place[e]
        BY <1>1, <3>2 DEF Located
      <4>2. initmem \in Nat /\ StackGap \in Nat
        BY InitializerAssumption DEF Located
      <4> QED
        BY <2>3, <2>4, <4>1, <4>2
    <3>3. CASE ~ program[d].global /\ program[e].global
      <4>1. place[e] + SizeOf(e) <= initmem /\ initmem + StackGap <= place[d]
        BY <1>1, <3>3 DEF Located
      <4>2. initmem \in Nat /\ StackGap \in Nat
        BY InitializerAssumption DEF Located
      <4> QED
        BY <2>3, <2>4, <4>1, <4>2
    <3> QED
      BY <3>1, <3>2, <3>3
  <2> QED
    BY <2>3, <2>4, <2>5 DEF CellsOf
<1> QED
  BY <1>1 DEF VariablesApart

\* A step changes cells of the variable under way only, or clears those of
\* globals (gen.c:588-595, 740-751, 855-872).
StaysIn == \A c \in DOMAIN mem : mem'[c] # mem[c] =>
              \E d \in DOMAIN program :
                 /\ Addressed(d)' /\ c \in (CellsOf(d))'
                 /\ d = n \/ (phase = "zero" /\ program[d].global)
StoresStay(T) == [][Uses(T) => StaysIn]_vars

Strong(T) == Typing(T) /\ Made(T) /\ Located /\ DOMAIN mem = 0 .. MaxCells - 1

LEMMA StoreAllInside ==
  ASSUME NEW T, ClosedTypes(T), Uses(T), Sized(T), Strong(T), ~ InReader,
         NEW a \in Nat, NEW c \in DOMAIN mem, DOMAIN mem \subseteq Int,
         StoreAll(mem, a)[c] # mem[c]
  PROVE  c \in a .. a + nodes[n].size - 1
<1>1. n \in DOMAIN nodes /\ nodes[n].size \in Nat
  BY SizesAre DEF Strong, Typing
<1> DEFINE into == {s \in DOMAIN nodes[n].inits :
                      c - (a + nodes[n].inits[s].off) + 1 \in DOMAIN nodes[n].inits[s].cells}
<1>2. into # {}
  BY DEF StoreAll, Node
<1>3. PICK s \in DOMAIN nodes[n].inits :
        c - (a + nodes[n].inits[s].off) + 1 \in DOMAIN nodes[n].inits[s].cells
  BY <1>2
<1> DEFINE x == nodes[n].inits[s]
           k == c - (a + x.off) + 1
<1>4. Into(T, SizeOf(n), x) /\ nodes[n].size = SizeOf(n)
  BY <1>1, <1>3 DEF Strong, Made, Stores, Range
<1>5. k \in DOMAIN x.cells
  BY <1>3
<1>6. \A w : Into(T, w, x) => x.off \in Nat /\ k \in Nat \ {0} /\ x.off + k <= w
  <2> HIDE DEF x, k
  <2> QED
    BY <1>5 DEF Into, Fits
<1>7. x.off \in Nat /\ k \in Nat \ {0} /\ x.off + k <= nodes[n].size
  BY <1>4, <1>6
<1>8. c \in Int
  OBVIOUS
<1> HIDE DEF x
<1>9. \A b, o, z \in Nat, i \in Int :
         o + (i - (b + o) + 1) <= z /\ i - (b + o) + 1 \in Nat \ {0} => i \in b .. b + z - 1
  OBVIOUS
<1> QED
  BY <1>1, <1>7, <1>8, <1>9

LEMMA StepStays ==
  ASSUME NEW T, ClosedTypes(T), Uses(T), Sized(T), Strong(T), [Next]_vars, program' = program
  PROVE  /\ DOMAIN mem' = DOMAIN mem
         /\ \A c \in DOMAIN mem : mem'[c] # mem[c] =>
              \E d \in DOMAIN program :
                 /\ Addressed(d)' /\ c \in (CellsOf(d))'
                 /\ d = n \/ (phase = "zero" /\ program[d].global)
<1>1. CASE mem' = mem
  BY <1>1
<1>2. Located /\ Made(T) /\ Reads /\ DOMAIN mem \subseteq Int /\ n \in DOMAIN program
  BY DEF Strong, Typing, Reads
<1>3. CASE ZeroGlobals
  <2>1. mem' = Zeroed(mem) /\ phase = "zero" /\ UNCHANGED <<place, nodes>>
    BY <1>3 DEF ZeroGlobals
  <2>2. ASSUME NEW c \in DOMAIN mem, mem'[c] # mem[c]
        PROVE  \E d \in DOMAIN program :
                  Addressed(d)' /\ c \in (CellsOf(d))' /\ program[d].global
    <3>1. PICK d \in DOMAIN nodes :
             program[d].global /\ c \in place[d] .. place[d] + nodes[d].size - 1
      BY <2>1, <2>2 DEF Zeroed
    <3>2. d \in DOMAIN program
      BY <1>2, SizesAre DEF Reads
    <3>3. Addressed(d)'
      BY <3>1 DEF Addressed
    <3> QED
      BY <2>1, <3>1, <3>2, <3>3 DEF CellsOf
  <2> QED
    BY <2>1, <2>2 DEF Zeroed
<1>4. ASSUME NEW d \in DOMAIN program, d = n, NEW a \in Nat, mem' = StoreAll(mem, a),
             ~ InReader, place'[d] = a, nodes' = nodes, Addressed(d)'
      PROVE  /\ DOMAIN mem' = DOMAIN mem
             /\ \A c \in DOMAIN mem : mem'[c] # mem[c] => c \in (CellsOf(d))'
  <2>1. DOMAIN mem' = DOMAIN mem
    BY <1>4 DEF StoreAll
  <2>2. ASSUME NEW c \in DOMAIN mem, mem'[c] # mem[c]
        PROVE  c \in a .. a + nodes[n].size - 1
    BY <1>2, <1>4, <2>2, StoreAllInside
  <2>3. (CellsOf(d))' = a .. a + nodes[n].size - 1
    BY <1>4 DEF CellsOf
  <2> QED
    BY <2>1, <2>2, <2>3
<1>5. CASE StoreGlobal /\ Decl.global
  <2> DEFINE d == n
             a == place[n]
  <2>1. /\ ~ InReader /\ phase # "emit" /\ mem' = StoreAll(mem, a)
        /\ place' = place /\ nodes' = nodes
    BY <1>5 DEF StoreGlobal, InReader
  <2>2. d \in DOMAIN place
    <3>1. DOMAIN place = 1 .. Len(program)
      BY <1>2, <2>1, StackHas DEF Located
    <3> QED
      BY <1>2, <3>1 DEF Reads
  <2>3. a \in Nat
    BY <1>2, <1>5, <2>2 DEF Located, Decl
  <2>4. PICK v \in DOMAIN program : v = n
    BY <1>2
  <2>5. Addressed(v)'
    BY <1>5, <2>4 DEF Addressed, Decl
  <2> HIDE DEF a
  <2>6. place'[v] = a
    BY <2>1, <2>4 DEF a
  <2> QED
    BY <1>4, <2>1, <2>3, <2>4, <2>5, <2>6
<1>6. CASE DeclareLocal
  <2> DEFINE a == initmem + StackGap + stackn
  <2>1. /\ ~ InReader /\ phase = "main" /\ mem' = StoreAll(mem, a)
        /\ place' = [place EXCEPT ![n] = a] /\ nodes' = nodes
        /\ n' = IF n = Len(program) THEN 1 ELSE n + 1
        /\ phase' = IF n = Len(program) THEN "end" ELSE phase
    BY <1>6 DEF DeclareLocal, Onward, InReader
  <2>2. n \in DOMAIN place /\ n \in Int
    <3>1. DOMAIN place = 1 .. Len(program)
      BY <1>2, <2>1, StackHas DEF Located
    <3> QED
      BY <1>2, <3>1 DEF Reads
  <2>3. a \in Nat
    BY <1>2, InitializerAssumption DEF Located
  <2> HIDE DEF a
  <2>4. PICK v \in DOMAIN program : v = n
    BY <1>2
  <2>5. Addressed(v)'
    <3>1. phase' = "end" \/ (phase' = "main" /\ v < n')
      BY <2>1, <2>2, <2>4
    <3> QED
      BY <3>1 DEF Addressed
  <2>6. place'[v] = a
    BY <2>1, <2>2, <2>4
  <2> QED
    BY <1>4, <2>1, <2>3, <2>4, <2>5, <2>6
<1>7. CASE (StoreGlobal /\ ~ Decl.global) \/ EmitToplevel \/ PassGlobal
  BY <1>1, <1>7 DEF StoreGlobal, EmitToplevel, PassGlobal, emitter
<1>8. CASE EndDecl \/ UNCHANGED vars
  BY <1>1, <1>8 DEF EndDecl, Refuse, emitter, vars
<1>9. CASE BeginDecl \/ ReadList \/ ScalarElem \/ ScalarEnd \/ SkipElem \/ SkipEnd
  <2>1. Parsed(T)
    BY <1>9, ReaderStep DEF Strong
  <2> QED
    BY <1>1, <2>1 DEF Parsed, Parses, Refuse, emitter
<1> QED
  BY <1>3, <1>5, <1>6, <1>7, <1>8, <1>9 DEF Next

LEMMA StrongStep ==
  ASSUME NEW T, ClosedTypes(T), Uses(T), Sized(T), Strong(T), [Next]_vars
  PROVE  Strong(T)'
<1>1. DOMAIN mem' = DOMAIN mem
  BY StepOn, StepStays
<1>2. Typing(T)' /\ Made(T)' /\ Located'
  BY NextTyping, MadeStep, LocatedStep DEF Strong
<1> QED
  BY <1>1, <1>2 DEF Strong

LEMMA InitStrong ==
  ASSUME NEW T, ClosedTypes(T), Uses(T), Init
  PROVE  Strong(T)
<1>1. DOMAIN mem = 0 .. MaxCells - 1
  BY DEF Init
<1> QED
  BY <1>1, InitTyping, InitMade, InitLocated DEF Strong

\* In a program whose types have sizes above 0, which no array of open length and
\* no flexible member has, each store of an initializer is inside its variable,
\* whatever designators and braces the initializer has (parse.c:1706-1902).
THEOREM StoresAreInside ==
  ASSUME NEW T, ClosedTypes(T), Sized(T)
  PROVE  Spec => [](Uses(T) => StoresInside)
<1>1. Init => (Uses(T) => Strong(T))
  BY InitStrong
<1>2. (Uses(T) => Strong(T)) /\ [Next]_vars => (Uses(T) => Strong(T))'
  BY UsesStays, StrongStep
<1>3. (Uses(T) => Strong(T)) => (Uses(T) => StoresInside)
  BY MadeInside DEF Strong, Typing
<1> QED
  BY <1>1, <1>2, <1>3, PTL DEF Spec

\* In such a program globals and the locals of main never share a cell
\* (gen.c:588-595, 740-751).
THEOREM VariablesAreApart ==
  ASSUME NEW T, ClosedTypes(T), Sized(T)
  PROVE  Spec => [](Uses(T) => VariablesApart)
<1>1. Init => (Uses(T) => Strong(T))
  BY InitStrong
<1>2. (Uses(T) => Strong(T)) /\ [Next]_vars => (Uses(T) => Strong(T))'
  BY UsesStays, StrongStep
<1>3. (Uses(T) => Strong(T)) => (Uses(T) => VariablesApart)
  BY LocatedApart DEF Strong, Typing
<1> QED
  BY <1>1, <1>2, <1>3, PTL DEF Spec

\* In such a program what gen.c stores for a declaration changes no cell of another
\* variable, and what it clears before main is in globals (gen.c:855-872,
\* 919-950).
THEOREM OthersKept ==
  ASSUME NEW T, ClosedTypes(T), Sized(T)
  PROVE  Spec => StoresStay(T)
<1>1. Init => (Uses(T) => Strong(T))
  BY InitStrong
<1>2. (Uses(T) => Strong(T)) /\ [Next]_vars => (Uses(T) => Strong(T))'
  BY UsesStays, StrongStep
<1>3. (Uses(T) => Strong(T)) /\ [Next]_vars => [Uses(T) => StaysIn]_vars
  BY StepOn, StepStays DEF StaysIn
<1>4. StoresStay(T) <=> [][Uses(T) => StaysIn]_vars
  BY DEF StoresStay
<1> QED
  BY <1>1, <1>2, <1>3, <1>4, PTL DEF Spec

=============================================================================
