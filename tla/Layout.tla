------------------------------- MODULE Layout -------------------------------
(***************************************************************************)
(* Types and where the members of structs and unions lie.  A cell of memory *)
(* holds any scalar, so scalars have size 1; _Alignas can give them an       *)
(* alignment.  A type is a record with its size and alignment.               *)
(***************************************************************************)
EXTENDS Integers, Sequences, SequencesExt, TLC

CONSTANT NONE

Scalar(kind, align) == [kind |-> kind, size |-> 1, align |-> align]

\* make_array_type; len = -1 where the declaration leaves it open
MakeArray(t, len) == [kind |-> "array", of |-> t, len |-> len,
                      size |-> IF len < 0 THEN -1 ELSE t.size * len,
                      align |-> t.align]

IsAggregate(t) == t.kind \in {"array", "rec"}
IsString(t)    == t.kind = "array" /\ t.of.kind = "char"

Higher(m, n)           == IF m < n THEN n ELSE m
\* mutant: no padding
NoPadding(off, align)  == 0
ComputePadding(off, align) == (align - (off % align)) % align

-----------------------------------------------------------------------------
\* A declared member: bits is -1 but for bit-fields; name is NONE for unnamed
\* ones.
IsAnonymous(f) == f.name = NONE /\ f.type.kind = "rec"

\* The members placed so far: the cell and bit that come next, the alignment
\* of the whole, and the dictionary of the members.
NoMembers == [off |-> 0, bitoff |-> 0, align |-> 1, keys |-> << >>,
              fields |-> [name \in {} |-> NONE]]

Merged(new, old) == [k \in DOMAIN new \cup DOMAIN old |->
                       IF k \in DOMAIN new THEN new[k] ELSE old[k]]

DictPut(l, name, f) == IF name = NONE THEN l
                       ELSE [l EXCEPT !.keys = Append(@, name),
                                      !.fields = Merged([k \in {name} |-> f], @)]

Field(f, off, bitoff) == [type |-> f.type, bits |-> f.bits, off |-> off,
                          bitoff |-> bitoff]

Moved(fields, off) == [k \in DOMAIN fields |-> [fields[k] EXCEPT !.off = @ + off]]

SquashUnnamedStruct(l, t, off) ==
    [l EXCEPT !.keys = @ \o t.keys, !.fields = Merged(Moved(t.fields, off), @)]

\* finish_bitfield, and padding up to the alignment
FinishBitfield(l, align) ==
    LET o == l.off + (l.bitoff + 7) \div 8
    IN  [l EXCEPT !.off = o + ComputePadding(o, align), !.bitoff = 0]

AlignFor(l, f) == IF f.name = NONE THEN l
                  ELSE [l EXCEPT !.align = Higher(@, f.type.align)]

\* One turn of the loop of update_struct_offset.
PlaceField(before, f) ==
    LET l    == AlignFor(before, f)
        cell == FinishBitfield(l, f.type.align)
        unit == 8 * f.type.size
        room == unit - ((l.off * 8 + l.bitoff) % unit)
        at   == IF f.bits <= room THEN l ELSE cell
    IN  CASE IsAnonymous(f) ->
               [SquashUnnamedStruct(cell, f.type, cell.off)
                  EXCEPT !.off = @ + f.type.size]
          [] ~ IsAnonymous(f) /\ f.bits = 0 -> cell
          [] ~ IsAnonymous(f) /\ f.bits > 0 ->
               [DictPut(at, f.name, Field(f, at.off, at.bitoff))
                  EXCEPT !.bitoff = @ + f.bits]
          [] ~ IsAnonymous(f) /\ f.bits < 0 ->
               [DictPut(cell, f.name, Field(f, cell.off, 0))
                  EXCEPT !.off = @ + f.type.size]

Record(isStruct, decls, l, size) ==
    [kind |-> "rec", struct |-> isStruct, decls |-> decls, keys |-> l.keys,
     fields |-> l.fields, size |-> size + ComputePadding(size, l.align),
     align |-> l.align]

\* The members of a struct placed after each turn of the loop.
Placed(decls) ==
    LET placed[k \in 0 .. Len(decls)] ==
          IF k = 0 THEN NoMembers ELSE PlaceField(placed[k - 1], decls[k])
    IN  placed

UpdateStructOffset(decls) ==
    LET l == Placed(decls)[Len(decls)]
    IN  Record(TRUE, decls, l, FinishBitfield(l, 1).off)

OverlayField(before, f) ==
    LET l == [before EXCEPT !.align = Higher(@, f.type.align),
                            !.off   = Higher(@, f.type.size)]
    IN  IF IsAnonymous(f) THEN SquashUnnamedStruct(l, f.type, 0)
        ELSE DictPut(l, f.name, Field(f, 0, 0))

Overlaid(decls) ==
    LET overlaid[k \in 0 .. Len(decls)] ==
          IF k = 0 THEN NoMembers ELSE OverlayField(overlaid[k - 1], decls[k])
    IN  overlaid

UpdateUnionOffset(decls) ==
    LET l == Overlaid(decls)[Len(decls)]
    IN  Record(FALSE, decls, l, l.off)

\* fix_rectype_flexible_member: the last member may be an array without length.
FixFlexibleMember(decls) ==
    [n \in DOMAIN decls |->
       IF decls[n].type.kind = "array" /\ decls[n].type.len = -1
       THEN [decls[n] EXCEPT !.type = MakeArray(@.of, 0)] ELSE decls[n]]

ReadRectypeFields(isStruct, decls) ==
    LET fixed == FixFlexibleMember(decls)
    IN  IF isStruct THEN UpdateStructOffset(fixed) ELSE UpdateUnionOffset(fixed)

-----------------------------------------------------------------------------
\* The bits a member takes.
Bits(f) == LET first == 8 * f.off + f.bitoff
           IN  first .. first + (IF f.bits > 0 THEN f.bits ELSE 8 * f.type.size) - 1

IsAligned(t) ==
    /\ t.size % t.align = 0
    /\ \A k \in DOMAIN t.fields : /\ t.fields[k].off % t.fields[k].type.align = 0
                                  /\ t.align % t.fields[k].type.align = 0
                                  /\ \A b \in Bits(t.fields[k]) : b < 8 * t.size

\* The members that a declaration gives a struct, and whether k is one.
Names(f)       == IF IsAnonymous(f) THEN DOMAIN f.type.fields ELSE {f.name} \ {NONE}
Declares(f, k) == k \in Names(f)

MembersApart(t) ==
    \A n \in DOMAIN t.decls : \A k \in DOMAIN t.fields : \A m \in DOMAIN t.fields :
       t.struct /\ Declares(t.decls[n], k) /\ ~ Declares(t.decls[n], m) =>
           Bits(t.fields[k]) \cap Bits(t.fields[m]) = {}

\* C11 6.7.2.1p12: bit-fields with a zero-width one between them share no cell.
ZeroWidthSeparates(t) ==
    \A n \in DOMAIN t.decls : \A a \in 1 .. n - 1 : \A b \in n + 1 .. Len(t.decls) :
       t.struct /\ t.decls[n].bits = 0 /\ NONE \notin {t.decls[a].name, t.decls[b].name}
         => \A x \in Bits(t.fields[t.decls[a].name]),
               y \in Bits(t.fields[t.decls[b].name]) : x \div 8 # y \div 8

\* A struct lies as parse.c:1537-1554 says: members at multiples of their
\* alignment, in no bits of another member, inside a size that keeps the elements
\* of an array of them aligned.
LaidOut(t) == t.kind = "rec" => /\ IsAligned(t) /\ MembersApart(t)
                                /\ ZeroWidthSeparates(t)

-----------------------------------------------------------------------------
(* The declarations the parser accepts, given to update_struct_offset and    *)
(* update_union_offset                                                       *)

IsComplete(t) == t.size \in Nat /\ t.align \in Nat \ {0}

IsField(f) == /\ f = Field(f, f.off, f.bitoff) /\ IsComplete(f.type)
              /\ f.off \in Nat /\ f.bitoff \in Nat /\ f.bits \in Int
              /\ f.bits > 0 => f.type.size = 1

IsRecord(t) == /\ t.kind = "rec" /\ IsComplete(t)
               /\ t.keys \in Seq(DOMAIN t.fields)
               /\ DOMAIN t.fields \subseteq Range(t.keys)
               /\ NONE \notin DOMAIN t.fields
               /\ \A k \in DOMAIN t.fields : IsField(t.fields[k])
               /\ LaidOut(t)

\* read_bitsize; C11 6.7.5p2 has no alignment of bit-fields
IsMember(f) == /\ IsComplete(f.type)
               /\ f.bits \in -1 .. 8 * f.type.size
               /\ f.bits >= 0 => f.type.size = 1 /\ f.type.align = 1
               /\ f.bits = 0 => f.name = NONE
               /\ IsAnonymous(f) => f.bits = -1 /\ IsRecord(f.type)

\* Alignments are powers of two (parse.c:2292), of which one divides the other.
Divides(a, b)    == b % a = 0
Comparable(f, g) == Divides(f.type.align, g.type.align)
                    \/ Divides(g.type.align, f.type.align)

\* The names differ (C11 6.7p3).  The alignment of an anonymous struct in a
\* struct is forgotten (parse.c:1541), so that it has none.
Proper(isStruct, decls) ==
    /\ \A m \in DOMAIN decls :
         /\ IsMember(decls[m])
         /\ isStruct /\ IsAnonymous(decls[m]) => decls[m].type.align = 1
    /\ \A m, n \in DOMAIN decls : Comparable(decls[m], decls[n])
    /\ \A m, n \in DOMAIN decls :
         m # n => Names(decls[m]) \cap Names(decls[n]) = {}
=============================================================================
