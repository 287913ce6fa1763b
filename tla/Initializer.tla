----------------------------- MODULE Initializer -----------------------------
(***************************************************************************)
(* Declarations with initializers: parse.c reads the initializer list of    *)
(* each variable token by token and gen.c stores what it found into the     *)
(* cells of the variable, before main for globals and where the declaration *)
(* stands for locals.                                                       *)
(*                                                                          *)
(* The parser descends recursively; `open' is its stack of calls.  Tokens    *)
(* are records with a field k:  "{"  "}"  ","  "expr"  "string" (with its    *)
(* length)  "." (a designator .f)  "[" (a designator [i]).  The `=' after    *)
(* designators, which is skipped before any initializer, is left out.  The   *)
(* n-th expression of a declaration has the value <<n, c>> in its cell c.    *)
(***************************************************************************)
EXTENDS Layout

CONSTANTS Programs,     \* families of sequences of declarations: records of
                        \* whether the variable is global, its type, and the
                        \* tokens of its initializer (toks, << >> for none)
          InitMem,      \* where globals begin (16)
          StackGap,     \* cells between globals and stack (16)
          MaxCells,     \* bound: the size of the memory
          MaxElems      \* bound: elements of an array of open length

ASSUME InitializerAssumption == {InitMem, StackGap, MaxCells, MaxElems} \subseteq Nat

\* What read_rectype_fields makes of declarations the parser accepts.
IsRecordType(t) == /\ t.struct \in BOOLEAN /\ t.decls \in Seq(Range(t.decls))
                   /\ Proper(t.struct, FixFlexibleMember(t.decls))
                   /\ t = ReadRectypeFields(t.struct, t.decls)

\* Types with their elements and members; a declaration may leave its own
\* length open, that of no part.
ClosedTypes(T) ==
    \A t \in T :
       /\ t.kind = "array" => /\ t = MakeArray(t.of, t.len) /\ t.len \in Nat \cup {-1}
                              /\ t.of \in T /\ IsComplete(t.of)
       /\ t.kind = "rec" => /\ IsRecordType(t)
                            /\ \A k \in DOMAIN t.fields : t.fields[k].type \in T
       /\ ~ IsAggregate(t) => IsComplete(t)

\* The programs declare variables of types T only.
Typed(T) == \A f \in DOMAIN Programs : \A p \in Programs[f] :
               \A d \in DOMAIN p : p[d].ty \in T

IsToken(tok) == /\ tok.k = "string" => tok.len \in Nat
                /\ tok.k = "[" => tok.index \in Nat

ASSUME ProgramsAssumption ==
    \A f \in DOMAIN Programs : \A p \in Programs[f] :
       /\ p \in Seq(Range(p)) \ {<< >>}
       /\ \A d \in DOMAIN p : /\ p[d].ty.kind = "rec" => IsRecordType(p[d].ty)
                              /\ p[d].toks \in Seq(Range(p[d].toks))
                              /\ \A tok \in Range(p[d].toks) : IsToken(tok)

VARIABLES program,
          phase,        \* "decl", "init", "emit", "zero", "values", "main", "end",
                        \* or "error"
          n,            \* the declaration under way
          pos,          \* its next token
          open,         \* the calls of the parser
          inits,        \* the stores found: the first cell, the cells' values
          size,         \* the size of the variable, -1 while it is open
          nexpr,        \* expressions read
          nodes,        \* the AST_DECL nodes
          place,        \* globals and locals: the address of each variable
          initmem,      \* where the next global goes
          stackn,       \* the cells of main's frame
          mem

parser == <<pos, open, inits, size, nexpr>>
emitter == <<place, initmem, stackn, mem>>
vars   == <<program, phase, n, nodes, parser, emitter>>

Decl     == program[n]
At(p)    == IF p \in DOMAIN Decl.toks THEN Decl.toks[p] ELSE [k |-> ";"]
Tok      == At(pos)
TypeOf(d) == program[d].ty
ZERO     == <<0, 0>>
Value(c) == <<nexpr + 1, c>>
Store(off, cells) == [off |-> off, cells |-> cells]

Init == /\ \E f \in DOMAIN Programs : program \in Programs[f]
        /\ phase = "decl" /\ n = 1
        /\ pos = 1 /\ open = << >> /\ inits = << >> /\ size = TypeOf(1).size
        /\ nexpr = 0
        /\ nodes = << >>
        /\ place = << >> /\ initmem = InitMem /\ stackn = 0
        /\ mem = [c \in 0 .. MaxCells - 1 |-> NONE]

\* error() and errort(): the compiler exits
Refuse == /\ phase' = "error"
          /\ UNCHANGED <<program, n, nodes, parser, emitter>>

\* Among the calls of the parser, a list is one of
\* read_struct_initializer_sub and read_array_initializer_sub; "scalar" is
\* read_initializer_elem inside braces, "skip" is skip_to_brace.
Call(what, type, off, brace, designated) ==
    [what |-> what, type |-> type, off |-> off, brace |-> brace,
     designated |-> designated, i |-> 0, called |-> FALSE]

Top       == Last(open)
Leave     == Front(open)
Update(f) == Append(Front(open), f)
In(what)  == phase = "init" /\ open # << >> /\ Top.what = what
InList    == In("list") /\ ~ Top.called

Reading(o, p) == open' = o /\ pos' = p
Keep          == UNCHANGED <<inits, size, nexpr>>
Parses        == phase' = "init" /\ UNCHANGED <<program, n, nodes, emitter>>

-----------------------------------------------------------------------------
(* read_initializer_list and read_initializer_elem, called with the token at *)
(* p next and leaving the calls o open                                       *)

AssignString(t, off, chars) ==
    LET len == IF t.len = -1 THEN chars + 1 ELSE t.len
    IN  [i \in 1 .. len |->
           Store(off + i - 1, << IF i <= chars THEN Value(i - 1) ELSE ZERO >>)]

ReadString(t, off, p) ==
    /\ inits' = inits \o AssignString(t, off, At(p).len)
    /\ size' = IF t.len = -1 THEN At(p).len + 1 ELSE size
    /\ nexpr' = nexpr + 1

ReadInitializerList(t, off, designated, p, o) ==
    \/ /\ IsString(t) /\ At(p).k = "string"
       /\ ReadString(t, off, p) /\ Reading(o, p + 1) /\ Parses
    \/ /\ IsString(t) /\ At(p).k = "{" /\ At(p + 1).k = "string"
       /\ IF At(p + 2).k = "}"
          THEN ReadString(t, off, p + 1) /\ Reading(o, p + 3) /\ Parses
          ELSE Refuse
    \/ LET brace == At(p).k = "{"
           whole == IF IsAggregate(t) THEN t ELSE MakeArray(t, 1)
           next  == IF brace THEN p + 1 ELSE p
       IN  /\ ~ (IsString(t) /\ At(IF brace THEN p + 1 ELSE p).k = "string")
           /\ Reading(Append(o, Call("list", whole, off, brace, designated)), next)
           /\ Keep /\ Parses

ReadInitializerElem(t, off, designated, p, o) ==
    \/ IsAggregate(t) /\ ReadInitializerList(t, off, designated, p, o)
    \/ /\ ~ IsAggregate(t) /\ At(p).k = "{"
       /\ Reading(Append(o, Call("scalar", t, off, TRUE, TRUE)), p + 1)
       /\ Keep /\ Parses
    \/ /\ ~ IsAggregate(t) /\ At(p).k \in {"expr", "string"}
       /\ inits' = Append(inits, Store(off, <<Value(0)>>))
       /\ nexpr' = nexpr + 1
       /\ Reading(o, p + 1) /\ Parses
       /\ UNCHANGED size
    \/ /\ ~ IsAggregate(t) /\ At(p).k \notin {"{", "expr", "string"}
       /\ Refuse

\* The element of the list at the top of the calls.
Elem(t, off, designated, p, i) ==
    ReadInitializerElem(t, off, designated, p,
        Update([Top EXCEPT !.i = i, !.designated = designated, !.called = TRUE]))

-----------------------------------------------------------------------------
(* One turn of the loop of read_struct_initializer_sub or                    *)
(* read_array_initializer_sub                                                *)

IsArray   == Top.type.kind = "array"
Flexible  == Top.type.len <= 0
MoreElems == IF Flexible THEN Top.i < MaxElems ELSE Top.i < Top.type.len
InLoop    == InList /\ (IsArray => MoreElems)

Designates == Tok.k \in {".", "["}
\* mutant: the designators after the first of an element not expected
BraceOnly  == Top.brace
Deeper     == Top.brace \/ Top.designated

\* The length of an array of open length is the index after the last element.
Finish == size' = IF IsArray /\ Top.type.len = -1 THEN Top.type.of.size * Top.i
                  ELSE size

CloseList == /\ InLoop /\ Tok.k = "}"
             /\ Reading(Leave, IF Top.brace THEN pos + 1 ELSE pos)
             /\ Finish /\ UNCHANGED <<inits, nexpr>> /\ Parses

\* A designator in a list without braces is one of the list around it.
LeaveList == /\ InLoop /\ Designates /\ ~ Deeper
             /\ Reading(Leave, pos)
             /\ Keep /\ Parses

Index(k) == CHOOSE i \in DOMAIN Top.type.keys : Top.type.keys[i] = k

DesignateField ==
    /\ InLoop /\ ~ IsArray /\ Tok.k = "." /\ Deeper
    /\ IF Tok.name \in DOMAIN Top.type.fields
       THEN LET f == Top.type.fields[Tok.name]
            IN  Elem(f.type, Top.off + f.off, TRUE, pos + 1, Index(Tok.name))
       ELSE Refuse

NextField ==
    /\ InLoop /\ ~ IsArray /\ Tok.k \notin {"}", "."}
    /\ Tok.k = "[" => Deeper
    /\ Top.i < Len(Top.type.keys)
    /\ LET f == Top.type.fields[Top.type.keys[Top.i + 1]]
       IN  Elem(f.type, Top.off + f.off, Top.designated, pos, Top.i + 1)

DesignateIndex ==
    /\ InLoop /\ IsArray /\ Tok.k = "[" /\ Deeper
    /\ IF Flexible \/ Tok.index < Top.type.len
       THEN Elem(Top.type.of, Top.off + Top.type.of.size * Tok.index, TRUE,
                 pos + 1, Tok.index)
       ELSE Refuse

NextElem ==
    /\ InLoop /\ IsArray /\ Tok.k \notin {"}", "["}
    /\ Tok.k = "." => Deeper
    /\ Elem(Top.type.of, Top.off + Top.type.of.size * Top.i, Top.designated,
            pos, Top.i)

\* The end of a list: what is left before the brace is excessive.
EndList(p) == Reading(IF Top.brace THEN Update([Top EXCEPT !.what = "skip"])
                      ELSE Leave, p)

FullList == /\ InList
            /\ IF IsArray THEN ~ Flexible /\ Top.i >= Top.type.len
               ELSE /\ Tok.k \notin {"}", "."} /\ (Tok.k = "[" => Deeper)
                    /\ Top.i = Len(Top.type.keys)
            /\ EndList(pos)
            /\ Keep /\ Parses

AfterComma == IF Tok.k = "," THEN pos + 1 ELSE pos

\* mutant: `designated' not reset
TurnedDesignated(f) ==
    [f EXCEPT !.called = FALSE, !.i = IF f.type.kind = "array" THEN @ + 1 ELSE @]

\* mutant: a member passed over
TurnedTwice(f) == [f EXCEPT !.called = FALSE, !.designated = FALSE, !.i = @ + 1]

Turned(f) == [f EXCEPT !.called = FALSE, !.designated = FALSE,
                       !.i = IF f.type.kind = "array" THEN @ + 1 ELSE @]

\* Back from read_initializer_elem; a union has one element.
AfterElem ==
    /\ In("list") /\ Top.called
    /\ IF ~ IsArray /\ ~ Top.type.struct THEN EndList(AfterComma)
       ELSE Reading(Update(Turned(Top)), AfterComma)
    /\ Keep /\ Parses

ScalarElem == /\ In("scalar") /\ ~ Top.called
              /\ Elem(Top.type, Top.off, TRUE, pos, 0)

ScalarEnd == /\ In("scalar") /\ Top.called
             /\ IF Tok.k = "}" THEN Reading(Leave, pos + 1) /\ Keep /\ Parses
                ELSE Refuse

\* skip_to_brace: `.f = expr' and `expr' are passed over.
SkipElem ==
    /\ In("skip") /\ Tok.k # "}"
    /\ LET p    == IF Tok.k = "." THEN pos + 1 ELSE pos
           next == IF At(p + 1).k = "," THEN p + 2 ELSE p + 1
       IN  IF Tok.k = "." /\ At(p).k \in {".", "["} THEN Refuse
           ELSE IF At(p).k \in {"expr", "string"}
           THEN /\ Reading(open, next) /\ nexpr' = nexpr + 1
                /\ UNCHANGED <<inits, size>> /\ Parses
           ELSE Reading(Leave, p) /\ Keep /\ Parses

SkipEnd == /\ In("skip") /\ Tok.k = "}"
           /\ Reading(Leave, pos + 1)
           /\ Keep /\ Parses

-----------------------------------------------------------------------------
(* read_decl, with read_decl_init *)
BeginDecl ==
    /\ phase = "decl"
    /\ \/ /\ Decl.toks = << >>
          /\ Keep /\ Reading(open, pos) /\ Parses
       \/ /\ Tok.k = "{" \/ (Decl.toks # << >> /\ IsString(TypeOf(n)))
          /\ ReadInitializerList(TypeOf(n), 0, FALSE, pos, open)
       \/ /\ Decl.toks # << >> /\ Tok.k # "{" /\ ~ IsString(TypeOf(n))
          /\ inits' = << Store(0, [c \in 1 .. TypeOf(n).size |-> Value(c - 1)]) >>
          /\ nexpr' = nexpr + 1
          /\ Reading(open, pos + 1) /\ Parses
          /\ UNCHANGED size

\* The next declaration, or, after the last, the first and the next phase.
Onward(next) == /\ n' = IF n = Len(program) THEN 1 ELSE n + 1
                /\ phase' = IF n = Len(program) THEN next ELSE phase
                /\ UNCHANGED program

EndDecl ==
    /\ phase = "init" /\ open = << >>
    /\ IF Tok.k = ";"
       THEN /\ nodes' = Append(nodes, [size |-> size, inits |-> inits])
            /\ n' = IF n = Len(program) THEN 1 ELSE n + 1
            /\ phase' = IF n = Len(program) THEN "emit" ELSE "decl"
            /\ pos' = 1 /\ inits' = << >> /\ nexpr' = 0
            /\ size' = TypeOf(n').size
            /\ UNCHANGED <<program, open, emitter>>
       ELSE Refuse

-----------------------------------------------------------------------------
(* gen.c: emit_toplevel, the prologue of _start, and AST_DECL in main *)

Node == nodes[n]

\* The stores of a variable at address a, in the order of its initializers: the
\* last into a cell stays.
StoreAll(m, a) ==
    [c \in DOMAIN m |->
       LET into == {s \in DOMAIN Node.inits :
                      c - (a + Node.inits[s].off) + 1 \in DOMAIN Node.inits[s].cells}
       IN  IF into = {} THEN m[c]
           ELSE Node.inits[Max(into)].cells[c - (a + Node.inits[Max(into)].off) + 1]]

Zeroed(m) == [c \in DOMAIN m |->
                IF \E d \in DOMAIN nodes :
                     /\ program[d].global /\ nodes[d].inits # << >>
                     /\ c \in place[d] .. place[d] + nodes[d].size - 1
                THEN ZERO ELSE m[c]]

EmitToplevel == /\ phase = "emit"
                /\ place' = Append(place, IF Decl.global THEN initmem ELSE NONE)
                /\ initmem' = IF Decl.global THEN initmem + Node.size ELSE initmem
                /\ Onward("zero")
                /\ UNCHANGED <<nodes, parser, stackn, mem>>

ZeroGlobals == /\ phase = "zero"
               /\ mem' = Zeroed(mem)
               /\ phase' = "values"
               /\ UNCHANGED <<program, n, nodes, parser, place, initmem, stackn>>

StoreGlobal == /\ phase = "values"
               /\ mem' = IF Decl.global THEN StoreAll(mem, place[n]) ELSE mem
               /\ Onward("main")
               /\ UNCHANGED <<nodes, parser, place, initmem, stackn>>

DeclareLocal ==
    /\ phase = "main" /\ ~ Decl.global
    /\ LET a == initmem + StackGap + stackn
       IN  /\ place' = [place EXCEPT ![n] = a]
           /\ mem' = StoreAll(mem, a)
    /\ stackn' = stackn + Node.size
    /\ Onward("end")
    /\ UNCHANGED <<nodes, parser, initmem>>

PassGlobal == /\ phase = "main" /\ Decl.global
              /\ Onward("end")
              /\ UNCHANGED <<nodes, parser, emitter>>

-----------------------------------------------------------------------------
ReadList == \/ CloseList \/ LeaveList \/ DesignateField \/ NextField
            \/ DesignateIndex \/ NextElem \/ FullList \/ AfterElem

Next == \/ BeginDecl \/ ReadList \/ ScalarElem \/ ScalarEnd \/ SkipElem
        \/ SkipEnd \/ EndDecl \/ EmitToplevel \/ ZeroGlobals \/ StoreGlobal
        \/ DeclareLocal \/ PassGlobal

Spec     == Init /\ [][Next]_vars
FairSpec == Spec /\ WF_vars(Next)
-----------------------------------------------------------------------------
TypeOK ==
    /\ phase \in {"decl", "init", "emit", "zero", "values", "main", "end", "error"}
    /\ n \in DOMAIN program /\ pos \in 1 .. Len(Decl.toks) + 1
    /\ \A d \in DOMAIN open :
         LET f == open[d]
         IN  /\ f.what \in {"list", "scalar", "skip"}
             /\ f.what = "list" => IsAggregate(f.type)
             /\ f.off \in Nat /\ f.brace \in BOOLEAN /\ f.designated \in BOOLEAN
             /\ f.i \in Nat
             /\ f.what = "list" /\ f.type.kind = "rec" => f.i <= Len(f.type.keys)
             /\ d < Len(open) => f.called
    /\ \A s \in DOMAIN inits : inits[s].off \in Nat
    /\ size \in Nat \cup {-1}

\* The type of each variable is laid out as parse.c says it is.
WellLaidOut == phase = "decl" => LaidOut(TypeOf(n))
=============================================================================
