--------------------------- MODULE InitializerRef ---------------------------
(***************************************************************************)
(* What the initializers of C mean (C11 6.7.9), by recursion on their source *)
(* tree.  An initializer is an expression, a string or a list of items; an   *)
(* item has designators and an initializer.  Each list has a current         *)
(* subobject, a path of steps down from the object the list is for; an        *)
(* expression goes to the first scalar of the current subobject, a list in    *)
(* braces to the subobject itself, and the next subobject follows it.         *)
(*                                                                          *)
(* `sure' is FALSE where C leaves the initializer undefined, and where the   *)
(* compiler is known not to follow C; README.md lists those cases.            *)
(***************************************************************************)
EXTENDS Initializer

END == << [end |-> TRUE] >>       \* after the last subobject

\* The steps down from an object: a member, an element, or into the anonymous
\* struct that is the k-th declared member.
Step(f, k)  == IF IsAnonymous(f) THEN [anon |-> k] ELSE [member |-> f.name]
Steps(t)    == LET decls == t.decls
                   named == SelectSeq([k \in DOMAIN decls |-> k],
                              LAMBDA k : decls[k].name # NONE \/ IsAnonymous(decls[k]))
               IN  [k \in DOMAIN named |-> Step(decls[named[k]], named[k])]
FirstStep(t) == IF t.kind = "array" THEN [element |-> 0] ELSE Steps(t)[1]

Has(s, kind) == kind \in DOMAIN s

\* An object is a type and the cell it starts at.  The members of an anonymous
\* struct are found by name in the struct around it.
Object(t, off) == [type |-> t, off |-> off]

Under(o, s) ==
    CASE Has(s, "element") ->
           Object(o.type.of, o.off + o.type.of.size * s.element)
      [] Has(s, "member") ->
           Object(o.type.fields[s.member].type, o.off + o.type.fields[s.member].off)
      [] Has(s, "anon") ->
           Object([o.type.decls[s.anon].type EXCEPT !.fields = o.type.fields], o.off)

RECURSIVE Subobject(_, _)
Subobject(o, path) == IF path = << >> THEN o
                      ELSE Under(Subobject(o, Front(path)), Last(path))
TypeAt(o, path)    == Subobject(o, path).type

RECURSIVE Descend(_, _, _), NextPath(_, _)

\* The first subobject down the path that is not of an aggregate; strings stop
\* at arrays of characters.
Descend(o, path, string) ==
    LET t == TypeAt(o, path)
    IN  IF ~ IsAggregate(t) \/ (string /\ IsString(t)) THEN path
        ELSE Descend(o, Append(path, FirstStep(t)), string)

NextPath(o, path) ==
    IF path = << >> THEN END
    ELSE LET parent == TypeAt(o, Front(path))
             s      == Last(path)
             after  == IF parent.kind = "array"
                       THEN IF parent.len = -1 \/ s.element + 1 < parent.len
                            THEN {[element |-> s.element + 1]} ELSE {}
                       ELSE IF ~ parent.struct THEN {}
                       ELSE {Steps(parent)[k + 1] :
                               k \in {k \in 1 .. Len(Steps(parent)) - 1 :
                                        Steps(parent)[k] = s}}
         IN  IF after = {} THEN NextPath(o, Front(path))
             ELSE Append(Front(path), CHOOSE a \in after : TRUE)

-----------------------------------------------------------------------------
\* The path of a list of designators, with the anonymous structs it goes
\* through; END if there is none.
RECURSIVE Designated(_, _, _)
Designated(o, path, des) ==
    IF des = << >> THEN path
    ELSE LET t == TypeAt(o, path)
             d == Head(des)
             through == IF t.kind # "rec" \/ d.k # "." THEN {}
                        ELSE {k \in DOMAIN t.decls : Declares(t.decls[k], d.name)}
         IN  CASE d.k = "[" ->
                    IF t.kind = "array" /\ (t.len = -1 \/ d.index < t.len)
                    THEN Designated(o, Append(path, [element |-> d.index]), Tail(des))
                    ELSE END
               [] d.k = "." ->
                    IF through = {} THEN END
                    ELSE LET k == CHOOSE k \in through : TRUE
                             s == Step(t.decls[k], k)
                         IN  Designated(o, Append(path, s),
                                        IF Has(s, "anon") THEN des ELSE Tail(des))

-----------------------------------------------------------------------------
\* What is known of the variable: the cells given a value so far, the number of
\* expressions, and whether all this is sure.
Unset == [cells |-> [c \in {} |-> ZERO], nexpr |-> 0, sure |-> TRUE]

Touched(o, s) == \E c \in DOMAIN s.cells : c \in o.off .. o.off + o.type.size - 1
Unsure(s)     == [s EXCEPT !.sure = FALSE]
SureIf(c, s)  == IF c THEN s ELSE Unsure(s)
CountExpr(s)  == [s EXCEPT !.nexpr = @ + 1]
SetCell(s, c, v) == [s EXCEPT !.cells = (c :> v) @@ @]

SetString(s, o, chars) ==
    LET len == IF o.type.len = -1 THEN chars + 1 ELSE o.type.len
    IN  [CountExpr(s) EXCEPT
           !.cells = [c \in o.off .. o.off + len - 1 |->
                        IF c - o.off < chars THEN <<s.nexpr + 1, c - o.off>> ELSE ZERO] @@ @]

\* Is a member of a union designated whose cells already have a value?
Switches(o, path, s) ==
    \E k \in 0 .. Len(path) - 1 :
       LET u == Subobject(o, SubSeq(path, 1, k))
       IN  u.type.kind = "rec" /\ ~ u.type.struct /\ Touched(u, s)

\* Does a designator follow an excessive item, or an index the last element of
\* a list for an array?
Returns(o, prev, des) ==
    /\ des # << >> /\ prev # << >>
    /\ \/ prev = END
       \/ o.type.kind = "array" /\ Head(prev).element = o.type.len - 1

RECURSIVE Give(_, _, _, _), Items(_, _, _, _, _, _)

\* The subobject at the path gets an initializer.
Give(o, path, init, s) ==
    LET q == Subobject(o, path)
    IN  CASE init.k = "expr" ->
               SetCell(CountExpr(s), Subobject(o, Descend(o, path, FALSE)).off,
                       <<s.nexpr + 1, 0>>)
          [] init.k = "string" ->
               LET a == Subobject(o, Descend(o, path, TRUE))
               IN  IF IsString(a.type)
                   THEN SureIf(init.len <= a.type.len \/ a.type.len = -1,
                               SetString(s, a, init.len))
                   ELSE Unsure(s)
          [] init.k = "list" ->
               LET anon == path # << >> /\ Has(Last(path), "anon")
                   t    == SureIf(~ anon /\ ~ Touched(q, s), s)
                   only == Head(init.items)
               IN  IF IsAggregate(q.type)
                      /\ ~ (IsString(q.type) /\ only.init.k = "string")
                   THEN Items(q, init.items, 1, << >>, << FirstStep(q.type) >>, t)
                   ELSE Give(o, path, only.init,
                             SureIf(/\ Len(init.items) = 1 /\ only.des = << >>
                                    /\ ~ init.trailing, t))

\* The items of a list from the k-th on; prev is where the last one went, cur
\* the current subobject.  An expression beyond the object is passed over.
Items(o, items, k, prev, cur, s) ==
    IF k > Len(items)
    THEN SureIf(o.type.kind # "array" \/ o.type.len # -1
                \/ \A c \in DOMAIN s.cells :
                      c - o.off < o.type.of.size * (Head(prev).element + 1), s)
    ELSE LET it   == items[k]
             path == IF it.des = << >> THEN cur ELSE Designated(o, << >>, it.des)
             went == CASE it.init.k = "list" -> path
                       [] it.init.k # "list" ->
                            Descend(o, path, it.init.k = "string")
             sure == /\ ~ Returns(o, prev, it.des)
                     /\ it.des # << >> => ~ Switches(o, path, s)
         IN  IF path = END
             THEN IF it.des = << >> /\ it.init.k = "expr"
                  THEN Items(o, items, k + 1, END, END, CountExpr(s))
                  ELSE Unsure(s)
             ELSE Items(o, items, k + 1, went, NextPath(o, went),
                        Give(o, path, it.init, SureIf(sure, s)))

\* The initializer of a variable; a struct may be copied from an expression, and
\* a scalar stands in braces as if it were an array of one.
Meaning(d) ==
    LET t     == d.ty
        whole == IF IsAggregate(t) THEN t ELSE MakeArray(t, 1)
    IN  CASE d.toks = << >> -> Unset
          [] d.toks # << >> /\ d.init.k = "list" -> Give(Object(whole, 0), << >>, d.init, Unset)
          [] d.toks # << >> /\ d.init.k = "string" ->
               IF IsString(t) THEN Give(Object(t, 0), << >>, d.init, Unset)
               ELSE Unsure(Unset)
          [] d.toks # << >> /\ d.init.k = "expr" ->
               IF t.kind = "array" THEN Unsure(Unset)
               ELSE [Unset EXCEPT !.cells = [c \in 0 .. t.size - 1 |-> <<1, c>>]]

-----------------------------------------------------------------------------
Sure == \A d \in DOMAIN program : Meaning(program[d]).sure

\* The cells of the variable, whose length the initializer may give.
Extent(d) ==
    LET cells == DOMAIN Meaning(program[d]).cells
        t     == TypeOf(d)
    IN  IF t.size # -1 THEN t.size
        ELSE CHOOSE e \in {t.of.size * k : k \in 1 .. MaxElems} :
               /\ \A c \in cells : c < e
               /\ \E c \in cells : c >= e - t.of.size

\* After the declarations of main, each variable has its own cells, globals below
\* the stack, and each cell an initializer speaks of has the value C gives it;
\* the others of an initialized global are zero.  Nothing C allows is refused.
\* (read_decl_init and what it calls, emit_toplevel, the prologue, AST_DECL)
Initialized ==
    /\ phase = "end" /\ Sure =>
         \A d \in DOMAIN program :
           LET cells == Meaning(program[d]).cells
               e     == Extent(d)
           IN  /\ nodes[d].size = e
               /\ program[d].global => place[d] + e <= initmem + StackGap
               /\ initmem + StackGap + stackn <= MaxCells
               /\ \A b \in 1 .. d - 1 :
                     \/ place[d] + e <= place[b]
                     \/ place[b] + nodes[b].size <= place[d]
               /\ \A c \in 0 .. e - 1 :
                    IF c \in DOMAIN cells THEN mem[place[d] + c] = cells[c]
                    ELSE program[d].global /\ program[d].toks # << >> =>
                           mem[place[d] + c] = ZERO
    /\ phase = "error" => ~ Sure

\* Every declaration is read to its end or refused: no list goes on for ever
\* without taking a token, whatever designators it meets.
Ends == <> (phase \in {"end", "error"})
=============================================================================
