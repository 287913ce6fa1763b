------------------------------ MODULE ExprRef -------------------------------
(***************************************************************************)
(* What an expression means in C.  A program is given as a tree of C's         *)
(* abstract syntax, [op, kids, v], v the token of a leaf, a member or a type;   *)
(* its tokens are its text with the fewest parentheses.  Objects have no          *)
(* addresses here: a place is a path, a variable followed by members and       *)
(* indices, and a pointer is a path.                                           *)
(***************************************************************************)
EXTENDS Expr

CONSTANTS Store0,        \* the values of the variables' scalars, by path
          Strings        \* the string literals, by the name of their array

Tree(op, kids, v) == [op |-> op, kids |-> kids, v |-> v]

-----------------------------------------------------------------------------
(* The text of a tree *)
Precedence(op) ==
    CASE op = "," -> 0
      [] op = "=" \/ op \in DOMAIN CompoundAssignOp -> 1
      [] op = "cond" -> 2
      [] op \in {"neg", "!", "~", "plus", "*p", "&p", "++x", "--x", "cast", "sizeof"} -> 13
      [] op \in {"x++", "x--", "[]", ".", "->", "call"} -> 14
      [] op \in {"num", "str", "var", "type"} -> 15
      [] OTHER -> 13 - (CHOOSE l \in DOMAIN Levels : op \in Levels[l])

Prefix == ("neg" :> "-") @@ ("!" :> "!") @@ ("~" :> "~") @@ ("plus" :> "+")
    @@ ("*p" :> "*") @@ ("&p" :> "&") @@ ("++x" :> "++") @@ ("--x" :> "--")
    @@ ("sizeof" :> "sizeof")
Postfix == ("x++" :> "++") @@ ("x--" :> "--")

Kw(s) == << <<"kw", s>> >>
RECURSIVE Text(_, _)
Text(t, least) ==
    LET p == Precedence(t.op)
        kid(j, q) == Text(t.kids[j], q)
        args == FlattenSeq([j \in 1 .. Len(t.kids) - 1 |->
                              (IF j = 1 THEN << >> ELSE Kw(",")) \o kid(j + 1, 1)])
        text == CASE t.op \in {"num", "var"} -> <<t.v>>
                  [] t.op = "str" -> << <<"str", Strings[t.v[2]]>> >>
                  [] t.op = "type" -> Kw("(") \o <<t.v>> \o Kw(")")
                  [] t.op \in DOMAIN Prefix -> Kw(Prefix[t.op]) \o kid(1, 13)
                  [] t.op \in DOMAIN Postfix -> kid(1, 14) \o Kw(Postfix[t.op])
                  [] t.op = "cast" -> Kw("(") \o <<t.v>> \o Kw(")") \o kid(1, 13)
                  [] t.op = "[]" -> kid(1, 14) \o Kw("[") \o kid(2, 0) \o Kw("]")
                  [] t.op \in {".", "->"} -> kid(1, 14) \o Kw(t.op) \o <<t.v>>
                  [] t.op = "call" -> kid(1, 14) \o Kw("(") \o args \o Kw(")")
                  [] t.op = "cond" -> kid(1, 3) \o Kw("?") \o kid(2, 0) \o Kw(":")
                                      \o kid(3, 2)
                  [] p = 1 -> kid(1, 13) \o Kw(t.op) \o kid(2, 1)
                  [] OTHER -> kid(1, p) \o Kw(t.op) \o kid(2, p + 1)
    IN  IF p < least THEN Kw("(") \o text \o Kw(")") ELSE text

\* bad: the program violates a constraint of C
Program(t) == [tree |-> t, toks |-> Text(t, 0), bad |-> FALSE]
Bad(t)     == [Program(t) EXCEPT !.bad = TRUE]

-----------------------------------------------------------------------------
(* Objects *)
RECURSIVE TypeAt(_, _), Offset(_, _)
TypeAt(t, path) == CASE path = << >> -> t
                     [] path # << >> /\ t.kind = "array" -> TypeAt(t.of, Tail(path))
                     [] OTHER -> TypeAt(t.fields[Head(path)].type, Tail(path))
Offset(t, path) ==
    CASE path = << >> -> 0
      [] path # << >> /\ t.kind = "array" -> Head(path) * t.of.size + Offset(t.of, Tail(path))
      [] OTHER -> t.fields[Head(path)].off + Offset(t.fields[Head(path)].type, Tail(path))

Declared(path) == TypeAt(Env[Head(path)].ty, Tail(path))
CellOf(x, path) == x.at + Offset(x.ty, path) + (IF x.k = "lvar" THEN Base ELSE 0)
Address(path)   == CellOf(Env[Head(path)], Tail(path))

\* A value: an integer or a double (in units), a pointer, a function or a struct.
Val(t, n, p) == [t |-> t, n |-> n, p |-> p]
IntVal(n)    == Val("int", Unit * n, << >>)
Pointer(p)   == Val("ptr", 0, p)
Struct(vals, keys) == Val("rec", vals, keys)

RECURSIVE Encode(_)
Encode(v) == CASE v.t \in {"int", "double"} -> <<v.n>>
               [] v.t = "ptr" -> <<Unit * Address(v.p)>>
               [] v.t = "func" -> <<Unit * Function[v.p]>>
               [] v.t = "rec" -> FlattenSeq([j \in DOMAIN v.n |-> Encode(v.n[j])])

Converted(ty, v) == CASE IsFlo(ty) -> [v EXCEPT !.t = "double"]
                      [] IsInt(ty) -> [v EXCEPT !.t = "int"]
                      [] OTHER -> v

Value(path, s) ==
    LET ty == Declared(path)
    IN  CASE ty.kind = "array" -> Pointer(Append(path, 0))
          [] ty.kind = "rec" -> Struct([j \in DOMAIN ty.keys |->
                                          s.mem[Append(path, ty.keys[j])]], ty.keys)
          [] OTHER -> s.mem[path]

Update(path, v, s) ==
    LET ty == Declared(path)
    IN  IF ty.kind = "rec"
        THEN [s EXCEPT !.mem = [q \in DOMAIN @ |->
                IF \E j \in DOMAIN ty.keys : q = Append(path, ty.keys[j])
                THEN v.n[CHOOSE j \in DOMAIN ty.keys : q = Append(path, ty.keys[j])]
                ELSE @[q]]]
        ELSE [s EXCEPT !.mem[path] = Converted(ty, v)]

Shifted(p, n) == Append(Front(p), Last(p) + n)
IsTrue(v) == v.t \in {"ptr", "func"} \/ v.n # 0

Operate(op, a, b) ==
    LET types == {a.t, b.t}
        d == "double" \in types
    IN  CASE a.t = "ptr" /\ b.t = "int" ->
               Pointer(Shifted(a.p, (IF op = "+" THEN 1 ELSE -1) * (b.n \div Unit)))
          [] a.t = "int" /\ b.t = "ptr" -> Pointer(Shifted(b.p, a.n \div Unit))
          [] a.t = "ptr" /\ b.t = "ptr" /\ op \in {"==", "!="} ->
               IntVal(Bool((a.p = b.p) = (op = "==")))
          [] types = {"ptr"} /\ op \notin {"==", "!="} ->
               IntVal(Arith(op, Last(a.p), Last(b.p)))
          [] "ptr" \notin types /\ op \in {"+", "-"} ->
               Val(IF d THEN "double" ELSE "int", Arith(op, a.n, b.n), << >>)
          [] "ptr" \notin types /\ op = "*" ->
               Val(IF d THEN "double" ELSE "int", (a.n * b.n) \div Unit, << >>)
          [] d /\ op = "/" -> Val("double", Quotient(a.n * Unit, b.n), << >>)
          [] "ptr" \notin types /\ op \in Comparisons -> IntVal(Arith(op, a.n, b.n))
          [] OTHER -> IntVal(Arith(op, a.n \div Unit, b.n \div Unit))

-----------------------------------------------------------------------------
(* Evaluation: a value and the store after it *)
With(v, s) == [v |-> v, s |-> s]
After(r, F(_, _)) == F(r.v, r.s)
IsFunction(t) == /\ t.op = "var"
                 /\ t.v[2] \in DOMAIN Env => Env[t.v[2]].k = "funcdesg"
IsPlace(t) == t.op \in {"var", "*p", "[]", "->"}

RECURSIVE Size(_)
Size(t) == CASE t.op = "type" -> t.v[2].size
             [] t.op = "var" -> SizeofType(Env[t.v[2]].ty)
             [] OTHER -> 1

\* An object's value, a pointer to it in o; and the same when v has been stored there.
Loaded(o) == With(Value(o.v.p, o.s), o.s)
Stored(path, v, s) == Loaded(With(Pointer(path), Update(path, v, s)))

RECURSIVE Eval(_, _)
\* the path of a place, in v.p
PlaceOf(t, s) ==
    CASE t.op = "var" -> With(Pointer(<<t.v[2]>>), s)
      [] t.op = "*p" -> Eval(t.kids[1], s)
      [] t.op = "[]" -> After(Eval(t.kids[1], s), LAMBDA a, s1 :
                            After(Eval(t.kids[2], s1), LAMBDA b, s2 :
                                With(Operate("+", a, b), s2)))
      [] t.op = "->" -> After(Eval(t.kids[1], s), LAMBDA a, s1 :
                            With(Pointer(Append(a.p, t.v[2])), s1))

RECURSIVE Object(_, _)
Object(t, s) == IF t.op # "." THEN PlaceOf(t, s)
                ELSE After(Object(t.kids[1], s), LAMBDA a, s1 :
                         With(Pointer(Append(a.p, t.v[2])), s1))
RECURSIVE IsObject(_)
IsObject(t) == IsPlace(t) \/ (t.op = "." /\ IsObject(t.kids[1]))

\* The place gets its old value operated on with b; old answers the old value.
ModifyAt(path, op, was, b, old, s) ==
    LET new == Stored(path, Operate(op, was, b), s)
    IN  IF old THEN With(was, new.s) ELSE new
Modify(t, op, b, old, s) ==
    After(Object(t, s), LAMBDA a, s1 : ModifyAt(a.p, op, Value(a.p, s1), b, old, s1))

Returned(ty, res) ==
    IF ty.kind = "rec" THEN Struct([j \in DOMAIN res |-> Val("int", res[j], << >>)], ty.keys)
    ELSE Val("int", res[1], << >>)
Called(f, args, s) ==
    IF f = "putchar" THEN With(IntVal(0), [s EXCEPT !.out = @ \o args])
    ELSE With(Returned(IF f \in DOMAIN Env THEN Env[f].ty.ret ELSE TInt, Result(f, args)), s)
CallOf(t, s) ==
    After(Eval(t.kids[1], s), LAMBDA f, s1 :
        After(FoldLeft(LAMBDA r, k : After(Eval(k, r.s), LAMBDA e, s2 : With(r.v \o Encode(e), s2)),
                       With(<< >>, s1), Tail(t.kids)),
              LAMBDA args, s3 : Called(f.p, args, s3)))

UnaryValue(op, a) == CASE op = "neg" -> Operate("-", IntVal(0), a)
                       [] op = "~" -> Operate("-", IntVal(-1), a)
                       [] op = "!" -> IntVal(Bool(~ IsTrue(a)))
                       [] op = "plus" -> a

Eval(t, s) ==
    CASE t.op = "num" -> With(IntVal(t.v[2]), s)
      [] t.op = "str" -> With(Pointer(<<t.v[2], 0>>), s)
      [] t.op = "var" /\ ~ IsFunction(t) -> With(Value(<<t.v[2]>>, s), s)
      [] IsFunction(t) -> With(Val("func", 0, t.v[2]), s)
      [] t.op \in {"neg", "~", "!", "plus"} ->
           After(Eval(t.kids[1], s), LAMBDA a, s1 : With(UnaryValue(t.op, a), s1))
      [] t.op = "&p" -> IF IsObject(t.kids[1]) /\ ~ IsFunction(t.kids[1])
                        THEN Object(t.kids[1], s) ELSE Eval(t.kids[1], s)
      [] t.op = "*p" -> After(Eval(t.kids[1], s), LAMBDA a, s1 :
                            With(IF a.t = "func" THEN a ELSE Value(a.p, s1), s1))
      [] t.op \in {"[]", "->", "."} /\ IsObject(t) -> Loaded(Object(t, s))
      [] t.op = "." /\ ~ IsObject(t) -> After(Eval(t.kids[1], s), LAMBDA a, s1 :
           With(a.n[CHOOSE j \in DOMAIN a.p : a.p[j] = t.v[2]], s1))
      [] t.op \in {"x++", "++x"} -> Modify(t.kids[1], "+", IntVal(1), t.op = "x++", s)
      [] t.op \in {"x--", "--x"} -> Modify(t.kids[1], "-", IntVal(1), t.op = "x--", s)
      [] t.op = "=" -> After(Eval(t.kids[2], s), LAMBDA r, s1 :
                           After(Object(t.kids[1], s1), LAMBDA o, s2 : Stored(o.p, r, s2)))
      [] t.op \in DOMAIN CompoundAssignOp -> After(Eval(t.kids[2], s), LAMBDA r, s1 :
           Modify(t.kids[1], CompoundAssignOp[t.op], r, FALSE, s1))
      [] t.op = "cast" -> After(Eval(t.kids[1], s), LAMBDA a, s1 : With(Converted(t.v[2], a), s1))
      [] t.op = "sizeof" -> With(IntVal(Size(t.kids[1])), s)
      [] t.op = "call" -> CallOf(t, s)
      [] t.op = "cond" -> After(Eval(t.kids[1], s), LAMBDA a, s1 :
                              Eval(t.kids[IF IsTrue(a) THEN 2 ELSE 3], s1))
      [] t.op \in {"&&", "||"} -> After(Eval(t.kids[1], s), LAMBDA a, s1 :
           IF IsTrue(a) = (t.op = "||") THEN With(IntVal(Bool(IsTrue(a))), s1)
           ELSE After(Eval(t.kids[2], s1), LAMBDA b, s2 : With(IntVal(Bool(IsTrue(b))), s2)))
      [] OTHER -> After(Eval(t.kids[1], s), LAMBDA a, s1 : After(Eval(t.kids[2], s1), LAMBDA b, s2 :
           With(IF t.op = "," THEN b ELSE Operate(t.op, a, b), s2)))

Meaning == Eval(program.tree, [mem |-> Store0, out |-> << >>])

-----------------------------------------------------------------------------
(* Properties *)
Writers == {"int", "reg", "addr", "get", "call", "dcall"} \cup
           {Opcode[op] : op \in DOMAIN Opcode}
\* Types; and the code writes r0 and the registers the generator has allocated, so
\* never r1 and r2, the memory and the frame.
TypeOK == /\ phase \in {"source", "parsed", "rejected", "crashed", "running", "done"}
          /\ pc \in 1 .. Len(gen.code) + 1
          /\ \A k \in DOMAIN gen.code : gen.code[k][1] \in Writers =>
                                         gen.code[k][2] \in {0} \cup 3 .. gen.nregs - 1
          /\ \A r \in DOMAIN regs : regs[r] \in Int
          /\ \A c \in DOMAIN mem : mem[c] \in Int

Means(res, s) == /\ \A j \in DOMAIN res : regs[gen.reg + j - 1] = res[j]
                 /\ \A p \in DOMAIN s.mem :
                      Head(p) \notin DOMAIN Strings => mem[Address(p)] = Encode(s.mem[p])[1]
                 /\ output = s.out

\* When the code has run, its registers hold the value the expression has in C,
\* every variable the value it is given, and the calls of putchar came in their
\* order: precedence and grouping (parse.c:1223-1342), the conversions and scaled
\* pointers (parse.c:592-627, gen.c:165-199), short circuits and branches, and
\* registers that are live across nested operands and calls.
Computes == phase = "done" => After(Meaning, LAMBDA v, s : Means(Encode(v), s))

\* A constant expression folded by the parser (eval_intexpr: array lengths, case
\* labels, enumerators, #if) is what the generated code computes.
RECURSIVE IsConstant(_)
IsConstant(n) == IF n.k = "lit" THEN n.ty.kind # "array"
                 ELSE /\ n.k \notin {"lvar", "gvar", "funcdesg", "funcall", "funcptr"}
                      /\ \A j \in DOMAIN n.kids : IsConstant(n.kids[j])

FoldsAsItRuns == phase = "done" /\ IsConstant(node) /\ EvalIntexpr(node) # NONE =>
                     Unit * EvalIntexpr(node) = regs[gen.reg]

\* The machine's frame cell is the function's own again when the expression is done,
\* however its calls nest (emit_pre_call, emit_post_call).
FrameRestored == phase = "done" => mem[1] = Unit * Base

\* No code is made of a program that violates C's constraints on lvalues, pointers,
\* arguments and members, and the parser refuses no other.  It refuses those too but
\* for a subscript of two integers (parse.c:1085), on which the generator crashes.
Refuses == /\ phase = "rejected" => program.bad
           /\ phase = "parsed" => program.bad = Untyped
           /\ phase \in {"running", "done"} => ~ program.bad
=============================================================================
