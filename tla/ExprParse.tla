----------------------------- MODULE ExprParse ------------------------------
(***************************************************************************)
(* The expressions of parse.c: tokens to a typed tree, and the folding of    *)
(* constant ones.  A node is [k, ty, kids, v]: its kind, type, operands and   *)
(* payload (a value, a name, a member).  Each reader returns the node and the *)
(* index of the next token; a token is <<"kw", s>>, <<"id", x>>, <<"num", v>>, *)
(* <<"str", s>> or <<"type", T>>, the last for a whole type name.             *)
(***************************************************************************)
EXTENDS Layout, Bitwise

CONSTANTS Env,             \* env(): what a name stands for: [k, ty, at]
          SameBytes(_, _)  \* whether two strings begin with the same four bytes

VARIABLE toks

NumType(kind, usig) == [kind |-> kind, usig |-> usig, size |-> 1, align |-> 1]
MakePtr(t)          == [kind |-> "ptr", of |-> t, size |-> 1, align |-> 1]
MakeFunc(ret, params) == [kind |-> "func", ret |-> ret, params |-> params,
                          size |-> 0, align |-> 0]
TInt == NumType("int", FALSE)
TLong == NumType("long", FALSE)
TULong == NumType("long", TRUE)
TChar == NumType("char", FALSE)
TDouble == NumType("double", FALSE)

\* the order of the KIND_ enumeration, by which conversions rank types
Kinds    == <<"bool", "char", "short", "int", "long", "llong",
              "float", "double", "ldouble">>
Rank(t)  == CHOOSE r \in DOMAIN Kinds : Kinds[r] = t.kind
IsInt(t) == t.kind \in {"bool", "char", "short", "int", "long", "llong"}
IsFlo(t) == t.kind \in {"float", "double", "ldouble"}
IsArith(t) == IsInt(t) \/ IsFlo(t)
IsPtr(t) == t.kind = "ptr"

Node(k, ty, kids, v)   == [k |-> k, ty |-> ty, kids |-> kids, v |-> v]
Leaf(k, ty, v)         == Node(k, ty, << >>, v)
Unary(k, ty, e)        == Node(k, ty, <<e>>, NONE)
Binary(ty, k, l, r)    == Node(k, ty, <<l, r>>, NONE)

\* error(), or an assertion that fails: the compiler stops.  Here the node stays in
\* the tree.
Error == Leaf("error", TInt, NONE)
Ensure(ok, n) == IF ok THEN n ELSE Error
RECURSIVE Rejected(_)
Rejected(n) == n.k = "error" \/ \E j \in DOMAIN n.kids : Rejected(n.kids[j])

\* mutant: any conversion of a value counts as an lvalue
IsLvalueAny(n) == n.k \in {"lvar", "gvar", "deref", "member", "conv", "cast"}

RECURSIVE IsLvalue(_)
IsLvalue(n) == \/ n.k \in {"lvar", "gvar", "deref", "member"}
               \/ n.k \in {"conv", "cast"} /\ IsLvalue(n.kids[1])

-----------------------------------------------------------------------------
(* Type conversion *)
Conv(n) == CASE n.ty.kind = "array" -> Unary("conv", MakePtr(n.ty.of), n)
             [] n.ty.kind = "func"  -> Unary("addr", MakePtr(n.ty), n)
             [] n.ty.kind \in {"short", "char", "bool"} -> Unary("conv", TInt, n)
             [] OTHER -> n

SameArithType(t, u) == t.kind = u.kind /\ t.usig = u.usig
Wrap(t, n) == IF SameArithType(t, n.ty) THEN n ELSE Unary("conv", t, n)

UsualArithConv(t, u) ==
    LET hi == IF Rank(t) < Rank(u) THEN u ELSE t
        lo == IF Rank(t) < Rank(u) THEN t ELSE u
    IN  IF IsFlo(hi) \/ hi.size > lo.size \/ hi.usig = lo.usig THEN hi
        ELSE [hi EXCEPT !.usig = TRUE]

ValidPointerBinop == {"-", "<", ">", "==", "!=", "<=", ">="}

\* A pointer is brought to the left of any operator.  That other operands are
\* arithmetic is asserted.
Binop(op, l, r) ==
    CASE IsPtr(l.ty) /\ IsPtr(r.ty) ->
           Ensure(op \in ValidPointerBinop,
                  Binary(IF op = "-" THEN TLong ELSE TInt, op, l, r))
      [] IsPtr(l.ty) /\ ~ IsPtr(r.ty) -> Binary(l.ty, op, l, r)
      [] ~ IsPtr(l.ty) /\ IsPtr(r.ty) -> Binary(r.ty, op, r, l)
      [] OTHER -> IF IsArith(l.ty) /\ IsArith(r.ty)
                  THEN LET t == UsualArithConv(l.ty, r.ty)
                       IN  Binary(t, op, Wrap(t, l), Wrap(t, r))
                  ELSE Error

\* is_same_struct is also handed the names of the members as if they were types: it
\* reads four bytes of each for the kind, past the end of a short one.
RECURSIVE SameStruct(_, _)
SameStruct(a, b) ==
    /\ a.kind = b.kind
    /\ a.kind = "array" => a.len = b.len /\ SameStruct(a.of, b.of)
    /\ a.kind = "ptr" => SameStruct(a.of, b.of)
    /\ a.kind = "rec" => /\ a.struct = b.struct /\ Len(a.keys) = Len(b.keys)
                         /\ \A j \in DOMAIN a.keys : SameBytes(a.keys[j], b.keys[j])

Assignable(to, from) ==
    \/ (IsArith(to) \/ IsPtr(to)) /\ (IsArith(from) \/ IsPtr(from))
    \/ SameStruct(to, from)

-----------------------------------------------------------------------------
(* Integer constant expressions *)
Bool(p)      == IF p THEN 1 ELSE 0
Abs(n)       == IF n < 0 THEN - n ELSE n
Quotient(a, b) == LET q == Abs(a) \div Abs(b)
                  IN  IF (a < 0) = (b < 0) THEN q ELSE - q
Remainder(a, b) == a - b * Quotient(a, b)

\* int in two's complement; the bounds of the programs keep values in 8 bits
Width      == 8
Pattern(n) == n % 2 ^ Width
Signed(n)  == IF n >= 2 ^ (Width - 1) THEN n - 2 ^ Width ELSE n

\* The integer operators of C on values that do not overflow.
Arith(op, a, b) ==
    CASE op = "+" -> a + b
      [] op = "-" -> a - b
      [] op = "*" -> a * b
      [] op = "/" -> Quotient(a, b)
      [] op = "%" -> Remainder(a, b)
      [] op = "<<" -> a * 2 ^ b
      [] op = ">>" -> a \div 2 ^ b
      [] op = "&" -> Signed(Pattern(a) & Pattern(b))
      [] op = "|" -> Signed(Pattern(a) | Pattern(b))
      [] op = "^" -> Signed(Pattern(a) ^^ Pattern(b))
      [] op = "<" -> Bool(a < b)
      [] op = ">" -> Bool(a > b)
      [] op = "<=" -> Bool(a <= b)
      [] op = ">=" -> Bool(a >= b)
      [] op = "==" -> Bool(a = b)
      [] op = "!=" -> Bool(a # b)

ArithOps == {"+", "-", "*", "/", "%", "<<", ">>", "&", "|", "^",
             "<", ">", "<=", ">=", "==", "!="}

\* eval_intexpr; NONE where it stops with an error.  ',' , '>' and '>=' have no
\* case; the last two never reach it.
RECURSIVE EvalIntexpr(_)
EvalIntexpr(n) ==
    LET val(j) == EvalIntexpr(n.kids[j])
    IN  CASE n.k = "lit" -> IF IsInt(n.ty) THEN n.v ELSE NONE
          [] n.k \in {"cast", "conv"} -> val(1)
          [] n.k = "deref" /\ IsPtr(n.kids[1].ty) -> val(1)
          [] n.k = "!" -> LET a == val(1) IN IF a = NONE THEN a ELSE Bool(a = 0)
          [] n.k = "~" -> LET a == val(1) IN IF a = NONE THEN a ELSE - a - 1
          [] n.k = "cond" ->
               LET c == val(1)
               IN  CASE c = NONE -> NONE
                     [] c = 0 -> val(3)
                     [] OTHER -> IF n.kids[2].k = "omitted" THEN c ELSE val(2)
          [] n.k \in {"&&", "||"} ->
               LET a == val(1)
               IN  IF a = NONE THEN NONE
                   ELSE IF (a = 0) = (n.k = "&&") THEN Bool(n.k = "||")
                   ELSE LET b == val(2) IN IF b = NONE THEN b ELSE Bool(b # 0)
          [] n.k \in ArithOps \ {">", ">="} ->
               LET a == val(1)
                   b == val(2)
               IN  IF NONE \in {a, b} THEN NONE ELSE Arith(n.k, a, b)
          [] OTHER -> NONE

-----------------------------------------------------------------------------
(* Reading expressions *)
Is(s, i)  == i <= Len(toks) /\ toks[i] = <<"kw", s>>
IsA(kind, i) == i <= Len(toks) /\ toks[i][1] = kind
OneOf(S, i)  == IsA("kw", i) /\ toks[i][2] \in S
Read(n, i)   == [n |-> n, i |-> i]
\* what F makes of what a reader has read
Then(r, F(_, _)) == F(r.n, r.i)

\* expect()
ExpectAt(s, i, n) == Read(Ensure(Is(s, i), n), i + 1)

\* The operators of each level, loosest last.
Levels == << {"*", "/", "%"}, {"+", "-"}, {"<<", ">>"}, {"<", ">", "<=", ">="},
             {"==", "!="}, {"&"}, {"^"}, {"|"}, {"&&"}, {"||"} >>
Equality == 5
LogOr    == 10

AsInt(n) == [n EXCEPT !.ty = TInt]

Combine(op, l, r) ==
    CASE op \in {"<<", ">>"} -> Ensure(IsInt(l.ty) /\ IsInt(r.ty),
                                       Binary(l.ty, op, Conv(l), Conv(r)))
      [] op = ">"  -> AsInt(Binop("<", Conv(r), Conv(l)))
      [] op = ">=" -> AsInt(Binop("<=", Conv(r), Conv(l)))
      [] op \in {"<", "<=", "==", "!="} -> AsInt(Binop(op, Conv(l), Conv(r)))
      [] op \in {"&&", "||"} -> Binary(TInt, op, l, r)
      [] OTHER -> Binop(op, Conv(l), Conv(r))

CompoundAssignOp == ("+=" :> "+") @@ ("-=" :> "-") @@ ("*=" :> "*") @@ ("/=" :> "/")
    @@ ("%=" :> "%") @@ ("&=" :> "&") @@ ("|=" :> "|") @@ ("^=" :> "^")
    @@ ("<<=" :> "<<") @@ (">>=" :> ">>")

RECURSIVE ReadCast(_), ReadAssign(_), ReadConditional(_), ReadComma(_)

\* read_multiplicative_expr to read_logor_expr: operators of one level group from
\* the left, but == and != from the right.
RECURSIVE ReadBinary(_, _), ReadChain(_, _)
ReadBinary(level, i) ==
    CASE level = 0 -> ReadCast(i)
      [] level = Equality ->
           Then(ReadBinary(level - 1, i), LAMBDA l, j :
               IF ~ OneOf(Levels[level], j) THEN Read(l, j)
               ELSE Then(ReadBinary(level, j + 1), LAMBDA r, k :
                        Read(Combine(toks[j][2], l, r), k)))
      [] OTHER -> ReadChain(level, ReadBinary(level - 1, i))
ReadChain(level, first) ==
    Then(first, LAMBDA l, j :
        IF ~ OneOf(Levels[level], j) THEN Read(l, j)
        ELSE ReadChain(level, Then(ReadBinary(level - 1, j + 1), LAMBDA r, k :
                                  Read(Combine(toks[j][2], l, r), k))))

\* An argument for parameter k is converted to its type, one beyond them by promotion.
ParamType(params, k, a) == CASE k <= Len(params) -> params[k]
                             [] k > Len(params) /\ IsFlo(a.ty) -> TDouble
                             [] k > Len(params) /\ IsInt(a.ty) -> TInt
                             [] OTHER -> a.ty
Passed(t, a) == Ensure(Assignable(t, a.ty),
                       IF t.kind # a.ty.kind THEN Unary("conv", t, a) ELSE a)
Argument(params, k, a) == Passed(ParamType(params, k, a), a)

\* read_func_args, its next token at i; args holds the arguments before.
RECURSIVE ReadFuncArgs(_, _, _)
ReadFuncArgs(params, args, i) ==
    IF Is(")", i) THEN Read(args, i + 1)
    ELSE Then(ReadAssign(i), LAMBDA n, j :
             LET all == Append(args, Argument(params, Len(args) + 1, Conv(n)))
             IN  CASE Is(")", j) -> Read(all, j + 1)
                   [] Is(",", j) -> ReadFuncArgs(params, all, j + 1)
                   [] OTHER -> Read(<<Error>>, j))

\* read_funcall: a designator is called by its name, anything else through the
\* pointer.
ReadFuncall(fp, i) ==
    Then(ReadFuncArgs(fp.ty.of.params, << >>, i), LAMBDA args, j :
        Read(IF fp.k = "addr" /\ fp.kids[1].k = "funcdesg"
             THEN Node("funcall", fp.ty.of.ret, args, fp.kids[1].v)
             ELSE Node("funcptr", fp.ty.of.ret, <<fp>> \o args, NONE), j))

\* read_struct_field; a name the struct has not is an error
StructField(n, i) ==
    IF n.ty.kind = "rec" /\ IsA("id", i) /\ toks[i][2] \in DOMAIN n.ty.fields
    THEN Read(Node("member", n.ty.fields[toks[i][2]].type, <<n>>, toks[i][2]), i + 1)
    ELSE Read(Error, i + 1)

ReadCallOf(f, i) == IF IsPtr(f.ty) /\ f.ty.of.kind = "func"
                    THEN ReadFuncall(f, i) ELSE Read(Error, i)
\* That one operand is a pointer is not checked: of two integers the node gets what
\* t->ty->ptr is then, NULL, for its type, and to look at that is to crash.
PointedTo(t) == IF IsPtr(t) THEN t.of ELSE NONE
Subscript(sum) == Unary("deref", PointedTo(sum.ty), sum)

RECURSIVE ReadPostfixTail(_)
ReadPostfixTail(r) ==
    LET n == r.n
        i == r.i
    IN  CASE Is("(", i) -> ReadPostfixTail(ReadCallOf(Conv(n), i + 1))
          [] Is("[", i) ->
               ReadPostfixTail(Then(ReadComma(i + 1), LAMBDA sub, j :
                   ExpectAt("]", j, Subscript(Binop("+", Conv(n), Conv(sub))))))
          [] Is(".", i) -> ReadPostfixTail(StructField(n, i + 1))
          [] Is("->", i) -> IF IsPtr(n.ty)
                            THEN ReadPostfixTail(
                                   StructField(Unary("deref", n.ty.of, n), i + 1))
                            ELSE Read(Error, i + 1)
          [] OneOf({"++", "--"}, i) ->
               Read(Ensure(IsLvalue(n), Node("post", n.ty, <<n>>, toks[i][2])), i + 1)
          [] OTHER -> r

\* read_var_or_func: an undeclared function is assumed to return int
VarOrFunc(x, i) ==
    CASE x \in DOMAIN Env -> Leaf(Env[x].k, Env[x].ty, x)
      [] x \notin DOMAIN Env /\ Is("(", i) -> Leaf("funcdesg", MakeFunc(TInt, << >>), x)
      [] OTHER -> Error

ReadPrimary(i) ==
    CASE Is("(", i) -> Then(ReadComma(i + 1), LAMBDA n, j : ExpectAt(")", j, n))
      [] IsA("id", i) -> Read(VarOrFunc(toks[i][2], i + 1), i + 1)
      [] IsA("num", i) -> Read(Leaf("lit", TInt, toks[i][2]), i + 1)
      [] IsA("str", i) -> Read(Leaf("lit", MakeArray(TChar, Len(toks[i][2])),
                                    toks[i][2]), i + 1)
      [] OTHER -> Read(Leaf("omitted", TInt, NONE), i)   \* NULL

\* sizeof of void or of a function is 1
SizeofType(t) == IF t.kind \in {"void", "func"} THEN 1 ELSE t.size

UnaryMinus(e) == Ensure(IsArith(e.ty),
                        Binop("-", Conv(Leaf("lit", e.ty, 0)), Conv(e)))

Deref(e) == CASE ~ IsPtr(e.ty) -> Error
              [] IsPtr(e.ty) /\ e.ty.of.kind = "func" -> e
              [] OTHER -> Unary("deref", e.ty.of, e)

AddressOf(e) == IF e.k = "funcdesg" THEN Conv(e)
                ELSE Ensure(IsLvalue(e), Unary("addr", MakePtr(e.ty), e))

\* The operators that take a cast expression
UnaryOf(op, e) ==
    CASE op = "&" -> AddressOf(e)
      [] op = "*" -> Deref(Conv(e))
      [] op = "+" -> e
      [] op = "-" -> UnaryMinus(e)
      [] op = "~" -> Ensure(IsInt(Conv(e).ty), Unary("~", Conv(e).ty, Conv(e)))
      [] op = "!" -> Unary("!", TInt, Conv(e))
PreIncDec(op, n) == Ensure(IsLvalue(n), Node("pre", n.ty, <<n>>, op))

RECURSIVE ReadUnary(_)
ReadUnary(i) ==
    CASE Is("sizeof", i) /\ Is("(", i + 1) /\ IsA("type", i + 2) ->
           ExpectAt(")", i + 3, Leaf("lit", TULong, SizeofType(toks[i + 2][2])))
      [] Is("sizeof", i) /\ ~ (Is("(", i + 1) /\ IsA("type", i + 2)) ->
           Then(ReadUnary(i + 1), LAMBDA e, j : Read(Leaf("lit", TULong, SizeofType(e.ty)), j))
      [] OneOf({"++", "--"}, i) ->
           Then(ReadUnary(i + 1), LAMBDA e, j : Read(PreIncDec(toks[i][2], Conv(e)), j))
      [] OneOf({"&", "*", "+", "-", "~", "!"}, i) ->
           Then(ReadCast(i + 1), LAMBDA e, j : Read(UnaryOf(toks[i][2], e), j))
      [] OTHER -> ReadPostfixTail(ReadPrimary(i))

ReadCast(i) ==
    IF Is("(", i) /\ IsA("type", i + 1)
    THEN Then(ReadCast(i + 3), LAMBDA e, j :
             Read(Ensure(Is(")", i + 2), Unary("cast", toks[i + 1][2], e)), j))
    ELSE ReadUnary(i)

\* A ternary, its middle operand perhaps omitted
Ternary(cond, then, els) ==
    LET left == IF then.k = "omitted" THEN cond.ty ELSE then.ty
        r    == UsualArithConv(left, els.ty)
    IN  IF IsArith(left) /\ IsArith(els.ty)
        THEN Node("cond", r, <<cond, IF then.k = "omitted" THEN then ELSE Wrap(r, then),
                               Wrap(r, els)>>, NONE)
        ELSE Node("cond", els.ty, <<cond, then, els>>, NONE)

\* do_read_conditional_expr, after the `?'
ReadBranches(cond, i) ==
    Then(ReadComma(i), LAMBDA then, j :
        Then(ReadConditional(j + 1), LAMBDA els, k :
            Read(Ensure(Is(":", j), Ternary(cond, Conv(then), Conv(els))), k)))

ReadConditional(i) == Then(ReadBinary(LogOr, i), LAMBDA c, j :
                          IF Is("?", j) THEN ReadBranches(c, j + 1) ELSE Read(c, j))

\* a op= b becomes a = a op b, with a twice in the tree
Assign(l, right) ==
    Ensure(IsLvalue(l),
           Binary(l.ty, "=", l, IF IsArith(l.ty) /\ l.ty.kind # right.ty.kind
                                THEN Unary("conv", l.ty, right) ELSE right))

\* read_assignment_expr
ReadAssign(i) ==
    Then(ReadBinary(LogOr, i), LAMBDA l, j :
        CASE Is("?", j) -> ReadBranches(l, j + 1)
          [] Is("=", j) -> Then(ReadAssign(j + 1), LAMBDA r, k : Read(Assign(l, Conv(r)), k))
          [] OneOf(DOMAIN CompoundAssignOp, j) ->
               Then(ReadAssign(j + 1), LAMBDA r, k :
                   Read(Assign(l, Binop(CompoundAssignOp[toks[j][2]], Conv(l), Conv(r))), k))
          [] OTHER -> Read(l, j))

RECURSIVE ReadCommaTail(_)
ReadCommaTail(first) ==
    Then(first, LAMBDA l, j :
        IF ~ Is(",", j) THEN Read(l, j)
        ELSE ReadCommaTail(Then(ReadAssign(j + 1), LAMBDA r, k :
                               Read(Binary(r.ty, ",", l, r), k))))
ReadComma(i) == ReadCommaTail(ReadAssign(i))

ReadExpr == ReadComma(1)
=============================================================================
