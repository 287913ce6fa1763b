------------------------------ MODULE ExprGen -------------------------------
(***************************************************************************)
(* The code gen.c emits for an expression.  A generator takes the node and    *)
(* the output so far, g: the code, nregs, the number of labels made, the       *)
(* register of the last value, initmem and globalinit.  An instruction is a     *)
(* tuple of its name and operands; label numbers stand for the names of        *)
(* make_label.                                                                  *)
(***************************************************************************)
EXTENDS ExprParse

CONSTANT StackN      \* stackn: the cells of the function's variables

Emit(g, code) == [g EXCEPT !.code = @ \o code]
In(g, reg)    == [g EXCEPT !.reg = reg]
\* mutant: one register, whatever the size of the value
FreshOne(g, n) == [g EXCEPT !.nregs = @ + 1, !.reg = g.nregs]

\* nregs += n; the register of the result is the first
Fresh(g, n)   == [g EXCEPT !.nregs = @ + n, !.reg = g.nregs]
Labels(g, n)  == [g EXCEPT !.labels = @ + n]
Times(n, Op(_, _), g) == FoldLeft(Op, g, [j \in 1 .. n |-> j - 1])

\* emit_add_ri, emit_mul_ri
AddRI(g, reg, n) ==
    IF n = 0 THEN In(g, reg)
    ELSE Emit(Fresh(g, 1), << <<"int", g.nregs, n>>, <<"add", g.nregs, g.nregs, reg>> >>)
MulRI(g, reg, n) ==
    CASE n = 1 -> In(g, reg)
      [] n = 2 -> Emit(Fresh(g, 1), << <<"add", g.nregs, reg, reg>> >>)
      [] OTHER -> Emit(Fresh(g, 1), << <<"int", g.nregs, n>>,
                                       <<"mul", g.nregs, g.nregs, reg>> >>)

Comparisons == {"<", ">", "<=", ">=", "==", "!="}

\* a branch goes to its second label if it is taken, else to the first
Compare(op, l, r, zero, nonzero) ==
    CASE op = "==" -> <<"beq", l, r, zero, nonzero>>
      [] op = "!=" -> <<"beq", l, r, nonzero, zero>>
      [] op = "<"  -> <<"blt", l, r, zero, nonzero>>
      [] op = ">"  -> <<"blt", r, l, zero, nonzero>>
      [] op = "<=" -> <<"blt", r, l, nonzero, zero>>
      [] op = ">=" -> <<"blt", l, r, nonzero, zero>>

RECURSIVE EmitExpr(_, _)
EmitBoth(n, g) ==        \* the two operands; lhs is the first one's register
    LET l == EmitExpr(n.kids[1], g)
        r == EmitExpr(n.kids[2], l)
    IN  [lhs |-> l.reg, rhs |-> r.reg, g |-> r]

EmitBranchBool(n, zero, nonzero, g) ==
    IF n.k \in Comparisons
    THEN LET b == EmitBoth(n, g)
         IN  Emit(b.g, << Compare(n.k, b.lhs, b.rhs, zero, nonzero) >>)
    ELSE LET e == EmitExpr(n, g)
         IN  Emit(e, << <<"int", 0, 0>>, <<"beq", e.reg, 0, nonzero, zero>> >>)

-----------------------------------------------------------------------------
(* Variables, addresses and assignment *)
LoadLocal(at, size, g) ==
    LET load(h, j) == LET w == AddRI(h, 2, at + j)
                      IN  Emit(w, << <<"get", g.nregs + j, w.reg>> >>)
    IN  In(Times(size, load, Fresh(g, size)), g.nregs)

LoadGlobal(at, size, g) ==
    LET load(h, j) == Emit(h, << <<"int", 0, at + j>>, <<"get", g.nregs + j, 0>> >>)
    IN  Times(size, load, Fresh(g, size))

\* The offset of a member in its struct, and what the members are of.
RECURSIVE Stripped(_, _, _)
Stripped(n, off, through) ==
    CASE n.k = "member" ->
           Stripped(n.kids[1], off + n.kids[1].ty.fields[n.v].off, through)
      [] n.k # "member" /\ n.k \in through -> Stripped(n.kids[1], off, through)
      [] OTHER -> [n |-> n, off |-> off]

EmitAddr(op, g) ==
    LET s   == Stripped(op, 0, {"conv", "cast"})
        ret == Fresh(g, 1)
        at  == IF s.n.k \in {"lvar", "gvar"} THEN Env[s.n.v].at + s.off ELSE s.off
    IN  CASE s.n.k = "deref" ->
               LET e == EmitExpr(s.n.kids[1], ret)
               IN  In(Emit(e, << <<"int", ret.reg, at>>,
                                 <<"add", ret.reg, ret.reg, e.reg>> >>), ret.reg)
          [] s.n.k = "lvar" -> Emit(ret, << <<"int", ret.reg, at>>,
                                            <<"add", ret.reg, ret.reg, 2>> >>)
          [] s.n.k = "gvar" -> Emit(ret, << <<"int", ret.reg, at>> >>)
          [] s.n.k = "funcdesg" -> Emit(ret, << <<"addr", ret.reg, s.n.v>> >>)

\* emit_assign_to; the offset of a member of a local variable is not added
EmitAssign(n, g) ==
    LET s == Stripped(n.kids[1], 0, {"conv"})
        v == EmitExpr(n.kids[2], g)
        a == IF s.n.k = "deref" THEN EmitExpr(s.n.kids[1], v) ELSE v
        store(h, j) ==
            LET w == CASE s.n.k = "deref" -> AddRI(h, a.reg, j + s.off)
                       [] s.n.k = "lvar" -> AddRI(h, 2, j + Env[s.n.v].at)
                       [] s.n.k = "gvar" ->
                            In(Emit(h, << <<"int", 0, Env[s.n.v].at + j + s.off>> >>), 0)
            IN  Emit(w, << <<"set", w.reg, v.reg + j>> >>)
    IN  In(Times(n.kids[2].ty.size, store, a), v.reg)

EmitDeref(n, g) ==
    LET e == EmitExpr(n.kids[1], Fresh(g, n.ty.size))
        load(h, j) == Emit(h, << <<"int", 0, j>>, <<"add", 0, 0, e.reg>>,
                                 <<"get", g.nregs + j, 0>> >>)
    IN  In(Times(n.ty.size, load, e), g.nregs)

\* emit_conv: conversions do nothing but take the address of an array variable
EmitConv(n, g) ==
    LET e == n.kids[1]
    IN  IF e.ty.kind = "array" /\ n.ty.kind = "ptr" /\ e.k \in {"lvar", "gvar"}
        THEN EmitAddr(e, g) ELSE EmitExpr(e, g)

EmitMember(n, g) == LET s == EmitExpr(n.kids[1], g)
                    IN  In(s, s.reg + n.kids[1].ty.fields[n.v].off)

\* emit_literal: a string goes to cells of its own, set when the program starts
EmitLiteral(n, g) ==
    IF n.ty.kind # "array" THEN Emit(Fresh(g, 1), << <<"int", g.nregs, n.v>> >>)
    ELSE [Emit(Fresh(g, 1), << <<"int", g.nregs, g.initmem>> >>)
            EXCEPT !.initmem = @ + Len(n.v),
                   !.init = @ \o [j \in DOMAIN n.v |-> <<g.initmem + j - 1, n.v[j]>>]]

-----------------------------------------------------------------------------
(* Operators *)
Opcode == ("+" :> "add") @@ ("-" :> "sub") @@ ("*" :> "mul") @@ ("/" :> "div")
    @@ ("%" :> "mod") @@ ("|" :> "bor") @@ ("&" :> "band") @@ ("^" :> "bxor")
    @@ ("<<" :> "bshl") @@ (">>" :> "bshr")

\* Pointer + and -: the index is scaled, a difference of pointers divided.
EmitPointerOp(n, g) ==
    LET b    == EmitBoth(n, g)
        size == n.kids[1].ty.of.size
        out  == Fresh(b.g, 1)
        ptrs == n.k = "-" /\ IsPtr(n.kids[2].ty)
        m    == IF ptrs THEN In(out, b.rhs) ELSE MulRI(out, b.rhs, size)
        h    == Emit(m, << <<Opcode[n.k], out.reg, b.lhs, m.reg>> >>)
    IN  In(IF ptrs /\ size # 1
           THEN Emit(h, << <<"int", 0, size>>, <<"div", out.reg, out.reg, 0>> >>)
           ELSE h, out.reg)

EmitCompare(n, g) ==
    LET b   == EmitBoth(n, g)
        o   == Labels(Fresh(b.g, 1), 3)
        ift == b.g.labels
        test == IF n.k = "!=" THEN <<"beq", b.lhs, b.rhs, ift + 1, ift>>
                ELSE Compare(n.k, b.lhs, b.rhs, ift + 1, ift)
    IN  Emit(o, << test, <<"label", ift + 1>>, <<"int", o.reg, Bool(n.k = "!=")>>,
                   <<"jump", ift + 2>>, <<"label", ift>>,
                   <<"int", o.reg, Bool(n.k # "!=")>>, <<"label", ift + 2>> >>)

\* OP_LOGAND and OP_LOGOR; the labels are, from t on: end, false, the second
\* operand, true.
EmitLogical(n, g) ==
    LET t == g.labels
        o == Labels(Fresh(g, 1), 4)
        l == IF n.k = "&&" THEN EmitBranchBool(n.kids[1], t + 1, t + 2, o)
             ELSE EmitBranchBool(n.kids[1], t + 2, t + 3, o)
        m == Emit(l, << <<"label", t + 1>>,
                        <<"int", o.reg, 0>>, <<"jump", t>>, <<"label", t + 2>> >>)
        r == EmitBranchBool(n.kids[2], t + 1, t + 3, m)
    IN  In(Emit(r, << <<"label", t + 3>>, <<"int", o.reg, 1>>, <<"label", t>> >>), o.reg)

\* the quotient of integers loses its fraction
EmitArith(n, g) ==
    LET b == EmitBoth(n, g)
        o == Fresh(b.g, 1)
        h == Emit(o, << <<Opcode[n.k], o.reg, b.lhs, b.rhs>> >>)
    IN  IF n.k # "/" \/ IsFlo(n.ty) THEN h
        ELSE Emit(h, << <<"int", 0, 1>>, <<"mod", 0, o.reg, 0>>,
                        <<"sub", o.reg, o.reg, 0>> >>)

EmitBinop(n, g) ==
    CASE n.k \in {"+", "-"} /\ n.kids[1].ty.kind \in {"ptr", "array"} ->
           EmitPointerOp(n, g)
      [] n.k \in {"&&", "||"} -> EmitLogical(n, g)
      [] n.k \in Comparisons -> EmitCompare(n, g)
      [] n.k = "," -> EmitBoth(n, g).g
      [] OTHER -> EmitArith(n, g)

EmitNot(n, g) ==
    LET e == EmitExpr(n.kids[1], g)
        t == e.labels
        o == Labels(Fresh(e, 1), 3)
    IN  Emit(o, << <<"int", 0, 0>>, <<"beq", e.reg, 0, t + 1, t>> >>
                \o << <<"label", t>>, <<"int", o.reg, 1>>, <<"jump", t + 2>>,
                      <<"label", t + 1>>, <<"int", o.reg, 0>>, <<"label", t + 2>> >>)

\* mutant: ~ is the negation
EmitBitNotNeg(n, g) ==
    LET e == EmitExpr(n.kids[1], g)
        o == Fresh(e, 1)
    IN  Emit(o, << <<"int", 0, 0>>, <<"sub", o.reg, 0, e.reg>> >>)

EmitBitNot(n, g) ==
    LET e == EmitExpr(n.kids[1], g)
        o == Fresh(e, 1)
    IN  Emit(o, << <<"int", 0, 1>>, <<"add", o.reg, 0, e.reg>>,
                   <<"int", 0, 0>>, <<"sub", o.reg, 0, o.reg>> >>)

Step(n) == (IF n.v = "++" THEN 1 ELSE -1)
           * (IF IsPtr(n.kids[1].ty) THEN n.kids[1].ty.of.size ELSE 1)

\* The format of the last instruction of ++x and --x ends in an incomplete %I:
\* vsnprintf answers -1 and buf_printf takes nothing of it.
EmitIncDec(n, g) ==
    LET a == EmitAddr(n.kids[1], g)
        o == Fresh(a, 1)
        h == Emit(o, << <<"get", o.reg, a.reg>>, <<"int", 0, Step(n)>> >>)
    IN  IF n.k = "pre" THEN Emit(h, << <<"add", o.reg, 0, o.reg>> >>)
        ELSE Emit(h, << <<"add", 0, 0, o.reg>>, <<"set", a.reg, 0>> >>)

\* emit_ternary: one register is copied, none for an omitted middle operand
EmitTernary(n, g) ==
    LET t == g.labels
        c == EmitExpr(n.kids[1], Labels(g, 2))
        o == Fresh(c, 1)
        b == Emit(o, << <<"int", 0, 0>>, <<"beq", c.reg, 0, t + 1, t>>,
                        <<"label", t + 1>> >>)
        then == EmitExpr(n.kids[2], b)
        h == IF n.kids[2].k = "omitted" THEN b
             ELSE Emit(then, << <<"reg", o.reg, then.reg>> >>)
        end == h.labels
        e == EmitExpr(n.kids[3], Emit(Labels(h, 1), << <<"jump", end>>, <<"label", t>> >>))
    IN  In(Emit(e, << <<"reg", o.reg, e.reg>>, <<"label", end>> >>), o.reg)

-----------------------------------------------------------------------------
(* Calls *)

\* mutant: each argument is stored as soon as it is computed
EmitArgsAtOnce(args, g) ==
    LET store(h, j) ==
          LET e == EmitExpr(args[j + 1], h)
              w == AddRI(e, 2, StackN + j)
          IN  Emit(w, << <<"set", w.reg, e.reg>> >>)
    IN  Times(Len(args), store, g)

\* emit_args: all arguments are computed before the first is stored
EmitArgs(args, g) ==
    LET values == FoldLeft(LAMBDA p, a : LET e == EmitExpr(a, p.g)
                                         IN  [g |-> e, buf |-> Append(p.buf, e.reg)],
                           [g |-> g, buf |-> << >>], args)
        cells  == FlattenSeq([j \in DOMAIN args |->
                    [c \in 1 .. args[j].ty.size |-> values.buf[j] + c - 1]])
        store(h, j) == LET w == AddRI(h, 2, j + StackN)
                       IN  Emit(w, << <<"set", w.reg, cells[j + 1]>> >>)
    IN  Times(Len(cells), store, values.g)

\* mutant: the caller's base is not put back
PostCallNone(g) == g
\* emit_post_call; r0 is still 1
PostCall(g) == Emit(g, << <<"set", 0, 2>> >>)

\* emit_pre_call, the call, emit_post_call, and the result's cells
EmitCall(call, ref, size, args, g) ==
    LET a == EmitArgs(args, g)
        o == Fresh(a, 1)
        c == Emit(o, << <<"int", 0, StackN>>, <<"add", o.reg, 2, 0>>, <<"int", 0, 1>>,
                        <<"set", 0, o.reg>>, call >>)
        p == PostCall(c)
        load(h, j) == LET w == AddRI(h, ref, j)
                      IN  Emit(w, << <<"get", p.nregs + j, w.reg>> >>)
    IN  In(Times(size, load, Fresh(p, 1)), p.nregs)

EmitFuncCall(n, g) ==
    IF n.v = "putchar"
    THEN LET e == EmitExpr(n.kids[1], g) IN In(Emit(e, << <<"putchar", e.reg>> >>), 0)
    ELSE EmitCall(<<"call", g.nregs, n.v>>, g.nregs, n.ty.size, n.kids,
                  Fresh(g, n.ty.size))

EmitFuncptrCall(n, g) ==
    LET f == EmitExpr(n.kids[1], g)
    IN  EmitCall(<<"dcall", f.nregs, f.reg>>, f.nregs, n.ty.size, Tail(n.kids), Fresh(f, 1))

EmitExpr(n, g) ==
    CASE n.k = "lit" -> EmitLiteral(n, g)
      [] n.k = "lvar" -> LoadLocal(Env[n.v].at, n.ty.size, g)
      [] n.k = "gvar" -> LoadGlobal(Env[n.v].at, n.ty.size, g)
      [] n.k = "addr" -> EmitAddr(n.kids[1], g)
      [] n.k = "deref" -> EmitDeref(n, g)
      [] n.k = "member" -> EmitMember(n, g)
      [] n.k \in {"conv", "cast"} -> EmitConv(n, g)
      [] n.k = "=" -> EmitAssign(n, g)
      [] n.k = "cond" -> EmitTernary(n, g)
      [] n.k = "!" -> EmitNot(n, g)
      [] n.k = "~" -> EmitBitNot(n, g)
      [] n.k \in {"pre", "post"} -> EmitIncDec(n, g)
      [] n.k = "funcall" -> EmitFuncCall(n, g)
      [] n.k = "funcptr" -> EmitFuncptrCall(n, g)
      [] OTHER -> EmitBinop(n, g)
=============================================================================
