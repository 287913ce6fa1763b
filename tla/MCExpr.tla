------------------------------- MODULE MCExpr -------------------------------
(***************************************************************************)
(* The variables of the frame: int x = 5, y = 3, a[2] = {4, 6}; p, a pointer   *)
(* to a[0]; struct S {int m, n;} s = {8, 9}; q, a pointer to b[0]; char c = 2;   *)
(* fp, a pointer to add.  The globals: int g = 2; struct S gs, b[2];            *)
(* double d = 7; struct W {int u, v, z;} w[2]; and the string ab.               *)
(***************************************************************************)
EXTENDS ExprRef

MCInitMem == 30
MCBase    == MCInitMem + 16
MCStackN  == 10

\* A struct of int members, and that it is the one the parser lays out
Members(names) == [j \in DOMAIN names |-> [name |-> names[j], type |-> TInt, bits |-> -1]]
IntStruct(names) ==
    [kind |-> "rec", struct |-> TRUE, decls |-> Members(names), keys |-> names,
     fields |-> [x \in Range(names) |-> [type |-> TInt, bits |-> -1, bitoff |-> 0,
                                          off |-> (CHOOSE j \in DOMAIN names : names[j] = x) - 1]],
     size |-> Len(names), align |-> 1]
S == IntStruct(<<"m", "n">>)
W == IntStruct(<<"u", "v", "z">>)
ASSUME AsLaidOut == \A t \in {S, W} : t = ReadRectypeFields(TRUE, t.decls)

FuncOf2(ret) == MakeFunc(ret, <<TInt, TInt>>)
Local(ty, at)  == [k |-> "lvar", ty |-> ty, at |-> at]
Global(ty, at) == [k |-> "gvar", ty |-> ty, at |-> at]
Designator(ty) == [k |-> "funcdesg", ty |-> ty, at |-> 0]

EnvOf(two, three) ==
    ("x" :> Local(TInt, 0)) @@ ("y" :> Local(TInt, 1)) @@ ("a" :> Local(MakeArray(TInt, 2), 2))
    @@ ("p" :> Local(MakePtr(TInt), 4)) @@ ("s" :> Local(two, 5)) @@ ("q" :> Local(MakePtr(two), 7))
    @@ ("c" :> Local(TChar, 8)) @@ ("fp" :> Local(MakePtr(FuncOf2(TInt)), 9))
    @@ ("g" :> Global(TInt, 16)) @@ ("gs" :> Global(two, 17)) @@ ("b" :> Global(MakeArray(two, 2), 19))
    @@ ("d" :> Global(TDouble, 23)) @@ ("w" :> Global(MakeArray(three, 2), 24))
    @@ ("ab" :> Global(MakeArray(TChar, 3), MCInitMem))
    @@ ("add" :> Designator(FuncOf2(TInt))) @@ ("swap" :> Designator(MakeFunc(two, <<two>>)))
    @@ ("putchar" :> Designator(MakeFunc(TInt, <<TInt>>)))
    @@ ("ext" :> Designator(MakeFunc(TInt, << >>)))
MCEnv == EnvOf(S, W)
\* A struct is compared with itself, whose names are the same strings, or with one of
\* another number of members.
MCSameBytes(m, n) == m = n
Undeclared(env, x) == [y \in DOMAIN env \ {x} |-> env[y]]
DeclaredEnv == Undeclared(MCEnv, "ext")

MCFunction == ("add" :> 1) @@ ("swap" :> 2) @@ ("ext" :> 3) @@ ("putchar" :> 4)
MCResult(f, args) == CASE f = "add" -> <<args[1] + args[2]>>
                       [] f = "swap" -> <<args[2], args[1]>>
                       [] f = "ext" -> <<args[1] - args[2]>>
MCStrings == ("ab" :> <<7, 8, 0>>)

I(n) == IntVal(n)
MCStore0 ==
    (<<"x">> :> I(5)) @@ (<<"y">> :> I(3)) @@ (<<"a", 0>> :> I(4)) @@ (<<"a", 1>> :> I(6))
    @@ (<<"p">> :> Pointer(<<"a", 0>>)) @@ (<<"s", "m">> :> I(8)) @@ (<<"s", "n">> :> I(9))
    @@ (<<"q">> :> Pointer(<<"b", 0>>)) @@ (<<"c">> :> I(2)) @@ (<<"fp">> :> Val("func", 0, "add"))
    @@ (<<"g">> :> I(2)) @@ (<<"gs", "m">> :> I(1)) @@ (<<"gs", "n">> :> I(0))
    @@ (<<"b", 0, "m">> :> I(10)) @@ (<<"b", 0, "n">> :> I(11)) @@ (<<"b", 1, "m">> :> I(12))
    @@ (<<"b", 1, "n">> :> I(13)) @@ (<<"d">> :> Val("double", 7 * Unit, << >>))
    @@ (<<"w", 0, "u">> :> I(14)) @@ (<<"w", 0, "v">> :> I(15)) @@ (<<"w", 0, "z">> :> I(16))
    @@ (<<"w", 1, "u">> :> I(17)) @@ (<<"w", 1, "v">> :> I(18)) @@ (<<"w", 1, "z">> :> I(19))
StringStore == (<<"ab", 0>> :> I(7)) @@ (<<"ab", 1>> :> I(8)) @@ (<<"ab", 2>> :> I(0))

FullStore == MCStore0 @@ StringStore

MCMemory == [c \in 0 .. MCBase + MCStackN + 8 |->
               IF c = 1 THEN Unit * MCBase
               ELSE IF \E v \in DOMAIN MCStore0 : Address(v) = c
               THEN Encode(MCStore0[CHOOSE v \in DOMAIN MCStore0 : Address(v) = c])[1]
               ELSE Unset]

-----------------------------------------------------------------------------
Var(v)      == Tree("var", << >>, <<"id", v>>)
Num(n)      == Tree("num", << >>, <<"num", n>>)
U(op, e)    == Tree(op, <<e>>, NONE)
B(op, l, r) == Tree(op, <<l, r>>, NONE)
Dot(e, m)   == Tree(".", <<e>>, <<"id", m>>)
Arrow(e, m) == Tree("->", <<e>>, <<"id", m>>)
Cond(c, t, e) == Tree("cond", <<c, t, e>>, NONE)
TypeToken(ty) == <<"type", ty>>
Cast(ty, e) == Tree("cast", <<e>>, TypeToken(ty))
CallTree(f, args) == Tree("call", <<f>> \o args, NONE)
x == Var("x")
y == Var("y")
g == Var("g")
a == Var("a")
p == Var("p")
q == Var("q")
s == Var("s")
gs == Var("gs")
b == Var("b")
d == Var("d")
w == Var("w")
c == Var("c")
fp == Var("fp")
add(l, r) == CallTree(Var("add"), <<l, r>>)
swap(e) == CallTree(Var("swap"), <<e>>)
put(e) == CallTree(Var("putchar"), <<e>>)
str == Tree("str", << >>, <<"id", "ab">>)

Start0 == [mem |-> FullStore, out |-> << >>]
\* No division by zero, and no shift by a negative amount.
RECURSIVE Safe(_)
SafeRight(op, n) == IF op \in {"/", "%"} THEN n # 0 ELSE n \in 0 .. 4 * Unit
Safe(t) == /\ \A j \in DOMAIN t.kids : Safe(t.kids[j])
           /\ t.op \in {"/", "%", "<<", ">>"} => SafeRight(t.op, Eval(t.kids[2], Start0).v.n)

BinOps   == ArithOps \cup {"&&", "||"}
EqualityOps == {"==", "!="}
Nested(l, m, r) ==
    {B(o, B(o2, l, m), r) : o \in BinOps, o2 \in BinOps}
    \cup {B(o, l, B(o2, m, r)) : o \in BinOps, o2 \in BinOps}
\* a == b == c is read as a == (b == c).
Chained(t) == t.op \in EqualityOps /\ t.kids[1].op \in EqualityOps
Grouping(l, m, r) == {t \in Nested(l, m, r) : ~ Chained(t)}

UnaryOps == {"neg", "!", "~", "plus"}
Unaries  == {U(u, x) : u \in UnaryOps} \cup {U(u, U(v, x)) : u \in UnaryOps, v \in UnaryOps}
            \cup {U(u, B(o, x, y)) : u \in UnaryOps, o \in BinOps}
            \cup {B(o, U(u, x), y) : u \in UnaryOps, o \in BinOps}
            \cup {B(o, x, U(u, y)) : u \in UnaryOps, o \in BinOps}

Places  == {x, g, c, d, U("*p", p), B("[]", a, Num(1)), B("[]", a, B("-", x, Num(4))),
            Arrow(q, "n"), Dot(gs, "n"), Dot(B("[]", b, Num(1)), "n"), Dot(s, "m"),
            Dot(U("*p", q), "n"), Dot(B("[]", w, Num(1)), "z"), U("*p", U("&p", x))}
Stores  == UNION {{l, B("=", l, Num(1)), U("x++", l), U("x--", l), U("&p", l),
                   B("+", U("x++", l), y), B("=", y, B("+=", l, y))} : l \in Places}
           \cup {B(o, l, Num(2)) : o \in DOMAIN CompoundAssignOp, l \in Places \ {d}}
           \cup {B("=", x, B("=", y, g)), B("-=", x, B("*=", y, g)), B("=", c, B("+", c, x)),
                 B("=", d, x), B("+=", d, x), B("/=", d, g), B("/=", x, g)}

Pointers ==
    {B("+", p, Num(1)), B("+", Num(1), p), B("-", U("&p", B("[]", a, Num(1))), p),
     B("-", U("&p", B("[]", w, Num(1))), w), B("-", U("&p", B("[]", b, Num(1))), q),
     B("==", p, a), B("<", p, B("+", a, Num(1))), B(">=", p, B("+", a, Num(1))),
     B("-", B("+", q, Num(1)), Num(1)), B("-", B("+", w, Num(1)), Num(1)),
     U("*p", B("+", p, Num(1))), U("*p", U("x++", p)), U("x++", U("*p", p)),
     B("=", U("*p", U("x++", p)), x), U("x++", q), B("+=", q, Num(1)), B("+=", p, Num(1)),
     Arrow(B("+", q, Num(1)), "n"), Arrow(B("+", w, Num(1)), "z"),
     B("[]", p, Num(1)), B("[]", Num(1), a), U("&p", U("*p", p)), U("*p", U("&p", x)),
     U("!", p), B("&&", p, x), Cond(p, x, y), Cond(x, p, a), Cond(U("!", x), p, B("+", p, Num(1))),
     U("*p", Cond(x, p, B("+", a, Num(1)))),
     B("[]", str, Num(1)), U("*p", str), U("*p", B("+", str, Num(1))),
     B(",", B("=", p, U("&p", g)), B("=", U("*p", p), x)),
     B(",", B("=", q, U("&p", gs)), B("=", Arrow(q, "n"), x)),
     B("=", fp, Var("add")), B("=", fp, U("&p", Var("add"))), fp}

Structs ==
    {B("=", s, gs), B("=", gs, s), B("=", U("*p", q), s), B("=", s, B("[]", b, Num(1))),
     B("=", B("[]", b, Num(1)), U("*p", q)), B("=", gs, swap(s)), B("=", U("*p", q), swap(gs)),
     Dot(swap(s), "n"), Dot(swap(swap(s)), "m"), swap(B("[]", b, Num(1))),
     B("+", Dot(swap(s), "m"), Dot(swap(gs), "n")), Dot(B("=", s, gs), "n"),
     B("=", B("[]", w, Num(0)), B("[]", w, Num(1))), Dot(B(",", x, s), "n")}

CallsOf ==
    {add(x, y), add(x, add(y, g)), add(add(x, y), g), add(add(x, y), add(y, g)),
     B("-", add(x, y), add(y, g)), add(B("=", x, Num(1)), B("=", y, Num(2))),
     CallTree(fp, <<x, y>>), CallTree(U("*p", fp), <<x, add(y, g)>>),
     CallTree(U("&p", Var("add")), <<x, y>>), CallTree(U("*p", Var("add")), <<x, y>>), CallTree(Var("ext"), <<x, c>>),
     add(U("x++", x), Cond(y, g, x)), B("=", B("[]", a, B("-", add(x, y), Num(7))), add(g, g)),
     add(Dot(swap(s), "m"), c), B("=", x, add(x, U("x++", y))),
     B(",", B(",", put(x), put(y)), g), B("&&", B(",", put(x), Num(0)), B(",", put(y), Num(1))),
     add(B(",", put(x), y), B(",", put(y), x)), B(",", put(add(x, y)), add(y, x))}

Effects == {x, B("=", y, Num(0)), B(",", put(x), Num(1)), U("x++", g)}
Branches ==
    {B(o, l, r) : o \in {"&&", "||"}, l \in {x, U("!", x), U("x++", c), B("<", x, y)}, r \in Effects}
    \cup {Cond(l, t, e) : l \in {x, U("!", x), B(">", y, x)}, t \in Effects, e \in Effects}
    \cup {Cond(x, Cond(U("!", y), x, y), g), Cond(Cond(x, Num(0), y), x, g),
          Cond(Num(0), x, Cond(y, g, x)), Cond(x, B(",", y, g), x), Cond(x, d, y),
          B("&&", B("||", x, U("x++", y)), U("x++", g)), B("||", B("&&", U("!", x), U("x++", y)), U("x++", g)),
          B("=", x, Cond(B("=", y, Num(0)), Num(1), Num(2)))}

Mixed == {B("/", d, g), B("/", x, g), B("/", B("*", x, d), g), B("+", B("/", d, g), x),
          B("/", Cast(TDouble, x), g), Cast(TDouble, B("/", x, g)), B("/", U("neg", x), g),
          B("%", U("neg", x), g), B("-", d, B("/", d, g)), B("<", B("/", d, g), Num(4)),
          Cast(TChar, x), B("+", Cast(TInt, c), c), U("sizeof", a), U("sizeof", x), U("sizeof", w),
          U("sizeof", Var("add")), B("*", U("sizeof", b), x), U("sizeof", Tree("type", << >>, TypeToken(S))),
          B("+", U("sizeof", Tree("type", << >>, TypeToken(W))), Num(1)), U("!", d), Cond(d, x, y)}

Constants ==
    Grouping(Num(5), Num(3), Num(2))
    \cup {Cond(l, B("+", Num(4), m), Num(2)) : l \in {Num(0), Num(3)}, m \in {Num(1), U("neg", Num(1))}}
    \cup {U(u, B(o, Num(5), Num(3))) : u \in UnaryOps, o \in {"-", "<", "&&", "|"}}
    \cup {U("neg", U("sizeof", w)), B("||", Num(0), Cast(TChar, Num(6)))}

Constraints ==
    {B("=", Num(1), x), B("=", B("+", x, y), Num(1)), U("x++", B("+", x, y)), U("&p", Num(1)),
     U("x--", Num(2)), U("*p", x), Dot(x, "m"), Dot(s, "z"), Arrow(s, "m"), B("*", p, q), B("+", s, x),
     B("[]", x, y), U("~", p), U("neg", p), CallTree(x, <<y>>), add(s, x), swap(B("[]", w, Num(1))),
     B("[]", c, g), B("[]", B("+", x, y), Num(1)), U("x++", U("neg", x)),
     Var("unknown"), B("=", Cast(TChar, B("+", x, y)), Num(1)), B("=", add(x, y), x)}

Trees == << Grouping(x, y, g), Constants, Unaries, Stores, Pointers, Structs, CallsOf, Branches, Mixed >>
Families == Append([f \in DOMAIN Trees |-> {Program(t) : t \in {t \in Trees[f] : Safe(t)}}],
                   {Bad(t) : t \in Constraints})

Increments == << {Program(B("+=", y, U("++x", x)))} >>
=============================================================================
