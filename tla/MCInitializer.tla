---------------------------- MODULE MCInitializer ----------------------------
(***************************************************************************)
(* A variable of each of a list of types, with all the initializers of a few *)
(* items, next to an initialized int.                                        *)
(***************************************************************************)
EXTENDS InitializerRef

Cell == Scalar("int", 1)
Char == Scalar("char", 1)
Wide == Scalar("int", 2)              \* _Alignas(2) int

Named(name, t)    == [name |-> name, type |-> t, bits |-> -1]
Bit(name, width)  == [name |-> name, type |-> Cell, bits |-> width]
Struct(fields)    == ReadRectypeFields(TRUE, fields)
Union(fields)     == ReadRectypeFields(FALSE, fields)

Pair  == Struct(<<Named("a", Cell), Named("b", Cell)>>)
Inner == Struct(<<Named("x", Cell), Named("y", Cell)>>)
Text  == MakeArray(Char, 2)

Dot(name) == [k |-> ".", name |-> name]
At_(i)    == [k |-> "[", index |-> i]
Expr      == [k |-> "expr"]
Str(len)  == [k |-> "string", len |-> len]
Lst(items, trailing) == [k |-> "list", items |-> items, trailing |-> trailing]
Item(des, init)      == [des |-> des, init |-> init]
Plain(list) == Lst([k \in DOMAIN list |-> Item(<< >>, list[k])], FALSE)

RECURSIVE Tokens(_), ItemTokens(_, _)
ItemTokens(items, k) ==
    IF k > Len(items) THEN << >>
    ELSE (IF k > 1 THEN <<[k |-> ","]>> ELSE << >>) \o items[k].des
         \o Tokens(items[k].init) \o ItemTokens(items, k + 1)
Tokens(init) ==
    IF init.k # "list" THEN <<init>>
    ELSE <<[k |-> "{"]>> \o ItemTokens(init.items, 1)
         \o (IF init.trailing THEN <<[k |-> ","]>> ELSE << >>) \o <<[k |-> "}"]>>

Declare(global, t, init) == [global |-> global, ty |-> t, init |-> init,
                             toks |-> Tokens(init)]
Blank(global, t) == [global |-> global, ty |-> t, toks |-> << >>]

-----------------------------------------------------------------------------
\* Types to initialize, the first Len(Designators) of them in all ways.
Basic == <<
    Struct(<<Named("s", Pair), Named("c", Cell)>>),
    MakeArray(MakeArray(Cell, 2), 2),
    MakeArray(Pair, -1),
    Struct(<<Named("c", Cell), Named(NONE, Inner), Named("v", Text)>>),
    Struct(<<Named("u", Union(<<Named("w", MakeArray(Cell, 2)), Named("i", Cell)>>)),
             Named("b", Cell)>>),
    Union(<<Named("i", Cell), Named("p", Pair)>>),
    Struct(<<Named("c", Char), Named("b", Wide), Bit("f", 3), Bit(NONE, 0),
             Bit("g", 6), Named("e", Cell)>>),
    Pair, Cell, Text, MakeArray(Char, -1), MakeArray(Char, 4), MakeArray(Text, 2)
    >>

\* The designators used for each.
Designators == <<
    {<<Dot("s")>>, <<Dot("c")>>, <<Dot("s"), Dot("b")>>, <<Dot("x")>>},
    {<<At_(0)>>, <<At_(1)>>, <<At_(0), At_(1)>>, <<At_(2)>>},
    {<<At_(1)>>, <<At_(0), Dot("b")>>},
    {<<Dot("y")>>, <<Dot("v"), At_(1)>>},
    {<<Dot("u")>>, <<Dot("u"), Dot("i")>>, <<Dot("u"), Dot("w"), At_(1)>>},
    {<<Dot("p")>>, <<Dot("p"), Dot("b")>>},
    {<<Dot("b")>>, <<Dot("g")>>} >>

\* Structs that are only laid out: all of four of these members.
Members == << Named("a", Cell), Named("b", Wide), Bit("c", 3), Bit("d", 6),
              Bit(NONE, 0), Bit(NONE, 2), Named(NONE, Inner),
              Named("f", MakeArray(Wide, 2)) >>
Digit(k, d) == 1 + ((k \div 8 ^ d) % 8)
Repeats(k)  == \E d, e \in 0 .. 3 : d < e /\ Digit(k, d) = Digit(k, e)
                                  /\ Digit(k, d) \notin {5, 6}
LaidOutOnly == {k \in 0 .. 8 ^ 4 - 1 : ~ Repeats(k)}

LaidOutTypes == {Struct([d \in 1 .. 4 |-> Members[Digit(k, d - 1)]]) : k \in LaidOutOnly}

Nested == {Expr, Str(1), Plain(<<Expr>>), Plain(<<Expr, Expr>>),
           Plain(<<Plain(<<Expr>>), Expr>>),
           Lst(<<Item(<<Dot("b")>>, Expr)>>, FALSE),
           Lst(<<Item(<<At_(1)>>, Expr)>>, FALSE), Lst(<<Item(<< >>, Expr)>>, TRUE)}
Few    == {Expr, Plain(<<Expr, Expr>>)}

ItemsOf(t, some) == {Item(d, i) : d \in Designators[t] \cup {<< >>}, i \in some}

\* The lists of one item and a trailing comma, of two items, of three plainer
\* ones, and of four expressions.
Lists == [t \in DOMAIN Designators, shape \in 1 .. 4 |->
            LET Of(some) == ItemsOf(t, some)
            IN  CASE shape = 1 -> {Lst(<<a>>, TRUE) : a \in Of(Nested)}
                  [] shape = 2 -> {Lst(<<a, b>>, FALSE) : a, b \in Of(Nested)}
                  [] shape = 3 -> {Lst(<<a, b, c>>, FALSE) : a, b, c \in Of(Few)}
                  [] shape = 4 -> {Lst(<<a, b, c, d>>, FALSE) : a, b, c, d \in Of({Expr})}]

Neighbour(global) == Declare(global, Cell, Expr)

\* Other initializers and types, as globals and as locals.
Others ==
    {<< Declare(g, Basic[d[1]], d[2]), Neighbour(h) >> :
       g \in BOOLEAN, h \in BOOLEAN,
       d \in {<<8, Expr>>, <<8, Plain(<<Expr>>)>>, <<9, Plain(<<Expr>>)>>,
              <<9, Lst(<<Item(<< >>, Expr)>>, TRUE)>>,
              <<10, Plain(<<Expr, Expr>>)>>, <<10, Str(2)>>,
              <<10, Plain(<<Str(1), Expr>>)>>, <<11, Str(2)>>,
              <<11, Plain(<<Str(2)>>)>>, <<12, Str(2)>>,
              <<13, Plain(<<Str(1), Str(2)>>)>>}}
    \cup {<< Blank(g, Pair), Neighbour(h), Blank(h, Cell) >> : g \in BOOLEAN, h \in BOOLEAN}

MCPrograms == [f \in DOMAIN Lists \cup {<<0, 1>>, <<0, 2>>} |->
    CASE f = <<0, 1>> -> Others
      [] f = <<0, 2>> -> {<< Blank(FALSE, t) >> : t \in LaidOutTypes}
      [] OTHER -> {<< Declare(TRUE, Basic[f[1]], l), Neighbour(TRUE) >> : l \in Lists[f]}]
-----------------------------------------------------------------------------
\* The types of the variables and of their parts are such as the parser makes.
RECURSIVE Parts(_)
Parts(t) == {t} \cup CASE t.kind = "array" -> Parts(t.of)
                       [] t.kind = "rec" ->
                            UNION {Parts(t.fields[k].type) : k \in DOMAIN t.fields}
                       [] OTHER -> {}
AllTypes == UNION {Parts(t) : t \in Range(Basic) \cup LaidOutTypes}

ASSUME TypesAssumption == LET T == AllTypes IN ClosedTypes(T) /\ Typed(T)
=============================================================================
