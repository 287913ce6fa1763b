------------------------------ MODULE MCMacro -------------------------------
(***************************************************************************)
(* Small macro programs: two macros F and O with all the bodies of a few    *)
(* tokens, and texts that call them in the ways the algorithm distinguishes.*)
(***************************************************************************)
EXTENDS MacroRef, TLC

CONSTANTS F, O, A, B, x, y      \* names

id(n) == Fresh("id", <<n>>)
op(k) == Fresh(k, << >>)
lp    == op("(")
rp    == op(")")
comma == op(",")
nl    == op("nl")
hash  == op("#")
paste == op("##")

Obj(body)              == [kind |-> "obj", params |-> << >>, va |-> FALSE,
                           body |-> body]
Func(params, va, body) == [kind |-> "func", params |-> params, va |-> va,
                           body |-> body]
Special                == [Obj(<< >>) EXCEPT !.kind = "special"]

Program(f, o, text, n) == [macros |-> <<F>> :> f @@ <<O>> :> o, text |-> text,
                           back |-> n]

\* hashhash_check
Bodies(ts, n) == {b \in BoundedSeq(ts, n) :
                    b # << >> => Head(b).k # "##" /\ Last(b).k # "##"}

X == <<x>>
Y == <<y>>

\* Self-reference, calls that end beyond the expansion, calls in arguments
Rescans ==
    {Program(Func(<<X>>, FALSE, f), o, t, 1) :
       f \in Bodies({id(F), id(O), id(x), lp, rp}, 3),
       o \in {Obj(<< >>), Obj(<<id(F)>>), Obj(<<lp>>), Obj(<<id(F), lp>>), Special,
              Func(<< >>, FALSE, << >>), Func(<< >>, FALSE, <<id(F)>>)},
       t \in {<<id(F), lp, id(F), rp, lp, id(A), rp>>,
              <<id(F), lp, id(F), lp, id(O), rp, rp>>,
              <<id(F), lp, id(O), rp, lp, nl, id(A), rp>>,
              <<id(O), lp, rp, nl, id(F)>>,
              <<id(F), id(O), lp, id(A), rp>>,
              <<id(O), lp, id(F), lp, id(A), rp, rp>>}}

\* # and ##, of results that are no macros
Pastes ==
    {Program(Func(<<X, Y>>, FALSE, f), Obj(o), <<id(F), lp>> \o a \o <<comma>>
                                               \o b \o <<rp>>, 0) :
       f \in Bodies({id(x), id(y), paste, id(A)}, 4)
             \cup Bodies({id(x), id(y), hash}, 3),
       o \in {<<id(B)>>, <<id(O), id(A)>>},
       a \in {<< >>, <<id(O)>>, <<id(A), id(O)>>}, b \in {<< >>, <<id(O)>>}}

Variadics ==
    {Program(Func(ps, TRUE, f), Obj(<<id(B)>>), <<id(F), lp>> \o a \o <<rp>>, 0) :
       ps \in {<<X, Y>>, <<Y>>},
       f \in Bodies({id(x), id(y), comma, paste}, 4),
       a \in {<< >>, <<id(A)>>, <<id(A), comma>>, <<id(O), comma, id(O)>>,
              <<id(A), comma, lp, comma, rp, comma, id(B)>>, <<id(A), lp>>}}

\* A parser that looks further ahead
Lookahead ==
    {Program(Func(<<X>>, FALSE, f), Obj(o), t, 3) :
       f \in Bodies({id(F), id(O), id(x)}, 2),
       o \in Bodies({id(F), id(O)}, 2),
       t \in {<<id(O), id(F), lp, id(O), rp>>, <<id(F), id(O), id(F), comma>>}}

MCPrograms == Rescans \cup Pastes \cup Variadics \cup Lookahead
=============================================================================
