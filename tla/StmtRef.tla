------------------------------ MODULE StmtRef -------------------------------
(***************************************************************************)
(* What the statements of C mean, by recursion on the source tree (C11 6.8), *)
(* and the properties that hold the labels and jumps of Stmt against it.     *)
(*                                                                          *)
(* A statement is executed in a mode: RUN, or seeking the label a goto or a  *)
(* switch jumps to, in which it does nothing until the label is met.  The    *)
(* recorded events of the run tell what each condition yielded; execution    *)
(* halts where the record ends, and is "wrong" where the next event is not   *)
(* the recorded one.                                                         *)
(***************************************************************************)
EXTENDS Stmt

RUN == <<"run">>

\* n: events met so far; fuel: loop turns and gotos left
Res(m, x, s) == [m |-> m, x |-> x, l |-> NONE, s |-> s]

Eval(e, s) == IF s.n = Len(events) THEN [x |-> "halt", v |-> NONE, s |-> s]
              ELSE IF events[s.n + 1][1] # e
              THEN [x |-> "wrong", v |-> NONE, s |-> s]
              ELSE [x |-> "none", v |-> events[s.n + 1][2],
                    s |-> [s EXCEPT !.n = @ + 1]]

EvalOpt(e, s) == IF e = NONE THEN [x |-> "none", v |-> TRUE, s |-> s]
                 ELSE Eval(e, s)

Burn(s) == [s EXCEPT !.fuel = @ - 1]

RECURSIVE Exec(_, _, _), ExecSeq(_, _, _, _), While(_, _, _), Do(_, _, _),
          For(_, _, _)

ExecSeq(ss, n, m, s) ==
    IF n > Len(ss) THEN Res(m, "none", s)
    ELSE LET r == Exec(ss[n], m, s)
         IN  IF r.x # "none" THEN r ELSE ExecSeq(ss, n + 1, r.m, r.s)

\* The body of a loop was executed: was the label found, is there a next turn?
Left(r)  == r.m # RUN \/ r.x \notin {"none", "continue", "break"}
Again(r) == r.x \in {"none", "continue"}

While(t, m, s) ==
    LET c == IF m = RUN THEN Eval(t.e, s) ELSE EvalOpt(NONE, s)
    IN  IF c.x # "none" THEN Res(RUN, c.x, c.s)
        ELSE IF ~ c.v THEN Res(RUN, "none", c.s)
        ELSE LET r == Exec(t.body, m, c.s)
             IN  IF Left(r) THEN r
                 ELSE IF ~ Again(r) THEN Res(RUN, "none", r.s)
                 ELSE IF r.s.fuel = 0 THEN Res(RUN, "halt", r.s)
                 ELSE While(t, RUN, Burn(r.s))

Do(t, m, s) ==
    LET r == Exec(t.body, m, s)
    IN  IF Left(r) THEN r
        ELSE IF ~ Again(r) THEN Res(RUN, "none", r.s)
        ELSE LET c == Eval(t.e, r.s)
             IN  IF c.x # "none" THEN Res(RUN, c.x, c.s)
                 ELSE IF ~ c.v THEN Res(RUN, "none", c.s)
                 ELSE Do(t, RUN, c.s)

\* From the condition on
For(t, m, s) ==
    LET c == IF m = RUN THEN EvalOpt(t.e, s) ELSE EvalOpt(NONE, s)
    IN  IF c.x # "none" THEN Res(RUN, c.x, c.s)
        ELSE IF ~ c.v THEN Res(RUN, "none", c.s)
        ELSE LET r == Exec(t.body, m, c.s)
             IN  IF Left(r) THEN r
                 ELSE IF ~ Again(r) THEN Res(RUN, "none", r.s)
                 ELSE LET p == EvalOpt(t.step, r.s)
                      IN  IF p.x # "none" THEN Res(RUN, p.x, p.s)
                          ELSE IF p.s.fuel = 0 THEN Res(RUN, "halt", p.s)
                          ELSE For(t, RUN, Burn(p.s))

\* The labels a mode seeks are not those of a switch inside.
SwitchBody(t, m, s) ==
    LET r == Exec(t.body, m, s)
    IN  IF r.x = "break" THEN Res(RUN, "none", r.s) ELSE r

Exec(t, m, s) ==
    CASE t.k = "act" -> LET c == Eval(t.e, s)
                        IN  IF m = RUN THEN Res(m, c.x, c.s) ELSE Res(m, "none", s)
      [] t.k \in {"break", "continue", "return"} ->
            Res(m, IF m = RUN THEN t.k ELSE "none", s)
      [] t.k = "goto" -> IF m = RUN THEN [Res(m, "goto", s) EXCEPT !.l = t.l]
                         ELSE Res(m, "none", s)
      [] t.k = "block" -> ExecSeq(t.ss, 1, m, s)
      [] t.k = "if" ->
            IF m = RUN
            THEN LET c == Eval(t.e, s)
                 IN  IF c.x # "none" THEN Res(m, c.x, c.s)
                     ELSE IF c.v THEN Exec(t.then, m, c.s)
                     ELSE IF t.els = NONE THEN Res(m, "none", c.s)
                     ELSE Exec(t.els, m, c.s)
            ELSE LET r == Exec(t.then, m, s)
                 IN  IF r.m = RUN \/ t.els = NONE THEN r ELSE Exec(t.els, m, s)
      [] t.k = "while" -> While(t, m, s)
      [] t.k = "do"    -> Do(t, m, s)
      [] t.k = "for" -> LET c == IF m = RUN THEN EvalOpt(t.init, s)
                                 ELSE EvalOpt(NONE, s)
                        IN  IF c.x # "none" THEN Res(m, c.x, c.s)
                            ELSE For(t, m, c.s)
      [] t.k = "switch" ->
            IF m = RUN
            THEN LET c == Eval(t.e, s)
                     r == SwitchBody(t, <<"case", c.v>>, c.s)
                     d == SwitchBody(t, <<"default">>, c.s)
                 IN  IF c.x # "none" THEN Res(m, c.x, c.s)
                     ELSE IF r.m = RUN THEN r
                     ELSE IF d.m = RUN THEN d
                     ELSE Res(RUN, "none", c.s)
            ELSE IF m[1] = "label" THEN SwitchBody(t, m, s)
            ELSE Res(m, "none", s)
      [] t.k = "case" ->
            Exec(t.body, IF m[1] = "case" /\ InRange(m[2], t.range) THEN RUN ELSE m, s)
      [] t.k = "default" -> Exec(t.body, IF m[1] = "default" THEN RUN ELSE m, s)
      [] t.k = "label" ->
            Exec(t.body, IF m[1] = "label" /\ m[2] = t.l THEN RUN ELSE m, s)

RECURSIVE Body(_, _)
Body(m, s) == LET r == Exec(tree, m, s)
              IN  IF r.x # "goto" THEN r
                  ELSE IF r.s.fuel = 0 THEN Res(RUN, "halt", r.s)
                  ELSE Body(<<"label", r.l>>, Burn(r.s))

\* Between two events lie at most a goto per label and the turns they start.
Fuel      == (MaxEvents + 1) * (2 * Cardinality(Label) + 2)
Reference == Body(RUN, [n |-> 0, fuel |-> Fuel])

\* Running the code evaluates the expressions of the function that the meaning
\* of its source evaluates, in that order, and ends where it ends: the jumps
\* of if, for, while, do, switch, case ranges, default, break, continue, goto
\* and return go where the statements say.
FollowsSource ==
    phase \in {"run", "end"} =>
        /\ Reference.s.n = Len(events) /\ Reference.x # "wrong"
        /\ phase = "end" => Reference.x \in {"none", "return"}
=============================================================================
