-------------------------------- MODULE Stmt --------------------------------
(***************************************************************************)
(* Statements: how parse.c turns the control flow of a function body into   *)
(* labels and jumps, and how the code gen.c emits for them runs.            *)
(*                                                                          *)
(* The parser descends recursively; `open' is its stack of read_xxx calls   *)
(* and `node' the statement the last finished one returned.  The jump       *)
(* contexts of parse.c (lbreak, lcontinue, cases, defaultcase) are globals   *)
(* that each call saves, sets and restores.  Expressions are opaque: an     *)
(* expression statement, a condition or a switch operand is named by the     *)
(* number of the token it starts with, and its evaluation is an event.      *)
(***************************************************************************)
EXTENDS Integers, Sequences, FiniteSets, SequencesExt

CONSTANTS Families,     \* bound: functions of the statements f.kinds, of at
                        \* most f.tokens statements, for an f in Families
          Label,        \* the label names of the source
          CaseRange,    \* the ranges <<lo, hi>> of case labels
          Value,        \* the values a switch operand takes
          MaxEvents,    \* bound on the events of a run
          NONE

ASSUME StmtAssumption ==
    /\ \A f \in Families : f.tokens \in Nat
    /\ MaxEvents \in Nat
    /\ Value \subseteq Int /\ CaseRange \subseteq Int \X Int

\* The labels the compiler makes, ".L" and a number, are no identifiers.
ASSUME LabelAssumption == Label \cap Int = {}

VARIABLES phase,                       \* "parse", "error", "run", "end"
          open, node,                  \* the calls under way, what one returned
          lbreak, lcontinue,           \* where break and continue jump to
          cases, defaultcase,          \* the labels of the innermost switch
          labels, gotos,               \* of the function
          nlabels, ntokens,            \* make_label's counter; statements begun
          used,                        \* their kinds
          code, tree,                  \* the function: its code, its source
          pc, tmp, events              \* the run of the code

context == <<lbreak, lcontinue, cases, defaultcase>>
names   == <<labels, gotos>>
tokens  == <<ntokens, used>>
counts  == <<nlabels, tokens>>
machine == <<pc, tmp, events>>
vars    == <<phase, open, node, context, names, counts, code, tree, machine>>

\* What a statement is: its instructions and (for the properties) its source.
Node(c, t) == [code |-> c, tree |-> t]
NoNode     == Node(NONE, NONE)

Act(e)        == <<"act", e>>
Test(e, t, f) == <<"test", e, t, f>>        \* to t if e holds, else to f
Store(e)      == <<"store", e>>             \* the switch variable
Cmp(r, t, f)  == <<"cmp", r, t, f>>         \* is the switch variable in r?
Lbl(l)        == <<"label", l>>
Jmp(l)        == <<"jump", l>>
Ret           == <<"ret">>

\* The expressions and the instructions there are
Expr         == Nat \X {"act", "cond", "init", "step", "value"}
Names        == Nat \cup Label
Instructions == {Ret} \cup ({"act", "store"} \X Expr)
                \cup ({"label", "jump"} \X Names)
                \cup ({"test"} \X Expr \X Names \X Names)
                \cup ({"cmp"} \X CaseRange \X Names \X Names)
Cases        == [range : CaseRange, label : Nat]

ASSUME NoneAssumption == NONE \notin Seq(Instructions) \cup Seq(Cases)

\* emit_if: branch_bool yields the branch, given the two labels; els = NONE
\* stands for NULL.  Uses the labels l, l+1 and l+2.
EmitIf(branch, l, then, els) ==
    branch \o <<Lbl(l)>> \o then \o
    (IF els = NONE THEN <<Lbl(l + 1)>>
     ELSE <<Jmp(l + 2), Lbl(l + 1)>> \o els \o <<Lbl(l + 2)>>)
If(e, l, then, els) == EmitIf(<<Test(e, l, l + 1)>>, l, then, els)

Init == /\ phase = "parse"
        /\ open = << [k |-> "block", list |-> << >>, trees |-> << >>] >>
        /\ node = NoNode
        /\ lbreak = NONE /\ lcontinue = NONE
        /\ cases = NONE /\ defaultcase = NONE
        /\ labels = {} /\ gotos = {}
        /\ nlabels = 0 /\ ntokens = 0 /\ used = {}
        /\ code = << >> /\ tree = NONE
        /\ pc = 1 /\ tmp = NONE /\ events = << >>

-----------------------------------------------------------------------------
(* read_stmt: the next token is the first of a statement *)
Reads(kind) == /\ phase = "parse" /\ node = NoNode /\ open # << >>
               /\ \E f \in Families : /\ used \cup {kind} \subseteq f.kinds
                                      /\ ntokens < f.tokens
               /\ ntokens' = ntokens + 1
               /\ used' = used \cup {kind}

\* The expression a part of the statement that starts at this token holds.
Event(part) == <<ntokens, part>>

Frame    == Last(open)
Enter(f) == open' = Append(open, f)
Returns(c, t) == node' = Node(c, t)

\* error() and errort(): the compiler exits
Errors == /\ phase' = "error"
          /\ UNCHANGED <<open, node, context, names, nlabels, code, tree,
                         machine>>

ExprStmt == /\ Reads("act")
            /\ Returns(<<Act(Event("act"))>>, [k |-> "act", e |-> Event("act")])
            /\ UNCHANGED <<phase, open, context, names, nlabels, code, tree,
                           machine>>

ReadReturn == /\ Reads("return")
              /\ Returns(<<Ret>>, [k |-> "return"])
              /\ UNCHANGED <<phase, open, context, names, nlabels, code, tree,
                             machine>>

ReadBreak == /\ Reads("break")
             /\ IF lbreak = NONE THEN Errors
                ELSE /\ Returns(<<Jmp(lbreak)>>, [k |-> "break"])
                     /\ UNCHANGED <<phase, open, context, names, nlabels, code,
                                    tree, machine>>

ReadContinue == /\ Reads("continue")
                /\ IF lcontinue = NONE THEN Errors
                   ELSE /\ Returns(<<Jmp(lcontinue)>>, [k |-> "continue"])
                        /\ UNCHANGED <<phase, open, context, names, nlabels,
                                       code, tree, machine>>

ReadGoto == /\ Reads("goto")
            /\ \E l \in Label :
                  /\ gotos' = gotos \cup {l}
                  /\ Returns(<<Jmp(l)>>, [k |-> "goto", l |-> l])
            /\ UNCHANGED <<phase, open, context, labels, nlabels, code, tree,
                           machine>>

-----------------------------------------------------------------------------
(* Compound statements *)
OpenBlock == /\ Reads("block")
             /\ Enter([k |-> "block", list |-> << >>, trees |-> << >>])
             /\ UNCHANGED <<phase, node, context, names, nlabels, code, tree,
                            machine>>

\* A call gets the statement it was waiting for.
Gets(kinds) == /\ phase = "parse" /\ node # NoNode /\ open # << >>
               /\ Frame.k \in kinds

BlockGets == /\ Gets({"block"})
             /\ open' = [open EXCEPT ![Len(open)] =
                           [k |-> "block", list |-> @.list \o node.code,
                            trees |-> Append(@.trees, node.tree)]]
             /\ node' = NoNode
             /\ UNCHANGED <<phase, context, names, counts, code, tree, machine>>

CloseBlock == /\ phase = "parse" /\ node = NoNode /\ Len(open) > 1
              /\ Frame.k = "block"
              /\ Returns(Frame.list, [k |-> "block", ss |-> Frame.trees])
              /\ open' = Front(open)
              /\ UNCHANGED <<phase, context, names, counts, code, tree, machine>>

\* read_func_body and backfill_labels; emit_toplevel adds the final return
CloseFunction ==
    /\ phase = "parse" /\ node = NoNode /\ Len(open) = 1
    /\ open' = << >>
    /\ IF gotos \subseteq labels
       THEN /\ phase' = "run"
            /\ code' = Frame.list \o <<Ret>>
            /\ tree' = [k |-> "block", ss |-> Frame.trees]
       ELSE phase' = "error" /\ UNCHANGED <<code, tree>>
    /\ UNCHANGED <<node, context, names, counts, machine>>

-----------------------------------------------------------------------------
(* if *)
OpenIf == /\ Reads("if")
          /\ Enter([k |-> "if", e |-> Event("cond")])
          /\ UNCHANGED <<phase, node, context, names, nlabels, code, tree,
                         machine>>

\* The next token is not `else'.
IfGets == /\ Gets({"if"})
          /\ Returns(If(Frame.e, nlabels, node.code, NONE),
                     [k |-> "if", e |-> Frame.e, then |-> node.tree,
                      els |-> NONE])
          /\ nlabels' = nlabels + 2
          /\ open' = Front(open)
          /\ UNCHANGED <<phase, context, names, tokens, code, tree, machine>>

ReadElse == /\ Gets({"if"})
            /\ open' = [open EXCEPT ![Len(open)] =
                          [k |-> "else", e |-> @.e, then |-> node]]
            /\ node' = NoNode
            /\ UNCHANGED <<phase, context, names, counts, code, tree, machine>>

ElseGets == /\ Gets({"else"})
            /\ Returns(If(Frame.e, nlabels, Frame.then.code, node.code),
                       [k |-> "if", e |-> Frame.e, then |-> Frame.then.tree,
                        els |-> node.tree])
            /\ nlabels' = nlabels + 3
            /\ open' = Front(open)
            /\ UNCHANGED <<phase, context, names, tokens, code, tree, machine>>

-----------------------------------------------------------------------------
(* Loops.  SET_JUMP_LABELS saves the context in locals of the call, which *)
(* are fields of its record.                                               *)
SetJumpLabels(cont, brk) == lcontinue' = cont /\ lbreak' = brk

\* mutant: the break label of the enclosing loop lost
RestoreContinueOnly == lcontinue' = Frame.ocontinue /\ UNCHANGED lbreak

RestoreJumpLabels == lcontinue' = Frame.ocontinue /\ lbreak' = Frame.obreak

\* Each of the three expressions of a `for' may be missing.
OpenFor == /\ Reads("for")
           /\ \E e \in [{"init", "cond", "step"} -> {<< >>, NONE}] :
                LET part(p) == IF e[p] = NONE THEN NONE ELSE Event(p)
                IN  Enter([k |-> "for", beg |-> nlabels, mid |-> nlabels + 1,
                           end |-> nlabels + 2, init |-> part("init"),
                           cond |-> part("cond"), step |-> part("step"),
                           ocontinue |-> lcontinue, obreak |-> lbreak])
           /\ SetJumpLabels(nlabels + 1, nlabels + 2)
           /\ nlabels' = nlabels + 3
           /\ UNCHANGED <<phase, node, cases, defaultcase, names, code, tree,
                          machine>>

Opt(e) == IF e = NONE THEN << >> ELSE <<Act(e)>>

ForGets ==
    /\ Gets({"for"})
    /\ LET f == Frame
       IN  Returns(Opt(f.init) \o <<Lbl(f.beg)>>
                   \o (IF f.cond = NONE THEN << >>
                       ELSE If(f.cond, nlabels, << >>, <<Jmp(f.end)>>))
                   \o node.code
                   \o <<Lbl(f.mid)>> \o Opt(f.step)
                   \o <<Jmp(f.beg), Lbl(f.end)>>,
                   [k |-> "for", init |-> f.init, e |-> f.cond, step |-> f.step,
                    body |-> node.tree])
    /\ nlabels' = nlabels + (IF Frame.cond = NONE THEN 0 ELSE 3)
    /\ RestoreJumpLabels
    /\ open' = Front(open)
    /\ UNCHANGED <<phase, cases, defaultcase, names, tokens, code, tree,
                   machine>>

\* while and do: the label continue jumps to is the loop's beginning
OpenLoop == /\ \E k \in {"while", "do"} :
                 /\ Reads(k)
                 /\ Enter([k |-> k, beg |-> nlabels, end |-> nlabels + 1,
                           cond |-> Event("cond"),
                           ocontinue |-> lcontinue, obreak |-> lbreak])
            /\ SetJumpLabels(nlabels, nlabels + 1)
            /\ nlabels' = nlabels + 2
            /\ UNCHANGED <<phase, node, cases, defaultcase, names, code, tree,
                           machine>>

\* mutant: no jump back to the condition
WhileGetsNoJump ==
    /\ Gets({"while"})
    /\ LET f == Frame
       IN  Returns(<<Lbl(f.beg)>>
                   \o If(f.cond, nlabels, node.code, <<Jmp(f.end)>>)
                   \o <<Lbl(f.end)>>,
                   [k |-> "while", e |-> f.cond, body |-> node.tree])
    /\ nlabels' = nlabels + 3
    /\ RestoreJumpLabels
    /\ open' = Front(open)
    /\ UNCHANGED <<phase, cases, defaultcase, names, tokens, code, tree,
                   machine>>

WhileGets ==
    /\ Gets({"while"})
    /\ LET f == Frame
       IN  Returns(<<Lbl(f.beg)>>
                   \o If(f.cond, nlabels, node.code, <<Jmp(f.end)>>)
                   \o <<Jmp(f.beg), Lbl(f.end)>>,
                   [k |-> "while", e |-> f.cond, body |-> node.tree])
    /\ nlabels' = nlabels + 3
    /\ RestoreJumpLabels
    /\ open' = Front(open)
    /\ UNCHANGED <<phase, cases, defaultcase, names, tokens, code, tree,
                   machine>>

DoGets ==
    /\ Gets({"do"})
    /\ LET f == Frame
       IN  Returns(<<Lbl(f.beg)>> \o node.code
                   \o If(f.cond, nlabels, <<Jmp(f.beg)>>, NONE)
                   \o <<Lbl(f.end)>>,
                   [k |-> "do", e |-> f.cond, body |-> node.tree])
    /\ nlabels' = nlabels + 2
    /\ RestoreJumpLabels
    /\ open' = Front(open)
    /\ UNCHANGED <<phase, cases, defaultcase, names, tokens, code, tree,
                   machine>>

-----------------------------------------------------------------------------
(* switch *)
OpenSwitch ==
    /\ Reads("switch")
    /\ Enter([k |-> "switch", e |-> Event("value"), end |-> nlabels,
              ocases |-> cases, odefaultcase |-> defaultcase, obreak |-> lbreak])
    /\ cases' = << >> /\ defaultcase' = NONE /\ lbreak' = nlabels
    /\ nlabels' = nlabels + 1
    /\ UNCHANGED <<phase, node, lcontinue, names, code, tree, machine>>

\* make_switch_jump of each case, in the order of the labels: four
\* instructions, with two labels from l on
Jump(c, l) == EmitIf(<<Cmp(c.range, l, l + 1)>>, l, <<Jmp(c.label)>>, NONE)

\* mutant: two labels of each jump counted as one
DispatchOneLabel ==
    [p \in 1 .. 4 * Len(cases) |->
        LET n == (p - 1) \div 4
        IN  Jump(cases[n + 1], nlabels + n)[((p - 1) % 4) + 1]]

Dispatch == [p \in 1 .. 4 * Len(cases) |->
                LET n == (p - 1) \div 4
                IN  Jump(cases[n + 1], nlabels + 2 * n)[((p - 1) % 4) + 1]]

SwitchGets ==
    /\ Gets({"switch"})
    /\ LET f == Frame
       IN  Returns(<<Store(f.e)>> \o Dispatch
                   \o <<Jmp(IF defaultcase # NONE THEN defaultcase ELSE f.end)>>
                   \o node.code \o <<Lbl(f.end)>>,
                   [k |-> "switch", e |-> f.e, body |-> node.tree])
    /\ nlabels' = nlabels + 2 * Len(cases)
    /\ cases' = Frame.ocases /\ defaultcase' = Frame.odefaultcase
    /\ lbreak' = Frame.obreak
    /\ open' = Front(open)
    /\ UNCHANGED <<phase, lcontinue, names, tokens, code, tree, machine>>

\* check_case_duplicates: the new range against all the others
\* mutant: only equal ranges are duplicates
OverlapsEqual(r) == \E n \in DOMAIN cases : r = cases[n].range

Overlaps(r) == \E n \in DOMAIN cases :
                  ~ (r[2] < cases[n].range[1] \/ cases[n].range[2] < r[1])

OpenCase ==
    /\ Reads("case")
    /\ \E r \in CaseRange :
          IF cases = NONE THEN Errors          \* stray case label
          ELSE IF r[1] > r[2] \/ Overlaps(r) THEN Errors
          ELSE /\ cases' = Append(cases, [range |-> r, label |-> nlabels])
               /\ Enter([k |-> "label", label |-> nlabels,
                         tree |-> [k |-> "case", range |-> r]])
               /\ nlabels' = nlabels + 1
               /\ UNCHANGED <<phase, node, lbreak, lcontinue, defaultcase,
                              names, code, tree, machine>>

\* Nothing asks whether a default label is inside a switch.
OpenDefault ==
    /\ Reads("default")
    /\ IF defaultcase # NONE THEN Errors       \* duplicate default
       ELSE /\ defaultcase' = nlabels
            /\ Enter([k |-> "label", label |-> nlabels,
                      tree |-> [k |-> "default"]])
            /\ nlabels' = nlabels + 1
            /\ UNCHANGED <<phase, node, lbreak, lcontinue, cases, names, code,
                           tree, machine>>

OpenLabel ==
    /\ Reads("label")
    /\ \E l \in Label :
          IF l \in labels THEN Errors          \* duplicate label
          ELSE /\ labels' = labels \cup {l}
               /\ Enter([k |-> "label", label |-> l,
                         tree |-> [k |-> "label", l |-> l]])
               /\ UNCHANGED <<phase, node, context, gotos, nlabels, code, tree,
                              machine>>

\* read_label_tail
LabelGets == /\ Gets({"label"})
             /\ Returns(<<Lbl(Frame.label)>> \o node.code,
                        [body |-> node.tree] @@ Frame.tree)
             /\ open' = Front(open)
             /\ UNCHANGED <<phase, context, names, counts, code, tree, machine>>

-----------------------------------------------------------------------------
(* The code runs.  What an expression yields is any value. *)
parsed  == <<phase, open, node, context, names, counts, code, tree>>
At(op)  == phase = "run" /\ code[pc][1] = op
Instr   == code[pc]
Room    == Len(events) < MaxEvents
Emit(e) == Room /\ events' = Append(events, e)

\* Where a label is in the code
Place(l) == CHOOSE p \in DOMAIN code : code[p] = Lbl(l)

RunAct   == At("act") /\ Emit(<<Instr[2], NONE>>) /\ pc' = pc + 1
            /\ UNCHANGED <<parsed, tmp>>
RunTest  == At("test")
            /\ \E b \in BOOLEAN :
                  /\ Emit(<<Instr[2], b>>)
                  /\ pc' = Place(IF b THEN Instr[3] ELSE Instr[4])
            /\ UNCHANGED <<parsed, tmp>>
RunStore == At("store")
            /\ \E v \in Value : Emit(<<Instr[2], v>>) /\ tmp' = v
            /\ pc' = pc + 1
            /\ UNCHANGED parsed
RunCmp   == At("cmp")
            /\ pc' = Place(IF Instr[2][1] <= tmp /\ tmp <= Instr[2][2]
                           THEN Instr[3] ELSE Instr[4])
            /\ UNCHANGED <<parsed, tmp, events>>
RunLabel == At("label") /\ pc' = pc + 1 /\ UNCHANGED <<parsed, tmp, events>>
RunJump  == At("jump") /\ pc' = Place(Instr[2])
            /\ UNCHANGED <<parsed, tmp, events>>
RunRet   == At("ret") /\ phase' = "end"
            /\ UNCHANGED <<open, node, context, names, counts, code, tree,
                           machine>>

-----------------------------------------------------------------------------
ReadStmt == \/ ExprStmt \/ ReadReturn \/ ReadBreak \/ ReadContinue \/ ReadGoto
            \/ OpenBlock \/ OpenIf \/ OpenFor \/ OpenLoop \/ OpenSwitch
            \/ OpenCase \/ OpenDefault \/ OpenLabel
Finish   == \/ BlockGets \/ CloseBlock \/ CloseFunction \/ IfGets \/ ReadElse
            \/ ElseGets \/ ForGets \/ WhileGets \/ DoGets \/ SwitchGets
            \/ LabelGets
Run      == \/ RunAct \/ RunTest \/ RunStore \/ RunCmp \/ RunLabel \/ RunJump
            \/ RunRet

Next == ReadStmt \/ Finish \/ Run

Spec == Init /\ [][Next]_vars
-----------------------------------------------------------------------------
(* The innermost of the first d calls on a stack that reads one of some kinds *)
(* of statements, or 0; and where break and continue go to in it             *)
Innermost(s, kinds, d) == Max({0} \cup {n \in 1 .. d : s[n].k \in kinds})

Loops      == {"for", "while", "do"}
Breakables == Loops \cup {"switch"}

BreakIn(s, d) ==
    LET n == Innermost(s, Breakables, d) IN IF n = 0 THEN NONE ELSE s[n].end
ContinueIn(s, d) ==
    LET n == Innermost(s, Loops, d)
    IN  IF n = 0 THEN NONE ELSE IF s[n].k = "for" THEN s[n].mid ELSE s[n].beg

\* break and continue jump out of the innermost statement they belong to, and
\* the labels being collected are the innermost switch's, at every point of the
\* parse: each call restores what it changed, whatever was read in between.
JumpTargets ==
    phase = "parse" =>
        /\ lbreak = BreakIn(open, Len(open))
        /\ lcontinue = ContinueIn(open, Len(open))
        /\ cases = NONE <=> Innermost(open, {"switch"}, Len(open)) = 0

\* Every label the code jumps to is in it, once.
LabelsUnique ==
    phase = "run" =>
      LET targets == (UNION {{code[p][n] : n \in 3 .. 4} :
                                p \in {q \in DOMAIN code :
                                         code[q][1] \in {"test", "cmp"}}})
                     \cup {code[p][2] : p \in {q \in DOMAIN code :
                                                 code[q][1] = "jump"}}
      IN  \A l \in targets :
             Cardinality({p \in DOMAIN code : code[p] = Lbl(l)}) = 1

\* No value has two cases in one switch (C11 6.8.4.2p3, parse.c:2690).
InRange(v, r) == r[1] <= v /\ v <= r[2]

CasesDisjoint ==
    cases # NONE =>
      \A v \in Value : Cardinality({n \in DOMAIN cases :
                                      InRange(v, cases[n].range)}) <= 1
=============================================================================
