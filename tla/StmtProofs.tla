----------------------------- MODULE StmtProofs -----------------------------
(***************************************************************************)
(* What the parser of statements does for every program: break and continue *)
(* always mean the innermost statement they may leave (JumpsGoOut), no value  *)
(* has two cases in one switch (CasesAreDisjoint), every label jumped to is   *)
(* in the code once (LabelsAreUnique), and a run stays in it (RunsStay).      *)
(*                                                                          *)
(* JumpTargets speaks of the globals of parse.c only.  It is preserved when  *)
(* a call ends because what the call saved was right when it began, so the   *)
(* invariant, Contexts, says that of every call on the stack; and Ranged     *)
(* says of the cases every enclosing switch has put aside what CasesDisjoint *)
(* says of those being read.  Shape is the type invariant.                   *)
(***************************************************************************)
EXTENDS Stmt, Lemmas, FiniteSetTheorems

-----------------------------------------------------------------------------
(* Shapes *)
Target == Nat \cup {NONE}
Kinds  == {"block", "if", "else", "for", "while", "do", "switch", "label"}

IsCall(f) ==
    /\ f.k \in Kinds
    /\ f.k = "block" => f.list \in Seq(Instructions)
    /\ f.k = "else" => f.then.code \in Seq(Instructions)
    /\ f.k \in {"if", "else", "switch"} => f.e \in Expr
    /\ f.k \in {"while", "do"} => f.cond \in Expr
    /\ f.k = "for" => /\ {f.init, f.cond, f.step} \subseteq Expr \cup {NONE}
                      /\ f.mid \in Nat
    /\ f.k \in Loops => f.beg \in Nat /\ f.ocontinue \in Target
    /\ f.k \in Breakables => f.end \in Nat /\ f.obreak \in Target
    /\ f.k = "switch" => /\ f.ocases \in Seq(Cases) \cup {NONE}
                         /\ f.odefaultcase \in Target
    /\ f.k = "label" => f.label \in Names

\* The first call reads the body of the function.
Calls(s) == /\ Stack(s)
            /\ \A n \in 1 .. Len(s) : IsCall(s[n])
            /\ Len(s) > 0 => s[1].k = "block"

Shape ==
    /\ phase \in {"parse", "error", "run", "end"}
    /\ nlabels \in Nat /\ ntokens \in Nat
    /\ labels \subseteq Label /\ gotos \subseteq Label
    /\ lbreak \in Target /\ lcontinue \in Target /\ defaultcase \in Target
    /\ cases \in Seq(Cases) \cup {NONE}
    /\ node # NoNode => node.code \in Seq(Instructions)
    /\ code \in Seq(Instructions)
    /\ Calls(open)

LEMMA NonEmpty ==
  ASSUME NEW s, Stack(s)
  PROVE  s # << >> <=> Len(s) > 0
BY DEF Stack

LEMMA CallsPush ==
  ASSUME NEW s, Calls(s), s # << >>, NEW f, IsCall(f)
  PROVE  Calls(Append(s, f))
<1>1. Stack(s) /\ Len(s) \in Nat /\ Len(s) > 0
  BY StackHas, NonEmpty DEF Calls
<1>2. \A n \in 1 .. Len(s) + 1 : n \in 1 .. Len(s) \/ n = Len(s) + 1
  BY <1>1
<1>3. /\ Stack(Append(s, f)) /\ Len(Append(s, f)) = Len(s) + 1
      /\ Append(s, f)[Len(s) + 1] = f
      /\ \A n \in 1 .. Len(s) : Append(s, f)[n] = s[n]
  BY <1>1, StackPush
<1>4. 1 \in 1 .. Len(s) /\ Append(s, f)[1] = s[1]
  BY <1>1, <1>3
<1>5. \A n \in 1 .. Len(s) + 1 : IsCall(Append(s, f)[n])
  BY <1>2, <1>3 DEF Calls
<1> QED
  BY <1>1, <1>3, <1>4, <1>5 DEF Calls

LEMMA CallsPop ==
  ASSUME NEW s, Calls(s), s # << >>
  PROVE  Calls(Front(s)) /\ IsCall(Last(s))
<1>1. Stack(s) /\ Len(s) \in Nat /\ Len(s) > 0
  BY StackHas, NonEmpty DEF Calls
<1>2. /\ Stack(Front(s)) /\ Len(Front(s)) = Len(s) - 1 /\ Last(s) = s[Len(s)]
      /\ \A n \in 1 .. Len(s) - 1 : Front(s)[n] = s[n]
  BY <1>1, StackPop
<1>3. Len(s) \in 1 .. Len(s) /\ \A n \in 1 .. Len(s) - 1 : n \in 1 .. Len(s)
  BY <1>1
<1>4. Len(s) - 1 > 0 => 1 \in 1 .. Len(s) - 1
  BY <1>1
<1> QED
  BY <1>1, <1>2, <1>3, <1>4 DEF Calls

\* The topmost call goes on: its record changes, the body of the function stays.
LEMMA CallsTop ==
  ASSUME NEW s, Calls(s), s # << >>, NEW f, IsCall(f),
         Last(s).k = "block" => f.k = "block"
  PROVE  Calls([s EXCEPT ![Len(s)] = f])
<1> DEFINE t == [s EXCEPT ![Len(s)] = f]
<1>1. Stack(s) /\ Len(s) \in Nat /\ Len(s) > 0 /\ Last(s) = s[Len(s)]
  BY StackHas, NonEmpty, StackPop DEF Calls
<1>2. \A n \in 1 .. Len(s) : n \in 1 .. Len(s) - 1 \/ n = Len(s)
  BY <1>1
<1>3. /\ Stack(t) /\ Len(t) = Len(s) /\ t[Len(s)] = f
      /\ \A n \in 1 .. Len(s) - 1 : t[n] = s[n]
  BY <1>1, StackTop
<1> HIDE DEF t
<1>4. 1 \in 1 .. Len(s) /\ \A n \in 1 .. Len(s) - 1 : n \in 1 .. Len(s)
  BY <1>1
<1>5. \A n \in 1 .. Len(s) : IsCall(t[n])
  BY <1>2, <1>3, <1>4 DEF Calls
<1>6. t[1].k = "block"
  BY <1>1, <1>2, <1>3, <1>4 DEF Calls
<1>7. Calls(t)
  BY <1>3, <1>5, <1>6 DEF Calls
<1> QED
  BY <1>7 DEF t

-----------------------------------------------------------------------------
(* Instructions *)
LEMMA InstructionsAre ==
  /\ \A e \in Expr : Act(e) \in Instructions /\ Store(e) \in Instructions
  /\ \A e \in Expr, l \in Names, m \in Names : Test(e, l, m) \in Instructions
  /\ \A r \in CaseRange, l \in Names, m \in Names : Cmp(r, l, m) \in Instructions
  /\ \A l \in Names : Lbl(l) \in Instructions /\ Jmp(l) \in Instructions
  /\ Ret \in Instructions
BY DEF Instructions, Act, Store, Test, Cmp, Lbl, Jmp, Ret

LEMMA OneInstruction ==
  ASSUME NEW i \in Instructions
  PROVE  <<i>> \in Seq(Instructions)
OBVIOUS

LEMMA EmitIfShape ==
  ASSUME NEW branch \in Seq(Instructions), NEW l \in Nat,
         NEW then \in Seq(Instructions), NEW els \in Seq(Instructions) \cup {NONE}
  PROVE  EmitIf(branch, l, then, els) \in Seq(Instructions)
<1>1. l \in Names /\ l + 1 \in Names /\ l + 2 \in Names
  BY DEF Names
<1>2. /\ <<Lbl(l)>> \in Seq(Instructions) /\ <<Lbl(l + 1)>> \in Seq(Instructions)
      /\ <<Lbl(l + 2)>> \in Seq(Instructions)
      /\ <<Jmp(l + 2), Lbl(l + 1)>> \in Seq(Instructions)
  BY <1>1, InstructionsAre
<1> HIDE DEF Instructions
<1>3. CASE els = NONE
  BY <1>2, <1>3 DEF EmitIf
<1>4. CASE els # NONE
  BY <1>2, <1>4 DEF EmitIf
<1> QED
  BY <1>3, <1>4

LEMMA IfShape ==
  ASSUME NEW e \in Expr, NEW l \in Nat,
         NEW then \in Seq(Instructions), NEW els \in Seq(Instructions) \cup {NONE}
  PROVE  If(e, l, then, els) \in Seq(Instructions)
<1>1. l \in Names /\ l + 1 \in Names
  BY DEF Names
<1>2. <<Test(e, l, l + 1)>> \in Seq(Instructions)
  BY <1>1, InstructionsAre
<1> QED
  BY <1>2, EmitIfShape DEF If

LEMMA FourLong ==
  ASSUME NEW S, NEW a \in S, NEW b \in S, NEW c \in S, NEW d \in S
  PROVE  LET s == <<a>> \o <<b>> \o <<c>> \o <<d>>
         IN  /\ s \in Seq(S) /\ Len(s) = 4
             /\ s[1] = a /\ s[2] = b /\ s[3] = c /\ s[4] = d
OBVIOUS

LEMMA JumpShape ==
  ASSUME NEW c \in Cases, NEW l \in Nat
  PROVE  LET j == Jump(c, l)
         IN  /\ j \in Seq(Instructions) /\ Len(j) = 4
             /\ j[1] = Cmp(c.range, l, l + 1) /\ j[2] = Lbl(l)
             /\ j[3] = Jmp(c.label) /\ j[4] = Lbl(l + 1)
<1>1. l \in Names /\ l + 1 \in Names /\ c.label \in Names /\ c.range \in CaseRange
  BY DEF Names, Cases
<1>2. /\ Cmp(c.range, l, l + 1) \in Instructions /\ Lbl(l) \in Instructions
      /\ Jmp(c.label) \in Instructions /\ Lbl(l + 1) \in Instructions
  BY <1>1, InstructionsAre
<1>3. Jump(c, l) = <<Cmp(c.range, l, l + 1)>> \o <<Lbl(l)>> \o <<Jmp(c.label)>>
                   \o <<Lbl(l + 1)>>
  BY DEF Jump, EmitIf
<1> QED
  BY <1>2, <1>3, FourLong

\* The n-th of the jumps is at 4 (n - 1) + 1 .. 4 n.
LEMMA DispatchShape ==
  ASSUME nlabels \in Nat, cases \in Seq(Cases)
  PROVE  /\ Dispatch \in Seq(Instructions) /\ Len(Dispatch) = 4 * Len(cases)
         /\ \A p \in 1 .. Len(Dispatch) :
               \E n \in 1 .. Len(cases), m \in 1 .. 4 :
                  /\ p = 4 * (n - 1) + m
                  /\ Dispatch[p] = Jump(cases[n], nlabels + 2 * (n - 1))[m]
<1> DEFINE J(n) == Jump(cases[n], nlabels + 2 * (n - 1))
           E(p) == J((p - 1) \div 4 + 1)[((p - 1) % 4) + 1]
           N == 4 * Len(cases)
<1>0. Len(cases) \in Nat /\ N \in Nat
  OBVIOUS
<1>1. ASSUME NEW p \in 1 .. N
      PROVE  /\ (p - 1) \div 4 + 1 \in 1 .. Len(cases)
             /\ ((p - 1) % 4) + 1 \in 1 .. 4
             /\ p = 4 * (((p - 1) \div 4 + 1) - 1) + (((p - 1) % 4) + 1)
  BY <1>0
<1>2. ASSUME NEW n \in 1 .. Len(cases), NEW m \in 1 .. 4
      PROVE  J(n)[m] \in Instructions
  <2>1. cases[n] \in Cases /\ nlabels + 2 * (n - 1) \in Nat
    BY <1>0
  <2>2. J(n) \in Seq(Instructions) /\ Len(J(n)) = 4
    BY <2>1, JumpShape
  <2> HIDE DEF J, Instructions
  <2> QED
    BY <2>2, ElementShape
<1>3. Dispatch = [p \in 1 .. N |-> E(p)]
  <2>1. ASSUME NEW p \in 1 .. N
        PROVE  E(p) = Jump(cases[(p - 1) \div 4 + 1],
                           nlabels + 2 * ((p - 1) \div 4))[((p - 1) % 4) + 1]
    <3>1. (p - 1) \div 4 + 1 - 1 = (p - 1) \div 4
      BY <1>0
    <3> QED
      BY <3>1
  <2> QED
    BY <2>1 DEF Dispatch
<1> HIDE DEF J
<1>4. \A p \in 1 .. N : E(p) \in Instructions
  BY <1>1, <1>2
<1> HIDE DEF E, Instructions
<1>5. [p \in 1 .. N |-> E(p)] \in Seq(Instructions)
  BY <1>0, <1>4
<1>6. Len([p \in 1 .. N |-> E(p)]) = N
  BY <1>0, <1>4
<1>7. ASSUME NEW p \in 1 .. N
      PROVE  \E n \in 1 .. Len(cases), m \in 1 .. 4 :
                  /\ p = 4 * (n - 1) + m
                  /\ Dispatch[p] = J(n)[m]
  <2>1. Dispatch[p] = E(p)
    BY <1>3
  <2> WITNESS (p - 1) \div 4 + 1 \in 1 .. Len(cases), ((p - 1) % 4) + 1 \in 1 .. 4
  <2> QED
    BY <1>1, <2>1 DEF E
<1> QED
  BY <1>3, <1>5, <1>6, <1>7 DEF J

-----------------------------------------------------------------------------
LEMMA EventIs ==
  ASSUME ntokens \in Nat
  PROVE  \A part \in {"act", "cond", "init", "step", "value"} : Event(part) \in Expr
BY DEF Event, Expr

LEMMA NodeIs ==
  ASSUME NEW c, NEW t
  PROVE  Node(c, t).code = c /\ Node(c, t).tree = t
BY DEF Node

LEMMA InitShape == Init => Shape
<1> SUFFICES ASSUME Init PROVE Shape
  OBVIOUS
<1> DEFINE f == [k |-> "block", list |-> << >>, trees |-> << >>]
<1>1. << >> \in Seq(Instructions)
  BY EmptySeq
<1>2. IsCall(f)
  BY <1>1 DEF IsCall, Kinds, Loops, Breakables
<1> HIDE DEF f
<1>3. <<f>> \in Seq({f}) /\ Len(<<f>>) = 1 /\ <<f>>[1] = f
  OBVIOUS
<1>4. Stack(<<f>>)
  BY <1>3, StackIs
<1>5. Calls(<<f>>)
  BY <1>2, <1>3, <1>4 DEF Calls, f
<1> QED
  BY <1>1, <1>5 DEF Init, Shape, Target, f

LEMMA LeafShape ==
  ASSUME Shape, ExprStmt \/ ReadReturn \/ ReadBreak \/ ReadContinue \/ ReadGoto
  PROVE  Shape'
<1>1. ntokens' \in Nat
  BY DEF Shape, ExprStmt, ReadReturn, ReadBreak, ReadContinue, ReadGoto, Reads
<1>2. UNCHANGED <<open, context, nlabels, code, labels>>
  BY DEF ExprStmt, ReadReturn, ReadBreak, ReadContinue, ReadGoto, Errors,
         names, context
<1>3. gotos' \subseteq Label /\ phase' \in {"parse", "error", "run", "end"}
  BY DEF Shape, ExprStmt, ReadReturn, ReadBreak, ReadContinue, ReadGoto, Errors, names
<1>4. node' # NoNode => node'.code \in Seq(Instructions)
  <2>1. CASE ExprStmt
    <3>2. Event("act") \in Expr
      BY EventIs DEF Shape
    <3>3. <<Act(Event("act"))>> \in Seq(Instructions)
      BY <3>2, InstructionsAre, OneInstruction
    <3> QED
      BY <2>1, <3>3, NodeIs DEF ExprStmt, Returns
  <2>2. CASE ReadReturn
    <3>1. <<Ret>> \in Seq(Instructions)
      BY InstructionsAre, OneInstruction
    <3> QED
      BY <2>2, <3>1, NodeIs DEF ReadReturn, Returns
  <2>3. CASE ReadBreak
    <3>1. CASE lbreak = NONE
      BY <2>3, <3>1 DEF Shape, ReadBreak, Errors
    <3>2. CASE lbreak # NONE
      <4>1. lbreak \in Names
        BY <3>2 DEF Shape, Target, Names
      <4>2. <<Jmp(lbreak)>> \in Seq(Instructions)
        BY <4>1, InstructionsAre, OneInstruction
      <4> QED
        BY <2>3, <3>2, <4>2, NodeIs DEF ReadBreak, Returns
    <3> QED
      BY <3>1, <3>2
  <2>4. CASE ReadContinue
    <3>1. CASE lcontinue = NONE
      BY <2>4, <3>1 DEF Shape, ReadContinue, Errors
    <3>2. CASE lcontinue # NONE
      <4>1. lcontinue \in Names
        BY <3>2 DEF Shape, Target, Names
      <4>2. <<Jmp(lcontinue)>> \in Seq(Instructions)
        BY <4>1, InstructionsAre, OneInstruction
      <4> QED
        BY <2>4, <3>2, <4>2, NodeIs DEF ReadContinue, Returns
    <3> QED
      BY <3>1, <3>2
  <2>5. CASE ReadGoto
    <3>1. PICK l \in Label : Returns(<<Jmp(l)>>, [k |-> "goto", l |-> l])
      BY <2>5 DEF ReadGoto
    <3>2. <<Jmp(l)>> \in Seq(Instructions)
      BY InstructionsAre, OneInstruction DEF Names
    <3> QED
      BY <3>1, <3>2, NodeIs DEF Returns
  <2> QED
    BY <2>1, <2>2, <2>3, <2>4, <2>5
<1> QED
  BY <1>1, <1>2, <1>3, <1>4 DEF Shape, context

\* The records a call starts with
LEMMA OpenedCalls ==
  ASSUME Shape
  PROVE  /\ IsCall([k |-> "block", list |-> << >>, trees |-> << >>])
         /\ \A e \in Expr : IsCall([k |-> "if", e |-> e])
         /\ \A l \in Names : \A t : IsCall([k |-> "label", label |-> l, tree |-> t])
         /\ \A e \in Expr :
               IsCall([k |-> "switch", e |-> e, end |-> nlabels, ocases |-> cases,
                       odefaultcase |-> defaultcase, obreak |-> lbreak])
<1>1. << >> \in Seq(Instructions)
  BY EmptySeq
<1> QED
  BY <1>1 DEF IsCall, Kinds, Loops, Breakables, Shape

LEMMA OpenedLoops ==
  ASSUME Shape
  PROVE  /\ \A e \in Expr : \A k \in {"while", "do"} :
              IsCall([k |-> k, beg |-> nlabels, end |-> nlabels + 1, cond |-> e,
                      ocontinue |-> lcontinue, obreak |-> lbreak])
         /\ \A i, c, t \in Expr \cup {NONE} :
              IsCall([k |-> "for", beg |-> nlabels, mid |-> nlabels + 1,
                      end |-> nlabels + 2, init |-> i, cond |-> c, step |-> t,
                      ocontinue |-> lcontinue, obreak |-> lbreak])
<1>1. /\ nlabels \in Nat /\ nlabels + 1 \in Nat /\ nlabels + 2 \in Nat
      /\ lcontinue \in Target /\ lbreak \in Target
  BY DEF Shape
<1> QED
  BY <1>1 DEF IsCall, Kinds, Loops, Breakables

\* A call that begins: OpenFor, OpenLoop, ... put its record on the stack.
Opens == \/ OpenBlock \/ OpenIf \/ OpenFor \/ OpenLoop \/ OpenSwitch
         \/ OpenCase \/ OpenDefault \/ OpenLabel

LEMMA OpensShape ==
  ASSUME Shape, Opens
  PROVE  Shape'
<1>1. /\ ntokens' \in Nat /\ UNCHANGED <<node, gotos, code>>
      /\ phase' \in {"parse", "error", "run", "end"}
  <2>1. ntokens \in Nat /\ phase \in {"parse", "error", "run", "end"}
    BY DEF Shape
  <2>2. CASE OpenBlock
    BY <2>1, <2>2 DEF OpenBlock, Reads, Errors, names
  <2>3. CASE OpenIf
    BY <2>1, <2>3 DEF OpenIf, Reads, Errors, names
  <2>4. CASE OpenFor
    BY <2>1, <2>4 DEF OpenFor, Reads, Errors, names
  <2>5. CASE OpenLoop
    BY <2>1, <2>5 DEF OpenLoop, Reads, Errors, names
  <2>6. CASE OpenSwitch
    BY <2>1, <2>6 DEF OpenSwitch, Reads, Errors, names
  <2>7. CASE OpenCase
    BY <2>1, <2>7 DEF OpenCase, Reads, Errors, names
  <2>8. CASE OpenDefault
    BY <2>1, <2>8 DEF OpenDefault, Reads, Errors, names
  <2>9. CASE OpenLabel
    BY <2>1, <2>9 DEF OpenLabel, Reads, Errors, names
  <2> QED
    BY <2>2, <2>3, <2>4, <2>5, <2>6, <2>7, <2>8, <2>9 DEF Opens
<1>2. labels' \subseteq Label
  BY DEF Shape, Opens, OpenBlock, OpenIf, OpenFor, OpenLoop, OpenSwitch, OpenCase,
         OpenDefault, OpenLabel, Errors, names
<1>3. /\ nlabels' \in Nat
      /\ lbreak' \in Target /\ lcontinue' \in Target /\ defaultcase' \in Target
  <2>1. /\ nlabels \in Nat /\ lbreak \in Target /\ lcontinue \in Target
        /\ defaultcase \in Target
    BY DEF Shape
  <2>2. CASE OpenBlock
    BY <2>1, <2>2 DEF OpenBlock, Errors, context, SetJumpLabels, Target
  <2>3. CASE OpenIf
    BY <2>1, <2>3 DEF OpenIf, Errors, context, SetJumpLabels, Target
  <2>4. CASE OpenFor
    BY <2>1, <2>4 DEF OpenFor, Errors, context, SetJumpLabels, Target
  <2>5. CASE OpenLoop
    BY <2>1, <2>5 DEF OpenLoop, Errors, context, SetJumpLabels, Target
  <2>6. CASE OpenSwitch
    BY <2>1, <2>6 DEF OpenSwitch, Errors, context, SetJumpLabels, Target
  <2>7. CASE OpenCase
    BY <2>1, <2>7 DEF OpenCase, Errors, context, SetJumpLabels, Target
  <2>8. CASE OpenDefault
    BY <2>1, <2>8 DEF OpenDefault, Errors, context, SetJumpLabels, Target
  <2>9. CASE OpenLabel
    BY <2>1, <2>9 DEF OpenLabel, Errors, context, SetJumpLabels, Target
  <2> QED
    BY <2>2, <2>3, <2>4, <2>5, <2>6, <2>7, <2>8, <2>9 DEF Opens
<1>4. cases' \in Seq(Cases) \cup {NONE}
  <2>1. CASE OpenSwitch
    BY <2>1, EmptySeq DEF OpenSwitch
  <2>2. CASE OpenCase
    <3>1. PICK r \in CaseRange :
            \/ Errors
            \/ cases # NONE /\ cases' = Append(cases, [range |-> r, label |-> nlabels])
      BY <2>2 DEF OpenCase
    <3>2. [range |-> r, label |-> nlabels] \in Cases
      BY DEF Shape, Cases
    <3>3. Errors => cases' = cases
      BY DEF Errors, context
    <3> HIDE DEF Cases
    <3> QED
      BY <3>1, <3>2, <3>3, AppendShape DEF Shape
  <2>3. CASE OpenBlock \/ OpenIf \/ OpenFor \/ OpenLoop \/ OpenDefault \/ OpenLabel
    BY <2>3 DEF Shape, OpenBlock, OpenIf, OpenFor, OpenLoop, OpenDefault, OpenLabel,
                Errors, context
  <2> QED
    BY <2>1, <2>2, <2>3 DEF Opens
<1>5. Calls(open')
  <2>1. Calls(open) /\ \A part \in {"act", "cond", "init", "step", "value"} : Event(part) \in Expr
    BY EventIs DEF Shape
  <2>2. ASSUME Errors PROVE Calls(open')
    BY <2>1, <2>2 DEF Errors
  <2>a. open # << >>
    BY DEF Opens, OpenBlock, OpenIf, OpenFor, OpenLoop, OpenSwitch, OpenCase,
           OpenDefault, OpenLabel, Reads
  <2>3. ASSUME NEW f, IsCall(f), Enter(f) PROVE Calls(open')
    BY <2>1, <2>3, <2>a, CallsPush DEF Enter
  <2>4. CASE OpenBlock
    BY <2>3, <2>4, OpenedCalls DEF OpenBlock
  <2>5. CASE OpenIf
    BY <2>1, <2>3, <2>5, OpenedCalls DEF OpenIf
  <2>6. CASE OpenFor
    <3>1. PICK i, c, t \in Expr \cup {NONE} :
            Enter([k |-> "for", beg |-> nlabels, mid |-> nlabels + 1,
                   end |-> nlabels + 2, init |-> i, cond |-> c, step |-> t,
                   ocontinue |-> lcontinue, obreak |-> lbreak])
      <4>1. PICK e \in [{"init", "cond", "step"} -> {<< >>, NONE}] :
               LET part(p) == IF e[p] = NONE THEN NONE ELSE Event(p)
               IN  Enter([k |-> "for", beg |-> nlabels, mid |-> nlabels + 1,
                           end |-> nlabels + 2, init |-> part("init"),
                           cond |-> part("cond"), step |-> part("step"),
                           ocontinue |-> lcontinue, obreak |-> lbreak])
        BY <2>6 DEF OpenFor
      <4> DEFINE part(p) == IF e[p] = NONE THEN NONE ELSE Event(p)
                 i == part("init")
                 c == part("cond")
                 t == part("step")
      <4>2. i \in Expr \cup {NONE} /\ c \in Expr \cup {NONE} /\ t \in Expr \cup {NONE}
        BY <2>1
      <4>3. Enter([k |-> "for", beg |-> nlabels, mid |-> nlabels + 1,
                   end |-> nlabels + 2, init |-> i, cond |-> c, step |-> t,
                   ocontinue |-> lcontinue, obreak |-> lbreak])
        BY <4>1
      <4> HIDE DEF i, c, t
      <4> QED
        BY <4>2, <4>3
    <3> QED
      BY <2>3, <3>1, OpenedLoops
  <2>7. CASE OpenLoop
    BY <2>1, <2>3, <2>7, OpenedLoops DEF OpenLoop
  <2>8. CASE OpenSwitch
    BY <2>1, <2>3, <2>8, OpenedCalls DEF OpenSwitch
  <2>9. CASE OpenCase \/ OpenDefault
    <3>1. nlabels \in Names
      BY DEF Shape, Names
    <3> QED
      BY <2>2, <2>3, <2>9, <3>1, OpenedCalls DEF OpenCase, OpenDefault
  <2>10. CASE OpenLabel
    <3>1. Label \subseteq Names
      BY DEF Names
    <3> QED
      BY <2>2, <2>3, <2>10, <3>1, OpenedCalls DEF OpenLabel
  <2> QED
    BY <2>4, <2>5, <2>6, <2>7, <2>8, <2>9, <2>10 DEF Opens
<1> QED
  BY <1>1, <1>2, <1>3, <1>4, <1>5 DEF Shape

-----------------------------------------------------------------------------
\* The code of the statements that are read in parts
LEMMA GetsFacts ==
  ASSUME Shape, NEW kinds, Gets(kinds)
  PROVE  /\ phase = "parse" /\ node # NoNode /\ open # << >> /\ Frame.k \in kinds
         /\ node.code \in Seq(Instructions) /\ IsCall(Frame)
         /\ Calls(Front(open)) /\ nlabels \in Nat
BY CallsPop DEF Gets, Shape, Frame

LEMMA ThreeParts ==
  ASSUME NEW S, NEW a \in Seq(S), NEW b \in Seq(S), NEW c \in Seq(S)
  PROVE  a \o b \in Seq(S) /\ a \o b \o c \in Seq(S)
OBVIOUS

LEMMA OptShape ==
  ASSUME NEW e \in Expr \cup {NONE}
  PROVE  Opt(e) \in Seq(Instructions)
<1>1. CASE e = NONE
  BY <1>1, EmptySeq DEF Opt
<1>2. CASE e # NONE
  BY <1>2, InstructionsAre, OneInstruction DEF Opt
<1> QED
  BY <1>1, <1>2

ForCode(f, l, body) ==
    Opt(f.init) \o <<Lbl(f.beg)>>
    \o (IF f.cond = NONE THEN << >> ELSE If(f.cond, l, << >>, <<Jmp(f.end)>>))
    \o body \o <<Lbl(f.mid)>> \o Opt(f.step) \o <<Jmp(f.beg), Lbl(f.end)>>
WhileCode(f, l, body) ==
    <<Lbl(f.beg)>> \o If(f.cond, l, body, <<Jmp(f.end)>>)
    \o <<Jmp(f.beg), Lbl(f.end)>>
DoCode(f, l, body) ==
    <<Lbl(f.beg)>> \o body \o If(f.cond, l, <<Jmp(f.beg)>>, NONE) \o <<Lbl(f.end)>>
SwitchCode(f, body) ==
    <<Store(f.e)>> \o Dispatch
    \o <<Jmp(IF defaultcase # NONE THEN defaultcase ELSE f.end)>>
    \o body \o <<Lbl(f.end)>>

LEMMA Labelled ==
  ASSUME NEW l \in Nat \cup Label
  PROVE  <<Lbl(l)>> \in Seq(Instructions) /\ <<Jmp(l)>> \in Seq(Instructions)
BY InstructionsAre, OneInstruction DEF Names

LEMMA ForCodeShape ==
  ASSUME NEW f, IsCall(f), f.k = "for", NEW l \in Nat, NEW body \in Seq(Instructions)
  PROVE  ForCode(f, l, body) \in Seq(Instructions)
<1>1. /\ f.init \in Expr \cup {NONE} /\ f.cond \in Expr \cup {NONE}
      /\ f.step \in Expr \cup {NONE} /\ f.beg \in Nat /\ f.mid \in Nat /\ f.end \in Nat
  BY DEF IsCall, Loops, Breakables
<1> DEFINE c == IF f.cond = NONE THEN << >> ELSE If(f.cond, l, << >>, <<Jmp(f.end)>>)
<1>2. c \in Seq(Instructions)
  <2>1. CASE f.cond = NONE
    BY <2>1, EmptySeq
  <2>2. CASE f.cond # NONE
    BY <1>1, <2>2, IfShape, Labelled, EmptySeq
  <2> QED
    BY <2>1, <2>2
<1>3. /\ Opt(f.init) \in Seq(Instructions) /\ Opt(f.step) \in Seq(Instructions)
      /\ <<Lbl(f.beg)>> \in Seq(Instructions) /\ <<Lbl(f.mid)>> \in Seq(Instructions)
  BY <1>1, OptShape, Labelled
<1>4. <<Jmp(f.beg), Lbl(f.end)>> \in Seq(Instructions)
  BY <1>1, InstructionsAre DEF Names
<1> HIDE DEF c, Instructions
<1>5. Opt(f.init) \o <<Lbl(f.beg)>> \o c \o body \o <<Lbl(f.mid)>> \o Opt(f.step)
      \o <<Jmp(f.beg), Lbl(f.end)>> \in Seq(Instructions)
  BY <1>2, <1>3, <1>4, ThreeParts
<1> QED
  BY <1>5 DEF ForCode, c

LEMMA WhileCodeShape ==
  ASSUME NEW f, IsCall(f), f.k = "while", NEW l \in Nat, NEW body \in Seq(Instructions)
  PROVE  WhileCode(f, l, body) \in Seq(Instructions)
<1>1. f.cond \in Expr /\ f.beg \in Nat /\ f.end \in Nat
  BY DEF IsCall, Loops, Breakables
<1>2. If(f.cond, l, body, <<Jmp(f.end)>>) \in Seq(Instructions)
  BY <1>1, IfShape, Labelled
<1>3. <<Jmp(f.beg), Lbl(f.end)>> \in Seq(Instructions)
  BY <1>1, InstructionsAre DEF Names
<1>4. <<Lbl(f.beg)>> \in Seq(Instructions)
  BY <1>1, Labelled
<1> QED
  BY <1>2, <1>3, <1>4, ThreeParts DEF WhileCode

LEMMA DoCodeShape ==
  ASSUME NEW f, IsCall(f), f.k = "do", NEW l \in Nat, NEW body \in Seq(Instructions)
  PROVE  DoCode(f, l, body) \in Seq(Instructions)
<1>1. f.cond \in Expr /\ f.beg \in Nat /\ f.end \in Nat
  BY DEF IsCall, Loops, Breakables
<1>2. If(f.cond, l, <<Jmp(f.beg)>>, NONE) \in Seq(Instructions)
  BY <1>1, IfShape, Labelled
<1>3. <<Lbl(f.beg)>> \in Seq(Instructions) /\ <<Lbl(f.end)>> \in Seq(Instructions)
  BY <1>1, Labelled
<1> QED
  BY <1>2, <1>3, ThreeParts DEF DoCode

LEMMA SwitchCodeShape ==
  ASSUME Shape, cases # NONE,
         NEW f, IsCall(f), f.k = "switch", NEW body \in Seq(Instructions)
  PROVE  SwitchCode(f, body) \in Seq(Instructions)
<1> DEFINE d == IF defaultcase # NONE THEN defaultcase ELSE f.end
<1>1. f.e \in Expr /\ f.end \in Nat /\ d \in Nat
  BY DEF IsCall, Breakables, Shape, Target
<1>2. Dispatch \in Seq(Instructions)
  BY DispatchShape DEF Shape
<1>3. <<Store(f.e)>> \in Seq(Instructions)
  BY <1>1, InstructionsAre, OneInstruction
<1>4. <<Jmp(d)>> \in Seq(Instructions) /\ <<Lbl(f.end)>> \in Seq(Instructions)
  BY <1>1, Labelled
<1> HIDE DEF d
<1>5. <<Store(f.e)>> \o Dispatch \o <<Jmp(d)>> \o body \o <<Lbl(f.end)>> \in Seq(Instructions)
  BY <1>2, <1>3, <1>4, ThreeParts
<1> QED
  BY <1>5 DEF SwitchCode, d

-----------------------------------------------------------------------------
(* The innermost call of some kind, by the number of calls looked at *)
LEMMA InnermostNone ==
  ASSUME NEW s, NEW kinds
  PROVE  Innermost(s, kinds, 0) = 0
<1>1. {0} \cup {n \in 1 .. 0 : s[n].k \in kinds} = {0}
  OBVIOUS
<1>2. Max({0}) = 0
  BY DEF Max
<1> QED
  BY <1>1, <1>2 DEF Innermost

LEMMA InnermostNext ==
  ASSUME NEW s, NEW kinds, NEW d \in Nat
  PROVE  Innermost(s, kinds, d + 1) =
           IF s[d + 1].k \in kinds THEN d + 1 ELSE Innermost(s, kinds, d)
<1> DEFINE S(m) == {0} \cup {n \in 1 .. m : s[n].k \in kinds}
<1>1. CASE s[d + 1].k \in kinds
  <2>1. d + 1 \in S(d + 1) /\ \A n \in S(d + 1) : d + 1 >= n
    BY <1>1
  <2>2. S(d + 1) \subseteq Int
    OBVIOUS
  <2> HIDE DEF S
  <2>3. \A n \in S(d + 1) : (\A m \in S(d + 1) : n >= m) => n = d + 1
    BY <2>1, <2>2
  <2>4. Max(S(d + 1)) = d + 1
    BY <2>1, <2>3 DEF Max
  <2> QED
    BY <1>1, <2>4 DEF Innermost, S
<1>2. CASE s[d + 1].k \notin kinds
  <2>1. S(d + 1) = S(d)
    BY <1>2
  <2> QED
    BY <1>2, <2>1 DEF Innermost
<1> QED
  BY <1>1, <1>2

LEMMA InnermostIs ==
  ASSUME NEW s, NEW kinds, NEW d \in Nat
  PROVE  LET n == Innermost(s, kinds, d)
         IN  n \in 0 .. d /\ (n # 0 => s[n].k \in kinds)
<1> DEFINE P(m) == LET n == Innermost(s, kinds, m)
                   IN  n \in 0 .. m /\ (n # 0 => s[n].k \in kinds)
           S    == {m \in Nat : P(m)}
<1>1. 0 \in S
  BY InnermostNone
<1>2. ASSUME NEW m \in Nat, m \in S PROVE m + 1 \in S
  BY <1>2, InnermostNext
<1> HIDE DEF S
<1>3. d \in S
  BY <1>1, <1>2, NatSetInduction
<1> QED
  BY <1>3 DEF S

LEMMA InnermostSame ==
  ASSUME NEW s, NEW t, NEW kinds, NEW d \in Nat,
         \A n \in 1 .. d : s[n] = t[n]
  PROVE  Innermost(s, kinds, d) = Innermost(t, kinds, d)
<1>1. {n \in 1 .. d : s[n].k \in kinds} = {n \in 1 .. d : t[n].k \in kinds}
  OBVIOUS
<1> QED
  BY <1>1 DEF Innermost

LEMMA WhereSame ==
  ASSUME NEW s, NEW t, NEW d \in Nat, \A n \in 1 .. d : s[n] = t[n]
  PROVE  /\ BreakIn(s, d) = BreakIn(t, d)
         /\ ContinueIn(s, d) = ContinueIn(t, d)
         /\ Innermost(s, {"switch"}, d) = Innermost(t, {"switch"}, d)
<1>1. \A kinds : Innermost(s, kinds, d) = Innermost(t, kinds, d)
  BY InnermostSame
<1>2. \A kinds : LET n == Innermost(s, kinds, d) IN n = 0 \/ n \in 1 .. d
  BY InnermostIs
<1>3. BreakIn(s, d) = BreakIn(t, d)
  BY <1>1, <1>2 DEF BreakIn
<1>4. ContinueIn(s, d) = ContinueIn(t, d)
  BY <1>1, <1>2 DEF ContinueIn
<1> QED
  BY <1>1, <1>3, <1>4

LEMMA WhereNext ==
  ASSUME NEW s, NEW d \in Nat
  PROVE  LET f == s[d + 1]
         IN  /\ BreakIn(s, d + 1) = IF f.k \in Breakables THEN f.end ELSE BreakIn(s, d)
             /\ ContinueIn(s, d + 1) =
                  IF f.k \in Loops THEN IF f.k = "for" THEN f.mid ELSE f.beg
                  ELSE ContinueIn(s, d)
             /\ Innermost(s, {"switch"}, d + 1) = 0 <=>
                  f.k # "switch" /\ Innermost(s, {"switch"}, d) = 0
<1>1. d + 1 # 0
  OBVIOUS
<1>2. BreakIn(s, d + 1) = IF s[d + 1].k \in Breakables THEN s[d + 1].end ELSE BreakIn(s, d)
  BY <1>1, InnermostNext DEF BreakIn
<1>3. ContinueIn(s, d + 1) =
        IF s[d + 1].k \in Loops
        THEN IF s[d + 1].k = "for" THEN s[d + 1].mid ELSE s[d + 1].beg
        ELSE ContinueIn(s, d)
  BY <1>1, InnermostNext DEF ContinueIn
<1>4. Innermost(s, {"switch"}, d + 1) = 0 <=>
        s[d + 1].k # "switch" /\ Innermost(s, {"switch"}, d) = 0
  BY <1>1, InnermostNext
<1> QED
  BY <1>2, <1>3, <1>4

LEMMA InASwitch ==
  ASSUME Shape, JumpTargets, Gets({"switch"})
  PROVE  cases # NONE
<1>1. /\ Stack(open) /\ open # << >> /\ phase = "parse" /\ Last(open).k = "switch"
  BY DEF Shape, Calls, Gets, Frame
<1>2. Len(open) \in Nat \ {0} /\ open[Len(open)].k = "switch"
  BY <1>1, StackPop
<1>3. PICK d \in Nat : d + 1 = Len(open)
  <2>1. Len(open) - 1 \in Nat /\ (Len(open) - 1) + 1 = Len(open)
    BY <1>2
  <2> QED
    BY <2>1
<1>4. open[d + 1].k = "switch"
  BY <1>2, <1>3
<1>5. Innermost(open, {"switch"}, d + 1) # 0
  BY <1>4, WhereNext
<1> QED
  BY <1>1, <1>3, <1>5 DEF JumpTargets

-----------------------------------------------------------------------------
\* A call that ends, or gets a statement it was waiting for
LEMMA ReturnsShape ==
  ASSUME NEW c \in Seq(Instructions), NEW t, Returns(c, t)
  PROVE  node'.code \in Seq(Instructions)
BY NodeIs DEF Returns

LEMMA FinishShape ==
  ASSUME Shape, JumpTargets, Finish
  PROVE  Shape'
<1>1. /\ ntokens' \in Nat /\ UNCHANGED <<labels, gotos>>
      /\ phase' \in {"parse", "error", "run", "end"}
  <2>1. ntokens \in Nat /\ phase \in {"parse", "error", "run", "end"}
    BY DEF Shape
  <2>2. CASE BlockGets \/ CloseBlock \/ IfGets \/ ReadElse \/ ElseGets
    BY <2>1, <2>2 DEF BlockGets, CloseBlock, IfGets, ReadElse, ElseGets,
                      names, counts, tokens
  <2>3. CASE ForGets \/ WhileGets \/ DoGets
    BY <2>1, <2>3 DEF ForGets, WhileGets, DoGets, names, tokens
  <2>4. CASE SwitchGets \/ LabelGets
    BY <2>1, <2>4 DEF SwitchGets, LabelGets, names, counts, tokens
  <2>5. CASE CloseFunction
    BY <2>1, <2>5 DEF CloseFunction, names, counts, tokens
  <2> QED
    BY <2>2, <2>3, <2>4, <2>5 DEF Finish
<1>2. CASE BlockGets
  <2>1. Gets({"block"})
    BY <1>2 DEF BlockGets
  <2>2. /\ node.code \in Seq(Instructions) /\ IsCall(Frame) /\ Frame.k = "block"
        /\ open # << >>
    BY <2>1, GetsFacts
  <2> DEFINE f == [k |-> "block", list |-> Frame.list \o node.code,
                   trees |-> Append(Frame.trees, node.tree)]
  <2>3. Frame = open[Len(open)]
    BY <2>2, StackPop DEF Frame, Shape, Calls
  <2>4. open' = [open EXCEPT ![Len(open)] = f]
    BY <1>2, <2>3 DEF BlockGets
  <2>5. Frame.list \o node.code \in Seq(Instructions)
    BY <2>2, ThreeParts DEF IsCall
  <2>6. f.k = "block" /\ f.list = Frame.list \o node.code
    OBVIOUS
  <2> HIDE DEF f
  <2>7. IsCall(f)
    BY <2>5, <2>6 DEF IsCall, Kinds, Loops, Breakables
  <2>8. Calls(open')
    BY <2>2, <2>4, <2>6, <2>7, CallsTop DEF Shape
  <2>9. node' = NoNode /\ UNCHANGED <<context, nlabels, code>>
    BY <1>2 DEF BlockGets, counts
  <2> QED
    BY <1>1, <2>8, <2>9 DEF Shape, context
<1>3. CASE CloseBlock
  <2>1. /\ open # << >> /\ Frame.k = "block" /\ Returns(Frame.list, node'.tree)
        /\ open' = Front(open) /\ UNCHANGED <<context, nlabels, code>>
    <3>1. Len(open) > 1
      BY <1>3 DEF CloseBlock
    <3>2. \A q : q = << >> => ~ (Len(q) > 1)
      OBVIOUS
    <3>3. open # << >>
      BY <3>1, <3>2, Zenon
    <3> QED
      BY <1>3, <3>3, NodeIs DEF CloseBlock, counts, Returns
  <2>2. IsCall(Frame) /\ Calls(open')
    BY <2>1, CallsPop DEF Shape, Frame
  <2>3. node'.code \in Seq(Instructions)
    BY <2>1, <2>2, ReturnsShape DEF IsCall
  <2> QED
    BY <1>1, <2>1, <2>2, <2>3 DEF Shape, context
<1>4. CASE CloseFunction
  <2>1. Len(open) = 1 /\ open' = << >> /\ UNCHANGED <<node, context, nlabels>>
    BY <1>4 DEF CloseFunction, counts
  <2>2. \A q : q = << >> => Len(q) # 1
    OBVIOUS
  <2>3. open # << >>
    BY <2>1, <2>2, Zenon
  <2>4. IsCall(Frame)
    BY <2>3, CallsPop DEF Shape, Frame
  <2>5. Calls(open')
    <3>1. PICK q : q = << >>
      OBVIOUS
    <3>3. q \in Seq({}) /\ Len(q) = 0
      BY <3>1, EmptySeq
    <3>4. 1 .. Len(q) = {} /\ ~ (Len(q) > 0)
      BY <3>3
    <3>2. Calls(<< >>)
      BY <3>1, <3>3, <3>4, StackIs DEF Calls
    <3> QED
      BY <2>1, <3>2
  <2>6. code' \in Seq(Instructions)
    <3>1. UNCHANGED code \/ code' = Frame.list \o <<Ret>>
      BY <1>4 DEF CloseFunction
    <3>2. Frame = open[1] /\ open[1].k = "block"
      BY <2>1, <2>3, StackPop DEF Frame, Shape, Calls
    <3>3. Frame.list \in Seq(Instructions) /\ <<Ret>> \in Seq(Instructions)
      BY <2>4, <3>2, InstructionsAre, OneInstruction DEF IsCall
    <3>4. Frame.list \o <<Ret>> \in Seq(Instructions)
      BY <3>3, ThreeParts
    <3> QED
      BY <3>1, <3>4 DEF Shape
  <2> QED
    BY <1>1, <2>1, <2>5, <2>6 DEF Shape, context
<1>5. CASE IfGets
  <2>1. Gets({"if"})
    BY <1>5 DEF IfGets
  <2>2. /\ node.code \in Seq(Instructions) /\ IsCall(Frame) /\ Frame.k = "if"
        /\ Calls(Front(open)) /\ nlabels \in Nat /\ open # << >>
    BY <2>1, GetsFacts
  <2>3. If(Frame.e, nlabels, node.code, NONE) \in Seq(Instructions)
    BY <2>2, IfShape DEF IsCall
  <2>4. Returns(If(Frame.e, nlabels, node.code, NONE), node'.tree)
    BY <1>5, NodeIs DEF IfGets, Returns
  <2>5. node'.code \in Seq(Instructions)
    BY <2>3, <2>4, ReturnsShape
  <2>6. /\ open' = Front(open) /\ UNCHANGED <<context, code>> /\ nlabels' \in Nat
    BY <1>5, <2>2 DEF IfGets
  <2> QED
    BY <1>1, <2>2, <2>5, <2>6 DEF Shape, context
<1>7. CASE ElseGets
  <2>1. Gets({"else"})
    BY <1>7 DEF ElseGets
  <2>2. /\ node.code \in Seq(Instructions) /\ IsCall(Frame) /\ Frame.k = "else"
        /\ Calls(Front(open)) /\ nlabels \in Nat /\ open # << >>
    BY <2>1, GetsFacts
  <2>3. If(Frame.e, nlabels, Frame.then.code, node.code) \in Seq(Instructions)
    BY <2>2, IfShape DEF IsCall
  <2>4. Returns(If(Frame.e, nlabels, Frame.then.code, node.code), node'.tree)
    BY <1>7, NodeIs DEF ElseGets, Returns
  <2>5. node'.code \in Seq(Instructions)
    BY <2>3, <2>4, ReturnsShape
  <2>6. /\ open' = Front(open) /\ UNCHANGED <<context, code>> /\ nlabels' \in Nat
    BY <1>7, <2>2 DEF ElseGets
  <2> QED
    BY <1>1, <2>2, <2>5, <2>6 DEF Shape, context
<1>6. CASE ReadElse
  <2>1. Gets({"if"})
    BY <1>6 DEF ReadElse
  <2>2. /\ node.code \in Seq(Instructions) /\ IsCall(Frame) /\ Frame.k = "if"
        /\ open # << >>
    BY <2>1, GetsFacts
  <2> DEFINE f == [k |-> "else", e |-> Frame.e, then |-> node]
  <2>3. Frame = open[Len(open)] /\ Last(open) = Frame
    BY <2>2, StackPop DEF Frame, Shape, Calls
  <2>4. open' = [open EXCEPT ![Len(open)] = f]
    BY <1>6, <2>3 DEF ReadElse
  <2>5. IsCall(f)
    BY <2>2 DEF IsCall, Kinds, Loops, Breakables
  <2> HIDE DEF f
  <2>6. Calls(open')
    BY <2>2, <2>3, <2>4, <2>5, CallsTop DEF Shape
  <2>7. node' = NoNode /\ UNCHANGED <<context, nlabels, code>>
    BY <1>6 DEF ReadElse, counts
  <2> QED
    BY <1>1, <2>6, <2>7 DEF Shape, context
<1>8. CASE ForGets
  <2>1. Gets({"for"})
    BY <1>8 DEF ForGets
  <2>2. /\ node.code \in Seq(Instructions) /\ IsCall(Frame) /\ Frame.k = "for"
        /\ Calls(Front(open)) /\ nlabels \in Nat /\ open # << >>
    BY <2>1, GetsFacts
  <2>3. ForCode(Frame, nlabels, node.code) \in Seq(Instructions)
    BY <2>2, ForCodeShape
  <2>4. Returns(ForCode(Frame, nlabels, node.code), node'.tree)
    BY <1>8, NodeIs DEF ForGets, Returns, ForCode
  <2>5. node'.code \in Seq(Instructions)
    BY <2>3, <2>4, ReturnsShape
  <2>6. /\ open' = Front(open) /\ UNCHANGED <<cases, defaultcase, code>>
        /\ nlabels' \in Nat /\ lbreak' \in Target /\ lcontinue' \in Target
    BY <1>8, <2>2 DEF ForGets, RestoreJumpLabels, IsCall, Loops, Breakables
  <2> QED
    BY <1>1, <2>2, <2>5, <2>6 DEF Shape
<1>9. CASE WhileGets
  <2>1. Gets({"while"})
    BY <1>9 DEF WhileGets
  <2>2. /\ node.code \in Seq(Instructions) /\ IsCall(Frame) /\ Frame.k = "while"
        /\ Calls(Front(open)) /\ nlabels \in Nat /\ open # << >>
    BY <2>1, GetsFacts
  <2>3. WhileCode(Frame, nlabels, node.code) \in Seq(Instructions)
    BY <2>2, WhileCodeShape
  <2>4. Returns(WhileCode(Frame, nlabels, node.code), node'.tree)
    BY <1>9, NodeIs DEF WhileGets, Returns, WhileCode
  <2>5. node'.code \in Seq(Instructions)
    BY <2>3, <2>4, ReturnsShape
  <2>6. /\ open' = Front(open) /\ UNCHANGED <<cases, defaultcase, code>>
        /\ nlabels' \in Nat /\ lbreak' \in Target /\ lcontinue' \in Target
    BY <1>9, <2>2 DEF WhileGets, RestoreJumpLabels, IsCall, Loops, Breakables
  <2> QED
    BY <1>1, <2>2, <2>5, <2>6 DEF Shape
<1>10. CASE DoGets
  <2>1. Gets({"do"})
    BY <1>10 DEF DoGets
  <2>2. /\ node.code \in Seq(Instructions) /\ IsCall(Frame) /\ Frame.k = "do"
        /\ Calls(Front(open)) /\ nlabels \in Nat /\ open # << >>
    BY <2>1, GetsFacts
  <2>3. DoCode(Frame, nlabels, node.code) \in Seq(Instructions)
    BY <2>2, DoCodeShape
  <2>4. Returns(DoCode(Frame, nlabels, node.code), node'.tree)
    BY <1>10, NodeIs DEF DoGets, Returns, DoCode
  <2>5. node'.code \in Seq(Instructions)
    BY <2>3, <2>4, ReturnsShape
  <2>6. /\ open' = Front(open) /\ UNCHANGED <<cases, defaultcase, code>>
        /\ nlabels' \in Nat /\ lbreak' \in Target /\ lcontinue' \in Target
    BY <1>10, <2>2 DEF DoGets, RestoreJumpLabels, IsCall, Loops, Breakables
  <2> QED
    BY <1>1, <2>2, <2>5, <2>6 DEF Shape
<1>11. CASE SwitchGets
  <2>1. Gets({"switch"})
    BY <1>11 DEF SwitchGets
  <2>2. /\ node.code \in Seq(Instructions) /\ IsCall(Frame) /\ Frame.k = "switch"
        /\ Calls(Front(open)) /\ nlabels \in Nat /\ open # << >>
    BY <2>1, GetsFacts
  <2>3. SwitchCode(Frame, node.code) \in Seq(Instructions)
    BY <2>1, <2>2, InASwitch, SwitchCodeShape
  <2>4. Returns(SwitchCode(Frame, node.code), node'.tree)
    BY <1>11, NodeIs DEF SwitchGets, Returns, SwitchCode
  <2>5. node'.code \in Seq(Instructions)
    BY <2>3, <2>4, ReturnsShape
  <2>6. /\ open' = Front(open) /\ UNCHANGED <<lcontinue, code>>
        /\ cases' \in Seq(Cases) \cup {NONE} /\ defaultcase' \in Target
        /\ lbreak' \in Target
    BY <1>11, <2>2 DEF SwitchGets, IsCall, Breakables
  <2>7. nlabels' \in Nat
    <3>1. cases \in Seq(Cases)
      BY <2>1, InASwitch DEF Shape
    <3>2. Len(cases) \in Nat
      BY <3>1
    <3> QED
      BY <1>11, <2>2, <3>2 DEF SwitchGets
  <2> QED
    BY <1>1, <2>2, <2>5, <2>6, <2>7 DEF Shape
<1>12. CASE LabelGets
  <2>1. Gets({"label"})
    BY <1>12 DEF LabelGets
  <2>2. /\ node.code \in Seq(Instructions) /\ IsCall(Frame) /\ Frame.k = "label"
        /\ Calls(Front(open)) /\ nlabels \in Nat /\ open # << >>
    BY <2>1, GetsFacts
  <2>3. <<Lbl(Frame.label)>> \o node.code \in Seq(Instructions)
    <3>1. Frame.label \in Nat \cup Label
      BY <2>2 DEF IsCall, Names
    <3> QED
      BY <2>2, <3>1, Labelled, ThreeParts
  <2>4. Returns(<<Lbl(Frame.label)>> \o node.code, node'.tree)
    BY <1>12, NodeIs DEF LabelGets, Returns
  <2>5. node'.code \in Seq(Instructions)
    BY <2>3, <2>4, ReturnsShape
  <2>6. /\ open' = Front(open) /\ UNCHANGED <<context, code>> /\ nlabels' \in Nat
    BY <1>12, <2>2 DEF LabelGets, counts
  <2> QED
    BY <1>1, <2>2, <2>5, <2>6 DEF Shape, context
<1> QED
  BY <1>2, <1>3, <1>4, <1>5, <1>6, <1>7, <1>8, <1>9, <1>10, <1>11, <1>12 DEF Finish

LEMMA RunShape ==
  ASSUME Shape, Run
  PROVE  Shape'
<1>1. /\ UNCHANGED <<open, node, context, names, counts, code>>
      /\ phase' \in {phase, "end"}
  BY DEF Run, RunAct, RunTest, RunStore, RunCmp, RunLabel, RunJump, RunRet, parsed
<1> QED
  BY <1>1 DEF Shape, context, names, counts, tokens

LEMMA NextShape ==
  ASSUME Shape, JumpTargets, [Next]_vars
  PROVE  Shape'
<1>1. CASE UNCHANGED vars
  BY <1>1 DEF Shape, vars, context, names, counts, tokens
<1>2. CASE Next
  BY <1>2, LeafShape, OpensShape, FinishShape, RunShape DEF Next, ReadStmt, Opens
<1> QED
  BY <1>1, <1>2

-----------------------------------------------------------------------------
(* The contexts the calls have saved *)
Saved(s, n) ==
    LET f == s[n]
    IN  /\ f.k \in Breakables => f.obreak = BreakIn(s, n - 1)
        /\ f.k \in Loops => f.ocontinue = ContinueIn(s, n - 1)
        /\ f.k = "switch" =>
              (f.ocases = NONE <=> Innermost(s, {"switch"}, n - 1) = 0)

InContext(s) == \A n \in 1 .. Len(s) : Saved(s, n)

\* b, c and w are what lbreak, lcontinue and cases are inside of s.
Within(s, b, c, w) ==
    /\ b = BreakIn(s, Len(s)) /\ c = ContinueIn(s, Len(s))
    /\ w = NONE <=> Innermost(s, {"switch"}, Len(s)) = 0

Contexts == phase = "parse" => InContext(open)

LEMMA SavedSame ==
  ASSUME NEW s, NEW t, NEW d \in Nat, \A n \in 1 .. d : s[n] = t[n],
         NEW n \in 1 .. d, Saved(s, n)
  PROVE  Saved(t, n)
<1>1. n - 1 \in Nat /\ (\A m \in 1 .. n - 1 : s[m] = t[m]) /\ s[n] = t[n]
  OBVIOUS
<1>2. /\ BreakIn(s, n - 1) = BreakIn(t, n - 1)
      /\ ContinueIn(s, n - 1) = ContinueIn(t, n - 1)
      /\ Innermost(s, {"switch"}, n - 1) = Innermost(t, {"switch"}, n - 1)
  BY <1>1, WhereSame
<1> QED
  BY <1>1, <1>2 DEF Saved

LEMMA ContextPush ==
  ASSUME NEW s, Stack(s), InContext(s), NEW f, NEW b, NEW c, NEW w, Within(s, b, c, w),
         f.k \in Breakables => f.obreak = b,
         f.k \in Loops => f.ocontinue = c,
         f.k = "switch" => f.ocases = w
  PROVE  /\ InContext(Append(s, f))
         /\ \A x, y, z : Within(Append(s, f), x, y, z) <=>
              /\ x = IF f.k \in Breakables THEN f.end ELSE b
              /\ y = IF f.k \in Loops THEN IF f.k = "for" THEN f.mid ELSE f.beg ELSE c
              /\ z = NONE <=> f.k # "switch" /\ w = NONE
<1> DEFINE t == Append(s, f)
           d == Len(s)
<1>1. /\ d \in Nat /\ Len(t) = d + 1 /\ t[d + 1] = f
      /\ \A n \in 1 .. d : s[n] = t[n]
  BY StackHas, StackPush
<1> HIDE DEF t
<1>2. /\ BreakIn(t, d) = b /\ ContinueIn(t, d) = c
      /\ w = NONE <=> Innermost(t, {"switch"}, d) = 0
  <2>1. /\ BreakIn(s, d) = BreakIn(t, d) /\ ContinueIn(s, d) = ContinueIn(t, d)
        /\ Innermost(s, {"switch"}, d) = Innermost(t, {"switch"}, d)
    BY <1>1, WhereSame
  <2> QED
    BY <2>1 DEF Within
<1>3. \A n \in 1 .. d : Saved(t, n)
  BY <1>1, SavedSame DEF InContext
<1>4. Saved(t, d + 1)
  <2>1. (d + 1) - 1 = d
    BY <1>1
  <2> QED
    BY <1>1, <1>2, <2>1 DEF Saved
<1>5. InContext(t)
  <2>1. \A n \in 1 .. d + 1 : n \in 1 .. d \/ n = d + 1
    BY <1>1
  <2> QED
    BY <1>1, <1>3, <1>4, <2>1 DEF InContext
<1>6. /\ BreakIn(t, d + 1) = IF f.k \in Breakables THEN f.end ELSE b
      /\ ContinueIn(t, d + 1) =
           IF f.k \in Loops THEN IF f.k = "for" THEN f.mid ELSE f.beg ELSE c
      /\ Innermost(t, {"switch"}, d + 1) = 0 <=> f.k # "switch" /\ w = NONE
  BY <1>1, <1>2, WhereNext
<1>7. \A x, y, z : Within(t, x, y, z) <=>
              /\ x = IF f.k \in Breakables THEN f.end ELSE b
              /\ y = IF f.k \in Loops THEN IF f.k = "for" THEN f.mid ELSE f.beg ELSE c
              /\ z = NONE <=> f.k # "switch" /\ w = NONE
  BY <1>1, <1>6 DEF Within
<1> QED
  BY <1>5, <1>7 DEF t

LEMMA ContextPop ==
  ASSUME NEW s, Stack(s), s # << >>, InContext(s),
         NEW b, NEW c, NEW w, Within(s, b, c, w)
  PROVE  LET f == Last(s)
         IN  /\ InContext(Front(s))
             /\ \A x, y, z :
                  /\ x = IF f.k \in Breakables THEN f.obreak ELSE b
                  /\ y = IF f.k \in Loops THEN f.ocontinue ELSE c
                  /\ z = IF f.k = "switch" THEN f.ocases ELSE w
                  => Within(Front(s), x, y, z)
<1>1. PICK f : f = Last(s)
  OBVIOUS
<1>2. PICK t : t = Front(s)
  OBVIOUS
<1>3. PICK d \in Nat : d + 1 = Len(s)
  <2>1. Len(s) - 1 \in Nat /\ (Len(s) - 1) + 1 = Len(s)
    BY StackPop
  <2> QED
    BY <2>1
<1>4. Len(t) = d /\ s[d + 1] = f /\ \A n \in 1 .. d : s[n] = t[n]
  <2>1. Len(s) - 1 = d
    BY <1>3
  <2> QED
    BY <1>1, <1>2, <1>3, <2>1, StackPop
<1>5. \A n \in 1 .. d : n \in 1 .. Len(s)
  BY <1>3
<1>6. InContext(t)
  <2>1. \A n \in 1 .. d : Saved(t, n)
    BY <1>4, <1>5, SavedSame DEF InContext
  <2> QED
    BY <1>4, <2>1 DEF InContext
<1>7. /\ BreakIn(s, d) = BreakIn(t, d) /\ ContinueIn(s, d) = ContinueIn(t, d)
      /\ Innermost(s, {"switch"}, d) = Innermost(t, {"switch"}, d)
  BY <1>4, WhereSame
<1>8. /\ f.k \in Breakables => f.obreak = BreakIn(t, d)
      /\ f.k \in Loops => f.ocontinue = ContinueIn(t, d)
      /\ f.k = "switch" => (f.ocases = NONE <=> Innermost(t, {"switch"}, d) = 0)
  <2>1. d + 1 \in 1 .. Len(s) /\ (d + 1) - 1 = d
    BY <1>3
  <2>2. Saved(s, d + 1)
    BY <2>1 DEF InContext
  <2> QED
    BY <1>4, <1>7, <2>1, <2>2 DEF Saved
<1>9. /\ f.k \notin Breakables => b = BreakIn(t, d)
      /\ f.k \notin Loops => c = ContinueIn(t, d)
      /\ f.k # "switch" => (w = NONE <=> Innermost(t, {"switch"}, d) = 0)
  <2>1. /\ BreakIn(s, d + 1) = IF f.k \in Breakables THEN f.end ELSE BreakIn(s, d)
        /\ ContinueIn(s, d + 1) =
             IF f.k \in Loops THEN IF f.k = "for" THEN f.mid ELSE f.beg
             ELSE ContinueIn(s, d)
        /\ Innermost(s, {"switch"}, d + 1) = 0 <=>
             f.k # "switch" /\ Innermost(s, {"switch"}, d) = 0
    BY <1>4, WhereNext
  <2>2. /\ b = BreakIn(s, d + 1) /\ c = ContinueIn(s, d + 1)
        /\ w = NONE <=> Innermost(s, {"switch"}, d + 1) = 0
    BY <1>3 DEF Within
  <2> QED
    BY <1>7, <2>1, <2>2
<1>10. ASSUME NEW x, NEW y, NEW z,
              x = IF f.k \in Breakables THEN f.obreak ELSE b,
              y = IF f.k \in Loops THEN f.ocontinue ELSE c,
              z = IF f.k = "switch" THEN f.ocases ELSE w
       PROVE  Within(t, x, y, z)
  BY <1>4, <1>8, <1>9, <1>10 DEF Within
<1> QED
  BY <1>1, <1>2, <1>6, <1>10

\* The topmost call goes on and is no loop or switch, before and after.
LEMMA ContextTop ==
  ASSUME NEW s, Stack(s), s # << >>, InContext(s), Last(s).k \notin Breakables,
         NEW f, f.k \notin Breakables,
         NEW b, NEW c, NEW w, Within(s, b, c, w)
  PROVE  LET t == [s EXCEPT ![Len(s)] = f] IN InContext(t) /\ Within(t, b, c, w)
<1>1. PICK t : t = [s EXCEPT ![Len(s)] = f]
  OBVIOUS
<1>2. PICK d \in Nat : d + 1 = Len(s)
  <2>1. Len(s) - 1 \in Nat /\ (Len(s) - 1) + 1 = Len(s)
    BY StackPop
  <2> QED
    BY <2>1
<1>3. /\ Len(t) = d + 1 /\ t[d + 1] = f /\ s[d + 1] = Last(s)
      /\ \A n \in 1 .. d : s[n] = t[n]
  <2>1. Len(s) - 1 = d
    BY <1>2
  <2> QED
    BY <1>1, <1>2, <2>1, StackTop, StackPop
<1>4. \A n \in 1 .. d : n \in 1 .. Len(s)
  BY <1>2
<1>5. \A n \in 1 .. d : Saved(t, n)
  BY <1>3, <1>4, SavedSame DEF InContext
<1>6. Loops \subseteq Breakables /\ "switch" \in Breakables
  BY DEF Breakables
<1>7. InContext(t)
  <2>1. \A n \in 1 .. d + 1 : n \in 1 .. d \/ n = d + 1
    OBVIOUS
  <2>2. Saved(t, d + 1)
    BY <1>3, <1>6 DEF Saved
  <2> QED
    BY <1>3, <1>5, <2>1, <2>2 DEF InContext
<1>8. /\ BreakIn(s, d) = BreakIn(t, d) /\ ContinueIn(s, d) = ContinueIn(t, d)
      /\ Innermost(s, {"switch"}, d) = Innermost(t, {"switch"}, d)
  BY <1>3, WhereSame
<1>9. /\ BreakIn(s, d + 1) = BreakIn(s, d) /\ ContinueIn(s, d + 1) = ContinueIn(s, d)
      /\ Innermost(s, {"switch"}, d + 1) = 0 <=> Innermost(s, {"switch"}, d) = 0
  BY <1>3, <1>6, WhereNext
<1>10. /\ BreakIn(t, d + 1) = BreakIn(t, d) /\ ContinueIn(t, d + 1) = ContinueIn(t, d)
       /\ Innermost(t, {"switch"}, d + 1) = 0 <=> Innermost(t, {"switch"}, d) = 0
  BY <1>3, <1>6, WhereNext
<1>11. Within(t, b, c, w)
  BY <1>2, <1>3, <1>8, <1>9, <1>10 DEF Within
<1> QED
  BY <1>1, <1>7, <1>11

-----------------------------------------------------------------------------
Jumps == Shape /\ JumpTargets /\ Contexts

LEMMA JumpsAre ==
  JumpTargets <=> (phase = "parse" => Within(open, lbreak, lcontinue, cases))
BY DEF JumpTargets, Within

LEMMA JumpsAreNext ==
  JumpTargets' <=> (phase' = "parse" => Within(open', lbreak', lcontinue', cases'))
BY DEF JumpTargets, Within, BreakIn, ContinueIn, Innermost

LEMMA ContextsNext ==
  InContext(open') => Contexts'
BY DEF Contexts, InContext, Saved, BreakIn, ContinueIn, Innermost

LEMMA InitJumps == Init => JumpTargets /\ Contexts
<1> SUFFICES ASSUME Init PROVE JumpTargets /\ Contexts
  OBVIOUS
<1>1. PICK f : f = [k |-> "block", list |-> << >>, trees |-> << >>]
  OBVIOUS
<1>2. f.k \notin Breakables /\ f.k \notin Loops /\ f.k # "switch"
  BY <1>1 DEF Breakables, Loops
<1>3. open = <<f>> /\ lbreak = NONE /\ lcontinue = NONE /\ cases = NONE
  BY <1>1 DEF Init
<1>4. <<f>> = Append(<< >>, f)
  OBVIOUS
<1>5. PICK s : s = << >>
  OBVIOUS
<1>6. Stack(s) /\ Len(s) = 0
  <2>1. s \in Seq({}) /\ Len(s) = 0
    BY <1>5, EmptySeq
  <2> QED
    BY <2>1, StackIs
<1>7. InContext(s)
  BY <1>6 DEF InContext
<1>8. Within(s, NONE, NONE, NONE)
  BY <1>6, InnermostNone DEF Within, BreakIn, ContinueIn
<1>9. InContext(Append(s, f)) /\ Within(Append(s, f), NONE, NONE, NONE)
  BY <1>2, <1>6, <1>7, <1>8, ContextPush
<1> QED
  BY <1>3, <1>4, <1>5, <1>9, JumpsAre DEF Contexts

LEMMA LeafJumps ==
  ASSUME Jumps, ExprStmt \/ ReadReturn \/ ReadBreak \/ ReadContinue \/ ReadGoto
  PROVE  JumpTargets' /\ Contexts'
<1>1. UNCHANGED <<open, lbreak, lcontinue, cases>> /\ phase = "parse"
  BY DEF ExprStmt, ReadReturn, ReadBreak, ReadContinue, ReadGoto, Errors, Reads, context
<1>2. InContext(open') /\ Within(open', lbreak', lcontinue', cases')
  BY <1>1, JumpsAre DEF Jumps, Contexts
<1> QED
  BY <1>2, JumpsAreNext, ContextsNext

LEMMA OpensJumps ==
  ASSUME Jumps, Opens
  PROVE  JumpTargets' /\ Contexts'
<1>1. /\ Stack(open) /\ phase = "parse" /\ InContext(open)
      /\ Within(open, lbreak, lcontinue, cases)
  <2>1. phase = "parse"
    BY DEF Opens, OpenBlock, OpenIf, OpenFor, OpenLoop, OpenSwitch, OpenCase,
           OpenDefault, OpenLabel, Reads
  <2> QED
    BY <2>1, JumpsAre DEF Jumps, Contexts, Shape, Calls
<1>2. CASE Errors
  <2>1. UNCHANGED open /\ phase' # "parse"
    BY <1>2 DEF Errors
  <2>2. InContext(open')
    BY <1>1, <2>1
  <2> QED
    BY <2>1, <2>2, JumpsAreNext, ContextsNext
<1>3. ASSUME NEW f, Enter(f),
             f.k \in Breakables => f.obreak = lbreak /\ lbreak' = f.end,
             f.k \in Loops =>
               f.ocontinue = lcontinue
               /\ lcontinue' = IF f.k = "for" THEN f.mid ELSE f.beg,
             f.k = "switch" => f.ocases = cases,
             f.k \notin Breakables => UNCHANGED lbreak,
             f.k \notin Loops => UNCHANGED lcontinue,
             cases' = NONE <=> f.k # "switch" /\ cases = NONE
      PROVE  JumpTargets' /\ Contexts'
  <2>1. open' = Append(open, f)
    BY <1>3 DEF Enter
  <2>2. /\ InContext(Append(open, f))
        /\ \A x, y, z : Within(Append(open, f), x, y, z) <=>
              /\ x = IF f.k \in Breakables THEN f.end ELSE lbreak
              /\ y = IF f.k \in Loops THEN IF f.k = "for" THEN f.mid ELSE f.beg ELSE lcontinue
              /\ z = NONE <=> f.k # "switch" /\ cases = NONE
    BY <1>1, <1>3, ContextPush
  <2>3. Within(Append(open, f), lbreak', lcontinue', cases')
    <3>1. /\ lbreak' = IF f.k \in Breakables THEN f.end ELSE lbreak
          /\ lcontinue' = IF f.k \in Loops THEN IF f.k = "for" THEN f.mid ELSE f.beg
                          ELSE lcontinue
      BY <1>3
    <3> QED
      BY <1>3, <2>2, <3>1
  <2> QED
    BY <2>1, <2>2, <2>3, JumpsAreNext, ContextsNext
<1>4. ASSUME NEW f, Enter(f), f.k \notin Breakables,
             UNCHANGED <<lbreak, lcontinue>>, cases' = NONE <=> cases = NONE
      PROVE  JumpTargets' /\ Contexts'
  <2>1. f.k \notin Loops /\ f.k # "switch"
    BY <1>4 DEF Breakables
  <2> QED
    BY <1>3, <1>4, <2>1
<1>5. CASE OpenBlock
  BY <1>4, <1>5 DEF OpenBlock, Breakables, Loops, context
<1>6. CASE OpenIf
  BY <1>4, <1>6 DEF OpenIf, Breakables, Loops, context
<1>7. CASE OpenDefault
  BY <1>2, <1>4, <1>7 DEF OpenDefault, Breakables, Loops
<1>8. CASE OpenLabel
  BY <1>2, <1>4, <1>8 DEF OpenLabel, Breakables, Loops, context
<1>9. CASE OpenCase
  <2>1. PICK r \in CaseRange :
          \/ Errors
          \/ /\ cases # NONE
             /\ cases' = Append(cases, [range |-> r, label |-> nlabels])
             /\ Enter([k |-> "label", label |-> nlabels,
                       tree |-> [k |-> "case", range |-> r]])
             /\ UNCHANGED <<lbreak, lcontinue>>
    BY <1>9 DEF OpenCase
  <2>2. cases' = Append(cases, [range |-> r, label |-> nlabels]) /\ cases # NONE
        => cases' # NONE
    <3>1. [range |-> r, label |-> nlabels] \in Cases
      BY DEF Jumps, Shape, Cases
    <3> HIDE DEF Cases
    <3>2. cases # NONE => Append(cases, [range |-> r, label |-> nlabels]) \in Seq(Cases)
      BY <3>1, AppendShape DEF Jumps, Shape
    <3> QED
      BY <3>2, NoneAssumption
  <2>3. Enter([k |-> "label", label |-> nlabels,
               tree |-> [k |-> "case", range |-> r]]) /\ UNCHANGED <<lbreak, lcontinue>>
        /\ (cases' = NONE <=> cases = NONE) => JumpTargets' /\ Contexts'
    BY <1>4 DEF Breakables, Loops
  <2> QED
    BY <1>2, <2>1, <2>2, <2>3
<1>10. CASE OpenFor
  <2>1. PICK i, c, t :
          Enter([k |-> "for", beg |-> nlabels, mid |-> nlabels + 1,
                   end |-> nlabels + 2, init |-> i, cond |-> c, step |-> t,
                   ocontinue |-> lcontinue, obreak |-> lbreak])
    BY <1>10 DEF OpenFor
  <2> DEFINE f == [k |-> "for", beg |-> nlabels, mid |-> nlabels + 1,
                   end |-> nlabels + 2, init |-> i, cond |-> c, step |-> t,
                   ocontinue |-> lcontinue, obreak |-> lbreak]
  <2>2. /\ f.k = "for" /\ f.mid = nlabels + 1 /\ f.end = nlabels + 2
        /\ f.ocontinue = lcontinue /\ f.obreak = lbreak
    OBVIOUS
  <2>3. lbreak' = nlabels + 2 /\ lcontinue' = nlabels + 1 /\ cases' = cases
    BY <1>10 DEF OpenFor, SetJumpLabels
  <2>4. "for" \in Loops /\ "for" \in Breakables
    BY DEF Loops, Breakables
  <2>5. Enter(f)
    BY <2>1
  <2> HIDE DEF f
  <2> QED
    BY <1>3, <2>2, <2>3, <2>4, <2>5
<1>11. CASE OpenLoop
  <2>1. PICK k \in {"while", "do"} :
          Enter([k |-> k, beg |-> nlabels, end |-> nlabels + 1,
                 cond |-> Event("cond"), ocontinue |-> lcontinue, obreak |-> lbreak])
    BY <1>11 DEF OpenLoop
  <2> DEFINE f == [k |-> k, beg |-> nlabels, end |-> nlabels + 1,
                   cond |-> Event("cond"), ocontinue |-> lcontinue, obreak |-> lbreak]
  <2>2. /\ f.k = k /\ f.beg = nlabels /\ f.end = nlabels + 1
        /\ f.ocontinue = lcontinue /\ f.obreak = lbreak
    OBVIOUS
  <2>3. lbreak' = nlabels + 1 /\ lcontinue' = nlabels /\ cases' = cases
    BY <1>11 DEF OpenLoop, SetJumpLabels
  <2>4. k \in Loops /\ k \in Breakables /\ k # "for" /\ k # "switch"
    BY DEF Loops, Breakables
  <2>5. Enter(f)
    BY <2>1
  <2> HIDE DEF f
  <2> QED
    BY <1>3, <2>2, <2>3, <2>4, <2>5
<1>12. CASE OpenSwitch
  <2> DEFINE f == [k |-> "switch", e |-> Event("value"), end |-> nlabels,
                   ocases |-> cases, odefaultcase |-> defaultcase, obreak |-> lbreak]
  <2>1. Enter(f)
    BY <1>12 DEF OpenSwitch
  <2>2. f.k = "switch" /\ f.end = nlabels /\ f.ocases = cases /\ f.obreak = lbreak
    OBVIOUS
  <2>3. lbreak' = nlabels /\ lcontinue' = lcontinue /\ cases' = << >>
    BY <1>12 DEF OpenSwitch
  <2>4. "switch" \in Breakables /\ "switch" \notin Loops
    BY DEF Loops, Breakables
  <2>5. cases' # NONE
    BY <2>3, NoneAssumption, EmptySeq
  <2> HIDE DEF f
  <2> QED
    BY <1>3, <2>1, <2>2, <2>3, <2>4, <2>5
<1> QED
  BY <1>5, <1>6, <1>7, <1>8, <1>9, <1>10, <1>11, <1>12 DEF Opens

LEMMA FinishJumps ==
  ASSUME Jumps, Finish
  PROVE  JumpTargets' /\ Contexts'
<1>1. /\ Stack(open) /\ phase = "parse" /\ InContext(open)
      /\ Within(open, lbreak, lcontinue, cases)
  <2>1. phase = "parse"
    BY DEF Finish, BlockGets, CloseBlock, CloseFunction, IfGets, ReadElse, ElseGets,
           ForGets, WhileGets, DoGets, SwitchGets, LabelGets, Gets
  <2> QED
    BY <2>1, JumpsAre DEF Jumps, Contexts, Shape, Calls
<1>2. CASE CloseFunction
  BY <1>2 DEF CloseFunction, JumpTargets, Contexts
<1>3. open # << >>
  <2>1. CASE CloseBlock \/ CloseFunction
    <3>1. Len(open) > 0
      BY <2>1 DEF CloseBlock, CloseFunction
    <3> QED
      BY <1>1, <3>1, NonEmpty
  <2>2. CASE ~ (CloseBlock \/ CloseFunction)
    BY <2>2 DEF Finish, BlockGets, IfGets, ReadElse, ElseGets, ForGets, WhileGets,
                DoGets, SwitchGets, LabelGets, Gets
  <2> QED
    BY <2>1, <2>2
<1>4. ASSUME NEW f, open' = [open EXCEPT ![Len(open)] = f],
             Frame.k \notin Breakables, f.k \notin Breakables,
             UNCHANGED <<lbreak, lcontinue, cases>>
      PROVE  JumpTargets' /\ Contexts'
  <2>1. InContext(open') /\ Within(open', lbreak, lcontinue, cases)
    BY <1>1, <1>3, <1>4, ContextTop DEF Frame
  <2> QED
    BY <1>4, <2>1, JumpsAreNext, ContextsNext
<1>5. ASSUME open' = Front(open),
             lbreak' = IF Frame.k \in Breakables THEN Frame.obreak ELSE lbreak,
             lcontinue' = IF Frame.k \in Loops THEN Frame.ocontinue ELSE lcontinue,
             cases' = IF Frame.k = "switch" THEN Frame.ocases ELSE cases
      PROVE  JumpTargets' /\ Contexts'
  <2>1. InContext(open') /\ Within(open', lbreak', lcontinue', cases')
    BY <1>1, <1>3, <1>5, ContextPop DEF Frame
  <2> QED
    BY <2>1, JumpsAreNext, ContextsNext
<1>6. ASSUME open' = Front(open), Frame.k \notin Breakables,
             UNCHANGED <<lbreak, lcontinue, cases>>
      PROVE  JumpTargets' /\ Contexts'
  <2>1. Frame.k \notin Loops /\ Frame.k # "switch"
    BY <1>6 DEF Breakables
  <2> QED
    BY <1>5, <1>6, <2>1
<1>7. Frame = open[Len(open)]
  BY <1>1, <1>3, StackPop DEF Frame
<1>8. CASE BlockGets
  <2> DEFINE f == [k |-> "block", list |-> Frame.list \o node.code,
                   trees |-> Append(Frame.trees, node.tree)]
  <2>1. open' = [open EXCEPT ![Len(open)] = f]
    BY <1>7, <1>8 DEF BlockGets
  <2>2. Frame.k \notin Breakables /\ f.k \notin Breakables
    BY <1>8 DEF BlockGets, Gets, Breakables, Loops
  <2> HIDE DEF f
  <2> QED
    BY <1>4, <1>8, <2>1, <2>2 DEF BlockGets, context
<1>9. CASE ReadElse
  <2> DEFINE f == [k |-> "else", e |-> Frame.e, then |-> node]
  <2>1. open' = [open EXCEPT ![Len(open)] = f]
    BY <1>7, <1>9 DEF ReadElse
  <2>2. Frame.k \notin Breakables /\ f.k \notin Breakables
    BY <1>9 DEF ReadElse, Gets, Breakables, Loops
  <2> HIDE DEF f
  <2> QED
    BY <1>4, <1>9, <2>1, <2>2 DEF ReadElse, context
<1>10. CASE CloseBlock
  BY <1>6, <1>10 DEF CloseBlock, Breakables, Loops, context
<1>11. CASE IfGets
  BY <1>6, <1>11 DEF IfGets, Gets, Breakables, Loops, context
<1>12. CASE ElseGets
  BY <1>6, <1>12 DEF ElseGets, Gets, Breakables, Loops, context
<1>13. CASE LabelGets
  BY <1>6, <1>13 DEF LabelGets, Gets, Breakables, Loops, context
<1>14. CASE ForGets \/ WhileGets \/ DoGets
  <2>1. /\ Frame.k \in Loops /\ open' = Front(open) /\ UNCHANGED cases
        /\ lbreak' = Frame.obreak /\ lcontinue' = Frame.ocontinue
    BY <1>14 DEF ForGets, WhileGets, DoGets, Gets, Loops, RestoreJumpLabels
  <2>2. Frame.k \in Breakables /\ Frame.k # "switch"
    BY <2>1 DEF Breakables, Loops
  <2> QED
    BY <1>5, <2>1, <2>2
<1>15. CASE SwitchGets
  <2>1. /\ Frame.k = "switch" /\ open' = Front(open) /\ UNCHANGED lcontinue
        /\ lbreak' = Frame.obreak /\ cases' = Frame.ocases
    BY <1>15 DEF SwitchGets, Gets
  <2>2. Frame.k \in Breakables /\ Frame.k \notin Loops
    BY <2>1 DEF Breakables, Loops
  <2> QED
    BY <1>5, <2>1, <2>2
<1> QED
  BY <1>2, <1>8, <1>9, <1>10, <1>11, <1>12, <1>13, <1>14, <1>15 DEF Finish

LEMMA NextJumps ==
  ASSUME Jumps, [Next]_vars
  PROVE  Jumps'
<1>1. Shape'
  BY NextShape DEF Jumps
<1>2. CASE UNCHANGED vars
  <2>1. UNCHANGED <<phase, open, lbreak, lcontinue, cases>>
    BY <1>2 DEF vars, context
  <2>2. CASE phase = "parse"
    <3>1. Within(open, lbreak, lcontinue, cases) /\ InContext(open)
      BY <2>2, JumpsAre DEF Jumps, Contexts
    <3>2. Within(open', lbreak', lcontinue', cases') /\ InContext(open')
      BY <2>1, <3>1
    <3> QED
      BY <1>1, <3>2, JumpsAreNext, ContextsNext DEF Jumps
  <2>3. CASE phase # "parse"
    <3>1. phase' # "parse"
      BY <2>1, <2>3
    <3> QED
      BY <1>1, <3>1, JumpsAreNext DEF Jumps, Contexts
  <2> QED
    BY <2>2, <2>3
<1>3. CASE Run
  <2>1. phase' # "parse"
    BY <1>3 DEF Run, RunAct, RunTest, RunStore, RunCmp, RunLabel, RunJump, RunRet,
                At, parsed
  <2> QED
    BY <1>1, <2>1, JumpsAreNext DEF Jumps, Contexts
<1>4. CASE ReadStmt \/ Finish
  BY <1>1, <1>4, LeafJumps, OpensJumps, FinishJumps DEF Jumps, ReadStmt, Opens
<1> QED
  BY <1>2, <1>3, <1>4 DEF Next

\* What the parser has read is code, and its calls, contexts and labels are of
\* their kinds.
THEOREM TypeCorrect == Spec => []Shape
<1>1. Init => Jumps
  BY InitShape, InitJumps DEF Jumps
<1>2. Jumps /\ [Next]_vars => Jumps'
  BY NextJumps
<1>3. Jumps => Shape
  BY DEF Jumps
<1> QED
  BY <1>1, <1>2, <1>3, PTL DEF Spec

\* break and continue jump out of the innermost statement they belong to: each
\* read_xxx of parse.c restores the context it found, whatever it read.
THEOREM JumpsGoOut == Spec => []JumpTargets
<1>1. Init => Jumps
  BY InitShape, InitJumps DEF Jumps
<1>2. Jumps /\ [Next]_vars => Jumps'
  BY NextJumps
<1>3. Jumps => JumpTargets
  BY DEF Jumps
<1> QED
  BY <1>1, <1>2, <1>3, PTL DEF Spec

-----------------------------------------------------------------------------
(* The ranges of a switch do not overlap, nor those of the switches around it *)
Separated(cs) ==
    \A m, n \in 1 .. Len(cs) :
       m # n => \/ cs[m].range[2] < cs[n].range[1]
                \/ cs[n].range[2] < cs[m].range[1]

Kept(s) == \A n \in 1 .. Len(s) :
              s[n].k = "switch" /\ s[n].ocases # NONE => Separated(s[n].ocases)

Ranged == (cases # NONE => Separated(cases)) /\ Kept(open)

LEMMA KeptPush ==
  ASSUME NEW s, Stack(s), Kept(s), NEW f,
         f.k = "switch" /\ f.ocases # NONE => Separated(f.ocases)
  PROVE  Kept(Append(s, f))
<1>1. PICK t : t = Append(s, f)
  OBVIOUS
<1>2. /\ Len(s) \in Nat /\ Len(t) = Len(s) + 1 /\ t[Len(s) + 1] = f
      /\ \A n \in 1 .. Len(s) : t[n] = s[n]
  BY <1>1, StackHas, StackPush
<1>3. \A n \in 1 .. Len(s) + 1 : n \in 1 .. Len(s) \/ n = Len(s) + 1
  BY <1>2
<1> QED
  BY <1>1, <1>2, <1>3 DEF Kept

LEMMA KeptPop ==
  ASSUME NEW s, Stack(s), s # << >>, Kept(s)
  PROVE  /\ Kept(Front(s))
         /\ Last(s).k = "switch" /\ Last(s).ocases # NONE => Separated(Last(s).ocases)
<1>1. PICK t : t = Front(s)
  OBVIOUS
<1>2. /\ Len(s) \in Nat \ {0} /\ Len(t) = Len(s) - 1 /\ Last(s) = s[Len(s)]
      /\ \A n \in 1 .. Len(s) - 1 : t[n] = s[n]
  BY <1>1, StackPop
<1>3. Len(s) \in 1 .. Len(s) /\ \A n \in 1 .. Len(s) - 1 : n \in 1 .. Len(s)
  BY <1>2
<1>4. Kept(t)
  BY <1>2, <1>3 DEF Kept
<1>5. Last(s).k = "switch" /\ Last(s).ocases # NONE => Separated(Last(s).ocases)
  BY <1>2, <1>3 DEF Kept
<1> QED
  BY <1>1, <1>4, <1>5

LEMMA KeptTop ==
  ASSUME NEW s, Stack(s), s # << >>, Kept(s), NEW f, f.k # "switch"
  PROVE  Kept([s EXCEPT ![Len(s)] = f])
<1>1. PICK t : t = [s EXCEPT ![Len(s)] = f]
  OBVIOUS
<1>2. /\ Len(s) \in Nat \ {0} /\ Len(t) = Len(s) /\ t[Len(s)] = f
      /\ \A n \in 1 .. Len(s) - 1 : t[n] = s[n]
  BY <1>1, StackPop, StackTop
<1>3. \A n \in 1 .. Len(s) : n \in 1 .. Len(s) - 1 \/ n = Len(s)
  BY <1>2
<1> QED
  BY <1>1, <1>2, <1>3 DEF Kept

\* check_case_duplicates compares a new range with every range before it.
LEMMA SeparatedAppend ==
  ASSUME cases \in Seq(Cases), Separated(cases), NEW r \in CaseRange,
         ~ Overlaps(r), NEW l \in Nat
  PROVE  Separated(Append(cases, [range |-> r, label |-> l]))
<1>1. PICK c : c = [range |-> r, label |-> l]
  OBVIOUS
<1>2. c \in Cases /\ c.range = r
  BY <1>1 DEF Cases
<1> HIDE DEF Cases
<1>3. PICK t : t = Append(cases, c)
  OBVIOUS
<1>4. /\ Len(cases) \in Nat /\ Len(t) = Len(cases) + 1 /\ t[Len(cases) + 1] = c
      /\ \A n \in 1 .. Len(cases) : t[n] = cases[n]
  BY <1>2, <1>3, AppendShape
<1>5. ASSUME NEW n \in 1 .. Len(cases)
      PROVE  r[2] < cases[n].range[1] \/ cases[n].range[2] < r[1]
  <2>1. DOMAIN cases = 1 .. Len(cases)
    BY ElementShape
  <2> QED
    BY <2>1 DEF Overlaps
<1>6. ASSUME NEW m \in 1 .. Len(cases) + 1, NEW n \in 1 .. Len(cases) + 1, m # n
      PROVE  t[m].range[2] < t[n].range[1] \/ t[n].range[2] < t[m].range[1]
  <2>1. m \in 1 .. Len(cases) \/ m = Len(cases) + 1
    BY <1>4
  <2>2. n \in 1 .. Len(cases) \/ n = Len(cases) + 1
    BY <1>4
  <2>3. CASE m \in 1 .. Len(cases) /\ n \in 1 .. Len(cases)
    BY <1>4, <1>6, <2>3 DEF Separated
  <2>4. CASE m = Len(cases) + 1 /\ n \in 1 .. Len(cases)
    BY <1>2, <1>4, <1>5, <2>4
  <2>5. CASE n = Len(cases) + 1 /\ m \in 1 .. Len(cases)
    BY <1>2, <1>4, <1>5, <2>5
  <2> QED
    BY <1>6, <2>1, <2>2, <2>3, <2>4, <2>5
<1>7. Separated(t)
  BY <1>4, <1>6 DEF Separated
<1> QED
  BY <1>1, <1>3, <1>7

LEMMA RangedIsDisjoint ==
  ASSUME Shape, Ranged
  PROVE  CasesDisjoint
<1> SUFFICES ASSUME cases # NONE, NEW v \in Value
             PROVE  Cardinality({n \in DOMAIN cases : InRange(v, cases[n].range)}) <= 1
  BY DEF CasesDisjoint
<1> DEFINE S == {n \in DOMAIN cases : InRange(v, cases[n].range)}
<1>1. cases \in Seq(Cases) /\ Separated(cases)
  BY DEF Shape, Ranged
<1>2. DOMAIN cases = 1 .. Len(cases) /\ \A n \in 1 .. Len(cases) : cases[n] \in Cases
  BY <1>1, ElementShape
<1>3. \A n \in 1 .. Len(cases) : cases[n].range[1] \in Int /\ cases[n].range[2] \in Int
  BY <1>2, StmtAssumption DEF Cases
<1>4. v \in Int
  BY StmtAssumption
<1>5. \A m, n \in S : m = n
  BY <1>1, <1>2, <1>3, <1>4 DEF Separated, InRange
<1> HIDE DEF S
<1>6. CASE S = {}
  BY <1>6, FS_EmptySet DEF S
<1>7. CASE S # {}
  <2>1. PICK x : S = {x}
    BY <1>5, <1>7
  <2>2. Cardinality(S) = 1
    BY <2>1, FS_Singleton
  <2> QED
    BY <2>2 DEF S
<1> QED
  BY <1>6, <1>7

LEMMA InitRanged == Init => Ranged
<1> SUFFICES ASSUME Init PROVE Ranged
  OBVIOUS
<1>1. PICK f : f = [k |-> "block", list |-> << >>, trees |-> << >>]
  OBVIOUS
<1>2. open = <<f>> /\ cases = NONE /\ f.k # "switch"
  BY <1>1 DEF Init
<1>3. \A n \in 1 .. Len(<<f>>) : <<f>>[n] = f
  OBVIOUS
<1> QED
  BY <1>2, <1>3 DEF Ranged, Kept

LEMMA OpensRanged ==
  ASSUME Shape, Ranged, Opens
  PROVE  Ranged'
<1>1. /\ Stack(open) /\ Kept(open) /\ nlabels \in Nat
      /\ cases # NONE => Separated(cases) /\ cases \in Seq(Cases)
  BY DEF Shape, Ranged, Calls
<1>2. CASE Errors
  BY <1>1, <1>2 DEF Errors, context, Ranged, Kept
<1>3. ASSUME NEW f, Enter(f), f.k # "switch", cases' # NONE => Separated(cases')
      PROVE  Ranged'
  <2>1. Kept(open')
    BY <1>1, <1>3, KeptPush DEF Enter
  <2> QED
    BY <1>3, <2>1 DEF Ranged, Kept, Separated
<1>4. CASE OpenBlock
  BY <1>1, <1>3, <1>4 DEF OpenBlock, context
<1>5. CASE OpenIf
  BY <1>1, <1>3, <1>5 DEF OpenIf, context
<1>6. CASE OpenFor
  <2>1. PICK f : Enter(f) /\ f.k = "for"
    BY <1>6 DEF OpenFor
  <2> QED
    BY <1>1, <1>3, <1>6, <2>1 DEF OpenFor
<1>7. CASE OpenLoop
  <2>1. PICK f : Enter(f) /\ f.k \in {"while", "do"}
    BY <1>7 DEF OpenLoop
  <2> QED
    BY <1>1, <1>3, <1>7, <2>1 DEF OpenLoop
<1>8. CASE OpenDefault
  BY <1>1, <1>2, <1>3, <1>8 DEF OpenDefault
<1>9. CASE OpenLabel
  BY <1>1, <1>2, <1>3, <1>9 DEF OpenLabel, context
<1>10. CASE OpenSwitch
  <2>1. PICK f : Enter(f) /\ f.k = "switch" /\ f.ocases = cases
    BY <1>10 DEF OpenSwitch
  <2>2. Kept(open')
    BY <1>1, <2>1, KeptPush DEF Enter
  <2>3. cases' = << >>
    BY <1>10 DEF OpenSwitch
  <2>4. Separated(cases')
    BY <2>3 DEF Separated
  <2> QED
    BY <2>2, <2>4 DEF Ranged, Kept, Separated
<1>11. CASE OpenCase
  <2>1. PICK r \in CaseRange :
          \/ Errors
          \/ /\ cases # NONE /\ ~ Overlaps(r)
             /\ cases' = Append(cases, [range |-> r, label |-> nlabels])
             /\ \E f : Enter(f) /\ f.k = "label"
    BY <1>11 DEF OpenCase
  <2>2. CASE Errors
    BY <1>2, <2>2
  <2>3. CASE ~ Errors
    <3>1. PICK f : Enter(f) /\ f.k = "label"
      BY <2>1, <2>3
    <3>2. Separated(cases')
      BY <1>1, <2>1, <2>3, SeparatedAppend
    <3> QED
      BY <1>3, <3>1, <3>2
  <2> QED
    BY <2>2, <2>3
<1> QED
  BY <1>4, <1>5, <1>6, <1>7, <1>8, <1>9, <1>10, <1>11 DEF Opens

LEMMA FinishRanged ==
  ASSUME Shape, Ranged, Finish
  PROVE  Ranged'
<1>1. /\ Stack(open) /\ Kept(open)
      /\ cases # NONE => Separated(cases)
  BY DEF Shape, Ranged, Calls
<1>2. CASE CloseFunction
  <2>1. open' = << >> /\ UNCHANGED cases
    BY <1>2 DEF CloseFunction, context
  <2>2. Kept(<< >>)
    BY DEF Kept
  <2>3. Kept(open')
    BY <2>1, <2>2
  <2> QED
    BY <1>1, <2>1, <2>3 DEF Ranged, Kept, Separated
<1>3. ASSUME open # << >>, open' = Front(open),
             cases' = IF Frame.k = "switch" THEN Frame.ocases ELSE cases
      PROVE  Ranged'
  <2>1. /\ Kept(open')
        /\ Frame.k = "switch" /\ Frame.ocases # NONE => Separated(Frame.ocases)
    BY <1>1, <1>3, KeptPop DEF Frame
  <2>2. cases' # NONE => Separated(cases')
    BY <1>1, <1>3, <2>1
  <2> QED
    BY <2>1, <2>2 DEF Ranged, Kept, Separated
<1>4. CASE BlockGets \/ ReadElse
  <2>1. PICK f : open' = [open EXCEPT ![Len(open)] = f] /\ f.k # "switch"
    <3>1. CASE BlockGets
      <4> DEFINE f == [k |-> "block", list |-> open[Len(open)].list \o node.code,
                       trees |-> Append(open[Len(open)].trees, node.tree)]
      <4>1. open' = [open EXCEPT ![Len(open)] = f] /\ f.k # "switch"
        BY <3>1 DEF BlockGets
      <4> QED
        BY <4>1
    <3>2. CASE ReadElse
      <4> DEFINE f == [k |-> "else", e |-> open[Len(open)].e, then |-> node]
      <4>1. open' = [open EXCEPT ![Len(open)] = f] /\ f.k # "switch"
        BY <3>2 DEF ReadElse
      <4> QED
        BY <4>1
    <3> QED
      BY <1>4, <3>1, <3>2
  <2>2. open # << >> /\ UNCHANGED cases
    BY <1>4 DEF BlockGets, ReadElse, Gets, context
  <2>3. Kept(open')
    BY <1>1, <2>1, <2>2, KeptTop
  <2> QED
    BY <1>1, <2>2, <2>3 DEF Ranged, Kept, Separated
<1>5. CASE CloseBlock
  <2>1. Len(open) > 0
    BY <1>5 DEF CloseBlock
  <2>2. open # << >>
    BY <1>1, <2>1, NonEmpty
  <2> QED
    BY <1>3, <1>5, <2>2 DEF CloseBlock, context
<1>6. CASE IfGets \/ ElseGets \/ LabelGets
  BY <1>3, <1>6 DEF IfGets, ElseGets, LabelGets, Gets, context
<1>7. CASE ForGets \/ WhileGets \/ DoGets
  BY <1>3, <1>7 DEF ForGets, WhileGets, DoGets, Gets
<1>8. CASE SwitchGets
  BY <1>3, <1>8 DEF SwitchGets, Gets
<1> QED
  BY <1>2, <1>4, <1>5, <1>6, <1>7, <1>8 DEF Finish

LEMMA NextRanged ==
  ASSUME Shape, Ranged, [Next]_vars
  PROVE  Ranged'
<1>1. CASE UNCHANGED <<open, cases>>
  BY <1>1 DEF Ranged, Kept, Separated
<1>2. UNCHANGED vars => UNCHANGED <<open, cases>>
  BY DEF vars, context
<1>3. Run => UNCHANGED <<open, cases>>
  BY DEF Run, RunAct, RunTest, RunStore, RunCmp, RunLabel, RunJump, RunRet, parsed,
         context
<1>4. ExprStmt \/ ReadReturn \/ ReadBreak \/ ReadContinue \/ ReadGoto
      => UNCHANGED <<open, cases>>
  BY DEF ExprStmt, ReadReturn, ReadBreak, ReadContinue, ReadGoto, Errors, context
<1> QED
  BY <1>1, <1>2, <1>3, <1>4, OpensRanged, FinishRanged DEF Next, ReadStmt, Opens

\* No value has two cases in one switch: a range is compared with those before
\* it, and the ranges of a switch are not those of a switch inside it.
THEOREM CasesAreDisjoint == Spec => []CasesDisjoint
<1>1. Init => Jumps /\ Ranged
  BY InitShape, InitJumps, InitRanged DEF Jumps
<1>2. Jumps /\ Ranged /\ [Next]_vars => Jumps' /\ Ranged'
  BY NextJumps, NextRanged DEF Jumps
<1>3. Jumps /\ Ranged => CasesDisjoint
  BY RangedIsDisjoint DEF Jumps
<1> QED
  BY <1>1, <1>2, <1>3, PTL DEF Spec

-----------------------------------------------------------------------------
(* Where the labels of a function are.  While it is read they are scattered:  *)
(* make_label has given their numbers out, some are in the code of statements *)
(* that are complete, and some are still in the locals of the read_xxx calls  *)
(* that will put them into theirs.  The invariant, Placement, says that every *)
(* label that was made, or read, is in exactly one of these places, that code *)
(* only jumps to labels that were made or that a goto named, and that what    *)
(* the contexts hold are labels that were made.  When the body ends there is  *)
(* one place left, and backfill_labels has looked for the names of the gotos. *)

-----------------------------------------------------------------------------
(* Pieces of code: the labels that are in them, and those they jump to *)
Placed(c) == {l \in Names : \E p \in 1 .. Len(c) : c[p] = Lbl(l)}
Once(c)   == \A l \in Names : \A p, q \in 1 .. Len(c) :
                c[p] = Lbl(l) /\ c[q] = Lbl(l) => p = q
Sought(i) == IF i[1] \in {"test", "cmp"} THEN {i[3], i[4]}
             ELSE IF i[1] = "jump" THEN {i[2]} ELSE {}

\* c has the labels of L, each once, and jumps to labels of T.
Piece(c, L, T) == /\ c \in Seq(Instructions)
                  /\ Once(c) /\ Placed(c) = L
                  /\ \A p \in 1 .. Len(c) : Sought(c[p]) \subseteq T

LEMMA SoughtAre ==
  ASSUME NEW e, NEW l, NEW m
  PROVE  /\ Sought(Act(e)) = {} /\ Sought(Store(e)) = {} /\ Sought(Ret) = {}
         /\ Sought(Lbl(l)) = {} /\ Sought(Jmp(l)) = {l}
         /\ Sought(Test(e, l, m)) = {l, m} /\ Sought(Cmp(e, l, m)) = {l, m}
BY DEF Sought, Act, Store, Ret, Lbl, Jmp, Test, Cmp

LEMMA NoLabels ==
  ASSUME NEW e, NEW l, NEW m, NEW n
  PROVE  /\ Act(e) # Lbl(n) /\ Store(e) # Lbl(n) /\ Ret # Lbl(n) /\ Jmp(l) # Lbl(n)
         /\ Test(e, l, m) # Lbl(n) /\ Cmp(e, l, m) # Lbl(n)
<1>1. Lbl(n)[1] = "label"
  BY DEF Lbl
<1>2. /\ Act(e)[1] # "label" /\ Store(e)[1] # "label" /\ Ret[1] # "label"
      /\ Jmp(l)[1] # "label" /\ Test(e, l, m)[1] # "label" /\ Cmp(e, l, m)[1] # "label"
  BY DEF Act, Store, Ret, Jmp, Test, Cmp
<1> QED
  BY <1>1, <1>2

LEMMA SameLabel ==
  ASSUME NEW l, NEW m, Lbl(l) = Lbl(m)
  PROVE  l = m
<1>1. Lbl(l)[2] = l /\ Lbl(m)[2] = m
  BY DEF Lbl
<1> QED
  BY <1>1

LEMMA PieceEmpty ==
  ASSUME NEW T
  PROVE  Piece(<< >>, {}, T)
<1>1. PICK c : c = << >>
  OBVIOUS
<1>2. c \in Seq(Instructions) /\ 1 .. Len(c) = {}
  BY <1>1, EmptySeq
<1>3. Piece(c, {}, T)
  BY <1>2 DEF Piece, Once, Placed
<1> QED
  BY <1>1, <1>3

LEMMA PieceOne ==
  ASSUME NEW i \in Instructions, \A l : i # Lbl(l), NEW T, Sought(i) \subseteq T
  PROVE  Piece(<<i>>, {}, T)
<1>1. PICK c : c = <<i>>
  OBVIOUS
<1>2. c \in Seq(Instructions) /\ 1 .. Len(c) = {1} /\ c[1] = i
  BY <1>1, OneInstruction
<1>3. Piece(c, {}, T)
  BY <1>2 DEF Piece, Once, Placed
<1> QED
  BY <1>1, <1>3

LEMMA PieceLabel ==
  ASSUME NEW l \in Names, NEW T
  PROVE  Piece(<<Lbl(l)>>, {l}, T)
<1>1. PICK c : c = <<Lbl(l)>>
  OBVIOUS
<1>2. c \in Seq(Instructions) /\ 1 .. Len(c) = {1} /\ c[1] = Lbl(l)
  BY <1>1, OneInstruction, InstructionsAre
<1>3. Placed(c) = {l}
  BY <1>2, SameLabel DEF Placed
<1>4. Piece(c, {l}, T)
  BY <1>2, <1>3, SoughtAre DEF Piece, Once
<1> QED
  BY <1>1, <1>4

LEMMA PieceWider ==
  ASSUME NEW c, NEW L, NEW T, NEW U, Piece(c, L, T), T \subseteq U
  PROVE  Piece(c, L, U)
BY DEF Piece

LEMMA ConcatShape ==
  ASSUME NEW S, NEW a \in Seq(S), NEW b \in Seq(S)
  PROVE  /\ a \o b \in Seq(S) /\ Len(a \o b) = Len(a) + Len(b)
         /\ Len(a) \in Nat /\ Len(b) \in Nat
         /\ \A p \in 1 .. Len(a) : (a \o b)[p] = a[p]
         /\ \A p \in 1 .. Len(b) : (a \o b)[Len(a) + p] = b[p]
<1>1. Len(a) \in Nat /\ Len(b) \in Nat
  OBVIOUS
<1>2. /\ a \o b \in Seq(S) /\ Len(a \o b) = Len(a) + Len(b)
      /\ \A p \in 1 .. Len(a) + Len(b) :
            (a \o b)[p] = IF p <= Len(a) THEN a[p] ELSE b[p - Len(a)]
  BY ConcatProperties
<1>3. \A p \in 1 .. Len(b) : /\ Len(a) + p \in 1 .. Len(a) + Len(b)
                             /\ ~ (Len(a) + p <= Len(a)) /\ (Len(a) + p) - Len(a) = p
  BY <1>1
<1>4. \A p \in 1 .. Len(a) : p \in 1 .. Len(a) + Len(b) /\ p <= Len(a)
  BY <1>1
<1> QED
  BY <1>1, <1>2, <1>3, <1>4

LEMMA PieceConcat ==
  ASSUME NEW a, NEW b, NEW L, NEW M, NEW T,
         Piece(a, L, T), Piece(b, M, T), L \cap M = {}
  PROVE  Piece(a \o b, L \cup M, T)
<1>1. a \in Seq(Instructions) /\ b \in Seq(Instructions)
  BY DEF Piece
<1> DEFINE c == a \o b
           m == Len(a)
           n == Len(b)
<1>2. /\ c \in Seq(Instructions) /\ Len(c) = m + n /\ m \in Nat /\ n \in Nat
      /\ \A p \in 1 .. m : c[p] = a[p]
      /\ \A p \in 1 .. n : c[m + p] = b[p]
  BY <1>1, ConcatShape
<1> HIDE DEF c
<1>3. ASSUME NEW p \in 1 .. m + n
      PROVE  p \in 1 .. m \/ (p - m \in 1 .. n /\ p = m + (p - m))
  BY <1>2
<1>4. \A p \in 1 .. n : m + p \in 1 .. m + n
  BY <1>2
<1>5. \A p \in 1 .. m : p \in 1 .. m + n
  BY <1>2
<1> HIDE DEF m, n
<1>6. \A p \in 1 .. m + n : Sought(c[p]) \subseteq T
  BY <1>2, <1>3 DEF Piece, m, n
<1>7. Placed(c) = L \cup M
  <2>1. Placed(a) = L /\ Placed(b) = M
    BY DEF Piece
  <2>2. ASSUME NEW l \in Names
        PROVE  (\E p \in 1 .. m + n : c[p] = Lbl(l)) <=>
                 (\E p \in 1 .. m : a[p] = Lbl(l)) \/ (\E p \in 1 .. n : b[p] = Lbl(l))
    <3>1. ASSUME NEW p \in 1 .. m + n, c[p] = Lbl(l)
          PROVE  (\E q \in 1 .. m : a[q] = Lbl(l)) \/ (\E q \in 1 .. n : b[q] = Lbl(l))
      BY <1>2, <1>3, <3>1
    <3>2. ASSUME NEW p \in 1 .. m, a[p] = Lbl(l)
          PROVE  \E q \in 1 .. m + n : c[q] = Lbl(l)
      BY <1>2, <1>5, <3>2
    <3>3. ASSUME NEW p \in 1 .. n, b[p] = Lbl(l)
          PROVE  \E q \in 1 .. m + n : c[q] = Lbl(l)
      BY <1>2, <1>4, <3>3
    <3> QED
      BY <3>1, <3>2, <3>3
  <2> QED
    BY <1>2, <2>1, <2>2 DEF Placed, m, n
<1>8. Once(c)
  <2>1. ASSUME NEW l \in Names, NEW p \in 1 .. m + n, NEW q \in 1 .. m + n,
               c[p] = Lbl(l), c[q] = Lbl(l)
        PROVE  p = q
    <3>1. l \in L => l \notin M
      OBVIOUS
    <3>2. \A x \in 1 .. m : a[x] = Lbl(l) => l \in L
      BY DEF Piece, Placed, m
    <3>3. \A x \in 1 .. n : b[x] = Lbl(l) => l \in M
      BY DEF Piece, Placed, n
    <3>4. \A x, y \in 1 .. m : a[x] = Lbl(l) /\ a[y] = Lbl(l) => x = y
      BY DEF Piece, Once, m
    <3>5. \A x, y \in 1 .. n : b[x] = Lbl(l) /\ b[y] = Lbl(l) => x = y
      BY DEF Piece, Once, n
    <3>6. CASE p \in 1 .. m /\ q \in 1 .. m
      BY <1>2, <2>1, <3>4, <3>6
    <3>7. CASE p \in 1 .. m /\ q \notin 1 .. m
      <4>1. q - m \in 1 .. n /\ q = m + (q - m)
        BY <1>3, <3>7
      <4>2. a[p] = Lbl(l) /\ b[q - m] = Lbl(l)
        BY <1>2, <2>1, <3>7, <4>1
      <4>3. l \in L /\ l \in M
        BY <3>2, <3>3, <3>7, <4>1, <4>2
      <4> QED
        BY <3>1, <4>3
    <3>8. CASE p \notin 1 .. m /\ q \in 1 .. m
      <4>1. p - m \in 1 .. n /\ p = m + (p - m)
        BY <1>3, <3>8
      <4>2. a[q] = Lbl(l) /\ b[p - m] = Lbl(l)
        BY <1>2, <2>1, <3>8, <4>1
      <4>3. l \in L /\ l \in M
        BY <3>2, <3>3, <3>8, <4>1, <4>2
      <4> QED
        BY <3>1, <4>3
    <3>9. CASE p \notin 1 .. m /\ q \notin 1 .. m
      <4>1. p - m \in 1 .. n /\ p = m + (p - m) /\ q - m \in 1 .. n /\ q = m + (q - m)
        BY <1>3, <3>9
      <4>2. b[p - m] = Lbl(l) /\ b[q - m] = Lbl(l)
        BY <1>2, <2>1, <4>1
      <4>3. p - m = q - m
        BY <3>5, <4>1, <4>2
      <4> QED
        BY <4>1, <4>3
    <3> QED
      BY <3>6, <3>7, <3>8, <3>9
  <2> QED
    BY <1>2, <2>1 DEF Once, m, n
<1>9. Piece(c, L \cup M, T)
  BY <1>2, <1>6, <1>7, <1>8 DEF Piece, m, n
<1> QED
  BY <1>9 DEF c

LEMMA PieceJump ==
  ASSUME NEW T, NEW l \in Names \cap T
  PROVE  Piece(<<Jmp(l)>>, {}, T)
<1>1. Jmp(l) \in Instructions /\ Sought(Jmp(l)) \subseteq T
  BY InstructionsAre, SoughtAre
<1>2. \A m : Jmp(l) # Lbl(m)
  BY NoLabels
<1> QED
  BY <1>1, <1>2, PieceOne

LEMMA PieceOpt ==
  ASSUME NEW T, NEW e \in Expr \cup {NONE}
  PROVE  Piece(Opt(e), {}, T)
<1>1. CASE e = NONE
  BY <1>1, PieceEmpty DEF Opt
<1>2. CASE e # NONE
  <2>1. Act(e) \in Instructions /\ Sought(Act(e)) \subseteq T /\ \A m : Act(e) # Lbl(m)
    BY <1>2, InstructionsAre, SoughtAre, NoLabels
  <2> QED
    BY <1>2, <2>1, PieceOne DEF Opt
<1> QED
  BY <1>1, <1>2

LEMMA PieceJumpLabel ==
  ASSUME NEW T, NEW l \in Names \cap T, NEW m \in Names
  PROVE  Piece(<<Jmp(l), Lbl(m)>>, {m}, T)
<1>1. Piece(<<Jmp(l)>>, {}, T) /\ Piece(<<Lbl(m)>>, {m}, T)
  BY PieceJump, PieceLabel
<1>2. Piece(<<Jmp(l)>> \o <<Lbl(m)>>, {} \cup {m}, T)
  BY <1>1, PieceConcat
<1>3. {} \cup {m} = {m}
  OBVIOUS
<1>4. <<Jmp(l)>> \o <<Lbl(m)>> = <<Jmp(l), Lbl(m)>>
  <2>1. PICK a \in Instructions : a = Jmp(l)
    BY InstructionsAre
  <2>2. PICK b \in Instructions : b = Lbl(m)
    BY InstructionsAre
  <2>3. <<a>> \in Seq(Instructions) /\ <<a, b>> = Append(<<a>>, b)
    OBVIOUS
  <2>4. <<a>> \o <<b>> = Append(<<a>>, b)
    BY <2>3, AppendIsConcat
  <2> QED
    BY <2>1, <2>2, <2>3, <2>4
<1> QED
  BY <1>2, <1>3, <1>4

\* emit_if without an else branch, and with one
LEMMA PieceEmitThen ==
  ASSUME NEW T, NEW L, NEW branch, NEW then, NEW l \in Nat,
         Piece(branch, {}, T), Piece(then, L, T), l \notin L, l + 1 \notin L
  PROVE  Piece(EmitIf(branch, l, then, NONE), L \cup {l, l + 1}, T)
<1>1. l \in Names /\ l + 1 \in Names /\ l # l + 1
  BY DEF Names
<1>2. Piece(<<Lbl(l)>>, {l}, T) /\ Piece(<<Lbl(l + 1)>>, {l + 1}, T)
  BY <1>1, PieceLabel
<1>3. Piece(branch \o <<Lbl(l)>>, {} \cup {l}, T)
  BY <1>2, PieceConcat
<1>4. Piece(branch \o <<Lbl(l)>> \o then, ({} \cup {l}) \cup L, T)
  BY <1>3, PieceConcat
<1>5. Piece(branch \o <<Lbl(l)>> \o then \o <<Lbl(l + 1)>>,
            (({} \cup {l}) \cup L) \cup {l + 1}, T)
  BY <1>1, <1>2, <1>4, PieceConcat
<1>6. (({} \cup {l}) \cup L) \cup {l + 1} = L \cup {l, l + 1}
  OBVIOUS
<1> QED
  BY <1>5, <1>6 DEF EmitIf

LEMMA PieceEmitElse ==
  ASSUME NEW T, NEW L, NEW M, NEW branch, NEW then, NEW els, NEW l \in Nat,
         Piece(branch, {}, T), Piece(then, L, T), Piece(els, M, T),
         L \cap M = {}, {l, l + 1, l + 2} \cap (L \cup M) = {}, l + 2 \in T
  PROVE  Piece(EmitIf(branch, l, then, els), L \cup M \cup {l, l + 1, l + 2}, T)
<1>1. /\ l \in Names /\ l + 1 \in Names /\ l + 2 \in Names
      /\ l # l + 1 /\ l # l + 2 /\ l + 1 # l + 2
  BY DEF Names
<1>2. /\ Piece(<<Lbl(l)>>, {l}, T) /\ Piece(<<Lbl(l + 2)>>, {l + 2}, T)
      /\ Piece(<<Jmp(l + 2), Lbl(l + 1)>>, {l + 1}, T)
  BY <1>1, PieceLabel, PieceJumpLabel
<1>3. Piece(<<Jmp(l + 2), Lbl(l + 1)>> \o els, {l + 1} \cup M, T)
  BY <1>2, PieceConcat
<1>4. Piece(<<Jmp(l + 2), Lbl(l + 1)>> \o els \o <<Lbl(l + 2)>>,
            ({l + 1} \cup M) \cup {l + 2}, T)
  BY <1>1, <1>2, <1>3, PieceConcat
<1>5. Piece(branch \o <<Lbl(l)>>, {} \cup {l}, T)
  BY <1>2, PieceConcat
<1>6. Piece(branch \o <<Lbl(l)>> \o then, ({} \cup {l}) \cup L, T)
  BY <1>5, PieceConcat
<1>7. (({} \cup {l}) \cup L) \cap (({l + 1} \cup M) \cup {l + 2}) = {}
  BY <1>1
<1>8. Piece((branch \o <<Lbl(l)>> \o then)
            \o (<<Jmp(l + 2), Lbl(l + 1)>> \o els \o <<Lbl(l + 2)>>),
            (({} \cup {l}) \cup L) \cup (({l + 1} \cup M) \cup {l + 2}), T)
  BY <1>4, <1>6, <1>7, PieceConcat
<1>9. (({} \cup {l}) \cup L) \cup (({l + 1} \cup M) \cup {l + 2})
      = L \cup M \cup {l, l + 1, l + 2}
  OBVIOUS
<1>10. els # NONE
  BY NoneAssumption DEF Piece
<1> QED
  BY <1>8, <1>9, <1>10 DEF EmitIf

LEMMA PieceTest ==
  ASSUME NEW T, NEW e \in Expr, NEW l \in Nat, l \in T, l + 1 \in T
  PROVE  Piece(<<Test(e, l, l + 1)>>, {}, T)
<1>1. l \in Names /\ l + 1 \in Names
  BY DEF Names
<1>2. /\ Test(e, l, l + 1) \in Instructions /\ Sought(Test(e, l, l + 1)) \subseteq T
      /\ \A m : Test(e, l, l + 1) # Lbl(m)
  BY <1>1, InstructionsAre, SoughtAre, NoLabels
<1> QED
  BY <1>2, PieceOne

LEMMA PieceThen ==
  ASSUME NEW T, NEW L, NEW e \in Expr, NEW then, NEW l \in Nat,
         Piece(then, L, T), {l, l + 1} \cap L = {}, {l, l + 1} \subseteq T
  PROVE  Piece(If(e, l, then, NONE), L \cup {l, l + 1}, T)
BY PieceTest, PieceEmitThen DEF If

LEMMA PieceElse ==
  ASSUME NEW T, NEW L, NEW M, NEW e \in Expr, NEW then, NEW els, NEW l \in Nat,
         Piece(then, L, T), Piece(els, M, T), L \cap M = {},
         {l, l + 1, l + 2} \cap (L \cup M) = {}, {l, l + 1, l + 2} \subseteq T
  PROVE  Piece(If(e, l, then, els), L \cup M \cup {l, l + 1, l + 2}, T)
<1>1. Piece(<<Test(e, l, l + 1)>>, {}, T)
  BY PieceTest
<1>2. Piece(EmitIf(<<Test(e, l, l + 1)>>, l, then, els), L \cup M \cup {l, l + 1, l + 2}, T)
  BY <1>1, PieceEmitElse
<1> QED
  BY <1>2 DEF If

-----------------------------------------------------------------------------
(* The code of loops and of switch *)
LEMMA PieceFor ==
  ASSUME NEW T, NEW L, NEW f, IsCall(f), f.k = "for", NEW body, Piece(body, L, T),
         f.beg # f.mid, f.beg # f.end, f.mid # f.end,
         {f.beg, f.mid, f.end} \cap L = {}, {f.beg, f.mid, f.end} \subseteq T,
         NEW l \in Nat, NEW N, N = IF f.cond = NONE THEN {} ELSE {l, l + 1, l + 2},
         N \cap (L \cup {f.beg, f.mid, f.end}) = {}, N \subseteq T
  PROVE  Piece(ForCode(f, l, body), L \cup {f.beg, f.mid, f.end} \cup N, T)
<1> DEFINE c == IF f.cond = NONE THEN << >> ELSE If(f.cond, l, << >>, <<Jmp(f.end)>>)
<1>1. /\ f.init \in Expr \cup {NONE} /\ f.cond \in Expr \cup {NONE}
      /\ f.step \in Expr \cup {NONE} /\ f.beg \in Nat /\ f.mid \in Nat /\ f.end \in Nat
  BY DEF IsCall, Loops, Breakables
<1>2. f.beg \in Names \cap T /\ f.mid \in Names \cap T /\ f.end \in Names \cap T
  BY <1>1 DEF Names
<1>3. Piece(c, N, T)
  <2>1. CASE f.cond = NONE
    BY <2>1, PieceEmpty
  <2>2. CASE f.cond # NONE
    <3>1. f.cond \in Expr /\ Piece(<<Jmp(f.end)>>, {}, T) /\ Piece(<< >>, {}, T)
      BY <1>1, <1>2, <2>2, PieceJump, PieceEmpty
    <3>2. /\ {} \cap {} = {} /\ {l, l + 1, l + 2} \cap ({} \cup {}) = {}
          /\ {l, l + 1, l + 2} \subseteq T
      BY <2>2
    <3>3. Piece(If(f.cond, l, << >>, <<Jmp(f.end)>>), {} \cup {} \cup {l, l + 1, l + 2}, T)
      BY <3>1, <3>2, PieceElse
    <3>4. {} \cup {} \cup {l, l + 1, l + 2} = N
      BY <2>2
    <3> QED
      BY <2>2, <3>3, <3>4
  <2> QED
    BY <2>1, <2>2
<1>4. /\ Piece(Opt(f.init), {}, T) /\ Piece(Opt(f.step), {}, T)
      /\ Piece(<<Lbl(f.beg)>>, {f.beg}, T) /\ Piece(<<Lbl(f.mid)>>, {f.mid}, T)
      /\ Piece(<<Jmp(f.beg), Lbl(f.end)>>, {f.end}, T)
  BY <1>1, <1>2, PieceOpt, PieceLabel, PieceJumpLabel
<1> HIDE DEF c
<1>5. Piece(Opt(f.init) \o <<Lbl(f.beg)>>, {f.beg}, T)
  <2>1. Piece(Opt(f.init) \o <<Lbl(f.beg)>>, {} \cup {f.beg}, T)
    BY <1>4, PieceConcat
  <2>2. {} \cup {f.beg} = {f.beg}
    OBVIOUS
  <2> QED
    BY <2>1, <2>2
<1>6. Piece(Opt(f.init) \o <<Lbl(f.beg)>> \o c, {f.beg} \cup N, T)
  BY <1>3, <1>5, PieceConcat
<1>7. Piece(Opt(f.init) \o <<Lbl(f.beg)>> \o c \o body, ({f.beg} \cup N) \cup L, T)
  BY <1>6, PieceConcat
<1>8. Piece(Opt(f.init) \o <<Lbl(f.beg)>> \o c \o body \o <<Lbl(f.mid)>>,
            (({f.beg} \cup N) \cup L) \cup {f.mid}, T)
  BY <1>4, <1>7, PieceConcat
<1>9. Piece(Opt(f.init) \o <<Lbl(f.beg)>> \o c \o body \o <<Lbl(f.mid)>> \o Opt(f.step),
            ((({f.beg} \cup N) \cup L) \cup {f.mid}) \cup {}, T)
  BY <1>4, <1>8, PieceConcat
<1>10. Piece(Opt(f.init) \o <<Lbl(f.beg)>> \o c \o body \o <<Lbl(f.mid)>> \o Opt(f.step)
             \o <<Jmp(f.beg), Lbl(f.end)>>,
             (((({f.beg} \cup N) \cup L) \cup {f.mid}) \cup {}) \cup {f.end}, T)
  BY <1>4, <1>9, PieceConcat
<1>11. (((({f.beg} \cup N) \cup L) \cup {f.mid}) \cup {}) \cup {f.end}
       = L \cup {f.beg, f.mid, f.end} \cup N
  OBVIOUS
<1> QED
  BY <1>10, <1>11 DEF ForCode, c

LEMMA PieceWhile ==
  ASSUME NEW T, NEW L, NEW f, IsCall(f), f.k = "while", NEW body, Piece(body, L, T),
         f.beg # f.end, {f.beg, f.end} \cap L = {}, {f.beg, f.end} \subseteq T,
         NEW l \in Nat, {l, l + 1, l + 2} \cap (L \cup {f.beg, f.end}) = {},
         {l, l + 1, l + 2} \subseteq T
  PROVE  Piece(WhileCode(f, l, body), L \cup {f.beg, f.end} \cup {l, l + 1, l + 2}, T)
<1>1. f.cond \in Expr /\ f.beg \in Nat /\ f.end \in Nat
  BY DEF IsCall, Loops, Breakables
<1>2. f.beg \in Names \cap T /\ f.end \in Names \cap T
  BY <1>1 DEF Names
<1>3. /\ Piece(<<Lbl(f.beg)>>, {f.beg}, T) /\ Piece(<<Jmp(f.end)>>, {}, T)
      /\ Piece(<<Jmp(f.beg), Lbl(f.end)>>, {f.end}, T)
  BY <1>2, PieceLabel, PieceJump, PieceJumpLabel
<1> DEFINE N == {l, l + 1, l + 2}
<1>4. L \cap {} = {} /\ N \cap (L \cup {}) = {}
  OBVIOUS
<1>5. Piece(If(f.cond, l, body, <<Jmp(f.end)>>), L \cup {} \cup N, T)
  BY <1>1, <1>3, <1>4, PieceElse
<1>6. /\ f.beg \notin N /\ f.end \notin N /\ N \cap L = {}
  OBVIOUS
<1> HIDE DEF N
<1>7. Piece(<<Lbl(f.beg)>> \o If(f.cond, l, body, <<Jmp(f.end)>>),
            {f.beg} \cup (L \cup {} \cup N), T)
  BY <1>3, <1>5, <1>6, PieceConcat
<1>8. Piece(<<Lbl(f.beg)>> \o If(f.cond, l, body, <<Jmp(f.end)>>)
            \o <<Jmp(f.beg), Lbl(f.end)>>, ({f.beg} \cup (L \cup {} \cup N)) \cup {f.end}, T)
  BY <1>3, <1>6, <1>7, PieceConcat
<1>9. ({f.beg} \cup (L \cup {} \cup N)) \cup {f.end} = L \cup {f.beg, f.end} \cup N
  OBVIOUS
<1> QED
  BY <1>8, <1>9 DEF WhileCode, N

LEMMA PieceDo ==
  ASSUME NEW T, NEW L, NEW f, IsCall(f), f.k = "do", NEW body, Piece(body, L, T),
         f.beg # f.end, {f.beg, f.end} \cap L = {}, {f.beg, f.end} \subseteq T,
         NEW l \in Nat, {l, l + 1} \cap (L \cup {f.beg, f.end}) = {},
         {l, l + 1} \subseteq T
  PROVE  Piece(DoCode(f, l, body), L \cup {f.beg, f.end} \cup {l, l + 1}, T)
<1>1. f.cond \in Expr /\ f.beg \in Nat /\ f.end \in Nat
  BY DEF IsCall, Loops, Breakables
<1>2. f.beg \in Names \cap T /\ f.end \in Names \cap T
  BY <1>1 DEF Names
<1>3. /\ Piece(<<Lbl(f.beg)>>, {f.beg}, T) /\ Piece(<<Jmp(f.beg)>>, {}, T)
      /\ Piece(<<Lbl(f.end)>>, {f.end}, T)
  BY <1>2, PieceLabel, PieceJump
<1> DEFINE N == {l, l + 1}
<1>4. N \cap {} = {}
  OBVIOUS
<1>5. Piece(If(f.cond, l, <<Jmp(f.beg)>>, NONE), {} \cup N, T)
  BY <1>1, <1>3, <1>4, PieceThen
<1>6. /\ f.beg \notin N /\ f.end \notin N /\ N \cap L = {}
  OBVIOUS
<1> HIDE DEF N
<1>7. Piece(<<Lbl(f.beg)>> \o body, {f.beg} \cup L, T)
  BY <1>3, PieceConcat
<1>8. Piece(<<Lbl(f.beg)>> \o body \o If(f.cond, l, <<Jmp(f.beg)>>, NONE),
            ({f.beg} \cup L) \cup ({} \cup N), T)
  BY <1>5, <1>6, <1>7, PieceConcat
<1>9. Piece(<<Lbl(f.beg)>> \o body \o If(f.cond, l, <<Jmp(f.beg)>>, NONE)
            \o <<Lbl(f.end)>>, (({f.beg} \cup L) \cup ({} \cup N)) \cup {f.end}, T)
  BY <1>3, <1>6, <1>8, PieceConcat
<1>10. (({f.beg} \cup L) \cup ({} \cup N)) \cup {f.end} = L \cup {f.beg, f.end} \cup N
  OBVIOUS
<1> QED
  BY <1>9, <1>10 DEF DoCode, N

\* The jumps of a switch use the next two labels for each case.
LEMMA PieceDispatch ==
  ASSUME NEW T, nlabels \in Nat, cases \in Seq(Cases),
         \A n \in 1 .. Len(cases) : cases[n].label \in T,
         nlabels .. nlabels + 2 * Len(cases) - 1 \subseteq T
  PROVE  Piece(Dispatch, nlabels .. nlabels + 2 * Len(cases) - 1, T)
<1> DEFINE J(n) == Jump(cases[n], nlabels + 2 * (n - 1))
           N == nlabels .. nlabels + 2 * Len(cases) - 1
           k == Len(cases)
           D == Dispatch
<1>1. /\ D \in Seq(Instructions) /\ Len(D) = 4 * k /\ k \in Nat
      /\ \A p \in 1 .. Len(D) :
               \E n \in 1 .. k, m \in 1 .. 4 : p = 4 * (n - 1) + m /\ D[p] = J(n)[m]
  BY DispatchShape
<1>2. ASSUME NEW n \in 1 .. k
      PROVE  LET l == nlabels + 2 * (n - 1)
             IN  /\ J(n)[1] = Cmp(cases[n].range, l, l + 1) /\ J(n)[2] = Lbl(l)
                 /\ J(n)[3] = Jmp(cases[n].label) /\ J(n)[4] = Lbl(l + 1)
                 /\ l \in N /\ l + 1 \in N /\ cases[n].label \in T
  <2>1. nlabels + 2 * (n - 1) \in Nat /\ cases[n] \in Cases
    BY <1>1
  <2>2. nlabels + 2 * (n - 1) \in N /\ nlabels + 2 * (n - 1) + 1 \in N
    BY <1>1
  <2> QED
    BY <2>1, <2>2, JumpShape
<1>3. N \subseteq T /\ N \subseteq Nat
  OBVIOUS
<1> HIDE DEF J, D, N
<1>4. \A p \in 1 .. Len(D) : Sought(D[p]) \subseteq T
  <2>1. ASSUME NEW n \in 1 .. k, NEW m \in 1 .. 4
        PROVE  Sought(J(n)[m]) \subseteq T
    <3>1. m = 1 \/ m = 2 \/ m = 3 \/ m = 4
      OBVIOUS
    <3>2. PICK l : l = nlabels + 2 * (n - 1)
      OBVIOUS
    <3>3. /\ J(n)[1] = Cmp(cases[n].range, l, l + 1) /\ J(n)[2] = Lbl(l)
          /\ J(n)[3] = Jmp(cases[n].label) /\ J(n)[4] = Lbl(l + 1)
          /\ l \in T /\ l + 1 \in T /\ cases[n].label \in T
      BY <1>2, <1>3, <3>2
    <3>4. /\ Sought(J(n)[1]) = {l, l + 1} /\ Sought(J(n)[2]) = {}
          /\ Sought(J(n)[3]) = {cases[n].label} /\ Sought(J(n)[4]) = {}
      <4>1. Sought(Cmp(cases[n].range, l, l + 1)) = {l, l + 1}
        BY DEF Sought, Cmp
      <4>2. Sought(Lbl(l)) = {} /\ Sought(Lbl(l + 1)) = {}
        BY SoughtAre, Zenon
      <4>3. Sought(Jmp(cases[n].label)) = {cases[n].label}
        BY SoughtAre, Zenon
      <4> QED
        BY <3>3, <4>1, <4>2, <4>3
    <3> QED
      BY <3>1, <3>3, <3>4
  <2> QED
    BY <1>1, <2>1
\* Where a label is: after 4 n instructions come the labels 2 n and 2 n + 1.
<1>5. ASSUME NEW l \in Names, NEW p \in 1 .. Len(D), D[p] = Lbl(l)
      PROVE  /\ l \in N
             /\ \E n \in 1 .. k : \/ p = 4 * (n - 1) + 2 /\ l = nlabels + 2 * (n - 1)
                                  \/ p = 4 * (n - 1) + 4 /\ l = nlabels + 2 * (n - 1) + 1
  <2>1. PICK n \in 1 .. k, m \in 1 .. 4 : p = 4 * (n - 1) + m /\ D[p] = J(n)[m]
    BY <1>1
  <2>2. m = 1 \/ m = 2 \/ m = 3 \/ m = 4
    OBVIOUS
  <2>3. m # 1 /\ m # 3
    <3>1. PICK x : x = nlabels + 2 * (n - 1)
      OBVIOUS
    <3>2. J(n)[1] = Cmp(cases[n].range, x, x + 1) /\ J(n)[3] = Jmp(cases[n].label)
      BY <1>2, <3>1
    <3>3. J(n)[1] # Lbl(l) /\ J(n)[3] # Lbl(l)
      BY <3>2, NoLabels, Zenon
    <3> QED
      BY <1>5, <2>1, <3>3
  <2>4. CASE m = 2
    <3>1. l = nlabels + 2 * (n - 1)
      BY <1>2, <1>5, <2>1, <2>4, SameLabel
    <3> QED
      BY <1>2, <2>1, <2>4, <3>1
  <2>5. CASE m = 4
    <3>1. l = nlabels + 2 * (n - 1) + 1
      BY <1>2, <1>5, <2>1, <2>5, SameLabel
    <3> QED
      BY <1>2, <2>1, <2>5, <3>1
  <2> QED
    BY <2>2, <2>3, <2>4, <2>5
<1>6. Once(D)
  <2>1. ASSUME NEW l \in Names, NEW p \in 1 .. Len(D), NEW q \in 1 .. Len(D),
               D[p] = Lbl(l), D[q] = Lbl(l)
        PROVE  p = q
    <3>1. PICK n \in 1 .. k : \/ p = 4 * (n - 1) + 2 /\ l = nlabels + 2 * (n - 1)
                              \/ p = 4 * (n - 1) + 4 /\ l = nlabels + 2 * (n - 1) + 1
      BY <1>5, <2>1
    <3>2. PICK m \in 1 .. k : \/ q = 4 * (m - 1) + 2 /\ l = nlabels + 2 * (m - 1)
                              \/ q = 4 * (m - 1) + 4 /\ l = nlabels + 2 * (m - 1) + 1
      BY <1>5, <2>1
    <3> QED
      BY <3>1, <3>2
  <2> QED
    BY <2>1 DEF Once
<1>7. ASSUME NEW l \in N
      PROVE  \E p \in 1 .. Len(D) : D[p] = Lbl(l)
  <2>1. l \in Nat /\ nlabels <= l /\ l <= nlabels + 2 * k - 1
    BY <1>1 DEF N
  <2>2. PICK n \in 1 .. k : l = nlabels + 2 * (n - 1) \/ l = nlabels + 2 * (n - 1) + 1
    <3>1. PICK h : h = (l - nlabels) \div 2
      OBVIOUS
    <3>2. h \in Int /\ (l - nlabels = 2 * h \/ l - nlabels = 2 * h + 1)
      BY <2>1, <3>1
    <3>3. h + 1 \in 1 .. k /\ (l = nlabels + 2 * ((h + 1) - 1)
                               \/ l = nlabels + 2 * ((h + 1) - 1) + 1)
      BY <1>1, <2>1, <3>2
    <3> QED
      BY <3>3
  <2> DEFINE m == IF l = nlabels + 2 * (n - 1) THEN 2 ELSE 4
             p == 4 * (n - 1) + m
  <2>6. /\ m \in {2, 4} /\ p \in 1 .. 4 * k
        /\ m = 2 => l = nlabels + 2 * (n - 1)
        /\ m = 4 => l = nlabels + 2 * (n - 1) + 1
    BY <1>1, <2>1, <2>2
  <2> HIDE DEF m, p
  <2>3. PICK x \in 1 .. k, y \in 1 .. 4 : p = 4 * (x - 1) + y /\ D[p] = J(x)[y]
    BY <1>1, <2>6
  <2>4. x = n /\ y = m
    <3>1. 4 * (n - 1) + m = 4 * (x - 1) + y
      BY <2>3 DEF p
    <3>2. m \in 1 .. 4 /\ n \in Int /\ x \in Int /\ y \in 1 .. 4
      BY <1>1, <2>6
    <3>3. ~ (x < n) /\ ~ (n < x)
      BY <3>1, <3>2
    <3> QED
      BY <3>1, <3>2, <3>3
  <2>5. D[p] = Lbl(l)
    BY <1>2, <2>6, <2>3, <2>4
  <2> QED
    BY <1>1, <2>6, <2>5
<1>8. Placed(D) = N
  <2>1. N \subseteq Names
    BY <1>3 DEF Names
  <2> QED
    BY <1>5, <1>7, <2>1 DEF Placed
<1>9. Piece(D, N, T)
  BY <1>1, <1>4, <1>6, <1>8 DEF Piece
<1> QED
  BY <1>9 DEF D, N

LEMMA PieceSwitch ==
  ASSUME Shape, cases # NONE, NEW T, NEW L,
         NEW f, IsCall(f), f.k = "switch", NEW body, Piece(body, L, T),
         NEW N, N = nlabels .. nlabels + 2 * Len(cases) - 1, N \subseteq T,
         \A n \in 1 .. Len(cases) : cases[n].label \in T,
         defaultcase \in T \cup {NONE}, f.end \in T,
         f.end \notin L \cup N, L \cap N = {}
  PROVE  Piece(SwitchCode(f, body), L \cup {f.end} \cup N, T)
<1> DEFINE d == IF defaultcase # NONE THEN defaultcase ELSE f.end
<1>1. f.e \in Expr /\ f.end \in Nat /\ d \in Nat /\ d \in T
  BY DEF IsCall, Breakables, Shape, Target
<1>2. Piece(Dispatch, N, T)
  BY PieceDispatch DEF Shape
<1>3. f.end \in Names \cap T /\ d \in Names \cap T
  BY <1>1 DEF Names
<1> HIDE DEF d
<1>4. Piece(<<Jmp(d)>>, {}, T) /\ Piece(<<Lbl(f.end)>>, {f.end}, T)
  BY <1>3, PieceJump, PieceLabel
<1>5. Piece(<<Store(f.e)>>, {}, T)
  <2>1. Store(f.e) \in Instructions
    BY <1>1, InstructionsAre
  <2>2. Sought(Store(f.e)) \subseteq T /\ \A m : Store(f.e) # Lbl(m)
    BY SoughtAre, NoLabels
  <2> QED
    BY <2>1, <2>2, PieceOne
<1>6. Piece(<<Store(f.e)>> \o Dispatch, {} \cup N, T)
  BY <1>2, <1>5, PieceConcat
<1>7. Piece(<<Store(f.e)>> \o Dispatch \o <<Jmp(d)>>, ({} \cup N) \cup {}, T)
  BY <1>4, <1>6, PieceConcat
<1>8. Piece(<<Store(f.e)>> \o Dispatch \o <<Jmp(d)>> \o body, (({} \cup N) \cup {}) \cup L, T)
  BY <1>7, PieceConcat
<1>9. Piece(<<Store(f.e)>> \o Dispatch \o <<Jmp(d)>> \o body \o <<Lbl(f.end)>>,
            ((({} \cup N) \cup {}) \cup L) \cup {f.end}, T)
  BY <1>4, <1>8, PieceConcat
<1>10. ((({} \cup N) \cup {}) \cup L) \cup {f.end} = L \cup {f.end} \cup N
  OBVIOUS
<1> QED
  BY <1>9, <1>10 DEF SwitchCode, d

-----------------------------------------------------------------------------
(* The labels that were made, and where they are: each in the code of one of *)
(* the calls under way, or still to be put there by one of them, or in the    *)
(* statement that was read last.                                              *)
Owes(f) ==
    IF f.k = "for" THEN {f.beg, f.mid, f.end}
    ELSE IF f.k \in {"while", "do"} THEN {f.beg, f.end}
    ELSE IF f.k = "switch" THEN {f.end}
    ELSE IF f.k = "label" THEN {f.label} ELSE {}
Written(f) == IF f.k = "block" THEN f.list
              ELSE IF f.k = "else" THEN f.then.code ELSE << >>
Holds(f)   == Owes(f) \cup Placed(Written(f))

\* The labels of G, between the calls of s and a statement with those of L
Split(s, L, G) ==
    /\ L \subseteq G
    /\ \A n \in 1 .. Len(s) : Holds(s[n]) \subseteq G /\ Holds(s[n]) \cap L = {}
    /\ \A m, n \in 1 .. Len(s) : m # n => Holds(s[m]) \cap Holds(s[n]) = {}
    /\ \A x \in G : x \in L \/ \E n \in 1 .. Len(s) : x \in Holds(s[n])

LEMMA SplitPush ==
  ASSUME NEW s, Stack(s), NEW G, Split(s, {}, G), NEW f, Holds(f) \cap G = {}
  PROVE  Split(Append(s, f), {}, G \cup Holds(f))
<1>1. PICK t : t = Append(s, f)
  OBVIOUS
<1>2. /\ Len(s) \in Nat /\ Len(t) = Len(s) + 1 /\ t[Len(s) + 1] = f
      /\ \A n \in 1 .. Len(s) : t[n] = s[n]
  BY <1>1, StackHas, StackPush
<1>3. PICK d \in Nat : d = Len(s)
  BY <1>2
<1>4. /\ \A n \in 1 .. d + 1 : n \in 1 .. d \/ n = d + 1
      /\ \A n \in 1 .. d : n \in 1 .. d + 1 /\ n # d + 1
      /\ d + 1 \in 1 .. d + 1
  OBVIOUS
<1>5. /\ \A n \in 1 .. d : Holds(s[n]) \subseteq G
      /\ \A m, n \in 1 .. d : m # n => Holds(s[m]) \cap Holds(s[n]) = {}
      /\ \A x \in G : \E n \in 1 .. d : x \in Holds(s[n])
  BY <1>3 DEF Split
<1>6. /\ \A n \in 1 .. d : Holds(t[n]) = Holds(s[n])
      /\ Holds(t[d + 1]) = Holds(f) /\ Len(t) = d + 1
  BY <1>2, <1>3
<1>7. \A n \in 1 .. d + 1 : Holds(t[n]) \subseteq G \cup Holds(f)
  BY <1>4, <1>5, <1>6
<1>8. ASSUME NEW m \in 1 .. d + 1, NEW n \in 1 .. d + 1, m # n
      PROVE  Holds(t[m]) \cap Holds(t[n]) = {}
  BY <1>4, <1>5, <1>6, <1>8
<1>9. ASSUME NEW x \in G \cup Holds(f)
      PROVE  \E n \in 1 .. d + 1 : x \in Holds(t[n])
  BY <1>4, <1>5, <1>6
<1> QED
  BY <1>1, <1>6, <1>7, <1>8, <1>9 DEF Split

LEMMA SplitPop ==
  ASSUME NEW s, Stack(s), s # << >>, NEW L, NEW G, Split(s, L, G),
         NEW N, N \cap G = {}
  PROVE  /\ Split(Front(s), L \cup Holds(Last(s)) \cup N, G \cup N)
         /\ Holds(Last(s)) \subseteq G /\ Holds(Last(s)) \cap L = {}
<1>1. PICK t : t = Front(s)
  OBVIOUS
<1>2. /\ Len(s) \in Nat \ {0} /\ Len(t) = Len(s) - 1 /\ Last(s) = s[Len(s)]
      /\ \A n \in 1 .. Len(s) - 1 : t[n] = s[n]
  BY <1>1, StackPop
<1>3. PICK d \in Nat : d + 1 = Len(s)
  <2>1. Len(s) - 1 \in Nat /\ (Len(s) - 1) + 1 = Len(s)
    BY <1>2
  <2> QED
    BY <2>1
<1>4. /\ \A n \in 1 .. d + 1 : n \in 1 .. d \/ n = d + 1
      /\ \A n \in 1 .. d : n \in 1 .. d + 1 /\ n # d + 1
      /\ d + 1 \in 1 .. d + 1
  OBVIOUS
<1>5. /\ L \subseteq G
      /\ \A n \in 1 .. d + 1 : Holds(s[n]) \subseteq G /\ Holds(s[n]) \cap L = {}
      /\ \A m, n \in 1 .. d + 1 : m # n => Holds(s[m]) \cap Holds(s[n]) = {}
      /\ \A x \in G : x \in L \/ \E n \in 1 .. d + 1 : x \in Holds(s[n])
  BY <1>3 DEF Split
<1>6. Len(t) = d /\ Last(s) = s[d + 1] /\ \A n \in 1 .. d : t[n] = s[n]
  BY <1>2, <1>3
<1>7. PICK H : H = Holds(s[d + 1])
  OBVIOUS
<1>8. H \subseteq G /\ H \cap L = {}
  BY <1>4, <1>5, <1>7
<1>9. \A n \in 1 .. d : /\ Holds(t[n]) \subseteq G /\ Holds(t[n]) \cap L = {}
                        /\ Holds(t[n]) \cap H = {}
  BY <1>4, <1>5, <1>6, <1>7
<1>10. \A m, n \in 1 .. d : m # n => Holds(t[m]) \cap Holds(t[n]) = {}
  BY <1>4, <1>5, <1>6
<1>11. \A x \in G : x \in L \/ x \in H \/ \E n \in 1 .. d : x \in Holds(t[n])
  BY <1>4, <1>5, <1>6, <1>7
<1>12. Split(t, L \cup H \cup N, G \cup N)
  <2>1. L \cup H \cup N \subseteq G \cup N
    BY <1>5, <1>8
  <2>2. \A n \in 1 .. d : /\ Holds(t[n]) \subseteq G \cup N
                          /\ Holds(t[n]) \cap (L \cup H \cup N) = {}
    BY <1>9
  <2>3. \A x \in G \cup N : x \in L \cup H \cup N \/ \E n \in 1 .. d : x \in Holds(t[n])
    BY <1>11
  <2> QED
    BY <1>6, <1>10, <2>1, <2>2, <2>3 DEF Split
<1> QED
  BY <1>1, <1>6, <1>7, <1>8, <1>12

LEMMA SplitTop ==
  ASSUME NEW s, Stack(s), s # << >>, NEW L, NEW G, Split(s, L, G),
         NEW f, Holds(f) = Holds(Last(s)) \cup L
  PROVE  Split([s EXCEPT ![Len(s)] = f], {}, G)
<1>1. PICK t : t = [s EXCEPT ![Len(s)] = f]
  OBVIOUS
<1>2. /\ Len(s) \in Nat \ {0} /\ Len(t) = Len(s) /\ Last(s) = s[Len(s)]
      /\ t[Len(s)] = f /\ \A n \in 1 .. Len(s) - 1 : t[n] = s[n]
  BY <1>1, StackPop, StackTop
<1>3. PICK d \in Nat : d + 1 = Len(s)
  <2>1. Len(s) - 1 \in Nat /\ (Len(s) - 1) + 1 = Len(s)
    BY <1>2
  <2> QED
    BY <2>1
<1>4. /\ \A n \in 1 .. d + 1 : n \in 1 .. d \/ n = d + 1
      /\ \A n \in 1 .. d : n \in 1 .. d + 1 /\ n # d + 1
      /\ d + 1 \in 1 .. d + 1
  OBVIOUS
<1>5. /\ L \subseteq G
      /\ \A n \in 1 .. d + 1 : Holds(s[n]) \subseteq G /\ Holds(s[n]) \cap L = {}
      /\ \A m, n \in 1 .. d + 1 : m # n => Holds(s[m]) \cap Holds(s[n]) = {}
      /\ \A x \in G : x \in L \/ \E n \in 1 .. d + 1 : x \in Holds(s[n])
  BY <1>3 DEF Split
<1>6. /\ Len(t) = d + 1 /\ t[d + 1] = f /\ Last(s) = s[d + 1]
      /\ \A n \in 1 .. d : t[n] = s[n]
  BY <1>2, <1>3
<1>7. Holds(t[d + 1]) = Holds(s[d + 1]) \cup L /\ \A n \in 1 .. d : Holds(t[n]) = Holds(s[n])
  BY <1>6
<1>8. \A n \in 1 .. d + 1 : Holds(t[n]) \subseteq G
  BY <1>4, <1>5, <1>7
<1>9. ASSUME NEW m \in 1 .. d + 1, NEW n \in 1 .. d + 1, m # n
      PROVE  Holds(t[m]) \cap Holds(t[n]) = {}
  <2>1. CASE m \in 1 .. d /\ n \in 1 .. d
    BY <1>4, <1>5, <1>7, <1>9, <2>1
  <2>2. CASE m = d + 1 /\ n \in 1 .. d
    BY <1>4, <1>5, <1>7, <1>9, <2>2
  <2>3. CASE n = d + 1 /\ m \in 1 .. d
    BY <1>4, <1>5, <1>7, <1>9, <2>3
  <2> QED
    BY <1>4, <1>9, <2>1, <2>2, <2>3
<1>10. ASSUME NEW x \in G
       PROVE  \E n \in 1 .. d + 1 : x \in Holds(t[n])
  BY <1>4, <1>5, <1>7
<1> QED
  BY <1>1, <1>6, <1>8, <1>9, <1>10 DEF Split

\* What a call has written is a piece of code, and its labels are its own.
Aimed(cs, N) == cs # NONE => \A m \in 1 .. Len(cs) : cs[m].label \in N

Settled(f, N, T) ==
    /\ Piece(Written(f), Placed(Written(f)), T)
    /\ f.k # "label" => Owes(f) \subseteq N
    /\ f.k = "for" => f.beg # f.mid /\ f.beg # f.end /\ f.mid # f.end
    /\ f.k \in {"while", "do"} => f.beg # f.end
    /\ f.k \in Breakables => f.obreak \in N \cup {NONE}
    /\ f.k \in Loops => f.ocontinue \in N \cup {NONE}
    /\ f.k = "switch" => Aimed(f.ocases, N) /\ f.odefaultcase \in N \cup {NONE}

LEMMA SettledWider ==
  ASSUME NEW f, NEW N, NEW M, NEW T, NEW U, N \subseteq M, T \subseteq U, Settled(f, N, T)
  PROVE  Settled(f, M, U)
<1>1. Piece(Written(f), Placed(Written(f)), U)
  BY PieceWider DEF Settled
<1> QED
  BY <1>1 DEF Settled, Aimed

\* The labels of a function of which n were made and those of ls read
Numbers(n)   == 0 .. n - 1
Given(n, ls) == Numbers(n) \cup ls

\* s are the calls that read the function, L the labels of the last statement.
Parsing(s, L, n, ls, gs) ==
    /\ Split(s, L, Given(n, ls))
    /\ \A m \in 1 .. Len(s) : Settled(s[m], Numbers(n), Given(n, gs))

\* b, c, d and cs are what lbreak, lcontinue, defaultcase and cases may be.
Aims(b, c, d, cs, n) ==
    /\ b \in Numbers(n) \cup {NONE} /\ c \in Numbers(n) \cup {NONE}
    /\ d \in Numbers(n) \cup {NONE} /\ Aimed(cs, Numbers(n))

NodeLabels == IF node = NoNode THEN {} ELSE Placed(node.code)

Placement ==
    /\ phase = "parse" =>
         /\ Parsing(open, NodeLabels, nlabels, labels, gotos)
         /\ node # NoNode => Piece(node.code, NodeLabels, Given(nlabels, gotos))
         /\ Aims(lbreak, lcontinue, defaultcase, cases, nlabels)
    /\ phase = "run" => Piece(code, Placed(code), Placed(code))

LEMMA GivenWider ==
  ASSUME NEW n \in Nat, NEW m \in Nat, n <= m, NEW gs, NEW hs, gs \subseteq hs
  PROVE  Numbers(n) \subseteq Numbers(m) /\ Given(n, gs) \subseteq Given(m, hs)
<1>1. \A x \in 0 .. n - 1 : x \in 0 .. m - 1
  OBVIOUS
<1> QED
  BY <1>1 DEF Numbers, Given

LEMMA GivenMore ==
  ASSUME NEW n \in Nat, NEW m \in Nat, n <= m, NEW ls, ls \subseteq Label
  PROVE  Given(m, ls) = Given(n, ls) \cup (n .. m - 1) /\ (n .. m - 1) \cap Given(n, ls) = {}
<1>1. (0 .. m - 1) = (0 .. n - 1) \cup (n .. m - 1) /\ (n .. m - 1) \cap (0 .. n - 1) = {}
  OBVIOUS
<1>2. (n .. m - 1) \cap ls = {}
  <2>1. n .. m - 1 \subseteq Int
    OBVIOUS
  <2> QED
    BY <2>1, LabelAssumption
<1> QED
  BY <1>1, <1>2 DEF Given, Numbers

LEMMA AimsWider ==
  ASSUME NEW b, NEW c, NEW d, NEW cs, NEW n \in Nat, NEW m \in Nat, n <= m,
         Aims(b, c, d, cs, n)
  PROVE  Aims(b, c, d, cs, m)
<1>1. Numbers(n) \subseteq Numbers(m)
  BY GivenWider
<1> QED
  BY <1>1 DEF Aims, Aimed

LEMMA ParsingGoto ==
  ASSUME NEW s, NEW L, NEW n \in Nat, NEW ls, NEW gs, NEW hs, gs \subseteq hs,
         Parsing(s, L, n, ls, gs)
  PROVE  Parsing(s, L, n, ls, hs)
<1>1. Numbers(n) \subseteq Numbers(n) /\ Given(n, gs) \subseteq Given(n, hs)
  BY GivenWider
<1>2. \A m \in 1 .. Len(s) : Settled(s[m], Numbers(n), Given(n, hs))
  BY <1>1, SettledWider DEF Parsing
<1> QED
  BY <1>2 DEF Parsing

LEMMA ParsingPush ==
  ASSUME NEW s, Stack(s), NEW n \in Nat, NEW m \in Nat, n <= m, NEW ls, NEW ms, NEW gs,
         Parsing(s, {}, n, ls, gs), NEW f,
         Holds(f) \cap Given(n, ls) = {}, Given(m, ms) = Given(n, ls) \cup Holds(f),
         Settled(f, Numbers(m), Given(m, gs))
  PROVE  Parsing(Append(s, f), {}, m, ms, gs)
<1>1. PICK t : t = Append(s, f)
  OBVIOUS
<1>2. /\ Len(s) \in Nat /\ Len(t) = Len(s) + 1 /\ t[Len(s) + 1] = f
      /\ \A k \in 1 .. Len(s) : t[k] = s[k]
  BY <1>1, StackHas, StackPush
<1>3. \A k \in 1 .. Len(s) + 1 : k \in 1 .. Len(s) \/ k = Len(s) + 1
  BY <1>2
<1>4. Split(t, {}, Given(m, ms))
  BY <1>1, SplitPush DEF Parsing
<1>5. \A k \in 1 .. Len(s) : Settled(s[k], Numbers(n), Given(n, gs))
  BY DEF Parsing
<1>6. Numbers(n) \subseteq Numbers(m) /\ Given(n, gs) \subseteq Given(m, gs)
  BY GivenWider
<1>7. \A k \in 1 .. Len(s) : Settled(s[k], Numbers(m), Given(m, gs))
  BY <1>5, <1>6, SettledWider
<1>8. \A k \in 1 .. Len(t) : Settled(t[k], Numbers(m), Given(m, gs))
  BY <1>2, <1>3, <1>7
<1> QED
  BY <1>1, <1>4, <1>8 DEF Parsing

LEMMA ParsingPop ==
  ASSUME NEW s, Stack(s), s # << >>, NEW L, NEW n \in Nat, NEW m \in Nat, n <= m,
         NEW ls, ls \subseteq Label, NEW gs, Parsing(s, L, n, ls, gs)
  PROVE  /\ Parsing(Front(s), L \cup Holds(Last(s)) \cup (n .. m - 1), m, ls, gs)
         /\ Settled(Last(s), Numbers(m), Given(m, gs))
         /\ Holds(Last(s)) \cap L = {} /\ L \subseteq Given(n, ls)
         /\ (n .. m - 1) \cap (L \cup Holds(Last(s))) = {}
<1>1. PICK t : t = Front(s)
  OBVIOUS
<1>2. /\ Len(s) \in Nat \ {0} /\ Len(t) = Len(s) - 1 /\ Last(s) = s[Len(s)]
      /\ \A k \in 1 .. Len(s) - 1 : t[k] = s[k]
  BY <1>1, StackPop
<1>3. Len(s) \in 1 .. Len(s) /\ \A k \in 1 .. Len(s) - 1 : k \in 1 .. Len(s)
  BY <1>2
<1>4. Given(m, ls) = Given(n, ls) \cup (n .. m - 1) /\ (n .. m - 1) \cap Given(n, ls) = {}
  BY GivenMore
<1>5. Split(s, L, Given(n, ls)) /\ L \subseteq Given(n, ls)
  BY DEF Parsing, Split
<1>6. /\ Split(t, L \cup Holds(Last(s)) \cup (n .. m - 1), Given(m, ls))
      /\ Holds(Last(s)) \subseteq Given(n, ls) /\ Holds(Last(s)) \cap L = {}
  <2>1. PICK N : N = n .. m - 1
    OBVIOUS
  <2>2. N \cap Given(n, ls) = {} /\ Given(m, ls) = Given(n, ls) \cup N
    BY <1>4, <2>1
  <2>3. PICK G : G = Given(n, ls)
    OBVIOUS
  <2>4. N \cap G = {} /\ Split(s, L, G)
    BY <1>5, <2>2, <2>3
  <2>5. /\ Split(Front(s), L \cup Holds(Last(s)) \cup N, G \cup N)
        /\ Holds(Last(s)) \subseteq G /\ Holds(Last(s)) \cap L = {}
    BY <2>4, SplitPop, Zenon
  <2> QED
    BY <1>1, <2>1, <2>2, <2>3, <2>5
<1>7. \A k \in 1 .. Len(s) : Settled(s[k], Numbers(n), Given(n, gs))
  BY DEF Parsing
<1>8. Numbers(n) \subseteq Numbers(m) /\ Given(n, gs) \subseteq Given(m, gs)
  BY GivenWider
<1>9. \A k \in 1 .. Len(s) : Settled(s[k], Numbers(m), Given(m, gs))
  BY <1>7, <1>8, SettledWider
<1>10. \A k \in 1 .. Len(t) : Settled(t[k], Numbers(m), Given(m, gs))
  BY <1>2, <1>3, <1>9
<1>11. (n .. m - 1) \cap (L \cup Holds(Last(s))) = {}
  BY <1>4, <1>5, <1>6
<1> QED
  BY <1>1, <1>2, <1>3, <1>5, <1>6, <1>9, <1>10, <1>11 DEF Parsing

LEMMA ParsingTop ==
  ASSUME NEW s, Stack(s), s # << >>, NEW L, NEW n \in Nat, NEW ls, NEW gs,
         Parsing(s, L, n, ls, gs), NEW f, Holds(f) = Holds(Last(s)) \cup L,
         Settled(f, Numbers(n), Given(n, gs))
  PROVE  Parsing([s EXCEPT ![Len(s)] = f], {}, n, ls, gs)
<1>1. PICK t : t = [s EXCEPT ![Len(s)] = f]
  OBVIOUS
<1>2. /\ Len(s) \in Nat \ {0} /\ Len(t) = Len(s)
      /\ t[Len(s)] = f /\ \A k \in 1 .. Len(s) - 1 : t[k] = s[k]
  BY <1>1, StackPop, StackTop
<1>3. \A k \in 1 .. Len(s) : k \in 1 .. Len(s) - 1 \/ k = Len(s)
  BY <1>2
<1>4. Split(t, {}, Given(n, ls))
  BY <1>1, SplitTop DEF Parsing
<1>5. \A k \in 1 .. Len(t) : Settled(t[k], Numbers(n), Given(n, gs))
  BY <1>2, <1>3 DEF Parsing
<1> QED
  BY <1>1, <1>4, <1>5 DEF Parsing

-----------------------------------------------------------------------------
(* How a step keeps the labels in their places *)
LEMMA PlacedNode ==
  ASSUME node' # NoNode, phase' = "parse",
         NEW L, Piece(node'.code, L, Given(nlabels', gotos')),
         Parsing(open', L, nlabels', labels', gotos'),
         Aims(lbreak', lcontinue', defaultcase', cases', nlabels')
  PROVE  Placement'
<1>1. Placed(node'.code) = L
  BY DEF Piece
<1>2. NodeLabels' = L
  BY <1>1 DEF NodeLabels, NoNode, Node, Placed
<1>3. /\ Parsing(open', NodeLabels', nlabels', labels', gotos')
      /\ Piece(node'.code, NodeLabels', Given(nlabels', gotos'))
  BY <1>2
<1> QED
  BY <1>3, Zenon
     DEF Placement, Parsing, Piece, Aims, Aimed, Split, Settled, Given, Numbers,
         Holds, Owes, Written, Placed, Once, Sought

LEMMA PlacedReturns ==
  ASSUME NEW c, NEW t, Returns(c, t), NEW L, Piece(c, L, Given(nlabels', gotos')),
         Parsing(open', L, nlabels', labels', gotos'),
         Aims(lbreak', lcontinue', defaultcase', cases', nlabels'), phase' = "parse"
  PROVE  Placement'
<1>1. c # NONE
  BY NoneAssumption DEF Piece
<1>2. node'.code = c /\ node' # NoNode
  BY <1>1 DEF Returns, Node, NoNode
<1>3. Piece(node'.code, L, Given(nlabels', gotos'))
  BY <1>2
<1> QED
  BY <1>2, <1>3, PlacedNode

LEMMA PlacedWaits ==
  ASSUME node' = NoNode, Parsing(open', {}, nlabels', labels', gotos'),
         Aims(lbreak', lcontinue', defaultcase', cases', nlabels'), phase' = "parse"
  PROVE  Placement'
<1>1. NodeLabels' = {}
  BY DEF NodeLabels
<1>2. Parsing(open', NodeLabels', nlabels', labels', gotos')
  BY <1>1
<1> QED
  BY <1>2, Zenon
     DEF Placement, Parsing, Piece, Aims, Aimed, Split, Settled, Given, Numbers,
         Holds, Owes, Written, Placed, Once, Sought

LEMMA PlacedEnds ==
  ASSUME phase' \notin {"parse", "run"}
  PROVE  Placement'
BY DEF Placement

LEMMA PlacedNothing == Placed(<< >>) = {} /\ \A T : Piece(<< >>, {}, T)
BY PieceEmpty DEF Piece

LEMMA HoldsOwed ==
  ASSUME NEW f, f.k \notin {"block", "else"}, NEW T
  PROVE  /\ Holds(f) = Owes(f) /\ Written(f) = << >>
         /\ Piece(Written(f), Placed(Written(f)), T)
<1>1. Written(f) = << >>
  BY DEF Written
<1> QED
  BY <1>1, PlacedNothing DEF Holds

LEMMA InitPlaced == Init => Placement
<1> SUFFICES ASSUME Init PROVE Placement
  OBVIOUS
<1>1. PICK f : f = [k |-> "block", list |-> << >>, trees |-> << >>]
  OBVIOUS
<1>2. open = <<f>> /\ f.k = "block" /\ f.list = << >>
  BY <1>1 DEF Init
<1>3. Owes(f) = {} /\ Written(f) = << >>
  BY <1>2 DEF Owes, Written
<1>4. Holds(f) = {}
  BY <1>3, PlacedNothing DEF Holds
<1>5. PICK s : s = <<f>>
  OBVIOUS
<1>6. Len(s) = 1 /\ s[1] = f /\ \A n \in 1 .. Len(s) : n = 1
  BY <1>5
<1>7. Given(0, {}) = {} /\ Numbers(0) = {}
  BY DEF Given, Numbers
<1>8. Split(s, {}, Given(0, {}))
  BY <1>4, <1>6, <1>7 DEF Split
<1>9. Settled(f, Numbers(0), Given(0, {}))
  BY <1>2, <1>3, PlacedNothing DEF Settled, Loops, Breakables
<1>10. Parsing(s, {}, 0, {}, {})
  BY <1>6, <1>8, <1>9 DEF Parsing
<1>11. NodeLabels = {}
  BY DEF Init, NodeLabels
<1>12. Aims(NONE, NONE, NONE, NONE, 0)
  BY DEF Aims, Aimed
<1>13. /\ open = s /\ nlabels = 0 /\ labels = {} /\ gotos = {} /\ phase = "parse"
       /\ node = NoNode /\ lbreak = NONE /\ lcontinue = NONE
       /\ cases = NONE /\ defaultcase = NONE
  BY <1>2, <1>5 DEF Init
<1> QED
  BY <1>10, <1>11, <1>12, <1>13 DEF Placement

LEMMA LeafPlaced ==
  ASSUME Shape, Placement, ExprStmt \/ ReadReturn \/ ReadBreak \/ ReadContinue \/ ReadGoto
  PROVE  Placement'
<1>1. phase = "parse" /\ node = NoNode /\ nlabels \in Nat /\ ntokens \in Nat
  BY DEF Shape, ExprStmt, ReadReturn, ReadBreak, ReadContinue, ReadGoto, Reads
<1>2. /\ Parsing(open, {}, nlabels, labels, gotos)
      /\ Aims(lbreak, lcontinue, defaultcase, cases, nlabels)
  BY <1>1 DEF Placement, NodeLabels
<1>3. ASSUME NEW c, NEW t, Returns(c, t), Piece(c, {}, Given(nlabels, gotos')),
             UNCHANGED <<phase, open, lbreak, lcontinue, cases, defaultcase, labels, nlabels>>,
             gotos \subseteq gotos'
      PROVE  Placement'
  <2>1. Parsing(open, {}, nlabels, labels, gotos')
    BY <1>1, <1>2, <1>3, ParsingGoto
  <2>2. Parsing(open', {}, nlabels', labels', gotos')
    BY <1>3, <2>1
  <2>3. Aims(lbreak', lcontinue', defaultcase', cases', nlabels')
    BY <1>2, <1>3
  <2>4. Piece(c, {}, Given(nlabels', gotos'))
    BY <1>3
  <2>5. phase' = "parse"
    BY <1>1, <1>3
  <2> QED
    BY <1>3, <2>2, <2>3, <2>4, <2>5, PlacedReturns
<1>4. ASSUME NEW l \in Nat, l \in Numbers(nlabels)
      PROVE  Piece(<<Jmp(l)>>, {}, Given(nlabels, gotos))
  <2>1. l \in Names \cap Given(nlabels, gotos)
    BY <1>4 DEF Names, Given
  <2> QED
    BY <2>1, PieceJump
<1>5. CASE ExprStmt
  <2>1. Event("act") \in Expr
    BY <1>1, EventIs
  <2>2. PICK e \in Expr : e = Event("act")
    BY <2>1
  <2>3. Act(e) \in Instructions /\ Sought(Act(e)) \subseteq Given(nlabels, gotos)
        /\ \A l : Act(e) # Lbl(l)
    BY InstructionsAre, SoughtAre, NoLabels
  <2>4. Piece(<<Act(e)>>, {}, Given(nlabels, gotos))
    BY <2>3, PieceOne
  <2> QED
    BY <1>3, <1>5, <2>2, <2>4 DEF ExprStmt, context, names
<1>6. CASE ReadReturn
  <2>1. Ret \in Instructions /\ Sought(Ret) \subseteq Given(nlabels, gotos)
        /\ \A l : Ret # Lbl(l)
    BY InstructionsAre, SoughtAre, NoLabels
  <2>2. Piece(<<Ret>>, {}, Given(nlabels, gotos))
    BY <2>1, PieceOne
  <2> QED
    BY <1>3, <1>6, <2>2 DEF ReadReturn, context, names
<1>7. CASE ReadBreak
  <2>1. CASE lbreak = NONE
    BY <1>7, <2>1, PlacedEnds DEF ReadBreak, Errors
  <2>2. CASE lbreak # NONE
    <3>1. lbreak \in Nat /\ lbreak \in Numbers(nlabels)
      BY <1>2, <2>2 DEF Aims, Shape, Target
    <3>2. Piece(<<Jmp(lbreak)>>, {}, Given(nlabels, gotos))
      BY <1>4, <3>1
    <3> QED
      BY <1>3, <1>7, <2>2, <3>2 DEF ReadBreak, context, names
  <2> QED
    BY <2>1, <2>2
<1>8. CASE ReadContinue
  <2>1. CASE lcontinue = NONE
    BY <1>8, <2>1, PlacedEnds DEF ReadContinue, Errors
  <2>2. CASE lcontinue # NONE
    <3>1. lcontinue \in Nat /\ lcontinue \in Numbers(nlabels)
      BY <1>2, <2>2 DEF Aims, Shape, Target
    <3>2. Piece(<<Jmp(lcontinue)>>, {}, Given(nlabels, gotos))
      BY <1>4, <3>1
    <3> QED
      BY <1>3, <1>8, <2>2, <3>2 DEF ReadContinue, context, names
  <2> QED
    BY <2>1, <2>2
<1>9. CASE ReadGoto
  <2>1. PICK l \in Label : /\ gotos' = gotos \cup {l}
                           /\ Returns(<<Jmp(l)>>, [k |-> "goto", l |-> l])
    BY <1>9 DEF ReadGoto
  <2>2. l \in Names \cap Given(nlabels, gotos')
    BY <2>1 DEF Names, Given
  <2>3. Piece(<<Jmp(l)>>, {}, Given(nlabels, gotos'))
    BY <2>2, PieceJump
  <2> QED
    BY <1>3, <1>9, <2>1, <2>3 DEF ReadGoto, context
<1> QED
  BY <1>5, <1>6, <1>7, <1>8, <1>9

\* A call that begins holds the labels it makes.
LEMMA PlacedOpens ==
  ASSUME Shape, Placement, phase = "parse", node = NoNode,
         UNCHANGED <<phase, node, gotos>>, NEW f, Enter(f),
         nlabels' \in Nat, nlabels <= nlabels', Holds(f) \cap Given(nlabels, labels) = {},
         Given(nlabels', labels') = Given(nlabels, labels) \cup Holds(f),
         Settled(f, Numbers(nlabels'), Given(nlabels', gotos)),
         Aims(lbreak', lcontinue', defaultcase', cases', nlabels')
  PROVE  Placement'
<1>1. Stack(open) /\ nlabels \in Nat
  BY DEF Shape, Calls
<1>2. Parsing(open, {}, nlabels, labels, gotos)
  BY DEF Placement, NodeLabels
<1>3. Parsing(Append(open, f), {}, nlabels', labels', gotos)
  BY <1>1, <1>2, ParsingPush
<1>4. Parsing(open', {}, nlabels', labels', gotos')
  BY <1>3 DEF Enter
<1> QED
  BY <1>4, PlacedWaits

LEMMA OpensPlaced ==
  ASSUME Shape, Placement, Opens
  PROVE  Placement'
<1>1. phase = "parse" /\ node = NoNode /\ nlabels \in Nat /\ ntokens \in Nat
      /\ labels \subseteq Label /\ Placed(<< >>) = {}
  BY PlacedNothing
     DEF Shape, Opens, OpenBlock, OpenIf, OpenFor, OpenLoop, OpenSwitch, OpenCase,
         OpenDefault, OpenLabel, Reads
<1>2. Aims(lbreak, lcontinue, defaultcase, cases, nlabels)
  BY <1>1 DEF Placement
<1>3. ASSUME NEW m \in Nat, nlabels <= m
      PROVE  /\ Aims(lbreak, lcontinue, defaultcase, cases, m)
             /\ Given(m, labels) = Given(nlabels, labels) \cup (nlabels .. m - 1)
             /\ (nlabels .. m - 1) \cap Given(nlabels, labels) = {}
             /\ Numbers(nlabels) \subseteq Numbers(m)
  BY <1>1, <1>2, <1>3, AimsWider, GivenMore, GivenWider
\* A call that makes the labels from nlabels to m - 1
<1>4. ASSUME NEW f, Enter(f), f.k \notin {"block", "else"},
             NEW m \in Nat, nlabels <= m, nlabels' = m,
             Owes(f) = nlabels .. m - 1, Settled(f, Numbers(m), Given(m, gotos)),
             Aims(lbreak', lcontinue', defaultcase', cases', m),
             UNCHANGED <<phase, node, labels, gotos>>
      PROVE  Placement'
  <2>1. Holds(f) = nlabels .. m - 1
    BY <1>4, HoldsOwed
  <2>2. /\ Holds(f) \cap Given(nlabels, labels) = {}
        /\ Given(nlabels', labels') = Given(nlabels, labels) \cup Holds(f)
    BY <1>3, <1>4, <2>1
  <2>3. Settled(f, Numbers(nlabels'), Given(nlabels', gotos))
    BY <1>4
  <2>4. Aims(lbreak', lcontinue', defaultcase', cases', nlabels')
    BY <1>4
  <2> QED
    BY <1>1, <1>4, <2>2, <2>3, <2>4, PlacedOpens
<1>5. CASE OpenBlock
  <2>1. PICK f : f.k = "block" /\ f.list = << >> /\ Enter(f)
    BY <1>5 DEF OpenBlock
  <2>2. Owes(f) = {} /\ Written(f) = << >>
    BY <2>1 DEF Owes, Written
  <2>3. Holds(f) = {}
    BY <1>1, <2>2 DEF Holds
  <2>4. Settled(f, Numbers(nlabels), Given(nlabels, gotos))
    BY <1>1, <2>1, <2>2, PlacedNothing DEF Settled, Loops, Breakables
  <2>5. UNCHANGED <<phase, node, gotos, labels, nlabels, lbreak, lcontinue, defaultcase, cases>>
    BY <1>5 DEF OpenBlock, context, names
  <2>6. /\ Given(nlabels', labels') = Given(nlabels, labels) \cup Holds(f)
        /\ Settled(f, Numbers(nlabels'), Given(nlabels', gotos))
        /\ Aims(lbreak', lcontinue', defaultcase', cases', nlabels')
        /\ nlabels' \in Nat /\ nlabels <= nlabels'
        /\ Holds(f) \cap Given(nlabels, labels) = {}
    BY <1>1, <1>2, <2>3, <2>4, <2>5
  <2> QED
    BY <1>1, <2>1, <2>5, <2>6, PlacedOpens
<1>6. CASE OpenIf
  <2>1. PICK f : f.k = "if" /\ Enter(f)
    BY <1>6 DEF OpenIf
  <2>2. Owes(f) = nlabels .. nlabels - 1
    BY <1>1, <2>1 DEF Owes
  <2>3. Settled(f, Numbers(nlabels), Given(nlabels, gotos))
    BY <2>1, <2>2, HoldsOwed DEF Settled, Loops, Breakables, Owes
  <2>4. UNCHANGED <<phase, node, gotos, labels, nlabels, lbreak, lcontinue, defaultcase, cases>>
    BY <1>6 DEF OpenIf, context, names
  <2>5. Aims(lbreak', lcontinue', defaultcase', cases', nlabels) /\ nlabels <= nlabels
    BY <1>1, <1>2, <2>4
  <2> QED
    BY <1>1, <1>4, <2>1, <2>2, <2>3, <2>4, <2>5
<1>7. CASE OpenFor
  <2>1. PICK f : /\ f.k = "for" /\ f.beg = nlabels /\ f.mid = nlabels + 1
                 /\ f.end = nlabels + 2 /\ f.ocontinue = lcontinue
                 /\ f.obreak = lbreak /\ Enter(f)
    BY <1>7 DEF OpenFor
  <2>2. PICK m \in Nat : m = nlabels + 3
    BY <1>1
  <2>3. Owes(f) = nlabels .. m - 1 /\ Owes(f) \subseteq Numbers(m)
    BY <1>1, <2>1, <2>2 DEF Owes, Numbers
  <2>4. Aims(lbreak, lcontinue, defaultcase, cases, m) /\ nlabels <= m
    BY <1>1, <1>3, <2>2
  <2>5. f.beg # f.mid /\ f.beg # f.end /\ f.mid # f.end
    BY <1>1, <2>1
  <2>6. Settled(f, Numbers(m), Given(m, gotos))
    BY <2>1, <2>3, <2>4, <2>5, HoldsOwed DEF Settled, Aims
  <2>7. nlabels + 1 \in Numbers(m) /\ nlabels + 2 \in Numbers(m)
    BY <1>1, <2>2 DEF Numbers
  <2>8. /\ lcontinue' = nlabels + 1 /\ lbreak' = nlabels + 2 /\ nlabels' = m
        /\ UNCHANGED <<cases, defaultcase, phase, node, labels, gotos>>
    BY <1>7, <2>2 DEF OpenFor, SetJumpLabels, names
  <2>9. Aims(lbreak', lcontinue', defaultcase', cases', m)
    BY <2>4, <2>7, <2>8 DEF Aims
  <2> QED
    BY <1>4, <2>1, <2>3, <2>4, <2>6, <2>8, <2>9
<1>8. CASE OpenLoop
  <2>1. PICK f : /\ f.k \in {"while", "do"} /\ f.beg = nlabels
                 /\ f.end = nlabels + 1 /\ f.ocontinue = lcontinue
                 /\ f.obreak = lbreak /\ Enter(f)
    BY <1>8 DEF OpenLoop
  <2>2. PICK m \in Nat : m = nlabels + 2
    BY <1>1
  <2>3. Owes(f) = nlabels .. m - 1 /\ Owes(f) \subseteq Numbers(m)
    <3>1. f.k # "for" /\ Owes(f) = {nlabels, nlabels + 1}
      BY <2>1 DEF Owes
    <3>2. {nlabels, nlabels + 1} = nlabels .. m - 1
      BY <1>1, <2>2
    <3> QED
      BY <1>1, <2>2, <3>1, <3>2 DEF Numbers
  <2>4. Aims(lbreak, lcontinue, defaultcase, cases, m) /\ nlabels <= m
    BY <1>1, <1>3, <2>2
  <2>5. f.beg # f.end
    BY <1>1, <2>1
  <2>6. Settled(f, Numbers(m), Given(m, gotos))
    BY <2>1, <2>3, <2>4, <2>5, HoldsOwed DEF Settled, Aims
  <2>7. nlabels \in Numbers(m) /\ nlabels + 1 \in Numbers(m)
    BY <1>1, <2>2 DEF Numbers
  <2>8. /\ lcontinue' = nlabels /\ lbreak' = nlabels + 1 /\ nlabels' = m
        /\ UNCHANGED <<cases, defaultcase, phase, node, labels, gotos>>
    BY <1>8, <2>2 DEF OpenLoop, SetJumpLabels, names
  <2>9. Aims(lbreak', lcontinue', defaultcase', cases', m)
    BY <2>4, <2>7, <2>8 DEF Aims
  <2> QED
    BY <1>4, <2>1, <2>3, <2>4, <2>6, <2>8, <2>9
<1>9. CASE OpenSwitch
  <2>1. PICK f : /\ f.k = "switch" /\ f.end = nlabels /\ f.ocases = cases
                 /\ f.odefaultcase = defaultcase /\ f.obreak = lbreak /\ Enter(f)
    BY <1>9 DEF OpenSwitch
  <2>2. PICK m \in Nat : m = nlabels + 1
    BY <1>1
  <2>3. Owes(f) = nlabels .. m - 1 /\ Owes(f) \subseteq Numbers(m)
    BY <1>1, <2>1, <2>2 DEF Owes, Numbers
  <2>4. Aims(lbreak, lcontinue, defaultcase, cases, m) /\ nlabels <= m
    BY <1>1, <1>3, <2>2
  <2>5. Settled(f, Numbers(m), Given(m, gotos))
    BY <2>1, <2>3, <2>4, HoldsOwed DEF Settled, Aims, Loops
  <2>6. nlabels \in Numbers(m)
    BY <1>1, <2>2 DEF Numbers
  <2>7. /\ lbreak' = nlabels /\ nlabels' = m /\ cases' = << >> /\ defaultcase' = NONE
        /\ UNCHANGED <<lcontinue, phase, node, labels, gotos>>
    BY <1>9, <2>2 DEF OpenSwitch, names
  <2>8. Aimed(<< >>, Numbers(m))
    BY DEF Aimed
  <2>9. Aims(lbreak', lcontinue', defaultcase', cases', m)
    BY <2>4, <2>6, <2>7, <2>8 DEF Aims
  <2> QED
    BY <1>4, <2>1, <2>3, <2>4, <2>5, <2>7, <2>9
\* case and default labels
<1>10. ASSUME NEW f, f.k = "label", f.label = nlabels, Enter(f),
              nlabels' = nlabels + 1, Aims(lbreak', lcontinue', defaultcase', cases', nlabels + 1),
              UNCHANGED <<phase, node, labels, gotos>>
       PROVE  Placement'
  <2>1. PICK m \in Nat : m = nlabels + 1
    BY <1>1
  <2>2. Owes(f) = nlabels .. m - 1 /\ nlabels <= m
    BY <1>1, <1>10, <2>1 DEF Owes
  <2>3. Settled(f, Numbers(m), Given(m, gotos))
    BY <1>10, HoldsOwed DEF Settled, Loops, Breakables
  <2>4. Aims(lbreak', lcontinue', defaultcase', cases', m) /\ nlabels' = m
    BY <1>10, <2>1
  <2> QED
    BY <1>4, <1>10, <2>2, <2>3, <2>4
<1>11. /\ Aims(lbreak, lcontinue, defaultcase, cases, nlabels + 1)
       /\ nlabels \in Numbers(nlabels + 1)
  <2>1. nlabels + 1 \in Nat /\ nlabels <= nlabels + 1
    BY <1>1
  <2>2. nlabels \in 0 .. (nlabels + 1) - 1
    BY <1>1
  <2> QED
    BY <1>3, <2>1, <2>2 DEF Numbers
<1>12. CASE OpenCase
  <2>1. PICK r \in CaseRange :
          \/ Errors
          \/ /\ cases # NONE
             /\ cases' = Append(cases, [range |-> r, label |-> nlabels])
             /\ nlabels' = nlabels + 1
             /\ UNCHANGED <<phase, node, lbreak, lcontinue, defaultcase, names>>
             /\ \E f : Enter(f) /\ f.k = "label" /\ f.label = nlabels
    BY <1>12 DEF OpenCase
  <2>2. CASE Errors
    BY <2>2, PlacedEnds DEF Errors
  <2>3. CASE ~ Errors
    <3>1. PICK f : Enter(f) /\ f.k = "label" /\ f.label = nlabels
      BY <2>1, <2>3
    <3>2. PICK c : c = [range |-> r, label |-> nlabels]
      OBVIOUS
    <3>3. cases \in Seq(Cases) /\ c \in Cases /\ c.label = nlabels /\ cases' = Append(cases, c)
      BY <1>1, <2>1, <2>3, <3>2 DEF Shape, Cases
    <3>4. /\ Len(cases) \in Nat /\ Len(cases') = Len(cases) + 1 /\ cases'[Len(cases) + 1] = c
          /\ \A n \in 1 .. Len(cases) : cases'[n] = cases[n]
      BY <3>3, AppendShape
    <3>5. \A n \in 1 .. Len(cases) + 1 : n \in 1 .. Len(cases) \/ n = Len(cases) + 1
      BY <3>4
    <3>6. \A n \in 1 .. Len(cases) : cases[n].label \in Numbers(nlabels + 1)
      BY <1>11, <2>1, <2>3 DEF Aims, Aimed
    <3>7. \A n \in 1 .. Len(cases') : cases'[n].label \in Numbers(nlabels + 1)
      BY <1>11, <3>3, <3>4, <3>5, <3>6
    <3>8. Aims(lbreak', lcontinue', defaultcase', cases', nlabels + 1)
      BY <1>11, <2>1, <2>3, <3>7 DEF Aims, Aimed
    <3> QED
      BY <1>10, <2>1, <2>3, <3>1, <3>8 DEF names
  <2> QED
    BY <2>2, <2>3
<1>13. CASE OpenDefault
  <2>1. CASE Errors
    BY <2>1, PlacedEnds DEF Errors
  <2>2. CASE ~ Errors
    <3>1. /\ defaultcase' = nlabels /\ nlabels' = nlabels + 1
          /\ UNCHANGED <<phase, node, lbreak, lcontinue, cases, names>>
          /\ \E f : Enter(f) /\ f.k = "label" /\ f.label = nlabels
      BY <1>13, <2>2 DEF OpenDefault
    <3>2. PICK f : Enter(f) /\ f.k = "label" /\ f.label = nlabels
      BY <3>1
    <3>3. Aims(lbreak', lcontinue', defaultcase', cases', nlabels + 1)
      BY <1>11, <3>1 DEF Aims
    <3> QED
      BY <1>10, <3>1, <3>2, <3>3 DEF names
  <2> QED
    BY <2>1, <2>2
<1>14. CASE OpenLabel
  <2>1. PICK l \in Label :
          \/ Errors
          \/ /\ l \notin labels /\ labels' = labels \cup {l}
             /\ UNCHANGED <<phase, node, context, gotos, nlabels>>
             /\ \E f : Enter(f) /\ f.k = "label" /\ f.label = l
    BY <1>14 DEF OpenLabel
  <2>2. CASE Errors
    BY <2>2, PlacedEnds DEF Errors
  <2>3. CASE ~ Errors
    <3>1. PICK f : Enter(f) /\ f.k = "label" /\ f.label = l
      BY <2>1, <2>3
    <3>2. Owes(f) = {l}
      BY <3>1 DEF Owes
    <3>3. Holds(f) = {l}
      BY <3>1, <3>2, HoldsOwed
    <3>4. l \notin Numbers(nlabels)
      <4>1. Numbers(nlabels) \subseteq Int
        BY DEF Numbers
      <4> QED
        BY <4>1, LabelAssumption
    <3>5. Holds(f) \cap Given(nlabels, labels) = {}
      BY <2>1, <2>3, <3>3, <3>4 DEF Given
    <3>6. Settled(f, Numbers(nlabels), Given(nlabels, gotos))
      BY <3>1, HoldsOwed DEF Settled, Loops, Breakables
    <3>7. UNCHANGED <<phase, node, gotos, nlabels, lbreak, lcontinue, defaultcase, cases>>
      BY <2>1, <2>3 DEF context
    <3>8. Given(nlabels, labels') = Given(nlabels, labels) \cup Holds(f)
      BY <2>1, <2>3, <3>3 DEF Given
    <3>9. /\ Given(nlabels', labels') = Given(nlabels, labels) \cup Holds(f)
          /\ Settled(f, Numbers(nlabels'), Given(nlabels', gotos))
          /\ Aims(lbreak', lcontinue', defaultcase', cases', nlabels')
          /\ nlabels' \in Nat /\ nlabels <= nlabels'
      BY <1>1, <1>2, <3>6, <3>7, <3>8
    <3> QED
      BY <1>1, <3>1, <3>5, <3>7, <3>9, PlacedOpens
  <2> QED
    BY <2>2, <2>3
<1> QED
  BY <1>5, <1>6, <1>7, <1>8, <1>9, <1>12, <1>13, <1>14 DEF Opens

-----------------------------------------------------------------------------
\* A call that ends puts the labels it held, and those it makes, in its code.
LEMMA PlacedPops ==
  ASSUME Shape, Placement, phase = "parse", open # << >>, open' = Front(open),
         UNCHANGED <<phase, labels, gotos>>, NEW m \in Nat, nlabels <= m, nlabels' = m,
         NEW c, NEW t, Returns(c, t),
         Piece(c, NodeLabels \cup Holds(Frame) \cup (nlabels .. m - 1), Given(m, gotos)),
         Aims(lbreak', lcontinue', defaultcase', cases', m)
  PROVE  Placement'
<1>1. Stack(open) /\ nlabels \in Nat /\ labels \subseteq Label
  BY DEF Shape, Calls
<1>2. Parsing(open, NodeLabels, nlabels, labels, gotos)
  BY DEF Placement
<1>3. PICK L : L = NodeLabels \cup Holds(Frame) \cup (nlabels .. m - 1)
  OBVIOUS
<1>4. Parsing(Front(open), L, m, labels, gotos)
  BY <1>1, <1>2, <1>3, ParsingPop DEF Frame
<1>5. Parsing(open', L, nlabels', labels', gotos')
  BY <1>4
<1>6. Piece(c, L, Given(nlabels', gotos'))
  BY <1>3
<1>7. Aims(lbreak', lcontinue', defaultcase', cases', nlabels') /\ phase' = "parse"
  OBVIOUS
<1> QED
  BY <1>5, <1>6, <1>7, PlacedReturns

\* What is known of the call that ends, when it ends with labels up to m - 1
LEMMA FrameSettled ==
  ASSUME Shape, Placement, phase = "parse", node # NoNode, open # << >>,
         NEW m \in Nat, nlabels <= m
  PROVE  /\ Settled(Frame, Numbers(m), Given(m, gotos))
         /\ Piece(node.code, NodeLabels, Given(m, gotos))
         /\ Holds(Frame) \cap NodeLabels = {}
         /\ (nlabels .. m - 1) \cap (NodeLabels \cup Holds(Frame)) = {}
         /\ (nlabels .. m - 1) \subseteq Given(m, gotos)
         /\ Aims(lbreak, lcontinue, defaultcase, cases, m)
         /\ Numbers(m) \subseteq Given(m, gotos)
<1>1. Stack(open) /\ nlabels \in Nat /\ labels \subseteq Label
  BY DEF Shape, Calls
<1>2. /\ Parsing(open, NodeLabels, nlabels, labels, gotos)
      /\ Piece(node.code, NodeLabels, Given(nlabels, gotos))
      /\ Aims(lbreak, lcontinue, defaultcase, cases, nlabels)
  BY DEF Placement
<1>3. Given(nlabels, gotos) \subseteq Given(m, gotos)
  BY <1>1, GivenWider
<1>4. Piece(node.code, NodeLabels, Given(m, gotos))
  BY <1>2, <1>3, PieceWider
<1>5. Aims(lbreak, lcontinue, defaultcase, cases, m)
  BY <1>1, <1>2, AimsWider
<1>6. (nlabels .. m - 1) \subseteq 0 .. m - 1
  BY <1>1
<1>7. /\ Settled(Frame, Numbers(m), Given(m, gotos))
      /\ Holds(Frame) \cap NodeLabels = {}
      /\ (nlabels .. m - 1) \cap (NodeLabels \cup Holds(Frame)) = {}
  BY <1>1, <1>2, ParsingPop DEF Frame
<1> QED
  BY <1>4, <1>5, <1>6, <1>7 DEF Given, Numbers

LEMMA IfsPlaced ==
  ASSUME Shape, Placement, IfGets \/ ReadElse \/ ElseGets
  PROVE  Placement'
<1>0. phase = "parse" /\ node # NoNode /\ open # << >> /\ nlabels \in Nat
      /\ IsCall(Frame) /\ Frame.k \in {"if", "else"}
  BY GetsFacts DEF IfGets, ReadElse, ElseGets
<1> DEFINE L == NodeLabels
           P == Placed(Frame.then.code)
<1>1. CASE IfGets
  <2>1. PICK m \in Nat : m = nlabels + 2
    BY <1>0
  <2>2. nlabels .. m - 1 = {nlabels, nlabels + 1} /\ nlabels <= m
    BY <1>0, <2>1
  <2>3. PICK T : T = Given(m, gotos)
    OBVIOUS
  <2>4. /\ Piece(node.code, L, T) /\ {nlabels, nlabels + 1} \cap L = {}
        /\ {nlabels, nlabels + 1} \subseteq T
        /\ Aims(lbreak, lcontinue, defaultcase, cases, m)
    BY <1>0, <2>2, <2>3, FrameSettled
  <2>5. Frame.k = "if" /\ Frame.e \in Expr
    BY <1>0, <1>1 DEF IfGets, Gets, IsCall
  <2>6. Holds(Frame) = {}
    BY <2>5, HoldsOwed DEF Owes
  <2> HIDE DEF L
  <2>7. Piece(If(Frame.e, nlabels, node.code, NONE), L \cup {nlabels, nlabels + 1}, T)
    BY <1>0, <2>4, <2>5, PieceThen
  <2>8. L \cup Holds(Frame) \cup (nlabels .. m - 1) = L \cup {nlabels, nlabels + 1}
    BY <2>2, <2>6
  <2>9. Piece(If(Frame.e, nlabels, node.code, NONE),
              NodeLabels \cup Holds(Frame) \cup (nlabels .. m - 1), Given(m, gotos))
    BY <2>3, <2>7, <2>8 DEF L
  <2>10. /\ UNCHANGED <<phase, labels, gotos, lbreak, lcontinue, defaultcase, cases>>
         /\ open' = Front(open) /\ nlabels' = m
         /\ \E t : Returns(If(Frame.e, nlabels, node.code, NONE), t)
    BY <1>1, <2>1 DEF IfGets, names, context
  <2>11. Aims(lbreak', lcontinue', defaultcase', cases', m)
    BY <2>4, <2>10
  <2> QED
    BY <1>0, <2>2, <2>9, <2>10, <2>11, PlacedPops
<1>2. CASE ElseGets
  <2>1. PICK m \in Nat : m = nlabels + 3
    BY <1>0
  <2>2. nlabels .. m - 1 = {nlabels, nlabels + 1, nlabels + 2} /\ nlabels <= m
    BY <1>0, <2>1
  <2>3. PICK T : T = Given(m, gotos)
    OBVIOUS
  <2>4. Frame.k = "else" /\ Frame.e \in Expr
    BY <1>0, <1>2 DEF ElseGets, Gets, IsCall
  <2>5. Holds(Frame) = P /\ Written(Frame) = Frame.then.code
    BY <2>4 DEF Holds, Owes, Written
  <2>6. /\ Piece(node.code, L, T) /\ Piece(Frame.then.code, P, T) /\ P \cap L = {}
        /\ {nlabels, nlabels + 1, nlabels + 2} \cap (P \cup L) = {}
        /\ {nlabels, nlabels + 1, nlabels + 2} \subseteq T
        /\ Aims(lbreak, lcontinue, defaultcase, cases, m)
    <3>1. /\ Settled(Frame, Numbers(m), Given(m, gotos))
          /\ Piece(node.code, NodeLabels, Given(m, gotos))
          /\ Holds(Frame) \cap NodeLabels = {}
          /\ (nlabels .. m - 1) \cap (NodeLabels \cup Holds(Frame)) = {}
          /\ (nlabels .. m - 1) \subseteq Given(m, gotos)
          /\ Aims(lbreak, lcontinue, defaultcase, cases, m)
      BY <1>0, <2>2, FrameSettled
    <3>2. Piece(Frame.then.code, P, T)
      BY <2>3, <2>5, <3>1 DEF Settled
    <3> QED
      BY <2>2, <2>3, <2>5, <3>1, <3>2
  <2> HIDE DEF L, P
  <2>7. Piece(If(Frame.e, nlabels, Frame.then.code, node.code),
              P \cup L \cup {nlabels, nlabels + 1, nlabels + 2}, T)
    BY <1>0, <2>4, <2>6, PieceElse
  <2>8. L \cup Holds(Frame) \cup (nlabels .. m - 1)
        = P \cup L \cup {nlabels, nlabels + 1, nlabels + 2}
    BY <2>2, <2>5
  <2>9. Piece(If(Frame.e, nlabels, Frame.then.code, node.code),
              NodeLabels \cup Holds(Frame) \cup (nlabels .. m - 1), Given(m, gotos))
    BY <2>3, <2>7, <2>8 DEF L
  <2>10. /\ UNCHANGED <<phase, labels, gotos, lbreak, lcontinue, defaultcase, cases>>
         /\ open' = Front(open) /\ nlabels' = m
         /\ \E t : Returns(If(Frame.e, nlabels, Frame.then.code, node.code), t)
    BY <1>2, <2>1 DEF ElseGets, names, context
  <2>11. Aims(lbreak', lcontinue', defaultcase', cases', m)
    BY <2>6, <2>10
  <2> QED
    BY <1>0, <2>2, <2>9, <2>10, <2>11, PlacedPops
<1>3. CASE ReadElse
  <2>1. Frame.k = "if" /\ Stack(open) /\ Frame = open[Len(open)]
    BY <1>0, <1>3, StackPop DEF ReadElse, Gets, Shape, Calls, Frame
  <2>2. PICK f : /\ f.k = "else" /\ f.then = node
                 /\ open' = [open EXCEPT ![Len(open)] = f]
    <3> DEFINE f == [k |-> "else", e |-> open[Len(open)].e, then |-> node]
    <3>1. f.k = "else" /\ f.then = node /\ open' = [open EXCEPT ![Len(open)] = f]
      BY <1>3 DEF ReadElse
    <3> QED
      BY <3>1
  <2>3. Holds(Frame) = {}
    BY <2>1, HoldsOwed DEF Owes
  <2>4. Written(f) = node.code /\ Owes(f) = {} /\ NodeLabels = Placed(node.code)
    BY <1>0, <2>2 DEF Written, Owes, NodeLabels
  <2>5. Holds(f) = Holds(Last(open)) \cup NodeLabels
    BY <2>3, <2>4 DEF Holds, Frame
  <2>6. Piece(node.code, NodeLabels, Given(nlabels, gotos))
    BY <1>0 DEF Placement
  <2>7. Settled(f, Numbers(nlabels), Given(nlabels, gotos))
    BY <2>2, <2>4, <2>6 DEF Settled, Loops, Breakables
  <2>8. Parsing([open EXCEPT ![Len(open)] = f], {}, nlabels, labels, gotos)
    BY <1>0, <2>1, <2>5, <2>7, ParsingTop DEF Placement
  <2>9. /\ UNCHANGED <<phase, labels, gotos, nlabels, lbreak, lcontinue, defaultcase, cases>>
        /\ node' = NoNode
    BY <1>3 DEF ReadElse, names, context, counts
  <2>10. /\ Parsing(open', {}, nlabels', labels', gotos')
         /\ Aims(lbreak', lcontinue', defaultcase', cases', nlabels')
    BY <1>0, <2>2, <2>8, <2>9 DEF Placement
  <2> QED
    BY <1>0, <2>9, <2>10, PlacedWaits
<1> QED
  BY <1>1, <1>2, <1>3

LEMMA LoopsPlaced ==
  ASSUME Shape, Placement, ForGets \/ WhileGets \/ DoGets
  PROVE  Placement'
<1>1. /\ phase = "parse" /\ node # NoNode /\ open # << >> /\ nlabels \in Nat
      /\ IsCall(Frame) /\ Frame.k \in {"for", "while", "do"}
  BY GetsFacts DEF ForGets, WhileGets, DoGets
\* What the three have in common: c is the code of the loop.
<1>2. ASSUME NEW m \in Nat, nlabels <= m, nlabels' = m, NEW c, NEW t, Returns(c, t),
             Piece(c, NodeLabels \cup Owes(Frame) \cup (nlabels .. m - 1), Given(m, gotos)),
             RestoreJumpLabels, open' = Front(open),
             UNCHANGED <<phase, cases, defaultcase, names>>
      PROVE  Placement'
  <2>1. /\ Settled(Frame, Numbers(m), Given(m, gotos))
        /\ Aims(lbreak, lcontinue, defaultcase, cases, m)
    BY <1>1, <1>2, FrameSettled
  <2>2. Aims(lbreak', lcontinue', defaultcase', cases', m)
    BY <1>1, <1>2, <2>1 DEF Aims, Settled, RestoreJumpLabels, Loops, Breakables
  <2>3. Holds(Frame) = Owes(Frame)
    BY <1>1, HoldsOwed
  <2> QED
    BY <1>1, <1>2, <2>2, <2>3, PlacedPops DEF names
<1>3. ASSUME NEW m \in Nat, nlabels <= m
      PROVE  /\ Piece(node.code, NodeLabels, Given(m, gotos))
             /\ Owes(Frame) \cap NodeLabels = {}
             /\ (nlabels .. m - 1) \cap (NodeLabels \cup Owes(Frame)) = {}
             /\ (nlabels .. m - 1) \subseteq Given(m, gotos)
             /\ Owes(Frame) \subseteq Given(m, gotos)
             /\ Frame.k = "for" => /\ Frame.beg # Frame.mid /\ Frame.beg # Frame.end
                                   /\ Frame.mid # Frame.end
             /\ Frame.k \in {"while", "do"} => Frame.beg # Frame.end
  <2>1. Holds(Frame) = Owes(Frame)
    BY <1>1, HoldsOwed
  <2> QED
    BY <1>1, <1>3, <2>1, FrameSettled DEF Settled
<1>4. CASE ForGets
  <2>1. Frame.k = "for"
    BY <1>4 DEF ForGets, Gets
  <2>2. PICK m \in Nat : m = nlabels + (IF Frame.cond = NONE THEN 0 ELSE 3)
    BY <1>1
  <2>3. PICK N : N = nlabels .. m - 1
    OBVIOUS
  <2>4. nlabels <= m /\ N = IF Frame.cond = NONE THEN {} ELSE {nlabels, nlabels + 1, nlabels + 2}
    <3>1. nlabels .. (nlabels + 0) - 1 = {}
      BY <1>1
    <3>2. nlabels .. (nlabels + 3) - 1 = {nlabels, nlabels + 1, nlabels + 2}
      BY <1>1
    <3>3. CASE Frame.cond = NONE
      BY <1>1, <2>2, <2>3, <3>1, <3>3
    <3>4. CASE Frame.cond # NONE
      BY <1>1, <2>2, <2>3, <3>2, <3>4
    <3> QED
      BY <3>3, <3>4
  <2>5. Owes(Frame) = {Frame.beg, Frame.mid, Frame.end}
    BY <2>1 DEF Owes
  <2>6. PICK T : T = Given(m, gotos)
    OBVIOUS
  <2>7. PICK O : O = {Frame.beg, Frame.mid, Frame.end}
    OBVIOUS
  <2>8. /\ Piece(node.code, NodeLabels, T) /\ O \cap NodeLabels = {}
        /\ N \cap (NodeLabels \cup O) = {} /\ N \subseteq T /\ O \subseteq T
        /\ Frame.beg # Frame.mid /\ Frame.beg # Frame.end /\ Frame.mid # Frame.end
    BY <1>3, <2>1, <2>3, <2>4, <2>5, <2>6, <2>7
  <2>9. Piece(ForCode(Frame, nlabels, node.code), NodeLabels \cup O \cup N, T)
    BY <1>1, <2>1, <2>4, <2>7, <2>8, PieceFor
  <2>10. Piece(ForCode(Frame, nlabels, node.code),
               NodeLabels \cup Owes(Frame) \cup (nlabels .. m - 1), Given(m, gotos))
    BY <2>3, <2>5, <2>6, <2>7, <2>9
  <2>11. /\ \E t : Returns(ForCode(Frame, nlabels, node.code), t)
         /\ nlabels' = m /\ RestoreJumpLabels /\ open' = Front(open)
         /\ UNCHANGED <<phase, cases, defaultcase, names>>
    BY <1>4, <2>2 DEF ForGets, ForCode
  <2> QED
    BY <1>2, <2>4, <2>10, <2>11
<1>5. CASE WhileGets
  <2>1. Frame.k = "while"
    BY <1>5 DEF WhileGets, Gets
  <2>2. PICK m \in Nat : m = nlabels + 3
    BY <1>1
  <2>3. PICK N : N = nlabels .. m - 1
    OBVIOUS
  <2>4. nlabels <= m /\ N = {nlabels, nlabels + 1, nlabels + 2}
    BY <1>1, <2>2, <2>3
  <2>5. Owes(Frame) = {Frame.beg, Frame.end}
    BY <2>1 DEF Owes
  <2>6. PICK T : T = Given(m, gotos)
    OBVIOUS
  <2>7. PICK O : O = {Frame.beg, Frame.end}
    OBVIOUS
  <2>8. /\ Piece(node.code, NodeLabels, T) /\ O \cap NodeLabels = {}
        /\ N \cap (NodeLabels \cup O) = {} /\ N \subseteq T /\ O \subseteq T
        /\ Frame.beg # Frame.end
    BY <1>3, <2>1, <2>3, <2>4, <2>5, <2>6, <2>7
  <2>9. Piece(WhileCode(Frame, nlabels, node.code), NodeLabels \cup O \cup N, T)
    BY <1>1, <2>1, <2>4, <2>7, <2>8, PieceWhile
  <2>10. Piece(WhileCode(Frame, nlabels, node.code),
               NodeLabels \cup Owes(Frame) \cup (nlabels .. m - 1), Given(m, gotos))
    BY <2>3, <2>5, <2>6, <2>7, <2>9
  <2>11. /\ \E t : Returns(WhileCode(Frame, nlabels, node.code), t)
         /\ nlabels' = m /\ RestoreJumpLabels /\ open' = Front(open)
         /\ UNCHANGED <<phase, cases, defaultcase, names>>
    BY <1>5, <2>2 DEF WhileGets, WhileCode
  <2> QED
    BY <1>2, <2>4, <2>10, <2>11
<1>6. CASE DoGets
  <2>1. Frame.k = "do"
    BY <1>6 DEF DoGets, Gets
  <2>2. PICK m \in Nat : m = nlabels + 2
    BY <1>1
  <2>3. PICK N : N = nlabels .. m - 1
    OBVIOUS
  <2>4. nlabels <= m /\ N = {nlabels, nlabels + 1}
    BY <1>1, <2>2, <2>3
  <2>5. Owes(Frame) = {Frame.beg, Frame.end}
    BY <2>1 DEF Owes
  <2>6. PICK T : T = Given(m, gotos)
    OBVIOUS
  <2>7. PICK O : O = {Frame.beg, Frame.end}
    OBVIOUS
  <2>8. /\ Piece(node.code, NodeLabels, T) /\ O \cap NodeLabels = {}
        /\ N \cap (NodeLabels \cup O) = {} /\ N \subseteq T /\ O \subseteq T
        /\ Frame.beg # Frame.end
    BY <1>3, <2>1, <2>3, <2>4, <2>5, <2>6, <2>7
  <2>9. Piece(DoCode(Frame, nlabels, node.code), NodeLabels \cup O \cup N, T)
    BY <1>1, <2>1, <2>4, <2>7, <2>8, PieceDo
  <2>10. Piece(DoCode(Frame, nlabels, node.code),
               NodeLabels \cup Owes(Frame) \cup (nlabels .. m - 1), Given(m, gotos))
    BY <2>3, <2>5, <2>6, <2>7, <2>9
  <2>11. /\ \E t : Returns(DoCode(Frame, nlabels, node.code), t)
         /\ nlabels' = m /\ RestoreJumpLabels /\ open' = Front(open)
         /\ UNCHANGED <<phase, cases, defaultcase, names>>
    BY <1>6, <2>2 DEF DoGets, DoCode
  <2> QED
    BY <1>2, <2>4, <2>10, <2>11
<1> QED
  BY <1>4, <1>5, <1>6

LEMMA SwitchPlaced ==
  ASSUME Shape, JumpTargets, Placement, SwitchGets
  PROVE  Placement'
<1>1. /\ phase = "parse" /\ node # NoNode /\ open # << >> /\ nlabels \in Nat
      /\ IsCall(Frame) /\ Frame.k = "switch" /\ cases # NONE
  BY GetsFacts, InASwitch DEF SwitchGets, Gets
<1>2. Len(cases) \in Nat
  BY <1>1 DEF Shape
<1>3. PICK m \in Nat : m = nlabels + 2 * Len(cases)
  BY <1>1, <1>2
<1>4. nlabels <= m
  BY <1>1, <1>2, <1>3
<1>5. PICK N : N = nlabels .. m - 1
  OBVIOUS
<1>6. N = nlabels .. nlabels + 2 * Len(cases) - 1
  BY <1>1, <1>2, <1>3, <1>5
<1>7. PICK T : T = Given(m, gotos)
  OBVIOUS
<1>8. Holds(Frame) = {Frame.end} /\ Owes(Frame) = {Frame.end}
  BY <1>1, HoldsOwed DEF Owes
<1>9. /\ Settled(Frame, Numbers(m), T) /\ Piece(node.code, NodeLabels, T)
      /\ {Frame.end} \cap NodeLabels = {} /\ N \cap (NodeLabels \cup {Frame.end}) = {}
      /\ N \subseteq T /\ Numbers(m) \subseteq T
      /\ Aims(lbreak, lcontinue, defaultcase, cases, m)
  BY <1>1, <1>4, <1>5, <1>7, <1>8, FrameSettled
<1>10. /\ \A n \in 1 .. Len(cases) : cases[n].label \in T
       /\ defaultcase \in T \cup {NONE} /\ Frame.end \in T
  BY <1>1, <1>8, <1>9 DEF Aims, Aimed, Settled
<1>11. Frame.end \notin NodeLabels \cup N /\ NodeLabels \cap N = {}
  BY <1>9
<1>12. Piece(SwitchCode(Frame, node.code), NodeLabels \cup {Frame.end} \cup N, T)
  BY <1>1, <1>6, <1>9, <1>10, <1>11, PieceSwitch
<1>13. Piece(SwitchCode(Frame, node.code),
             NodeLabels \cup Holds(Frame) \cup (nlabels .. m - 1), Given(m, gotos))
  BY <1>5, <1>7, <1>8, <1>12
<1>14. /\ \E t : Returns(SwitchCode(Frame, node.code), t)
       /\ nlabels' = m /\ open' = Front(open)
       /\ cases' = Frame.ocases /\ defaultcase' = Frame.odefaultcase
       /\ lbreak' = Frame.obreak
       /\ UNCHANGED <<phase, lcontinue, labels, gotos>>
  BY <1>3 DEF SwitchGets, SwitchCode, names
<1>15. Aims(lbreak', lcontinue', defaultcase', cases', m)
  BY <1>1, <1>9, <1>14 DEF Aims, Settled, Breakables
<1> QED
  BY <1>1, <1>4, <1>13, <1>14, <1>15, PlacedPops

LEMMA LabelPlaced ==
  ASSUME Shape, Placement, LabelGets
  PROVE  Placement'
<1>1. /\ phase = "parse" /\ node # NoNode /\ open # << >> /\ nlabels \in Nat
      /\ IsCall(Frame) /\ Frame.k = "label"
  BY GetsFacts DEF LabelGets, Gets
<1>2. Holds(Frame) = {Frame.label} /\ Frame.label \in Names
  BY <1>1, HoldsOwed DEF Owes, IsCall
<1>3. nlabels <= nlabels /\ nlabels .. nlabels - 1 = {}
  BY <1>1
<1>4. PICK T : T = Given(nlabels, gotos)
  OBVIOUS
<1>5. /\ Piece(node.code, NodeLabels, T) /\ {Frame.label} \cap NodeLabels = {}
      /\ Aims(lbreak, lcontinue, defaultcase, cases, nlabels)
  BY <1>1, <1>2, <1>3, <1>4, FrameSettled
<1>6. Piece(<<Lbl(Frame.label)>>, {Frame.label}, T)
  BY <1>2, PieceLabel
<1>7. Piece(<<Lbl(Frame.label)>> \o node.code, {Frame.label} \cup NodeLabels, T)
  BY <1>5, <1>6, PieceConcat
<1>8. {Frame.label} \cup NodeLabels = NodeLabels \cup Holds(Frame) \cup (nlabels .. nlabels - 1)
  BY <1>2, <1>3
<1>9. Piece(<<Lbl(Frame.label)>> \o node.code,
            NodeLabels \cup Holds(Frame) \cup (nlabels .. nlabels - 1), Given(nlabels, gotos))
  BY <1>4, <1>7, <1>8
<1>10. /\ \E t : Returns(<<Lbl(Frame.label)>> \o node.code, t)
       /\ open' = Front(open)
       /\ UNCHANGED <<phase, nlabels, labels, gotos, lbreak, lcontinue, defaultcase, cases>>
  BY DEF LabelGets, context, names, counts
<1>11. Aims(lbreak', lcontinue', defaultcase', cases', nlabels)
  BY <1>5, <1>10
<1> QED
  BY <1>1, <1>3, <1>9, <1>10, <1>11, PlacedPops

LEMMA BlocksPlaced ==
  ASSUME Shape, Placement, BlockGets \/ CloseBlock
  PROVE  Placement'
<1>1. /\ phase = "parse" /\ open # << >> /\ nlabels \in Nat /\ Stack(open)
      /\ Frame.k = "block" /\ Frame = open[Len(open)]
  <2>1. Stack(open) /\ nlabels \in Nat
    BY DEF Shape, Calls
  <2>2. Len(open) > 1 => open # << >>
    BY <2>1, StackHas, NonEmpty
  <2> QED
    BY <2>1, <2>2, StackPop DEF BlockGets, CloseBlock, Gets, Frame
<1>2. /\ Parsing(open, NodeLabels, nlabels, labels, gotos)
      /\ Aims(lbreak, lcontinue, defaultcase, cases, nlabels)
  BY <1>1 DEF Placement
<1>3. Owes(Frame) = {} /\ Written(Frame) = Frame.list /\ Holds(Frame) = Placed(Frame.list)
  BY <1>1 DEF Owes, Written, Holds
<1>4. Piece(Frame.list, Holds(Frame), Given(nlabels, gotos))
  <2>1. nlabels <= nlabels
    BY <1>1
  <2>2. labels \subseteq Label
    BY DEF Shape
  <2>3. Settled(Frame, Numbers(nlabels), Given(nlabels, gotos))
    BY <1>1, <1>2, <2>1, <2>2, ParsingPop DEF Frame
  <2> QED
    BY <1>3, <2>3 DEF Settled
<1>5. CASE BlockGets
  <2>1. node # NoNode
    BY <1>5 DEF BlockGets, Gets
  <2>2. Piece(node.code, NodeLabels, Given(nlabels, gotos))
    BY <1>1, <2>1 DEF Placement
  <2>3. nlabels <= nlabels
    BY <1>1
  <2>4. Holds(Frame) \cap NodeLabels = {}
    BY <1>1, <2>1, <2>3, FrameSettled
  <2>5. PICK c : c = Frame.list \o node.code
    OBVIOUS
  <2>6. Piece(c, Holds(Frame) \cup NodeLabels, Given(nlabels, gotos))
    BY <1>4, <2>2, <2>4, <2>5, PieceConcat
  <2>7. PICK f : f.k = "block" /\ f.list = c /\ open' = [open EXCEPT ![Len(open)] = f]
    <3> DEFINE f == [k |-> "block", list |-> open[Len(open)].list \o node.code,
                     trees |-> Append(open[Len(open)].trees, node.tree)]
    <3>1. f.k = "block" /\ f.list = c /\ open' = [open EXCEPT ![Len(open)] = f]
      BY <1>1, <1>5, <2>5 DEF BlockGets
    <3> QED
      BY <3>1
  <2>8. Owes(f) = {} /\ Written(f) = c
    BY <2>7 DEF Owes, Written
  <2>9. Placed(c) = Holds(Frame) \cup NodeLabels
    BY <2>6 DEF Piece
  <2>10. Holds(f) = Holds(Last(open)) \cup NodeLabels
    BY <2>8, <2>9 DEF Holds, Frame
  <2>11. Settled(f, Numbers(nlabels), Given(nlabels, gotos))
    BY <2>6, <2>7, <2>8, <2>9 DEF Settled, Loops, Breakables
  <2>12. Parsing([open EXCEPT ![Len(open)] = f], {}, nlabels, labels, gotos)
    BY <1>1, <1>2, <2>10, <2>11, ParsingTop
  <2>13. /\ UNCHANGED <<phase, labels, gotos, nlabels, lbreak, lcontinue, defaultcase, cases>>
         /\ node' = NoNode
    BY <1>5 DEF BlockGets, names, context, counts
  <2>14. /\ Parsing(open', {}, nlabels', labels', gotos')
         /\ Aims(lbreak', lcontinue', defaultcase', cases', nlabels')
    BY <1>2, <2>7, <2>12, <2>13
  <2> QED
    BY <1>1, <2>13, <2>14, PlacedWaits
<1>6. CASE CloseBlock
  <2>1. /\ \E t : Returns(Frame.list, t)
        /\ node = NoNode /\ open' = Front(open)
        /\ UNCHANGED <<phase, nlabels, labels, gotos, lbreak, lcontinue, defaultcase, cases>>
    BY <1>6 DEF CloseBlock, context, names, counts
  <2>2. nlabels <= nlabels /\ nlabels .. nlabels - 1 = {}
    BY <1>1
  <2>3. NodeLabels = {}
    BY <2>1 DEF NodeLabels
  <2>4. Piece(Frame.list, NodeLabels \cup Holds(Frame) \cup (nlabels .. nlabels - 1),
              Given(nlabels, gotos))
    <3>1. NodeLabels \cup Holds(Frame) \cup (nlabels .. nlabels - 1) = Holds(Frame)
      BY <2>2, <2>3
    <3> QED
      BY <1>4, <3>1
  <2>5. Aims(lbreak', lcontinue', defaultcase', cases', nlabels)
    BY <1>2, <2>1
  <2> QED
    BY <1>1, <2>1, <2>2, <2>4, <2>5, PlacedPops
<1> QED
  BY <1>5, <1>6

\* The list of the body holds every label that was made, and every one a goto
\* names, since backfill_labels has found it.
LEMMA FunctionPlaced ==
  ASSUME Shape, Placement, CloseFunction
  PROVE  Placement'
<1>1. CASE ~ gotos \subseteq labels
  BY <1>1, PlacedEnds DEF CloseFunction
<1>2. CASE gotos \subseteq labels
  <2>1. /\ phase = "parse" /\ node = NoNode /\ Len(open) = 1
        /\ phase' = "run" /\ code' = Frame.list \o <<Ret>>
    BY <1>2 DEF CloseFunction
  <2>2. Stack(open) /\ nlabels \in Nat /\ open # << >> /\ open[1].k = "block"
    <3>1. Stack(open) /\ nlabels \in Nat /\ (Len(open) > 0 => open[1].k = "block")
      BY DEF Shape, Calls
    <3>2. Len(open) > 0
      BY <2>1
    <3> QED
      BY <3>1, <3>2, NonEmpty
  <2>3. Frame = open[1] /\ \A n \in 1 .. Len(open) : n = 1
    BY <2>1, <2>2, StackPop DEF Frame
  <2>4. Parsing(open, {}, nlabels, labels, gotos)
    BY <2>1 DEF Placement, NodeLabels
  <2>5. Written(Frame) = Frame.list /\ Holds(Frame) = Placed(Frame.list)
    BY <2>2, <2>3 DEF Written, Holds, Owes
  <2>6. 1 \in 1 .. Len(open)
    BY <2>1
  <2>7. Placed(Frame.list) = Given(nlabels, labels)
    <3>1. Holds(Frame) \subseteq Given(nlabels, labels)
      BY <2>3, <2>4, <2>6 DEF Parsing, Split
    <3>2. \A x \in Given(nlabels, labels) : x \in Holds(Frame)
      BY <2>3, <2>4 DEF Parsing, Split
    <3> QED
      BY <2>5, <3>1, <3>2
  <2>8. Settled(Frame, Numbers(nlabels), Given(nlabels, gotos))
    BY <2>3, <2>4, <2>6 DEF Parsing
  <2>9. Piece(Frame.list, Placed(Frame.list), Given(nlabels, gotos))
    BY <2>5, <2>8 DEF Settled
  <2>10. Given(nlabels, gotos) \subseteq Given(nlabels, labels)
    BY <1>2 DEF Given
  <2>11. PICK T : T = Placed(Frame.list)
    OBVIOUS
  <2>12. Piece(Frame.list, T, T)
    BY <2>7, <2>9, <2>10, <2>11, PieceWider
  <2>13. Piece(<<Ret>>, {}, T)
    <3>1. Ret \in Instructions /\ Sought(Ret) \subseteq T /\ \A l : Ret # Lbl(l)
      BY InstructionsAre, SoughtAre, NoLabels
    <3> QED
      BY <3>1, PieceOne
  <2>14. Piece(Frame.list \o <<Ret>>, T \cup {}, T)
    BY <2>12, <2>13, PieceConcat
  <2>15. T \cup {} = T
    OBVIOUS
  <2>16. Piece(code', T, T)
    BY <2>1, <2>14, <2>15
  <2>17. Placed(code') = T
    BY <2>16 DEF Piece
  <2>18. Piece(code', Placed(code'), Placed(code'))
    BY <2>16, <2>17
  <2> QED
    BY <2>1, <2>18, Zenon DEF Placement, Piece, Once, Placed, Sought
<1> QED
  BY <1>1, <1>2

LEMMA NextPlaced ==
  ASSUME Shape, JumpTargets, Placement, [Next]_vars
  PROVE  Placement'
<1>1. CASE UNCHANGED <<phase, open, node, code, nlabels, labels, gotos,
                       lbreak, lcontinue, defaultcase, cases>>
  <2>1. CASE phase = "parse"
    <3>1. CASE node = NoNode
      <4>1. /\ Parsing(open, {}, nlabels, labels, gotos)
            /\ Aims(lbreak, lcontinue, defaultcase, cases, nlabels)
        BY <2>1, <3>1 DEF Placement, NodeLabels
      <4>2. /\ Parsing(open', {}, nlabels', labels', gotos')
            /\ Aims(lbreak', lcontinue', defaultcase', cases', nlabels')
        BY <1>1, <4>1
      <4>3. node' = NoNode /\ phase' = "parse"
        BY <1>1, <2>1, <3>1
      <4> QED
        BY <4>2, <4>3, PlacedWaits
    <3>2. CASE node # NoNode
      <4>1. PICK L : L = NodeLabels
        OBVIOUS
      <4>2. /\ Parsing(open, L, nlabels, labels, gotos)
            /\ Piece(node.code, L, Given(nlabels, gotos))
            /\ Aims(lbreak, lcontinue, defaultcase, cases, nlabels)
        BY <2>1, <3>2, <4>1 DEF Placement
      <4>3. /\ Parsing(open', L, nlabels', labels', gotos')
            /\ Piece(node'.code, L, Given(nlabels', gotos'))
            /\ Aims(lbreak', lcontinue', defaultcase', cases', nlabels')
            /\ node' # NoNode /\ phase' = "parse"
        BY <1>1, <2>1, <3>2, <4>2
      <4> QED
        BY <4>3, PlacedNode
    <3> QED
      BY <3>1, <3>2
  <2>2. CASE phase = "run"
    <3>1. Piece(code', Placed(code'), Placed(code'))
      BY <1>1, <2>2 DEF Placement
    <3>2. phase' = "run"
      BY <1>1, <2>2
    <3> QED
      BY <3>1, <3>2, Zenon DEF Placement, Piece, Once, Placed, Sought
  <2>3. CASE phase \notin {"parse", "run"}
    BY <1>1, <2>3, PlacedEnds
  <2> QED
    BY <2>1, <2>2, <2>3
<1>2. CASE UNCHANGED vars
  BY <1>1, <1>2 DEF vars, context, names, counts
<1>3. CASE Run
  <2>1. CASE RunRet
    BY <2>1, PlacedEnds DEF RunRet
  <2>2. CASE RunAct \/ RunTest \/ RunStore \/ RunCmp \/ RunLabel \/ RunJump
    BY <1>1, <2>2 DEF RunAct, RunTest, RunStore, RunCmp, RunLabel, RunJump, parsed,
                      context, names, counts
  <2> QED
    BY <1>3, <2>1, <2>2 DEF Run
<1>4. CASE ReadStmt
  BY <1>4, LeafPlaced, OpensPlaced DEF ReadStmt, Opens
<1>5. CASE Finish
  BY <1>5, BlocksPlaced, FunctionPlaced, IfsPlaced, LoopsPlaced, SwitchPlaced,
     LabelPlaced DEF Finish
<1> QED
  BY <1>2, <1>3, <1>4, <1>5 DEF Next

LEMMA PlacedAreUnique ==
  ASSUME Placement
  PROVE  LabelsUnique
<1> DEFINE tests == {{code[p][n] : n \in 3 .. 4} :
                        p \in {q \in DOMAIN code : code[q][1] \in {"test", "cmp"}}}
           jumps == {code[p][2] : p \in {q \in DOMAIN code : code[q][1] = "jump"}}
<1> SUFFICES ASSUME phase = "run", NEW l \in (UNION tests) \cup jumps
             PROVE  Cardinality({p \in DOMAIN code : code[p] = Lbl(l)}) = 1
  BY DEF LabelsUnique
<1>1. Piece(code, Placed(code), Placed(code))
  BY DEF Placement
<1>2. DOMAIN code = 1 .. Len(code)
  BY <1>1, ElementShape DEF Piece
<1>3. \E q \in DOMAIN code : l \in Sought(code[q])
  <2>0. \/ \E q \in DOMAIN code : /\ code[q][1] \in {"test", "cmp"}
                                  /\ \E n \in 3 .. 4 : l = code[q][n]
        \/ \E q \in DOMAIN code : code[q][1] = "jump" /\ l = code[q][2]
    <3>1. l \in (UNION tests) \/ l \in jumps
      <4> HIDE DEF tests, jumps
      <4> QED
        OBVIOUS
    <3>2. CASE l \in UNION tests
      <4>1. PICK S \in tests : l \in S
        BY <3>2
      <4>2. PICK q \in DOMAIN code : /\ code[q][1] \in {"test", "cmp"}
                                     /\ S = {code[q][n] : n \in 3 .. 4}
        BY <4>1
      <4> QED
        BY <4>1, <4>2
    <3>3. CASE l \in jumps
      BY <3>3
    <3> HIDE DEF tests, jumps
    <3> QED
      BY <3>1, <3>2, <3>3
  <2>1. CASE \E q \in DOMAIN code : /\ code[q][1] \in {"test", "cmp"}
                                    /\ \E n \in 3 .. 4 : l = code[q][n]
    <3>1. PICK q \in DOMAIN code : /\ code[q][1] \in {"test", "cmp"}
                                   /\ \E n \in 3 .. 4 : l = code[q][n]
      BY <2>1
    <3>2. \A n \in 3 .. 4 : n = 3 \/ n = 4
      OBVIOUS
    <3> QED
      BY <3>1, <3>2 DEF Sought
  <2>2. CASE \E q \in DOMAIN code : code[q][1] = "jump" /\ l = code[q][2]
    BY <2>2 DEF Sought
  <2> HIDE DEF tests, jumps
  <2> QED
    BY <2>0, <2>1, <2>2
<1>4. l \in Placed(code)
  BY <1>1, <1>2, <1>3 DEF Piece
<1>5. l \in Names /\ \E p \in 1 .. Len(code) : code[p] = Lbl(l)
  BY <1>4 DEF Placed
<1>6. PICK p \in 1 .. Len(code) : code[p] = Lbl(l)
  BY <1>5
<1>7. \A q \in 1 .. Len(code) : code[q] = Lbl(l) => q = p
  BY <1>1, <1>5, <1>6 DEF Piece, Once
<1>8. {q \in DOMAIN code : code[q] = Lbl(l)} = {p}
  BY <1>2, <1>6, <1>7
<1> QED
  BY <1>8, FS_Singleton

\* Every label the finished code jumps to is in it, exactly once: the labels
\* make_label gives out are never shared, whatever is nested in what, and a
\* statement that needs one puts it in its code when it ends.
THEOREM LabelsAreUnique == Spec => []LabelsUnique
<1>1. Init => Jumps /\ Placement
  BY InitShape, InitJumps, InitPlaced DEF Jumps
<1>2. Jumps /\ Placement /\ [Next]_vars => Jumps' /\ Placement'
  BY NextJumps, NextPlaced DEF Jumps
<1>3. Placement => LabelsUnique
  BY PlacedAreUnique
<1> QED
  BY <1>1, <1>2, <1>3, PTL DEF Spec

-----------------------------------------------------------------------------
(* The run of the code *)
Stays == /\ phase = "parse" => pc = 1
         /\ phase \in {"run", "end"} => /\ pc \in 1 .. Len(code)
                                        /\ code[Len(code)] = Ret

LEMMA PlaceIs ==
  ASSUME Shape, Placement, phase = "run", NEW q \in 1 .. Len(code),
         NEW l \in Sought(code[q])
  PROVE  Place(l) \in 1 .. Len(code)
<1>1. DOMAIN code = 1 .. Len(code)
  BY ElementShape DEF Shape
<1>2. l \in Placed(code)
  BY DEF Placement, Piece
<1>3. \E p \in DOMAIN code : code[p] = Lbl(l)
  BY <1>1, <1>2 DEF Placed
<1> QED
  BY <1>1, <1>3 DEF Place

LEMMA FunctionStays ==
  ASSUME Shape, CloseFunction, pc = 1
  PROVE  Stays'
<1>1. pc' = 1 /\ phase' # "parse"
  BY DEF CloseFunction, machine
<1>2. CASE phase' \in {"run", "end"}
  <2>1. Len(open) = 1 /\ code' = Frame.list \o <<Ret>>
    BY <1>2 DEF CloseFunction
  <2>2. Frame.list \in Seq(Instructions)
    <3>1. Stack(open) /\ IsCall(open[1]) /\ open[1].k = "block" /\ Len(open) > 0
      BY <2>1 DEF Shape, Calls
    <3>2. open # << >>
      BY <3>1, NonEmpty
    <3>3. Frame = open[1]
      BY <2>1, <3>1, <3>2, StackPop DEF Frame
    <3> QED
      BY <3>1, <3>3 DEF IsCall
  <2>3. PICK s \in Seq(Instructions) : s = Frame.list
    BY <2>2
  <2>4. <<Ret>> \in Seq(Instructions) /\ Len(<<Ret>>) = 1
    BY InstructionsAre, OneInstruction
  <2>5. Len(s \o <<Ret>>) = Len(s) + 1 /\ (s \o <<Ret>>)[Len(s) + 1] = Ret
    BY <2>4
  <2>6. 1 \in 1 .. Len(s) + 1
    BY <2>3
  <2>7. code' = s \o <<Ret>>
    BY <2>1, <2>3
  <2>8. Len(code') = Len(s) + 1 /\ code'[Len(s) + 1] = Ret
    BY <2>5, <2>7
  <2>9. pc' \in 1 .. Len(code') /\ code'[Len(code')] = Ret
    BY <1>1, <2>6, <2>8
  <2> QED
    BY <1>1, <2>9 DEF Stays
<1> QED
  BY <1>1, <1>2 DEF Stays

LEMMA RunStays ==
  ASSUME Shape, Placement, Stays, Run
  PROVE  Stays'
<1>1. /\ phase = "run" /\ code' = code /\ phase' \in {"run", "end"}
      /\ pc \in 1 .. Len(code) /\ code[Len(code)] = Ret /\ Len(code) \in Nat
  <2>1. /\ phase = "run" /\ code' = code /\ phase' \in {"run", "end"}
    BY DEF Run, RunAct, RunTest, RunStore, RunCmp, RunLabel, RunJump, RunRet, At, parsed
  <2>2. Len(code) \in Nat
    BY DEF Shape
  <2> QED
    BY <2>1, <2>2 DEF Stays
<1>2. pc' \in 1 .. Len(code)
  <2>1. ASSUME code[pc][1] # "ret", pc' = pc + 1
        PROVE  pc' \in 1 .. Len(code)
    <3>1. Ret[1] = "ret"
      BY DEF Ret
    <3>2. pc # Len(code)
      BY <1>1, <2>1, <3>1
    <3> QED
      BY <1>1, <2>1, <3>2
  <2>2. CASE RunAct \/ RunStore \/ RunLabel
    BY <2>1, <2>2 DEF RunAct, RunStore, RunLabel, At
  <2>3. CASE RunTest \/ RunCmp
    <3>1. code[pc][1] \in {"test", "cmp"}
          /\ (pc' = Place(code[pc][3]) \/ pc' = Place(code[pc][4]))
      BY <2>3 DEF RunTest, RunCmp, At, Instr
    <3>2. code[pc][3] \in Sought(code[pc]) /\ code[pc][4] \in Sought(code[pc])
      BY <3>1 DEF Sought
    <3> QED
      BY <1>1, <3>1, <3>2, PlaceIs
  <2>4. CASE RunJump
    <3>1. code[pc][1] = "jump" /\ pc' = Place(code[pc][2])
      BY <2>4 DEF RunJump, At, Instr
    <3>2. code[pc][2] \in Sought(code[pc])
      BY <3>1 DEF Sought
    <3> QED
      BY <1>1, <3>1, <3>2, PlaceIs
  <2>5. CASE RunRet
    BY <1>1, <2>5 DEF RunRet, machine
  <2> QED
    BY <2>2, <2>3, <2>4, <2>5 DEF Run
<1> QED
  BY <1>1, <1>2 DEF Stays

LEMMA NextStays ==
  ASSUME Shape, Placement, Stays, [Next]_vars
  PROVE  Stays'
<1>1. CASE UNCHANGED <<phase, code, pc>>
  BY <1>1 DEF Stays
<1>2. CASE UNCHANGED vars
  BY <1>1, <1>2 DEF vars, machine
<1>3. ASSUME phase = "parse", pc' = pc, phase' \in {"parse", "error"}
      PROVE  Stays'
  BY <1>3 DEF Stays
<1>4. CASE ReadStmt
  <2>1. phase = "parse" /\ pc' = pc /\ phase' \in {"parse", "error"}
    <3>1. CASE ExprStmt \/ ReadReturn \/ ReadBreak \/ ReadContinue \/ ReadGoto
      BY <3>1 DEF ExprStmt, ReadReturn, ReadBreak, ReadContinue, ReadGoto, Reads, Errors, machine
    <3>2. CASE OpenBlock \/ OpenIf \/ OpenFor \/ OpenLoop \/ OpenSwitch
      BY <3>2 DEF OpenBlock, OpenIf, OpenFor, OpenLoop, OpenSwitch, Reads, Errors, machine
    <3>3. CASE OpenCase \/ OpenDefault \/ OpenLabel
      BY <3>3 DEF OpenCase, OpenDefault, OpenLabel, Reads, Errors, machine
    <3> QED
      BY <1>4, <3>1, <3>2, <3>3 DEF ReadStmt
  <2> QED
    BY <1>3, <2>1
<1>5. CASE CloseFunction
  BY <1>5, FunctionStays DEF CloseFunction, Stays
<1>6. CASE Finish /\ ~ CloseFunction
  <2>1. phase = "parse" /\ pc' = pc /\ phase' \in {"parse", "error"}
    <3>1. CASE BlockGets \/ CloseBlock \/ IfGets \/ ReadElse \/ ElseGets
      BY <3>1 DEF BlockGets, CloseBlock, IfGets, ReadElse, ElseGets, Gets, machine
    <3>2. CASE ForGets \/ WhileGets \/ DoGets \/ SwitchGets \/ LabelGets
      BY <3>2 DEF ForGets, WhileGets, DoGets, SwitchGets, LabelGets, Gets, machine
    <3> QED
      BY <1>6, <3>1, <3>2 DEF Finish
  <2> QED
    BY <1>3, <2>1
<1>7. CASE Run
  BY <1>7, RunStays
<1> QED
  BY <1>2, <1>4, <1>5, <1>6, <1>7 DEF Next

\* A run never leaves the code of its function: whatever the labels and jumps of
\* parse.c are nested in, each jump lands on its label, and before the end there is
\* always a next instruction: backfill_labels refuses a goto without a label, and
\* emit_toplevel ends each function with ret.
THEOREM RunsStay == Spec => [](phase \in {"run", "end"} => pc \in 1 .. Len(code))
<1> DEFINE IInv == Jumps /\ Placement /\ Stays
<1>1. Init => IInv
  <2>1. Init => Stays
    BY DEF Init, Stays
  <2> QED
    BY <2>1, InitShape, InitJumps, InitPlaced DEF Jumps
<1>2. IInv /\ [Next]_vars => IInv'
  BY NextJumps, NextPlaced, NextStays DEF Jumps
<1>3. IInv => (phase \in {"run", "end"} => pc \in 1 .. Len(code))
  BY DEF Stays
<1> QED
  BY <1>1, <1>2, <1>3, PTL DEF Spec
=============================================================================
