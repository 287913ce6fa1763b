-------------------------------- MODULE Expr --------------------------------
(***************************************************************************)
(* One expression through the compiler and the machine: it is read (parse.c), *)
(* code is generated for it (gen.c), and the virtual machine runs the code,    *)
(* an instruction per step.  The machine computes with floating point numbers;  *)
(* here a number is held in units of 1/Unit, which the programs do not go       *)
(* below.  A function called runs in one step, as the frames of gen.c have it:  *)
(* its base is in cell 1, its arguments follow, its result is put after them.   *)
(***************************************************************************)
EXTENDS ExprGen

CONSTANTS Programs,      \* the source: [tree, toks] records, in families
          Memory,        \* the cells when the expression starts
          Base,          \* r2: the base of the function's frame
          InitMem,       \* initmem, when the function is generated
          Result(_, _),  \* what a function returns for its arguments
          Function       \* the address of each function

VARIABLES program,       \* the program being compiled
          node,          \* its tree
          phase, gen,    \* where it is, and the generator's output
          pc, regs, mem, \* the machine
          output         \* what putchar wrote

machine == <<pc, regs, mem, output>>
vars    == <<program, toks, node, phase, gen, machine>>

Unit    == 2
Unset   == 77            \* what a register holds that was never written
NoCode  == [code |-> << >>, nregs |-> 3, labels |-> 0, reg |-> 0,
            initmem |-> InitMem, init |-> << >>]

Init == /\ \E f \in DOMAIN Programs : program \in Programs[f]
        /\ toks = program.toks /\ node = Error
        /\ phase = "source" /\ gen = NoCode
        /\ pc = 1 /\ regs = << >> /\ mem = Memory /\ output = << >>

Parsed(n, complete) == /\ node' = IF complete THEN n ELSE Error
                       /\ phase' = IF complete THEN "parsed" ELSE "rejected"
Parse == /\ phase = "source"
         /\ Then(ReadExpr, LAMBDA n, i : Parsed(n, ~ Rejected(n) /\ i = Len(toks) + 1))
         /\ UNCHANGED <<program, toks, gen, machine>>

\* emit_deref asks a node without a type for its size.  The programs have such a node
\* only as the whole expression: inside another the parser may be the first to ask.
Untyped == node.k = "deref" /\ node.ty = NONE
Crash == /\ phase = "parsed" /\ Untyped
         /\ phase' = "crashed"
         /\ UNCHANGED <<program, toks, node, gen, machine>>

\* The strings are set before the function runs, r2 in its prologue.
Generate == /\ phase = "parsed" /\ ~ Untyped
            /\ gen' = EmitExpr(node, NoCode)
            /\ mem' = [c \in DOMAIN mem |->
                         IF \E j \in DOMAIN gen'.init : gen'.init[j][1] = c
                         THEN LET j == CHOOSE j \in DOMAIN gen'.init : gen'.init[j][1] = c
                              IN  Unit * gen'.init[j][2]
                         ELSE mem[c]]
            /\ regs' = [r \in 0 .. gen'.nregs + 3 |-> IF r = 2 THEN Unit * Base ELSE Unset]
            /\ phase' = "running"
            /\ UNCHANGED <<program, toks, node, pc, output>>

-----------------------------------------------------------------------------
(* The virtual machine *)
Running(ops) == phase = "running" /\ pc <= Len(gen.code) /\ gen.code[pc][1] \in ops
Ins      == gen.code[pc]
R(n)     == regs[Ins[n]]
Set(v)   == regs' = [regs EXCEPT ![Ins[2]] = v] /\ pc' = pc + 1

\* Floating-point arithmetic; the operators on bits take integers.
VMArith(op, a, b) ==
    CASE op = "add" -> a + b
      [] op = "sub" -> a - b
      [] op = "mul" -> (a * b) \div Unit
      [] op = "div" -> Quotient(a * Unit, b)
      [] op = "mod" -> Remainder(a, b)
      [] op = "band" -> Unit * Arith("&", a \div Unit, b \div Unit)
      [] op = "bor"  -> Unit * Arith("|", a \div Unit, b \div Unit)
      [] op = "bxor" -> Unit * Arith("^", a \div Unit, b \div Unit)
      [] op = "bshl" -> Unit * Arith("<<", a \div Unit, b \div Unit)
      [] op = "bshr" -> Unit * Arith(">>", a \div Unit, b \div Unit)

Load == /\ Running({"int", "reg", "addr"})
        /\ Set(CASE Ins[1] = "int" -> Unit * Ins[3]
                 [] Ins[1] = "reg" -> R(3)
                 [] Ins[1] = "addr" -> Unit * Function[Ins[3]])
        /\ UNCHANGED <<program, toks, node, phase, gen, mem, output>>

Compute == /\ Running({"add", "sub", "mul", "div", "mod", "band", "bor", "bxor",
                       "bshl", "bshr"})
           /\ Set(VMArith(Ins[1], R(3), R(4)))
           /\ UNCHANGED <<program, toks, node, phase, gen, mem, output>>

Get == /\ Running({"get"})
       /\ Set(mem[R(3) \div Unit])
       /\ UNCHANGED <<program, toks, node, phase, gen, mem, output>>

Store == /\ Running({"set"})
         /\ mem' = [mem EXCEPT ![R(2) \div Unit] = R(3)]
         /\ pc' = pc + 1
         /\ UNCHANGED <<program, toks, node, phase, gen, regs, output>>

Place(label) == CHOOSE k \in DOMAIN gen.code : gen.code[k] = <<"label", label>>

Branch == /\ Running({"beq", "blt", "jump", "label"})
          /\ pc' = CASE Ins[1] = "jump" -> Place(Ins[2])
                     [] Ins[1] = "label" -> pc + 1
                     [] Ins[1] = "beq" -> Place(Ins[IF R(2) = R(3) THEN 5 ELSE 4])
                     [] Ins[1] = "blt" -> Place(Ins[IF R(2) < R(3) THEN 5 ELSE 4])
          /\ UNCHANGED <<program, toks, node, phase, gen, regs, mem, output>>

\* Every function takes arguments of two cells.
Call == /\ Running({"call", "dcall"})
        /\ LET f == IF Ins[1] = "call" THEN Ins[3]
                    ELSE CHOOSE f \in DOMAIN Function : Unit * Function[f] = R(3)
               base == mem[1] \div Unit
               res  == Result(f, <<mem[base], mem[base + 1]>>)
               at   == base + 2
           IN  /\ mem' = [c \in DOMAIN mem |-> IF c - at + 1 \in DOMAIN res
                                               THEN res[c - at + 1] ELSE mem[c]]
               /\ Set(Unit * at)
        /\ UNCHANGED <<program, toks, node, phase, gen, output>>

PutChar == /\ Running({"putchar"})
           /\ output' = Append(output, R(2))
           /\ pc' = pc + 1
           /\ UNCHANGED <<program, toks, node, phase, gen, regs, mem>>

Finish == /\ phase = "running" /\ pc = Len(gen.code) + 1
          /\ phase' = "done"
          /\ UNCHANGED <<program, toks, node, gen, machine>>

Terminated == phase \in {"done", "rejected", "crashed"} /\ UNCHANGED vars

Next == \/ Parse \/ Crash \/ Generate \/ Load \/ Compute \/ Get \/ Store \/ Branch
        \/ Call \/ PutChar \/ Finish \/ Terminated

Spec == Init /\ [][Next]_vars
=============================================================================
