------------------------------- MODULE Frames -------------------------------
(***************************************************************************)
(* Local variables: the scopes parse.c resolves a name in, the slots gen.c   *)
(* gives the variables of a function, and the frames its calls make of them. *)
(*                                                                          *)
(* gen.c emits the code of a function in the order of its statements; here   *)
(* the code of each runs as it is emitted, in straight-line functions.  An   *)
(* activation has a base (register r2), gen.c's stackn and locals, the       *)
(* scopes of the source, and the values its registers hold.  A variable has  *)
(* one or more cells; the scopes say what the source has in each, `mem' what *)
(* the machine has.  A register value is the pair of what the code computed  *)
(* (got) and what the source means (want).                                   *)
(***************************************************************************)
EXTENDS Integers, Sequences, FiniteSets, SequencesExt, Functions

CONSTANTS Name,        \* names of local variables
          VaArea,      \* the cells a variadic function leaves for arguments (64)
          Shadowing,   \* may an inner scope declare a name of an outer one?
          Clobbering,  \* may a temporary take the cells of a variable in use?
          Offsets,     \* the struct offsets at which members are assigned
          Bounds,      \* bounds of the programs: records of the variables' sizes,
                       \* the stack's cells, the literals evaluated, the values
                       \* held at once, the blocks open and the activations
          NONE

ASSUME NameAssumption == NONE \notin Name

ASSUME FramesAssumption ==
    /\ VaArea \in Nat /\ Offsets \subseteq Nat
    /\ Shadowing \in BOOLEAN /\ Clobbering \in BOOLEAN
    /\ Bounds \subseteq [sizes : SUBSET (Nat \ {0}), cells : Nat, lits : Nat,
                        regs : Nat, scopes : Nat, depth : Nat]

VARIABLES calls,    \* the activations, the running one last
          mem,      \* the cells above the globals
          sp,       \* memory cell 1: where the next prologue finds its base
          ptr,      \* NONE, or the variable whose address was taken last
          nlits,    \* counts the literals, and names them
          bounds    \* those of this program

counts == <<nlits, bounds>>
vars   == <<calls, mem, sp, ptr, counts>>

Cells(n)    == 0 .. n - 1
CellsOf(v)  == Cardinality(DOMAIN v)
Blank(n)    == [c \in Cells(n) |-> NONE]
Put(m, at, v) == [a \in DOMAIN m |-> IF a - at \in DOMAIN v THEN v[a - at]
                                     ELSE m[a]]
Get(m, at, n) == [c \in Cells(n) |-> m[at + c]]
Fits(at, n) == at + n <= bounds.cells

EmptyMap == [x \in {} |-> 0]
Bind(f, x, v) == [y \in DOMAIN f \cup {x} |-> IF y = x THEN v ELSE f[y]]

Top       == Last(calls)
Depth     == Len(calls)
Become(a) == calls' = [calls EXCEPT ![Depth] = a]

\* parse.c resolves a name in the innermost scope that has it (localenv).
Levels(a, x) == {n \in DOMAIN a.scopes : x \in DOMAIN a.scopes[n]}
Level(a, x)  == CHOOSE n \in Levels(a, x) : \A k \in Levels(a, x) : k <= n
Visible(a)   == UNION {DOMAIN a.scopes[n] : n \in DOMAIN a.scopes}
Source(a, x) == a.scopes[Level(a, x)][x]
SetSource(a, n, x, v) == [a EXCEPT !.scopes[n][x] = v]

\* gen.c finds a slot by name: map_get(&locals, varname), NULL being slot 0.
Slot(a, x) == IF x \in DOMAIN a.locals THEN a.locals[x] ELSE 0
At(a, x)   == a.base + Slot(a, x)

Push(a, got, want) == [a EXCEPT !.regs = Append(@, [got |-> got, want |-> want])]
Pop(a)     == [a EXCEPT !.regs = Front(@)]
Value      == Last(Top.regs)
HasValue   == Top.regs # << >>
Room       == Len(Top.regs) < bounds.regs

Init == /\ bounds \in Bounds
        /\ calls = << [base |-> 0, stackn |-> 0, locals |-> EmptyMap,
                       scopes |-> <<EmptyMap>>, regs |-> << >>] >>
        /\ mem = [a \in Cells(bounds.cells) |-> NONE]
        /\ sp = 0 /\ ptr = NONE /\ nlits = 0

-----------------------------------------------------------------------------
(* Blocks and declarations *)
OpenScope == /\ Len(Top.scopes) < bounds.scopes
             /\ Become([Top EXCEPT !.scopes = Append(@, EmptyMap)])
             /\ UNCHANGED <<mem, sp, ptr, counts>>

\* Leaving a scope restores localenv; gen.c's stackn and locals stay.
CloseScope == /\ Len(Top.scopes) > 1
              /\ Become([Top EXCEPT !.scopes = Front(@)])
              /\ ptr' = IF ptr # NONE /\ ptr.depth = Depth
                           /\ ptr.level = Len(Top.scopes) THEN NONE ELSE ptr
              /\ UNCHANGED <<mem, sp, counts>>

Declarable(x) == /\ x \notin DOMAIN Last(Top.scopes)
                 /\ Shadowing \/ x \notin Visible(Top)

\* mutant: one cell for every variable
DeclareOneCell ==
    /\ \E x \in Name, n \in bounds.sizes :
          /\ Declarable(x) /\ Fits(Top.base + Top.stackn, n)
          /\ Become([Top EXCEPT !.locals = Bind(@, x, Top.stackn),
                                !.stackn = @ + 1,
                                !.scopes[Len(Top.scopes)] = Bind(@, x, Blank(n))])
    /\ UNCHANGED <<mem, sp, ptr, counts>>

\* mutant: the name is not entered in `locals'
DeclareUnmapped ==
    /\ \E x \in Name, n \in bounds.sizes :
          /\ Declarable(x) /\ Fits(Top.base + Top.stackn, n)
          /\ Become([Top EXCEPT !.stackn = @ + n,
                                !.scopes[Len(Top.scopes)] = Bind(@, x, Blank(n))])
    /\ UNCHANGED <<mem, sp, ptr, counts>>

\* AST_DECL; its initializers are assignments that follow
Declared(a, x, n) == [a EXCEPT !.locals = Bind(@, x, a.stackn), !.stackn = @ + n,
                               !.scopes[Len(a.scopes)] = Bind(@, x, Blank(n))]
Declare ==
    /\ \E x \in Name, n \in bounds.sizes :
          /\ Declarable(x) /\ Fits(Top.base + Top.stackn, n)
          /\ Become(Declared(Top, x, n))
    /\ UNCHANGED <<mem, sp, ptr, counts>>

-----------------------------------------------------------------------------
(* Expressions *)
Literal == /\ nlits < bounds.lits /\ nlits' = nlits + 1 /\ Room
           /\ \E n \in bounds.sizes :
                LET v == [c \in Cells(n) |-> <<nlits, c>>]
                IN  Become(Push(Top, v, v))
           /\ UNCHANGED <<mem, sp, ptr, bounds>>

Assigned(v) == \A c \in DOMAIN v : v[c] # NONE

\* emit_lvar; to read an unassigned variable is undefined in the source
ReadVar == /\ Room
           /\ \E x \in Visible(Top) :
                LET v == Source(Top, x)
                IN  /\ Assigned(v)
                    /\ Become(Push(Top, Get(mem, At(Top, x), CellsOf(v)), v))
           /\ UNCHANGED <<mem, sp, ptr, counts>>

\* emit_assign_to, AST_LVAR: the whole variable, or a member of it.  The
\* offset of the member is not added to the slot.
Assign ==
    /\ HasValue
    /\ \E x \in Visible(Top), o \in Offsets :
         LET v == Source(Top, x)
             n == CellsOf(Value.want)
         IN  /\ n + o <= CellsOf(v)
             /\ mem' = Put(mem, At(Top, x), Value.got)
             /\ Become(Pop(SetSource(Top, Level(Top, x), x,
                         [c \in DOMAIN v |-> IF c - o \in Cells(n)
                                             THEN Value.want[c - o] ELSE v[c]])))
    /\ UNCHANGED <<sp, ptr, counts>>

\* emit_addr of a local
TakeAddress == /\ \E x \in Visible(Top) :
                     ptr' = [depth |-> Depth, level |-> Level(Top, x),
                             name |-> x, at |-> At(Top, x)]
               /\ UNCHANGED <<calls, mem, sp, counts>>

\* emit_assign_to, AST_DEREF: the variable may be a caller's
StoreThrough ==
    /\ HasValue /\ ptr # NONE
    /\ LET popped == [calls EXCEPT ![Depth] = Pop(@)]
           d == ptr.depth
       IN  /\ DOMAIN Value.want
                = DOMAIN calls[d].scopes[ptr.level][ptr.name]
           /\ mem' = Put(mem, ptr.at, Value.got)
           /\ calls' = [popped EXCEPT ![d] =
                          SetSource(@, ptr.level, ptr.name, Value.want)]
    /\ UNCHANGED <<sp, ptr, counts>>

\* read_switch_stmt assigns the operand to a variable of its own, which has no
\* AST_DECL; a compound literal (emit_lvar, lvarinit) stores its value into one.
UseTemp == /\ HasValue
           /\ Fits(Top.base, CellsOf(Value.want))
           /\ Clobbering \/ \A x \in Visible(Top) :
                               Slot(Top, x) >= CellsOf(Value.want)
           /\ mem' = Put(mem, At(Top, NONE), Value.got)
           /\ Become(Pop(Top))
           /\ UNCHANGED <<sp, ptr, counts>>

-----------------------------------------------------------------------------
(* Calls *)

\* mutant: the callee starts where the caller does
FrameTopBase(a) == a.base

\* emit_args, emit_pre_call: the arguments, and the base of the callee
FrameTop(a) == a.base + a.stackn

\* emit_args: the last k values, and the cells before each of them
Args(a, k) == SubSeq(a.regs, Len(a.regs) - k + 1, Len(a.regs))
Before(args) ==
    LET at[n \in 1 .. Len(args) + 1] ==
          IF n = 1 THEN 0 ELSE at[n - 1] + CellsOf(args[n - 1].want)
    IN  at
Reserved(args, va) == Before(args)[Len(args) + 1] + (IF va THEN VaArea ELSE 0)

\* The arguments that have cell c of the callee's frame (one at most)
Holding(args, c) == {n \in 1 .. Len(args) : c - Before(args)[n] \in DOMAIN args[n].got}
Passed(m, base, args) ==
    [a \in DOMAIN m |->
       IF Holding(args, a - base) = {} THEN m[a]
       ELSE LET n == CHOOSE n \in Holding(args, a - base) : TRUE
            IN  args[n].got[a - base - Before(args)[n]]]

\* emit_func_prologue: the parameters get the first slots.
Entry(base, args, params, va) ==
    LET names == {params[n] : n \in 1 .. Len(args)}
        index(x) == CHOOSE n \in 1 .. Len(args) : params[n] = x
    IN  [base   |-> base,
         stackn |-> Reserved(args, va),
         locals |-> [x \in names |-> Before(args)[index(x)]],
         scopes |-> << [x \in names |-> args[index(x)].want] >>,
         regs   |-> << >>]

\* emit_func_call or emit_funcptr_call with the last k values as arguments,
\* then emit_func_prologue: the callee finds its base in sp.
Call ==
    /\ Depth < bounds.depth
    /\ \E k \in 0 .. Len(Top.regs), va \in BOOLEAN :
       \E params \in [1 .. k -> Name] :
         LET args   == Args(Top, k)
             caller == [Top EXCEPT !.regs = SubSeq(@, 1, Len(@) - k)]
         IN  /\ IsInjective(params)
             /\ va => k > 0
             /\ Fits(FrameTop(Top), Reserved(args, va))
             /\ mem' = Passed(mem, FrameTop(Top), args)
             /\ sp' = FrameTop(Top)
             /\ calls' = Append([calls EXCEPT ![Depth] = caller],
                                Entry(sp', args, params, va))
    /\ UNCHANGED <<ptr, counts>>

\* emit_return: the result goes above the variables of the callee
ResultAt(a) == a.base + a.stackn

\* A return with a value, and the end of emit_func_call in the caller
Return ==
    /\ Depth > 1 /\ HasValue
    /\ LET n == CellsOf(Value.want)
           at == ResultAt(Top)
           caller == calls[Depth - 1]
       IN  /\ Fits(at, n) /\ Len(caller.regs) < bounds.regs
           /\ mem' = Put(mem, at, Value.got)
           /\ sp' = caller.base
           /\ calls' = [Front(calls) EXCEPT ![Depth - 1] =
                          Push(caller, Get(mem', at, n), Value.want)]
    /\ ptr' = IF ptr # NONE /\ ptr.depth = Depth THEN NONE ELSE ptr
    /\ UNCHANGED counts

\* A return without one, or the end of the body
ReturnVoid == /\ Depth > 1
              /\ sp' = calls[Depth - 1].base
              /\ calls' = Front(calls)
              /\ ptr' = IF ptr # NONE /\ ptr.depth = Depth THEN NONE ELSE ptr
              /\ UNCHANGED <<mem, counts>>

-----------------------------------------------------------------------------
Next == \/ OpenScope \/ CloseScope \/ Declare \/ Literal \/ ReadVar \/ Assign
        \/ TakeAddress \/ StoreThrough \/ UseTemp \/ Call \/ Return \/ ReturnVoid

Spec == Init /\ [][Next]_vars

-----------------------------------------------------------------------------
Cell == {NONE} \cup (Nat \X Nat)

TypeOK == /\ calls # << >>
          /\ \A d \in 1 .. Depth :
               LET a == calls[d]
               IN  /\ a.base \in Nat /\ a.stackn \in Nat
                   /\ a.base + a.stackn <= bounds.cells
                   /\ a.scopes # << >>
                   /\ \A x \in DOMAIN a.locals :
                         x \in Name /\ a.locals[x] \in Nat
                   /\ Visible(a) \subseteq DOMAIN a.locals
          /\ mem \in [Cells(bounds.cells) -> Cell]
          /\ sp \in Nat /\ nlits \in 0 .. bounds.lits
          /\ ptr # NONE => /\ ptr.depth \in 1 .. Depth
                           /\ ptr.level \in DOMAIN calls[ptr.depth].scopes
                           /\ ptr.name \in
                                DOMAIN calls[ptr.depth].scopes[ptr.level]

\* Every value the code computes is the one the source means: the parameters are
\* the arguments, a variable reads what was last assigned to the variable the
\* name denotes there, whatever calls, blocks and stores through pointers came
\* between, and a call yields what the callee returned.
Computes == \A d \in 1 .. Depth : \A n \in DOMAIN calls[d].regs :
               calls[d].regs[n].got = calls[d].regs[n].want

\* The cells of an activation's variables.
Owned(a, x) == {At(a, x) + c : c \in DOMAIN Source(a, x)}

\* No two variables alive at once, of one activation or of two, have a cell in
\* common; each lies below the frame of the next call, whose base the callee
\* will find in sp.
FramesApart ==
    /\ sp = Top.base
    /\ \A d \in 1 .. Depth : \A x \in Visible(calls[d]) :
         /\ Owned(calls[d], x) \subseteq
               calls[d].base .. calls[d].base + calls[d].stackn - 1
         /\ \A e \in 1 .. Depth : \A y \in Visible(calls[e]) :
               d # e \/ x # y => Owned(calls[d], x) \cap Owned(calls[e], y) = {}

\* A step changes no variable of a suspended activation unless it stores
\* through the pointer to it.
CallersKeep ==
    [][ \A d \in 1 .. Depth - 1 : \A x \in Visible(calls[d]) :
          \A m \in Owned(calls[d], x) :
            mem'[m] = mem[m] \/ (ptr # NONE /\ StoreThrough
                                  /\ ptr.depth = d /\ ptr.name = x) ]_vars
=============================================================================
