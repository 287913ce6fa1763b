---------------------------- MODULE FramesProofs ----------------------------
(***************************************************************************)
(* Proofs about the local variables of gen.c, for every program: any       *)
(* number of names, cells, blocks, values held at once and activations.    *)
(***************************************************************************)
EXTENDS Frames, Lemmas, FiniteSetTheorems

-----------------------------------------------------------------------------
(* Values, scopes, activations *)

Datum   == UNION {[Cells(n) -> Cell] : n \in Nat}
Scope   == UNION {[D -> Datum] : D \in SUBSET Name}
SlotMap == UNION {[D -> Nat] : D \in SUBSET Name}
Reg     == {r \in [got : Datum, want : Datum] : DOMAIN r.got = DOMAIN r.want}
Activation == [base : Nat, stackn : Nat, locals : SlotMap,
               scopes : Seq(Scope), regs : Seq(Reg)]

LEMMA CellsCount ==
  ASSUME NEW n \in Nat
  PROVE  Cardinality(Cells(n)) = n
<1>1. Cardinality(0 .. n - 1) = IF 0 > n - 1 THEN 0 ELSE (n - 1) - 0 + 1
  BY FS_Interval
<1> QED
  BY <1>1 DEF Cells

LEMMA DatumIntro ==
  ASSUME NEW n \in Nat, NEW v \in [Cells(n) -> Cell]
  PROVE  v \in Datum /\ CellsOf(v) = n /\ DOMAIN v = Cells(n)
<1>1. DOMAIN v = Cells(n)
  OBVIOUS
<1> QED
  BY <1>1, CellsCount DEF Datum, CellsOf

LEMMA DatumShape ==
  ASSUME NEW v \in Datum
  PROVE  /\ CellsOf(v) \in Nat
         /\ v \in [Cells(CellsOf(v)) -> Cell]
         /\ DOMAIN v = Cells(CellsOf(v))
<1>1. PICK n \in Nat : v \in [Cells(n) -> Cell]
  BY DEF Datum
<1>2. CellsOf(v) = n
  BY <1>1, DatumIntro
<1> QED
  BY <1>1, <1>2

LEMMA ScopeIntro ==
  ASSUME NEW D \in SUBSET Name, NEW s \in [D -> Datum]
  PROVE  s \in Scope /\ DOMAIN s = D
BY DEF Scope

LEMMA ScopeShape ==
  ASSUME NEW s \in Scope
  PROVE  DOMAIN s \in SUBSET Name /\ s \in [DOMAIN s -> Datum]
BY DEF Scope

LEMMA SlotMapIntro ==
  ASSUME NEW D \in SUBSET Name, NEW s \in [D -> Nat]
  PROVE  s \in SlotMap /\ DOMAIN s = D
BY DEF SlotMap

LEMMA SlotMapShape ==
  ASSUME NEW s \in SlotMap
  PROVE  DOMAIN s \in SUBSET Name /\ s \in [DOMAIN s -> Nat]
BY DEF SlotMap

LEMMA BindIsScope ==
  ASSUME NEW s \in Scope, NEW x \in Name, NEW v \in Datum
  PROVE  Bind(s, x, v) \in Scope
<1>1. Bind(s, x, v) \in [DOMAIN s \cup {x} -> Datum]
  BY ScopeShape DEF Bind
<1> QED
  BY <1>1, ScopeIntro, ScopeShape DEF Bind

LEMMA BindIsSlotMap ==
  ASSUME NEW s \in SlotMap, NEW x \in Name, NEW n \in Nat
  PROVE  Bind(s, x, n) \in SlotMap
<1>1. Bind(s, x, n) \in [DOMAIN s \cup {x} -> Nat]
  BY SlotMapShape DEF Bind
<1> QED
  BY <1>1, SlotMapIntro, SlotMapShape DEF Bind

LEMMA EmptyMaps == EmptyMap \in Scope /\ EmptyMap \in SlotMap /\ DOMAIN EmptyMap = {}
<1>1. EmptyMap \in [{} -> Datum] /\ EmptyMap \in [{} -> Nat]
  BY DEF EmptyMap
<1> QED
  BY <1>1, ScopeIntro, SlotMapIntro

LEMMA BlankDatum ==
  ASSUME NEW n \in Nat
  PROVE  /\ Blank(n) \in Datum /\ CellsOf(Blank(n)) = n
         /\ DOMAIN Blank(n) = Cells(n)
         /\ \A c \in Cells(n) : Blank(n)[c] = NONE
<1>1. Blank(n) \in [Cells(n) -> Cell]
  BY DEF Blank, Cell
<1> QED
  BY <1>1, DatumIntro DEF Blank

-----------------------------------------------------------------------------
(* What the operations make of an activation *)

Frame(a, b) == b.base = a.base /\ b.stackn = a.stackn /\ b.locals = a.locals

LEMMA PushShape ==
  ASSUME NEW a \in Activation, NEW got \in Datum, NEW want \in Datum,
         DOMAIN got = DOMAIN want
  PROVE  LET b == Push(a, got, want)
         IN  /\ b \in Activation /\ Frame(a, b) /\ b.scopes = a.scopes
             /\ b.regs = Append(a.regs, [got |-> got, want |-> want])
<1>1. [got |-> got, want |-> want] \in Reg
  BY DEF Reg
<1>2. Append(a.regs, [got |-> got, want |-> want]) \in Seq(Reg)
  BY <1>1 DEF Activation
<1> QED
  BY <1>2 DEF Push, Activation, Frame

LEMMA DropShape ==
  ASSUME NEW a \in Activation, NEW n \in 0 .. Len(a.regs)
  PROVE  LET b == [a EXCEPT !.regs = SubSeq(@, 1, n)]
         IN  /\ b \in Activation /\ Frame(a, b) /\ b.scopes = a.scopes
             /\ Len(b.regs) = n /\ \A k \in 1 .. n : b.regs[k] = a.regs[k]
<1> DEFINE r == SubSeq(a.regs, 1, n)
<1>1. a.regs \in Seq(Reg) /\ Len(a.regs) \in Nat
  BY DEF Activation
<1>2. 1 \in 1 .. Len(a.regs) + 1 /\ n \in 1 - 1 .. Len(a.regs)
  BY <1>1
<1>3. /\ r \in Seq(Reg) /\ Len(r) = n - 1 + 1
      /\ \A k \in 1 .. n - 1 + 1 : r[k] = a.regs[1 + k - 1]
  BY <1>1, <1>2, SubSeqShape, Zenon
<1>4. r \in Seq(Reg) /\ Len(r) = n /\ \A k \in 1 .. n : r[k] = a.regs[k]
  BY <1>1, <1>3
<1> QED
  BY <1>4 DEF Activation, Frame

LEMMA PopShape ==
  ASSUME NEW a \in Activation, a.regs # << >>
  PROVE  LET b == Pop(a)
         IN  /\ b \in Activation /\ Frame(a, b) /\ b.scopes = a.scopes
             /\ Len(b.regs) = Len(a.regs) - 1
             /\ \A k \in 1 .. Len(a.regs) - 1 : b.regs[k] = a.regs[k]
<1>1. a.regs \in Seq(Reg)
  BY DEF Activation
<1> QED
  BY <1>1, FrontShape DEF Pop, Activation, Frame

LEMMA OpenShape ==
  ASSUME NEW a \in Activation
  PROVE  LET b == [a EXCEPT !.scopes = Append(@, EmptyMap)]
         IN  /\ b \in Activation /\ Frame(a, b) /\ b.regs = a.regs
             /\ b.scopes = Append(a.scopes, EmptyMap)
<1>1. Append(a.scopes, EmptyMap) \in Seq(Scope)
  BY EmptyMaps DEF Activation
<1> QED
  BY <1>1 DEF Activation, Frame

LEMMA CloseShape ==
  ASSUME NEW a \in Activation, a.scopes # << >>
  PROVE  LET b == [a EXCEPT !.scopes = Front(@)]
         IN  /\ b \in Activation /\ Frame(a, b) /\ b.regs = a.regs
             /\ Len(b.scopes) = Len(a.scopes) - 1
             /\ \A n \in 1 .. Len(a.scopes) - 1 : b.scopes[n] = a.scopes[n]
<1>1. a.scopes \in Seq(Scope)
  BY DEF Activation
<1> QED
  BY <1>1, FrontShape DEF Activation, Frame

LEMMA SetSourceShape ==
  ASSUME NEW a \in Activation, NEW n \in 1 .. Len(a.scopes),
         NEW x \in DOMAIN a.scopes[n], NEW v \in Datum
  PROVE  LET b == SetSource(a, n, x, v)
         IN  /\ b \in Activation /\ Frame(a, b) /\ b.regs = a.regs
             /\ Len(b.scopes) = Len(a.scopes)
             /\ \A m \in 1 .. Len(a.scopes) : DOMAIN b.scopes[m] = DOMAIN a.scopes[m]
             /\ \A m \in 1 .. Len(a.scopes) : \A y \in DOMAIN a.scopes[m] :
                   b.scopes[m][y] = IF m = n /\ y = x THEN v ELSE a.scopes[m][y]
<1> DEFINE s == [a.scopes[n] EXCEPT ![x] = v]
           t == [a.scopes EXCEPT ![n] = s]
<1>1. a.scopes \in Seq(Scope) /\ a.scopes[n] \in Scope
  BY DEF Activation
<1>2. s \in Scope /\ DOMAIN s = DOMAIN a.scopes[n]
  <2>1. s \in [DOMAIN a.scopes[n] -> Datum] /\ DOMAIN a.scopes[n] \in SUBSET Name
    BY <1>1, ScopeShape
  <2> QED
    BY <2>1, ScopeIntro
<1>3. /\ t \in Seq(Scope) /\ Len(t) = Len(a.scopes)
      /\ \A m \in 1 .. Len(a.scopes) : t[m] = IF m = n THEN s ELSE a.scopes[m]
  BY <1>1, <1>2, ReplaceShape
<1>4. \A y \in DOMAIN a.scopes[n] : s[y] = IF y = x THEN v ELSE a.scopes[n][y]
  BY <1>1, ScopeShape
<1>5. SetSource(a, n, x, v) = [a EXCEPT !.scopes = t]
  BY DEF SetSource, Activation
<1> HIDE DEF t
<1>6. /\ [a EXCEPT !.scopes = t] \in Activation
      /\ [a EXCEPT !.scopes = t].scopes = t
      /\ [a EXCEPT !.scopes = t].regs = a.regs
      /\ Frame(a, [a EXCEPT !.scopes = t])
  BY <1>3 DEF Activation, Frame
<1> QED
  BY <1>2, <1>3, <1>4, <1>5, <1>6

LEMMA DeclareShape ==
  ASSUME NEW a \in Activation, a.scopes # << >>, NEW x \in Name, NEW n \in Nat
  PROVE  LET b == Declared(a, x, n)
         IN  /\ b \in Activation /\ b.base = a.base /\ b.regs = a.regs
             /\ b.stackn = a.stackn + n
             /\ b.locals = Bind(a.locals, x, a.stackn)
             /\ Len(b.scopes) = Len(a.scopes)
             /\ b.scopes[Len(a.scopes)]
                   = Bind(a.scopes[Len(a.scopes)], x, Blank(n))
             /\ \A m \in 1 .. Len(a.scopes) - 1 : b.scopes[m] = a.scopes[m]
<1> DEFINE top == Len(a.scopes)
           s == Bind(a.scopes[top], x, Blank(n))
           t == [a.scopes EXCEPT ![top] = s]
<1>1. a.scopes \in Seq(Scope) /\ top \in 1 .. top /\ a.scopes[top] \in Scope
  BY DEF Activation
<1>2. s \in Scope
  BY <1>1, BindIsScope, BlankDatum
<1>3. /\ t \in Seq(Scope) /\ Len(t) = top
      /\ \A m \in 1 .. top : t[m] = IF m = top THEN s ELSE a.scopes[m]
  BY <1>1, <1>2, ReplaceShape
<1>4. a.stackn \in Nat /\ Bind(a.locals, x, a.stackn) \in SlotMap
  BY BindIsSlotMap DEF Activation
<1>5. Declared(a, x, n)
      = [base |-> a.base, stackn |-> a.stackn + n,
         locals |-> Bind(a.locals, x, a.stackn), scopes |-> t, regs |-> a.regs]
  <2>1. Declared(a, x, n) = [a EXCEPT !.locals = Bind(a.locals, x, a.stackn),
                                      !.stackn = a.stackn + n,
                                      !.scopes[top] = s]
    BY DEF Activation, Declared
  <2> HIDE DEF s, top
  <2> QED
    BY <2>1 DEF Activation
<1>6. /\ Len(t) = Len(a.scopes)
      /\ t[Len(a.scopes)] = Bind(a.scopes[Len(a.scopes)], x, Blank(n))
      /\ \A m \in 1 .. Len(a.scopes) - 1 : t[m] = a.scopes[m]
  BY <1>1, <1>3
<1> HIDE DEF t
<1>7. Declared(a, x, n) \in Activation
  <2>1. a.base \in Nat /\ a.stackn + n \in Nat /\ a.regs \in Seq(Reg)
    BY DEF Activation
  <2> QED
    BY <2>1, <1>3, <1>4, <1>5 DEF Activation
<1> QED
  BY <1>5, <1>6, <1>7

-----------------------------------------------------------------------------
(* The cells before each argument *)

Sums(args, m, at) == /\ at \in [1 .. m + 1 -> Nat] /\ at[1] = 0
                     /\ \A n \in 2 .. m + 1 :
                           at[n] = at[n - 1] + CellsOf(args[n - 1].want)

LEMMA SumsExist ==
  ASSUME NEW args \in Seq(Reg)
  PROVE  \E at : Sums(args, Len(args), at)
<1> DEFINE S == {m \in Nat : m <= Len(args) => \E at : Sums(args, m, at)}
<1>1. 0 \in S
  <2>1. Sums(args, 0, [n \in 1 .. 1 |-> 0])
    BY DEF Sums
  <2> QED
    BY <2>1
<1>2. ASSUME NEW m \in Nat, m \in S PROVE m + 1 \in S
  <2> SUFFICES ASSUME m + 1 <= Len(args) PROVE \E at : Sums(args, m + 1, at)
    OBVIOUS
  <2>1. PICK at : Sums(args, m, at)
    BY <1>2
  <2>2. m + 1 \in 1 .. Len(args) /\ args[m + 1] \in Reg
    OBVIOUS
  <2>3. CellsOf(args[m + 1].want) \in Nat
    BY <2>2, DatumShape DEF Reg
  <2> DEFINE up == [n \in 1 .. (m + 1) + 1 |->
                      IF n = m + 2 THEN at[m + 1] + CellsOf(args[m + 1].want)
                                   ELSE at[n]]
  <2>4. Sums(args, m + 1, up)
    <3>1. up \in [1 .. (m + 1) + 1 -> Nat] /\ up[1] = 0
      BY <2>1, <2>3 DEF Sums
    <3>2. ASSUME NEW n \in 2 .. (m + 1) + 1
          PROVE  up[n] = up[n - 1] + CellsOf(args[n - 1].want)
      <4>1. CASE n = m + 2
        BY <4>1
      <4>2. CASE n # m + 2
        BY <4>2, <2>1 DEF Sums
      <4> QED
        BY <4>1, <4>2
    <3> QED
      BY <3>1, <3>2 DEF Sums
  <2> QED
    BY <2>4
<1>3. Nat \subseteq S
  <2> HIDE DEF S
  <2> QED
    BY <1>1, <1>2, NatSetInduction
<1>4. Len(args) \in S
  BY <1>3
<1> QED
  BY <1>4

LEMMA BeforeSums ==
  ASSUME NEW args \in Seq(Reg)
  PROVE  Sums(args, Len(args), Before(args))
<1> DEFINE step(at) == [n \in 1 .. Len(args) + 1 |->
                          IF n = 1 THEN 0
                          ELSE at[n - 1] + CellsOf(args[n - 1].want)]
<1>1. PICK g : Sums(args, Len(args), g)
  BY SumsExist
<1>2. g = step(g)
  <2>1. g \in [1 .. Len(args) + 1 -> Nat]
        /\ \A n \in 1 .. Len(args) + 1 : g[n] = step(g)[n]
    BY <1>1 DEF Sums
  <2> QED
    BY <2>1
<1>3. Before(args) = step(Before(args))
  BY <1>2 DEF Before
<1>4. /\ \A n \in 1 .. Len(args) + 1 :
            Before(args)[n] = IF n = 1 THEN 0 ELSE Before(args)[n - 1]
                                                   + CellsOf(args[n - 1].want)
      /\ DOMAIN Before(args) = 1 .. Len(args) + 1
  BY <1>3
<1> HIDE DEF step
<1> DEFINE S == {m \in Nat : m \in 1 .. Len(args) + 1 => Before(args)[m] \in Nat}
<1>5. Nat \subseteq S
  <2>1. 0 \in S
    OBVIOUS
  <2>2. ASSUME NEW m \in Nat, m \in S PROVE m + 1 \in S
    <3> SUFFICES ASSUME m + 1 \in 1 .. Len(args) + 1
                 PROVE  Before(args)[m + 1] \in Nat
      OBVIOUS
    <3>1. CASE m = 0
      BY <3>1, <1>4
    <3>2. CASE m # 0
      <4>1. m \in 1 .. Len(args) /\ args[m] \in Reg /\ Before(args)[m] \in Nat
        BY <3>2, <2>2
      <4>2. CellsOf(args[m].want) \in Nat
        BY <4>1, DatumShape DEF Reg
      <4>3. Before(args)[m + 1] = Before(args)[m] + CellsOf(args[m].want)
        BY <3>2, <1>4
      <4> QED
        BY <4>1, <4>2, <4>3
    <3> QED
      BY <3>1, <3>2
  <2> HIDE DEF S
  <2> QED
    BY <2>1, <2>2, NatSetInduction
<1>6. \A n \in 1 .. Len(args) + 1 : Before(args)[n] \in Nat
  BY <1>5
<1>7. Before(args) = [n \in 1 .. Len(args) + 1 |-> Before(args)[n]]
  BY <1>3 DEF step
<1>8. Before(args) \in [1 .. Len(args) + 1 -> Nat]
  BY <1>6, <1>7
<1>9. Len(args) \in Nat
  OBVIOUS
<1> QED
  BY <1>4, <1>8, <1>9 DEF Sums

\* Each argument lies after those before it, and all of them below the total.
LEMMA BeforeShape ==
  ASSUME NEW args \in Seq(Reg)
  PROVE  /\ Before(args) \in [1 .. Len(args) + 1 -> Nat]
         /\ \A n \in 1 .. Len(args), m \in 1 .. Len(args) + 1 :
               n < m => Before(args)[n] + CellsOf(args[n].want)
                           <= Before(args)[m]
<1> DEFINE at == Before(args)
           size(n) == CellsOf(args[n].want)
           S == {d \in Nat : \A n \in 1 .. Len(args) :
                                n + d + 1 \in 1 .. Len(args) + 1
                                => at[n] + size(n) <= at[n + d + 1]}
<1>1. /\ at \in [1 .. Len(args) + 1 -> Nat]
      /\ \A n \in 2 .. Len(args) + 1 : at[n] = at[n - 1] + size(n - 1)
  BY BeforeSums DEF Sums
<1>2. \A n \in 1 .. Len(args) : size(n) \in Nat /\ at[n] \in Nat
  <2>1. \A n \in 1 .. Len(args) : n \in 1 .. Len(args) + 1 /\ args[n] \in Reg
    OBVIOUS
  <2> QED
    BY <1>1, <2>1, DatumShape DEF Reg
<1>3. \A n \in 1 .. Len(args) : at[n + 1] = at[n] + size(n)
  <2> SUFFICES ASSUME NEW n \in 1 .. Len(args)
               PROVE  at[n + 1] = at[n] + size(n)
    OBVIOUS
  <2>1. n + 1 \in 2 .. Len(args) + 1 /\ (n + 1) - 1 = n
    OBVIOUS
  <2> HIDE DEF at, size
  <2> QED
    BY <2>1, <1>1
<1> HIDE DEF at, size
<1>4. Nat \subseteq S
  <2>1. 0 \in S
    BY <1>1, <1>2, <1>3
  <2>2. ASSUME NEW d \in Nat, d \in S PROVE d + 1 \in S
    <3> SUFFICES ASSUME NEW n \in 1 .. Len(args),
                        n + (d + 1) + 1 \in 1 .. Len(args) + 1
                 PROVE  at[n] + size(n) <= at[n + (d + 1) + 1]
      OBVIOUS
    <3>1. PICK e \in 1 .. Len(args) : e = n + d + 1
      OBVIOUS
    <3>2. at[n] + size(n) <= at[e]
      BY <2>2, <3>1
    <3>3. at[e + 1] = at[e] + size(e)
      BY <3>1, <1>3
    <3>4. at[n] \in Nat /\ size(n) \in Nat /\ at[e] \in Nat /\ size(e) \in Nat
      BY <1>2
    <3>5. e + 1 = n + (d + 1) + 1
      BY <3>1
    <3> QED
      BY <3>2, <3>3, <3>4, <3>5
  <2> HIDE DEF S
  <2> QED
    BY <2>1, <2>2, NatSetInduction
<1>5. ASSUME NEW n \in 1 .. Len(args), NEW m \in 1 .. Len(args) + 1, n < m
      PROVE  at[n] + size(n) <= at[m]
  <2>1. m - n - 1 \in Nat /\ n + (m - n - 1) + 1 = m
    BY <1>5
  <2>2. m - n - 1 \in S
    BY <2>1, <1>4
  <2> QED
    BY <2>1, <2>2
<1> QED
  BY <1>1, <1>5 DEF at, size

-----------------------------------------------------------------------------
(* The layout of one activation *)

\* Every variable in scope has a slot, and its cells lie below stackn.
Slotted(a) == \A n \in 1 .. Len(a.scopes) : \A x \in DOMAIN a.scopes[n] :
                 /\ x \in DOMAIN a.locals
                 /\ a.locals[x] + CellsOf(a.scopes[n][x]) <= a.stackn

\* A name is in one scope at most, and two variables have their cells apart.
Separate(a) ==
    \A m, n \in 1 .. Len(a.scopes) :
       \A x \in DOMAIN a.scopes[m], y \in DOMAIN a.scopes[n] :
          IF x = y THEN m = n
          ELSE \/ a.locals[x] + CellsOf(a.scopes[m][x]) <= a.locals[y]
               \/ a.locals[y] + CellsOf(a.scopes[n][y]) <= a.locals[x]

Tidy(a) == Slotted(a) /\ Separate(a)

\* What the source has assigned to a variable is in its cells.
Holds(a, m) ==
    \A n \in 1 .. Len(a.scopes) : \A x \in DOMAIN a.scopes[n] :
       \A c \in DOMAIN a.scopes[n][x] :
          a.scopes[n][x][c] # NONE
             => m[a.base + a.locals[x] + c] = a.scopes[n][x][c]

\* b has a's variables, or those of its outer scopes, with their cells.
SameLayout(a, b) ==
    /\ Frame(a, b) /\ Len(b.scopes) <= Len(a.scopes)
    /\ \A n \in 1 .. Len(b.scopes) : DOMAIN b.scopes[n] = DOMAIN a.scopes[n]
    /\ \A n \in 1 .. Len(b.scopes) : \A x \in DOMAIN b.scopes[n] :
          CellsOf(b.scopes[n][x]) = CellsOf(a.scopes[n][x])

LEMMA ActivationShape ==
  ASSUME NEW a \in Activation
  PROVE  /\ a.base \in Nat /\ a.stackn \in Nat /\ a.locals \in SlotMap
         /\ a.scopes \in Seq(Scope) /\ a.regs \in Seq(Reg)
         /\ Len(a.scopes) \in Nat /\ Len(a.regs) \in Nat
         /\ DOMAIN a.scopes = 1 .. Len(a.scopes)
         /\ \A x \in DOMAIN a.locals : x \in Name /\ a.locals[x] \in Nat
BY SlotMapShape DEF Activation

LEMMA VariableShape ==
  ASSUME NEW a \in Activation, NEW n \in 1 .. Len(a.scopes),
         NEW x \in DOMAIN a.scopes[n]
  PROVE  /\ x \in Name /\ a.scopes[n][x] \in Datum
         /\ CellsOf(a.scopes[n][x]) \in Nat
         /\ DOMAIN a.scopes[n][x] = Cells(CellsOf(a.scopes[n][x]))
         /\ Slotted(a) => a.locals[x] \in Nat
<1>1. a.scopes[n] \in Scope
  BY ActivationShape
<1> QED
  BY <1>1, ScopeShape, DatumShape, ActivationShape DEF Slotted

LEMMA SameLayoutTidy ==
  ASSUME NEW a, NEW b, Len(a.scopes) \in Nat, Len(b.scopes) \in Nat,
         Tidy(a), SameLayout(a, b)
  PROVE  Tidy(b)
<1>1. \A n \in 1 .. Len(b.scopes) : n \in 1 .. Len(a.scopes)
  BY DEF SameLayout
<1>2. Slotted(b)
  BY <1>1 DEF Tidy, Slotted, SameLayout, Frame
<1>3. Separate(b)
  BY <1>1 DEF Tidy, Separate, SameLayout, Frame
<1> QED
  BY <1>2, <1>3 DEF Tidy

LEMMA LevelShape ==
  ASSUME NEW a \in Activation, Separate(a), NEW n \in 1 .. Len(a.scopes),
         NEW x \in DOMAIN a.scopes[n]
  PROVE  /\ x \in Visible(a) /\ Level(a, x) = n
         /\ Source(a, x) = a.scopes[n][x]
<1>1. Levels(a, x) = {n}
  BY ActivationShape DEF Levels, Separate
<1>2. Level(a, x) = n
  BY <1>1 DEF Level
<1>3. n \in DOMAIN a.scopes
  BY ActivationShape
<1> QED
  BY <1>2, <1>3 DEF Source, Visible

LEMMA VisibleLevel ==
  ASSUME NEW a \in Activation, Separate(a), NEW x \in Visible(a)
  PROVE  Level(a, x) \in 1 .. Len(a.scopes) /\ x \in DOMAIN a.scopes[Level(a, x)]
<1>1. PICK n \in 1 .. Len(a.scopes) : x \in DOMAIN a.scopes[n]
  BY ActivationShape DEF Visible
<1> QED
  BY <1>1, LevelShape

LEMMA OpenTidy ==
  ASSUME NEW a \in Activation, Tidy(a)
  PROVE  Tidy([a EXCEPT !.scopes = Append(@, EmptyMap)])
<1> DEFINE b == [a EXCEPT !.scopes = Append(@, EmptyMap)]
<1>1. Frame(a, b) /\ b.scopes = Append(a.scopes, EmptyMap)
  BY OpenShape
<1>2. /\ Len(b.scopes) = Len(a.scopes) + 1 /\ Len(a.scopes) \in Nat
      /\ DOMAIN b.scopes[Len(a.scopes) + 1] = {}
      /\ \A n \in 1 .. Len(a.scopes) : b.scopes[n] = a.scopes[n]
  BY <1>1, ActivationShape, EmptyMaps, AppendShape
<1> HIDE DEF b
<1>3. \A n \in 1 .. Len(b.scopes) : \A x : x \in DOMAIN b.scopes[n]
        => n \in 1 .. Len(a.scopes) /\ b.scopes[n] = a.scopes[n]
  BY <1>2
<1>4. Slotted(b)
  BY <1>1, <1>3 DEF Tidy, Slotted, Frame
<1>5. Separate(b)
  BY <1>1, <1>3 DEF Tidy, Separate, Frame
<1> QED
  BY <1>4, <1>5 DEF Tidy, b

LEMMA DeclareTidy ==
  ASSUME NEW a \in Activation, Tidy(a), a.scopes # << >>,
         NEW x \in Name, x \notin Visible(a), NEW n \in Nat
  PROVE  Tidy(Declared(a, x, n))
<1> DEFINE b == Declared(a, x, n)
           top == Len(a.scopes)
<1>1. /\ b.stackn = a.stackn + n /\ a.stackn \in Nat
      /\ \A y \in DOMAIN a.locals : /\ y \in DOMAIN b.locals
                                    /\ y # x => b.locals[y] = a.locals[y]
      /\ x \in DOMAIN b.locals /\ b.locals[x] = a.stackn
  <2>1. b.locals = Bind(a.locals, x, a.stackn) /\ b.stackn = a.stackn + n
    BY DeclareShape
  <2>2. a.locals \in SlotMap /\ a.stackn \in Nat
    BY ActivationShape
  <2>3. /\ DOMAIN Bind(a.locals, x, a.stackn) = DOMAIN a.locals \cup {x}
        /\ Bind(a.locals, x, a.stackn)[x] = a.stackn
        /\ \A y \in DOMAIN a.locals :
              y # x => Bind(a.locals, x, a.stackn)[y] = a.locals[y]
    <3>1. PICK l \in SlotMap : l = a.locals
      BY <2>2
    <3>2. PICK at \in Nat : at = a.stackn
      BY <2>2
    <3>3. /\ DOMAIN Bind(l, x, at) = DOMAIN l \cup {x} /\ Bind(l, x, at)[x] = at
          /\ \A y \in DOMAIN l : y # x => Bind(l, x, at)[y] = l[y]
      BY DEF Bind
    <3> HIDE DEF b, top
    <3> QED
      BY <3>1, <3>2, <3>3
  <2> HIDE DEF b
  <2> QED
    BY <2>1, <2>2, <2>3
<1>2. /\ Len(b.scopes) = top /\ top \in 1 .. top
      /\ \A m \in 1 .. top - 1 : b.scopes[m] = a.scopes[m]
      /\ DOMAIN b.scopes[top] = DOMAIN a.scopes[top] \cup {x}
      /\ b.scopes[top][x] = Blank(n) /\ CellsOf(Blank(n)) = n
      /\ \A y \in DOMAIN a.scopes[top] :
            y # x => b.scopes[top][y] = a.scopes[top][y]
  <2>1. top \in 1 .. top /\ a.scopes[top] \in Scope
    BY ActivationShape
  <2>2. b.scopes[top] = Bind(a.scopes[top], x, Blank(n))
        /\ Len(b.scopes) = top
        /\ \A m \in 1 .. top - 1 : b.scopes[m] = a.scopes[m]
    BY DeclareShape
  <2>3. Blank(n) \in Datum /\ CellsOf(Blank(n)) = n
    BY BlankDatum
  <2>4. /\ DOMAIN Bind(a.scopes[top], x, Blank(n)) = DOMAIN a.scopes[top] \cup {x}
        /\ Bind(a.scopes[top], x, Blank(n))[x] = Blank(n)
        /\ \A y \in DOMAIN a.scopes[top] :
              y # x => Bind(a.scopes[top], x, Blank(n))[y] = a.scopes[top][y]
    <3> HIDE DEF b, top
    <3>1. PICK s \in Scope : s = a.scopes[top]
      BY <2>1
    <3>2. PICK v \in Datum : v = Blank(n)
      BY <2>3
    <3>3. /\ DOMAIN Bind(s, x, v) = DOMAIN s \cup {x}
          /\ Bind(s, x, v)[x] = v
          /\ \A y \in DOMAIN s : y # x => Bind(s, x, v)[y] = s[y]
      BY DEF Bind
    <3> QED
      BY <3>1, <3>2, <3>3
  <2> HIDE DEF b, top
  <2> QED
    BY <2>1, <2>2, <2>3, <2>4
<1>3. \A m \in 1 .. top : x \notin DOMAIN a.scopes[m]
  BY ActivationShape DEF Visible
<1> HIDE DEF b
<1>4. \A m \in 1 .. top : \A y \in DOMAIN b.scopes[m] :
         \/ y = x /\ m = top
         \/ y # x /\ y \in DOMAIN a.scopes[m] /\ b.scopes[m][y] = a.scopes[m][y]
  BY <1>2, <1>3
<1>5. \A m \in 1 .. top : \A y \in DOMAIN a.scopes[m] :
         /\ y \in DOMAIN b.locals
         /\ a.locals[y] \in Nat /\ CellsOf(a.scopes[m][y]) \in Nat
         /\ y # x => b.locals[y] = a.locals[y]
         /\ a.locals[y] + CellsOf(a.scopes[m][y]) <= a.stackn
  BY <1>1, VariableShape DEF Tidy, Slotted
<1>6. Slotted(b)
  <2> SUFFICES ASSUME NEW m \in 1 .. top, NEW y \in DOMAIN b.scopes[m]
               PROVE  /\ y \in DOMAIN b.locals
                      /\ b.locals[y] + CellsOf(b.scopes[m][y]) <= b.stackn
    BY <1>2 DEF Slotted
  <2>1. CASE y = x /\ m = top
    BY <2>1, <1>1, <1>2
  <2>2. CASE y # x /\ y \in DOMAIN a.scopes[m]
             /\ b.scopes[m][y] = a.scopes[m][y]
    BY <2>2, <1>1, <1>5
  <2> QED
    BY <2>1, <2>2, <1>4
<1>7. Separate(b)
  <2> SUFFICES ASSUME NEW m \in 1 .. top, NEW k \in 1 .. top,
                      NEW y \in DOMAIN b.scopes[m], NEW z \in DOMAIN b.scopes[k]
               PROVE  IF y = z THEN m = k
                      ELSE \/ b.locals[y] + CellsOf(b.scopes[m][y]) <= b.locals[z]
                           \/ b.locals[z] + CellsOf(b.scopes[k][z]) <= b.locals[y]
    BY <1>2 DEF Separate
  <2>1. CASE y = x /\ m = top /\ z = x /\ k = top
    BY <2>1
  <2>2. CASE y = x /\ m = top /\ z # x /\ z \in DOMAIN a.scopes[k]
             /\ b.scopes[k][z] = a.scopes[k][z]
    BY <2>2, <1>1, <1>5
  <2>3. CASE z = x /\ k = top /\ y # x /\ y \in DOMAIN a.scopes[m]
             /\ b.scopes[m][y] = a.scopes[m][y]
    BY <2>3, <1>1, <1>5
  <2>4. CASE /\ z # x /\ z \in DOMAIN a.scopes[k]
             /\ b.scopes[k][z] = a.scopes[k][z]
             /\ y # x /\ y \in DOMAIN a.scopes[m]
             /\ b.scopes[m][y] = a.scopes[m][y]
    BY <2>4, <1>5 DEF Tidy, Separate
  <2> QED
    BY <2>1, <2>2, <2>3, <2>4, <1>4
<1> QED
  BY <1>6, <1>7 DEF Tidy, b

-----------------------------------------------------------------------------
(* Stores *)

LEMMA PutIsMemory ==
  ASSUME NEW N \in Nat, NEW m \in [Cells(N) -> Cell], NEW at \in Nat,
         NEW v \in Datum
  PROVE  Put(m, at, v) \in [Cells(N) -> Cell]
<1>1. \A c \in DOMAIN v : v[c] \in Cell
  BY DatumShape
<1> QED
  BY <1>1 DEF Put

LEMMA PutShape ==
  ASSUME NEW N \in Nat, NEW m \in [Cells(N) -> Cell], NEW at \in Nat,
         NEW v \in Datum
  PROVE  /\ \A a \in Cells(N) :
               a < at \/ at + CellsOf(v) <= a => Put(m, at, v)[a] = m[a]
         /\ \A c \in DOMAIN v : at + c \in Cells(N) => Put(m, at, v)[at + c] = v[c]
<1>1. /\ DOMAIN v = Cells(CellsOf(v)) /\ CellsOf(v) \in Nat
      /\ \A c \in DOMAIN v : v[c] \in Cell
  BY DatumShape
<1>2. Put(m, at, v) = [a \in Cells(N) |-> IF a - at \in DOMAIN v THEN v[a - at]
                                          ELSE m[a]]
  BY DEF Put
<1>3. ASSUME NEW a \in Cells(N), a < at \/ at + CellsOf(v) <= a
      PROVE  Put(m, at, v)[a] = m[a]
  <2>1. a - at \notin DOMAIN v
    BY <1>1, <1>3 DEF Cells
  <2> QED
    BY <1>2, <2>1
<1>4. ASSUME NEW c \in DOMAIN v, at + c \in Cells(N)
      PROVE  Put(m, at, v)[at + c] = v[c]
  <2>1. (at + c) - at = c
    BY <1>1 DEF Cells
  <2> QED
    BY <1>2, <1>4, <2>1
<1> QED
  BY <1>3, <1>4

LEMMA PutAbove ==
  ASSUME NEW N \in Nat, NEW m \in [Cells(N) -> Cell], NEW at \in Nat,
         NEW v \in Datum, NEW a \in Cells(N), a < at
  PROVE  Put(m, at, v)[a] = m[a]
BY PutShape

LEMMA GetShape ==
  ASSUME NEW N \in Nat, NEW m \in [Cells(N) -> Cell], NEW at \in Nat,
         NEW n \in Nat, at + n <= N
  PROVE  /\ Get(m, at, n) \in Datum /\ DOMAIN Get(m, at, n) = Cells(n)
         /\ CellsOf(Get(m, at, n)) = n
         /\ \A c \in Cells(n) : Get(m, at, n)[c] = m[at + c]
<1>1. \A c \in Cells(n) : at + c \in Cells(N)
  BY DEF Cells
<1>2. Get(m, at, n) \in [Cells(n) -> Cell]
  BY <1>1 DEF Get
<1> QED
  BY <1>2, DatumIntro DEF Get

\* A variable keeps its contents while the cells of its frame keep theirs.
LEMMA HoldsKept ==
  ASSUME NEW a \in Activation, Tidy(a), NEW m, NEW w, Holds(a, m),
         \A p \in a.base .. a.base + a.stackn - 1 : w[p] = m[p]
  PROVE  Holds(a, w)
<1> SUFFICES ASSUME NEW n \in 1 .. Len(a.scopes), NEW x \in DOMAIN a.scopes[n],
                    NEW c \in DOMAIN a.scopes[n][x], a.scopes[n][x][c] # NONE
             PROVE  w[a.base + a.locals[x] + c] = a.scopes[n][x][c]
  BY DEF Holds
<1>1. c \in Nat /\ c < CellsOf(a.scopes[n][x]) /\ CellsOf(a.scopes[n][x]) \in Nat
  BY VariableShape DEF Cells
<1>2. a.locals[x] \in Nat /\ a.locals[x] + CellsOf(a.scopes[n][x]) <= a.stackn
  BY VariableShape DEF Tidy, Slotted
<1>3. a.base + a.locals[x] + c \in a.base .. a.base + a.stackn - 1
  BY <1>1, <1>2, ActivationShape
<1>4. m[a.base + a.locals[x] + c] = a.scopes[n][x][c]
  BY DEF Holds
<1> QED
  BY <1>3, <1>4

\* A value stored at the slot of a variable changes that variable and no other.
LEMMA StoreHolds ==
  ASSUME NEW N \in Nat, NEW m \in [Cells(N) -> Cell],
         NEW a \in Activation, Tidy(a), Holds(a, m), a.base + a.stackn <= N,
         NEW n \in 1 .. Len(a.scopes), NEW x \in DOMAIN a.scopes[n],
         NEW v \in Datum, CellsOf(v) <= CellsOf(a.scopes[n][x]),
         NEW u \in Datum, CellsOf(u) = CellsOf(a.scopes[n][x]),
         \A c \in DOMAIN u :
            u[c] = IF c \in DOMAIN v THEN v[c] ELSE a.scopes[n][x][c]
  PROVE  Holds(SetSource(a, n, x, u), Put(m, a.base + a.locals[x], v))
<1> DEFINE b == SetSource(a, n, x, u)
           at == a.base + a.locals[x]
           w == Put(m, at, v)
<1>1. /\ b.base = a.base /\ b.locals = a.locals /\ Len(b.scopes) = Len(a.scopes)
      /\ \A k \in 1 .. Len(a.scopes) : DOMAIN b.scopes[k] = DOMAIN a.scopes[k]
      /\ \A k \in 1 .. Len(a.scopes) : \A y \in DOMAIN a.scopes[k] :
            b.scopes[k][y] = IF k = n /\ y = x THEN u ELSE a.scopes[k][y]
  BY SetSourceShape DEF Frame
<1>2. /\ a.base \in Nat /\ a.locals[x] \in Nat /\ at \in Nat
      /\ a.locals[x] + CellsOf(a.scopes[n][x]) <= a.stackn
      /\ CellsOf(a.scopes[n][x]) \in Nat /\ CellsOf(v) \in Nat
      /\ a.stackn \in Nat
  BY VariableShape, ActivationShape, DatumShape DEF Tidy, Slotted
<1>3. /\ \A p \in Cells(N) : p < at \/ at + CellsOf(v) <= p => w[p] = m[p]
      /\ \A c \in DOMAIN v : at + c \in Cells(N) => w[at + c] = v[c]
  <2>1. PICK k \in Nat : k = at
    BY <1>2
  <2>2. /\ \A p \in Cells(N) : p < k \/ k + CellsOf(v) <= p => Put(m, k, v)[p] = m[p]
        /\ \A c \in DOMAIN v : k + c \in Cells(N) => Put(m, k, v)[k + c] = v[c]
    BY PutShape
  <2> HIDE DEF at
  <2> QED
    BY <2>1, <2>2
<1>4. DOMAIN v = Cells(CellsOf(v)) /\ DOMAIN u = Cells(CellsOf(u))
  BY DatumShape
<1> HIDE DEF b, w
<1> SUFFICES ASSUME NEW k \in 1 .. Len(a.scopes), NEW y \in DOMAIN a.scopes[k],
                    NEW c \in DOMAIN b.scopes[k][y], b.scopes[k][y][c] # NONE
             PROVE  w[a.base + a.locals[y] + c] = b.scopes[k][y][c]
  BY <1>1 DEF Holds, b, w
<1>5. CASE k = n /\ y = x
  <2>1. b.scopes[k][y] = u /\ c \in Cells(CellsOf(u))
    BY <1>1, <1>4, <1>5
  <2>2. at + c \in Cells(N) /\ c \in Nat
    <3>1. c \in Nat /\ c < CellsOf(a.scopes[n][x])
      <4>1. PICK size \in Nat : size = CellsOf(a.scopes[n][x]) /\ c \in Cells(size)
        BY <2>1, <1>2
      <4> QED
        BY <4>1 DEF Cells
    <3>2. at \in Nat /\ at + CellsOf(a.scopes[n][x]) <= N
      <4> DEFINE base == a.base
                 lx == a.locals[x]
                 sx == CellsOf(a.scopes[n][x])
                 top == a.stackn
      <4>1. /\ base \in Nat /\ lx \in Nat /\ sx \in Nat /\ top \in Nat
            /\ lx + sx <= top /\ base + top <= N /\ at = base + lx
        BY <1>2
      <4> HIDE DEF base, lx, sx, top, at
      <4>2. at \in Nat /\ at + sx <= N
        BY <4>1
      <4> QED
        BY <4>2 DEF sx
    <3> HIDE DEF at
    <3> QED
      BY <3>1, <3>2, <1>2 DEF Cells
  <2>3. CASE c \in DOMAIN v
    BY <2>1, <2>2, <2>3, <1>3, <1>5
  <2>4. CASE c \notin DOMAIN v
    <3>1. at + CellsOf(v) <= at + c
      BY <2>2, <2>4, <1>2, <1>4 DEF Cells
    <3>2. w[at + c] = m[at + c]
      BY <3>1, <2>2, <1>3
    <3>3. c \in DOMAIN a.scopes[n][x] /\ u[c] = a.scopes[n][x][c]
      BY <2>1, <2>4, <1>4, VariableShape
    <3> QED
      BY <3>2, <3>3, <2>1, <1>5 DEF Holds
  <2> QED
    BY <2>3, <2>4
<1>6. CASE ~ (k = n /\ y = x)
  <2>1. b.scopes[k][y] = a.scopes[k][y]
    BY <1>1, <1>6
  <2> DEFINE base == a.base
             lx == a.locals[x]
             ly == a.locals[y]
             sx == CellsOf(a.scopes[n][x])
             sy == CellsOf(a.scopes[k][y])
             sv == CellsOf(v)
             top == a.stackn
  <2>2. /\ base \in Nat /\ lx \in Nat /\ sx \in Nat /\ sv \in Nat /\ top \in Nat
        /\ sv <= sx /\ at = base + lx /\ base + top <= N
    BY <1>2
  <2>3. /\ ly \in Nat /\ sy \in Nat /\ ly + sy <= top /\ c \in Nat /\ c < sy
    BY <2>1, VariableShape DEF Tidy, Slotted, Cells
  <2>4. lx + sx <= ly \/ ly + sy <= lx
    BY <1>6 DEF Tidy, Separate
  <2> HIDE DEF base, lx, ly, sx, sy, sv, top, at
  <2>5. PICK p \in Nat : p = base + ly + c
    BY <2>2, <2>3
  <2>6. p < at \/ at + sv <= p
    BY <2>2, <2>3, <2>4, <2>5
  <2>7. p \in Cells(N)
    BY <2>2, <2>3, <2>5 DEF Cells
  <2>8. w[p] = m[p]
    BY <1>3, <2>6, <2>7 DEF sv
  <2> QED
    BY <2>1, <2>5, <2>8 DEF Holds, base, ly
<1> QED
  BY <1>5, <1>6

-----------------------------------------------------------------------------
(* The frame of a call *)

LEMMA RegShape ==
  ASSUME NEW args \in Seq(Reg), NEW n \in 1 .. Len(args)
  PROVE  /\ args[n].got \in Datum /\ args[n].want \in Datum
         /\ CellsOf(args[n].want) \in Nat
         /\ DOMAIN args[n].got = Cells(CellsOf(args[n].want))
         /\ DOMAIN args[n].want = Cells(CellsOf(args[n].want))
<1>1. args[n] \in Reg
  OBVIOUS
<1> QED
  BY <1>1, DatumShape DEF Reg

LEMMA ReservedShape ==
  ASSUME NEW args \in Seq(Reg), NEW va \in BOOLEAN
  PROVE  /\ Reserved(args, va) \in Nat
         /\ \A n \in 1 .. Len(args) :
               /\ Before(args)[n] \in Nat
               /\ Before(args)[n] + CellsOf(args[n].want) <= Reserved(args, va)
<1>1. Len(args) + 1 \in 1 .. Len(args) + 1 /\ Len(args) \in Nat
  OBVIOUS
<1>2. Before(args)[Len(args) + 1] \in Nat
  BY <1>1, BeforeShape
<1>3. /\ Reserved(args, va) \in Nat
      /\ Before(args)[Len(args) + 1] <= Reserved(args, va)
  BY <1>2, FramesAssumption DEF Reserved
<1>4. ASSUME NEW n \in 1 .. Len(args)
      PROVE  /\ Before(args)[n] \in Nat
             /\ Before(args)[n] + CellsOf(args[n].want)
                   <= Before(args)[Len(args) + 1]
  <2>1. n \in 1 .. Len(args) + 1 /\ n < Len(args) + 1
    BY <1>1
  <2> QED
    BY <1>1, <2>1, BeforeShape
<1>5. \A n \in 1 .. Len(args) : CellsOf(args[n].want) \in Nat
  BY RegShape
<1> QED
  BY <1>2, <1>3, <1>4, <1>5

\* No two arguments claim a cell.
LEMMA HoldingOne ==
  ASSUME NEW args \in Seq(Reg), NEW n \in 1 .. Len(args), NEW c \in DOMAIN args[n].got
  PROVE  Holding(args, Before(args)[n] + c) = {n}
<1> DEFINE at == Before(args)
           p == at[n] + c
<1>1. \A k \in 1 .. Len(args) : at[k] \in Nat
  <2>1. \A k \in 1 .. Len(args) : k \in 1 .. Len(args) + 1
    OBVIOUS
  <2> QED
    BY <2>1, BeforeShape
<1>2. c \in Nat /\ c < CellsOf(args[n].want) /\ p - at[n] = c
  BY <1>1, RegShape DEF Cells
<1>3. n \in Holding(args, p)
  BY <1>2 DEF Holding
<1>4. ASSUME NEW k \in 1 .. Len(args), k # n, p - at[k] \in DOMAIN args[k].got
      PROVE  FALSE
  <2> DEFINE sk == CellsOf(args[k].want)
             sn == CellsOf(args[n].want)
             ak == at[k]
             an == at[n]
  <2>1. ak \in Nat /\ an \in Nat /\ sk \in Nat /\ sn \in Nat
    BY <1>1, RegShape
  <2>2. p - ak \in Cells(sk)
    BY <1>4, RegShape
  <2>3. k < n => ak + sk <= an
    BY BeforeShape
  <2>4. n < k => an + sn <= ak
    BY BeforeShape
  <2>5. p = an + c /\ c \in Nat /\ c < sn
    BY <1>2
  <2>6. k < n \/ n < k
    BY <1>4
  <2> HIDE DEF sk, sn, ak, an, p
  <2> QED
    BY <2>1, <2>2, <2>3, <2>4, <2>5, <2>6 DEF Cells
<1> QED
  BY <1>3, <1>4 DEF Holding

LEMMA PassedIsMemory ==
  ASSUME NEW N \in Nat, NEW m \in [Cells(N) -> Cell], NEW base \in Nat,
         NEW args \in Seq(Reg)
  PROVE  Passed(m, base, args) \in [Cells(N) -> Cell]
<1> DEFINE at == Before(args)
           w == Passed(m, base, args)
<1>1. w = [a \in Cells(N) |->
             IF Holding(args, a - base) = {} THEN m[a]
             ELSE LET n == CHOOSE n \in Holding(args, a - base) : TRUE
                  IN  args[n].got[a - base - at[n]]]
  BY DEF Passed
<1>2. ASSUME NEW a \in Cells(N) PROVE w[a] \in Cell
  <2>1. CASE Holding(args, a - base) = {}
    BY <2>1, <1>1
  <2>2. CASE Holding(args, a - base) # {}
    <3>1. PICK n \in Holding(args, a - base) :
             w[a] = args[n].got[a - base - at[n]]
      BY <2>2, <1>1
    <3>2. n \in 1 .. Len(args) /\ a - base - at[n] \in DOMAIN args[n].got
      BY <3>1 DEF Holding
    <3>3. args[n].got \in [DOMAIN args[n].got -> Cell]
      BY <3>2, RegShape, DatumShape
    <3> QED
      BY <3>1, <3>2, <3>3
  <2> QED
    BY <2>1, <2>2
<1> QED
  BY <1>1, <1>2

LEMMA PassedShape ==
  ASSUME NEW N \in Nat, NEW m \in [Cells(N) -> Cell], NEW base \in Nat,
         NEW args \in Seq(Reg)
  PROVE  /\ \A a \in Cells(N) : a < base => Passed(m, base, args)[a] = m[a]
         /\ \A n \in 1 .. Len(args) : \A c \in DOMAIN args[n].got :
               base + Before(args)[n] + c \in Cells(N)
               => Passed(m, base, args)[base + Before(args)[n] + c]
                     = args[n].got[c]
<1> DEFINE at == Before(args)
           w == Passed(m, base, args)
<1>1. \A k \in 1 .. Len(args) : at[k] \in Nat
  <2>1. \A k \in 1 .. Len(args) : k \in 1 .. Len(args) + 1
    OBVIOUS
  <2> QED
    BY <2>1, BeforeShape
<1>2. w = [a \in Cells(N) |->
             IF Holding(args, a - base) = {} THEN m[a]
             ELSE LET n == CHOOSE n \in Holding(args, a - base) : TRUE
                  IN  args[n].got[a - base - at[n]]]
  BY DEF Passed
<1>3. ASSUME NEW a \in Cells(N), a < base PROVE w[a] = m[a]
  <2>1. ASSUME NEW n \in Holding(args, a - base) PROVE FALSE
    <3>1. n \in 1 .. Len(args) /\ a - base - at[n] \in DOMAIN args[n].got
      BY <2>1 DEF Holding
    <3>2. a - base - at[n] \in Cells(CellsOf(args[n].want)) /\ at[n] \in Nat
      BY <3>1, <1>1, RegShape
    <3> HIDE DEF at
    <3> QED
      BY <3>2, <1>3 DEF Cells
  <2>2. Holding(args, a - base) = {}
    BY <2>1
  <2> QED
    BY <1>2, <2>2
<1>4. ASSUME NEW n \in 1 .. Len(args), NEW c \in DOMAIN args[n].got,
             base + at[n] + c \in Cells(N)
      PROVE  w[base + at[n] + c] = args[n].got[c]
  <2>1. at[n] \in Nat /\ c \in Nat
    BY <1>1, RegShape DEF Cells
  <2>2. Holding(args, at[n] + c) = {n}
    BY HoldingOne
  <2>3. /\ (base + at[n] + c) - base = at[n] + c
        /\ (base + at[n] + c) - base - at[n] = c
    <3> HIDE DEF at
    <3> QED
      BY <2>1
  <2>4. (CHOOSE k \in Holding(args, at[n] + c) : TRUE) = n
    BY <2>2
  <2> HIDE DEF at, w
  <2> QED
    BY <1>2, <1>4, <2>2, <2>3, <2>4
<1> QED
  BY <1>3, <1>4

\* The callee's parameters are the arguments, each where it was stored.
LEMMA EntryShape ==
  ASSUME NEW base \in Nat, NEW args \in Seq(Reg), NEW va \in BOOLEAN,
         NEW params \in [1 .. Len(args) -> Name], IsInjective(params)
  PROVE  LET e == Entry(base, args, params, va)
         IN  /\ e \in Activation /\ e.base = base /\ e.regs = << >>
             /\ e.stackn = Reserved(args, va) /\ Len(e.scopes) = 1
             /\ DOMAIN e.scopes[1] = {params[n] : n \in 1 .. Len(args)}
             /\ \A n \in 1 .. Len(args) :
                   /\ params[n] \in DOMAIN e.locals
                   /\ e.locals[params[n]] = Before(args)[n]
                   /\ e.scopes[1][params[n]] = args[n].want
<1> DEFINE names == {params[n] : n \in 1 .. Len(args)}
           index(x) == CHOOSE n \in 1 .. Len(args) : params[n] = x
           l == [x \in names |-> Before(args)[index(x)]]
           s == [x \in names |-> args[index(x)].want]
           e == Entry(base, args, params, va)
<1>1. /\ \A x \in names : index(x) \in 1 .. Len(args)
      /\ \A n \in 1 .. Len(args) : index(params[n]) = n
      /\ names \in SUBSET Name
      /\ \A n \in 1 .. Len(args) : params[n] \in names
  <2>1. \A x \in names : index(x) \in 1 .. Len(args) /\ params[index(x)] = x
    OBVIOUS
  <2>2. \A n \in 1 .. Len(args) : params[n] \in names
    OBVIOUS
  <2>3. \A n, k \in 1 .. Len(args) : params[n] = params[k] => n = k
    BY DEF IsInjective
  <2> HIDE DEF index
  <2> QED
    BY <2>1, <2>2, <2>3
<1> HIDE DEF index
<1>2. e = [base |-> base, stackn |-> Reserved(args, va), locals |-> l,
           scopes |-> << s >>, regs |-> << >>]
  BY DEF Entry, index
<1>3. l \in SlotMap /\ DOMAIN l = names
  <2>1. l \in [names -> Nat]
    BY <1>1, ReservedShape
  <2> QED
    BY <2>1, <1>1, SlotMapIntro
<1>4. s \in Scope /\ DOMAIN s = names
  <2>1. s \in [names -> Datum]
    BY <1>1, RegShape
  <2> QED
    BY <2>1, <1>1, ScopeIntro
<1>5. \A n \in 1 .. Len(args) :
         l[params[n]] = Before(args)[n] /\ s[params[n]] = args[n].want
  BY <1>1
<1>6. \A n \in 1 .. Len(args) : params[n] \in names
  BY <1>1
<1> HIDE DEF l, s, names, e
<1>7. << s >> \in Seq(Scope) /\ Len(<< s >>) = 1 /\ << s >>[1] = s
  BY <1>4
<1>8. << >> \in Seq(Reg) /\ Reserved(args, va) \in Nat
  BY ReservedShape
<1>9. e \in Activation
  BY <1>2, <1>3, <1>7, <1>8 DEF Activation
<1>10. /\ e.base = base /\ e.regs = << >> /\ e.stackn = Reserved(args, va)
       /\ e.locals = l /\ e.scopes = << s >>
  BY <1>2
<1>11. \A n \in 1 .. Len(args) : /\ params[n] \in DOMAIN e.locals
                                 /\ e.locals[params[n]] = Before(args)[n]
                                 /\ e.scopes[1][params[n]] = args[n].want
  BY <1>3, <1>5, <1>6, <1>7, <1>10
<1>12. Len(e.scopes) = 1 /\ DOMAIN e.scopes[1] = names
  BY <1>4, <1>7, <1>10
<1> QED
  BY <1>9, <1>10, <1>11, <1>12 DEF e, names

LEMMA EntryTidy ==
  ASSUME NEW base \in Nat, NEW args \in Seq(Reg), NEW va \in BOOLEAN,
         NEW params \in [1 .. Len(args) -> Name], IsInjective(params)
  PROVE  Tidy(Entry(base, args, params, va))
<1> DEFINE e == Entry(base, args, params, va)
<1>1. /\ e.stackn = Reserved(args, va) /\ Len(e.scopes) = 1
      /\ DOMAIN e.scopes[1] = {params[n] : n \in 1 .. Len(args)}
      /\ \A n \in 1 .. Len(args) :
            /\ params[n] \in DOMAIN e.locals
            /\ e.locals[params[n]] = Before(args)[n]
            /\ e.scopes[1][params[n]] = args[n].want
  BY EntryShape
<1> HIDE DEF e
<1>2. \A n \in 1 .. Len(e.scopes) : n = 1
  BY <1>1
<1>3. Slotted(e)
  <2> SUFFICES ASSUME NEW x \in DOMAIN e.scopes[1]
               PROVE  /\ x \in DOMAIN e.locals
                      /\ e.locals[x] + CellsOf(e.scopes[1][x]) <= e.stackn
    BY <1>2 DEF Slotted
  <2>1. PICK n \in 1 .. Len(args) : x = params[n]
    BY <1>1
  <2> QED
    BY <1>1, <2>1, ReservedShape
<1>4. Separate(e)
  <2> SUFFICES ASSUME NEW x \in DOMAIN e.scopes[1], NEW y \in DOMAIN e.scopes[1],
                      x # y
               PROVE  \/ e.locals[x] + CellsOf(e.scopes[1][x]) <= e.locals[y]
                      \/ e.locals[y] + CellsOf(e.scopes[1][y]) <= e.locals[x]
    BY <1>2 DEF Separate
  <2>1. PICK n \in 1 .. Len(args) : x = params[n]
    BY <1>1
  <2>2. PICK k \in 1 .. Len(args) : y = params[k]
    BY <1>1
  <2>3. n < k \/ k < n
    BY <2>1, <2>2
  <2>4. n \in 1 .. Len(args) + 1 /\ k \in 1 .. Len(args) + 1
    OBVIOUS
  <2>5. \/ Before(args)[n] + CellsOf(args[n].want) <= Before(args)[k]
        \/ Before(args)[k] + CellsOf(args[k].want) <= Before(args)[n]
    BY <2>3, <2>4, BeforeShape
  <2> QED
    BY <1>1, <2>1, <2>2, <2>5
<1> QED
  BY <1>3, <1>4 DEF Tidy, e

LEMMA EntryHolds ==
  ASSUME NEW N \in Nat, NEW m \in [Cells(N) -> Cell],
         NEW base \in Nat, NEW args \in Seq(Reg), NEW va \in BOOLEAN,
         NEW params \in [1 .. Len(args) -> Name], IsInjective(params),
         base + Reserved(args, va) <= N,
         \A n \in 1 .. Len(args) : args[n].got = args[n].want
  PROVE  Holds(Entry(base, args, params, va), Passed(m, base, args))
<1> DEFINE e == Entry(base, args, params, va)
           w == Passed(m, base, args)
<1>1. /\ e.base = base /\ Len(e.scopes) = 1
      /\ DOMAIN e.scopes[1] = {params[n] : n \in 1 .. Len(args)}
      /\ \A n \in 1 .. Len(args) :
            /\ e.locals[params[n]] = Before(args)[n]
            /\ e.scopes[1][params[n]] = args[n].want
  BY EntryShape
<1>2. \A n \in 1 .. Len(args) : \A c \in DOMAIN args[n].got :
         base + Before(args)[n] + c \in Cells(N)
         => w[base + Before(args)[n] + c] = args[n].got[c]
  BY PassedShape
<1> HIDE DEF e, w
<1>2a. \A n \in 1 .. Len(e.scopes) : n = 1
  BY <1>1
<1> SUFFICES ASSUME NEW x \in DOMAIN e.scopes[1], NEW c \in DOMAIN e.scopes[1][x]
             PROVE  w[e.base + e.locals[x] + c] = e.scopes[1][x][c]
  BY <1>2a DEF Holds, e, w
<1>3. PICK n \in 1 .. Len(args) : x = params[n]
  BY <1>1
<1>4. /\ e.scopes[1][x] = args[n].want /\ e.locals[x] = Before(args)[n]
      /\ c \in DOMAIN args[n].got
  BY <1>1, <1>3
<1>5. base + Before(args)[n] + c \in Cells(N)
  <2> DEFINE b == Before(args)[n]
             sz == CellsOf(args[n].want)
             r == Reserved(args, va)
  <2>1. b \in Nat /\ sz \in Nat /\ r \in Nat /\ b + sz <= r
    BY ReservedShape, RegShape
  <2>2. c \in Cells(sz)
    BY <1>4, RegShape
  <2>3. base + r <= N
    OBVIOUS
  <2> HIDE DEF b, sz, r
  <2>4. base + b + c \in Cells(N)
    BY <2>1, <2>2, <2>3 DEF Cells
  <2> QED
    BY <2>4 DEF b
<1> QED
  BY <1>1, <1>2, <1>4, <1>5

-----------------------------------------------------------------------------
(* The layout of the stack *)

\* Every activation is tidy, and lies below the next one.
Stacked ==
    /\ calls \in Seq(Activation) /\ calls # << >>
    /\ \A d \in 1 .. Depth :
          /\ calls[d].scopes # << >> /\ Tidy(calls[d])
          /\ calls[d].base + calls[d].stackn <= bounds.cells
    /\ \A d, e \in 1 .. Depth :
          d < e => calls[d].base + calls[d].stackn <= calls[e].base
    /\ sp = Top.base

\* The pointer holds the address of a variable that is alive.
Pointed ==
    ptr # NONE =>
       /\ ptr.depth \in 1 .. Depth
       /\ ptr.level \in 1 .. Len(calls[ptr.depth].scopes)
       /\ ptr.name \in DOMAIN calls[ptr.depth].scopes[ptr.level]
       /\ ptr.at = At(calls[ptr.depth], ptr.name)

Memory == /\ mem \in [Cells(bounds.cells) -> Cell]
          /\ bounds \in Bounds /\ nlits \in 0 .. bounds.lits

Layout == Stacked /\ Pointed /\ Memory

LEMMA BoundsShape ==
  Memory => /\ bounds.cells \in Nat /\ bounds.lits \in Nat
            /\ bounds.sizes \subseteq Nat
BY FramesAssumption DEF Memory

LEMMA TopShape ==
  Stacked => /\ Depth \in Nat /\ Depth \in 1 .. Depth
             /\ Top = calls[Depth] /\ Top \in Activation
             /\ Top.scopes # << >> /\ Tidy(Top)
             /\ Top.base + Top.stackn <= bounds.cells
             /\ \A d \in 1 .. Depth : calls[d] \in Activation
<1> SUFFICES ASSUME Stacked
             PROVE  /\ Depth \in Nat /\ Depth \in 1 .. Depth
                    /\ Top = calls[Depth] /\ Top \in Activation
                    /\ Top.scopes # << >> /\ Tidy(Top)
                    /\ Top.base + Top.stackn <= bounds.cells
                    /\ \A d \in 1 .. Depth : calls[d] \in Activation
  OBVIOUS
<1>1. calls \in Seq(Activation) /\ calls # << >>
  BY DEF Stacked
<1>2. /\ Depth \in Nat /\ Depth \in 1 .. Depth
      /\ Top = calls[Depth] /\ Top \in Activation
      /\ \A d \in 1 .. Depth : calls[d] \in Activation
  BY <1>1, LastShape DEF Depth, Top
<1> QED
  BY <1>2 DEF Stacked

LEMMA BecomeShape ==
  ASSUME Stacked, NEW b \in Activation, Become(b)
  PROVE  /\ calls' \in Seq(Activation) /\ calls' # << >> /\ Depth' = Depth
         /\ Top' = b
         /\ \A d \in 1 .. Depth : calls'[d] = IF d = Depth THEN b ELSE calls[d]
<1>1. calls \in Seq(Activation) /\ Depth \in 1 .. Len(calls) /\ Depth = Len(calls)
  BY TopShape DEF Stacked, Depth
<1>2. /\ calls' \in Seq(Activation) /\ Len(calls') = Len(calls)
      /\ \A d \in 1 .. Len(calls) : calls'[d] = IF d = Depth THEN b ELSE calls[d]
  BY <1>1, ReplaceShape DEF Become
<1>3. calls' # << >> /\ Top' = b
  BY <1>1, <1>2, LastShape DEF Top
<1> QED
  BY <1>1, <1>2, <1>3 DEF Depth

\* A step that leaves the frames where they are, and only grows the last.
LEMMA StackedKept ==
  ASSUME Stacked, calls' \in Seq(Activation), Depth' = Depth,
         \A d \in 1 .. Depth :
            /\ calls'[d].base = calls[d].base
            /\ calls'[d].scopes # << >> /\ Tidy(calls'[d])
            /\ d # Depth => calls'[d].stackn = calls[d].stackn,
         calls'[Depth].base + calls'[Depth].stackn <= bounds.cells,
         UNCHANGED <<sp, bounds>>
  PROVE  Stacked'
<1>1. /\ Depth \in Nat /\ Depth \in 1 .. Depth /\ Top = calls[Depth]
  BY TopShape
<1>2. calls' # << >> /\ Top' = calls'[Depth]
  <2>1. Len(calls') = Depth
    BY DEF Depth
  <2> QED
    BY <1>1, <2>1 DEF Top, Last
<1>3. ASSUME NEW d \in 1 .. Depth
      PROVE  calls'[d].base + calls'[d].stackn <= bounds.cells
  <2>1. d # Depth \/ d = Depth
    OBVIOUS
  <2> QED
    BY <2>1 DEF Stacked
<1>4. ASSUME NEW d \in 1 .. Depth, NEW e \in 1 .. Depth, d < e
      PROVE  calls'[d].base + calls'[d].stackn <= calls'[e].base
  <2>1. d # Depth
    BY <1>1, <1>4
  <2> QED
    BY <1>4, <2>1 DEF Stacked
<1>5. sp' = Top'.base
  BY <1>1, <1>2 DEF Stacked
<1> QED
  BY <1>2, <1>3, <1>4, <1>5 DEF Stacked

\* A step that keeps every variable in its scope and its slot.
LEMMA PointedKept ==
  ASSUME Stacked, Pointed, ptr' = ptr, Depth' \in Nat, Depth <= Depth',
         \A d \in 1 .. Depth :
            /\ calls'[d].base = calls[d].base
            /\ Len(calls'[d].scopes) \in Nat
            /\ Len(calls[d].scopes) <= Len(calls'[d].scopes)
            /\ \A n \in 1 .. Len(calls[d].scopes) :
                  \A x \in DOMAIN calls[d].scopes[n] :
                     /\ x \in DOMAIN calls'[d].scopes[n]
                     /\ Slot(calls'[d], x) = Slot(calls[d], x)
  PROVE  Pointed'
<1> SUFFICES ASSUME ptr # NONE
             PROVE  /\ ptr.depth \in 1 .. Depth'
                    /\ ptr.level \in 1 .. Len(calls'[ptr.depth].scopes)
                    /\ ptr.name \in DOMAIN calls'[ptr.depth].scopes[ptr.level]
                    /\ ptr.at = At(calls'[ptr.depth], ptr.name)
  BY DEF Pointed
<1>1. /\ ptr.depth \in 1 .. Depth
      /\ ptr.level \in 1 .. Len(calls[ptr.depth].scopes)
      /\ ptr.name \in DOMAIN calls[ptr.depth].scopes[ptr.level]
      /\ ptr.at = At(calls[ptr.depth], ptr.name)
  BY DEF Pointed
<1>2. At(calls'[ptr.depth], ptr.name) = At(calls[ptr.depth], ptr.name)
  BY <1>1 DEF At
<1>3. ptr.level \in 1 .. Len(calls'[ptr.depth].scopes)
  <2>1. /\ Len(calls[ptr.depth].scopes) \in Nat
        /\ Len(calls'[ptr.depth].scopes) \in Nat
        /\ Len(calls[ptr.depth].scopes) <= Len(calls'[ptr.depth].scopes)
    BY <1>1, TopShape, ActivationShape
  <2> QED
    BY <1>1, <2>1
<1>4. ptr.depth \in 1 .. Depth'
  BY <1>1, TopShape
<1> QED
  BY <1>1, <1>2, <1>3, <1>4

-----------------------------------------------------------------------------
(* Every step keeps the layout, in a source that does not shadow a name *)

\* A step that changes the values of the running activation, and no layout.
LEMMA BecomeLayout ==
  ASSUME Layout, NEW b \in Activation, Become(b), SameLayout(Top, b),
         Len(b.scopes) = Len(Top.scopes), Memory', UNCHANGED <<sp, ptr, bounds>>
  PROVE  Layout'
<1>1. Stacked /\ Pointed
  BY DEF Layout
<1>2. /\ calls' \in Seq(Activation) /\ Depth' = Depth /\ Depth \in 1 .. Depth
      /\ Top = calls[Depth] /\ Top \in Activation /\ Tidy(Top)
      /\ Top.scopes # << >> /\ Top.base + Top.stackn <= bounds.cells
      /\ \A d \in 1 .. Depth : calls[d] \in Activation
      /\ \A d \in 1 .. Depth : calls'[d] = IF d = Depth THEN b ELSE calls[d]
  BY <1>1, TopShape, BecomeShape
<1>3. Tidy(b) /\ b.scopes # << >> /\ Frame(Top, b)
  <2>1. Len(Top.scopes) \in Nat /\ Len(b.scopes) \in Nat
    BY <1>2, ActivationShape
  <2>2. Top.scopes \in Seq(Scope) /\ b.scopes \in Seq(Scope)
    BY <1>2, ActivationShape
  <2>3. b.scopes # << >>
    BY <1>2, <2>2
  <2> QED
    BY <1>2, <2>1, <2>3, SameLayoutTidy DEF SameLayout
<1>4. Stacked'
  <2>1. \A d \in 1 .. Depth :
           /\ calls'[d].base = calls[d].base
           /\ calls'[d].scopes # << >> /\ Tidy(calls'[d])
           /\ d # Depth => calls'[d].stackn = calls[d].stackn
    BY <1>1, <1>2, <1>3 DEF Stacked, Frame
  <2>2. calls'[Depth].base + calls'[Depth].stackn <= bounds.cells
    BY <1>2, <1>3 DEF Frame
  <2> QED
    BY <1>1, <1>2, <2>1, <2>2, StackedKept
<1>5. Pointed'
  <2>1. ASSUME NEW d \in 1 .. Depth
        PROVE  /\ calls'[d].base = calls[d].base
               /\ Len(calls'[d].scopes) \in Nat
               /\ Len(calls[d].scopes) <= Len(calls'[d].scopes)
               /\ \A n \in 1 .. Len(calls[d].scopes) :
                     \A x \in DOMAIN calls[d].scopes[n] :
                        /\ x \in DOMAIN calls'[d].scopes[n]
                        /\ Slot(calls'[d], x) = Slot(calls[d], x)
    <3>0. Len(calls[d].scopes) \in Nat
      BY <1>2, ActivationShape
    <3>1. CASE d = Depth
      BY <3>0, <3>1, <1>2, <1>3 DEF Slot, SameLayout, Frame
    <3>2. CASE d # Depth
      BY <3>0, <3>2, <1>2
    <3> QED
      BY <3>1, <3>2
  <2>2. Depth' \in Nat /\ Depth <= Depth'
    BY <1>1, <1>2, TopShape
  <2> QED
    BY <1>1, <2>1, <2>2, PointedKept
<1> QED
  BY <1>4, <1>5 DEF Layout

LEMMA LayoutInit == Init => Layout
<1> SUFFICES ASSUME Init PROVE Layout
  OBVIOUS
<1> DEFINE a == [base |-> 0, stackn |-> 0, locals |-> EmptyMap,
                 scopes |-> <<EmptyMap>>, regs |-> << >>]
<1>1. calls = << a >> /\ sp = 0 /\ ptr = NONE /\ nlits = 0
      /\ bounds \in Bounds /\ mem = [p \in Cells(bounds.cells) |-> NONE]
  BY DEF Init
<1>2. bounds.cells \in Nat /\ bounds.lits \in Nat
  BY <1>1, FramesAssumption
<1>3. a \in Activation /\ a.base = 0 /\ a.stackn = 0 /\ a.scopes = <<EmptyMap>>
  <2>1. <<EmptyMap>> \in Seq(Scope) /\ EmptyMap \in SlotMap
    BY EmptyMaps
  <2> HIDE DEF EmptyMap
  <2> QED
    BY <2>1 DEF Activation
<1>4. Tidy(a)
  BY <1>3, EmptyMaps DEF Tidy, Slotted, Separate
<1> HIDE DEF a
<1>5. calls \in Seq(Activation) /\ Len(calls) = 1 /\ calls[1] = a
  BY <1>1, <1>3
<1>6. Depth = 1 /\ Top = a /\ a.scopes # << >>
  BY <1>3, <1>5 DEF Depth, Top, Last
<1>7. Stacked
  <2>1. \A d \in 1 .. Depth : d = 1 /\ calls[d] = a
    BY <1>5, <1>6
  <2>2. calls # << >> /\ sp = Top.base
    BY <1>1, <1>3, <1>5, <1>6
  <2>3. a.base + a.stackn <= bounds.cells
    BY <1>2, <1>3
  <2> QED
    BY <1>3, <1>4, <1>5, <1>6, <2>1, <2>2, <2>3 DEF Stacked
<1>8. Memory
  BY <1>1, <1>2 DEF Memory, Cell
<1> QED
  BY <1>1, <1>7, <1>8 DEF Layout, Pointed

LEMMA OpenLayout == Layout /\ OpenScope => Layout'
<1> SUFFICES ASSUME Layout, OpenScope PROVE Layout'
  OBVIOUS
<1> DEFINE b == [Top EXCEPT !.scopes = Append(@, EmptyMap)]
<1>1. Stacked /\ Pointed /\ Memory
  BY DEF Layout
<1>2. Become(b) /\ UNCHANGED <<mem, sp, ptr, nlits, bounds>>
  BY DEF OpenScope, counts
<1>3. /\ Depth \in Nat /\ Depth \in 1 .. Depth /\ Top = calls[Depth]
      /\ Top \in Activation /\ Tidy(Top)
      /\ Top.base + Top.stackn <= bounds.cells
      /\ \A d \in 1 .. Depth : calls[d] \in Activation
  BY <1>1, TopShape
<1>4. b \in Activation /\ Frame(Top, b) /\ b.scopes = Append(Top.scopes, EmptyMap)
  BY <1>3, OpenShape
<1>5. Tidy(b)
  BY <1>3, OpenTidy
<1> HIDE DEF b
<1>6. /\ Len(b.scopes) = Len(Top.scopes) + 1 /\ b.scopes # << >>
      /\ \A n \in 1 .. Len(Top.scopes) : b.scopes[n] = Top.scopes[n]
  BY <1>3, <1>4, ActivationShape, EmptyMaps, AppendShape
<1>7. /\ calls' \in Seq(Activation) /\ Depth' = Depth
      /\ \A d \in 1 .. Depth : calls'[d] = IF d = Depth THEN b ELSE calls[d]
  BY <1>1, <1>2, <1>4, BecomeShape
<1>8. Stacked'
  <2>1. \A d \in 1 .. Depth :
           /\ calls'[d].base = calls[d].base
           /\ calls'[d].scopes # << >> /\ Tidy(calls'[d])
           /\ d # Depth => calls'[d].stackn = calls[d].stackn
    BY <1>1, <1>3, <1>4, <1>5, <1>6, <1>7 DEF Stacked, Frame
  <2>2. calls'[Depth].base + calls'[Depth].stackn <= bounds.cells
    BY <1>3, <1>4, <1>7 DEF Frame
  <2> QED
    BY <1>1, <1>2, <1>7, <2>1, <2>2, StackedKept
<1>9. Pointed'
  <2>1. ASSUME NEW d \in 1 .. Depth
        PROVE  /\ calls'[d].base = calls[d].base
               /\ Len(calls'[d].scopes) \in Nat
               /\ Len(calls[d].scopes) <= Len(calls'[d].scopes)
               /\ \A n \in 1 .. Len(calls[d].scopes) :
                     \A x \in DOMAIN calls[d].scopes[n] :
                        /\ x \in DOMAIN calls'[d].scopes[n]
                        /\ Slot(calls'[d], x) = Slot(calls[d], x)
    <3>0. Len(calls[d].scopes) \in Nat
      BY <1>3, ActivationShape
    <3>1. CASE d = Depth
      <4>1. calls'[d] = b /\ calls[d] = Top /\ Frame(Top, b)
        BY <3>1, <1>3, <1>4, <1>7
      <4>2. /\ Len(b.scopes) \in Nat /\ Len(Top.scopes) <= Len(b.scopes)
            /\ \A n \in 1 .. Len(Top.scopes) : b.scopes[n] = Top.scopes[n]
        BY <3>0, <4>1, <1>6
      <4> QED
        BY <4>1, <4>2 DEF Slot, Frame
    <3>2. CASE d # Depth
      BY <3>0, <3>2, <1>7
    <3> QED
      BY <3>1, <3>2
  <2> QED
    BY <1>1, <1>2, <1>3, <1>7, <2>1, PointedKept
<1>10. Memory'
  BY <1>1, <1>2 DEF Memory
<1> QED
  BY <1>8, <1>9, <1>10 DEF Layout

LEMMA CloseLayout == Layout /\ CloseScope => Layout'
<1> SUFFICES ASSUME Layout, CloseScope PROVE Layout'
  OBVIOUS
<1> DEFINE b == [Top EXCEPT !.scopes = Front(@)]
<1>1. Stacked /\ Pointed /\ Memory
  BY DEF Layout
<1>2. Become(b) /\ UNCHANGED <<mem, sp, nlits, bounds>> /\ Len(Top.scopes) > 1
  BY DEF CloseScope, counts
<1>3. /\ Depth \in Nat /\ Depth \in 1 .. Depth /\ Top = calls[Depth]
      /\ Top \in Activation /\ Tidy(Top) /\ Top.scopes # << >>
      /\ Top.base + Top.stackn <= bounds.cells
      /\ \A d \in 1 .. Depth : calls[d] \in Activation
  BY <1>1, TopShape
<1>4. /\ b \in Activation /\ Frame(Top, b)
      /\ Len(b.scopes) = Len(Top.scopes) - 1
      /\ \A n \in 1 .. Len(Top.scopes) - 1 : b.scopes[n] = Top.scopes[n]
  BY <1>3, CloseShape
<1> HIDE DEF b
<1>5. SameLayout(Top, b) /\ Tidy(b) /\ b.scopes # << >>
  <2>1. Len(Top.scopes) \in Nat /\ Len(b.scopes) \in Nat
    BY <1>3, <1>4, ActivationShape
  <2>2. SameLayout(Top, b)
    BY <1>4, <2>1 DEF SameLayout
  <2>3. b.scopes # << >>
    BY <1>2, <1>4, <2>1
  <2> QED
    BY <1>3, <2>1, <2>2, <2>3, SameLayoutTidy
<1>6. /\ calls' \in Seq(Activation) /\ Depth' = Depth
      /\ \A d \in 1 .. Depth : calls'[d] = IF d = Depth THEN b ELSE calls[d]
  BY <1>1, <1>2, <1>4, BecomeShape
<1>7. Stacked'
  <2>1. \A d \in 1 .. Depth :
           /\ calls'[d].base = calls[d].base
           /\ calls'[d].scopes # << >> /\ Tidy(calls'[d])
           /\ d # Depth => calls'[d].stackn = calls[d].stackn
    BY <1>1, <1>3, <1>4, <1>5, <1>6 DEF Stacked, Frame
  <2>2. calls'[Depth].base + calls'[Depth].stackn <= bounds.cells
    BY <1>3, <1>4, <1>6 DEF Frame
  <2> QED
    BY <1>1, <1>2, <1>6, <2>1, <2>2, StackedKept
<1>8. Pointed'
  <2> SUFFICES ASSUME ptr' # NONE
               PROVE  /\ ptr.depth \in 1 .. Depth
                      /\ ptr.level \in 1 .. Len(calls'[ptr.depth].scopes)
                      /\ ptr.name \in DOMAIN calls'[ptr.depth].scopes[ptr.level]
                      /\ ptr.at = At(calls'[ptr.depth], ptr.name)
                      /\ ptr' = ptr
    BY <1>6 DEF Pointed
  <2>1. /\ ptr' = ptr /\ ptr # NONE
        /\ ~ (ptr.depth = Depth /\ ptr.level = Len(Top.scopes))
    BY DEF CloseScope
  <2>2. /\ ptr.depth \in 1 .. Depth
        /\ ptr.level \in 1 .. Len(calls[ptr.depth].scopes)
        /\ ptr.name \in DOMAIN calls[ptr.depth].scopes[ptr.level]
        /\ ptr.at = At(calls[ptr.depth], ptr.name)
    BY <1>1, <2>1 DEF Pointed
  <2>3. CASE ptr.depth = Depth
    <3>1. ptr.level \in 1 .. Len(Top.scopes) - 1
      BY <1>3, <2>1, <2>2, <2>3, ActivationShape
    <3>2. calls'[ptr.depth] = b /\ calls[ptr.depth] = Top
      BY <1>3, <1>6, <2>3
    <3>3. At(b, ptr.name) = At(Top, ptr.name)
      BY <1>4 DEF At, Slot, Frame
    <3>4. /\ ptr.level \in 1 .. Len(b.scopes)
          /\ b.scopes[ptr.level] = Top.scopes[ptr.level]
      BY <1>4, <3>1
    <3> QED
      BY <2>1, <2>2, <3>2, <3>3, <3>4
  <2>4. CASE ptr.depth # Depth
    BY <1>6, <2>1, <2>2, <2>4
  <2> QED
    BY <2>3, <2>4
<1>9. Memory'
  BY <1>1, <1>2 DEF Memory
<1> QED
  BY <1>7, <1>8, <1>9 DEF Layout

LEMMA DeclareLayout == Shadowing = FALSE => (Layout /\ Declare => Layout')
<1> SUFFICES ASSUME Shadowing = FALSE, Layout, Declare PROVE Layout'
  OBVIOUS
<1>1. Stacked /\ Pointed /\ Memory
  BY DEF Layout
<1>2. PICK x \in Name, n \in bounds.sizes :
         /\ x \notin Visible(Top) /\ Fits(Top.base + Top.stackn, n)
         /\ Become(Declared(Top, x, n))
  BY DEF Declare, Declarable
<1> DEFINE b == Declared(Top, x, n)
<1>3. UNCHANGED <<mem, sp, ptr, nlits, bounds>> /\ n \in Nat
  BY <1>1, BoundsShape DEF Declare, counts
<1>4. /\ Depth \in Nat /\ Depth \in 1 .. Depth /\ Top = calls[Depth]
      /\ Top \in Activation /\ Tidy(Top) /\ Top.scopes # << >>
      /\ \A d \in 1 .. Depth : calls[d] \in Activation
  BY <1>1, TopShape
<1>5. /\ b \in Activation /\ b.base = Top.base /\ b.stackn = Top.stackn + n
      /\ b.locals = Bind(Top.locals, x, Top.stackn)
      /\ Len(b.scopes) = Len(Top.scopes)
      /\ b.scopes[Len(Top.scopes)]
            = Bind(Top.scopes[Len(Top.scopes)], x, Blank(n))
      /\ \A m \in 1 .. Len(Top.scopes) - 1 : b.scopes[m] = Top.scopes[m]
  BY <1>3, <1>4, DeclareShape
<1>6. Tidy(b)
  BY <1>2, <1>3, <1>4, DeclareTidy
<1> HIDE DEF b
<1>7. \A k \in 1 .. Len(Top.scopes) : \A y \in DOMAIN Top.scopes[k] :
         y \in DOMAIN b.scopes[k] /\ Slot(b, y) = Slot(Top, y)
  <2>1. /\ Top.locals \in SlotMap /\ Top.stackn \in Nat
        /\ Top.scopes[Len(Top.scopes)] \in Scope /\ Blank(n) \in Datum
        /\ Len(Top.scopes) \in Nat
    BY <1>3, <1>4, ActivationShape, BlankDatum
  <2>2. \A k \in 1 .. Len(Top.scopes) : \A y \in DOMAIN Top.scopes[k] :
           y # x /\ y \in DOMAIN Top.locals
    BY <1>2, <1>4, ActivationShape DEF Visible, Tidy, Slotted
  <2>3. /\ DOMAIN b.locals = DOMAIN Top.locals \cup {x}
        /\ \A y \in DOMAIN Top.locals : y # x => b.locals[y] = Top.locals[y]
    <3>1. PICK l \in SlotMap : l = Top.locals
      BY <2>1
    <3>2. PICK at \in Nat : at = Top.stackn
      BY <2>1
    <3>3. /\ DOMAIN Bind(l, x, at) = DOMAIN l \cup {x}
          /\ \A y \in DOMAIN l : y # x => Bind(l, x, at)[y] = l[y]
      BY DEF Bind
    <3> QED
      BY <1>5, <3>1, <3>2, <3>3
  <2>4. DOMAIN b.scopes[Len(Top.scopes)]
           = DOMAIN Top.scopes[Len(Top.scopes)] \cup {x}
    <3>1. PICK s \in Scope : s = Top.scopes[Len(Top.scopes)]
      BY <2>1
    <3>2. PICK v \in Datum : v = Blank(n)
      BY <2>1
    <3>3. DOMAIN Bind(s, x, v) = DOMAIN s \cup {x}
      BY DEF Bind
    <3> QED
      BY <1>5, <3>1, <3>2, <3>3
  <2> QED
    BY <1>5, <2>1, <2>2, <2>3, <2>4 DEF Slot
<1>8. /\ calls' \in Seq(Activation) /\ Depth' = Depth
      /\ \A d \in 1 .. Depth : calls'[d] = IF d = Depth THEN b ELSE calls[d]
  BY <1>1, <1>2, <1>5, BecomeShape DEF b
<1>9. Stacked'
  <2>1. b.scopes # << >>
    BY <1>4, <1>5, ActivationShape
  <2>2. \A d \in 1 .. Depth :
           /\ calls'[d].base = calls[d].base
           /\ calls'[d].scopes # << >> /\ Tidy(calls'[d])
           /\ d # Depth => calls'[d].stackn = calls[d].stackn
    BY <1>1, <1>4, <1>5, <1>6, <1>8, <2>1 DEF Stacked
  <2>3. calls'[Depth].base + calls'[Depth].stackn <= bounds.cells
    <3>1. Top.base + Top.stackn + n <= bounds.cells
      BY <1>2 DEF Fits
    <3>2. Top.base \in Nat /\ Top.stackn \in Nat
      BY <1>4, ActivationShape
    <3> QED
      BY <1>3, <1>4, <1>5, <1>8, <3>1, <3>2
  <2> QED
    BY <1>1, <1>3, <1>8, <2>2, <2>3, StackedKept
<1>10. Pointed'
  <2>1. ASSUME NEW d \in 1 .. Depth
        PROVE  /\ calls'[d].base = calls[d].base
               /\ Len(calls'[d].scopes) \in Nat
               /\ Len(calls[d].scopes) <= Len(calls'[d].scopes)
               /\ \A k \in 1 .. Len(calls[d].scopes) :
                     \A y \in DOMAIN calls[d].scopes[k] :
                        /\ y \in DOMAIN calls'[d].scopes[k]
                        /\ Slot(calls'[d], y) = Slot(calls[d], y)
    <3>0. Len(calls[d].scopes) \in Nat
      BY <1>4, ActivationShape
    <3>1. CASE d = Depth
      BY <3>0, <3>1, <1>4, <1>5, <1>7, <1>8
    <3>2. CASE d # Depth
      BY <3>0, <3>2, <1>8
    <3> QED
      BY <3>1, <3>2
  <2> QED
    BY <1>1, <1>3, <1>4, <1>8, <2>1, PointedKept
<1>11. Memory'
  BY <1>1, <1>3 DEF Memory
<1> QED
  BY <1>9, <1>10, <1>11 DEF Layout

LEMMA VisibleShape ==
  ASSUME NEW a \in Activation, Tidy(a), NEW x \in Visible(a)
  PROVE  /\ Level(a, x) \in 1 .. Len(a.scopes)
         /\ x \in DOMAIN a.scopes[Level(a, x)] /\ x \in DOMAIN a.locals
         /\ Source(a, x) = a.scopes[Level(a, x)][x] /\ Source(a, x) \in Datum
         /\ CellsOf(Source(a, x)) \in Nat
         /\ DOMAIN Source(a, x) = Cells(CellsOf(Source(a, x)))
         /\ a.locals[x] \in Nat /\ At(a, x) = a.base + a.locals[x] /\ At(a, x) \in Nat
         /\ a.base <= At(a, x)
         /\ At(a, x) + CellsOf(Source(a, x)) <= a.base + a.stackn
<1> DEFINE n == Level(a, x)
<1>1. n \in 1 .. Len(a.scopes) /\ x \in DOMAIN a.scopes[n]
  BY VisibleLevel DEF Tidy
<1> HIDE DEF n
<1>2. /\ a.scopes[n][x] \in Datum /\ CellsOf(a.scopes[n][x]) \in Nat
      /\ DOMAIN a.scopes[n][x] = Cells(CellsOf(a.scopes[n][x]))
      /\ a.locals[x] \in Nat
  BY <1>1, VariableShape DEF Tidy
<1>3. /\ x \in DOMAIN a.locals
      /\ a.locals[x] + CellsOf(a.scopes[n][x]) <= a.stackn
  BY <1>1 DEF Tidy, Slotted
<1>4. a.base \in Nat /\ a.stackn \in Nat
  BY ActivationShape
<1>5. At(a, x) = a.base + a.locals[x]
  BY <1>3 DEF At, Slot
<1>6. Source(a, x) = a.scopes[n][x]
  BY DEF Source, n
<1> QED
  BY <1>1, <1>2, <1>3, <1>4, <1>5, <1>6 DEF n

LEMMA ValueShape ==
  ASSUME Stacked, HasValue
  PROVE  /\ Value \in Reg /\ Value = Top.regs[Len(Top.regs)]
         /\ Value.got \in Datum /\ Value.want \in Datum
         /\ CellsOf(Value.want) \in Nat /\ CellsOf(Value.got) = CellsOf(Value.want)
         /\ DOMAIN Value.want = Cells(CellsOf(Value.want))
         /\ DOMAIN Value.got = Cells(CellsOf(Value.want))
<1>1. Top.regs \in Seq(Reg)
  BY TopShape, ActivationShape
<1>2. Value \in Reg /\ Value = Top.regs[Len(Top.regs)]
  BY <1>1, LastShape DEF HasValue, Value
<1> QED
  BY <1>2, DatumShape DEF Reg, CellsOf

LEMMA SameLayoutPush ==
  ASSUME NEW a \in Activation, NEW b \in Activation, Frame(a, b), b.scopes = a.scopes
  PROVE  SameLayout(a, b) /\ Len(b.scopes) = Len(a.scopes)
BY ActivationShape DEF SameLayout

LEMMA SameLayoutSet ==
  ASSUME NEW a \in Activation, NEW n \in 1 .. Len(a.scopes),
         NEW x \in DOMAIN a.scopes[n], NEW v \in Datum,
         CellsOf(v) = CellsOf(a.scopes[n][x])
  PROVE  SameLayout(a, SetSource(a, n, x, v))
<1> DEFINE b == SetSource(a, n, x, v)
<1>1. /\ Frame(a, b) /\ Len(b.scopes) = Len(a.scopes)
      /\ \A m \in 1 .. Len(a.scopes) : DOMAIN b.scopes[m] = DOMAIN a.scopes[m]
      /\ \A m \in 1 .. Len(a.scopes) : \A y \in DOMAIN a.scopes[m] :
            b.scopes[m][y] = IF m = n /\ y = x THEN v ELSE a.scopes[m][y]
  BY SetSourceShape
<1> HIDE DEF b
<1> QED
  BY <1>1, ActivationShape DEF SameLayout, b

LEMMA LiteralLayout == Layout /\ Literal => Layout'
<1> SUFFICES ASSUME Layout, Literal PROVE Layout'
  OBVIOUS
<1>1. Stacked /\ Memory /\ nlits \in Nat /\ nlits < bounds.lits
  BY DEF Layout, Memory, Literal
<1>2. PICK n \in bounds.sizes :
         LET v == [c \in Cells(n) |-> <<nlits, c>>] IN Become(Push(Top, v, v))
  BY DEF Literal
<1> DEFINE v == [c \in Cells(n) |-> <<nlits, c>>]
<1>3. v \in Datum
  <2>1. n \in Nat
    BY <1>1, BoundsShape
  <2>2. v \in [Cells(n) -> Cell]
    BY <1>1, <2>1 DEF Cells, Cell
  <2> HIDE DEF v
  <2> QED
    BY <2>1, <2>2, DatumIntro
<1> DEFINE b == Push(Top, v, v)
<1>4. b \in Activation /\ Frame(Top, b) /\ b.scopes = Top.scopes
  <2> HIDE DEF v
  <2> QED
    BY <1>1, <1>3, TopShape, PushShape
<1>5. UNCHANGED <<mem, sp, ptr, bounds>> /\ nlits' = nlits + 1
  BY DEF Literal
<1>6. Memory'
  BY <1>1, <1>5, BoundsShape DEF Memory
<1>7. Become(b)
  BY <1>2
<1> HIDE DEF b
<1> QED
  BY <1>1, <1>4, <1>5, <1>6, <1>7, TopShape, SameLayoutPush, BecomeLayout

\* What a read finds, and what it should find.
LEMMA ReadShape ==
  ASSUME NEW N \in Nat, NEW m \in [Cells(N) -> Cell],
         NEW a \in Activation, Tidy(a), a.base + a.stackn <= N, NEW x \in Visible(a)
  PROVE  LET v   == Source(a, x)
             got == Get(m, At(a, x), CellsOf(v))
         IN  /\ got \in Datum /\ v \in Datum /\ DOMAIN got = DOMAIN v
             /\ Holds(a, m) /\ Assigned(v) => got = v
<1> DEFINE v   == Source(a, x)
           got == Get(m, At(a, x), CellsOf(v))
           n   == Level(a, x)
<1>1. /\ n \in 1 .. Len(a.scopes) /\ x \in DOMAIN a.scopes[n]
      /\ v = a.scopes[n][x] /\ v \in Datum /\ CellsOf(v) \in Nat
      /\ DOMAIN v = Cells(CellsOf(v))
      /\ At(a, x) = a.base + a.locals[x] /\ At(a, x) \in Nat
      /\ At(a, x) + CellsOf(v) <= a.base + a.stackn
  BY VisibleShape
<1> HIDE DEF v, n
<1>2. At(a, x) + CellsOf(v) <= N
  BY <1>1, ActivationShape
<1>3. /\ got \in Datum /\ DOMAIN got = Cells(CellsOf(v))
      /\ \A c \in Cells(CellsOf(v)) : got[c] = m[At(a, x) + c]
  BY <1>1, <1>2, GetShape
<1>4. ASSUME Holds(a, m), Assigned(v) PROVE got = v
  <2>1. \A c \in DOMAIN v : got[c] = v[c]
    BY <1>1, <1>3, <1>4 DEF Holds, Assigned
  <2>2. /\ v \in [Cells(CellsOf(v)) -> Cell]
        /\ got \in [Cells(CellsOf(v)) -> Cell]
    BY <1>1, <1>3, DatumShape
  <2> QED
    BY <1>1, <2>1, <2>2
<1> QED
  BY <1>1, <1>3, <1>4 DEF v

LEMMA ReadLayout == Layout /\ ReadVar => Layout'
<1> SUFFICES ASSUME Layout, ReadVar PROVE Layout'
  OBVIOUS
<1>1. Stacked /\ Memory
  BY DEF Layout
<1>2. PICK x \in Visible(Top) :
         Become(Push(Top, Get(mem, At(Top, x), CellsOf(Source(Top, x))),
                     Source(Top, x)))
  BY DEF ReadVar
<1> DEFINE v == Source(Top, x)
           got == Get(mem, At(Top, x), CellsOf(v))
           b == Push(Top, got, v)
<1>3. got \in Datum /\ v \in Datum /\ DOMAIN got = DOMAIN v
  BY <1>1, TopShape, BoundsShape, ReadShape DEF Memory
<1> HIDE DEF got, v
<1>4. b \in Activation /\ Frame(Top, b) /\ b.scopes = Top.scopes
  BY <1>1, <1>3, TopShape, PushShape
<1>5. UNCHANGED <<mem, sp, ptr, nlits, bounds>>
  BY DEF ReadVar, counts
<1>6. Memory'
  BY <1>1, <1>5 DEF Memory
<1>7. Become(b)
  BY <1>2 DEF got, v
<1> HIDE DEF b
<1> QED
  BY <1>1, <1>4, <1>5, <1>6, <1>7, TopShape, SameLayoutPush, BecomeLayout

\* The source's value of a variable after an assignment at offset o of it.
Updated(v, o, w) == [c \in DOMAIN v |-> IF c - o \in Cells(CellsOf(w))
                                        THEN w[c - o] ELSE v[c]]

LEMMA UpdatedShape ==
  ASSUME NEW v \in Datum, NEW w \in Datum, NEW o
  PROVE  Updated(v, o, w) \in Datum /\ CellsOf(Updated(v, o, w)) = CellsOf(v)
<1>1. /\ DOMAIN v = Cells(CellsOf(v)) /\ CellsOf(v) \in Nat
      /\ v \in [Cells(CellsOf(v)) -> Cell] /\ w \in [Cells(CellsOf(w)) -> Cell]
  BY DatumShape
<1>2. Updated(v, o, w) \in [Cells(CellsOf(v)) -> Cell]
  BY <1>1 DEF Updated
<1> QED
  BY <1>1, <1>2, DatumIntro

LEMMA AssignShape ==
  ASSUME Stacked, Memory, Assign
  PROVE  \E x \in Visible(Top), o \in Offsets :
            LET v == Source(Top, x)
                u == Updated(v, o, Value.want)
                b == SetSource(Top, Level(Top, x), x, u)
            IN  /\ CellsOf(Value.want) + o <= CellsOf(v)
                /\ mem' = Put(mem, At(Top, x), Value.got)
                /\ Become(Pop(b))
                /\ b \in Activation /\ b.regs = Top.regs /\ SameLayout(Top, b)
                /\ Len(b.scopes) = Len(Top.scopes)
                /\ Pop(b) \in Activation /\ Frame(b, Pop(b))
                /\ Pop(b).scopes = b.scopes /\ SameLayout(Top, Pop(b))
                /\ Len(Pop(b).regs) = Len(Top.regs) - 1
                /\ \A k \in 1 .. Len(Top.regs) - 1 : Pop(b).regs[k] = Top.regs[k]
<1>1. PICK x \in Visible(Top), o \in Offsets :
         /\ CellsOf(Value.want) + o <= CellsOf(Source(Top, x))
         /\ mem' = Put(mem, At(Top, x), Value.got)
         /\ Become(Pop(SetSource(Top, Level(Top, x), x,
                                 Updated(Source(Top, x), o, Value.want))))
  BY DEF Assign, Updated
<1> DEFINE v == Source(Top, x)
           u == Updated(v, o, Value.want)
           n == Level(Top, x)
           b == SetSource(Top, n, x, u)
<1>2. Top \in Activation /\ Tidy(Top)
  BY TopShape
<1>3. /\ n \in 1 .. Len(Top.scopes) /\ x \in DOMAIN Top.scopes[n]
      /\ v = Top.scopes[n][x] /\ v \in Datum
  BY <1>2, VisibleShape
<1>4. u \in Datum /\ CellsOf(u) = CellsOf(v)
  BY <1>3, ValueShape, UpdatedShape DEF Assign
<1> HIDE DEF n, u, v
<1>5. /\ b \in Activation /\ Frame(Top, b) /\ b.regs = Top.regs
      /\ Len(b.scopes) = Len(Top.scopes)
  BY <1>2, <1>3, <1>4, SetSourceShape
<1>6. SameLayout(Top, b)
  BY <1>2, <1>3, <1>4, SameLayoutSet
<1> HIDE DEF b
<1>7. Top.regs # << >>
  BY DEF Assign, HasValue
<1>8. /\ Pop(b) \in Activation /\ Frame(b, Pop(b)) /\ Pop(b).scopes = b.scopes
      /\ Len(Pop(b).regs) = Len(Top.regs) - 1
      /\ \A k \in 1 .. Len(Top.regs) - 1 : Pop(b).regs[k] = Top.regs[k]
  BY <1>5, <1>7, PopShape
<1>9. SameLayout(Top, Pop(b))
  BY <1>6, <1>8 DEF SameLayout, Frame
<1> QED
  BY <1>1, <1>5, <1>6, <1>8, <1>9 DEF b, n, u, v

LEMMA AssignLayout == Layout /\ Assign => Layout'
<1> SUFFICES ASSUME Layout, Assign PROVE Layout'
  OBVIOUS
<1>1. Stacked /\ Memory
  BY DEF Layout
<1>2. PICK x \in Visible(Top), b \in Activation :
         /\ mem' = Put(mem, At(Top, x), Value.got)
         /\ Become(b) /\ SameLayout(Top, b) /\ Len(b.scopes) = Len(Top.scopes)
  BY <1>1, AssignShape
<1>3. UNCHANGED <<sp, ptr, nlits, bounds>>
  BY DEF Assign, counts
<1>4. Memory'
  <2>1. At(Top, x) \in Nat
    BY <1>1, TopShape, VisibleShape
  <2>2. Value.got \in Datum
    BY <1>1, ValueShape DEF Assign
  <2>3. mem' \in [Cells(bounds.cells) -> Cell]
    BY <1>1, <1>2, <2>1, <2>2, BoundsShape, PutIsMemory DEF Memory
  <2> QED
    BY <1>1, <1>3, <2>3 DEF Memory
<1> QED
  BY <1>2, <1>3, <1>4, BecomeLayout

LEMMA AddressLayout == Layout /\ TakeAddress => Layout'
<1> SUFFICES ASSUME Layout, TakeAddress PROVE Layout'
  OBVIOUS
<1>1. Stacked /\ Memory
  BY DEF Layout
<1>2. UNCHANGED <<calls, mem, sp, nlits, bounds>>
  BY DEF TakeAddress, counts
<1>3. PICK x \in Visible(Top) :
         ptr' = [depth |-> Depth, level |-> Level(Top, x), name |-> x,
                 at |-> At(Top, x)]
  BY DEF TakeAddress
<1>4. /\ Depth \in 1 .. Depth /\ Top = calls[Depth]
      /\ Level(Top, x) \in 1 .. Len(Top.scopes)
      /\ x \in DOMAIN Top.scopes[Level(Top, x)]
  BY <1>1, TopShape, VisibleShape
<1>5. /\ ptr'.depth = Depth /\ ptr'.level = Level(Top, x) /\ ptr'.name = x
      /\ ptr'.at = At(Top, x)
  BY <1>3
<1>6. Pointed'
  BY <1>2, <1>4, <1>5 DEF Pointed, Depth
<1>7. Stacked' /\ Memory'
  BY <1>1, <1>2 DEF Stacked, Memory, Depth, Top, Tidy
<1> QED
  BY <1>6, <1>7 DEF Layout

LEMMA TempLayout == Layout /\ UseTemp => Layout'
<1> SUFFICES ASSUME Layout, UseTemp PROVE Layout'
  OBVIOUS
<1>1. Stacked /\ Memory /\ HasValue
  BY DEF Layout, UseTemp
<1>2. /\ mem' = Put(mem, At(Top, NONE), Value.got) /\ Become(Pop(Top))
      /\ UNCHANGED <<sp, ptr, nlits, bounds>>
  BY DEF UseTemp, counts
<1>3. Top \in Activation /\ Top.regs # << >>
  BY <1>1, TopShape DEF HasValue
<1>4. /\ Pop(Top) \in Activation /\ Frame(Top, Pop(Top))
      /\ Pop(Top).scopes = Top.scopes
  BY <1>3, PopShape
<1>5. At(Top, NONE) \in Nat
  BY <1>3, ActivationShape DEF At, Slot
<1>6. mem' \in [Cells(bounds.cells) -> Cell]
  BY <1>1, <1>2, <1>5, ValueShape, BoundsShape, PutIsMemory DEF Memory
<1>7. Memory'
  BY <1>1, <1>2, <1>6 DEF Memory
<1> QED
  BY <1>2, <1>3, <1>4, <1>7, SameLayoutPush, BecomeLayout

\* A step that changes the values of several activations, and no layout.
LEMMA LayoutKept ==
  ASSUME Layout, calls' \in Seq(Activation), Depth' = Depth,
         \A d \in 1 .. Depth : /\ SameLayout(calls[d], calls'[d])
                               /\ Len(calls'[d].scopes) = Len(calls[d].scopes),
         Memory', UNCHANGED <<sp, ptr, bounds>>
  PROVE  Layout'
<1>1. Stacked /\ Pointed
  BY DEF Layout
<1>2. /\ Depth \in Nat /\ Depth \in 1 .. Depth /\ Len(calls') = Depth
      /\ \A d \in 1 .. Depth : calls[d] \in Activation
      /\ \A d \in 1 .. Depth : calls'[d] \in Activation
  <2>1. Len(calls') = Depth
    BY DEF Depth
  <2> QED
    BY <1>1, <2>1, TopShape
<1>3. ASSUME NEW d \in 1 .. Depth
      PROVE  /\ Len(calls[d].scopes) \in Nat
             /\ Len(calls'[d].scopes) = Len(calls[d].scopes)
             /\ Frame(calls[d], calls'[d])
             /\ calls'[d].scopes # << >> /\ Tidy(calls'[d])
  <2>1. /\ Len(calls[d].scopes) \in Nat /\ calls[d].scopes \in Seq(Scope)
        /\ calls'[d].scopes \in Seq(Scope)
    BY <1>2, ActivationShape
  <2>2. Tidy(calls[d]) /\ calls[d].scopes # << >>
    BY <1>1 DEF Stacked
  <2>3. Tidy(calls'[d])
    BY <2>1, <2>2, SameLayoutTidy
  <2> QED
    BY <2>1, <2>2, <2>3 DEF SameLayout
<1>4. Stacked'
  <2>1. \A d \in 1 .. Depth :
           /\ calls'[d].base = calls[d].base
           /\ calls'[d].scopes # << >> /\ Tidy(calls'[d])
           /\ d # Depth => calls'[d].stackn = calls[d].stackn
    BY <1>3 DEF Frame
  <2>2. calls'[Depth].base + calls'[Depth].stackn <= bounds.cells
    BY <1>1, <1>2, <1>3 DEF Frame, Stacked
  <2> QED
    BY <1>1, <2>1, <2>2, StackedKept
<1>5. Pointed'
  <2>1. \A d \in 1 .. Depth :
           /\ calls'[d].base = calls[d].base
           /\ Len(calls'[d].scopes) \in Nat
           /\ Len(calls[d].scopes) <= Len(calls'[d].scopes)
           /\ \A n \in 1 .. Len(calls[d].scopes) :
                 \A x \in DOMAIN calls[d].scopes[n] :
                    /\ x \in DOMAIN calls'[d].scopes[n]
                    /\ Slot(calls'[d], x) = Slot(calls[d], x)
    BY <1>3 DEF SameLayout, Frame, Slot
  <2> QED
    BY <1>1, <1>2, <2>1, PointedKept
<1> QED
  BY <1>4, <1>5 DEF Layout

\* The activations once the running one has used its last value.
Popped(d) == IF d = Depth THEN Pop(calls[d]) ELSE calls[d]

LEMMA ThroughShape ==
  ASSUME Layout, StoreThrough
  PROVE  LET d == ptr.depth
             n == ptr.level
             x == ptr.name
         IN  /\ calls' \in Seq(Activation) /\ Depth' = Depth
             /\ \A k \in 1 .. Depth :
                   /\ Popped(k) \in Activation /\ Frame(calls[k], Popped(k))
                   /\ Popped(k).scopes = calls[k].scopes
                   /\ calls'[k] = IF k = d
                                  THEN SetSource(Popped(k), n, x, Value.want)
                                  ELSE Popped(k)
                   /\ SameLayout(calls[k], calls'[k])
                   /\ Len(calls'[k].scopes) = Len(calls[k].scopes)
             /\ d \in 1 .. Depth /\ n \in 1 .. Len(calls[d].scopes)
             /\ x \in DOMAIN calls[d].scopes[n]
             /\ CellsOf(Value.want) = CellsOf(calls[d].scopes[n][x])
             /\ ptr.at = calls[d].base + calls[d].locals[x] /\ ptr.at \in Nat
             /\ calls[d].locals[x] \in Nat
             /\ mem' = Put(mem, ptr.at, Value.got)
<1> DEFINE d == ptr.depth
           n == ptr.level
           x == ptr.name
           w == Value.want
           popped == [calls EXCEPT ![Depth] = Pop(@)]
<1>1. Stacked /\ Pointed /\ HasValue /\ ptr # NONE
  BY DEF Layout, StoreThrough
<1>2. /\ d \in 1 .. Depth /\ n \in 1 .. Len(calls[d].scopes)
      /\ x \in DOMAIN calls[d].scopes[n] /\ ptr.at = At(calls[d], x)
  BY <1>1 DEF Pointed
<1>3. /\ calls \in Seq(Activation) /\ Depth \in 1 .. Len(calls) /\ Depth = Len(calls)
      /\ Top = calls[Depth] /\ Top.regs # << >>
      /\ \A k \in 1 .. Depth : calls[k] \in Activation /\ Tidy(calls[k])
  BY <1>1, TopShape DEF Stacked, Depth, HasValue
<1>4. /\ Pop(Top) \in Activation /\ Frame(Top, Pop(Top))
      /\ Pop(Top).scopes = Top.scopes
  BY <1>3, PopShape
<1>5. /\ popped \in Seq(Activation) /\ Len(popped) = Depth
      /\ \A k \in 1 .. Depth : popped[k] = Popped(k)
  <2>1. popped = [calls EXCEPT ![Depth] = Pop(Top)]
    BY <1>3
  <2> QED
    BY <1>3, <1>4, <2>1, ReplaceShape DEF Popped
<1>6. ASSUME NEW k \in 1 .. Depth
      PROVE  /\ Popped(k) \in Activation /\ Frame(calls[k], Popped(k))
             /\ Popped(k).scopes = calls[k].scopes
  BY <1>3, <1>4 DEF Popped, Frame
<1>7. /\ mem' = Put(mem, ptr.at, Value.got)
      /\ calls' = [popped EXCEPT ![d] = SetSource(@, n, x, w)]
      /\ DOMAIN w = DOMAIN calls[d].scopes[n][x]
  BY DEF StoreThrough
<1>8. w \in Datum /\ CellsOf(w) = CellsOf(calls[d].scopes[n][x])
  BY <1>1, <1>7, ValueShape DEF CellsOf
<1> HIDE DEF popped, w, d, n, x
<1>9. /\ SetSource(Popped(d), n, x, w) \in Activation
      /\ SameLayout(Popped(d), SetSource(Popped(d), n, x, w))
      /\ Len(SetSource(Popped(d), n, x, w).scopes) = Len(Popped(d).scopes)
  <2>1. PICK a \in Activation : a = Popped(d)
    BY <1>2, <1>6
  <2>2. n \in 1 .. Len(a.scopes) /\ x \in DOMAIN a.scopes[n]
        /\ CellsOf(w) = CellsOf(a.scopes[n][x])
    BY <1>2, <1>6, <1>8, <2>1
  <2>3. SameLayout(a, SetSource(a, n, x, w))
    BY <1>8, <2>2, SameLayoutSet
  <2>4. /\ SetSource(a, n, x, w) \in Activation
        /\ Len(SetSource(a, n, x, w).scopes) = Len(a.scopes)
    BY <1>8, <2>2, SetSourceShape
  <2> QED
    BY <2>1, <2>3, <2>4
<1>10. /\ calls' \in Seq(Activation) /\ Len(calls') = Depth
       /\ \A k \in 1 .. Depth : calls'[k] = IF k = d
                                            THEN SetSource(Popped(k), n, x, w)
                                            ELSE Popped(k)
  <2>1. PICK a \in Activation : a = SetSource(Popped(d), n, x, w)
    BY <1>9
  <2>2. popped[d] = Popped(d)
    BY <1>2, <1>5
  <2>3. calls' = [popped EXCEPT ![d] = a]
    BY <1>7, <2>1, <2>2
  <2>4. /\ [popped EXCEPT ![d] = a] \in Seq(Activation)
        /\ Len([popped EXCEPT ![d] = a]) = Len(popped)
        /\ \A k \in 1 .. Len(popped) :
              [popped EXCEPT ![d] = a][k] = IF k = d THEN a ELSE popped[k]
    BY <1>2, <1>5, ReplaceShape
  <2> QED
    BY <1>5, <2>1, <2>3, <2>4
<1>11. ASSUME NEW k \in 1 .. Depth
       PROVE  /\ SameLayout(calls[k], calls'[k])
              /\ Len(calls'[k].scopes) = Len(calls[k].scopes)
  <2>1. /\ SameLayout(calls[k], Popped(k))
        /\ Len(Popped(k).scopes) = Len(calls[k].scopes)
    BY <1>3, <1>6, SameLayoutPush
  <2>2. CASE k # d
    BY <1>10, <2>1, <2>2
  <2>3. CASE k = d
    <3>1. calls'[k] = SetSource(Popped(d), n, x, w)
      BY <1>10, <2>3
    <3> QED
      BY <1>6, <1>9, <2>1, <2>3, <3>1 DEF SameLayout, Frame
  <2> QED
    BY <2>2, <2>3
<1>12. /\ ptr.at = calls[d].base + calls[d].locals[x] /\ ptr.at \in Nat
       /\ calls[d].locals[x] \in Nat
  <2>1. PICK a \in Activation : a = calls[d] /\ Tidy(a)
    BY <1>2, <1>3
  <2>2. x \in DOMAIN a.locals /\ a.locals[x] \in Nat /\ a.base \in Nat
    BY <1>2, <2>1, VariableShape, ActivationShape DEF Tidy, Slotted
  <2> QED
    BY <1>2, <2>1, <2>2 DEF At, Slot
<1>13. Depth' = Depth
  BY <1>10 DEF Depth
<1> QED
  BY <1>2, <1>6, <1>7, <1>8, <1>10, <1>11, <1>12, <1>13 DEF d, n, x, w

LEMMA ThroughLayout == Layout /\ StoreThrough => Layout'
<1> SUFFICES ASSUME Layout, StoreThrough PROVE Layout'
  OBVIOUS
<1>1. /\ calls' \in Seq(Activation) /\ Depth' = Depth
      /\ \A k \in 1 .. Depth : /\ SameLayout(calls[k], calls'[k])
                               /\ Len(calls'[k].scopes) = Len(calls[k].scopes)
      /\ ptr.at \in Nat /\ mem' = Put(mem, ptr.at, Value.got)
  BY ThroughShape
<1>2. UNCHANGED <<sp, ptr, nlits, bounds>> /\ HasValue
  BY DEF StoreThrough, counts
<1>3. Value.got \in Datum /\ Memory
  BY <1>2, ValueShape DEF Layout
<1>4. mem' \in [Cells(bounds.cells) -> Cell]
  BY <1>1, <1>3, BoundsShape, PutIsMemory DEF Memory
<1>5. Memory'
  BY <1>2, <1>3, <1>4 DEF Memory
<1> QED
  BY <1>1, <1>2, <1>5, LayoutKept

\* A call that passes args: the caller without them, and the callee.
Caller(k) == [Top EXCEPT !.regs = SubSeq(@, 1, Len(@) - k)]
Called(k, va, args, params) ==
    LET c == Caller(k)
        f == FrameTop(Top)
        e == Entry(f, args, params, va)
    IN  /\ Len(args) = k /\ IsInjective(params)
        /\ \A n \in 1 .. k : \E j \in 1 .. Len(Top.regs) : args[n] = Top.regs[j]
        /\ f \in Nat /\ f = Top.base + Top.stackn
        /\ f + Reserved(args, va) <= bounds.cells
        /\ c \in Activation /\ Frame(Top, c) /\ c.scopes = Top.scopes
        /\ Len(c.regs) = Len(Top.regs) - k
        /\ \A n \in 1 .. Len(Top.regs) - k : c.regs[n] = Top.regs[n]
        /\ e \in Activation /\ mem' = Passed(mem, f, args) /\ sp' = f
        /\ calls' \in Seq(Activation) /\ calls' # << >>
        /\ Depth' = Depth + 1 /\ calls'[Depth + 1] = e
        /\ \A d \in 1 .. Depth : calls'[d] = IF d = Depth THEN c ELSE calls[d]

LEMMA CallShape ==
  ASSUME Layout, Call
  PROVE  \E k \in 0 .. Len(Top.regs), va \in BOOLEAN :
         \E args \in Seq(Reg), params \in [1 .. k -> Name] :
            Called(k, va, args, params)
<1>1. PICK k \in 0 .. Len(Top.regs), va \in BOOLEAN :
      \E params \in [1 .. k -> Name] :
         LET args   == Args(Top, k)
             caller == Caller(k)
         IN  /\ IsInjective(params)
             /\ Fits(FrameTop(Top), Reserved(args, va))
             /\ mem' = Passed(mem, FrameTop(Top), args)
             /\ sp' = FrameTop(Top)
             /\ calls' = Append([calls EXCEPT ![Depth] = caller],
                                Entry(sp', args, params, va))
  BY DEF Call, Caller
<1> DEFINE args == Args(Top, k)
           c == Caller(k)
           f == FrameTop(Top)
<1>2. PICK params \in [1 .. k -> Name] :
         /\ IsInjective(params) /\ Fits(f, Reserved(args, va))
         /\ mem' = Passed(mem, f, args) /\ sp' = f
         /\ calls' = Append([calls EXCEPT ![Depth] = c],
                            Entry(f, args, params, va))
  BY <1>1
<1> DEFINE e == Entry(f, args, params, va)
<1>3. Stacked
  BY DEF Layout
<1>4. /\ calls \in Seq(Activation) /\ Depth \in 1 .. Len(calls) /\ Depth = Len(calls)
      /\ Top \in Activation
  BY <1>3, TopShape DEF Stacked, Depth
<1>5. Top.regs \in Seq(Reg) /\ Len(Top.regs) \in Nat /\ f \in Nat /\ k \in Nat
      /\ f = Top.base + Top.stackn
  BY <1>4, ActivationShape DEF FrameTop
<1>6. /\ args \in Seq(Reg) /\ Len(args) = k
      /\ \A n \in 1 .. k : \E j \in 1 .. Len(Top.regs) : args[n] = Top.regs[j]
  <2> DEFINE l == Len(Top.regs)
  <2>1. l - k + 1 \in 1 .. l + 1 /\ l \in (l - k + 1) - 1 .. l
    BY <1>5
  <2>2. /\ args \in Seq(Reg) /\ Len(args) = l - (l - k + 1) + 1
        /\ \A n \in 1 .. l - (l - k + 1) + 1 :
              args[n] = Top.regs[(l - k + 1) + n - 1]
    BY <1>5, <2>1, SubSeqShape, Zenon DEF Args
  <2> HIDE DEF args
  <2>3. l - (l - k + 1) + 1 = k
    BY <1>5
  <2>4. \A n \in 1 .. k : (l - k + 1) + n - 1 \in 1 .. l
    BY <1>5
  <2> QED
    BY <2>2, <2>3, <2>4
<1>7. /\ c \in Activation /\ Frame(Top, c) /\ c.scopes = Top.scopes
      /\ Len(c.regs) = Len(Top.regs) - k
      /\ \A n \in 1 .. Len(Top.regs) - k : c.regs[n] = Top.regs[n]
  <2> DEFINE r == Len(Top.regs) - k
  <2>1. r \in 0 .. Len(Top.regs)
    BY <1>5
  <2>2. c = [Top EXCEPT !.regs = SubSeq(@, 1, r)]
    BY <1>4 DEF Activation, Caller
  <2> HIDE DEF r, c
  <2>3. /\ c \in Activation /\ Frame(Top, c) /\ c.scopes = Top.scopes
        /\ Len(c.regs) = r /\ \A n \in 1 .. r : c.regs[n] = Top.regs[n]
    BY <1>4, <2>1, <2>2, DropShape
  <2> QED
    BY <2>3 DEF r
<1> HIDE DEF args, c, f
<1>8. e \in Activation
  BY <1>2, <1>5, <1>6, EntryShape
<1> HIDE DEF e
<1>9. /\ calls' \in Seq(Activation) /\ calls' # << >>
      /\ Len(calls') = Depth + 1 /\ calls'[Depth + 1] = e
      /\ \A d \in 1 .. Depth : calls'[d] = IF d = Depth THEN c ELSE calls[d]
  <2> DEFINE q == [calls EXCEPT ![Depth] = c]
  <2>1. /\ q \in Seq(Activation) /\ Len(q) = Depth
        /\ \A d \in 1 .. Depth : q[d] = IF d = Depth THEN c ELSE calls[d]
    BY <1>4, <1>7, ReplaceShape
  <2>2. calls' = Append(q, e)
    BY <1>2 DEF e
  <2> HIDE DEF q
  <2>3. /\ Append(q, e) \in Seq(Activation) /\ Len(Append(q, e)) = Len(q) + 1
        /\ Append(q, e)[Len(q) + 1] = e /\ Append(q, e) # << >>
        /\ \A d \in 1 .. Len(q) : Append(q, e)[d] = q[d]
    BY <1>8, <2>1, AppendShape
  <2> QED
    BY <2>1, <2>2, <2>3
<1>10. Depth' = Depth + 1
  BY <1>9 DEF Depth
<1>11. f + Reserved(args, va) <= bounds.cells
  BY <1>2 DEF Fits
<1> QED
  BY <1>2, <1>5, <1>6, <1>7, <1>8, <1>9, <1>10, <1>11 DEF Called, args, c, e, f

LEMMA CallLayout == Layout /\ Call => Layout'
<1> SUFFICES ASSUME Layout, Call PROVE Layout'
  OBVIOUS
<1> DEFINE f == FrameTop(Top)
<1>1. Stacked /\ Pointed /\ Memory
  BY DEF Layout
<1>0. PICK k \in 0 .. Len(Top.regs), va \in BOOLEAN :
      \E args \in Seq(Reg), params \in [1 .. k -> Name] : Called(k, va, args, params)
  BY CallShape
<1>2. PICK args \in Seq(Reg), params \in [1 .. k -> Name] : Called(k, va, args, params)
  BY <1>0
<1> DEFINE c == Caller(k)
           e == Entry(f, args, params, va)
<1>3. /\ Len(args) = k /\ IsInjective(params)
      /\ f \in Nat /\ f = Top.base + Top.stackn
      /\ f + Reserved(args, va) <= bounds.cells
      /\ c \in Activation /\ Frame(Top, c) /\ c.scopes = Top.scopes
      /\ e \in Activation /\ mem' = Passed(mem, f, args) /\ sp' = f
      /\ calls' \in Seq(Activation) /\ calls' # << >>
      /\ Depth' = Depth + 1 /\ calls'[Depth + 1] = e
      /\ \A d \in 1 .. Depth : calls'[d] = IF d = Depth THEN c ELSE calls[d]
  BY <1>2 DEF Called
<1> HIDE DEF c, f
<1>4. /\ Depth \in Nat /\ Depth \in 1 .. Depth /\ Top = calls[Depth]
      /\ Top \in Activation /\ Tidy(Top) /\ Top.scopes # << >>
      /\ Top.base + Top.stackn <= bounds.cells
      /\ \A d \in 1 .. Depth : calls[d] \in Activation
  BY <1>1, TopShape
<1>5. UNCHANGED <<ptr, nlits, bounds>>
  BY DEF Call, counts
<1>6. e.base = f /\ e.stackn = Reserved(args, va) /\ Len(e.scopes) = 1 /\ Tidy(e)
  BY <1>3, EntryShape, EntryTidy
<1> HIDE DEF e
<1>7. Tidy(c)
  <2>1. SameLayout(Top, c)
    BY <1>3, <1>4, SameLayoutPush
  <2>2. Len(Top.scopes) \in Nat /\ Len(c.scopes) \in Nat
    BY <1>3, <1>4, ActivationShape
  <2> QED
    BY <1>4, <2>1, <2>2, SameLayoutTidy
<1>8. \A d \in 1 .. Depth : /\ calls'[d].base = calls[d].base
                            /\ calls'[d].stackn = calls[d].stackn
                            /\ calls'[d].locals = calls[d].locals
                            /\ calls'[d].scopes = calls[d].scopes
                            /\ Tidy(calls'[d])
  BY <1>1, <1>3, <1>4, <1>7 DEF Frame, Stacked
<1>9. \A d \in 1 .. Depth' : d \in 1 .. Depth \/ d = Depth + 1
  BY <1>3, <1>4
<1>10. Stacked'
  <2>1. ASSUME NEW d \in 1 .. Depth'
        PROVE  /\ calls'[d].scopes # << >> /\ Tidy(calls'[d])
               /\ calls'[d].base + calls'[d].stackn <= bounds.cells
    <3>1. CASE d \in 1 .. Depth
      BY <3>1, <1>1, <1>8 DEF Stacked
    <3>2. CASE d = Depth + 1
      <4>1. calls'[d] = e
        BY <1>3, <3>2
      <4>2. e.scopes \in Seq(Scope)
        BY <1>3, ActivationShape
      <4>3. e.scopes # << >>
        <5>1. Len(e.scopes) = 1
          BY <1>6
        <5>2. \A q : q = << >> => Len(q) # 1
          OBVIOUS
        <5> QED
          BY <5>1, <5>2
      <4> QED
        BY <1>3, <1>6, <4>1, <4>3
    <3> QED
      BY <3>1, <3>2, <1>9
  <2>2. \A d \in 1 .. Depth : calls[d].base + calls[d].stackn <= f
    <3> SUFFICES ASSUME NEW d \in 1 .. Depth
                 PROVE  calls[d].base + calls[d].stackn <= f
      OBVIOUS
    <3>1. CASE d = Depth
      BY <1>3, <1>4, <3>1
    <3>2. CASE d # Depth
      <4>1. calls[d].base + calls[d].stackn <= Top.base
        BY <1>1, <1>4, <3>2 DEF Stacked
      <4>2. /\ calls[d].base \in Nat /\ calls[d].stackn \in Nat
            /\ Top.base \in Nat /\ Top.stackn \in Nat
        BY <1>4, ActivationShape
      <4>3. f = Top.base + Top.stackn
        BY <1>3
      <4> QED
        BY <4>1, <4>2, <4>3
    <3> QED
      BY <3>1, <3>2
  <2>3. ASSUME NEW d \in 1 .. Depth', NEW j \in 1 .. Depth', d < j
        PROVE  calls'[d].base + calls'[d].stackn <= calls'[j].base
    <3>1. d \in 1 .. Depth
      BY <1>3, <1>4, <2>3
    <3>2. CASE j \in 1 .. Depth
      BY <1>1, <1>8, <2>3, <3>1, <3>2 DEF Stacked
    <3>3. CASE j = Depth + 1
      BY <1>3, <1>6, <1>8, <2>2, <3>1, <3>3
    <3> QED
      BY <3>2, <3>3, <1>9
  <2>4. sp' = Top'.base
    <3>1. Len(calls') = Depth + 1
      BY <1>3 DEF Depth
    <3>2. Top' = e
      BY <1>3, <3>1 DEF Top, Last
    <3> QED
      BY <1>3, <1>6, <3>2
  <2>5. bounds' = bounds
    BY <1>5
  <2> QED
    BY <1>3, <2>1, <2>3, <2>4, <2>5 DEF Stacked
<1>11. Pointed'
  <2>1. \A d \in 1 .. Depth :
           /\ calls'[d].base = calls[d].base
           /\ Len(calls'[d].scopes) \in Nat
           /\ Len(calls[d].scopes) <= Len(calls'[d].scopes)
           /\ \A n \in 1 .. Len(calls[d].scopes) :
                 \A x \in DOMAIN calls[d].scopes[n] :
                    /\ x \in DOMAIN calls'[d].scopes[n]
                    /\ Slot(calls'[d], x) = Slot(calls[d], x)
    <3>1. \A d \in 1 .. Depth : Len(calls[d].scopes) \in Nat
      BY <1>4, ActivationShape
    <3> QED
      BY <1>8, <3>1 DEF Slot
  <2>2. Depth' \in Nat /\ Depth <= Depth'
    BY <1>3, <1>4
  <2> QED
    BY <1>1, <1>5, <2>1, <2>2, PointedKept
<1>12. Memory'
  <2>1. mem' \in [Cells(bounds.cells) -> Cell]
    BY <1>1, <1>3, BoundsShape, PassedIsMemory DEF Memory
  <2> QED
    BY <1>1, <1>5, <2>1 DEF Memory
<1> QED
  BY <1>10, <1>11, <1>12 DEF Layout

\* A step that leaves the running activation for the one that called it.
LEMMA LeaveLayout ==
  ASSUME Layout, Depth > 1, calls' \in Seq(Activation), Depth' = Depth - 1,
         \A d \in 1 .. Depth - 1 : /\ SameLayout(calls[d], calls'[d])
                                   /\ Len(calls'[d].scopes) = Len(calls[d].scopes),
         sp' = calls[Depth - 1].base,
         ptr' = IF ptr # NONE /\ ptr.depth = Depth THEN NONE ELSE ptr,
         Memory', bounds' = bounds
  PROVE  Layout'
<1>1. Stacked /\ Pointed
  BY DEF Layout
<1>2. /\ Depth \in Nat /\ Depth - 1 \in 1 .. Depth - 1
      /\ \A d \in 1 .. Depth - 1 : d \in 1 .. Depth
      /\ \A d \in 1 .. Depth : calls[d] \in Activation
      /\ Len(calls') = Depth - 1
      /\ \A d \in 1 .. Depth - 1 : calls'[d] \in Activation
  <2>1. Len(calls') = Depth - 1
    BY DEF Depth
  <2>2. Depth \in Nat /\ \A d \in 1 .. Depth : calls[d] \in Activation
    BY <1>1, TopShape
  <2> QED
    BY <2>1, <2>2
<1>3. ASSUME NEW d \in 1 .. Depth - 1
      PROVE  /\ Len(calls[d].scopes) \in Nat
             /\ Len(calls'[d].scopes) = Len(calls[d].scopes)
             /\ Frame(calls[d], calls'[d])
             /\ calls'[d].scopes # << >> /\ Tidy(calls'[d])
  <2>1. /\ Len(calls[d].scopes) \in Nat /\ calls[d].scopes \in Seq(Scope)
        /\ calls'[d].scopes \in Seq(Scope)
    BY <1>2, ActivationShape
  <2>2. Tidy(calls[d]) /\ calls[d].scopes # << >>
    BY <1>1, <1>2 DEF Stacked
  <2>3. Tidy(calls'[d])
    BY <2>1, <2>2, SameLayoutTidy
  <2>4. calls'[d].scopes # << >>
    BY <2>1, <2>2, EmptySeq
  <2> QED
    BY <2>1, <2>3, <2>4 DEF SameLayout
<1>4. Stacked'
  <2>1. \A d \in 1 .. Depth - 1 :
           calls'[d].base + calls'[d].stackn <= bounds'.cells
    BY <1>1, <1>2, <1>3 DEF Stacked, Frame
  <2>2. \A d, e \in 1 .. Depth - 1 :
           d < e => calls'[d].base + calls'[d].stackn <= calls'[e].base
    BY <1>1, <1>2, <1>3 DEF Stacked, Frame
  <2>3. calls' # << >> /\ sp' = Top'.base
    <3>1. Top' = calls'[Depth - 1]
      BY <1>2 DEF Top, Last
    <3>2. calls' # << >>
      BY <1>2, EmptySeq
    <3> QED
      BY <1>2, <1>3, <3>1, <3>2 DEF Frame
  <2> QED
    BY <1>3, <2>1, <2>2, <2>3 DEF Stacked
<1>5. Pointed'
  <2> SUFFICES ASSUME ptr' # NONE
               PROVE  /\ ptr'.depth \in 1 .. Depth'
                      /\ ptr'.level \in 1 .. Len(calls'[ptr'.depth].scopes)
                      /\ ptr'.name \in DOMAIN calls'[ptr'.depth].scopes[ptr'.level]
                      /\ ptr'.at = At(calls'[ptr'.depth], ptr'.name)
    BY DEF Pointed
  <2>1. ptr' = ptr /\ ptr # NONE /\ ptr.depth # Depth
    OBVIOUS
  <2>2. /\ ptr.depth \in 1 .. Depth
        /\ ptr.level \in 1 .. Len(calls[ptr.depth].scopes)
        /\ ptr.name \in DOMAIN calls[ptr.depth].scopes[ptr.level]
        /\ ptr.at = At(calls[ptr.depth], ptr.name)
    BY <1>1, <2>1 DEF Pointed
  <2>3. ptr.depth \in 1 .. Depth - 1
    BY <1>2, <2>1, <2>2
  <2>4. /\ At(calls'[ptr.depth], ptr.name) = At(calls[ptr.depth], ptr.name)
        /\ Len(calls'[ptr.depth].scopes) = Len(calls[ptr.depth].scopes)
        /\ DOMAIN calls'[ptr.depth].scopes[ptr.level]
              = DOMAIN calls[ptr.depth].scopes[ptr.level]
    BY <1>3, <2>2, <2>3 DEF At, Slot, SameLayout, Frame
  <2> QED
    BY <2>1, <2>2, <2>3, <2>4
<1> QED
  BY <1>4, <1>5 DEF Layout

\* The caller has the result, as it was stored above the callee's variables.
LEMMA ReturnShape ==
  ASSUME Layout, Return
  PROVE  LET n   == CellsOf(Value.want)
             at  == Top.base + Top.stackn
             got == Get(mem', at, n)
             b   == Push(calls[Depth - 1], got, Value.want)
         IN  /\ Depth > 1 /\ at \in Nat /\ n \in Nat /\ at + n <= bounds.cells
             /\ mem' = Put(mem, at, Value.got)
             /\ mem' \in [Cells(bounds.cells) -> Cell]
             /\ got = Value.got
             /\ b \in Activation /\ Frame(calls[Depth - 1], b)
             /\ b.scopes = calls[Depth - 1].scopes
             /\ b.regs = Append(calls[Depth - 1].regs,
                                [got |-> Value.got, want |-> Value.want])
             /\ calls' \in Seq(Activation) /\ Depth' = Depth - 1
             /\ \A d \in 1 .. Depth - 1 :
                   calls'[d] = IF d = Depth - 1 THEN b ELSE calls[d]
<1> DEFINE n  == CellsOf(Value.want)
           at == Top.base + Top.stackn
           got == Get(mem', at, n)
           b  == Push(calls[Depth - 1], got, Value.want)
<1>1. Stacked /\ Memory /\ HasValue /\ Depth > 1
  BY DEF Layout, Return
<1>2. /\ at + n <= bounds.cells /\ mem' = Put(mem, at, Value.got)
      /\ calls' = [Front(calls) EXCEPT ![Depth - 1] = b]
  BY DEF Return, ResultAt, Fits
<1>3. /\ Value.got \in Datum /\ Value.want \in Datum /\ n \in Nat
      /\ DOMAIN Value.got = Cells(n) /\ DOMAIN Value.want = Cells(n)
      /\ CellsOf(Value.got) = n
  BY <1>1, ValueShape
<1>4. /\ calls \in Seq(Activation) /\ calls # << >> /\ Depth = Len(calls)
      /\ Depth \in Nat /\ Top \in Activation
      /\ \A d \in 1 .. Depth : calls[d] \in Activation
  BY <1>1, TopShape DEF Stacked, Depth
<1>5. at \in Nat
  BY <1>4, ActivationShape
<1> HIDE DEF at, n
<1>6. /\ mem' \in [Cells(bounds.cells) -> Cell]
      /\ \A c \in DOMAIN Value.got :
            at + c \in Cells(bounds.cells) => mem'[at + c] = Value.got[c]
  <2>1. mem \in [Cells(bounds.cells) -> Cell] /\ bounds.cells \in Nat
    BY <1>1, BoundsShape DEF Memory
  <2>2. PICK v \in Datum : v = Value.got
    BY <1>3
  <2>3. Put(mem, at, v) \in [Cells(bounds.cells) -> Cell]
    BY <1>5, <2>1, PutIsMemory
  <2>4. \A c \in DOMAIN v :
           at + c \in Cells(bounds.cells) => Put(mem, at, v)[at + c] = v[c]
    BY <1>5, <2>1, PutShape
  <2> QED
    BY <1>2, <2>2, <2>3, <2>4
<1>7. got = Value.got
  <2>1. /\ got \in Datum /\ DOMAIN got = Cells(n) /\ CellsOf(got) = n
        /\ \A c \in Cells(n) : got[c] = mem'[at + c]
    BY <1>1, <1>2, <1>3, <1>5, <1>6, BoundsShape, GetShape
  <2>2. \A c \in Cells(n) : at + c \in Cells(bounds.cells)
    BY <1>1, <1>2, <1>3, <1>5, BoundsShape DEF Cells
  <2>3. \A c \in Cells(n) : got[c] = Value.got[c]
    BY <1>3, <1>6, <2>1, <2>2
  <2>4. got \in [Cells(n) -> Cell] /\ Value.got \in [Cells(n) -> Cell]
    BY <1>3, <2>1, DatumShape
  <2> HIDE DEF got
  <2> QED
    BY <2>3, <2>4
<1> HIDE DEF got
<1>8. /\ b \in Activation /\ Frame(calls[Depth - 1], b)
      /\ b.scopes = calls[Depth - 1].scopes
      /\ b.regs = Append(calls[Depth - 1].regs,
                         [got |-> Value.got, want |-> Value.want])
  <2>1. PICK a \in Activation : a = calls[Depth - 1]
    BY <1>1, <1>4
  <2> QED
    BY <1>3, <1>7, <2>1, PushShape
<1> HIDE DEF b
<1>9. /\ calls' \in Seq(Activation) /\ Len(calls') = Depth - 1
      /\ \A d \in 1 .. Depth - 1 :
            calls'[d] = IF d = Depth - 1 THEN b ELSE calls[d]
  <2>1. /\ Front(calls) \in Seq(Activation) /\ Len(Front(calls)) = Depth - 1
        /\ \A d \in 1 .. Depth - 1 : Front(calls)[d] = calls[d]
    BY <1>4, FrontShape
  <2>2. Depth - 1 \in 1 .. Len(Front(calls))
    BY <1>1, <1>4, <2>1
  <2>3. PICK q \in Seq(Activation) : q = Front(calls)
    BY <2>1
  <2>4. /\ [q EXCEPT ![Depth - 1] = b] \in Seq(Activation)
        /\ Len([q EXCEPT ![Depth - 1] = b]) = Len(q)
        /\ \A d \in 1 .. Len(q) :
              [q EXCEPT ![Depth - 1] = b][d] = IF d = Depth - 1 THEN b ELSE q[d]
    BY <1>8, <2>2, <2>3, ReplaceShape
  <2> QED
    BY <1>2, <2>1, <2>3, <2>4
<1>10. Depth' = Depth - 1
  BY <1>9 DEF Depth
<1> QED
  BY <1>1, <1>2, <1>3, <1>5, <1>6, <1>7, <1>8, <1>9, <1>10 DEF at, n, got, b

LEMMA ReturnLayout == Layout /\ Return => Layout'
<1> SUFFICES ASSUME Layout, Return PROVE Layout'
  OBVIOUS
<1>1. Stacked /\ Memory
  BY DEF Layout
<1>2. PICK b \in Activation :
         /\ Depth > 1 /\ mem' \in [Cells(bounds.cells) -> Cell]
         /\ Frame(calls[Depth - 1], b) /\ b.scopes = calls[Depth - 1].scopes
         /\ calls' \in Seq(Activation) /\ Depth' = Depth - 1
         /\ \A d \in 1 .. Depth - 1 :
               calls'[d] = IF d = Depth - 1 THEN b ELSE calls[d]
  BY ReturnShape
<1>3. /\ sp' = calls[Depth - 1].base /\ UNCHANGED <<nlits, bounds>>
      /\ ptr' = IF ptr # NONE /\ ptr.depth = Depth THEN NONE ELSE ptr
  BY DEF Return, counts
<1>4. \A d \in 1 .. Depth - 1 : /\ SameLayout(calls[d], calls'[d])
                                /\ Len(calls'[d].scopes) = Len(calls[d].scopes)
  <2> SUFFICES ASSUME NEW d \in 1 .. Depth - 1
               PROVE  /\ SameLayout(calls[d], calls'[d])
                      /\ Len(calls'[d].scopes) = Len(calls[d].scopes)
    OBVIOUS
  <2>1. calls[d] \in Activation
    BY <1>1, TopShape
  <2>2. calls'[d] \in Activation /\ Frame(calls[d], calls'[d])
        /\ calls'[d].scopes = calls[d].scopes
    BY <1>2, <2>1 DEF Frame
  <2> QED
    BY <2>1, <2>2, SameLayoutPush
<1>5. Memory'
  BY <1>1, <1>2, <1>3 DEF Memory
<1> QED
  BY <1>2, <1>3, <1>4, <1>5, LeaveLayout

LEMMA VoidShape ==
  ASSUME Stacked, ReturnVoid
  PROVE  /\ Depth > 1 /\ calls' \in Seq(Activation) /\ Depth' = Depth - 1
         /\ \A d \in 1 .. Depth - 1 : calls'[d] = calls[d]
<1>1. calls \in Seq(Activation) /\ calls # << >> /\ Depth = Len(calls)
  BY DEF Stacked, Depth
<1>2. calls' = Front(calls) /\ Depth > 1
  BY DEF ReturnVoid
<1>3. /\ calls' \in Seq(Activation) /\ Len(calls') = Depth - 1
      /\ \A d \in 1 .. Depth - 1 : calls'[d] = calls[d]
  BY <1>1, <1>2, FrontShape
<1> QED
  BY <1>2, <1>3 DEF Depth

LEMMA VoidLayout == Layout /\ ReturnVoid => Layout'
<1> SUFFICES ASSUME Layout, ReturnVoid PROVE Layout'
  OBVIOUS
<1>1. Stacked /\ Memory
  BY DEF Layout
<1>2. /\ Depth > 1 /\ calls' \in Seq(Activation) /\ Depth' = Depth - 1
      /\ \A d \in 1 .. Depth - 1 : calls'[d] = calls[d]
  BY <1>1, VoidShape
<1>3. /\ sp' = calls[Depth - 1].base /\ UNCHANGED <<mem, nlits, bounds>>
      /\ ptr' = IF ptr # NONE /\ ptr.depth = Depth THEN NONE ELSE ptr
  BY DEF ReturnVoid, counts
<1>4. \A d \in 1 .. Depth - 1 : /\ SameLayout(calls[d], calls'[d])
                                /\ Len(calls'[d].scopes) = Len(calls[d].scopes)
  BY <1>1, <1>2, TopShape, ActivationShape DEF SameLayout, Frame
<1>5. Memory'
  BY <1>1, <1>3 DEF Memory
<1> QED
  BY <1>2, <1>3, <1>4, <1>5, LeaveLayout

LEMMA LayoutStep == Shadowing = FALSE => (Layout /\ [Next]_vars => Layout')
<1> SUFFICES ASSUME Shadowing = FALSE, Layout, [Next]_vars PROVE Layout'
  OBVIOUS
<1>1. CASE UNCHANGED vars
  BY <1>1 DEF Layout, Stacked, Pointed, Memory, vars, counts, Depth, Top, At,
              Slot, Tidy
<1> QED
  BY <1>1, OpenLayout, CloseLayout, DeclareLayout, LiteralLayout, ReadLayout,
     AssignLayout, AddressLayout, ThroughLayout, TempLayout, CallLayout,
     ReturnLayout, VoidLayout DEF Next

\* In a source without shadowing, every variable of every activation keeps its
\* cells, below the frame of the activation after it, whatever is called.
THEOREM LaidOut == Shadowing = FALSE => (Spec => []Layout)
<1> SUFFICES ASSUME Shadowing = FALSE PROVE Spec => []Layout
  OBVIOUS
<1>1. Init => Layout
  BY LayoutInit
<1>2. Layout /\ [Next]_vars => Layout'
  BY LayoutStep
<1> QED
  BY <1>1, <1>2, PTL DEF Spec

LEMMA LayoutTypes == Layout => TypeOK
<1> SUFFICES ASSUME Layout PROVE TypeOK
  OBVIOUS
<1>1. Stacked /\ Pointed /\ Memory
  BY DEF Layout
<1>2. /\ Depth \in 1 .. Depth /\ Top \in Activation
      /\ \A d \in 1 .. Depth : calls[d] \in Activation
  BY <1>1, TopShape
<1>3. ASSUME NEW d \in 1 .. Depth
      PROVE  LET a == calls[d]
             IN  /\ a.base \in Nat /\ a.stackn \in Nat
                 /\ a.base + a.stackn <= bounds.cells
                 /\ a.scopes # << >>
                 /\ \A x \in DOMAIN a.locals : x \in Name /\ a.locals[x] \in Nat
                 /\ Visible(a) \subseteq DOMAIN a.locals
  <2> DEFINE a == calls[d]
  <2>1. a \in Activation /\ Tidy(a) /\ a.base + a.stackn <= bounds.cells
        /\ a.scopes # << >>
    BY <1>1, <1>2 DEF Stacked
  <2> HIDE DEF a
  <2>2. Visible(a) \subseteq DOMAIN a.locals
    BY <2>1, VisibleShape
  <2>3. /\ a.base \in Nat /\ a.stackn \in Nat
        /\ \A x \in DOMAIN a.locals : x \in Name /\ a.locals[x] \in Nat
    BY <2>1, ActivationShape
  <2> QED
    BY <2>1, <2>2, <2>3 DEF a
<1>4. sp \in Nat
  BY <1>1, <1>2, ActivationShape DEF Stacked
<1>5. ptr # NONE => /\ ptr.depth \in 1 .. Depth
                    /\ ptr.level \in DOMAIN calls[ptr.depth].scopes
                    /\ ptr.name \in DOMAIN calls[ptr.depth].scopes[ptr.level]
  BY <1>1, <1>2, ActivationShape DEF Pointed
<1> QED
  BY <1>1, <1>3, <1>4, <1>5 DEF TypeOK, Stacked, Memory

\* The model of the local variables is well typed: no access leaves the memory,
\* and the pointer never outlives its variable.
THEOREM TypeCorrect == Shadowing = FALSE => (Spec => []TypeOK)
BY LaidOut, LayoutTypes, PTL

LEMMA OwnedShape ==
  ASSUME NEW a \in Activation, Tidy(a), NEW x \in Visible(a), NEW p \in Owned(a, x)
  PROVE  /\ p \in Nat /\ At(a, x) \in Nat /\ CellsOf(Source(a, x)) \in Nat
         /\ At(a, x) <= p /\ p < At(a, x) + CellsOf(Source(a, x))
         /\ a.base <= p /\ p < a.base + a.stackn
<1> DEFINE at == At(a, x)
           n == CellsOf(Source(a, x))
           top == a.base + a.stackn
           base == a.base
<1>1. /\ at \in Nat /\ n \in Nat /\ top \in Nat /\ base \in Nat
      /\ base <= at /\ at + n <= top
      /\ DOMAIN Source(a, x) = Cells(n)
  BY VisibleShape, ActivationShape
<1>2. PICK c \in Cells(n) : p = at + c
  BY <1>1 DEF Owned
<1> HIDE DEF at, n, top, base
<1>3. p \in Nat /\ at <= p /\ p < at + n /\ base <= p /\ p < top
  BY <1>1, <1>2 DEF Cells
<1> QED
  BY <1>1, <1>3 DEF at, n, top, base

LEMMA OwnedApart ==
  ASSUME NEW a \in Activation, Tidy(a), NEW x \in Visible(a), NEW y \in Visible(a),
         x # y
  PROVE  Owned(a, x) \cap Owned(a, y) = {}
<1> SUFFICES ASSUME NEW p \in Owned(a, x), p \in Owned(a, y) PROVE FALSE
  OBVIOUS
<1> DEFINE b == a.base
           lx == a.locals[x]
           ly == a.locals[y]
           nx == CellsOf(Source(a, x))
           ny == CellsOf(Source(a, y))
<1>1. /\ At(a, x) = b + lx /\ At(a, y) = b + ly
      /\ lx \in Nat /\ ly \in Nat /\ nx \in Nat /\ ny \in Nat /\ b \in Nat
  BY VisibleShape, ActivationShape
<1>2. p \in Nat /\ b + lx <= p /\ p < b + lx + nx /\ b + ly <= p /\ p < b + ly + ny
  BY <1>1, OwnedShape
<1>3. lx + nx <= ly \/ ly + ny <= lx
  <2>1. PICK m \in 1 .. Len(a.scopes) :
           x \in DOMAIN a.scopes[m] /\ Source(a, x) = a.scopes[m][x]
    BY VisibleShape
  <2>2. PICK k \in 1 .. Len(a.scopes) :
           y \in DOMAIN a.scopes[k] /\ Source(a, y) = a.scopes[k][y]
    BY VisibleShape
  <2> QED
    BY <2>1, <2>2 DEF Tidy, Separate
<1> HIDE DEF b, lx, ly, nx, ny
<1> QED
  BY <1>1, <1>2, <1>3

LEMMA LayoutApart == Layout => FramesApart
<1> SUFFICES ASSUME Layout PROVE FramesApart
  OBVIOUS
<1>1. Stacked
  BY DEF Layout
<1>2. \A d \in 1 .. Depth : calls[d] \in Activation /\ Tidy(calls[d])
  BY <1>1, TopShape DEF Stacked
<1>3. ASSUME NEW d \in 1 .. Depth, NEW x \in Visible(calls[d])
      PROVE  Owned(calls[d], x)
                \subseteq calls[d].base .. calls[d].base + calls[d].stackn - 1
  <2> SUFFICES ASSUME NEW p \in Owned(calls[d], x)
               PROVE  p \in calls[d].base .. calls[d].base + calls[d].stackn - 1
    OBVIOUS
  <2>1. PICK a \in Activation : a = calls[d] /\ Tidy(a)
    BY <1>2
  <2>2. a.base <= p /\ p < a.base + a.stackn /\ p \in Nat
    BY <2>1, OwnedShape
  <2>3. a.base \in Nat /\ a.stackn \in Nat
    BY ActivationShape
  <2>4. p \in a.base .. a.base + a.stackn - 1
    BY <2>2, <2>3
  <2> QED
    BY <2>1, <2>4
<1>4. ASSUME NEW d \in 1 .. Depth, NEW x \in Visible(calls[d]),
             NEW e \in 1 .. Depth, NEW y \in Visible(calls[e]), d < e
      PROVE  Owned(calls[d], x) \cap Owned(calls[e], y) = {}
  <2> SUFFICES ASSUME NEW p \in Owned(calls[d], x), p \in Owned(calls[e], y)
               PROVE  FALSE
    OBVIOUS
  <2>1. PICK a \in Activation : a = calls[d] /\ Tidy(a)
    BY <1>2
  <2>2. PICK b \in Activation : b = calls[e] /\ Tidy(b)
    BY <1>2
  <2>3. p \in Nat /\ p < a.base + a.stackn /\ b.base <= p
    BY <2>1, <2>2, OwnedShape
  <2>4. a.base + a.stackn <= b.base
    BY <1>1, <1>4, <2>1, <2>2 DEF Stacked
  <2>5. a.base \in Nat /\ a.stackn \in Nat /\ b.base \in Nat
    BY ActivationShape
  <2> QED
    BY <2>3, <2>4, <2>5
<1>5. ASSUME NEW d \in 1 .. Depth, NEW x \in Visible(calls[d]),
             NEW e \in 1 .. Depth, NEW y \in Visible(calls[e]), d # e \/ x # y
      PROVE  Owned(calls[d], x) \cap Owned(calls[e], y) = {}
  <2>1. CASE d = e
    BY <1>2, <1>5, <2>1, OwnedApart
  <2>2. CASE d < e
    BY <1>4, <2>2
  <2>3. CASE e < d
    BY <1>4, <2>3
  <2>4. d = e \/ d < e \/ e < d
    BY <1>1, TopShape
  <2> QED
    BY <2>1, <2>2, <2>3, <2>4
<1> QED
  BY <1>1, <1>3, <1>5 DEF FramesApart, Stacked

\* No two variables alive have a cell in common, however many activations and
\* blocks there are, and the callee finds its base in sp.
THEOREM Apart == Shadowing = FALSE => (Spec => []FramesApart)
BY LaidOut, LayoutApart, PTL

\* The steps that are no store through the pointer
Direct == \/ UNCHANGED vars
          \/ OpenScope \/ CloseScope \/ Declare \/ Literal \/ ReadVar \/ Assign
          \/ TakeAddress \/ UseTemp \/ Call \/ Return \/ ReturnVoid

\* Only a store through the pointer reaches below the running frame.
LEMMA WritesAbove ==
  ASSUME Layout, Direct,
         NEW p \in Cells(bounds.cells), p < Top.base
  PROVE  mem'[p] = mem[p]
<1>1. Stacked /\ Memory /\ bounds.cells \in Nat /\ p \in Nat
  BY BoundsShape DEF Layout, Cells
<1>2. /\ Top \in Activation /\ Tidy(Top) /\ Top.base \in Nat /\ Top.stackn \in Nat
      /\ mem \in [Cells(bounds.cells) -> Cell]
  BY <1>1, TopShape, ActivationShape DEF Memory
<1>3. CASE mem' = mem
  BY <1>3
<1>4. CASE Assign
  <2>1. PICK x \in Visible(Top) : mem' = Put(mem, At(Top, x), Value.got)
    BY <1>4 DEF Assign
  <2>2. At(Top, x) \in Nat /\ Top.base <= At(Top, x)
    BY <1>2, VisibleShape
  <2>3. Value.got \in Datum
    BY <1>1, <1>4, ValueShape DEF Assign
  <2>4. p < At(Top, x)
    BY <1>1, <1>2, <2>2
  <2> QED
    BY <1>1, <1>2, <2>1, <2>2, <2>3, <2>4, PutShape
<1>5. CASE UseTemp
  <2>1. mem' = Put(mem, At(Top, NONE), Value.got) /\ HasValue
    BY <1>5 DEF UseTemp
  <2>2. At(Top, NONE) \in Nat /\ Top.base <= At(Top, NONE)
    BY <1>2, ActivationShape DEF At, Slot
  <2>3. Value.got \in Datum
    BY <1>1, <2>1, ValueShape
  <2>4. p < At(Top, NONE)
    BY <1>1, <1>2, <2>2
  <2> QED
    BY <1>1, <1>2, <2>1, <2>2, <2>3, <2>4, PutShape
<1>6. CASE Call
  <2>1. PICK k \in 0 .. Len(Top.regs), va \in BOOLEAN :
        \E args \in Seq(Reg), params \in [1 .. k -> Name] :
           Called(k, va, args, params)
    BY <1>6, CallShape
  <2>2. PICK args \in Seq(Reg) : \E params \in [1 .. k -> Name] :
           Called(k, va, args, params)
    BY <2>1
  <2>3. /\ mem' = Passed(mem, FrameTop(Top), args) /\ FrameTop(Top) \in Nat
        /\ FrameTop(Top) = Top.base + Top.stackn
    BY <2>2 DEF Called
  <2>4. p < FrameTop(Top)
    BY <1>1, <1>2, <2>3
  <2>5. PICK f \in Nat : f = FrameTop(Top)
    BY <2>3
  <2>6. Passed(mem, f, args)[p] = mem[p]
    <3>1. \A q \in Cells(bounds.cells) : q < f => Passed(mem, f, args)[q] = mem[q]
      <4>1. PICK N \in Nat : N = bounds.cells
        BY <1>1
      <4>2. PICK w \in [Cells(N) -> Cell] : w = mem
        BY <1>2, <4>1
      <4>3. \A q \in Cells(N) : q < f => Passed(w, f, args)[q] = w[q]
        BY PassedShape
      <4> QED
        BY <4>1, <4>2, <4>3
    <3> QED
      BY <2>4, <2>5, <3>1
  <2> QED
    BY <2>3, <2>5, <2>6
<1>7. CASE Return
  <2> DEFINE at == Top.base + Top.stackn
  <2>1. mem' = Put(mem, at, Value.got) /\ at \in Nat /\ HasValue
    BY <1>7, ReturnShape DEF Return
  <2>2. Value.got \in Datum /\ p < at
    BY <1>1, <1>2, <2>1, ValueShape
  <2> HIDE DEF at
  <2>3. Put(mem, at, Value.got)[p] = mem[p]
    BY <1>1, <1>2, <2>1, <2>2, PutAbove
  <2> QED
    BY <2>1, <2>3
<1> QED
  BY <1>3, <1>4, <1>5, <1>6, <1>7 DEF Direct, OpenScope, CloseScope, Declare,
     Literal, ReadVar, TakeAddress, ReturnVoid, vars

\* A store through the pointer reaches the variable it points to and no other.
LEMMA ThroughKeeps ==
  ASSUME Layout, StoreThrough, NEW d \in 1 .. Depth, NEW x \in Visible(calls[d]),
         ptr.depth # d \/ ptr.name # x, NEW p \in Owned(calls[d], x)
  PROVE  mem'[p] = mem[p]
<1> DEFINE e == ptr.depth
           l == ptr.level
           y == ptr.name
           n == CellsOf(Value.got)
<1>1. /\ Stacked /\ Memory /\ bounds.cells \in Nat /\ HasValue
      /\ mem \in [Cells(bounds.cells) -> Cell]
  BY BoundsShape DEF Layout, StoreThrough, Memory
<1>2. /\ e \in 1 .. Depth /\ l \in 1 .. Len(calls[e].scopes)
      /\ y \in DOMAIN calls[e].scopes[l]
      /\ CellsOf(Value.want) = CellsOf(calls[e].scopes[l][y])
      /\ ptr.at = calls[e].base + calls[e].locals[y] /\ ptr.at \in Nat
      /\ mem' = Put(mem, ptr.at, Value.got)
  BY ThroughShape
<1>3. Value.got \in Datum /\ n = CellsOf(calls[e].scopes[l][y]) /\ n \in Nat
  BY <1>1, <1>2, ValueShape
<1> HIDE DEF e, l, y, n
<1>4. PICK a \in Activation : a = calls[e] /\ Tidy(a)
  BY <1>1, <1>2, TopShape DEF Stacked
<1>5. PICK b \in Activation :
         b = calls[d] /\ Tidy(b) /\ b.base + b.stackn <= bounds.cells
  BY <1>1, TopShape DEF Stacked
<1>6. /\ y \in Visible(a) /\ Source(a, y) = a.scopes[l][y]
      /\ At(a, y) = ptr.at /\ DOMAIN Source(a, y) = Cells(n)
  BY <1>2, <1>3, <1>4, LevelShape, VisibleShape DEF Tidy
<1>7. p \in Nat /\ p \in Cells(bounds.cells)
  <2>1. p \in Nat /\ p < b.base + b.stackn /\ b.base \in Nat /\ b.stackn \in Nat
    BY <1>5, OwnedShape, ActivationShape
  <2> QED
    BY <1>1, <1>5, <2>1 DEF Cells
<1>8. p \notin Owned(a, y)
  <2>1. FramesApart
    BY LayoutApart
  <2> QED
    BY <1>2, <1>4, <1>6, <2>1 DEF FramesApart, e, y
<1>9. p < ptr.at \/ ptr.at + n <= p
  <2> SUFFICES ASSUME ~ (p < ptr.at), ~ (ptr.at + n <= p) PROVE FALSE
    OBVIOUS
  <2>1. p - ptr.at \in Cells(n) /\ ptr.at + (p - ptr.at) = p
    BY <1>2, <1>3, <1>7 DEF Cells
  <2>2. p \in Owned(a, y)
    BY <1>6, <2>1 DEF Owned
  <2> QED
    BY <1>8, <2>2
<1> QED
  BY <1>1, <1>2, <1>3, <1>7, <1>9, PutShape DEF n

\* A step changes no variable of a suspended activation, unless through the
\* pointer to it: a callee cannot write its caller's variables.
THEOREM CallersKept == Shadowing = FALSE => (Spec => CallersKeep)
<1> SUFFICES ASSUME Shadowing = FALSE PROVE Spec => CallersKeep
  OBVIOUS
<1> DEFINE Keep == \A d \in 1 .. Depth - 1 : \A x \in Visible(calls[d]) :
                     \A m \in Owned(calls[d], x) :
                        mem'[m] = mem[m] \/ (ptr # NONE /\ StoreThrough
                                              /\ ptr.depth = d /\ ptr.name = x)
<1>1. Layout /\ [Next]_vars => [Keep]_vars
  <2> SUFFICES ASSUME Layout, [Next]_vars,
                      NEW d \in 1 .. Depth - 1, NEW x \in Visible(calls[d]),
                      NEW m \in Owned(calls[d], x), mem'[m] # mem[m]
               PROVE  StoreThrough /\ ptr # NONE /\ ptr.depth = d /\ ptr.name = x
    OBVIOUS
  <2>1. Stacked /\ bounds.cells \in Nat
    BY BoundsShape DEF Layout
  <2>2. d \in 1 .. Depth /\ d < Depth /\ Depth \in 1 .. Depth /\ Top = calls[Depth]
    BY <2>1, TopShape
  <2>3. PICK a \in Activation :
           /\ a = calls[d] /\ Tidy(a) /\ a.base + a.stackn <= Top.base
           /\ a.base + a.stackn <= bounds.cells
    BY <2>1, <2>2, TopShape DEF Stacked
  <2>4. m \in Cells(bounds.cells) /\ m < Top.base
    <3>1. /\ m \in Nat /\ m < a.base + a.stackn
          /\ a.base \in Nat /\ a.stackn \in Nat /\ Top.base \in Nat
      BY <2>1, <2>3, OwnedShape, TopShape, ActivationShape
    <3> QED
      BY <2>1, <2>3, <3>1 DEF Cells
  <2>5. StoreThrough
    <3>1. Direct => mem'[m] = mem[m]
      BY <2>4, WritesAbove
    <3>2. Direct \/ StoreThrough
      BY DEF Next, Direct
    <3> QED
      BY <3>1, <3>2
  <2>6. ptr.depth = d /\ ptr.name = x
    BY <2>2, <2>5, ThroughKeeps
  <2>7. ptr # NONE
    BY <2>5 DEF StoreThrough
  <2> QED
    BY <2>5, <2>6, <2>7
<1>2. Spec => []Layout
  BY LaidOut
<1>3. Spec => [][Next]_vars
  BY DEF Spec
<1>4. Spec => [][Keep]_vars
  BY <1>1, <1>2, <1>3, PTL
<1> QED
  BY <1>4 DEF CallersKeep

-----------------------------------------------------------------------------
(* The values the code computes are those the source means, in a source that  *)
(* neither shadows a name, nor uses a temporary over a variable, nor assigns  *)
(* a member of a local struct at an offset.                                   *)

\* The values an activation holds are those the source means.
Right(a) == \A n \in 1 .. Len(a.regs) : a.regs[n].got = a.regs[n].want

Meant == \A d \in 1 .. Depth : Right(calls[d]) /\ Holds(calls[d], mem)

\* An activation with some of a's scopes and values.
LEMMA NarrowHolds ==
  ASSUME NEW a, NEW b, NEW m, a.base = b.base, a.locals = b.locals, Holds(a, m),
         \A n \in 1 .. Len(b.scopes) :
            n \in 1 .. Len(a.scopes) /\ b.scopes[n] = a.scopes[n]
  PROVE  Holds(b, m)
BY DEF Holds

LEMMA NarrowRight ==
  ASSUME NEW a, NEW b, Right(a),
         \A n \in 1 .. Len(b.regs) :
            n \in 1 .. Len(a.regs) /\ b.regs[n] = a.regs[n]
  PROVE  Right(b)
BY DEF Right

LEMMA PushRight ==
  ASSUME NEW a \in Activation, Right(a), NEW b, NEW v,
         b.regs = Append(a.regs, [got |-> v, want |-> v])
  PROVE  Right(b)
<1>1. a.regs \in Seq(Reg) /\ Len(a.regs) \in Nat
  BY ActivationShape
<1>2. /\ Len(b.regs) = Len(a.regs) + 1
      /\ b.regs[Len(a.regs) + 1] = [got |-> v, want |-> v]
      /\ \A n \in 1 .. Len(a.regs) : b.regs[n] = a.regs[n]
  BY <1>1
<1> SUFFICES ASSUME NEW n \in 1 .. Len(b.regs)
             PROVE  b.regs[n].got = b.regs[n].want
  BY DEF Right
<1>3. n \in 1 .. Len(a.regs) \/ n = Len(a.regs) + 1
  BY <1>1, <1>2
<1> QED
  BY <1>2, <1>3 DEF Right

\* The cells of a suspended activation keep what they have.
LEMMA SuspendedHolds ==
  ASSUME Layout, Meant, Direct, NEW d \in 1 .. Depth, d # Depth
  PROVE  Holds(calls[d], mem')
<1>1. Stacked /\ bounds.cells \in Nat
  BY BoundsShape DEF Layout
<1>2. PICK a \in Activation :
         /\ a = calls[d] /\ Tidy(a) /\ a.base + a.stackn <= Top.base
         /\ a.base + a.stackn <= bounds.cells
  BY <1>1, TopShape DEF Stacked
<1>3. \A p \in a.base .. a.base + a.stackn - 1 : mem'[p] = mem[p]
  <2> SUFFICES ASSUME NEW p \in a.base .. a.base + a.stackn - 1
               PROVE  mem'[p] = mem[p]
    OBVIOUS
  <2>1. a.base \in Nat /\ a.stackn \in Nat /\ Top.base \in Nat
    BY <1>1, TopShape, ActivationShape
  <2>2. p \in Cells(bounds.cells) /\ p < Top.base
    BY <1>1, <1>2, <2>1 DEF Cells
  <2> QED
    BY <2>2, WritesAbove
<1>4. Holds(a, mem)
  BY <1>2 DEF Meant
<1>5. Holds(a, mem')
  BY <1>2, <1>3, <1>4, HoldsKept
<1> QED
  BY <1>2, <1>5

LEMMA BecomeMeant ==
  ASSUME Layout, Meant, Direct, NEW b \in Activation, Become(b),
         Right(b), Holds(b, mem')
  PROVE  Meant'
<1>1. Stacked
  BY DEF Layout
<1>2. /\ Depth' = Depth
      /\ \A d \in 1 .. Depth : calls'[d] = IF d = Depth THEN b ELSE calls[d]
  BY <1>1, BecomeShape
<1> SUFFICES ASSUME NEW d \in 1 .. Depth
             PROVE  Right(calls'[d]) /\ Holds(calls'[d], mem')
  BY <1>2 DEF Meant
<1>3. CASE d = Depth
  BY <1>2, <1>3
<1>4. CASE d # Depth
  BY <1>2, <1>4, SuspendedHolds DEF Meant
<1> QED
  BY <1>3, <1>4

LEMMA TopMeant ==
  ASSUME Layout, Meant
  PROVE  Right(Top) /\ Holds(Top, mem)
BY TopShape DEF Layout, Meant

LEMMA OpenMeant == Layout /\ Meant /\ OpenScope => Meant'
<1> SUFFICES ASSUME Layout, Meant, OpenScope PROVE Meant'
  OBVIOUS
<1> DEFINE b == [Top EXCEPT !.scopes = Append(@, EmptyMap)]
<1>1. Become(b) /\ mem' = mem /\ Top \in Activation /\ Direct
  BY TopShape DEF Layout, OpenScope, Direct
<1>2. /\ b \in Activation /\ Frame(Top, b) /\ b.regs = Top.regs
      /\ b.scopes = Append(Top.scopes, EmptyMap)
  BY <1>1, OpenShape
<1> HIDE DEF b
<1>3. /\ Len(b.scopes) = Len(Top.scopes) + 1 /\ Len(Top.scopes) \in Nat
      /\ DOMAIN b.scopes[Len(Top.scopes) + 1] = {}
      /\ \A n \in 1 .. Len(Top.scopes) : b.scopes[n] = Top.scopes[n]
  BY <1>1, <1>2, ActivationShape, EmptyMaps, AppendShape
<1>4. \A n \in 1 .. Len(b.scopes) : \A x : x \in DOMAIN b.scopes[n]
        => n \in 1 .. Len(Top.scopes) /\ b.scopes[n] = Top.scopes[n]
  BY <1>3
<1>5. Holds(b, mem')
  BY <1>1, <1>2, <1>4, TopMeant DEF Holds, Frame
<1>6. Right(b)
  BY <1>2, TopMeant DEF Right
<1> QED
  BY <1>1, <1>2, <1>5, <1>6, BecomeMeant

LEMMA CloseMeant == Layout /\ Meant /\ CloseScope => Meant'
<1> SUFFICES ASSUME Layout, Meant, CloseScope PROVE Meant'
  OBVIOUS
<1> DEFINE b == [Top EXCEPT !.scopes = Front(@)]
<1>1. /\ Become(b) /\ mem' = mem /\ Top \in Activation /\ Direct
      /\ Top.scopes # << >>
  BY TopShape DEF Layout, CloseScope, Direct
<1>2. /\ b \in Activation /\ Frame(Top, b) /\ b.regs = Top.regs
      /\ Len(b.scopes) = Len(Top.scopes) - 1 /\ Len(Top.scopes) \in Nat
      /\ \A n \in 1 .. Len(Top.scopes) - 1 : b.scopes[n] = Top.scopes[n]
  BY <1>1, CloseShape, ActivationShape
<1> HIDE DEF b
<1>3. Holds(b, mem')
  BY <1>1, <1>2, TopMeant, NarrowHolds DEF Frame
<1>4. Right(b)
  BY <1>2, TopMeant DEF Right
<1> QED
  BY <1>1, <1>2, <1>3, <1>4, BecomeMeant

LEMMA DeclareHolds ==
  ASSUME NEW a \in Activation, Tidy(a), a.scopes # << >>, NEW m, Holds(a, m),
         NEW x \in Name, x \notin Visible(a), NEW n \in Nat
  PROVE  Holds(Declared(a, x, n), m)
<1> DEFINE b == Declared(a, x, n)
           top == Len(a.scopes)
<1>1. /\ b.base = a.base /\ b.locals = Bind(a.locals, x, a.stackn)
      /\ Len(b.scopes) = top
      /\ b.scopes[top] = Bind(a.scopes[top], x, Blank(n))
      /\ \A k \in 1 .. top - 1 : b.scopes[k] = a.scopes[k]
  BY DeclareShape
<1>2. /\ top \in 1 .. top /\ a.scopes[top] \in Scope /\ a.locals \in SlotMap
      /\ a.stackn \in Nat
  BY ActivationShape
<1>3. \A k \in 1 .. top : \A y \in DOMAIN a.scopes[k] :
         y # x /\ y \in DOMAIN a.locals
  BY ActivationShape DEF Visible, Tidy, Slotted
<1>4. \A y \in DOMAIN a.locals : y # x => b.locals[y] = a.locals[y]
  <2>1. PICK l \in SlotMap : l = a.locals
    BY <1>2
  <2>2. PICK at \in Nat : at = a.stackn
    BY <1>2
  <2>3. \A y \in DOMAIN l : y # x => Bind(l, x, at)[y] = l[y]
    BY DEF Bind
  <2> HIDE DEF b
  <2> QED
    BY <1>1, <2>1, <2>2, <2>3
<1>5. /\ DOMAIN b.scopes[top] = DOMAIN a.scopes[top] \cup {x}
      /\ \A y \in DOMAIN a.scopes[top] :
            y # x => b.scopes[top][y] = a.scopes[top][y]
      /\ \A c \in DOMAIN b.scopes[top][x] : b.scopes[top][x][c] = NONE
  <2>1. PICK s \in Scope : s = a.scopes[top]
    BY <1>2
  <2>2. PICK v \in Datum : v = Blank(n) /\ \A c \in DOMAIN v : v[c] = NONE
    BY BlankDatum
  <2>3. /\ DOMAIN Bind(s, x, v) = DOMAIN s \cup {x} /\ Bind(s, x, v)[x] = v
        /\ \A y \in DOMAIN s : y # x => Bind(s, x, v)[y] = s[y]
    BY DEF Bind
  <2> HIDE DEF b, top
  <2> QED
    BY <1>1, <2>1, <2>2, <2>3
<1> HIDE DEF b
<1> SUFFICES ASSUME NEW k \in 1 .. top, NEW y \in DOMAIN b.scopes[k],
                    NEW c \in DOMAIN b.scopes[k][y], b.scopes[k][y][c] # NONE
             PROVE  m[b.base + b.locals[y] + c] = b.scopes[k][y][c]
  BY <1>1 DEF Holds, b
<1>6. y # x /\ y \in DOMAIN a.scopes[k] /\ b.scopes[k][y] = a.scopes[k][y]
  <2>1. CASE k = top
    BY <1>3, <1>5, <2>1
  <2>2. CASE k # top
    BY <1>1, <1>2, <1>3, <2>2
  <2> QED
    BY <2>1, <2>2
<1>7. b.locals[y] = a.locals[y]
  BY <1>3, <1>4, <1>6
<1> QED
  BY <1>1, <1>6, <1>7 DEF Holds

LEMMA DeclareMeant == Shadowing = FALSE => (Layout /\ Meant /\ Declare => Meant')
<1> SUFFICES ASSUME Shadowing = FALSE, Layout, Meant, Declare PROVE Meant'
  OBVIOUS
<1>1. PICK x \in Name, n \in bounds.sizes :
         x \notin Visible(Top) /\ Become(Declared(Top, x, n))
  BY DEF Declare, Declarable
<1>2. /\ mem' = mem /\ Top \in Activation /\ Tidy(Top) /\ Top.scopes # << >>
      /\ n \in Nat /\ Direct
  BY TopShape, BoundsShape DEF Layout, Declare, Direct
<1>3. Declared(Top, x, n) \in Activation /\ Declared(Top, x, n).regs = Top.regs
  BY <1>2, DeclareShape
<1>4. Holds(Declared(Top, x, n), mem')
  BY <1>1, <1>2, TopMeant, DeclareHolds
<1>5. Right(Declared(Top, x, n))
  BY <1>3, TopMeant DEF Right
<1> QED
  BY <1>1, <1>2, <1>3, <1>4, <1>5, BecomeMeant

LEMMA LiteralMeant == Layout /\ Meant /\ Literal => Meant'
<1> SUFFICES ASSUME Layout, Meant, Literal PROVE Meant'
  OBVIOUS
<1>1. Stacked /\ Memory /\ nlits \in Nat
  BY DEF Layout, Memory
<1>2. PICK n \in bounds.sizes :
         LET v == [c \in Cells(n) |-> <<nlits, c>>] IN Become(Push(Top, v, v))
  BY DEF Literal
<1> DEFINE v == [c \in Cells(n) |-> <<nlits, c>>]
           b == Push(Top, v, v)
<1>3. v \in Datum
  <2>1. n \in Nat
    BY <1>1, BoundsShape
  <2>2. v \in [Cells(n) -> Cell]
    BY <1>1, <2>1 DEF Cells, Cell
  <2> HIDE DEF v
  <2> QED
    BY <2>1, <2>2, DatumIntro
<1>4. Become(b)
  BY <1>2
<1> HIDE DEF v
<1>5. /\ b \in Activation /\ Frame(Top, b) /\ b.scopes = Top.scopes
      /\ b.regs = Append(Top.regs, [got |-> v, want |-> v])
  BY <1>1, <1>3, TopShape, PushShape
<1> HIDE DEF b
<1>6. mem' = mem /\ Direct
  BY DEF Literal, Direct
<1>7. Right(b)
  BY <1>1, <1>5, TopShape, TopMeant, PushRight
<1>8. Holds(b, mem')
  BY <1>5, <1>6, TopMeant DEF Holds, Frame
<1> QED
  BY <1>4, <1>5, <1>6, <1>7, <1>8, BecomeMeant

LEMMA ReadMeant == Layout /\ Meant /\ ReadVar => Meant'
<1> SUFFICES ASSUME Layout, Meant, ReadVar PROVE Meant'
  OBVIOUS
<1>1. Stacked /\ Memory
  BY DEF Layout
<1>2. PICK x \in Visible(Top) :
         /\ Assigned(Source(Top, x))
         /\ Become(Push(Top, Get(mem, At(Top, x), CellsOf(Source(Top, x))),
                        Source(Top, x)))
  BY DEF ReadVar
<1> DEFINE v == Source(Top, x)
           got == Get(mem, At(Top, x), CellsOf(v))
           b == Push(Top, v, v)
<1>3. v \in Datum /\ got = v
  BY <1>1, <1>2, TopShape, TopMeant, BoundsShape, ReadShape DEF Memory
<1>4. Become(b)
  BY <1>2, <1>3
<1> HIDE DEF got, v
<1>5. /\ b \in Activation /\ Frame(Top, b) /\ b.scopes = Top.scopes
      /\ b.regs = Append(Top.regs, [got |-> v, want |-> v])
  BY <1>1, <1>3, TopShape, PushShape
<1> HIDE DEF b
<1>6. mem' = mem /\ Direct
  BY DEF ReadVar, Direct
<1>7. Right(b)
  BY <1>1, <1>5, TopShape, TopMeant, PushRight
<1>8. Holds(b, mem')
  BY <1>5, <1>6, TopMeant DEF Holds, Frame
<1> QED
  BY <1>4, <1>5, <1>6, <1>7, <1>8, BecomeMeant

\* The value used next is the one the source means.
LEMMA ValueMeant ==
  ASSUME Layout, Meant, HasValue
  PROVE  Value.got = Value.want
<1>1. Top.regs \in Seq(Reg) /\ Top.regs # << >> /\ Right(Top)
  BY TopShape, TopMeant, ActivationShape DEF Layout, HasValue
<1>2. Value = Top.regs[Len(Top.regs)] /\ Len(Top.regs) \in 1 .. Len(Top.regs)
  BY <1>1, LastShape DEF Value
<1> QED
  BY <1>1, <1>2 DEF Right

LEMMA AssignMeant == Offsets = {0} => (Layout /\ Meant /\ Assign => Meant')
<1> SUFFICES ASSUME Offsets = {0}, Layout, Meant, Assign PROVE Meant'
  OBVIOUS
<1>1. Stacked /\ Memory /\ HasValue /\ Direct /\ bounds.cells \in Nat
  BY BoundsShape DEF Layout, Assign, Direct
<1>2. PICK x \in Visible(Top) :
        LET v == Source(Top, x)
            b == SetSource(Top, Level(Top, x), x, Updated(v, 0, Value.want))
        IN  /\ CellsOf(Value.want) + 0 <= CellsOf(v)
            /\ mem' = Put(mem, At(Top, x), Value.got)
            /\ Become(Pop(b)) /\ b \in Activation
            /\ Pop(b) \in Activation /\ Frame(b, Pop(b)) /\ Pop(b).scopes = b.scopes
            /\ Len(Pop(b).regs) = Len(Top.regs) - 1
            /\ \A k \in 1 .. Len(Top.regs) - 1 : Pop(b).regs[k] = Top.regs[k]
  BY <1>1, AssignShape
<1> DEFINE v == Source(Top, x)
           n == Level(Top, x)
           w == Value.want
           u == Updated(v, 0, w)
           b == SetSource(Top, n, x, u)
<1>3. Top \in Activation /\ Tidy(Top) /\ Top.base + Top.stackn <= bounds.cells
  BY <1>1, TopShape
<1>4. /\ n \in 1 .. Len(Top.scopes) /\ x \in DOMAIN Top.scopes[n]
      /\ v = Top.scopes[n][x] /\ v \in Datum /\ CellsOf(v) \in Nat
      /\ At(Top, x) = Top.base + Top.locals[x]
  BY <1>3, VisibleShape
<1>5. /\ w \in Datum /\ Value.got = w /\ DOMAIN w = Cells(CellsOf(w))
      /\ CellsOf(w) \in Nat
  BY <1>1, ValueShape, ValueMeant
<1>6. u \in Datum /\ CellsOf(u) = CellsOf(v)
  BY <1>4, <1>5, UpdatedShape
<1>7. \A c \in DOMAIN u : u[c] = IF c \in DOMAIN w THEN w[c] ELSE v[c]
  <2>1. DOMAIN u = DOMAIN v /\ DOMAIN v = Cells(CellsOf(v))
    BY <1>4, DatumShape DEF Updated
  <2>2. \A c \in DOMAIN v : c - 0 = c
    BY <2>1 DEF Cells
  <2> QED
    BY <1>5, <2>1, <2>2 DEF Updated
<1>8. /\ CellsOf(w) <= CellsOf(v) /\ mem' = Put(mem, At(Top, x), w)
      /\ Become(Pop(b)) /\ Pop(b) \in Activation
      /\ Frame(b, Pop(b)) /\ Pop(b).scopes = b.scopes
      /\ Len(Pop(b).regs) = Len(Top.regs) - 1
      /\ \A k \in 1 .. Len(Top.regs) - 1 : Pop(b).regs[k] = Top.regs[k]
  BY <1>2, <1>5
<1> HIDE DEF v, n, w, u
<1>9. Holds(b, mem')
  <2>1. /\ mem \in [Cells(bounds.cells) -> Cell] /\ Holds(Top, mem)
        /\ CellsOf(w) <= CellsOf(Top.scopes[n][x])
        /\ CellsOf(u) = CellsOf(Top.scopes[n][x])
        /\ \A c \in DOMAIN u :
              u[c] = IF c \in DOMAIN w THEN w[c] ELSE Top.scopes[n][x][c]
    BY <1>1, <1>4, <1>6, <1>7, <1>8, TopMeant DEF Memory
  <2>2. Holds(SetSource(Top, n, x, u), Put(mem, Top.base + Top.locals[x], w))
    BY <1>1, <1>3, <1>4, <1>5, <1>6, <2>1, StoreHolds
  <2> QED
    BY <1>4, <1>8, <2>2
<1> HIDE DEF b
<1>10. Holds(Pop(b), mem')
  BY <1>8, <1>9 DEF Holds, Frame
<1>11. Right(Pop(b))
  <2>1. PICK r \in Nat : r = Len(Top.regs)
    BY <1>3, ActivationShape
  <2>2. \A k \in 1 .. Len(Pop(b).regs) :
           k \in 1 .. Len(Top.regs) /\ Pop(b).regs[k] = Top.regs[k]
    BY <1>8, <2>1
  <2> QED
    BY <2>2, TopMeant, NarrowRight
<1> QED
  BY <1>1, <1>8, <1>10, <1>11, BecomeMeant

LEMMA TempMeant == Clobbering = FALSE => (Layout /\ Meant /\ UseTemp => Meant')
<1> SUFFICES ASSUME Clobbering = FALSE, Layout, Meant, UseTemp PROVE Meant'
  OBVIOUS
<1>1. Stacked /\ Memory /\ HasValue /\ Direct /\ bounds.cells \in Nat
  BY BoundsShape DEF Layout, UseTemp, Direct
<1> DEFINE a == Top
           b == Pop(Top)
           n == CellsOf(Value.want)
<1>2. /\ mem' = Put(mem, At(a, NONE), Value.got) /\ Become(b)
      /\ \A x \in Visible(a) : Slot(a, x) >= n
  BY DEF UseTemp
<1>3. /\ a \in Activation /\ Tidy(a) /\ a.base + a.stackn <= bounds.cells
      /\ a.regs # << >> /\ a.base \in Nat /\ a.stackn \in Nat
      /\ Holds(a, mem) /\ Right(a)
  BY <1>1, TopShape, ActivationShape, TopMeant DEF HasValue
<1>4. /\ b \in Activation /\ Frame(a, b) /\ b.scopes = a.scopes
      /\ Len(b.regs) = Len(a.regs) - 1
      /\ \A k \in 1 .. Len(a.regs) - 1 : b.regs[k] = a.regs[k]
  BY <1>3, PopShape
<1>5. Value.got \in Datum /\ CellsOf(Value.got) = n /\ n \in Nat
  BY <1>1, ValueShape
<1>6. At(a, NONE) = a.base
  <2>1. NONE \notin DOMAIN a.locals
    BY <1>3, ActivationShape, NameAssumption
  <2> QED
    BY <1>3, <2>1 DEF At, Slot
<1> HIDE DEF a, b, n
<1>7. \A p \in Cells(bounds.cells) : a.base + n <= p => mem'[p] = mem[p]
  BY <1>1, <1>2, <1>3, <1>5, <1>6, PutShape DEF Memory
<1>8. Holds(a, mem')
  <2> SUFFICES ASSUME NEW k \in 1 .. Len(a.scopes), NEW x \in DOMAIN a.scopes[k],
                      NEW c \in DOMAIN a.scopes[k][x], a.scopes[k][x][c] # NONE
               PROVE  mem'[a.base + a.locals[x] + c] = a.scopes[k][x][c]
    BY DEF Holds
  <2> DEFINE at == a.locals[x]
             m  == CellsOf(a.scopes[k][x])
             base == a.base
             top == a.stackn
  <2>1. /\ c \in Nat /\ c < m /\ m \in Nat /\ at \in Nat /\ at + m <= top
        /\ base \in Nat /\ top \in Nat /\ base + top <= bounds.cells
    BY <1>3, VariableShape DEF Tidy, Slotted, Cells
  <2>2. at >= n
    <3>1. x \in Visible(a)
      BY <1>3, LevelShape DEF Tidy
    <3>2. x \in DOMAIN a.locals
      BY <1>3 DEF Tidy, Slotted
    <3> QED
      BY <1>2, <3>1, <3>2 DEF Slot
  <2> HIDE DEF at, m, base, top
  <2>3. base + at + c \in Cells(bounds.cells) /\ base + n <= base + at + c
    BY <1>1, <1>5, <2>1, <2>2 DEF Cells
  <2>4. mem'[base + at + c] = mem[base + at + c]
    BY <1>7, <2>3 DEF base
  <2> QED
    BY <1>3, <2>4 DEF Holds, base, at
<1>9. Holds(b, mem')
  BY <1>4, <1>8 DEF Holds, Frame
<1>10. Right(b)
  <2>1. PICK r \in Nat : r = Len(a.regs)
    BY <1>3, ActivationShape
  <2>2. \A k \in 1 .. Len(b.regs) : k \in 1 .. Len(a.regs) /\ b.regs[k] = a.regs[k]
    BY <1>4, <2>1
  <2> QED
    BY <1>3, <2>2, NarrowRight
<1> QED
  BY <1>1, <1>2, <1>4, <1>9, <1>10, BecomeMeant

LEMMA CallMeant == Layout /\ Meant /\ Call => Meant'
<1> SUFFICES ASSUME Layout, Meant, Call PROVE Meant'
  OBVIOUS
<1>1. Stacked /\ Memory /\ Direct /\ bounds.cells \in Nat
  BY BoundsShape DEF Layout, Direct
<1>2. PICK k \in 0 .. Len(Top.regs), va \in BOOLEAN :
      \E args \in Seq(Reg), params \in [1 .. k -> Name] : Called(k, va, args, params)
  BY CallShape
<1>3. PICK args \in Seq(Reg), params \in [1 .. k -> Name] : Called(k, va, args, params)
  BY <1>2
<1> DEFINE a == Top
           c == Caller(k)
           f == FrameTop(Top)
           e == Entry(f, args, params, va)
<1>4. /\ Len(args) = k /\ IsInjective(params)
      /\ \A n \in 1 .. k : \E j \in 1 .. Len(a.regs) : args[n] = a.regs[j]
      /\ f \in Nat /\ f = a.base + a.stackn
      /\ f + Reserved(args, va) <= bounds.cells
      /\ c \in Activation /\ Frame(a, c) /\ c.scopes = a.scopes
      /\ Len(c.regs) = Len(a.regs) - k
      /\ \A n \in 1 .. Len(a.regs) - k : c.regs[n] = a.regs[n]
      /\ mem' = Passed(mem, f, args)
      /\ Depth' = Depth + 1 /\ calls'[Depth + 1] = e
      /\ \A d \in 1 .. Depth : calls'[d] = IF d = Depth THEN c ELSE calls[d]
  BY <1>3 DEF Called
<1>5. /\ Depth \in Nat /\ a \in Activation /\ Tidy(a) /\ Right(a) /\ Holds(a, mem)
      /\ a.base + a.stackn <= bounds.cells
      /\ a.base \in Nat /\ a.stackn \in Nat /\ Len(a.regs) \in Nat
  BY <1>1, TopShape, TopMeant, ActivationShape
<1> HIDE DEF a, c, f
<1>6. \A n \in 1 .. Len(args) : args[n].got = args[n].want
  BY <1>4, <1>5 DEF Right
<1>7. Holds(e, mem')
  <2>1. params \in [1 .. Len(args) -> Name]
    BY <1>4
  <2> QED
    BY <1>1, <1>4, <1>6, <2>1, EntryHolds DEF Memory
<1>8. Right(e)
  <2>1. e.regs = << >>
    BY <1>4, EntryShape
  <2> QED
    BY <2>1 DEF Right
<1>9. Holds(c, mem')
  <2>1. \A p \in a.base .. a.base + a.stackn - 1 : mem'[p] = mem[p]
    <3>1. \A p \in a.base .. a.base + a.stackn - 1 :
             p \in Cells(bounds.cells) /\ p < f
      BY <1>1, <1>4, <1>5 DEF Cells
    <3>2. mem \in [Cells(bounds.cells) -> Cell]
      BY <1>1 DEF Memory
    <3>3. \A p \in Cells(bounds.cells) : p < f => Passed(mem, f, args)[p] = mem[p]
      BY <1>1, <1>4, <3>2, PassedShape
    <3> QED
      BY <1>4, <3>1, <3>3
  <2>2. Holds(a, mem')
    BY <1>5, <2>1, HoldsKept
  <2> QED
    BY <1>4, <2>2 DEF Holds, Frame
<1>10. Right(c)
  <2>1. \A n \in 1 .. Len(c.regs) : n \in 1 .. Len(a.regs) /\ c.regs[n] = a.regs[n]
    BY <1>4, <1>5
  <2> QED
    BY <1>5, <2>1, NarrowRight
<1> HIDE DEF e
<1> SUFFICES ASSUME NEW d \in 1 .. Depth + 1
             PROVE  Right(calls'[d]) /\ Holds(calls'[d], mem')
  BY <1>4 DEF Meant
<1>11. CASE d = Depth + 1
  BY <1>4, <1>7, <1>8, <1>11
<1>12. CASE d = Depth
  <2>1. calls'[d] = c
    BY <1>1, <1>4, <1>12, TopShape
  <2> QED
    BY <1>9, <1>10, <2>1
<1>13. CASE d \in 1 .. Depth /\ d # Depth
  BY <1>1, <1>4, <1>13, SuspendedHolds DEF Meant
<1> QED
  BY <1>5, <1>11, <1>12, <1>13

LEMMA ReturnMeant == Layout /\ Meant /\ Return => Meant'
<1> SUFFICES ASSUME Layout, Meant, Return PROVE Meant'
  OBVIOUS
<1>1. Stacked /\ Direct /\ HasValue /\ Value.got = Value.want
  BY ValueMeant DEF Layout, Direct, Return
<1>2. PICK b \in Activation :
         /\ Depth > 1 /\ Frame(calls[Depth - 1], b)
         /\ b.scopes = calls[Depth - 1].scopes
         /\ b.regs = Append(calls[Depth - 1].regs,
                            [got |-> Value.got, want |-> Value.want])
         /\ Depth' = Depth - 1
         /\ \A d \in 1 .. Depth - 1 :
               calls'[d] = IF d = Depth - 1 THEN b ELSE calls[d]
  BY ReturnShape
<1>3. /\ Depth \in Nat /\ \A d \in 1 .. Depth - 1 : d \in 1 .. Depth /\ d # Depth
      /\ \A d \in 1 .. Depth : calls[d] \in Activation
  BY <1>1, TopShape
<1>4. \A d \in 1 .. Depth - 1 : Right(calls[d]) /\ Holds(calls[d], mem')
  BY <1>1, <1>3, SuspendedHolds DEF Meant
<1>5. Right(b) /\ Holds(b, mem')
  <2>1. PICK a \in Activation :
           a = calls[Depth - 1] /\ Right(a) /\ Holds(a, mem')
    BY <1>2, <1>3, <1>4
  <2>2. Right(b)
    BY <1>1, <1>2, <2>1, PushRight
  <2>3. Holds(b, mem')
    BY <1>2, <2>1 DEF Holds, Frame
  <2> QED
    BY <2>2, <2>3
<1> QED
  BY <1>2, <1>4, <1>5 DEF Meant

LEMMA VoidMeant == Layout /\ Meant /\ ReturnVoid => Meant'
<1> SUFFICES ASSUME Layout, Meant, ReturnVoid PROVE Meant'
  OBVIOUS
<1>1. Stacked /\ Direct
  BY DEF Layout, Direct
<1>2. /\ Depth > 1 /\ Depth' = Depth - 1
      /\ \A d \in 1 .. Depth - 1 : calls'[d] = calls[d]
  BY <1>1, VoidShape
<1>3. \A d \in 1 .. Depth - 1 : d \in 1 .. Depth /\ d # Depth
  BY <1>1, TopShape
<1>4. \A d \in 1 .. Depth - 1 : Right(calls[d]) /\ Holds(calls[d], mem')
  BY <1>1, <1>3, SuspendedHolds DEF Meant
<1> QED
  BY <1>2, <1>4 DEF Meant

\* The variable pointed to has the value; no other activation has a cell of it.
LEMMA ThroughMeant == Layout /\ Meant /\ StoreThrough => Meant'
<1> SUFFICES ASSUME Layout, Meant, StoreThrough PROVE Meant'
  OBVIOUS
<1> DEFINE e == ptr.depth
           l == ptr.level
           y == ptr.name
           w == Value.want
<1>1. /\ Stacked /\ Memory /\ bounds.cells \in Nat /\ HasValue
      /\ mem \in [Cells(bounds.cells) -> Cell]
  BY BoundsShape DEF Layout, StoreThrough, Memory
<1>2. /\ Depth' = Depth
      /\ \A k \in 1 .. Depth :
            /\ Popped(k) \in Activation /\ Frame(calls[k], Popped(k))
            /\ Popped(k).scopes = calls[k].scopes
            /\ calls'[k] = IF k = e THEN SetSource(Popped(k), l, y, w)
                           ELSE Popped(k)
      /\ e \in 1 .. Depth /\ l \in 1 .. Len(calls[e].scopes)
      /\ y \in DOMAIN calls[e].scopes[l]
      /\ CellsOf(w) = CellsOf(calls[e].scopes[l][y])
      /\ ptr.at = calls[e].base + calls[e].locals[y] /\ ptr.at \in Nat
      /\ mem' = Put(mem, ptr.at, Value.got)
  BY ThroughShape
<1>3. w \in Datum /\ Value.got = w /\ CellsOf(w) \in Nat
  BY <1>1, ValueShape, ValueMeant
<1> HIDE DEF e, l, y, w
<1>4. \A k \in 1 .. Depth :
         /\ calls[k] \in Activation /\ Tidy(calls[k])
         /\ calls[k].base + calls[k].stackn <= bounds.cells
         /\ Right(calls[k]) /\ Holds(calls[k], mem)
  BY <1>1, TopShape DEF Stacked, Meant
<1>5. ASSUME NEW k \in 1 .. Depth
      PROVE  Right(Popped(k)) /\ Holds(Popped(k), mem) /\ Tidy(Popped(k))
  <2>1. PICK a \in Activation :
           a = calls[k] /\ Tidy(a) /\ Right(a) /\ Holds(a, mem)
    BY <1>4
  <2>2. PICK b \in Activation : b = Popped(k)
    BY <1>2
  <2>3. Frame(a, b) /\ b.scopes = a.scopes
    BY <1>2, <2>1, <2>2
  <2>4. Holds(b, mem)
    BY <2>1, <2>3 DEF Holds, Frame
  <2>5. Tidy(b)
    BY <2>1, <2>3, SameLayoutPush, SameLayoutTidy, ActivationShape
  <2>6. Right(b)
    <3>1. CASE k # Depth
      BY <2>1, <2>2, <3>1 DEF Popped
    <3>2. CASE k = Depth
      <4>1. b = Pop(a) /\ a.regs # << >>
        BY <1>1, <2>1, <2>2, <3>2, TopShape DEF Popped, HasValue
      <4>2. /\ Len(b.regs) = Len(a.regs) - 1 /\ Len(a.regs) \in Nat
            /\ \A n \in 1 .. Len(a.regs) - 1 : b.regs[n] = a.regs[n]
        BY <4>1, PopShape, ActivationShape
      <4> QED
        BY <2>1, <4>2, NarrowRight
    <3> QED
      BY <3>1, <3>2
  <2> QED
    BY <2>2, <2>4, <2>5, <2>6
<1>6. Right(calls'[e]) /\ Holds(calls'[e], mem')
  <2>1. PICK a \in Activation :
           a = Popped(e) /\ Right(a) /\ Holds(a, mem) /\ Tidy(a)
    BY <1>2, <1>5
  <2>2. /\ Frame(calls[e], a) /\ a.scopes = calls[e].scopes
        /\ calls'[e] = SetSource(a, l, y, w)
    BY <1>2, <2>1
  <2>3. /\ a.base + a.stackn <= bounds.cells
        /\ l \in 1 .. Len(a.scopes) /\ y \in DOMAIN a.scopes[l]
        /\ CellsOf(w) = CellsOf(a.scopes[l][y]) /\ CellsOf(w) <= CellsOf(w)
        /\ ptr.at = a.base + a.locals[y]
    BY <1>2, <1>3, <1>4, <2>2 DEF Frame
  <2>4. Holds(SetSource(a, l, y, w), Put(mem, a.base + a.locals[y], w))
    BY <1>1, <1>3, <2>1, <2>3, StoreHolds
  <2>5. SetSource(a, l, y, w).regs = a.regs
    BY <1>3, <2>3, SetSourceShape
  <2>6. Right(SetSource(a, l, y, w))
    BY <2>1, <2>5 DEF Right
  <2> QED
    BY <1>2, <1>3, <2>2, <2>3, <2>4, <2>6
<1>7. ASSUME NEW k \in 1 .. Depth, k # e
      PROVE  Right(calls'[k]) /\ Holds(calls'[k], mem')
  <2>1. PICK a \in Activation :
           a = Popped(k) /\ Right(a) /\ Holds(a, mem) /\ Tidy(a)
    BY <1>2, <1>5
  <2>2. PICK b \in Activation : b = calls[e] /\ Tidy(b)
    BY <1>2, <1>4
  <2>3. calls'[k] = a /\ Frame(calls[k], a)
    BY <1>2, <1>7, <2>1
  <2> DEFINE ab == a.base
             at == a.stackn
             bb == b.base
             bt == b.stackn
             ly == b.locals[y]
             ny == CellsOf(w)
  <2>4. /\ ab \in Nat /\ at \in Nat /\ bb \in Nat /\ bt \in Nat /\ ly \in Nat
        /\ ly + ny <= bt /\ ptr.at = bb + ly /\ ny \in Nat
        /\ ab + at <= bounds.cells
    BY <1>2, <1>3, <1>4, <2>2, <2>3, ActivationShape, VariableShape
       DEF Tidy, Slotted, Frame
  <2>5. ab + at <= bb \/ bb + bt <= ab
    <3>1. k < e \/ e < k
      BY <1>1, <1>2, <1>7, TopShape
    <3> QED
      BY <1>1, <1>2, <2>2, <2>3, <3>1 DEF Stacked, Frame
  <2> HIDE DEF ab, at, bb, bt, ly, ny
  <2>6. ASSUME NEW p \in ab .. ab + at - 1
        PROVE  mem'[p] = mem[p]
    <3>1. p \in Cells(bounds.cells) /\ (p < ptr.at \/ ptr.at + ny <= p)
      BY <1>1, <2>4, <2>5 DEF Cells
    <3> QED
      BY <1>1, <1>2, <1>3, <3>1, PutShape DEF ny
  <2>7. Holds(a, mem')
    BY <2>1, <2>6, HoldsKept DEF ab, at
  <2> QED
    BY <2>1, <2>3, <2>7
<1> QED
  BY <1>2, <1>6, <1>7 DEF Meant

LEMMA AddressMeant == Layout /\ Meant /\ TakeAddress => Meant'
<1> SUFFICES ASSUME Meant, TakeAddress PROVE Meant'
  OBVIOUS
<1>1. calls' = calls /\ mem' = mem
  BY DEF TakeAddress
<1> QED
  BY <1>1 DEF Meant, Depth, Right

LEMMA MeantInit == Init => Meant
<1> SUFFICES ASSUME Init PROVE Meant
  OBVIOUS
<1>1. calls = << [base |-> 0, stackn |-> 0, locals |-> EmptyMap,
                  scopes |-> <<EmptyMap>>, regs |-> << >>] >>
  BY DEF Init
<1>2. /\ Len(calls) = 1 /\ calls[1].scopes = <<EmptyMap>>
      /\ calls[1].regs = << >>
  BY <1>1
<1>3. Right(calls[1]) /\ Holds(calls[1], mem)
  BY <1>2, EmptyMaps DEF Right, Holds
<1> QED
  BY <1>2, <1>3 DEF Meant, Depth

LEMMA MeantStep ==
  ASSUME Shadowing = FALSE, Clobbering = FALSE, Offsets = {0}
  PROVE  Layout /\ Meant /\ [Next]_vars => Meant'
<1> SUFFICES ASSUME Layout, Meant, [Next]_vars PROVE Meant'
  OBVIOUS
<1>1. CASE UNCHANGED vars
  BY <1>1 DEF Meant, vars, Depth, Right
<1> QED
  BY <1>1, OpenMeant, CloseMeant, DeclareMeant, LiteralMeant, ReadMeant,
     AssignMeant, AddressMeant, ThroughMeant, TempMeant, CallMeant,
     ReturnMeant, VoidMeant DEF Next

\* Every value the code computes is the one the source means, in a source that
\* shadows no name, when no temporary takes the cells of a variable and no
\* member of a local struct but the first is assigned: the three things
\* gen.c gets wrong.
THEOREM ComputesAll ==
  Shadowing = FALSE /\ Clobbering = FALSE /\ Offsets = {0} => (Spec => []Computes)
<1> SUFFICES ASSUME Shadowing = FALSE, Clobbering = FALSE, Offsets = {0}
             PROVE  Spec => []Computes
  OBVIOUS
<1>1. Init => Layout /\ Meant
  BY LayoutInit, MeantInit
<1>2. (Layout /\ Meant) /\ [Next]_vars => (Layout /\ Meant)'
  BY LayoutStep, MeantStep
<1>3. Layout /\ Meant => Computes
  <2> SUFFICES ASSUME Layout, Meant, NEW d \in 1 .. Depth,
                      NEW n \in DOMAIN calls[d].regs
               PROVE  calls[d].regs[n].got = calls[d].regs[n].want
    BY DEF Computes
  <2>1. calls[d] \in Activation
    BY TopShape DEF Layout
  <2>2. n \in 1 .. Len(calls[d].regs)
    BY <2>1, ActivationShape
  <2> QED
    BY <2>2 DEF Meant, Right
<1> QED
  BY <1>1, <1>2, <1>3, PTL DEF Spec
=============================================================================
