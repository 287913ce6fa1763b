--------------------------- MODULE PreprocProofs ----------------------------
(***************************************************************************)
(* Proofs about the directive engine of cpp.c, for every set of files: any *)
(* lines in any order, any macros, any search path and any depth of files. *)
(***************************************************************************)
EXTENDS PreprocRef, Lemmas, FiniteSetTheorems

-----------------------------------------------------------------------------
(* Lines and their counts *)

LEMMA FileShape ==
  ASSUME NEW p \in Programs, NEW path \in DOMAIN p
  PROVE  /\ Len(p[path]) \in Nat /\ DOMAIN p[path] = 1 .. Len(p[path])
         /\ \A n \in DOMAIN p[path] : IsLine(p[path][n])
<1>1. IsFile(p[path])
  BY ProgramsAssumption
<1> QED
  BY <1>1 DEF IsFile, Range

LEMMA CountNext ==
  ASSUME NEW S, NEW n \in Nat, n # 0
  PROVE  /\ Cardinality({k \in 1 .. n : k \in S}) \in Nat
         /\ Cardinality({k \in 1 .. n - 1 : k \in S}) \in Nat
         /\ Cardinality({k \in 1 .. n : k \in S})
              = Cardinality({k \in 1 .. n - 1 : k \in S}) + (IF n \in S THEN 1 ELSE 0)
<1> DEFINE A == {k \in 1 .. n : k \in S}
           T == {k \in 1 .. n - 1 : k \in S}
<1>1. IsFiniteSet(1 .. n - 1)
  BY FS_Interval
<1>2. IsFiniteSet(T)
  BY <1>1, FS_Subset
<1>3. n \notin T
  OBVIOUS
<1>4. A = IF n \in S THEN T \cup {n} ELSE T
  OBVIOUS
<1> HIDE DEF A, T
<1>5. Cardinality(T) \in Nat /\ Cardinality(T \cup {n}) = Cardinality(T) + 1
  BY <1>2, <1>3, FS_AddElement, FS_CardinalityType
<1>6. /\ Cardinality(A) \in Nat /\ Cardinality(T) \in Nat
      /\ Cardinality(A) = Cardinality(T) + (IF n \in S THEN 1 ELSE 0)
  <2>1. CASE n \in S
    BY <1>4, <1>5, <2>1
  <2>2. CASE n \notin S
    BY <1>4, <1>5, <2>2
  <2> QED
    BY <2>1, <2>2
<1> QED
  BY <1>6, Zenon DEF A, T

LEMMA CountNone ==
  ASSUME NEW f
  PROVE  Quotes(f, 0) = 0 /\ Opened(f, 0) = 0 /\ Closed(f, 0) = 0
<1>1. 1 .. 0 = {}
  OBVIOUS
<1> QED
  BY <1>1, FS_EmptySet DEF Quotes, Opened, Closed

LEMMA CountLine ==
  ASSUME NEW f, NEW n \in Nat, n # 0
  PROVE  /\ Quotes(f, n - 1) \in Nat /\ Opened(f, n - 1) \in Nat /\ Closed(f, n - 1) \in Nat
         /\ Quotes(f, n) \in Nat /\ Opened(f, n) \in Nat /\ Closed(f, n) \in Nat
         /\ Quotes(f, n) = Quotes(f, n - 1) + (IF f[n].d = "quote" THEN 1 ELSE 0)
         /\ Opened(f, n) = Opened(f, n - 1)
                             + (IF Plain(f, n) /\ Opens(f[n].d) THEN 1 ELSE 0)
         /\ Closed(f, n) = Closed(f, n - 1)
                             + (IF Plain(f, n) /\ f[n].d = "endif" THEN 1 ELSE 0)
<1> DEFINE Q == {k \in 1 .. n : f[k].d = "quote"}
           O == {k \in 1 .. n : Plain(f, k) /\ Opens(f[k].d)}
           C == {k \in 1 .. n : Plain(f, k) /\ f[k].d = "endif"}
<1>1. /\ Quotes(f, n) = Cardinality({k \in 1 .. n : k \in Q})
      /\ Quotes(f, n - 1) = Cardinality({k \in 1 .. n - 1 : k \in Q})
      /\ n \in Q <=> f[n].d = "quote"
  <2>1. {k \in 1 .. n - 1 : k \in Q} = {k \in 1 .. n - 1 : f[k].d = "quote"}
    OBVIOUS
  <2>2. n \in Q <=> f[n].d = "quote"
    OBVIOUS
  <2>3. Q = {k \in 1 .. n : k \in Q}
    OBVIOUS
  <2> QED
    BY <2>1, <2>2, <2>3, Zenon DEF Quotes
<1>2. /\ Opened(f, n) = Cardinality({k \in 1 .. n : k \in O})
      /\ Opened(f, n - 1) = Cardinality({k \in 1 .. n - 1 : k \in O})
      /\ n \in O <=> Plain(f, n) /\ Opens(f[n].d)
  <2>1. {k \in 1 .. n - 1 : k \in O}
          = {k \in 1 .. n - 1 : Plain(f, k) /\ Opens(f[k].d)}
    OBVIOUS
  <2>2. n \in O <=> Plain(f, n) /\ Opens(f[n].d)
    OBVIOUS
  <2>3. O = {k \in 1 .. n : k \in O}
    OBVIOUS
  <2> QED
    BY <2>1, <2>2, <2>3, Zenon DEF Opened
<1>3. /\ Closed(f, n) = Cardinality({k \in 1 .. n : k \in C})
      /\ Closed(f, n - 1) = Cardinality({k \in 1 .. n - 1 : k \in C})
      /\ n \in C <=> Plain(f, n) /\ f[n].d = "endif"
  <2>1. {k \in 1 .. n - 1 : k \in C}
          = {k \in 1 .. n - 1 : Plain(f, k) /\ f[k].d = "endif"}
    OBVIOUS
  <2>2. n \in C <=> Plain(f, n) /\ f[n].d = "endif"
    OBVIOUS
  <2>3. C = {k \in 1 .. n : k \in C}
    OBVIOUS
  <2> QED
    BY <2>1, <2>2, <2>3, Zenon DEF Closed
<1> HIDE DEF Q, O, C
<1>4. /\ Quotes(f, n - 1) \in Nat /\ Quotes(f, n) \in Nat
      /\ Quotes(f, n) = Quotes(f, n - 1) + (IF f[n].d = "quote" THEN 1 ELSE 0)
  BY <1>1, CountNext
<1>5. /\ Opened(f, n - 1) \in Nat /\ Opened(f, n) \in Nat
      /\ Opened(f, n) = Opened(f, n - 1)
                          + (IF Plain(f, n) /\ Opens(f[n].d) THEN 1 ELSE 0)
  BY <1>2, CountNext
<1>6. /\ Closed(f, n - 1) \in Nat /\ Closed(f, n) \in Nat
      /\ Closed(f, n) = Closed(f, n - 1)
                          + (IF Plain(f, n) /\ f[n].d = "endif" THEN 1 ELSE 0)
  BY <1>3, CountNext
<1> QED
  BY <1>4, <1>5, <1>6

LEMMA Parity ==
  ASSUME NEW q \in Nat
  PROVE  (q + 1) % 2 = 0 <=> q % 2 # 0
OBVIOUS

-----------------------------------------------------------------------------
(* The stack of files.  Every name is allowed: #line sets it freely.       *)

OpenFile(p, N) == [path : DOMAIN p, name : N, pos : Nat, id : Nat]

Located(p, g, o) ==
    /\ p \in Programs /\ o \in Nat
    /\ \E N : g \in Seq(OpenFile(p, N))
    /\ g # << >> /\ Len(g) <= MaxFiles
    /\ \A n \in 1 .. Len(g) : /\ g[n].pos \in 1 .. Len(p[g[n].path]) + 1
                              /\ g[n].id \in 0 .. o - 1

Places == Located(program, files, opened)

LEMMA StackShape ==
  ASSUME NEW p, NEW g, NEW o, Located(p, g, o)
  PROVE  /\ Len(g) \in Nat /\ Len(g) >= 1 /\ DOMAIN g = 1 .. Len(g)
         /\ Last(g) = g[Len(g)]
         /\ \A n \in 1 .. Len(g) :
              /\ g[n].path \in DOMAIN p /\ Len(p[g[n].path]) \in Nat
              /\ g[n].pos \in 1 .. Len(p[g[n].path]) + 1
              /\ g[n].id \in 0 .. o - 1
<1>1. PICK N : g \in Seq(OpenFile(p, N))
  BY DEF Located
<1>2. g # << >> /\ p \in Programs
  BY DEF Located
<1>3. Len(g) \in Nat /\ Len(g) >= 1 /\ DOMAIN g = 1 .. Len(g) /\ Last(g) = g[Len(g)]
  BY <1>1, <1>2, LastShape
<1>4. \A n \in 1 .. Len(g) : g[n].path \in DOMAIN p
  <2>1. \A n \in 1 .. Len(g) : g[n] \in OpenFile(p, N)
    BY <1>1, ElementShape, Zenon
  <2> QED
    BY <2>1 DEF OpenFile
<1>5. \A n \in 1 .. Len(g) : Len(p[g[n].path]) \in Nat
  BY <1>2, <1>4, FileShape
<1> QED
  BY <1>3, <1>4, <1>5 DEF Located

LEMMA TopShape ==
  ASSUME Places
  PROVE  /\ Len(files) \in Nat /\ Len(files) >= 1 /\ Top = files[Len(files)]
         /\ Top.path \in DOMAIN program /\ Len(Lines) \in Nat
         /\ DOMAIN Lines = 1 .. Len(Lines)
         /\ Top.pos \in 1 .. Len(Lines) + 1 /\ Top.id \in 0 .. opened - 1
         /\ AtEof <=> Top.pos = Len(Lines) + 1
         /\ ~ AtEof => Top.pos \in 1 .. Len(Lines) /\ IsLine(Here)
<1>1. /\ Len(files) \in Nat /\ Len(files) >= 1 /\ Top = files[Len(files)]
      /\ Top.path \in DOMAIN program /\ Len(Lines) \in Nat
      /\ Top.pos \in 1 .. Len(Lines) + 1 /\ Top.id \in 0 .. opened - 1
  BY StackShape DEF Places, Top, Lines
<1>2. DOMAIN Lines = 1 .. Len(Lines) /\ \A n \in DOMAIN Lines : IsLine(Lines[n])
  BY <1>1, FileShape DEF Places, Located, Lines
<1>3. AtEof <=> Top.pos > Len(Lines)
  BY DEF AtEof
<1> QED
  BY <1>1, <1>2, <1>3 DEF Here

LEMMA ReplacedLocated ==
  ASSUME NEW p, NEW g, NEW o, Located(p, g, o), NEW name,
         NEW pos \in 1 .. Len(p[g[Len(g)].path]) + 1
  PROVE  LET f == [path |-> g[Len(g)].path, name |-> name, pos |-> pos,
                   id |-> g[Len(g)].id]
             h == [g EXCEPT ![Len(g)] = f]
         IN  /\ Located(p, h, o) /\ Len(h) = Len(g)
             /\ \A n \in 1 .. Len(g) : h[n] = IF n = Len(g) THEN f ELSE g[n]
<1>1. PICK N : g \in Seq(OpenFile(p, N))
  BY DEF Located
<1> DEFINE M == N \cup {name}
           f == [path |-> g[Len(g)].path, name |-> name, pos |-> pos,
                 id |-> g[Len(g)].id]
           h == [g EXCEPT ![Len(g)] = f]
<1>2. Len(g) \in Nat /\ Len(g) \in 1 .. Len(g) /\ DOMAIN g = 1 .. Len(g)
  BY StackShape
<1>3. g \in Seq(OpenFile(p, M))
  <2>1. OpenFile(p, N) \subseteq OpenFile(p, M)
    BY DEF OpenFile
  <2> QED
    BY <1>1, <2>1, WiderSeq, Zenon
<1>4. f \in OpenFile(p, M)
  <2>1. g[Len(g)].path \in DOMAIN p /\ g[Len(g)].id \in Nat /\ pos \in Nat
    <3>1. o \in Nat
      BY DEF Located
    <3>2. g[Len(g)] \in OpenFile(p, N)
      BY <1>1, <1>2, ElementShape, Zenon
    <3>3. Len(p[g[Len(g)].path]) \in Nat
      BY <1>2, StackShape
    <3> QED
      BY <3>1, <3>2, <3>3 DEF OpenFile
  <2> QED
    BY <2>1 DEF OpenFile
<1>5. /\ h \in Seq(OpenFile(p, M)) /\ Len(h) = Len(g)
      /\ \A n \in 1 .. Len(g) : h[n] = IF n = Len(g) THEN f ELSE g[n]
  <2> HIDE DEF f
  <2>1. PICK S : S = OpenFile(p, M)
    OBVIOUS
  <2>2. PICK k : k = Len(g)
    OBVIOUS
  <2>3. g \in Seq(S) /\ k \in 1 .. Len(g) /\ f \in S
    BY <1>2, <1>3, <1>4, <2>1, <2>2
  <2>4. /\ [g EXCEPT ![k] = f] \in Seq(S) /\ Len([g EXCEPT ![k] = f]) = Len(g)
        /\ \A n \in 1 .. Len(g) : [g EXCEPT ![k] = f][n] = IF n = k THEN f ELSE g[n]
    BY <2>3, ReplaceShape
  <2> QED
    BY <2>1, <2>2, <2>4
<1>6. h # << >>
  BY <1>2, <1>5
<1>7. \A n \in 1 .. Len(h) : /\ h[n].pos \in 1 .. Len(p[h[n].path]) + 1
                             /\ h[n].id \in 0 .. o - 1
  <2>1. f.path = g[Len(g)].path /\ f.id = g[Len(g)].id /\ f.pos = pos
    OBVIOUS
  <2>2. \A n \in 1 .. Len(g) : /\ g[n].pos \in 1 .. Len(p[g[n].path]) + 1
                               /\ g[n].id \in 0 .. o - 1
    BY StackShape
  <2> HIDE DEF h, f
  <2> QED
    BY <1>2, <1>5, <2>1, <2>2
<1> HIDE DEF h, f
<1>8. Located(p, h, o)
  BY <1>5, <1>6, <1>7 DEF Located
<1> QED
  BY <1>5, <1>8, Zenon DEF h, f

LEMMA NextLocated ==
  ASSUME Places, ~ AtEof
  PROVE  /\ Located(program, NextLine, opened)
         /\ Len(NextLine) = Len(files)
         /\ \A n \in 1 .. Len(files) - 1 : NextLine[n] = files[n]
         /\ Last(NextLine) = [Top EXCEPT !.pos = @ + 1]
<1> DEFINE f == [Top EXCEPT !.pos = @ + 1]
<1>1. PICK N : files \in Seq(OpenFile(program, N))
  BY DEF Places, Located
<1>2. Len(files) \in Nat /\ Len(files) >= 1 /\ Top = files[Len(files)]
  BY TopShape
<1>3. Top \in OpenFile(program, N)
  BY <1>1, <1>2, ElementShape
<1>4. f = [path |-> Top.path, name |-> Top.name, pos |-> Top.pos + 1, id |-> Top.id]
  BY <1>3 DEF OpenFile
<1>5. Top.pos + 1 \in 1 .. Len(Lines) + 1
  BY TopShape
<1>6. NextLine = [files EXCEPT ![Len(files)] = f]
  BY <1>2 DEF NextLine
<1>7. /\ f = [path |-> files[Len(files)].path, name |-> Top.name, pos |-> Top.pos + 1,
               id |-> files[Len(files)].id]
      /\ Top.pos + 1 \in 1 .. Len(program[files[Len(files)].path]) + 1
  BY <1>2, <1>4, <1>5 DEF Lines
<1> DEFINE e == [path |-> files[Len(files)].path, name |-> Top.name,
                 pos |-> Top.pos + 1, id |-> files[Len(files)].id]
           h == [files EXCEPT ![Len(files)] = e]
<1>8. /\ Located(program, h, opened) /\ Len(h) = Len(files)
      /\ \A n \in 1 .. Len(files) : h[n] = IF n = Len(files) THEN e ELSE files[n]
  <2>1. Located(program, files, opened)
    BY DEF Places
  <2>2. Top.pos + 1 \in 1 .. Len(program[files[Len(files)].path]) + 1
    BY <1>7
  <2> HIDE DEF f
  <2> QED
    BY <2>1, <2>2, ReplacedLocated
<1>9. f = e /\ NextLine = h
  BY <1>6, <1>7
<1> HIDE DEF f, e, h
<1>10. /\ Located(program, NextLine, opened) /\ Len(NextLine) = Len(files)
       /\ \A n \in 1 .. Len(files) :
            NextLine[n] = IF n = Len(files) THEN f ELSE files[n]
  BY <1>8, <1>9
<1>11. Last(NextLine) = NextLine[Len(NextLine)]
  BY <1>10, StackShape
<1> QED
  BY <1>2, <1>10, <1>11 DEF f

LEMMA RenamedLocated ==
  ASSUME Places, ~ AtEof, NEW name
  PROVE  LET h == [NextLine EXCEPT ![Len(files)].name = name]
         IN  /\ Located(program, h, opened) /\ Len(h) = Len(files)
             /\ \A n \in 1 .. Len(files) - 1 : h[n] = files[n]
             /\ Last(h).path = Top.path /\ Last(h).pos = Top.pos + 1
<1> DEFINE h == [NextLine EXCEPT ![Len(files)].name = name]
<1>1. PICK g : g = NextLine
  OBVIOUS
<1>2. /\ Located(program, g, opened) /\ Len(g) = Len(files)
      /\ \A n \in 1 .. Len(files) - 1 : g[n] = files[n]
      /\ Last(g) = [Top EXCEPT !.pos = @ + 1]
  BY <1>1, NextLocated
<1>3. /\ Len(files) \in Nat /\ Len(files) >= 1 /\ Last(g) = g[Len(g)]
      /\ g[Len(g)].pos \in 1 .. Len(program[g[Len(g)].path]) + 1
      /\ Len(g) \in 1 .. Len(g) /\ DOMAIN g = 1 .. Len(g)
  <2>1. /\ Len(g) \in Nat /\ Len(g) >= 1 /\ DOMAIN g = 1 .. Len(g) /\ Last(g) = g[Len(g)]
        /\ \A n \in 1 .. Len(g) : g[n].pos \in 1 .. Len(program[g[n].path]) + 1
    BY <1>2, StackShape
  <2>2. Len(g) \in 1 .. Len(g)
    BY <2>1
  <2> QED
    BY <1>2, <2>1, <2>2
<1> DEFINE e == [path |-> g[Len(g)].path, name |-> name, pos |-> g[Len(g)].pos,
                 id |-> g[Len(g)].id]
           k == [g EXCEPT ![Len(g)] = e]
<1>4. /\ Located(program, k, opened) /\ Len(k) = Len(g)
      /\ \A n \in 1 .. Len(g) : k[n] = IF n = Len(g) THEN e ELSE g[n]
  BY <1>2, <1>3, ReplacedLocated
<1>5. PICK N : files \in Seq(OpenFile(program, N))
  BY DEF Places, Located
<1>6. Top \in OpenFile(program, N)
  BY <1>3, <1>5, TopShape, ElementShape
<1>7. e = [g[Len(g)] EXCEPT !.name = name] /\ e.path = Top.path /\ e.pos = Top.pos + 1
  BY <1>2, <1>3, <1>6 DEF OpenFile
<1>8. k = h
  BY <1>1, <1>2, <1>3, <1>7
<1>9. Last(k) = k[Len(k)]
  BY <1>4, StackShape
<1> HIDE DEF e, k, h
<1>10. /\ Located(program, h, opened) /\ Len(h) = Len(files)
       /\ \A n \in 1 .. Len(files) - 1 : h[n] = files[n]
       /\ Last(h).path = Top.path /\ Last(h).pos = Top.pos + 1
  <2>1. Len(k) = Len(files) /\ k[Len(k)] = e
    BY <1>2, <1>3, <1>4
  <2>2. \A n \in 1 .. Len(files) - 1 : k[n] = files[n]
    BY <1>2, <1>3, <1>4
  <2>3. Last(k) = e
    BY <1>9, <2>1
  <2> QED
    BY <1>4, <1>7, <1>8, <2>1, <2>2, <2>3
<1> QED
  BY <1>10, Zenon DEF h

LEMMA PopLocated ==
  ASSUME Places, Len(files) > 1
  PROVE  /\ Located(program, Front(files), opened)
         /\ Len(Front(files)) = Len(files) - 1
         /\ \A n \in 1 .. Len(files) - 1 : Front(files)[n] = files[n]
<1>1. PICK N : files \in Seq(OpenFile(program, N))
  BY DEF Places, Located
<1>2. PICK g : g = Front(files)
  OBVIOUS
<1>3. /\ Len(files) \in Nat /\ files # << >>
  BY TopShape DEF Places, Located
<1>4. /\ g \in Seq(OpenFile(program, N)) /\ Len(g) = Len(files) - 1
      /\ \A n \in 1 .. Len(files) - 1 : g[n] = files[n]
  BY <1>1, <1>2, <1>3, FrontShape
<1>5. g # << >> /\ Len(g) <= MaxFiles
  BY <1>3, <1>4, BoundAssumption DEF Places, Located
<1> QED
  BY <1>2, <1>3, <1>4, <1>5 DEF Places, Located

LEMMA OpenLocated ==
  ASSUME Places, ~ AtEof, Len(files) < MaxFiles, NEW path \in DOMAIN program
  PROVE  LET h == Append(NextLine, Open(path))
         IN  /\ Located(program, h, opened + 1)
             /\ Len(h) = Len(files) + 1
             /\ \A n \in 1 .. Len(files) - 1 : h[n] = files[n]
             /\ h[Len(files)] = [Top EXCEPT !.pos = @ + 1]
             /\ h[Len(files) + 1] = Open(path)
<1> DEFINE h == Append(NextLine, Open(path))
<1>1. PICK g : g = NextLine
  OBVIOUS
<1>2. PICK e : e = Open(path)
  OBVIOUS
<1>3. /\ Located(program, g, opened) /\ Len(g) = Len(files)
      /\ \A n \in 1 .. Len(files) - 1 : g[n] = files[n]
      /\ Last(g) = [Top EXCEPT !.pos = @ + 1]
  BY <1>1, NextLocated
<1>4. /\ Len(g) \in Nat /\ Len(g) >= 1 /\ Last(g) = g[Len(g)]
      /\ opened \in Nat /\ program \in Programs /\ MaxFiles \in Nat
  BY <1>3, StackShape, BoundAssumption DEF Located
<1>5. PICK N : g \in Seq(OpenFile(program, N))
  BY <1>3 DEF Located
<1>6. PICK S : S = OpenFile(program, N \cup {path})
  OBVIOUS
<1>7. OpenFile(program, N) \subseteq S
  BY <1>6 DEF OpenFile
<1>8. g \in Seq(S)
  BY <1>5, <1>7, WiderSeq, Zenon
<1>9. e \in S /\ e.pos = 1 /\ e.id = opened /\ e.path = path
  BY <1>2, <1>4, <1>6 DEF OpenFile, Open
<1>10. PICK k : k = Append(g, e)
  OBVIOUS
<1>11. /\ k \in Seq(S) /\ Len(k) = Len(g) + 1 /\ k[Len(g) + 1] = e /\ k # << >>
       /\ \A n \in 1 .. Len(g) : k[n] = g[n]
  BY <1>8, <1>9, <1>10, AppendShape
<1>12. Len(program[path]) \in Nat
  BY <1>4, FileShape
<1>13. \A n \in 1 .. Len(g) : /\ g[n].pos \in 1 .. Len(program[g[n].path]) + 1
                             /\ g[n].id \in 0 .. opened - 1
  BY <1>3 DEF Located
<1>14. \A n \in 1 .. Len(k) : /\ k[n].pos \in 1 .. Len(program[k[n].path]) + 1
                             /\ k[n].id \in 0 .. opened + 1 - 1
  <2> SUFFICES ASSUME NEW n \in 1 .. Len(k)
               PROVE  /\ k[n].pos \in 1 .. Len(program[k[n].path]) + 1
                      /\ k[n].id \in 0 .. opened + 1 - 1
    OBVIOUS
  <2>1. CASE n \in 1 .. Len(g)
    BY <1>4, <1>11, <1>13, <2>1
  <2>2. CASE n = Len(g) + 1
    BY <1>4, <1>9, <1>11, <1>12, <2>2
  <2> QED
    BY <1>4, <1>11, <2>1, <2>2
<1>15. Located(program, k, opened + 1)
  BY <1>3, <1>4, <1>6, <1>11, <1>14 DEF Located
<1>16. h = k
  BY <1>1, <1>2, <1>10
<1> HIDE DEF h
<1>17. /\ Located(program, h, opened + 1) /\ Len(h) = Len(files) + 1
       /\ \A n \in 1 .. Len(files) - 1 : h[n] = files[n]
       /\ h[Len(files)] = [Top EXCEPT !.pos = @ + 1]
       /\ h[Len(files) + 1] = Open(path)
  BY <1>2, <1>3, <1>4, <1>11, <1>15, <1>16
<1> QED
  BY <1>17, Zenon DEF h

LEMMA PlacesInit == Init => Places
<1> SUFFICES ASSUME Init PROVE Places
  OBVIOUS
<1>1. Main \in DOMAIN program /\ program \in Programs
  BY ProgramsAssumption DEF Init
<1>2. Len(program[Main]) \in Nat
  BY <1>1, FileShape
<1>3. files \in Seq(OpenFile(program, {Main})) /\ Len(files) = 1
      /\ files[1].path = Main /\ files[1].pos = 1 /\ files[1].id = 0
  BY <1>1 DEF Init, OpenFile
<1>4. files # << >> /\ Len(files) <= MaxFiles
  <2>1. \A q : q = << >> => Len(q) # 1
    OBVIOUS
  <2>2. 1 <= MaxFiles
    BY BoundAssumption
  <2> QED
    BY <1>3, <2>1, <2>2, Zenon
<1> QED
  BY <1>1, <1>2, <1>3, <1>4 DEF Init, Places, Located

\* What a step does to the files.
Stays    == UNCHANGED <<program, files, opened>>
ReadsOn  == ~ AtEof /\ Read /\ UNCHANGED <<program, opened>>
Renames  == /\ ~ AtEof /\ UNCHANGED <<program, opened>>
            /\ \E name : files' = [NextLine EXCEPT ![Len(files)].name = name]
Pops     == AtEof /\ Len(files) > 1 /\ files' = Front(files)
            /\ UNCHANGED <<program, opened>>
OpensNew == /\ ~ AtEof /\ Len(files) < MaxFiles /\ opened' = opened + 1
            /\ UNCHANGED program
            /\ \E path \in DOMAIN program : files' = Append(NextLine, Open(path))

LEMMA OpensExisting == IncludeFile => OpensNew
<1> SUFFICES ASSUME IncludeFile PROVE OpensNew
  OBVIOUS
<1>1. PICK n \in Settled : /\ Candidates[n] \notin once /\ ~ Guarded(Candidates[n])
                          /\ files' = Append(NextLine, Open(Candidates[n]))
  BY DEF IncludeFile
<1>2. Settles(Candidates[n])
  BY DEF Settled
<1>3. Candidates[n] \in DOMAIN program
  BY <1>1, <1>2, Zenon DEF Settles, Exists
<1>4. /\ ~ AtEof /\ Len(files) < MaxFiles /\ opened' = opened + 1
      /\ UNCHANGED program
  BY DEF IncludeFile, IncludeOp, Running
<1> QED
  BY <1>1, <1>3, <1>4, Zenon DEF OpensNew

LEMMA FileSteps == [Next]_vars => Stays \/ ReadsOn \/ Renames \/ Pops \/ OpensNew
<1> USE DEF Stays, ReadsOn, Running, Sees, DoReadIf
<1>1. UNCHANGED vars => Stays
  BY DEF vars
<1>2. PopFile => Pops
  BY DEF PopFile, Pops
<1>3. Finish \/ SkipStop \/ ReadStray \/ IncludeFail \/ ReadError => Stays
  BY DEF Finish, SkipStop, ReadStray, IncludeFail, ReadError, Fail
<1>4. Text \/ SkipLine \/ ReadDefine \/ ReadUndef \/ PragmaOnce \/ IncludeAgain => ReadsOn
  BY DEF Text, SkipLine, SkippingLine, ReadDefine, ReadUndef, PragmaOnce, IncludeAgain,
         IncludeOp
<1>5. ReadIf \/ ReadIfdef \/ ReadIfndef \/ ReadElse \/ ReadElif \/ ReadEndif => ReadsOn
  BY DEF ReadIf, ReadIfdef, ReadIfndef, ReadElse, ReadElif, ReadEndif
<1>6. ReadLine => Renames
  BY DEF ReadLine, Renames
<1> QED
  BY <1>1, <1>2, <1>3, <1>4, <1>5, <1>6, OpensExisting, Zenon DEF Next, Directive

LEMMA PlacesStep == Places /\ [Next]_vars => Places'
<1> SUFFICES ASSUME Places, [Next]_vars PROVE Places'
  OBVIOUS
<1>1. CASE Stays
  BY <1>1 DEF Stays, Places
<1>2. CASE ReadsOn
  <2>1. Located(program, NextLine, opened)
    BY <1>2, NextLocated DEF ReadsOn
  <2> QED
    BY <1>2, <2>1, Zenon DEF ReadsOn, Read, Places
<1>3. CASE Renames
  <2>1. PICK name : files' = [NextLine EXCEPT ![Len(files)].name = name]
    BY <1>3 DEF Renames
  <2>2. Located(program, [NextLine EXCEPT ![Len(files)].name = name], opened)
    BY <1>3, RenamedLocated DEF Renames
  <2> QED
    BY <1>3, <2>1, <2>2, Zenon DEF Renames, Places
<1>4. CASE Pops
  BY <1>4, PopLocated DEF Pops, Places
<1>5. CASE OpensNew
  <2>1. PICK path \in DOMAIN program : files' = Append(NextLine, Open(path))
    BY <1>5 DEF OpensNew
  <2>2. Located(program, Append(NextLine, Open(path)), opened + 1)
    BY <1>5, OpenLocated DEF OpensNew
  <2> QED
    BY <1>5, <2>1, <2>2, Zenon DEF OpensNew, Places
<1> QED
  BY <1>1, <1>2, <1>3, <1>4, <1>5, FileSteps

-----------------------------------------------------------------------------
(* Types *)

CondIncl == [ctx : {"then", "elif", "else"}, wastrue : BOOLEAN,
             guard : Macro \cup {NONE}, file : Nat]

Kinds == /\ conds \in Seq(CondIncl)
         /\ skipping \in {NONE} \cup [nest : Nat, quoted : BOOLEAN]
         /\ macros \subseteq Macro
         /\ \A path \in DOMAIN includeGuard : includeGuard[path] \in Macro
         /\ guardFlag \in BOOLEAN \cup {NONE}
         /\ status \in {"run", "error", "done"}

LEMMA LastCondKinds ==
  ASSUME conds \in Seq(CondIncl), conds # << >>, NEW ci \in CondIncl, LastCond(ci)
  PROVE  conds' \in Seq(CondIncl)
<1>1. Len(conds) \in 1 .. Len(conds)
  BY LastShape
<1> QED
  BY <1>1, ReplaceShape DEF LastCond

LEMMA SkipKinds ==
  ASSUME Kinds, UNCHANGED skipping \/ StartSkip
  PROVE  skipping' \in {NONE} \cup [nest : Nat, quoted : BOOLEAN]
<1>1. [nest |-> 0, quoted |-> FALSE] \in [nest : Nat, quoted : BOOLEAN]
  OBVIOUS
<1>2. CASE UNCHANGED skipping
  BY <1>2 DEF Kinds
<1>3. CASE StartSkip
  BY <1>1, <1>3 DEF StartSkip
<1> QED
  BY <1>2, <1>3

LEMMA IfKinds ==
  ASSUME Kinds, NEW istrue \in BOOLEAN, NEW ci \in CondIncl, DoReadIf(istrue, ci)
  PROVE  Kinds'
<1>1. conds' \in Seq(CondIncl)
  BY AppendShape DEF Kinds, DoReadIf
<1>2. skipping' \in {NONE} \cup [nest : Nat, quoted : BOOLEAN]
  BY SkipKinds DEF DoReadIf
<1> QED
  BY <1>1, <1>2 DEF Kinds, DoReadIf, known

LEMMA HoldsBoolean == \A c : Holds(c) \in BOOLEAN
<1> SUFFICES ASSUME NEW c PROVE Holds(c) \in BOOLEAN
  OBVIOUS
<1>1. CASE c \in BOOLEAN
  BY <1>1, Zenon DEF Holds
<1>2. CASE c \notin BOOLEAN
  <2>1. (c \in macros) \in BOOLEAN
    OBVIOUS
  <2> QED
    BY <1>2, <2>1, Zenon DEF Holds
<1> QED
  BY <1>1, <1>2

LEMMA KindsStep == Places /\ Kinds /\ [Next]_vars => Kinds'
<1> SUFFICES ASSUME Places, Kinds, [Next]_vars PROVE Kinds'
  OBVIOUS
<1>1. ~ AtEof => IsLine(Here)
  BY TopShape
<1>2. Top.id \in Nat
  BY TopShape DEF Places, Located
<1>3. CASE UNCHANGED vars
  BY <1>3 DEF Kinds, vars, known
<1>4. CASE PopFile \/ Finish \/ Text \/ SkipStop \/ ReadStray \/ IncludeFail
           \/ PragmaOnce \/ ReadLine \/ ReadError
  BY <1>4 DEF Kinds, known, PopFile, Finish, Text, SkipStop, ReadStray, IncludeFail,
              PragmaOnce, ReadLine, ReadError, Fail
<1>5. CASE SkipLine
  <2>1. skipping' \in [nest : Nat, quoted : BOOLEAN]
    <3>1. skipping \in [nest : Nat, quoted : BOOLEAN]
      BY <1>5 DEF Kinds, SkipLine, SkippingLine
    <3>2. ~ skipping.quoted => Nested(Here.d) \in Nat
      BY <1>5, <3>1 DEF SkipLine, Nested, Ends
    <3> QED
      BY <1>5, <3>1, <3>2 DEF SkipLine
  <2> QED
    BY <1>5, <2>1 DEF Kinds, SkipLine, known
<1>6. CASE ReadIf
  <2>1. Holds(Here.c) \in BOOLEAN
    BY HoldsBoolean, Zenon
  <2>2. Cond(Holds(Here.c)) \in CondIncl
    BY <2>1 DEF Cond, CondIncl
  <2> QED
    BY <1>6, <2>1, <2>2, IfKinds DEF ReadIf
<1>7. CASE ReadIfdef
  <2>1. Cond(Here.m \in macros) \in CondIncl
    BY DEF Cond, CondIncl
  <2>2. (Here.m \in macros) \in BOOLEAN
    OBVIOUS
  <2>3. DoReadIf(Here.m \in macros, Cond(Here.m \in macros))
    BY <1>7 DEF ReadIfdef
  <2> QED
    BY <2>1, <2>2, <2>3, IfKinds, Zenon
<1>8. CASE ReadIfndef
  <2> DEFINE istrue == Here.m \notin macros
             ci == IF FirstLine THEN [Cond(istrue) EXCEPT !.guard = Here.m,
                                                          !.file = Top.id]
                   ELSE Cond(istrue)
  <2>1. Here.m \in Macro
    BY <1>1, <1>8 DEF ReadIfndef, Sees, Running, IsLine
  <2>2. ci \in CondIncl
    BY <1>2, <2>1 DEF Cond, CondIncl
  <2>3. DoReadIf(istrue, ci)
    BY <1>8 DEF ReadIfndef
  <2>4. istrue \in BOOLEAN
    OBVIOUS
  <2> HIDE DEF istrue, ci
  <2> QED
    BY <2>2, <2>3, <2>4, IfKinds
<1>9. CASE ReadElse
  <2>1. Last(conds) \in CondIncl /\ conds # << >>
    BY <1>9, LastShape DEF Kinds, ReadElse
  <2>2. [Last(conds) EXCEPT !.ctx = "else", !.guard = NONE] \in CondIncl
    BY <2>1 DEF CondIncl
  <2>3. conds' \in Seq(CondIncl)
    BY <1>9, <2>1, <2>2, LastCondKinds DEF Kinds, ReadElse
  <2>4. skipping' \in {NONE} \cup [nest : Nat, quoted : BOOLEAN]
    BY <1>9, SkipKinds DEF ReadElse
  <2> QED
    BY <1>9, <2>3, <2>4 DEF Kinds, ReadElse, known
<1>10. CASE ReadElif
  <2> DEFINE taken == ~ Last(conds).wastrue /\ Holds(Here.c)
             ci == [Last(conds) EXCEPT !.ctx = "elif", !.guard = NONE,
                                       !.wastrue = @ \/ taken]
  <2>1. Last(conds) \in CondIncl /\ conds # << >>
    BY <1>10, LastShape DEF Kinds, ReadElif
  <2>2. ci \in CondIncl
    BY <2>1 DEF CondIncl
  <2>3. LastCond(ci)
    BY <1>10 DEF ReadElif
  <2> HIDE DEF ci
  <2>4. conds' \in Seq(CondIncl)
    BY <2>1, <2>2, <2>3, LastCondKinds DEF Kinds
  <2>5. skipping' \in {NONE} \cup [nest : Nat, quoted : BOOLEAN]
    BY <1>10, SkipKinds DEF ReadElif
  <2> QED
    BY <1>10, <2>4, <2>5 DEF Kinds, ReadElif, known
<1>11. CASE ReadEndif
  <2>1. Last(conds) \in CondIncl /\ conds # << >>
    BY <1>11, LastShape DEF Kinds, ReadEndif
  <2>2. conds' \in Seq(CondIncl)
    BY <1>11, <2>1, FrontShape DEF Kinds, ReadEndif
  <2>3. \A path \in DOMAIN includeGuard' : includeGuard'[path] \in Macro
    <3>1. CASE UNCHANGED includeGuard
      BY <3>1 DEF Kinds
    <3>2. CASE Last(conds).guard # NONE /\ SetGuard(Top.name, Last(conds).guard)
      <4>1. Last(conds).guard \in Macro
        BY <2>1, <3>2 DEF CondIncl
      <4> QED
        BY <3>2, <4>1 DEF Kinds, SetGuard
    <3> QED
      BY <1>11, <3>1, <3>2 DEF ReadEndif
  <2> QED
    BY <1>11, <2>2, <2>3 DEF Kinds, ReadEndif
<1>12. CASE ReadDefine \/ ReadUndef
  <2>1. ReadDefine => Here.m \in Macro
    BY <1>1 DEF ReadDefine, Sees, Running, IsLine
  <2> QED
    BY <1>12, <2>1 DEF Kinds, ReadDefine, ReadUndef
<1>13. CASE IncludeAgain \/ IncludeFile
  <2>1. FlagAfter \in BOOLEAN \cup {NONE}
    BY DEF Kinds, FlagAfter, Guarded
  <2> QED
    BY <1>13, <2>1 DEF Kinds, IncludeAgain, IncludeFile
<1> QED
  BY <1>3, <1>4, <1>5, <1>6, <1>7, <1>8, <1>9, <1>10, <1>11, <1>12, <1>13
     DEF Next, Directive

LEMMA KindsInit == Init => Kinds
<1>1. << >> \in Seq(CondIncl)
  OBVIOUS
<1> QED
  BY <1>1 DEF Init, Kinds

LEMMA KindsTypes == Places /\ Kinds => TypeOK
<1> SUFFICES ASSUME Places, Kinds PROVE TypeOK
  OBVIOUS
<1>1. \A n \in DOMAIN files : /\ files[n].path \in DOMAIN program
                              /\ files[n].pos \in 1 .. Len(program[files[n].path]) + 1
                              /\ files[n].id \in 0 .. opened - 1
  BY StackShape, Zenon DEF Places
<1>2. \A n \in DOMAIN conds : conds[n] \in CondIncl
  BY ElementShape DEF Kinds
<1> QED
  BY <1>1, <1>2, Zenon DEF TypeOK, Kinds, Places, Located, CondIncl

\* Every file on the stack is one of the files there are and is read within its
\* lines, whatever they are; the conditionals, guards and flags keep their kinds.
THEOREM TypeCorrect == Spec => []TypeOK
<1>1. Init => Places /\ Kinds
  BY PlacesInit, KindsInit
<1>2. Places /\ Kinds /\ [Next]_vars => (Places /\ Kinds)'
  BY PlacesStep, KindsStep
<1> QED
  BY <1>1, <1>2, KindsTypes, PTL DEF Spec

-----------------------------------------------------------------------------
(* What reading a line does to the conditionals *)

Quoted == skipping # NONE /\ skipping.quoted
Nest   == IF skipping = NONE THEN 0 ELSE skipping.nest

\* How many conditionals the line adds to the open ones.
Added(d) == IF Opens(d) THEN 1 ELSE IF d = "endif" THEN -1 ELSE 0

\* The actions that read a line outside a skip and open no file
Reads == \/ Text \/ ReadDefine \/ ReadUndef \/ PragmaOnce \/ ReadLine \/ IncludeAgain
         \/ ReadIf \/ ReadIfdef \/ ReadIfndef \/ ReadElse \/ ReadElif \/ ReadEndif

LEMMA SkipLineEffect ==
  ASSUME Kinds, SkipLine
  PROVE  /\ UNCHANGED conds /\ skipping # NONE /\ skipping' # NONE
         /\ Quoted' <=> (IF Here.d = "quote" THEN ~ Quoted ELSE Quoted)
         /\ Nest' = Nest + (IF Quoted THEN 0 ELSE Added(Here.d))
<1>1. skipping \in [nest : Nat, quoted : BOOLEAN] /\ skipping # NONE /\ UNCHANGED conds
  BY DEF Kinds, SkipLine, SkippingLine
<1> DEFINE s == IF Here.d = "quote" THEN [skipping EXCEPT !.quoted = ~ @]
                ELSE IF skipping.quoted THEN skipping
                ELSE [skipping EXCEPT !.nest = Nested(Here.d)]
<1>2. skipping' = s
  BY DEF SkipLine
<1>3. /\ s.quoted <=> (IF Here.d = "quote" THEN ~ skipping.quoted ELSE skipping.quoted)
      /\ s.nest = IF Here.d = "quote" \/ skipping.quoted THEN skipping.nest
                  ELSE Nested(Here.d)
      /\ DOMAIN s = {"nest", "quoted"}
  BY <1>1
<1>4. s \in [nest : Nat, quoted : BOOLEAN]
  <2>1. ~ skipping.quoted => Nested(Here.d) \in Nat
    BY <1>1 DEF SkipLine, Nested, Ends
  <2> QED
    BY <1>1, <2>1
<1>5. skipping' # NONE
  BY <1>2, <1>4, NoneAssumption
<1>6. Here.d = "quote" => Added(Here.d) = 0
  BY DEF Added, Opens
<1>7. Here.d # "quote" => Nested(Here.d) = skipping.nest + Added(Here.d)
  BY <1>1 DEF Nested, Added, Opens
<1> HIDE DEF s
<1>8. Quoted' <=> (IF Here.d = "quote" THEN ~ Quoted ELSE Quoted)
  BY <1>1, <1>2, <1>3, <1>5 DEF Quoted
<1>9. Nest' = Nest + (IF Quoted THEN 0 ELSE Added(Here.d))
  BY <1>1, <1>2, <1>3, <1>5, <1>6, <1>7 DEF Quoted, Nest
<1> QED
  BY <1>1, <1>5, <1>8, <1>9

LEMMA StartSkipEffect ==
  ASSUME StartSkip
  PROVE  skipping' # NONE /\ Nest' = 0 /\ ~ Quoted'
<1>1. [nest |-> 0, quoted |-> FALSE] \in [nest : Nat, quoted : BOOLEAN]
  OBVIOUS
<1>2. skipping' # NONE
  BY <1>1, NoneAssumption DEF StartSkip
<1> QED
  BY <1>2 DEF StartSkip, Nest, Quoted

LEMMA NoSkipEffect ==
  ASSUME skipping = NONE
  PROVE  ~ Quoted /\ Nest = 0
BY DEF Quoted, Nest

LEMMA IfEffect ==
  ASSUME Kinds, NEW istrue \in BOOLEAN, NEW ci, DoReadIf(istrue, ci), skipping = NONE,
         Opens(Here.d)
  PROVE  /\ Here.d # "quote" /\ ~ Quoted' /\ Nest' = 0
         /\ Len(conds') = Len(conds) + Added(Here.d)
<1>1. Here.d # "quote" /\ Added(Here.d) = 1
  BY DEF Added, Opens
<1>2. Len(conds') = Len(conds) + 1
  BY DEF Kinds, DoReadIf
<1>3. ~ Quoted' /\ Nest' = 0
  <2>1. CASE UNCHANGED skipping
    BY <2>1, NoSkipEffect DEF Quoted, Nest
  <2>2. CASE StartSkip
    BY <2>2, StartSkipEffect
  <2> QED
    BY <2>1, <2>2 DEF DoReadIf
<1> QED
  BY <1>1, <1>2, <1>3

LEMMA ElseEffect ==
  ASSUME Kinds, ReadElse \/ ReadElif, skipping = NONE
  PROVE  /\ Here.d # "quote" /\ ~ Quoted' /\ Nest' = 0
         /\ Len(conds') = Len(conds) + Added(Here.d)
         /\ Here.d \in {"else", "elif"}
<1>1. Here.d \in {"else", "elif"}
  BY DEF ReadElse, ReadElif, Sees
<1>2. Here.d # "quote" /\ Added(Here.d) = 0
  BY <1>1 DEF Added, Opens
<1>3. Len(conds') = Len(conds)
  BY DEF Kinds, ReadElse, ReadElif, LastCond
<1>4. ~ Quoted' /\ Nest' = 0
  <2>1. CASE UNCHANGED skipping
    BY <2>1, NoSkipEffect DEF Quoted, Nest
  <2>2. CASE StartSkip
    BY <2>2, StartSkipEffect
  <2> QED
    BY <2>1, <2>2 DEF ReadElse, ReadElif
<1> QED
  BY <1>1, <1>2, <1>3, <1>4 DEF Kinds

\* A line read outside a skip is no quote; the conditionals it adds are put on the
\* stack, and a skip it starts has counted none yet.
LEMMA ReadEffect ==
  ASSUME Kinds, Reads
  PROVE  /\ Running /\ Here.d # "quote" /\ ~ Quoted' /\ Nest' = 0
         /\ Len(conds') = Len(conds) + Added(Here.d)
         /\ skipping' # NONE => Opens(Here.d) \/ Here.d \in {"else", "elif"}
<1>1. Running
  BY DEF Reads, Text, ReadDefine, ReadUndef, PragmaOnce, ReadLine, IncludeAgain, IncludeOp,
         ReadIf, ReadIfdef, ReadIfndef, ReadElse, ReadElif, ReadEndif, Sees
<1>2. skipping = NONE
  BY <1>1 DEF Running
<1>3. CASE Text \/ ReadDefine \/ ReadUndef \/ PragmaOnce \/ ReadLine \/ IncludeAgain
  <2>1. UNCHANGED <<conds, skipping>>
    BY <1>3 DEF Text, ReadDefine, ReadUndef, PragmaOnce, ReadLine, IncludeAgain
  <2>2. /\ ~ Opens(Here.d) /\ Here.d \notin {"quote", "endif"}
    BY <1>3 DEF Text, ReadDefine, ReadUndef, PragmaOnce, ReadLine, IncludeAgain, IncludeOp,
                Sees, Opens
  <2>3. Added(Here.d) = 0 /\ Len(conds) \in Nat
    BY <2>2 DEF Added, Kinds
  <2> QED
    BY <1>1, <1>2, <2>1, <2>2, <2>3 DEF Quoted, Nest
<1>4. CASE ReadIf \/ ReadIfdef \/ ReadIfndef
  <2>1. Opens(Here.d)
    BY <1>4 DEF ReadIf, ReadIfdef, ReadIfndef, Sees, Opens
  <2>2. PICK istrue \in BOOLEAN : \E ci : DoReadIf(istrue, ci)
    <3>1. CASE ReadIf
      BY <3>1, HoldsBoolean DEF ReadIf
    <3>2. CASE ReadIfdef
      <4>1. (Here.m \in macros) \in BOOLEAN
        OBVIOUS
      <4> QED
        BY <3>2, <4>1, Zenon DEF ReadIfdef
    <3>3. CASE ReadIfndef
      <4>1. (Here.m \notin macros) \in BOOLEAN
        OBVIOUS
      <4> QED
        BY <3>3, <4>1, Zenon DEF ReadIfndef
    <3> QED
      BY <1>4, <3>1, <3>2, <3>3
  <2> QED
    BY <1>1, <1>2, <2>1, <2>2, IfEffect
<1>5. CASE ReadElse \/ ReadElif
  BY <1>1, <1>2, <1>5, ElseEffect
<1>6. CASE ReadEndif
  <2>1. Here.d = "endif" /\ conds # << >>
    BY <1>6 DEF ReadEndif, Sees
  <2>2. Here.d # "quote" /\ Added(Here.d) = -1
    BY <2>1 DEF Added, Opens
  <2>3. Len(conds') = Len(conds) - 1
    BY <1>6, <2>1, FrontShape DEF ReadEndif, Kinds
  <2>4. UNCHANGED skipping /\ Len(conds) \in Nat
    BY <1>6 DEF ReadEndif, Kinds
  <2> QED
    BY <1>1, <1>2, <2>2, <2>3, <2>4 DEF Quoted, Nest
<1> QED
  BY <1>3, <1>4, <1>5, <1>6, Zenon DEF Reads

\* The line read is the next one of the file that is read.
LEMMA ReadMoves ==
  ASSUME Places, Reads \/ SkipLine
  PROVE  /\ status = "run" /\ ~ AtEof /\ UNCHANGED <<program, opened, status>>
         /\ Len(files') = Len(files)
         /\ \A n \in 1 .. Len(files) - 1 : files'[n] = files[n]
         /\ Lines' = Lines /\ Top'.pos = Top.pos + 1
<1>1. status = "run" /\ ~ AtEof /\ UNCHANGED <<program, opened, status>>
  BY DEF Reads, Text, ReadDefine, ReadUndef, PragmaOnce, ReadLine, IncludeAgain, IncludeOp,
         ReadIf, ReadIfdef, ReadIfndef, ReadElse, ReadElif, ReadEndif, Sees, Running,
         SkipLine, SkippingLine, DoReadIf
<1>2. CASE ReadLine
  <2>1. PICK name : files' = [NextLine EXCEPT ![Len(files)].name = name]
    BY <1>2 DEF ReadLine
  <2> QED
    BY <1>1, <2>1, RenamedLocated DEF Lines, Top
<1>3. CASE ~ ReadLine
  <2>1. files' = NextLine
    BY <1>3 DEF Reads, Text, ReadDefine, ReadUndef, PragmaOnce, ReadLine, IncludeAgain,
         ReadIf, ReadIfdef, ReadIfndef, ReadElse, ReadElif, ReadEndif, SkipLine, DoReadIf,
         Read
  <2>2. /\ Len(files') = Len(files)
        /\ \A n \in 1 .. Len(files) - 1 : files'[n] = files[n]
        /\ Top' = [Top EXCEPT !.pos = @ + 1]
    BY <1>1, <2>1, NextLocated, Zenon DEF Top
  <2>3. Top'.path = Top.path /\ Top'.pos = Top.pos + 1
    <3>1. PICK N : files \in Seq(OpenFile(program, N))
      BY DEF Places, Located
    <3>2. Top \in OpenFile(program, N)
      BY <3>1, TopShape, ElementShape
    <3> QED
      BY <2>2, <3>2 DEF OpenFile
  <2> QED
    BY <1>1, <2>2, <2>3 DEF Lines
<1> QED
  BY <1>2, <1>3

-----------------------------------------------------------------------------
(* Depth: the conditionals open before a line of a file *)

Depth(f, n) == Opened(f, n - 1) - Closed(f, n - 1)

LEMMA DepthStart ==
  ASSUME NEW f
  PROVE  Depth(f, 1) = 0 /\ Plain(f, 1)
<1>1. 1 - 1 = 0 /\ 0 % 2 = 0
  OBVIOUS
<1> QED
  BY <1>1, CountNone DEF Depth, Plain

LEMMA DepthNext ==
  ASSUME NEW f, NEW n \in Nat, n # 0
  PROVE  /\ Depth(f, n) \in Int /\ Depth(f, n + 1) \in Int
         /\ Depth(f, n + 1) = Depth(f, n) + (IF Plain(f, n) THEN Added(f[n].d) ELSE 0)
         /\ Plain(f, n + 1) <=> (IF f[n].d = "quote" THEN ~ Plain(f, n) ELSE Plain(f, n))
<1> DEFINE q == Quotes(f, n - 1)
           r == Quotes(f, n)
<1>1. n + 1 - 1 = n
  OBVIOUS
<1>2. q \in Nat /\ r = q + (IF f[n].d = "quote" THEN 1 ELSE 0)
  BY CountLine
<1>3. Plain(f, n) <=> q % 2 = 0
  BY DEF Plain
<1>4. Plain(f, n + 1) <=> r % 2 = 0
  BY <1>1 DEF Plain
<1> HIDE DEF q, r
<1>5. Plain(f, n + 1) <=> (IF f[n].d = "quote" THEN ~ Plain(f, n) ELSE Plain(f, n))
  <2>1. CASE f[n].d = "quote"
    BY <1>2, <1>3, <1>4, <2>1, Parity
  <2>2. CASE f[n].d # "quote"
    BY <1>2, <1>3, <1>4, <2>2
  <2> QED
    BY <2>1, <2>2
<1>6. Depth(f, n) \in Int /\ Depth(f, n + 1) \in Int
  BY <1>1, CountLine DEF Depth
<1>7. Depth(f, n + 1) = Depth(f, n) + (IF Plain(f, n) THEN Added(f[n].d) ELSE 0)
  <2>1. Added(f[n].d) = (IF Opens(f[n].d) THEN 1 ELSE 0)
                        - (IF f[n].d = "endif" THEN 1 ELSE 0)
    BY DEF Added, Opens
  <2> QED
    BY <1>1, <2>1, CountLine DEF Depth
<1> QED
  BY <1>5, <1>6, <1>7

\* What a step that reads a line of the current file does to its depth, to the
\* quotes passed and to the conditionals counted.
LEMMA LineStep ==
  ASSUME Places, Kinds, Reads \/ SkipLine, Plain(Lines, Top.pos) <=> ~ Quoted
  PROVE  /\ (Plain(Lines, Top.pos) <=> ~ Quoted)'
         /\ Depth(Lines, Top.pos) \in Int /\ Depth(Lines, Top.pos)' \in Int
         /\ Len(conds') + Nest' - (Len(conds) + Nest)
               = Depth(Lines, Top.pos)' - Depth(Lines, Top.pos)
         /\ Nest \in Nat /\ Nest' \in Nat
<1> DEFINE d == Here.d
           n == Top.pos
<1>1. /\ status = "run" /\ ~ AtEof /\ Lines' = Lines /\ Top'.pos = n + 1
  BY ReadMoves
<1>2. n \in Nat /\ n # 0 /\ d = Lines[n].d
  BY <1>1, TopShape DEF Here
<1>3. /\ Depth(Lines, n) \in Int /\ Depth(Lines, n + 1) \in Int
      /\ Depth(Lines, n + 1) = Depth(Lines, n) + (IF Quoted THEN 0 ELSE Added(d))
      /\ Plain(Lines, n + 1) <=> (IF d = "quote" THEN Quoted ELSE ~ Quoted)
  BY <1>2, DepthNext
<1>4. /\ Depth(Lines, Top.pos)' = Depth(Lines, n + 1)
      /\ Plain(Lines, Top.pos)' <=> Plain(Lines, n + 1)
  BY <1>1 DEF Depth, Plain, Opened, Closed, Quotes
<1>5. Nest \in Nat /\ Len(conds) \in Nat
  BY DEF Nest, Kinds
<1>6. Kinds'
  BY KindsStep DEF Reads, Next, Directive
<1>7. Nest' \in Nat /\ Len(conds') \in Nat
  BY <1>6 DEF Nest, Kinds
<1>8. /\ Quoted' <=> (IF d = "quote" THEN ~ Quoted ELSE Quoted)
      /\ Len(conds') + Nest' = Len(conds) + Nest + (IF Quoted THEN 0 ELSE Added(d))
  <2>1. CASE Reads
    <3>1. ~ Quoted /\ Nest = 0
      BY <2>1, ReadEffect, NoSkipEffect DEF Running
    <3>2. Added(d) \in Int
      BY DEF Added
    <3> QED
      BY <1>5, <2>1, <3>1, <3>2, ReadEffect
  <2>2. CASE SkipLine
    <3>1. Added(d) \in Int
      BY DEF Added
    <3> QED
      BY <1>5, <2>2, <3>1, SkipLineEffect
  <2> QED
    BY <2>1, <2>2
<1>9. Added(d) \in Int
  BY DEF Added
<1> HIDE DEF d, n
<1>10. (Plain(Lines, Top.pos) <=> ~ Quoted)'
  BY <1>3, <1>4, <1>8
<1>11. Len(conds') + Nest' - (Len(conds) + Nest) = Depth(Lines, n + 1) - Depth(Lines, n)
  <2> DEFINE D == Depth(Lines, n)
             E == Depth(Lines, n + 1)
             a == IF Quoted THEN 0 ELSE Added(d)
  <2>1. D \in Int /\ E \in Int /\ a \in Int /\ E = D + a
    BY <1>3, <1>9
  <2>2. Len(conds') + Nest' = Len(conds) + Nest + a
    BY <1>8
  <2> HIDE DEF D, E, a
  <2>3. Len(conds') + Nest' - (Len(conds) + Nest) = E - D
    BY <1>5, <1>7, <2>1, <2>2
  <2> QED
    BY <2>3 DEF D, E
<1> QED
  BY <1>3, <1>4, <1>5, <1>7, <1>10, <1>11 DEF n

\* The step of each action that is neither a read nor an end.
LEMMA StopEffect ==
  ASSUME Kinds, SkipStop
  PROVE  /\ UNCHANGED <<program, files, opened, conds, status>>
         /\ skipping # NONE /\ skipping' = NONE /\ ~ Quoted /\ Nest = 0
         /\ ~ Quoted' /\ Nest' = 0
BY DEF SkipStop, SkippingLine, Quoted, Nest

LEMMA SameDepth ==
  ASSUME UNCHANGED <<program, files>>
  PROVE  /\ Plain(Lines, Top.pos)' <=> Plain(Lines, Top.pos)
         /\ Depth(Lines, Top.pos)' = Depth(Lines, Top.pos)
         /\ Lines' = Lines /\ Top' = Top
<1>1. Top' = Top
  BY DEF Top
<1>2. Lines' = Lines
  BY <1>1 DEF Lines
<1> QED
  BY <1>1, <1>2 DEF Depth, Plain, Opened, Closed, Quotes

LEMMA StepKinds ==
  [Next]_vars => \/ Reads \/ SkipLine \/ SkipStop \/ PopFile \/ IncludeFile
                 \/ UNCHANGED vars \/ status' # "run"
<1>1. Finish \/ ReadStray \/ IncludeFail \/ ReadError => status' # "run"
  BY DEF Finish, ReadStray, IncludeFail, ReadError, Fail
<1> QED
  BY <1>1, Zenon DEF Next, Directive, Reads

-----------------------------------------------------------------------------
(* One file: the stack counts the conditionals *)

Single == status = "run" /\ opened = 1 =>
             /\ Len(files) = 1
             /\ Plain(Lines, Top.pos) <=> ~ Quoted
             /\ Len(conds) + Nest = Depth(Lines, Top.pos)

LEMMA SingleInit == Init => Single
<1> SUFFICES ASSUME Init PROVE Single
  OBVIOUS
<1>1. Len(files) = 1 /\ Top = files[1] /\ Top.pos = 1 /\ Len(conds) = 0
  BY LastShape DEF Init, Top, Last
<1>2. ~ Quoted /\ Nest = 0
  BY NoSkipEffect DEF Init
<1> QED
  BY <1>1, <1>2, DepthStart DEF Single

LEMMA SingleStep == Places /\ Kinds /\ Single /\ [Next]_vars => Single'
<1> SUFFICES ASSUME Places, Kinds, Single, [Next]_vars, status' = "run", opened' = 1
             PROVE  /\ Len(files') = 1
                    /\ (Plain(Lines, Top.pos) <=> ~ Quoted)'
                    /\ Len(conds') + Nest' = Depth(Lines, Top.pos)'
  BY DEF Single
<1>1. CASE Reads \/ SkipLine
  <2>1. status = "run" /\ opened = 1 /\ Len(files') = Len(files)
    BY <1>1, ReadMoves
  <2>2. /\ Len(files) = 1 /\ (Plain(Lines, Top.pos) <=> ~ Quoted)
        /\ Len(conds) + Nest = Depth(Lines, Top.pos)
    BY <2>1 DEF Single
  <2>3. Len(conds) \in Nat /\ Len(conds') \in Nat
    BY KindsStep DEF Kinds
  <2>4. /\ (Plain(Lines, Top.pos) <=> ~ Quoted)'
        /\ Depth(Lines, Top.pos) \in Int /\ Depth(Lines, Top.pos)' \in Int
        /\ Len(conds') + Nest' - (Len(conds) + Nest)
              = Depth(Lines, Top.pos)' - Depth(Lines, Top.pos)
        /\ Nest \in Nat /\ Nest' \in Nat
    BY <1>1, <2>2, LineStep
  <2> QED
    BY <2>1, <2>2, <2>3, <2>4
<1>2. CASE SkipStop
  <2>1. /\ UNCHANGED <<program, files, opened, conds, status>> /\ ~ Quoted /\ Nest = 0
        /\ ~ Quoted' /\ Nest' = 0
    BY <1>2, StopEffect
  <2>2. /\ Plain(Lines, Top.pos)' <=> Plain(Lines, Top.pos)
        /\ Depth(Lines, Top.pos)' = Depth(Lines, Top.pos)
    BY <2>1, SameDepth
  <2> QED
    BY <2>1, <2>2 DEF Single
<1>3. CASE PopFile
  <2>1. status = "run" /\ opened = 1 /\ Len(files) > 1
    BY <1>3 DEF PopFile
  <2>2. Len(files) = 1
    BY <2>1 DEF Single
  <2> QED
    BY <2>1, <2>2
<1>4. CASE IncludeFile
  BY <1>4 DEF IncludeFile, Places, Located
<1>5. CASE UNCHANGED vars
  <2>1. UNCHANGED <<status, opened, program, files, conds, skipping>>
    BY <1>5 DEF vars
  <2>2. (Quoted' <=> Quoted) /\ Nest' = Nest
    BY <2>1 DEF Quoted, Nest
  <2> QED
    BY <2>1, <2>2, SameDepth DEF Single
<1> QED
  BY <1>1, <1>2, <1>3, <1>4, <1>5, StepKinds

\* While no other file has been read, the conditionals on cond_incl_stack and
\* those the skip has counted are the ones opened and not closed so far.
THEOREM CountsDepth == Spec => []DepthCounts
<1>1. Init => Places /\ Kinds /\ Single
  BY PlacesInit, KindsInit, SingleInit
<1>2. Places /\ Kinds /\ Single /\ [Next]_vars => (Places /\ Kinds /\ Single)'
  BY PlacesStep, KindsStep, SingleStep
<1>3. Single => DepthCounts
  BY DEF Single, DepthCounts, Nest, Depth
<1> QED
  BY <1>1, <1>2, <1>3, PTL DEF Spec

-----------------------------------------------------------------------------
(* Several files: a skip stays inside a conditional of its file *)

AllBalanced == \A path \in DOMAIN program : Balanced(program[path])

FileAt(n)   == program[files[n].path]

Inside == status = "run" /\ AllBalanced =>
             /\ \A n \in 1 .. Len(files) : Depth(FileAt(n), files[n].pos) >= 0
             /\ \A n \in 1 .. Len(files) - 1 : Plain(FileAt(n), files[n].pos)
             /\ Plain(Lines, Top.pos) <=> ~ Quoted
             /\ skipping # NONE => Depth(Lines, Top.pos) >= 1 + Nest

LEMMA BalancedLines ==
  ASSUME Places, AllBalanced
  PROVE  Balanced(Lines)
BY TopShape DEF AllBalanced, Lines

LEMMA BalancedLine ==
  ASSUME Places, AllBalanced, ~ AtEof, Plain(Lines, Top.pos), Ends(Here.d)
  PROVE  Depth(Lines, Top.pos) >= 1
<1> DEFINE n == Top.pos
<1>1. n \in DOMAIN Lines /\ n \in Nat /\ n # 0 /\ Here = Lines[n]
  BY TopShape DEF Here
<1>2. Opened(Lines, n - 1) > Closed(Lines, n - 1)
  BY <1>1, BalancedLines DEF Balanced
<1>3. Opened(Lines, n - 1) \in Nat /\ Closed(Lines, n - 1) \in Nat
  BY <1>1, CountLine
<1> QED
  BY <1>2, <1>3 DEF Depth

LEMMA BalancedEnd ==
  ASSUME Places, AllBalanced, AtEof
  PROVE  Depth(Lines, Top.pos) = 0
<1>1. Top.pos - 1 = Len(Lines) /\ Len(Lines) \in Nat
  BY TopShape
<1>2. Opened(Lines, Len(Lines)) = Closed(Lines, Len(Lines))
  BY BalancedLines DEF Balanced
<1>3. Opened(Lines, Len(Lines)) \in Nat
  <2>1. CASE Len(Lines) = 0
    BY <2>1, CountNone
  <2>2. CASE Len(Lines) # 0
    BY <1>1, <2>2, CountLine
  <2> QED
    BY <2>1, <2>2
<1> QED
  BY <1>1, <1>2, <1>3 DEF Depth

LEMMA NestNat == Kinds => Nest \in Nat
BY DEF Kinds, Nest

LEMMA InsideInit == Init => Inside
<1> SUFFICES ASSUME Init PROVE Inside
  OBVIOUS
<1>1. Len(files) = 1 /\ Top = files[1] /\ files[1].pos = 1 /\ skipping = NONE
  BY DEF Init, Top, Last
<1>2. ~ Quoted
  BY <1>1, NoSkipEffect
<1>3. \A f : Depth(f, 1) >= 0 /\ Plain(f, 1)
  BY DepthStart
<1> QED
  BY <1>1, <1>2, <1>3 DEF Inside

LEMMA InsideRead ==
  ASSUME Places, Kinds, Inside, AllBalanced, Reads \/ SkipLine
  PROVE  Inside'
<1>1. /\ status = "run" /\ ~ AtEof /\ UNCHANGED <<program, opened, status>>
      /\ Len(files') = Len(files) /\ Lines' = Lines /\ Top'.pos = Top.pos + 1
      /\ \A n \in 1 .. Len(files) - 1 : files'[n] = files[n]
  BY ReadMoves
<1>2. /\ \A n \in 1 .. Len(files) : Depth(FileAt(n), files[n].pos) >= 0
      /\ \A n \in 1 .. Len(files) - 1 : Plain(FileAt(n), files[n].pos)
      /\ Plain(Lines, Top.pos) <=> ~ Quoted
      /\ skipping # NONE => Depth(Lines, Top.pos) >= 1 + Nest
  BY <1>1 DEF Inside
<1>3. /\ Len(files) \in Nat /\ Len(files) >= 1 /\ Top = files[Len(files)]
      /\ Top.pos \in Nat /\ Top.pos # 0 /\ Here = Lines[Top.pos]
  BY <1>1, TopShape DEF Here
<1>4. Top' = files'[Len(files)]
  <2>1. Places'
    BY PlacesStep DEF Reads, Next, Directive
  <2>2. Top' = files'[Len(files')]
    BY <2>1, StackShape DEF Places, Top
  <2> QED
    BY <1>1, <2>2
<1>5. \A n \in 1 .. Len(files) - 1 : FileAt(n)' = FileAt(n)
  BY <1>1 DEF FileAt
<1>6. /\ (Plain(Lines, Top.pos) <=> ~ Quoted)'
      /\ Depth(Lines, Top.pos)' = Depth(Lines, Top.pos + 1)
  BY <1>1, <1>2, LineStep DEF Depth, Opened, Closed, Plain, Quotes
<1>7. /\ Depth(Lines, Top.pos) \in Int /\ Depth(Lines, Top.pos + 1) \in Int
      /\ Depth(Lines, Top.pos + 1) = Depth(Lines, Top.pos)
                                       + (IF Quoted THEN 0 ELSE Added(Here.d))
  BY <1>2, <1>3, DepthNext
<1>8. Depth(Lines, Top.pos) >= 0
  BY <1>2, <1>3 DEF Lines, FileAt
<1>9. ~ Quoted /\ Ends(Here.d) => Depth(Lines, Top.pos) >= 1
  BY <1>1, <1>2, BalancedLine
<1>10. Depth(Lines, Top.pos + 1) >= 0
  <2>1. Added(Here.d) \in Int /\ (Here.d # "endif" => Added(Here.d) >= 0)
        /\ (Here.d = "endif" => Added(Here.d) = -1 /\ Ends(Here.d))
    BY DEF Added, Opens, Ends
  <2> QED
    BY <1>7, <1>8, <1>9, <2>1
<1>11. skipping' # NONE => Depth(Lines, Top.pos + 1) >= 1 + Nest'
  <2>1. CASE SkipLine
    <3>1. /\ skipping # NONE
          /\ Nest' = Nest + (IF Quoted THEN 0 ELSE Added(Here.d))
      BY <2>1, SkipLineEffect
    <3>2. Nest \in Nat /\ Added(Here.d) \in Int
      BY NestNat DEF Added
    <3> QED
      BY <1>2, <1>7, <3>1, <3>2
  <2>2. CASE Reads /\ skipping' # NONE
    <3>1. ~ Quoted /\ Nest' = 0
      BY <2>2, ReadEffect, NoSkipEffect DEF Running
    <3>2. Opens(Here.d) \/ Here.d \in {"else", "elif"}
      BY <2>2, ReadEffect
    <3>3. CASE Opens(Here.d)
      <4>1. Added(Here.d) = 1
        BY <3>3 DEF Added
      <4> QED
        BY <1>7, <1>8, <3>1, <4>1
    <3>4. CASE Here.d \in {"else", "elif"}
      <4>1. Added(Here.d) = 0 /\ Ends(Here.d)
        BY <3>4 DEF Added, Opens, Ends
      <4> QED
        BY <1>7, <1>9, <3>1, <4>1
    <3> QED
      BY <3>2, <3>3, <3>4
  <2> QED
    BY <2>1, <2>2
<1>12. \A n \in 1 .. Len(files') : (Depth(FileAt(n), files[n].pos))' >= 0
  <2> SUFFICES ASSUME NEW n \in 1 .. Len(files)
               PROVE  Depth(FileAt(n), files[n].pos)' >= 0
    BY <1>1
  <2>1. CASE n < Len(files)
    <3>1. FileAt(n)' = FileAt(n) /\ files'[n] = files[n]
      BY <1>1, <1>3, <1>5, <2>1
    <3>2. Depth(FileAt(n), files[n].pos)' = Depth(FileAt(n), files[n].pos)
      BY <3>1 DEF Depth, Opened, Closed, Plain, Quotes
    <3> QED
      BY <1>2, <3>2
  <2>2. CASE n = Len(files)
    <3>1. files'[n] = Top' /\ FileAt(n)' = Lines'
      BY <1>4, <2>2 DEF FileAt, Lines
    <3>2. Depth(FileAt(n), files[n].pos)' = Depth(Lines, Top.pos)'
      BY <3>1 DEF Depth, Opened, Closed, Plain, Quotes
    <3> QED
      BY <1>6, <1>10, <3>2
  <2> QED
    BY <1>3, <2>1, <2>2
<1>13. \A n \in 1 .. Len(files') - 1 : (Plain(FileAt(n), files[n].pos))'
  <2> SUFFICES ASSUME NEW n \in 1 .. Len(files) - 1
               PROVE  Plain(FileAt(n), files[n].pos)'
    BY <1>1
  <2>1. FileAt(n)' = FileAt(n) /\ files'[n] = files[n]
    BY <1>1, <1>5
  <2> QED
    BY <1>2, <2>1 DEF Plain, Quotes
<1> QED
  BY <1>6, <1>11, <1>12, <1>13 DEF Inside

LEMMA InsidePop ==
  ASSUME Places, Kinds, Inside, AllBalanced, PopFile
  PROVE  Inside'
<1>1. /\ status = "run" /\ AtEof /\ Len(files) > 1 /\ files' = Front(files)
      /\ UNCHANGED <<program, skipping>>
  BY DEF PopFile
<1>2. /\ Len(files') = Len(files) - 1 /\ Len(files) \in Nat
      /\ \A n \in 1 .. Len(files) - 1 : files'[n] = files[n]
  BY <1>1, PopLocated, TopShape
<1>3. /\ \A n \in 1 .. Len(files) : Depth(FileAt(n), files[n].pos) >= 0
      /\ \A n \in 1 .. Len(files) - 1 : Plain(FileAt(n), files[n].pos)
      /\ skipping # NONE => Depth(Lines, Top.pos) >= 1 + Nest
  BY <1>1 DEF Inside
<1>4. skipping = NONE
  <2>1. Depth(Lines, Top.pos) = 0 /\ Nest \in Nat
    BY <1>1, BalancedEnd, NestNat
  <2> QED
    BY <1>3, <2>1
<1>5. skipping' = NONE /\ ~ Quoted'
  BY <1>1, <1>4 DEF Quoted
<1>6. \A n \in 1 .. Len(files) - 1 : FileAt(n)' = FileAt(n)
  BY <1>1, <1>2 DEF FileAt
<1>7. \A n \in 1 .. Len(files) - 1 : /\ (Depth(FileAt(n), files[n].pos))' >= 0
                                     /\ (Plain(FileAt(n), files[n].pos))'
  <2> SUFFICES ASSUME NEW n \in 1 .. Len(files) - 1
               PROVE  /\ Depth(FileAt(n), files[n].pos)' >= 0
                      /\ Plain(FileAt(n), files[n].pos)'
    OBVIOUS
  <2>1. FileAt(n)' = FileAt(n) /\ files'[n] = files[n]
    BY <1>2, <1>6
  <2>2. /\ Depth(FileAt(n), files[n].pos)' = Depth(FileAt(n), files[n].pos)
        /\ Plain(FileAt(n), files[n].pos)' <=> Plain(FileAt(n), files[n].pos)
    BY <2>1 DEF Depth, Opened, Closed, Plain, Quotes
  <2>3. n \in 1 .. Len(files)
    BY <1>2
  <2> QED
    BY <1>3, <2>2, <2>3
<1>8. (Plain(Lines, Top.pos))'
  <2>1. PICK n : n = Len(files) - 1
    OBVIOUS
  <2>2. n \in 1 .. Len(files) - 1 /\ Len(files') = n
    BY <1>1, <1>2, <2>1
  <2>3. Places'
    BY PlacesStep DEF Next
  <2>4. Top' = files'[n] /\ Lines' = FileAt(n)'
    BY <2>2, <2>3, StackShape DEF Places, Top, Lines, FileAt
  <2> QED
    BY <1>7, <2>2, <2>4 DEF Plain, Quotes
<1> QED
  BY <1>2, <1>5, <1>7, <1>8 DEF Inside

LEMMA InsideOpen ==
  ASSUME Places, Kinds, Inside, AllBalanced, IncludeFile
  PROVE  Inside'
<1>1. /\ status = "run" /\ ~ AtEof /\ skipping = NONE /\ UNCHANGED <<program, skipping>>
      /\ Here.d \in {"include", "import", "include_next"}
  BY DEF IncludeFile, IncludeOp, Running
<1>2. PICK path \in DOMAIN program : files' = Append(NextLine, Open(path))
  BY OpensExisting DEF OpensNew
<1>3. Len(files) < MaxFiles
  BY DEF IncludeFile
<1>4. /\ Len(files') = Len(files) + 1
      /\ \A n \in 1 .. Len(files) - 1 : files'[n] = files[n]
      /\ files'[Len(files)] = [Top EXCEPT !.pos = @ + 1]
      /\ files'[Len(files) + 1] = Open(path)
  BY <1>1, <1>2, <1>3, OpenLocated
<1>5. /\ Len(files) \in Nat /\ Len(files) >= 1 /\ Top = files[Len(files)]
      /\ Top.pos \in Nat /\ Top.pos # 0 /\ Here = Lines[Top.pos]
  BY <1>1, TopShape DEF Here
<1>6. /\ \A n \in 1 .. Len(files) : Depth(FileAt(n), files[n].pos) >= 0
      /\ \A n \in 1 .. Len(files) - 1 : Plain(FileAt(n), files[n].pos)
      /\ Plain(Lines, Top.pos) <=> ~ Quoted
  BY <1>1 DEF Inside
<1>7. Plain(Lines, Top.pos) /\ Depth(Lines, Top.pos) >= 0
  <2>1. ~ Quoted
    BY <1>1, NoSkipEffect
  <2> QED
    BY <1>5, <1>6, <2>1 DEF Lines, FileAt
<1>8. Plain(Lines, Top.pos + 1) /\ Depth(Lines, Top.pos + 1) >= 0
  <2>1. Here.d # "quote" /\ Added(Here.d) = 0
    BY <1>1 DEF Added, Opens
  <2>2. PICK n : n = Top.pos
    OBVIOUS
  <2>3. /\ Depth(Lines, n) \in Int /\ Depth(Lines, n) >= 0
        /\ Depth(Lines, n + 1) = Depth(Lines, n) + Added(Lines[n].d)
        /\ Plain(Lines, n + 1) /\ Added(Lines[n].d) = 0
    BY <1>5, <1>7, <2>1, <2>2, DepthNext
  <2>4. Plain(Lines, n + 1) /\ Depth(Lines, n + 1) >= 0
    BY <2>3
  <2> QED
    BY <2>2, <2>4
<1>9. files'[Len(files)].path = Top.path /\ files'[Len(files)].pos = Top.pos + 1
  <2>1. PICK N : files \in Seq(OpenFile(program, N))
    BY DEF Places, Located
  <2>2. Top \in OpenFile(program, N)
    BY <1>5, <2>1, ElementShape
  <2> QED
    BY <1>4, <2>2 DEF OpenFile
<1>10. \A n \in 1 .. Len(files) : /\ (Depth(FileAt(n), files[n].pos))' >= 0
                                  /\ (Plain(FileAt(n), files[n].pos))'
  <2> SUFFICES ASSUME NEW n \in 1 .. Len(files)
               PROVE  /\ Depth(FileAt(n), files[n].pos)' >= 0
                      /\ Plain(FileAt(n), files[n].pos)'
    OBVIOUS
  <2>1. CASE n < Len(files)
    <3>1. files'[n] = files[n] /\ n \in 1 .. Len(files) - 1
      BY <1>4, <1>5, <2>1
    <3>2. FileAt(n)' = FileAt(n)
      BY <1>1, <3>1 DEF FileAt
    <3>3. /\ Depth(FileAt(n), files[n].pos)' = Depth(FileAt(n), files[n].pos)
          /\ Plain(FileAt(n), files[n].pos)' <=> Plain(FileAt(n), files[n].pos)
      BY <3>1, <3>2 DEF Depth, Opened, Closed, Plain, Quotes
    <3> QED
      BY <1>6, <3>1, <3>3
  <2>2. CASE n = Len(files)
    <3>1. files'[n].path = Top.path /\ files'[n].pos = Top.pos + 1
      BY <1>9, <2>2
    <3>2. FileAt(n)' = Lines
      BY <1>1, <3>1 DEF FileAt, Lines
    <3>3. /\ Depth(FileAt(n), files[n].pos)' = Depth(Lines, Top.pos + 1)
          /\ Plain(FileAt(n), files[n].pos)' <=> Plain(Lines, Top.pos + 1)
      BY <3>1, <3>2 DEF Depth, Opened, Closed, Plain, Quotes
    <3> QED
      BY <1>8, <3>3
  <2> QED
    BY <1>5, <2>1, <2>2
<1>11. /\ (Depth(FileAt(Len(files)), files[Len(files)].pos))' >= 0
       /\ (Plain(Lines, Top.pos))' /\ skipping' = NONE /\ ~ Quoted'
  <2>1. Places'
    BY PlacesStep DEF Next, Directive
  <2>2. Top' = files'[Len(files')]
    BY <2>1, StackShape DEF Places, Top
  <2>3. Top' = Open(path) /\ Top'.pos = 1
    BY <1>4, <2>2 DEF Open
  <2>4. Depth(Lines', 1) = 0 /\ Plain(Lines', 1)
    BY DepthStart
  <2>5. Plain(Lines, Top.pos)'
    BY <2>3, <2>4 DEF Plain, Quotes
  <2>6. FileAt(Len(files))' = Lines' /\ files'[Len(files')].pos = 1
    BY <2>2, <2>3 DEF FileAt, Lines
  <2>7. Depth(FileAt(Len(files)), files[Len(files)].pos)' = 0
    BY <2>4, <2>6 DEF Depth, Opened, Closed, Plain, Quotes
  <2> QED
    BY <1>1, <2>5, <2>7 DEF Quoted
<1>12. \A n \in 1 .. Len(files') : (Depth(FileAt(n), files[n].pos))' >= 0
  <2> SUFFICES ASSUME NEW n \in 1 .. Len(files')
               PROVE  Depth(FileAt(n), files[n].pos)' >= 0
    OBVIOUS
  <2>1. n \in 1 .. Len(files) \/ n = Len(files')
    BY <1>4, <1>5
  <2> QED
    BY <1>10, <1>11, <2>1
<1> QED
  BY <1>4, <1>5, <1>10, <1>11, <1>12 DEF Inside

LEMMA InsideSame ==
  ASSUME Inside, UNCHANGED <<program, files, status>>, (Quoted' <=> Quoted),
         skipping' = skipping \/ skipping' = NONE
  PROVE  Inside'
<1>1. Lines' = Lines /\ Top' = Top
  BY SameDepth
<1>2. \A n : FileAt(n)' = FileAt(n)
  BY DEF FileAt
<1>3. AllBalanced' <=> AllBalanced
  BY DEF AllBalanced, Balanced, Opened, Closed, Plain, Quotes, Ends, Opens
<1>4. skipping' = skipping => Nest' = Nest
  BY DEF Nest
<1>5. /\ (Plain(Lines, Top.pos))' <=> Plain(Lines, Top.pos)
      /\ (Depth(Lines, Top.pos))' = Depth(Lines, Top.pos)
  BY SameDepth
<1>6. \A n : /\ (Plain(FileAt(n), files[n].pos))' <=> Plain(FileAt(n), files[n].pos)
            /\ (Depth(FileAt(n), files[n].pos))' = Depth(FileAt(n), files[n].pos)
  <2> SUFFICES ASSUME NEW n
               PROVE  /\ Plain(FileAt(n), files[n].pos)' <=> Plain(FileAt(n), files[n].pos)
                      /\ Depth(FileAt(n), files[n].pos)' = Depth(FileAt(n), files[n].pos)
    OBVIOUS
  <2> QED
    BY <1>2 DEF Depth, Plain, Opened, Closed, Quotes
<1> QED
  BY <1>3, <1>4, <1>5, <1>6 DEF Inside

LEMMA InsideStep == Places /\ Kinds /\ Inside /\ [Next]_vars => Inside'
<1> SUFFICES ASSUME Places, Kinds, Inside, [Next]_vars, status' = "run", AllBalanced'
             PROVE  Inside'
  BY DEF Inside
<1>1. UNCHANGED program
  BY FileSteps DEF Stays, ReadsOn, Renames, Pops, OpensNew
<1>2. AllBalanced
  <2>1. AllBalanced' <=> AllBalanced
    BY <1>1 DEF AllBalanced, Balanced, Opened, Closed, Plain, Quotes, Ends, Opens
  <2> QED
    BY <2>1
<1>3. CASE SkipStop
  BY <1>3, StopEffect, InsideSame
<1>4. CASE UNCHANGED vars
  <2>1. UNCHANGED <<status, program, files, skipping>>
    BY <1>4 DEF vars
  <2>2. Quoted' <=> Quoted
    BY <2>1 DEF Quoted
  <2> QED
    BY <2>1, <2>2, InsideSame
<1> QED
  BY <1>2, <1>3, <1>4, StepKinds, InsideRead, InsidePop, InsideOpen

\* Where the program has ended, nothing is being skipped.
Halted == status # "run" => skipping = NONE

LEMMA HaltedStep == Halted /\ [Next]_vars => Halted'
<1> SUFFICES ASSUME Halted, [Next]_vars, status' # "run" PROVE skipping' = NONE
  BY DEF Halted
<1>1. CASE Finish
  BY <1>1 DEF Finish
<1>2. CASE ReadStray \/ IncludeFail \/ ReadError
  BY <1>2 DEF ReadStray, IncludeFail, ReadError, Fail, IncludeOp, Running
<1>3. CASE UNCHANGED vars
  BY <1>3 DEF vars, Halted
<1>4. CASE Reads \/ SkipLine
  BY <1>4 DEF Reads, Text, ReadDefine, ReadUndef, PragmaOnce, ReadLine, IncludeAgain,
         IncludeOp, ReadIf, ReadIfdef, ReadIfndef, ReadElse, ReadElif, ReadEndif, Sees,
         Running, SkipLine, SkippingLine, DoReadIf
<1>5. CASE SkipStop \/ PopFile \/ IncludeFile
  BY <1>5 DEF SkipStop, SkippingLine, PopFile, IncludeFile, IncludeOp, Running
<1> QED
  BY <1>1, <1>2, <1>3, <1>4, <1>5, Zenon DEF Next, Directive, Reads

LEMMA InsideStays == Places /\ Kinds /\ Inside /\ Halted => NoSkipAcrossFiles
<1> SUFFICES ASSUME Places, Kinds, Inside, Halted, skipping # NONE, AtEof, AllBalanced
             PROVE  FALSE
  BY DEF NoSkipAcrossFiles, AllBalanced
<1>1. Depth(Lines, Top.pos) >= 1 + Nest
  BY DEF Inside, Halted
<1>2. Depth(Lines, Top.pos) = 0 /\ Nest \in Nat
  BY BalancedEnd, NestNat
<1> QED
  BY <1>1, <1>2

\* Where every #if of every file has its #endif in that file, no skip of an
\* excluded group runs over the end of its file into the including one.
THEOREM SkipsStay == Spec => []NoSkipAcrossFiles
<1> DEFINE IInv == Places /\ Kinds /\ Inside /\ Halted
<1>1. Init => IInv
  BY PlacesInit, KindsInit, InsideInit DEF Init, Halted
<1>2. IInv /\ [Next]_vars => IInv'
  BY PlacesStep, KindsStep, InsideStep, HaltedStep
<1> QED
  BY <1>1, <1>2, InsideStays, PTL DEF Spec

-----------------------------------------------------------------------------
(* The reference, run step by step *)

LEMMA RunSteps ==
  ASSUME NEW disk, NEW c
  PROVE  /\ Run(disk, c, 0) = c
         /\ \A n \in Nat : Run(disk, c, n + 1) = Step(disk, Run(disk, c, n))
<1> DEFINE run[k \in Nat] == IF k = 0 THEN c ELSE Step(disk, run[k - 1])
<1>1. run = [k \in Nat |-> IF k = 0 THEN c ELSE Step(disk, run[k - 1])]
  <2>1. \E q : q = [k \in Nat |-> IF k = 0 THEN c ELSE Step(disk, q[k - 1])]
    <3> DEFINE P(f, n) == /\ f[0] = c
                          /\ \A k \in 1 .. n : f[k] = Step(disk, f[k - 1])
               S == {n \in Nat : \E f : P(f, n)}
               U == {n \in Nat : \A f, g : P(f, n) /\ P(g, n) => f[n] = g[n]}
    <3>1. Nat \subseteq S
      <4>1. 0 \in S
        <5>1. P([k \in {0} |-> c], 0)
          OBVIOUS
        <5> QED
          BY <5>1, Zenon
      <4>2. ASSUME NEW n \in Nat, n \in S
            PROVE  n + 1 \in S
        <5>1. PICK f : P(f, n)
          BY <4>2
        <5> DEFINE g == [k \in 0 .. n + 1 |-> IF k = n + 1 THEN Step(disk, f[n]) ELSE f[k]]
        <5>2. g[0] = c
          BY <5>1
        <5>3. \A k \in 1 .. n : g[k] = Step(disk, g[k - 1])
          <6> SUFFICES ASSUME NEW k \in 1 .. n PROVE g[k] = Step(disk, g[k - 1])
            OBVIOUS
          <6>1. g[k] = f[k] /\ g[k - 1] = f[k - 1]
            OBVIOUS
          <6> HIDE DEF g
          <6> QED
            BY <5>1, <6>1
        <5>4. g[n + 1] = Step(disk, g[n])
          <6>1. g[n + 1] = Step(disk, f[n]) /\ g[n] = f[n]
            OBVIOUS
          <6> HIDE DEF g
          <6> QED
            BY <6>1
        <5> HIDE DEF g
        <5>5. \A k \in 1 .. n + 1 : g[k] = Step(disk, g[k - 1])
          <6>1. \A k \in 1 .. n + 1 : k \in 1 .. n \/ (k = n + 1 /\ k - 1 = n)
            OBVIOUS
          <6> QED
            BY <5>3, <5>4, <6>1
        <5>6. P(g, n + 1)
          BY <5>2, <5>5
        <5> QED
          BY <5>6
      <4> HIDE DEF S
      <4> QED
        BY <4>1, <4>2, NatSetInduction
    <3>2. Nat \subseteq U
      <4>1. 0 \in U
        OBVIOUS
      <4>2. ASSUME NEW n \in Nat, n \in U
            PROVE  n + 1 \in U
        <5> SUFFICES ASSUME NEW f, NEW g, P(f, n + 1), P(g, n + 1)
                     PROVE  f[n + 1] = g[n + 1]
          OBVIOUS
        <5>1. P(f, n) /\ P(g, n)
          OBVIOUS
        <5>2. f[n] = g[n]
          BY <4>2, <5>1
        <5>3. f[n + 1] = Step(disk, f[n]) /\ g[n + 1] = Step(disk, g[n])
          <6>1. n + 1 \in 1 .. n + 1 /\ (n + 1) - 1 = n
            OBVIOUS
          <6> QED
            BY <6>1
        <5> QED
          BY <5>2, <5>3
      <4> HIDE DEF U
      <4> QED
        BY <4>1, <4>2, NatSetInduction
    <3> DEFINE F(n) == CHOOSE f : P(f, n)
               r == [k \in Nat |-> F(k)[k]]
    <3>3. \A n \in Nat : P(F(n), n)
      <4> SUFFICES ASSUME NEW n \in Nat PROVE P(F(n), n)
        OBVIOUS
      <4>1. \E f : P(f, n)
        BY <3>1
      <4> HIDE DEF P
      <4> QED
        BY <4>1
    <3>4. F(0)[0] = c
      <4>1. P(F(0), 0)
        BY <3>3, Zenon
      <4> QED
        BY <4>1, Zenon
    <3>5. \A k \in Nat \ {0} : F(k)[k] = Step(disk, F(k - 1)[k - 1])
      <4> SUFFICES ASSUME NEW k \in Nat \ {0}
                   PROVE  F(k)[k] = Step(disk, F(k - 1)[k - 1])
        OBVIOUS
      <4>1. PICK n : n = k - 1
        OBVIOUS
      <4>2. n \in Nat /\ k = n + 1
        BY <4>1
      <4>3. PICK f : f = F(k)
        OBVIOUS
      <4>4. PICK g : g = F(n)
        OBVIOUS
      <4>5. P(f, k) /\ P(g, n)
        BY <3>3, <4>2, <4>3, <4>4
      <4>6. k \in 1 .. k /\ f[k] = Step(disk, f[n])
        BY <4>1, <4>2, <4>5
      <4>7. \A i \in 1 .. n : i \in 1 .. k
        BY <4>2
      <4>8. P(f, n)
        BY <4>5, <4>7
      <4>9. f[n] = g[n]
        BY <3>2, <4>2, <4>5, <4>8
      <4> QED
        BY <4>1, <4>3, <4>4, <4>6, <4>9
    <3> HIDE DEF F
    <3>6. r = [k \in Nat |-> IF k = 0 THEN c ELSE Step(disk, r[k - 1])]
      <4>1. \A k \in Nat : F(k)[k] = IF k = 0 THEN c ELSE Step(disk, r[k - 1])
        <5> SUFFICES ASSUME NEW k \in Nat
                     PROVE  F(k)[k] = IF k = 0 THEN c ELSE Step(disk, r[k - 1])
          OBVIOUS
        <5>1. CASE k = 0
          BY <3>4, <5>1
        <5>2. CASE k # 0
          <6>1. k - 1 \in Nat /\ k \in Nat \ {0}
            BY <5>2
          <6>2. r[k - 1] = F(k - 1)[k - 1]
            BY <6>1
          <6> HIDE DEF r
          <6> QED
            BY <3>5, <5>2, <6>1, <6>2
        <5> QED
          BY <5>1, <5>2
      <4> QED
        BY <4>1
    <3> HIDE DEF r
    <3> QED
      BY <3>6, Zenon
  <2> QED
    BY <2>1, Zenon
<1>2. \A n : Run(disk, c, n) = run[n]
  BY Zenon DEF Run
<1> HIDE DEF run
<1>3. run[0] = c
  BY <1>1
<1>4. \A n \in Nat : run[n + 1] = Step(disk, run[n])
  <2> SUFFICES ASSUME NEW n \in Nat PROVE run[n + 1] = Step(disk, run[n])
    OBVIOUS
  <2>1. n + 1 \in Nat /\ n + 1 # 0 /\ (n + 1) - 1 = n
    OBVIOUS
  <2>2. run[n + 1] = IF n + 1 = 0 THEN c ELSE Step(disk, run[(n + 1) - 1])
    BY <1>1, <2>1, Zenon
  <2> QED
    BY <2>1, <2>2
<1> QED
  BY <1>2, <1>3, <1>4

\* A run goes on from where a run has come to.
LEMMA RunOn ==
  ASSUME NEW disk, NEW c, NEW m \in Nat, NEW n \in Nat
  PROVE  Run(disk, Run(disk, c, m), n) = Run(disk, c, m + n)
<1> DEFINE S == {k \in Nat : Run(disk, Run(disk, c, m), k) = Run(disk, c, m + k)}
<1>1. 0 \in S
  <2>1. m + 0 = m
    OBVIOUS
  <2> QED
    BY <2>1, RunSteps
<1>2. \A k \in Nat : k \in S => k + 1 \in S
  <2> SUFFICES ASSUME NEW k \in Nat, Run(disk, Run(disk, c, m), k) = Run(disk, c, m + k)
               PROVE  Run(disk, Run(disk, c, m), k + 1) = Run(disk, c, m + (k + 1))
    OBVIOUS
  <2>1. m + k \in Nat /\ m + (k + 1) = (m + k) + 1
    OBVIOUS
  <2>2. Run(disk, c, (m + k) + 1) = Step(disk, Run(disk, c, m + k))
    <3>1. \A i \in Nat : Run(disk, c, i + 1) = Step(disk, Run(disk, c, i))
      BY RunSteps
    <3> QED
      BY <2>1, <3>1
  <2>3. Run(disk, Run(disk, c, m), k + 1) = Step(disk, Run(disk, Run(disk, c, m), k))
    <3>1. PICK b : b = Run(disk, c, m)
      OBVIOUS
    <3>2. Run(disk, b, k + 1) = Step(disk, Run(disk, b, k))
      BY RunSteps
    <3> QED
      BY <3>1, <3>2
  <2> QED
    BY <2>1, <2>2, <2>3
<1> HIDE DEF S
<1>3. n \in S
  BY <1>1, <1>2, NatSetInduction
<1> QED
  BY <1>3 DEF S

LEMMA RunStays ==
  ASSUME NEW disk, NEW c, NEW m \in Nat, NEW n \in Nat, m <= n,
         Run(disk, c, m).status # "reading"
  PROVE  Run(disk, c, n) = Run(disk, c, m)
<1> PICK e : e = Run(disk, c, m)
  OBVIOUS
<1> DEFINE S == {k \in Nat : Run(disk, e, k) = e}
<1>1. Step(disk, e) = e
  BY DEF Step
<1>2. 0 \in S
  BY RunSteps
<1>3. \A k \in Nat : k \in S => k + 1 \in S
  <2> SUFFICES ASSUME NEW k \in Nat, Run(disk, e, k) = e
               PROVE  Run(disk, e, k + 1) = e
    OBVIOUS
  <2>1. Run(disk, e, k + 1) = Step(disk, Run(disk, e, k))
    BY RunSteps, Zenon
  <2> QED
    BY <1>1, <2>1
<1> HIDE DEF S
<1>4. n - m \in S
  BY <1>2, <1>3, NatSetInduction
<1>5. Run(disk, e, n - m) = e
  BY <1>4 DEF S
<1>6. m + (n - m) = n /\ n - m \in Nat
  OBVIOUS
<1> QED
  BY <1>5, <1>6, RunOn

-----------------------------------------------------------------------------
(* The configurations of the reference *)

OpenFileOf(p) == [path : DOMAIN p, pos : Nat, below : Nat]
Group == [on : BOOLEAN, taken : BOOLEAN, last : BOOLEAN, quoted : BOOLEAN]

Fields(c) == c = [files |-> c.files, sections |-> c.sections, macros |-> c.macros,
                  once |-> c.once, seen |-> c.seen, met |-> c.met, out |-> c.out,
                  status |-> c.status]
Config(p, c) == /\ Fields(c)
                /\ c.files \in Seq(OpenFileOf(p)) /\ c.files # << >>
                /\ c.sections \in Seq(Group) /\ c.met \in BOOLEAN
                /\ \A k \in 1 .. Len(c.sections) - 1 : ~ c.sections[k].quoted

\* What only a line of an included group changes.
Same(c, d) == /\ d.macros = c.macros /\ d.once = c.once /\ d.seen = c.seen
              /\ d.met = c.met /\ d.out = c.out /\ d.status = c.status

\* The cursor is past a line of the file on top, whatever became of it.
Moved(c, d) ==
    /\ Len(d.files) = Len(c.files)
    /\ \A n \in 1 .. Len(c.files) :
          /\ d.files[n].path = c.files[n].path /\ d.files[n].below = c.files[n].below
          /\ d.files[n].pos = IF n = Len(c.files) THEN c.files[n].pos + 1 ELSE c.files[n].pos

LEMMA FieldsSame ==
  ASSUME NEW c, NEW d, Fields(c), Fields(d), d.files = c.files, d.sections = c.sections,
         d.macros = c.macros, d.once = c.once, d.seen = c.seen, d.met = c.met,
         d.out = c.out, d.status = c.status
  PROVE  c = d
BY DEF Fields

LEMMA PastMoves ==
  ASSUME NEW p, NEW c, Config(p, c)
  PROVE  LET d == Past(c)
         IN  /\ Config(p, d) /\ Moved(c, d) /\ d.sections = c.sections
             /\ Same(c, d)
<1> DEFINE t == Last(c.files)
           e == Ahead(t)
<1>1. t \in OpenFileOf(p) /\ t = c.files[Len(c.files)] /\ Len(c.files) \in Nat
      /\ Len(c.files) >= 1
  BY LastShape DEF Config
<1>2. e \in OpenFileOf(p) /\ e.path = t.path /\ e.below = t.below /\ e.pos = t.pos + 1
  BY <1>1 DEF OpenFileOf, Ahead
<1>3. /\ Front(c.files) \in Seq(OpenFileOf(p)) /\ Len(Front(c.files)) = Len(c.files) - 1
      /\ \A n \in 1 .. Len(c.files) - 1 : Front(c.files)[n] = c.files[n]
  BY FrontShape DEF Config
<1> HIDE DEF e, t
<1>4. PICK g : g = Append(Front(c.files), e)
  OBVIOUS
<1>5. /\ g \in Seq(OpenFileOf(p)) /\ g # << >> /\ Len(g) = (Len(c.files) - 1) + 1
      /\ g[(Len(c.files) - 1) + 1] = e
      /\ \A n \in 1 .. Len(c.files) - 1 : g[n] = c.files[n]
  BY <1>2, <1>3, <1>4, AppendShape
<1>6. (Len(c.files) - 1) + 1 = Len(c.files)
  BY <1>1
<1>7. Past(c) = [c EXCEPT !.files = g]
  BY <1>4 DEF Past, e, t
<1>8. PICK d : d = [c EXCEPT !.files = g]
  OBVIOUS
<1>9. Fields(d) /\ d.files = g /\ d.sections = c.sections /\ Same(c, d)
  <2>1. Fields(c)
    BY DEF Config
  <2> QED
    BY <1>8, <2>1 DEF Fields, Same
<1>10. Config(p, d)
  <2>1. d.met \in BOOLEAN
    BY <1>9 DEF Config, Same
  <2> QED
    BY <1>5, <1>9, <2>1 DEF Config
<1>11. Moved(c, d)
  BY <1>1, <1>2, <1>5, <1>6, <1>9 DEF Moved
<1> QED
  BY <1>7, <1>8, <1>9, <1>10, <1>11

\* What a line that only the sections feel does to them.
LEMMA WithSections ==
  ASSUME NEW p, NEW c, Config(p, c), NEW s \in Seq(Group),
         \A k \in 1 .. Len(s) - 1 : ~ s[k].quoted,
         NEW d, d = [Past(c) EXCEPT !.sections = s]
  PROVE  Config(p, d) /\ Moved(c, d) /\ Same(c, d) /\ d.sections = s
<1>1. PICK e : e = Past(c)
  OBVIOUS
<1>2. Config(p, e) /\ Moved(c, e) /\ Same(c, e)
  BY <1>1, PastMoves
<1>3. Fields(d) /\ Same(e, d) /\ d.files = e.files /\ d.sections = s
  <2>1. Fields(e) /\ d = [e EXCEPT !.sections = s]
    BY <1>1, <1>2 DEF Config
  <2> QED
    BY <2>1 DEF Fields, Same
<1>4. d.met \in BOOLEAN
  BY <1>2, <1>3 DEF Config, Same
<1>5. Config(p, d)
  BY <1>2, <1>3, <1>4 DEF Config
<1>6. Moved(c, d)
  BY <1>2, <1>3 DEF Moved
<1>7. Same(c, d)
  BY <1>2, <1>3 DEF Same
<1> QED
  BY <1>3, <1>5, <1>6, <1>7

LEMMA OpenEffect ==
  ASSUME NEW p, NEW c, Config(p, c), NEW l, Opens(l.d), ~ InQuotes(c.sections),
         Included(c.sections) => Selected(l, c.macros) \in BOOLEAN,
         NEW d, d = Line(p, l, c)
  PROVE  /\ Config(p, d) /\ Moved(c, d) /\ Same(c, d)
         /\ Len(d.sections) = Len(c.sections) + 1
         /\ \A k \in 1 .. Len(c.sections) : d.sections[k] = c.sections[k]
         /\ d.sections[Len(c.sections) + 1].on
              <=> Included(c.sections) /\ Selected(l, c.macros)
         /\ d.sections[Len(c.sections) + 1].taken <=> d.sections[Len(c.sections) + 1].on
         /\ ~ d.sections[Len(c.sections) + 1].last
         /\ ~ InQuotes(d.sections)
<1> DEFINE s == c.sections
<1>0. s \in Seq(Group) /\ Len(s) \in Nat
  BY ElementShape DEF Config
<1>1. PICK on : on = (Included(s) /\ Selected(l, c.macros))
  OBVIOUS
<1>2. on \in BOOLEAN
  BY <1>1
<1>3. PICK g : g = [on |-> on, taken |-> on, last |-> FALSE, quoted |-> FALSE]
  OBVIOUS
<1>4. g \in Group /\ ~ g.quoted
  BY <1>2, <1>3 DEF Group
<1>5. PICK t : t = Append(s, g)
  OBVIOUS
<1>6. /\ t \in Seq(Group) /\ Len(t) = Len(s) + 1 /\ t[Len(s) + 1] = g
      /\ \A k \in 1 .. Len(s) : t[k] = s[k] /\ t # << >>
  BY <1>0, <1>4, <1>5, AppendShape
<1>7. \A k \in 1 .. Len(t) - 1 : ~ t[k].quoted
  <2> SUFFICES ASSUME NEW k \in 1 .. Len(s) PROVE ~ s[k].quoted
    BY <1>0, <1>6
  <2>1. CASE k \in 1 .. Len(s) - 1
    BY <2>1 DEF Config
  <2>2. CASE k = Len(s)
    <3>1. s # << >> /\ Last(s) = s[k]
      BY <1>0, <2>2, LastShape
    <3> QED
      BY <3>1 DEF InQuotes
  <2> QED
    BY <1>0, <2>1, <2>2
<1>8. d = [Past(c) EXCEPT !.sections = t]
  <2>1. d = OpenSection(l, c)
    BY DEF Line, Opens, Ends
  <2>2. OpenSection(l, c) = [Past(c) EXCEPT !.sections = Append(Past(c).sections, g)]
    BY <1>1, <1>3 DEF OpenSection, Section
  <2>3. Past(c).sections = s
    BY PastMoves
  <2> QED
    BY <1>5, <2>1, <2>2, <2>3
<1>9. Config(p, d) /\ Moved(c, d) /\ Same(c, d) /\ d.sections = t
  BY <1>6, <1>7, <1>8, WithSections
<1>10. ~ InQuotes(t)
  <2>1. Last(t) = g
    BY <1>6 DEF Last
  <2> QED
    BY <1>4, <2>1 DEF InQuotes
<1>11. (g.on <=> on) /\ (g.taken <=> on) /\ ~ g.last
  BY <1>2, <1>3
<1>12. on <=> Included(s) /\ Selected(l, c.macros)
  BY <1>1
<1> QED
  BY <1>6, <1>9, <1>10, <1>11, <1>12

\* The end of a section whose lines are all read, and what refuses it.
LEMMA CloseEffect ==
  ASSUME NEW p, NEW c, Config(p, c), NEW l, l.d = "endif", ~ InQuotes(c.sections),
         Len(c.sections) > Last(c.files).below, Last(c.files).below \in Nat,
         NEW d, d = Line(p, l, c)
  PROVE  /\ Config(p, d) /\ Moved(c, d) /\ Same(c, d)
         /\ Len(d.sections) = Len(c.sections) - 1
         /\ \A k \in 1 .. Len(c.sections) - 1 : d.sections[k] = c.sections[k]
         /\ ~ InQuotes(d.sections)
<1> DEFINE s == c.sections
<1>1. s \in Seq(Group) /\ Len(s) \in Nat
  BY ElementShape DEF Config
<1>2. s # << >>
  BY <1>1
<1>3. PICK t : t = Front(s)
  OBVIOUS
<1>4. /\ t \in Seq(Group) /\ Len(t) = Len(s) - 1
      /\ \A k \in 1 .. Len(s) - 1 : t[k] = s[k]
  BY <1>1, <1>2, <1>3, FrontShape
<1>5. \A k \in 1 .. Len(s) - 1 : ~ s[k].quoted
  BY DEF Config
<1>6. \A k \in 1 .. Len(t) - 1 : ~ t[k].quoted
  <2>1. \A k \in 1 .. Len(t) - 1 : k \in 1 .. Len(s) - 1
    BY <1>1, <1>4
  <2> QED
    BY <1>4, <1>5, <2>1
<1>7. d = [Past(c) EXCEPT !.sections = t]
  <2>1. d = EndOrNext(l, c)
    BY DEF Line, Opens, Ends
  <2>2. EndOrNext(l, c) = [Past(c) EXCEPT !.sections = Front(Past(c).sections)]
    BY <1>1 DEF EndOrNext
  <2>3. Past(c).sections = s
    BY PastMoves
  <2> QED
    BY <1>3, <2>1, <2>2, <2>3
<1>8. Config(p, d) /\ Moved(c, d) /\ Same(c, d) /\ d.sections = t
  BY <1>4, <1>6, <1>7, WithSections
<1>9. ~ InQuotes(t)
  <2> SUFFICES ASSUME t # << >> PROVE ~ Last(t).quoted
    BY DEF InQuotes
  <2>1. Last(t) = t[Len(t)] /\ Len(t) >= 1
    BY <1>4, LastShape
  <2>2. Len(t) \in 1 .. Len(s) - 1
    BY <1>1, <1>4, <2>1
  <2> QED
    BY <1>4, <1>5, <2>1, <2>2
<1> QED
  BY <1>4, <1>8, <1>9

\* #elif and #else in a section of a group that is not included
LEMMA NestedEffect ==
  ASSUME NEW p, NEW c, Config(p, c), NEW l, l.d \in {"else", "elif"},
         ~ InQuotes(c.sections), ~ Enclosing(c.sections),
         Len(c.sections) # Last(c.files).below
  PROVE  Line(p, l, c) = Past(c)
<1>1. Line(p, l, c) = EndOrNext(l, c)
  BY DEF Line, Opens, Ends
<1>2. l.d # "endif"
  OBVIOUS
<1>3. EndOrNext(l, c) = Past(c)
  BY <1>2 DEF EndOrNext
<1> QED
  BY <1>1, <1>3

LEMMA NextEffect ==
  ASSUME NEW p, NEW c, Config(p, c), NEW l, l.d \in {"else", "elif"},
         ~ InQuotes(c.sections), Enclosing(c.sections), ~ Last(c.sections).last,
         Len(c.sections) > Last(c.files).below, Last(c.files).below \in Nat,
         Selected(l, c.macros) \in BOOLEAN,
         NEW d, d = Line(p, l, c)
  PROVE  /\ Config(p, d) /\ Moved(c, d) /\ Same(c, d)
         /\ Len(d.sections) = Len(c.sections)
         /\ \A k \in 1 .. Len(c.sections) - 1 : d.sections[k] = c.sections[k]
         /\ d.sections[Len(c.sections)].on
              <=> ~ c.sections[Len(c.sections)].taken /\ Selected(l, c.macros)
         /\ d.sections[Len(c.sections)].taken
              <=> c.sections[Len(c.sections)].taken \/ d.sections[Len(c.sections)].on
         /\ d.sections[Len(c.sections)].last <=> l.d = "else"
         /\ ~ InQuotes(d.sections)
<1> DEFINE s == c.sections
<1>1. s \in Seq(Group) /\ Len(s) \in Nat
  BY ElementShape DEF Config
<1>2. s # << >> /\ Len(s) >= 1
  BY <1>1
<1>3. Last(s) = s[Len(s)] /\ Last(s) \in Group
  BY <1>1, <1>2, LastShape
<1>4. PICK on : on = (~ Last(s).taken /\ Selected(l, c.macros))
  OBVIOUS
<1>5. PICK g : g = [on |-> on, taken |-> Last(s).taken \/ on, last |-> l.d = "else",
                    quoted |-> FALSE]
  OBVIOUS
<1>6. on \in BOOLEAN /\ Last(s).taken \in BOOLEAN
  BY <1>3, <1>4 DEF Group
<1>7. g \in Group /\ ~ g.quoted
  BY <1>5, <1>6 DEF Group
<1>8. /\ Front(s) \in Seq(Group) /\ Len(Front(s)) = Len(s) - 1
      /\ \A k \in 1 .. Len(s) - 1 : Front(s)[k] = s[k]
  BY <1>1, <1>2, FrontShape
<1>9. PICK t : t = Append(Front(s), g)
  OBVIOUS
<1>10. /\ t \in Seq(Group) /\ Len(t) = Len(s) - 1 + 1 /\ t[Len(s) - 1 + 1] = g
       /\ \A k \in 1 .. Len(s) - 1 : t[k] = s[k] /\ t # << >>
  BY <1>7, <1>8, <1>9, AppendShape
<1>11. Len(s) - 1 + 1 = Len(s)
  BY <1>1
<1>12. \A k \in 1 .. Len(t) - 1 : ~ t[k].quoted
  BY <1>10, <1>11 DEF Config
<1>13. d = [Past(c) EXCEPT !.sections = t]
  <2>1. d = EndOrNext(l, c)
    BY DEF Line, Opens, Ends
  <2>2. EndOrNext(l, c) = NextGroup(l, c)
    <3>1. l.d # "endif" /\ Len(s) # Last(c.files).below
      BY <1>1
    <3> QED
      BY <3>1 DEF EndOrNext
  <2>3. g = Section(on, Last(s).taken \/ on, l.d = "else")
    BY <1>5 DEF Section
  <2>4. NextGroup(l, c) = [Past(c) EXCEPT !.sections = Append(Front(Past(c).sections), g)]
    BY <1>4, <2>3 DEF NextGroup
  <2>5. Past(c).sections = s
    BY PastMoves
  <2> QED
    BY <1>9, <2>1, <2>2, <2>4, <2>5
<1>14. Config(p, d) /\ Moved(c, d) /\ Same(c, d) /\ d.sections = t
  BY <1>10, <1>12, <1>13, WithSections
<1>15. ~ InQuotes(t)
  <2>1. Last(t) = g
    BY <1>2, <1>10, <1>11 DEF Last
  <2> QED
    BY <1>7, <2>1 DEF InQuotes
<1>16. (g.on <=> on) /\ (g.taken <=> Last(s).taken \/ on) /\ (g.last <=> l.d = "else")
  BY <1>5, <1>6
<1>17. on <=> ~ Last(s).taken /\ Selected(l, c.macros)
  BY <1>4
<1> QED
  BY <1>3, <1>10, <1>11, <1>14, <1>15, <1>16, <1>17

\* A line that is no conditional, in a group that is not included
LEMMA IgnoreEffect ==
  ASSUME NEW p, NEW c, Config(p, c), NEW l, ~ Opens(l.d), ~ Ends(l.d),
         ~ Included(c.sections),
         NEW d, d = Line(p, l, c)
  PROVE  /\ Config(p, d) /\ Moved(c, d) /\ Same(c, d)
         /\ Len(d.sections) = Len(c.sections)
         /\ \A k \in 1 .. Len(c.sections) : /\ d.sections[k].on = c.sections[k].on
                                            /\ d.sections[k].taken = c.sections[k].taken
                                            /\ d.sections[k].last = c.sections[k].last
         /\ \A k \in 1 .. Len(c.sections) - 1 : d.sections[k] = c.sections[k]
         /\ InQuotes(d.sections) <=> (IF l.d = "quote" THEN ~ InQuotes(c.sections)
                                      ELSE InQuotes(c.sections))
<1> DEFINE s == c.sections
<1>1. s \in Seq(Group) /\ Len(s) \in Nat
  BY ElementShape DEF Config
<1>2. s # << >> /\ Len(s) >= 1
  BY <1>1 DEF Included
<1>3. d = Ignore(l, c)
  BY DEF Line, Opens, Ends
<1>4. CASE l.d # "quote"
  <2>1. d = Past(c)
    BY <1>3, <1>4 DEF Ignore
  <2>2. Config(p, d) /\ Moved(c, d) /\ Same(c, d) /\ d.sections = s
    BY <2>1, PastMoves
  <2> QED
    BY <1>4, <2>2
<1>5. CASE l.d = "quote"
  <2>1. Last(s) = s[Len(s)] /\ Last(s) \in Group
    BY <1>1, <1>2, LastShape
  <2>2. PICK g : g = Pair(Last(s))
    OBVIOUS
  <2>3. /\ g \in Group /\ g.on = Last(s).on /\ g.taken = Last(s).taken
        /\ g.last = Last(s).last /\ (g.quoted <=> ~ Last(s).quoted)
    BY <2>1, <2>2 DEF Group, Pair
  <2>4. /\ Front(s) \in Seq(Group) /\ Len(Front(s)) = Len(s) - 1
        /\ \A k \in 1 .. Len(s) - 1 : Front(s)[k] = s[k]
    BY <1>1, <1>2, FrontShape
  <2>5. PICK t : t = Append(Front(s), g)
    OBVIOUS
  <2>6. /\ t \in Seq(Group) /\ Len(t) = Len(s) - 1 + 1 /\ t[Len(s) - 1 + 1] = g
        /\ \A k \in 1 .. Len(s) - 1 : t[k] = s[k] /\ t # << >>
    BY <2>3, <2>4, <2>5, AppendShape
  <2>7. Len(s) - 1 + 1 = Len(s)
    BY <1>1
  <2>8. \A k \in 1 .. Len(t) - 1 : ~ t[k].quoted
    BY <2>6, <2>7 DEF Config
  <2>9. d = [Past(c) EXCEPT !.sections = t]
    <3>1. Ignore(l, c) = [Past(c) EXCEPT !.sections
                             = Append(Front(Past(c).sections), Pair(Last(Past(c).sections)))]
      BY <1>5 DEF Ignore
    <3>2. Past(c).sections = s
      BY PastMoves
    <3> QED
      BY <1>3, <2>2, <2>5, <3>1, <3>2
  <2>10. Config(p, d) /\ Moved(c, d) /\ Same(c, d) /\ d.sections = t
    BY <2>6, <2>8, <2>9, WithSections
  <2>11. InQuotes(t) <=> ~ InQuotes(s)
    <3>1. Last(t) = g
      BY <1>2, <2>6, <2>7 DEF Last
    <3>2. t # << >>
      BY <1>2, <2>6, <2>7
    <3> QED
      BY <1>2, <2>3, <3>1, <3>2 DEF InQuotes
  <2>12. \A k \in 1 .. Len(s) : k \in 1 .. Len(s) - 1 \/ k = Len(s)
    BY <1>1
  <2> QED
    BY <1>5, <2>1, <2>3, <2>6, <2>7, <2>10, <2>11, <2>12
<1> QED
  BY <1>4, <1>5

-----------------------------------------------------------------------------
(* The files: the reference has the same ones open, at the same lines, and    *)
(* its sections of each file are the conditionals open at its line.           *)

PlainTo(f, n) == \A k \in 1 .. n - 1 : Opens(f[k].d) \/ Ends(f[k].d) => Plain(f, k)

Level(c, n) == IF n < Len(c.files) THEN c.files[n + 1].below ELSE Len(c.sections)
LevelAt(p, g, c, n) ==
    LET f == p[g[n].path]
    IN  /\ c.files[n].path = g[n].path /\ c.files[n].pos = g[n].pos
        /\ g[n].name = g[n].path
        /\ c.files[n].below <= Level(c, n)
        /\ Level(c, n) = c.files[n].below + Depth(f, g[n].pos)
        /\ PlainTo(f, g[n].pos)
        /\ Plain(f, g[n].pos) <=> ~ (n = Len(g) /\ InQuotes(c.sections))
Levels(p, g, c) ==
    /\ Len(c.files) = Len(g)
    /\ \A n \in 1 .. Len(g) : LevelAt(p, g, c, n)
    /\ c.files[1].below = 0
    /\ \A m, n \in 1 .. Len(g) : g[m].id = g[n].id => m = n

\* file.c's stack when a line has been read
Advanced(g, h) ==
    /\ Len(h) = Len(g)
    /\ \A n \in 1 .. Len(g) :
          /\ h[n].path = g[n].path /\ h[n].name = g[n].name /\ h[n].id = g[n].id
          /\ h[n].pos = IF n = Len(g) THEN g[n].pos + 1 ELSE g[n].pos

LEMMA ConfigShape ==
  ASSUME NEW p, NEW c, Config(p, c)
  PROVE  /\ Len(c.files) \in Nat /\ Len(c.files) >= 1 /\ Len(c.sections) \in Nat
         /\ Last(c.files) = c.files[Len(c.files)]
         /\ \A n \in 1 .. Len(c.files) :
               c.files[n].pos \in Nat /\ c.files[n].below \in Nat
         /\ \A k \in 1 .. Len(c.sections) : c.sections[k] \in Group
         /\ c.sections # << >> => Last(c.sections) = c.sections[Len(c.sections)]
         /\ c.sections = << >> <=> Len(c.sections) = 0
<1>1. c.files \in Seq(OpenFileOf(p)) /\ c.files # << >> /\ c.sections \in Seq(Group)
  BY DEF Config
<1>2. \A n \in 1 .. Len(c.files) : c.files[n] \in OpenFileOf(p)
  BY <1>1, ElementShape
<1>3. /\ Len(c.files) \in Nat /\ Len(c.files) >= 1
      /\ Last(c.files) = c.files[Len(c.files)]
  BY <1>1, LastShape
<1>4. Len(c.sections) \in Nat /\ \A k \in 1 .. Len(c.sections) : c.sections[k] \in Group
  BY <1>1, ElementShape
<1>5. \A n \in 1 .. Len(c.files) : c.files[n].pos \in Nat /\ c.files[n].below \in Nat
  BY <1>2 DEF OpenFileOf
<1> QED
  BY <1>1, <1>3, <1>4, <1>5, LastShape

LEMMA PlainNext ==
  ASSUME NEW f, NEW n \in Nat, n # 0, PlainTo(f, n),
         Opens(f[n].d) \/ Ends(f[n].d) => Plain(f, n)
  PROVE  PlainTo(f, n + 1)
<1>1. \A k \in 1 .. (n + 1) - 1 : k \in 1 .. n - 1 \/ k = n
  OBVIOUS
<1> QED
  BY <1>1 DEF PlainTo

LEMMA LevelsRead ==
  ASSUME NEW p, NEW g, NEW o, Located(p, g, o), NEW c, Config(p, c), Levels(p, g, c),
         NEW l, l = p[g[Len(g)].path][g[Len(g)].pos],
         NEW d, Config(p, d), Moved(c, d),
         Opens(l.d) \/ Ends(l.d) => ~ InQuotes(c.sections),
         Len(d.sections) = Len(c.sections) + Added(l.d),
         Last(c.files).below <= Len(d.sections),
         InQuotes(d.sections) <=> (IF l.d = "quote" THEN ~ InQuotes(c.sections)
                                   ELSE InQuotes(c.sections)),
         NEW h, Advanced(g, h)
  PROVE  Levels(p, h, d)
<1> DEFINE N == Len(g)
           f == p[g[N].path]
<1>1. N \in Nat /\ N >= 1 /\ Len(c.files) = N /\ Len(h) = N /\ Len(d.files) = N
      /\ \A n \in 1 .. N : g[n].pos \in Nat /\ g[n].pos # 0
  <2>1. \A n \in 1 .. N : g[n].pos \in 1 .. Len(p[g[n].path]) + 1
                          /\ Len(p[g[n].path]) \in Nat
    BY StackShape
  <2>2. N \in Nat /\ N >= 1
    BY StackShape
  <2>3. Len(c.files) = N
    BY DEF Levels
  <2>4. Len(h) = N
    BY DEF Advanced
  <2>5. Len(d.files) = N
    BY <2>3 DEF Moved
  <2>6. ASSUME NEW n \in 1 .. N PROVE g[n].pos \in Nat /\ g[n].pos # 0
    BY <2>1, <2>6
  <2> QED
    BY <2>2, <2>3, <2>4, <2>5, <2>6
<1>2. \A n \in 1 .. N : c.files[n].below \in Nat
  BY <1>1, ConfigShape
<1>3. \A n \in 1 .. N :
        /\ d.files[n].path = c.files[n].path /\ d.files[n].below = c.files[n].below
        /\ d.files[n].pos = IF n = N THEN c.files[n].pos + 1 ELSE c.files[n].pos
  BY <1>1 DEF Moved
<1>4. \A n \in 1 .. N :
          /\ h[n].path = g[n].path /\ h[n].name = g[n].name /\ h[n].id = g[n].id
          /\ h[n].pos = IF n = N THEN g[n].pos + 1 ELSE g[n].pos
  BY DEF Advanced
<1>5. \A n \in 1 .. N : LevelAt(p, g, c, n)
  BY DEF Levels
<1>6. ASSUME NEW n \in 1 .. N, n # N
      PROVE  LevelAt(p, h, d, n)
  <2>1. n + 1 \in 1 .. N /\ n < N
    BY <1>1, <1>6
  <2>2. Level(d, n) = Level(c, n)
    BY <1>1, <1>3, <2>1 DEF Level
  <2>3. LevelAt(p, g, c, n)
    BY <1>5
  <2>4. /\ d.files[n].path = c.files[n].path /\ d.files[n].below = c.files[n].below
        /\ d.files[n].pos = c.files[n].pos
        /\ h[n].path = g[n].path /\ h[n].name = g[n].name /\ h[n].pos = g[n].pos
    BY <1>3, <1>4, <1>6
  <2> QED
    BY <1>1, <1>6, <2>2, <2>3, <2>4 DEF LevelAt
<1>7. LevelAt(p, h, d, N)
  <2>1. N \in 1 .. N
    BY <1>1
  <2>2. PICK q : q = g[N].pos
    OBVIOUS
  <2>3. q \in Nat /\ q # 0 /\ l = f[q]
    BY <1>1, <2>1, <2>2
  <2>4. LevelAt(p, g, c, N)
    BY <1>5, <2>1
  <2>5. /\ c.files[N].path = g[N].path /\ c.files[N].pos = q /\ g[N].name = g[N].path
        /\ Len(c.sections) = c.files[N].below + Depth(f, q)
        /\ PlainTo(f, q) /\ (Plain(f, q) <=> ~ InQuotes(c.sections))
    BY <1>1, <2>2, <2>4 DEF LevelAt, Level
  <2>6. /\ Depth(f, q) \in Int /\ Depth(f, q + 1) \in Int
        /\ Depth(f, q + 1) = Depth(f, q) + (IF Plain(f, q) THEN Added(f[q].d) ELSE 0)
        /\ Plain(f, q + 1) <=> (IF f[q].d = "quote" THEN ~ Plain(f, q) ELSE Plain(f, q))
    BY <2>3, DepthNext
  <2>7. Opens(f[q].d) \/ Ends(f[q].d) => Plain(f, q)
    BY <2>3, <2>5
  <2>8. PlainTo(f, q + 1)
    BY <2>3, <2>5, <2>7, PlainNext
  <2>9. Depth(f, q + 1) = Depth(f, q) + Added(l.d)
    <3>1. CASE Plain(f, q)
      BY <2>3, <2>6, <3>1
    <3>2. CASE ~ Plain(f, q)
      <4>1. Added(l.d) = 0
        BY <2>3, <2>7, <3>2 DEF Added, Opens, Ends
      <4> QED
        BY <2>6, <3>2, <4>1
    <3> QED
      BY <3>1, <3>2
  <2>10. Added(l.d) \in Int
    BY DEF Added
  <2>11. Len(d.sections) = c.files[N].below + Depth(f, q + 1)
    <3>1. Len(c.sections) \in Nat /\ c.files[N].below \in Nat
      BY <1>2, <2>1, ConfigShape
    <3>2. Len(d.sections) = c.files[N].below + Depth(f, q) + Added(l.d)
      BY <2>5
    <3> QED
      BY <2>6, <2>9, <2>10, <3>1, <3>2
  <2>12. Plain(f, q + 1) <=> ~ InQuotes(d.sections)
    BY <2>3, <2>5, <2>6
  <2>13. Level(d, N) = Len(d.sections)
    BY <1>1 DEF Level
  <2>14. c.files[N].below <= Len(d.sections)
    BY <1>1, ConfigShape
  <2>15. /\ d.files[N].path = g[N].path /\ d.files[N].below = c.files[N].below
         /\ d.files[N].pos = q + 1
         /\ h[N].path = g[N].path /\ h[N].name = g[N].path /\ h[N].pos = q + 1
    BY <1>3, <1>4, <2>1, <2>2, <2>5
  <2> QED
    BY <1>1, <2>8, <2>11, <2>12, <2>13, <2>14, <2>15 DEF LevelAt
<1>8. \A n \in 1 .. N : LevelAt(p, h, d, n)
  BY <1>6, <1>7
<1>9. d.files[1].below = 0
  <2>1. 1 \in 1 .. N /\ c.files[1].below = 0
    BY <1>1 DEF Levels
  <2> QED
    BY <1>3, <2>1
<1>10. \A m, n \in 1 .. N : h[m].id = h[n].id => m = n
  BY <1>4 DEF Levels
<1> QED
  BY <1>1, <1>8, <1>9, <1>10 DEF Levels

LEMMA LevelsPop ==
  ASSUME NEW p, NEW g, NEW o, Located(p, g, o), NEW c, Config(p, c), Levels(p, g, c),
         Len(g) > 1, Len(c.sections) = Last(c.files).below, ~ InQuotes(c.sections),
         NEW d, Config(p, d), d.sections = c.sections, d.files = Front(c.files),
         NEW h, Len(h) = Len(g) - 1, \A n \in 1 .. Len(g) - 1 : h[n] = g[n]
  PROVE  Levels(p, h, d)
<1> DEFINE N == Len(g)
<1>1. /\ N \in Nat /\ N - 1 >= 1 /\ N - 1 \in Nat /\ Len(c.files) = N
      /\ Len(h) = N - 1 /\ Len(d.files) = N - 1
      /\ \A n \in 1 .. N - 1 : d.files[n] = c.files[n]
  <2>1. c.files \in Seq(OpenFileOf(p)) /\ c.files # << >>
    BY DEF Config
  <2>2. Len(Front(c.files)) = Len(c.files) - 1
        /\ \A n \in 1 .. Len(c.files) - 1 : Front(c.files)[n] = c.files[n]
    BY <2>1, FrontShape
  <2> QED
    BY <2>2, StackShape DEF Levels
<1>2. \A n \in 1 .. N : LevelAt(p, g, c, n)
  BY DEF Levels
<1>3. ASSUME NEW n \in 1 .. N - 1
      PROVE  LevelAt(p, h, d, n)
  <2>1. n \in 1 .. N /\ n < N /\ h[n] = g[n] /\ d.files[n] = c.files[n]
    BY <1>1
  <2>2. Level(d, n) = Level(c, n)
    <3>1. CASE n < N - 1
      <4>1. n + 1 \in 1 .. N - 1
        BY <1>1, <3>1
      <4> QED
        BY <1>1, <2>1, <3>1, <4>1 DEF Level
    <3>2. CASE n = N - 1
      <4>1. n + 1 = N /\ ~ (n < N - 1)
        BY <1>1, <3>2
      <4>2. Level(d, n) = Len(c.sections) /\ Level(c, n) = c.files[N].below
        BY <1>1, <2>1, <4>1 DEF Level
      <4>3. Last(c.files) = c.files[N]
        BY <1>1, ConfigShape
      <4> QED
        BY <4>2, <4>3
    <3> QED
      BY <1>1, <3>1, <3>2
  <2>3. LevelAt(p, g, c, n)
    BY <1>2, <2>1
  <2> QED
    BY <1>1, <2>1, <2>2, <2>3 DEF LevelAt
<1>4. d.files[1].below = 0
  <2>1. 1 \in 1 .. N - 1
    BY <1>1
  <2> QED
    BY <1>1, <2>1 DEF Levels
<1>5. \A m, n \in 1 .. N - 1 : h[m].id = h[n].id => m = n
  <2>1. \A n \in 1 .. N - 1 : n \in 1 .. N
    BY <1>1
  <2> QED
    BY <1>1, <2>1 DEF Levels
<1> QED
  BY <1>1, <1>3, <1>4, <1>5 DEF Levels

\* The line read is an #include, and the file it names is opened.
Entered(g, h, q, o) ==
    /\ Len(h) = Len(g) + 1
    /\ \A n \in 1 .. Len(g) :
          /\ h[n].path = g[n].path /\ h[n].name = g[n].name /\ h[n].id = g[n].id
          /\ h[n].pos = IF n = Len(g) THEN g[n].pos + 1 ELSE g[n].pos
    /\ h[Len(g) + 1] = [path |-> q, name |-> q, pos |-> 1, id |-> o]
Descended(c, d, q) ==
    /\ Len(d.files) = Len(c.files) + 1
    /\ \A n \in 1 .. Len(c.files) :
          /\ d.files[n].path = c.files[n].path /\ d.files[n].below = c.files[n].below
          /\ d.files[n].pos = IF n = Len(c.files) THEN c.files[n].pos + 1 ELSE c.files[n].pos
    /\ d.files[Len(c.files) + 1] = [path |-> q, pos |-> 1, below |-> Len(c.sections)]
    /\ d.sections = c.sections

LEMMA LevelsOpen ==
  ASSUME NEW p, NEW g, NEW o, Located(p, g, o), NEW c, Config(p, c), Levels(p, g, c),
         NEW l, l = p[g[Len(g)].path][g[Len(g)].pos],
         ~ Opens(l.d), ~ Ends(l.d), l.d # "quote", ~ InQuotes(c.sections),
         NEW q, NEW d, Config(p, d), Descended(c, d, q),
         NEW h, Entered(g, h, q, o)
  PROVE  Levels(p, h, d)
<1> DEFINE N == Len(g)
           f == p[g[N].path]
<1>1. N \in Nat /\ N >= 1 /\ Len(c.files) = N /\ Len(h) = N + 1 /\ Len(d.files) = N + 1
      /\ d.sections = c.sections /\ Len(c.sections) \in Nat
      /\ \A n \in 1 .. N : g[n].pos \in Nat /\ g[n].pos # 0
  <2>1. \A n \in 1 .. N : g[n].pos \in 1 .. Len(p[g[n].path]) + 1
                          /\ Len(p[g[n].path]) \in Nat
    BY StackShape
  <2>2. N \in Nat /\ N >= 1
    BY StackShape
  <2>3. Len(c.files) = N
    BY DEF Levels
  <2>4. Len(h) = N + 1
    BY DEF Entered
  <2>5. Len(d.files) = N + 1 /\ d.sections = c.sections
    BY <2>3 DEF Descended
  <2>6. Len(c.sections) \in Nat
    BY ConfigShape
  <2>7. ASSUME NEW n \in 1 .. N PROVE g[n].pos \in Nat /\ g[n].pos # 0
    BY <2>1, <2>7
  <2> QED
    BY <2>2, <2>3, <2>4, <2>5, <2>6, <2>7
<1>2. \A n \in 1 .. N : c.files[n].below \in Nat
  BY <1>1, ConfigShape
<1>3. \A n \in 1 .. N :
        /\ d.files[n].path = c.files[n].path /\ d.files[n].below = c.files[n].below
        /\ d.files[n].pos = IF n = N THEN c.files[n].pos + 1 ELSE c.files[n].pos
  BY <1>1 DEF Descended
<1>4. \A n \in 1 .. N :
          /\ h[n].path = g[n].path /\ h[n].name = g[n].name /\ h[n].id = g[n].id
          /\ h[n].pos = IF n = N THEN g[n].pos + 1 ELSE g[n].pos
  BY DEF Entered
<1>5. /\ h[N + 1].path = q /\ h[N + 1].name = q /\ h[N + 1].pos = 1 /\ h[N + 1].id = o
      /\ d.files[N + 1].path = q /\ d.files[N + 1].pos = 1
      /\ d.files[N + 1].below = Len(c.sections)
  <2>1. h[N + 1] = [path |-> q, name |-> q, pos |-> 1, id |-> o]
    BY DEF Entered
  <2>2. d.files[N + 1] = [path |-> q, pos |-> 1, below |-> Len(c.sections)]
    BY <1>1 DEF Descended
  <2> QED
    BY <2>1, <2>2
<1>6. \A n \in 1 .. N : LevelAt(p, g, c, n)
  BY DEF Levels
<1>7. ASSUME NEW n \in 1 .. N, n # N
      PROVE  LevelAt(p, h, d, n)
  <2>1. n + 1 \in 1 .. N /\ n < N /\ n < N + 1 /\ n # N + 1
    BY <1>1, <1>7
  <2>2. Level(d, n) = Level(c, n)
    BY <1>1, <1>3, <2>1 DEF Level
  <2>3. LevelAt(p, g, c, n)
    BY <1>6
  <2>4. /\ d.files[n].path = c.files[n].path /\ d.files[n].below = c.files[n].below
        /\ d.files[n].pos = c.files[n].pos
        /\ h[n].path = g[n].path /\ h[n].name = g[n].name /\ h[n].pos = g[n].pos
    BY <1>3, <1>4, <1>7
  <2> QED
    BY <1>1, <1>7, <2>1, <2>2, <2>3, <2>4 DEF LevelAt
<1>8. LevelAt(p, h, d, N)
  <2>1. N \in 1 .. N
    BY <1>1
  <2>2. PICK a : a = g[N].pos
    OBVIOUS
  <2>3. a \in Nat /\ a # 0 /\ l = f[a]
    BY <1>1, <2>1, <2>2
  <2>4. LevelAt(p, g, c, N)
    BY <1>6, <2>1
  <2>5. /\ c.files[N].path = g[N].path /\ c.files[N].pos = a /\ g[N].name = g[N].path
        /\ Len(c.sections) = c.files[N].below + Depth(f, a)
        /\ c.files[N].below <= Len(c.sections)
        /\ PlainTo(f, a) /\ Plain(f, a)
    BY <1>1, <2>2, <2>4 DEF LevelAt, Level
  <2>6. /\ Depth(f, a) \in Int
        /\ Depth(f, a + 1) = Depth(f, a) + (IF Plain(f, a) THEN Added(f[a].d) ELSE 0)
        /\ Plain(f, a + 1) <=> (IF f[a].d = "quote" THEN ~ Plain(f, a) ELSE Plain(f, a))
    BY <2>3, DepthNext
  <2>7. Added(l.d) = 0
    BY DEF Added, Opens, Ends
  <2>8. Depth(f, a + 1) = Depth(f, a) /\ Plain(f, a + 1)
    BY <2>3, <2>5, <2>6, <2>7
  <2>9. PlainTo(f, a + 1)
    BY <2>3, <2>5, PlainNext
  <2>10. Level(d, N) = Len(c.sections)
    <3>1. N < Len(d.files)
      BY <1>1
    <3> QED
      BY <1>5, <3>1 DEF Level
  <2>11. /\ d.files[N].path = g[N].path /\ d.files[N].below = c.files[N].below
         /\ d.files[N].pos = a + 1
         /\ h[N].path = g[N].path /\ h[N].name = g[N].path /\ h[N].pos = a + 1
    BY <1>3, <1>4, <2>1, <2>2, <2>5
  <2>12. N # Len(h)
    BY <1>1
  <2> QED
    BY <2>5, <2>8, <2>9, <2>10, <2>11, <2>12 DEF LevelAt
<1>9. LevelAt(p, h, d, N + 1)
  <2>1. Level(d, N + 1) = Len(c.sections)
    BY <1>1 DEF Level
  <2>2. PlainTo(p[q], 1)
    BY DEF PlainTo
  <2>3. Depth(p[q], 1) = 0 /\ Plain(p[q], 1)
    BY DepthStart
  <2>4. ~ InQuotes(d.sections)
    BY <1>1
  <2> QED
    BY <1>1, <1>5, <2>1, <2>2, <2>3, <2>4 DEF LevelAt
<1>10. \A n \in 1 .. N + 1 : n \in 1 .. N \/ n = N + 1
  BY <1>1
<1>11. \A n \in 1 .. N + 1 : LevelAt(p, h, d, n)
  BY <1>7, <1>8, <1>9, <1>10
<1>12. d.files[1].below = 0
  <2>1. 1 \in 1 .. N /\ c.files[1].below = 0
    BY <1>1 DEF Levels
  <2> QED
    BY <1>3, <2>1
<1>13. \A m, n \in 1 .. N + 1 : h[m].id = h[n].id => m = n
  <2>1. \A n \in 1 .. N : h[n].id # o
    <3>1. \A n \in 1 .. N : g[n].id \in 0 .. o - 1
      BY StackShape
    <3>2. o \in Nat
      BY DEF Located
    <3> QED
      BY <1>4, <3>1, <3>2
  <2>2. \A m, n \in 1 .. N : h[m].id = h[n].id => m = n
    BY <1>4 DEF Levels
  <2> QED
    BY <1>5, <1>10, <2>1, <2>2
<1> QED
  BY <1>1, <1>11, <1>12, <1>13 DEF Levels

-----------------------------------------------------------------------------
(* The lines of a file that is all one group guarded by m, and those up to a *)
(* line within the group: where m is defined none of them has an effect.     *)

Skimmed(f, m, k) ==
    \/ f[k].d = "blank" /\ Depth(f, k) = 0
    \/ f[k].d = "ifndef" /\ f[k].m = m /\ Depth(f, k) = 0
    \/ Depth(f, k) >= 1 /\ (f[k].d \in {"else", "elif"} => Depth(f, k) >= 2)
SkimmedTo(f, m, n) == \A k \in 1 .. n - 1 : Skimmed(f, m, k)
WholeGuard(f, m) == /\ SkimmedTo(f, m, Len(f) + 1) /\ PlainTo(f, Len(f) + 1)
                    /\ Depth(f, Len(f) + 1) = 0 /\ Plain(f, Len(f) + 1)

LEMMA SkimNext ==
  ASSUME NEW f, NEW m, NEW n \in Nat, n # 0, SkimmedTo(f, m, n), Skimmed(f, m, n)
  PROVE  SkimmedTo(f, m, n + 1)
<1>1. \A k \in 1 .. (n + 1) - 1 : k \in 1 .. n - 1 \/ k = n
  OBVIOUS
<1> QED
  BY <1>1 DEF SkimmedTo

LEMMA BlankRun ==
  ASSUME NEW f, NEW i \in Nat, i # 0, NEW n \in Nat, i <= n,
         \A k \in i .. n - 1 : f[k].d = "blank"
  PROVE  \A k \in i .. n : Depth(f, k) = Depth(f, i) /\ (Plain(f, k) <=> Plain(f, i))
<1> DEFINE P(j) == i + j <= n => /\ Depth(f, i + j) = Depth(f, i)
                                 /\ Plain(f, i + j) <=> Plain(f, i)
           S == {j \in Nat : P(j)}
<1>1. P(0)
  <2>1. i + 0 = i
    OBVIOUS
  <2> QED
    BY <2>1
<1>2. ASSUME NEW j \in Nat, P(j) PROVE P(j + 1)
  <2> SUFFICES ASSUME i + (j + 1) <= n
               PROVE  /\ Depth(f, i + (j + 1)) = Depth(f, i)
                      /\ Plain(f, i + (j + 1)) <=> Plain(f, i)
    OBVIOUS
  <2>1. PICK k : k = i + j
    OBVIOUS
  <2>2. k \in Nat /\ k # 0 /\ k <= n /\ k \in i .. n - 1 /\ i + (j + 1) = k + 1
    BY <2>1
  <2>3. Depth(f, k) = Depth(f, i) /\ (Plain(f, k) <=> Plain(f, i))
    BY <1>2, <2>1, <2>2
  <2>4. f[k].d = "blank"
    BY <2>2
  <2>5. /\ Depth(f, k) \in Int
        /\ Depth(f, k + 1) = Depth(f, k) + (IF Plain(f, k) THEN Added(f[k].d) ELSE 0)
        /\ Plain(f, k + 1) <=> (IF f[k].d = "quote" THEN ~ Plain(f, k) ELSE Plain(f, k))
    BY <2>2, DepthNext
  <2>6. Added(f[k].d) = 0
    BY <2>4 DEF Added, Opens
  <2> QED
    BY <2>2, <2>3, <2>4, <2>5, <2>6
<1> HIDE DEF P
<1>3. 0 \in S /\ \A j \in Nat : j \in S => j + 1 \in S
  <2>1. \A j \in S : j + 1 \in S
    BY <1>2
  <2>2. 0 \in S
    BY <1>1
  <2> QED
    BY <2>1, <2>2
<1> HIDE DEF S
<1>4. Nat \subseteq S
  BY <1>3, NatSetInduction
<1>5. \A j \in Nat : P(j)
  BY <1>4 DEF S
<1> SUFFICES ASSUME NEW k \in i .. n
             PROVE  Depth(f, k) = Depth(f, i) /\ (Plain(f, k) <=> Plain(f, i))
  OBVIOUS
<1>6. PICK j : j = k - i
  OBVIOUS
<1>7. j \in Nat /\ i + j = k /\ i + j <= n
  BY <1>6
<1>8. P(j)
  BY <1>5, <1>7
<1> QED
  BY <1>7, <1>8 DEF P

\* The #endif of the guarded group has been read, and blank lines follow it.
LEMMA GuardEnds ==
  ASSUME NEW f, NEW m, NEW q \in Nat, q # 0, Len(f) \in Nat, q <= Len(f),
         SkimmedTo(f, m, q), PlainTo(f, q), Plain(f, q), Depth(f, q) = 1,
         f[q].d = "endif", \A k \in q + 1 .. Len(f) : f[k].d = "blank"
  PROVE  WholeGuard(f, m)
<1> DEFINE n == Len(f) + 1
<1>1. Depth(f, q + 1) = 0 /\ Plain(f, q + 1)
  <2>1. /\ Depth(f, q + 1) = Depth(f, q) + (IF Plain(f, q) THEN Added(f[q].d) ELSE 0)
        /\ Plain(f, q + 1) <=> (IF f[q].d = "quote" THEN ~ Plain(f, q) ELSE Plain(f, q))
    BY DepthNext
  <2>2. Added(f[q].d) = -1
    BY DEF Added, Opens
  <2> QED
    BY <2>1, <2>2
<1>2. \A k \in q + 1 .. n : Depth(f, k) = 0 /\ Plain(f, k)
  <2>1. q + 1 \in Nat /\ q + 1 # 0 /\ n \in Nat /\ q + 1 <= n /\ n - 1 = Len(f)
    OBVIOUS
  <2>2. \A k \in q + 1 .. n : Depth(f, k) = Depth(f, q + 1) /\ (Plain(f, k) <=> Plain(f, q + 1))
    BY <2>1, BlankRun
  <2> QED
    BY <1>1, <2>2
<1>3. SkimmedTo(f, m, n) /\ PlainTo(f, n)
  <2> SUFFICES ASSUME NEW k \in 1 .. n - 1
               PROVE  Skimmed(f, m, k) /\ (Opens(f[k].d) \/ Ends(f[k].d) => Plain(f, k))
    BY Zenon DEF SkimmedTo, PlainTo
  <2>1. CASE k \in 1 .. q - 1
    BY <2>1 DEF SkimmedTo, PlainTo
  <2>2. CASE k = q
    BY <2>2 DEF Skimmed
  <2>3. CASE k \in q + 1 .. Len(f)
    BY <1>2, <2>3 DEF Skimmed, Opens, Ends
  <2> QED
    BY <2>1, <2>2, <2>3
<1>4. n \in q + 1 .. n
  OBVIOUS
<1> QED
  BY <1>2, <1>3, <1>4 DEF WholeGuard

-----------------------------------------------------------------------------
(* Reading such a file *)

Skim(p, b, e, k) ==
    LET N == Len(b.files)
        B == Len(b.sections)
        f == p[b.files[N].path]
    IN  /\ Config(p, e) /\ Same(b, e)
        /\ Len(e.files) = N
        /\ \A n \in 1 .. N : /\ e.files[n].path = b.files[n].path
                             /\ e.files[n].below = b.files[n].below
                             /\ e.files[n].pos = IF n = N THEN k ELSE b.files[n].pos
        /\ Len(e.sections) = B + Depth(f, k)
        /\ \A i \in 1 .. Len(e.sections) : IF i <= B THEN e.sections[i] = b.sections[i]
                                           ELSE ~ e.sections[i].on
        /\ InQuotes(e.sections) <=> ~ Plain(f, k)

LEMMA SkimStep ==
  ASSUME NEW p, NEW b, Config(p, b), b.status = "reading",
         Included(b.sections), Len(p[Last(b.files).path]) \in Nat,
         Last(b.files).below = Len(b.sections),
         NEW m, m \in b.macros, WholeGuard(p[Last(b.files).path], m),
         NEW k \in 1 .. Len(p[Last(b.files).path]), NEW e, Skim(p, b, e, k)
  PROVE  Skim(p, b, Step(p, e), k + 1)
<1> DEFINE N == Len(b.files)
           B == Len(b.sections)
<1>0. PICK f : f = p[Last(b.files).path]
  OBVIOUS
<1>1. /\ N \in Nat /\ N >= 1 /\ B \in Nat /\ f = p[b.files[N].path]
      /\ b.files[N].below = B /\ k \in Nat /\ k # 0 /\ k <= Len(f)
      /\ Len(f) \in Nat /\ WholeGuard(f, m)
  BY <1>0, ConfigShape
<1>2. /\ Config(p, e) /\ Same(b, e) /\ Len(e.files) = N
      /\ \A n \in 1 .. N : /\ e.files[n].path = b.files[n].path
                           /\ e.files[n].below = b.files[n].below
                           /\ e.files[n].pos = IF n = N THEN k ELSE b.files[n].pos
      /\ Len(e.sections) = B + Depth(f, k)
      /\ \A i \in 1 .. Len(e.sections) : IF i <= B THEN e.sections[i] = b.sections[i]
                                         ELSE ~ e.sections[i].on
      /\ InQuotes(e.sections) <=> ~ Plain(f, k)
  BY <1>1 DEF Skim
<1>4. /\ Last(e.files).path = b.files[N].path /\ Last(e.files).pos = k
      /\ Last(e.files).below = B
      /\ Len(e.sections) \in Nat /\ N \in 1 .. N
      /\ e.sections # << >> => Last(e.sections) = e.sections[Len(e.sections)]
      /\ e.sections = << >> <=> Len(e.sections) = 0
  <2>1. Last(e.files) = e.files[N] /\ N \in 1 .. N
    BY <1>1, <1>2, ConfigShape
  <2> QED
    BY <1>1, <1>2, <2>1, ConfigShape
<1>3. PICK l : l = f[k]
  OBVIOUS
<1>5. PICK d : d = Line(p, l, e)
  OBVIOUS
<1> SUFFICES Skim(p, b, d, k + 1)
  <2>1. e.status = "reading"
    BY <1>2 DEF Same
  <2>2. ~ (k > Len(f))
    BY <1>1
  <2>3. Step(p, e) = Line(p, l, e)
    BY <1>1, <1>3, <1>4, <2>1, <2>2 DEF Step
  <2> QED
    BY <1>5, <2>3
<1>6. /\ Skimmed(f, m, k) /\ (Opens(l.d) \/ Ends(l.d) => Plain(f, k))
  <2>1. k \in 1 .. (Len(f) + 1) - 1
    BY <1>1
  <2> QED
    BY <1>1, <1>3, <2>1 DEF WholeGuard, SkimmedTo, PlainTo
<1>7. /\ Depth(f, k) \in Int /\ Depth(f, k + 1) \in Int
      /\ Depth(f, k + 1) = Depth(f, k) + (IF Plain(f, k) THEN Added(l.d) ELSE 0)
      /\ Plain(f, k + 1) <=> (IF l.d = "quote" THEN ~ Plain(f, k) ELSE Plain(f, k))
  BY <1>1, <1>3, DepthNext
<1> Config(p, e)
  BY <1>2
\* it is enough to follow the sections
<1>8. ASSUME Config(p, d), Moved(e, d), Same(e, d),
             Len(d.sections) = B + Depth(f, k + 1),
             \A i \in 1 .. Len(d.sections) : IF i <= B THEN d.sections[i] = b.sections[i]
                                             ELSE ~ d.sections[i].on,
             InQuotes(d.sections) <=> ~ Plain(f, k + 1)
      PROVE  Skim(p, b, d, k + 1)
  <2>1. Same(b, d)
    BY <1>2, <1>8 DEF Same
  <2>2. /\ Len(d.files) = N
        /\ \A n \in 1 .. N : /\ d.files[n].path = b.files[n].path
                             /\ d.files[n].below = b.files[n].below
                             /\ d.files[n].pos = IF n = N THEN k + 1 ELSE b.files[n].pos
    BY <1>2, <1>8 DEF Moved
  <2> QED
    BY <1>1, <1>8, <2>1, <2>2 DEF Skim
<1>9. CASE Depth(f, k) = 0
  <2>1. Len(e.sections) = B /\ \A i \in 1 .. B : e.sections[i] = b.sections[i]
    BY <1>1, <1>2, <1>9
  <2>2. Included(e.sections)
    <3>1. CASE B = 0
      BY <1>4, <2>1, <3>1 DEF Included
    <3>2. CASE B # 0
      <4>1. B \in 1 .. B
        BY <1>1, <3>2
      <4>2. Last(b.sections) = b.sections[B] /\ b.sections # << >>
        BY <3>2, ConfigShape
      <4>3. Last(e.sections) = Last(b.sections)
        BY <1>4, <2>1, <3>2, <4>1, <4>2
      <4> QED
        BY <4>2, <4>3 DEF Included
    <3> QED
      BY <3>1, <3>2
  <2>3. CASE l.d = "blank"
    <3>1. d = Past(e)
      <4>1. d = Effect(p, l, e)
        BY <1>5, <2>2, <2>3 DEF Line, Opens, Ends
      <4> QED
        BY <2>3, <4>1 DEF Effect
    <3>2. Config(p, d) /\ Moved(e, d) /\ Same(e, d) /\ d.sections = e.sections
      BY <1>2, <3>1, PastMoves
    <3>3. Added(l.d) = 0 /\ l.d # "quote"
      BY <2>3 DEF Added, Opens
    <3> QED
      BY <1>1, <1>2, <1>7, <1>8, <1>9, <2>1, <3>2, <3>3
  <2>4. CASE l.d = "ifndef" /\ l.m = m
    <3>1. Opens(l.d) /\ Plain(f, k) /\ ~ InQuotes(e.sections)
      BY <1>2, <1>6, <2>4 DEF Opens
    <3>2. Selected(l, e.macros) = FALSE
      <4>1. e.macros = b.macros
        BY <1>2 DEF Same
      <4> QED
        BY <2>4, <4>1 DEF Selected
    <3>3. /\ Config(p, d) /\ Moved(e, d) /\ Same(e, d)
          /\ Len(d.sections) = B + 1
          /\ \A i \in 1 .. B : d.sections[i] = e.sections[i]
          /\ ~ d.sections[B + 1].on
          /\ ~ InQuotes(d.sections)
      <4>1. Included(e.sections) => Selected(l, e.macros) \in BOOLEAN
        BY <3>2
      <4>2. /\ Config(p, d) /\ Moved(e, d) /\ Same(e, d)
            /\ Len(d.sections) = Len(e.sections) + 1
            /\ \A i \in 1 .. Len(e.sections) : d.sections[i] = e.sections[i]
            /\ d.sections[Len(e.sections) + 1].on
                 <=> Included(e.sections) /\ Selected(l, e.macros)
            /\ ~ InQuotes(d.sections)
        BY <1>5, <3>1, <4>1, OpenEffect
      <4> QED
        BY <2>1, <3>2, <4>2
    <3>4. Added(l.d) = 1 /\ l.d # "quote"
      BY <2>4 DEF Added, Opens
    <3>5. Depth(f, k + 1) = 1 /\ Plain(f, k + 1)
      BY <1>7, <1>9, <3>1, <3>4
    <3>6. \A i \in 1 .. B + 1 : IF i <= B THEN d.sections[i] = b.sections[i]
                                ELSE ~ d.sections[i].on
      <4>1. \A i \in 1 .. B + 1 : i \in 1 .. B \/ (i = B + 1 /\ ~ (i <= B))
        BY <1>1
      <4> QED
        BY <2>1, <3>3, <4>1
    <3> QED
      BY <1>8, <3>3, <3>5, <3>6
  <2> QED
    BY <1>3, <1>6, <1>9, <2>3, <2>4 DEF Skimmed
<1>10. CASE Depth(f, k) >= 1 /\ (l.d \in {"else", "elif"} => Depth(f, k) >= 2)
  <2> DEFINE M == Len(e.sections)
  <2>1. M \in Nat /\ M > B /\ M >= 1 /\ e.sections # << >> /\ M \in 1 .. M
    <3> DEFINE D == Depth(f, k)
    <3>1. M = B + D /\ B \in Nat /\ D \in Int /\ M \in Nat
      BY <1>1, <1>2, <1>4, <1>7
    <3>2. D >= 1
      BY <1>10
    <3>3. e.sections = << >> => M = 0
      BY <1>4
    <3> HIDE DEF D, M
    <3>4. M > B /\ M >= 1 /\ M \in 1 .. M
      BY <3>1, <3>2
    <3> QED
      BY <3>1, <3>3, <3>4
  <2>2. ~ Included(e.sections)
    <3>1. Last(e.sections) = e.sections[M] /\ ~ (M <= B)
      BY <1>1, <1>4, <2>1
    <3> QED
      BY <1>2, <2>1, <3>1 DEF Included
  <2>3. CASE Opens(l.d)
    <3>1. Plain(f, k) /\ ~ InQuotes(e.sections) /\ Added(l.d) = 1 /\ l.d # "quote"
      BY <1>2, <1>6, <2>3 DEF Opens, Added
    <3>2. /\ Config(p, d) /\ Moved(e, d) /\ Same(e, d)
          /\ Len(d.sections) = M + 1
          /\ \A i \in 1 .. M : d.sections[i] = e.sections[i]
          /\ d.sections[M + 1].on <=> Included(e.sections) /\ Selected(l, e.macros)
          /\ ~ InQuotes(d.sections)
      <4>1. Included(e.sections) => Selected(l, e.macros) \in BOOLEAN
        BY <2>2
      <4> QED
        BY <1>5, <2>3, <3>1, <4>1, OpenEffect
    <3>3. ~ d.sections[M + 1].on
      BY <2>2, <3>2
    <3>4. Len(d.sections) = B + Depth(f, k + 1) /\ Plain(f, k + 1)
      <4>1. Depth(f, k + 1) = Depth(f, k) + 1 /\ Plain(f, k + 1)
        BY <1>7, <3>1
      <4>2. Len(e.sections) = B + Depth(f, k)
        BY <1>2
      <4>3. Len(d.sections) = Len(e.sections) + 1
        BY <3>2
      <4>4. B \in Int /\ Depth(f, k) \in Int
        BY <1>1, <1>7
      <4> QED
        BY <4>1, <4>2, <4>3, <4>4
    <3>5. \A i \in 1 .. M + 1 : IF i <= B THEN d.sections[i] = b.sections[i]
                                ELSE ~ d.sections[i].on
      <4>1. \A i \in 1 .. M + 1 : i \in 1 .. M \/ (i = M + 1 /\ ~ (i <= B))
        BY <1>1, <2>1
      <4> QED
        BY <1>2, <3>2, <3>3, <4>1
    <3> QED
      BY <1>8, <3>2, <3>4, <3>5
  <2>4. CASE l.d = "endif"
    <3>1. Plain(f, k) /\ ~ InQuotes(e.sections) /\ Added(l.d) = -1 /\ l.d # "quote"
      BY <1>2, <1>6, <2>4 DEF Opens, Ends, Added
    <3>2. /\ Config(p, d) /\ Moved(e, d) /\ Same(e, d)
          /\ Len(d.sections) = M - 1
          /\ \A i \in 1 .. M - 1 : d.sections[i] = e.sections[i]
          /\ ~ InQuotes(d.sections)
      <4>1. Len(e.sections) > Last(e.files).below /\ Last(e.files).below \in Nat
        BY <1>1, <1>4, <2>1
      <4> QED
        BY <1>5, <2>4, <3>1, <4>1, CloseEffect
    <3>3. Len(d.sections) = B + Depth(f, k + 1) /\ Plain(f, k + 1)
      <4>1. Depth(f, k + 1) = Depth(f, k) - 1 /\ Plain(f, k + 1)
        BY <1>7, <3>1
      <4>2. Len(e.sections) = B + Depth(f, k)
        BY <1>2
      <4>3. Len(d.sections) = Len(e.sections) - 1
        BY <3>2
      <4>4. B \in Int /\ Depth(f, k) \in Int
        BY <1>1, <1>7
      <4> QED
        BY <4>1, <4>2, <4>3, <4>4
    <3>4. \A i \in 1 .. M - 1 : IF i <= B THEN d.sections[i] = b.sections[i]
                                ELSE ~ d.sections[i].on
      <4>1. \A i \in 1 .. M - 1 : i \in 1 .. M
        BY <2>1
      <4> QED
        BY <1>2, <3>2, <4>1
    <3> QED
      BY <1>8, <3>2, <3>3, <3>4
  <2>5. CASE l.d \in {"else", "elif"}
    <3>1. Plain(f, k) /\ ~ InQuotes(e.sections) /\ Added(l.d) = 0 /\ l.d # "quote"
      BY <1>2, <1>6, <2>5 DEF Opens, Ends, Added
    <3>2. M - 1 \in 1 .. M /\ M - 1 > B /\ M - 1 >= 1 /\ M # B
      <4> DEFINE D == Depth(f, k)
      <4>1. M = B + D /\ B \in Nat /\ D \in Int
        BY <1>1, <1>2, <1>7
      <4>2. D >= 2
        BY <1>10, <2>5
      <4> HIDE DEF D, M
      <4> QED
        BY <2>1, <4>1, <4>2
    <3>3. ~ Enclosing(e.sections)
      <4>1. e.sections \in Seq(Group)
        BY <1>2 DEF Config
      <4>2. /\ Front(e.sections) \in Seq(Group) /\ Len(Front(e.sections)) = M - 1
            /\ \A i \in 1 .. M - 1 : Front(e.sections)[i] = e.sections[i]
        BY <2>1, <4>1, FrontShape
      <4>3. Front(e.sections) # << >> /\ Last(Front(e.sections)) = e.sections[M - 1]
        BY <3>2, <4>2, LastShape
      <4>4. ~ e.sections[M - 1].on
        <5>1. ~ (M - 1 <= B)
          BY <1>1, <2>1, <3>2
        <5> QED
          BY <1>2, <3>2, <5>1
      <4> QED
        BY <4>3, <4>4 DEF Enclosing, Included
    <3>4. d = Past(e)
      BY <1>2, <1>4, <1>5, <2>5, <3>1, <3>2, <3>3, NestedEffect
    <3>5. Config(p, d) /\ Moved(e, d) /\ Same(e, d) /\ d.sections = e.sections
      BY <1>2, <3>4, PastMoves
    <3>6. Depth(f, k + 1) = Depth(f, k) /\ Plain(f, k + 1)
      BY <1>7, <3>1
    <3> QED
      BY <1>2, <1>8, <3>1, <3>5, <3>6
  <2>6. CASE ~ Opens(l.d) /\ ~ Ends(l.d)
    <3>1. /\ Config(p, d) /\ Moved(e, d) /\ Same(e, d)
          /\ Len(d.sections) = M
          /\ \A i \in 1 .. M : d.sections[i].on = e.sections[i].on
          /\ \A i \in 1 .. M - 1 : d.sections[i] = e.sections[i]
          /\ InQuotes(d.sections) <=> (IF l.d = "quote" THEN ~ InQuotes(e.sections)
                                       ELSE InQuotes(e.sections))
      <4>1. /\ Config(p, d) /\ Moved(e, d) /\ Same(e, d)
            /\ Len(d.sections) = Len(e.sections)
            /\ \A i \in 1 .. Len(e.sections) : /\ d.sections[i].on = e.sections[i].on
                                              /\ d.sections[i].taken = e.sections[i].taken
                                              /\ d.sections[i].last = e.sections[i].last
            /\ \A i \in 1 .. Len(e.sections) - 1 : d.sections[i] = e.sections[i]
            /\ InQuotes(d.sections) <=> (IF l.d = "quote" THEN ~ InQuotes(e.sections)
                                         ELSE InQuotes(e.sections))
        <5> HIDE DEF M
        <5> QED
          BY <1>5, <2>2, <2>6, IgnoreEffect
      <4> QED
        BY <4>1
    <3>2. Depth(f, k + 1) = Depth(f, k)
      <4>1. Added(l.d) = 0
        BY <2>6 DEF Added, Ends
      <4> QED
        BY <1>7, <4>1
    <3>3. InQuotes(d.sections) <=> ~ Plain(f, k + 1)
      BY <1>2, <1>7, <3>1
    <3>4. \A i \in 1 .. M : IF i <= B THEN d.sections[i] = b.sections[i]
                            ELSE ~ d.sections[i].on
      <4>1. \A i \in 1 .. M : i <= B => i \in 1 .. M - 1
        BY <1>1, <2>1
      <4> QED
        BY <1>2, <3>1, <4>1
    <3> QED
      BY <1>2, <1>8, <3>1, <3>2, <3>3, <3>4
  <2> QED
    BY <2>3, <2>4, <2>5, <2>6 DEF Ends
<1> QED
  BY <1>3, <1>6, <1>9, <1>10 DEF Skimmed

\* A configuration about to read a file that is one group guarded by a defined macro
Guarding(p, b) ==
    LET f == p[Last(b.files).path]
    IN  /\ Config(p, b) /\ b.status = "reading"
        /\ Included(b.sections) /\ ~ InQuotes(b.sections)
        /\ Len(f) \in Nat /\ Last(b.files).pos = 1
        /\ Last(b.files).below = Len(b.sections)
        /\ \E m \in b.macros : WholeGuard(f, m)

\* Reading it to its end changes nothing.
LEMMA SkimAll ==
  ASSUME NEW p, NEW b, Guarding(p, b)
  PROVE  LET n == Len(p[Last(b.files).path])
             e == Run(p, b, n)
         IN  /\ Config(p, e) /\ Same(b, e) /\ e.sections = b.sections
             /\ Len(e.files) = Len(b.files)
             /\ \A k \in 1 .. Len(b.files) - 1 : e.files[k] = b.files[k]
             /\ Last(e.files) = [path |-> Last(b.files).path, pos |-> n + 1,
                                 below |-> Len(b.sections)]
<1> DEFINE f == p[Last(b.files).path]
           n == Len(f)
           N == Len(b.files)
           B == Len(b.sections)
<1>1. /\ Config(p, b) /\ b.status = "reading" /\ Included(b.sections)
      /\ ~ InQuotes(b.sections) /\ n \in Nat /\ Last(b.files).pos = 1
      /\ Last(b.files).below = B
  BY DEF Guarding
<1>2. PICK m \in b.macros : WholeGuard(f, m)
  BY DEF Guarding
<1>3. N \in Nat /\ N >= 1 /\ B \in Nat /\ Last(b.files) = b.files[N]
  BY <1>1, ConfigShape
<1>4. Depth(f, 1) = 0 /\ Plain(f, 1)
  BY DepthStart
<1>5. Skim(p, b, b, 1)
  <2>1. p[b.files[N].path] = f
    BY <1>3
  <2>2. Same(b, b)
    BY DEF Same
  <2>3. \A k \in 1 .. N : b.files[k].pos = IF k = N THEN 1 ELSE b.files[k].pos
    BY <1>1, <1>3
  <2>4. B = B + Depth(f, 1)
    BY <1>3, <1>4
  <2>5. \A i \in 1 .. B : i <= B
    OBVIOUS
  <2> HIDE DEF f
  <2> QED
    BY <1>1, <1>4, <2>1, <2>2, <2>3, <2>4, <2>5 DEF Skim
<1> DEFINE P(k) == k <= n => Skim(p, b, Run(p, b, k), k + 1)
           S == {k \in Nat : P(k)}
<1>6. P(0)
  <2>1. 0 + 1 = 1
    OBVIOUS
  <2> QED
    BY <1>5, <2>1, RunSteps
<1>7. ASSUME NEW k \in Nat, P(k) PROVE P(k + 1)
  <2> SUFFICES ASSUME k + 1 <= n
               PROVE  Skim(p, b, Run(p, b, k + 1), (k + 1) + 1)
    OBVIOUS
  <2>1. k + 1 \in 1 .. n /\ k <= n
    BY <1>1
  <2>2. Skim(p, b, Run(p, b, k), k + 1)
    BY <1>7, <2>1
  <2>3. Skim(p, b, Step(p, Run(p, b, k)), (k + 1) + 1)
    BY <1>1, <1>2, <2>1, <2>2, SkimStep, Zenon
  <2>4. Run(p, b, k + 1) = Step(p, Run(p, b, k))
    BY RunSteps, Zenon
  <2> QED
    BY <2>3, <2>4
<1> HIDE DEF P
<1>8. 0 \in S /\ \A k \in Nat : k \in S => k + 1 \in S
  <2>1. \A k \in S : k + 1 \in S
    BY <1>7
  <2>2. 0 \in S
    BY <1>6
  <2> QED
    BY <2>1, <2>2
<1> HIDE DEF S
<1>9. Nat \subseteq S
  BY <1>8, NatSetInduction
<1>10. P(n)
  BY <1>1, <1>9 DEF S
<1>11. PICK e : e = Run(p, b, n)
  OBVIOUS
<1>12. Skim(p, b, e, n + 1)
  BY <1>1, <1>10, <1>11 DEF P
<1>13. Depth(f, n + 1) = 0 /\ Plain(f, n + 1)
  BY <1>2 DEF WholeGuard
<1>14. /\ Config(p, e) /\ Same(b, e) /\ Len(e.files) = N
       /\ \A k \in 1 .. N : /\ e.files[k].path = b.files[k].path
                            /\ e.files[k].below = b.files[k].below
                            /\ e.files[k].pos = IF k = N THEN n + 1 ELSE b.files[k].pos
       /\ Len(e.sections) = B
       /\ \A i \in 1 .. B : e.sections[i] = b.sections[i]
  <2>1. p[b.files[N].path] = f
    BY <1>3
  <2> HIDE DEF f
  <2> QED
    BY <1>3, <1>12, <1>13, <2>1 DEF Skim
<1>15. e.sections = b.sections
  <2>1. e.sections \in Seq(Group) /\ b.sections \in Seq(Group)
    BY <1>1, <1>14 DEF Config
  <2> QED
    BY <1>14, <2>1
<1>16. \A k \in 1 .. N : e.files[k] \in OpenFileOf(p) /\ b.files[k] \in OpenFileOf(p)
  BY <1>1, <1>14, ElementShape DEF Config
<1>17. \A k \in 1 .. N - 1 : e.files[k] = b.files[k]
  <2> SUFFICES ASSUME NEW k \in 1 .. N - 1 PROVE e.files[k] = b.files[k]
    OBVIOUS
  <2>1. k \in 1 .. N /\ k # N
    BY <1>3
  <2>2. PICK x : x = e.files[k]
    OBVIOUS
  <2>3. PICK y : y = b.files[k]
    OBVIOUS
  <2>4. x.path = y.path /\ x.below = y.below /\ x.pos = y.pos
    BY <1>14, <2>1, <2>2, <2>3
  <2>5. x \in OpenFileOf(p) /\ y \in OpenFileOf(p)
    BY <1>16, <2>1, <2>2, <2>3
  <2>6. x = y
    BY <2>4, <2>5 DEF OpenFileOf
  <2> QED
    BY <2>2, <2>3, <2>6
<1>18. Last(e.files) = [path |-> Last(b.files).path, pos |-> n + 1, below |-> B]
  <2>1. N \in 1 .. N /\ Last(e.files) = e.files[N]
    BY <1>3, <1>14, ConfigShape
  <2> QED
    BY <1>1, <1>3, <1>14, <1>16, <2>1 DEF OpenFileOf
<1> QED
  BY <1>11, <1>14, <1>15, <1>17, <1>18

\* ... and then the file that includes it goes on.
LEMMA GuardedFile ==
  ASSUME NEW p, NEW b, Guarding(p, b), Len(b.files) > 1
  PROVE  LET d == Run(p, b, Len(p[Last(b.files).path]) + 1)
         IN  /\ Config(p, d) /\ Same(b, d) /\ d.sections = b.sections
             /\ d.files = Front(b.files)
<1> DEFINE n == Len(p[Last(b.files).path])
           N == Len(b.files)
<1>1. PICK e : e = Run(p, b, n)
  OBVIOUS
<1>2. /\ Config(p, e) /\ Same(b, e) /\ e.sections = b.sections
      /\ Len(e.files) = N
      /\ \A k \in 1 .. N - 1 : e.files[k] = b.files[k]
      /\ Last(e.files) = [path |-> Last(b.files).path, pos |-> n + 1,
                          below |-> Len(b.sections)]
  BY <1>1, SkimAll
<1>3. n \in Nat /\ b.status = "reading" /\ Config(p, b)
  BY DEF Guarding
<1>4. PICK d : d = Run(p, b, n + 1)
  OBVIOUS
<1>5. d = Step(p, e)
  <2>1. \A i \in Nat : Run(p, b, i + 1) = Step(p, Run(p, b, i))
    BY RunSteps
  <2> HIDE DEF n
  <2> QED
    BY <1>1, <1>3, <1>4, <2>1
<1>6. d = [e EXCEPT !.files = Front(e.files)]
  <2>1. e.status = "reading" /\ Last(e.files).pos > Len(p[Last(e.files).path])
    BY <1>2, <1>3 DEF Same
  <2>2. d = EndFile(e)
    BY <1>5, <2>1 DEF Step
  <2>3. Len(e.sections) = Last(e.files).below /\ Len(e.files) > 1
    BY <1>2
  <2> QED
    BY <2>2, <2>3 DEF EndFile
<1>7. /\ Front(e.files) \in Seq(OpenFileOf(p)) /\ Len(Front(e.files)) = N - 1
      /\ \A k \in 1 .. N - 1 : Front(e.files)[k] = e.files[k]
      /\ Front(b.files) \in Seq(OpenFileOf(p)) /\ Len(Front(b.files)) = N - 1
      /\ \A k \in 1 .. N - 1 : Front(b.files)[k] = b.files[k]
      /\ N \in Nat
  <2>1. /\ e.files \in Seq(OpenFileOf(p)) /\ e.files # << >>
        /\ b.files \in Seq(OpenFileOf(p)) /\ b.files # << >>
    BY <1>2, <1>3 DEF Config
  <2>2. N \in Nat
    BY <1>3, ConfigShape
  <2> QED
    BY <1>2, <2>1, <2>2, FrontShape
<1>8. Front(e.files) = Front(b.files)
  BY <1>2, <1>7
<1>9. Fields(d) /\ Same(e, d) /\ d.sections = e.sections /\ d.files = Front(e.files)
  <2>1. Fields(e)
    BY <1>2 DEF Config
  <2> QED
    BY <1>6, <2>1 DEF Fields, Same
<1>10. Config(p, d)
  <2>1. Front(e.files) # << >>
    BY <1>7
  <2>2. d.met \in BOOLEAN
    BY <1>2, <1>9 DEF Config, Same
  <2> QED
    BY <1>2, <1>7, <1>9, <2>1, <2>2 DEF Config
<1>11. Same(b, d)
  BY <1>2, <1>9 DEF Same
<1> QED
  BY <1>2, <1>4, <1>8, <1>9, <1>10, <1>11

\* ... or, where it is read alone, the reference is done.
LEMMA GuardedAlone ==
  ASSUME NEW p, NEW b, Guarding(p, b), Len(b.files) = 1
  PROVE  LET n == Len(p[Last(b.files).path])
         IN  Run(p, b, n + 1) = [b EXCEPT !.files[1].pos = n + 1, !.status = "done"]
<1> DEFINE n == Len(p[Last(b.files).path])
<1>1. PICK e : e = Run(p, b, n)
  OBVIOUS
<1>2. /\ Config(p, e) /\ Same(b, e) /\ e.sections = b.sections
      /\ Len(e.files) = 1
      /\ Last(e.files) = [path |-> Last(b.files).path, pos |-> n + 1,
                          below |-> Len(b.sections)]
  BY <1>1, SkimAll
<1>3. /\ n \in Nat /\ b.status = "reading" /\ Config(p, b)
      /\ Last(b.files).below = Len(b.sections)
  BY DEF Guarding
<1>4. PICK d : d = Run(p, b, n + 1)
  OBVIOUS
<1>5. d = Step(p, e)
  <2>1. \A i \in Nat : Run(p, b, i + 1) = Step(p, Run(p, b, i))
    BY RunSteps
  <2> HIDE DEF n
  <2> QED
    BY <1>1, <1>3, <1>4, <2>1
<1>6. d = [e EXCEPT !.status = "done"]
  <2>1. e.status = "reading" /\ Last(e.files).pos > Len(p[Last(e.files).path])
    BY <1>2, <1>3 DEF Same
  <2>2. d = EndFile(e)
    BY <1>5, <2>1 DEF Step
  <2>3. Len(e.sections) = Last(e.files).below /\ Len(e.files) = 1
    BY <1>2
  <2> QED
    BY <2>2, <2>3 DEF EndFile
<1>7. /\ Last(b.files) = b.files[1] /\ Last(e.files) = e.files[1]
      /\ b.files \in Seq(OpenFileOf(p)) /\ e.files \in Seq(OpenFileOf(p))
      /\ b.files[1] \in OpenFileOf(p)
  <2>1. b.files \in Seq(OpenFileOf(p)) /\ e.files \in Seq(OpenFileOf(p))
    BY <1>2, <1>3 DEF Config
  <2> QED
    BY <1>2, <1>3, <2>1, ConfigShape, ElementShape
<1>8. PICK g : g = [b.files EXCEPT ![1].pos = n + 1]
  OBVIOUS
<1>9. g = e.files
  <2>1. PICK h : h = [b.files[1] EXCEPT !.pos = n + 1]
    OBVIOUS
  <2>2. h = [path |-> b.files[1].path, pos |-> n + 1, below |-> b.files[1].below]
    BY <1>7, <2>1 DEF OpenFileOf
  <2>3. g = [b.files EXCEPT ![1] = h]
    BY <1>8, <2>1
  <2>4. h = e.files[1]
    BY <1>2, <1>3, <1>7, <2>2
  <2>5. h \in OpenFileOf(p)
    BY <1>2, <1>7, <2>4, ElementShape
  <2>6. g \in Seq(OpenFileOf(p)) /\ Len(g) = 1 /\ g[1] = h
    BY <1>7, <2>3, <2>5
  <2> QED
    BY <1>2, <1>7, <2>4, <2>6
<1>10. PICK r : r = [b EXCEPT !.files = g, !.status = "done"]
  OBVIOUS
<1>11. r = d
  <2>1. Fields(b) /\ Fields(e)
    BY <1>2, <1>3 DEF Config
  <2>2. /\ Fields(d) /\ d.files = e.files /\ d.sections = e.sections
        /\ d.macros = e.macros /\ d.once = e.once /\ d.seen = e.seen /\ d.met = e.met
        /\ d.out = e.out /\ d.status = "done"
    BY <1>6, <2>1 DEF Fields
  <2>3. /\ Fields(r) /\ r.files = g /\ r.sections = b.sections
        /\ r.macros = b.macros /\ r.once = b.once /\ r.seen = b.seen /\ r.met = b.met
        /\ r.out = b.out /\ r.status = "done"
    BY <1>10, <2>1 DEF Fields
  <2>4. /\ e.macros = b.macros /\ e.once = b.once /\ e.seen = b.seen /\ e.met = b.met
        /\ e.out = b.out
    BY <1>2 DEF Same
  <2> QED
    BY <1>2, <1>9, <2>2, <2>3, <2>4, FieldsSame
<1>12. [b EXCEPT !.files[1].pos = n + 1, !.status = "done"] = r
  BY <1>8, <1>10
<1> QED
  BY <1>4, <1>11, <1>12

-----------------------------------------------------------------------------
(* The conditionals that may turn out to be include guards: what their files  *)
(* have read since the #ifndef is the guarded group.                          *)
GuardsOpen(p, g, o, cs, c) ==
    \A k \in 1 .. Len(cs) : cs[k].guard # NONE =>
        /\ cs[k].file \in 0 .. o - 1
        /\ \A n \in 1 .. Len(g) : g[n].id = cs[k].file =>
              /\ k = c.files[n].below + 1
              /\ SkimmedTo(p[g[n].path], cs[k].guard, g[n].pos)

\* Reading a line keeps a guard where the line is no #else or #elif of it, and finds
\* one where it is an #ifndef before which its file is blank.
Kept(p, g, c, cs, ds) ==
    LET f == p[g[Len(g)].path]
        l == f[g[Len(g)].pos]
    IN  \A k \in 1 .. Len(ds) : ds[k].guard # NONE =>
            \/ /\ k \in 1 .. Len(cs) /\ ds[k].guard = cs[k].guard
               /\ ds[k].file = cs[k].file /\ k <= Len(c.sections)
               /\ l.d \in {"else", "elif"} => k < Len(c.sections)
            \/ /\ k = Len(c.sections) + 1 /\ l.d = "ifndef" /\ l.m = ds[k].guard
               /\ ds[k].file = g[Len(g)].id
               /\ \A i \in 1 .. g[Len(g)].pos - 1 : f[i].d = "blank"

LEMMA GuardsRead ==
  ASSUME NEW p, NEW g, NEW o, Located(p, g, o), NEW c, Config(p, c), Levels(p, g, c),
         NEW cs, GuardsOpen(p, g, o, cs, c),
         NEW d, Moved(c, d), NEW h, Advanced(g, h), NEW ds, Kept(p, g, c, cs, ds)
  PROVE  GuardsOpen(p, h, o, ds, d)
<1>0. PICK l : l = p[g[Len(g)].path][g[Len(g)].pos]
  OBVIOUS
<1> DEFINE N == Len(g)
           f == p[g[N].path]
           q == g[N].pos
<1>1. /\ N \in Nat /\ N >= 1 /\ N \in 1 .. N /\ Len(c.files) = N /\ Len(h) = N
      /\ \A n \in 1 .. N : g[n].id \in 0 .. o - 1
      /\ q \in Nat /\ q # 0 /\ o \in Nat
  <2>1. N \in Nat /\ N >= 1 /\ \A n \in 1 .. N : /\ g[n].id \in 0 .. o - 1
                                                 /\ g[n].pos \in 1 .. Len(p[g[n].path]) + 1
                                                 /\ Len(p[g[n].path]) \in Nat
    BY StackShape
  <2>2. N \in 1 .. N /\ Len(c.files) = N /\ Len(h) = N
    BY <2>1 DEF Levels, Advanced
  <2>3. o \in Nat
    BY DEF Located
  <2> QED
    BY <2>1, <2>2, <2>3
<1>2. \A n \in 1 .. N : /\ h[n].path = g[n].path /\ h[n].id = g[n].id
                        /\ h[n].pos = IF n = N THEN q + 1 ELSE g[n].pos
                        /\ d.files[n].below = c.files[n].below
  BY <1>1 DEF Advanced, Moved
<1>3. /\ c.files[N].below \in Nat /\ Len(c.sections) \in Nat /\ Depth(f, q) \in Int
      /\ Len(c.sections) = c.files[N].below + Depth(f, q)
  <2>1. LevelAt(p, g, c, N)
    BY <1>1 DEF Levels
  <2>2. Depth(f, q) \in Int
    BY <1>1, DepthNext
  <2> QED
    BY <1>1, <2>1, <2>2, ConfigShape DEF LevelAt, Level
<1>4. l = f[q]
  BY <1>0
<1> HIDE DEF f, q
<1> SUFFICES ASSUME NEW k \in 1 .. Len(ds), ds[k].guard # NONE
             PROVE  /\ ds[k].file \in 0 .. o - 1
                    /\ \A n \in 1 .. N : h[n].id = ds[k].file =>
                          /\ k = d.files[n].below + 1
                          /\ SkimmedTo(p[h[n].path], ds[k].guard, h[n].pos)
  BY <1>1 DEF GuardsOpen
<1>5. CASE /\ k \in 1 .. Len(cs) /\ ds[k].guard = cs[k].guard
           /\ ds[k].file = cs[k].file /\ k <= Len(c.sections)
           /\ l.d \in {"else", "elif"} => k < Len(c.sections)
  <2>1. /\ cs[k].file \in 0 .. o - 1
        /\ \A n \in 1 .. N : g[n].id = cs[k].file =>
              /\ k = c.files[n].below + 1
              /\ SkimmedTo(p[g[n].path], cs[k].guard, g[n].pos)
    BY <1>5 DEF GuardsOpen
  <2>2. ASSUME NEW n \in 1 .. N, h[n].id = ds[k].file
        PROVE  /\ k = d.files[n].below + 1
               /\ SkimmedTo(p[h[n].path], ds[k].guard, h[n].pos)
    <3>1. /\ k = c.files[n].below + 1
          /\ SkimmedTo(p[g[n].path], cs[k].guard, g[n].pos)
      BY <1>2, <1>5, <2>1, <2>2
    <3>2. CASE n # N
      BY <1>2, <1>5, <3>1, <3>2
    <3>3. CASE n = N
      <4>1. p[g[n].path] = f /\ g[n].pos = q /\ p[h[n].path] = f /\ h[n].pos = q + 1
        BY <1>2, <3>3 DEF f, q
      <4>2. Depth(f, q) >= 1 /\ (l.d \in {"else", "elif"} => Depth(f, q) >= 2)
        <5> DEFINE D == Depth(f, q)
                   B == c.files[N].below
        <5>1. B \in Nat /\ D \in Int /\ Len(c.sections) = B + D
          BY <1>3
        <5>2. k = B + 1
          BY <3>1, <3>3
        <5> HIDE DEF D, B
        <5>3. k <= B + D /\ (l.d \in {"else", "elif"} => k < B + D)
          BY <1>5, <5>1
        <5>4. D >= 1
          BY <5>1, <5>2, <5>3
        <5>5. k < B + D => D >= 2
          BY <5>1, <5>2
        <5> QED
          BY <5>3, <5>4, <5>5 DEF D
      <4>3. Skimmed(f, cs[k].guard, q)
        BY <1>4, <4>2 DEF Skimmed
      <4>4. SkimmedTo(f, cs[k].guard, q + 1)
        BY <1>1, <3>1, <4>1, <4>3, SkimNext
      <4> QED
        BY <1>2, <1>5, <3>1, <4>1, <4>4
    <3> QED
      BY <3>2, <3>3
  <2> QED
    BY <1>5, <2>1, <2>2
<1>6. CASE /\ k = Len(c.sections) + 1 /\ l.d = "ifndef" /\ l.m = ds[k].guard
           /\ ds[k].file = g[N].id
           /\ \A i \in 1 .. g[N].pos - 1 : p[g[N].path][i].d = "blank"
  <2>1. \A i \in 1 .. q : Depth(f, i) = 0
    <3>1. \A i \in 1 .. q - 1 : f[i].d = "blank"
      BY <1>6 DEF f, q
    <3>2. 1 \in Nat /\ 1 # 0 /\ 1 <= q
      BY <1>1
    <3>3. \A i \in 1 .. q : Depth(f, i) = Depth(f, 1) /\ (Plain(f, i) <=> Plain(f, 1))
      BY <1>1, <3>1, <3>2, BlankRun, Zenon
    <3> QED
      BY <3>3, DepthStart
  <2>2. SkimmedTo(f, ds[k].guard, q + 1)
    <3> SUFFICES ASSUME NEW i \in 1 .. q PROVE Skimmed(f, ds[k].guard, i)
      BY <1>1 DEF SkimmedTo
    <3>1. i \in 1 .. q - 1 \/ i = q
      BY <1>1
    <3> QED
      BY <1>4, <1>6, <2>1, <3>1 DEF Skimmed, f, q
  <2>3. Depth(f, q) = 0
    BY <1>1, <2>1
  <2>4. k = c.files[N].below + 1
    BY <1>3, <1>6, <2>3
  <2>5. ASSUME NEW n \in 1 .. N, h[n].id = ds[k].file
        PROVE  n = N
    BY <1>1, <1>2, <1>6, <2>5 DEF Levels
  <2>6. p[h[N].path] = f /\ h[N].pos = q + 1 /\ d.files[N].below = c.files[N].below
    BY <1>1, <1>2 DEF f
  <2>7. ds[k].file \in 0 .. o - 1
    BY <1>1, <1>6
  <2> QED
    BY <2>2, <2>4, <2>5, <2>6, <2>7
<1>7. \/ /\ k \in 1 .. Len(cs) /\ ds[k].guard = cs[k].guard
         /\ ds[k].file = cs[k].file /\ k <= Len(c.sections)
         /\ l.d \in {"else", "elif"} => k < Len(c.sections)
      \/ /\ k = Len(c.sections) + 1 /\ l.d = "ifndef" /\ l.m = ds[k].guard
         /\ ds[k].file = g[N].id
         /\ \A i \in 1 .. g[N].pos - 1 : p[g[N].path][i].d = "blank"
  BY <1>4 DEF Kept, f, q
<1> QED
  BY <1>5, <1>6, <1>7

LEMMA GuardsPop ==
  ASSUME NEW p, NEW g, NEW o, NEW c, NEW cs, GuardsOpen(p, g, o, cs, c),
         NEW N \in Nat, Len(g) = N + 1,
         NEW d, \A n \in 1 .. N : d.files[n] = c.files[n],
         NEW h, Len(h) = N, \A n \in 1 .. N : h[n] = g[n]
  PROVE  GuardsOpen(p, h, o, cs, d)
<1>1. \A n \in 1 .. N : n \in 1 .. N + 1
  OBVIOUS
<1> QED
  BY <1>1 DEF GuardsOpen

LEMMA GuardsEnter ==
  ASSUME NEW p, NEW g, NEW o, Located(p, g, o), NEW c, Config(p, c), Levels(p, g, c),
         NEW cs, GuardsOpen(p, g, o, cs, c), Len(cs) \in Nat, Len(cs) <= Len(c.sections),
         NEW l, l = p[g[Len(g)].path][g[Len(g)].pos], l.d \notin {"else", "elif"},
         NEW q, NEW d, Descended(c, d, q), NEW h, Entered(g, h, q, o)
  PROVE  GuardsOpen(p, h, o + 1, cs, d)
<1> DEFINE N == Len(g)
           f == p[g[N].path]
           a == g[N].pos
<1>1. /\ N \in Nat /\ N >= 1 /\ N \in 1 .. N /\ Len(c.files) = N /\ Len(h) = N + 1
      /\ a \in Nat /\ a # 0 /\ o \in Nat
  <2>1. N \in Nat /\ N >= 1 /\ \A n \in 1 .. N : /\ g[n].pos \in 1 .. Len(p[g[n].path]) + 1
                                                 /\ Len(p[g[n].path]) \in Nat
    BY StackShape
  <2>2. N \in 1 .. N /\ Len(c.files) = N /\ Len(h) = N + 1
    BY <2>1 DEF Levels, Entered
  <2>3. o \in Nat
    BY DEF Located
  <2> QED
    BY <2>1, <2>2, <2>3
<1>2. /\ \A n \in 1 .. N : /\ h[n].path = g[n].path /\ h[n].id = g[n].id
                           /\ h[n].pos = IF n = N THEN a + 1 ELSE g[n].pos
                           /\ d.files[n].below = c.files[n].below
      /\ h[N + 1].id = o
  BY <1>1 DEF Entered, Descended
<1>3. /\ c.files[N].below \in Nat /\ Len(c.sections) \in Nat /\ Depth(f, a) \in Int
      /\ Len(c.sections) = c.files[N].below + Depth(f, a)
  <2>1. LevelAt(p, g, c, N)
    BY <1>1 DEF Levels
  <2>2. Depth(f, a) \in Int
    BY <1>1, DepthNext
  <2> QED
    BY <1>1, <2>1, <2>2, ConfigShape DEF LevelAt, Level
<1>4. l = f[a]
  OBVIOUS
<1> HIDE DEF f, a
<1> SUFFICES ASSUME NEW k \in 1 .. Len(cs), cs[k].guard # NONE
             PROVE  /\ cs[k].file \in 0 .. (o + 1) - 1
                    /\ \A n \in 1 .. N + 1 : h[n].id = cs[k].file =>
                          /\ k = d.files[n].below + 1
                          /\ SkimmedTo(p[h[n].path], cs[k].guard, h[n].pos)
  BY <1>1 DEF GuardsOpen
<1>5. /\ cs[k].file \in 0 .. o - 1
      /\ \A n \in 1 .. N : g[n].id = cs[k].file =>
            /\ k = c.files[n].below + 1
            /\ SkimmedTo(p[g[n].path], cs[k].guard, g[n].pos)
  BY DEF GuardsOpen
<1>6. ASSUME NEW n \in 1 .. N + 1, h[n].id = cs[k].file
      PROVE  /\ k = d.files[n].below + 1
             /\ SkimmedTo(p[h[n].path], cs[k].guard, h[n].pos)
  <2>1. n \in 1 .. N
    <3>1. n # N + 1
      BY <1>1, <1>2, <1>5, <1>6
    <3> QED
      BY <1>1, <3>1
  <2>2. /\ k = c.files[n].below + 1
        /\ SkimmedTo(p[g[n].path], cs[k].guard, g[n].pos)
    BY <1>2, <1>5, <1>6, <2>1
  <2>3. CASE n # N
    BY <1>2, <2>1, <2>2, <2>3
  <2>4. CASE n = N
    <3>1. p[g[n].path] = f /\ g[n].pos = a /\ p[h[n].path] = f /\ h[n].pos = a + 1
      BY <1>2, <2>1, <2>4 DEF f, a
    <3>2. Depth(f, a) >= 1
      BY <1>3, <2>2, <2>4
    <3>3. Skimmed(f, cs[k].guard, a)
      BY <1>4, <3>2 DEF Skimmed
    <3>4. SkimmedTo(f, cs[k].guard, a + 1)
      BY <1>1, <2>2, <3>1, <3>3, SkimNext
    <3> QED
      BY <1>2, <2>1, <2>2, <3>1, <3>4
  <2> QED
    BY <2>3, <2>4
<1>7. cs[k].file \in 0 .. (o + 1) - 1
  <2>1. cs[k].file \in 0 .. o - 1
    BY <1>5
  <2> QED
    BY <1>1, <2>1
<1> QED
  BY <1>6, <1>7

-----------------------------------------------------------------------------
(* The engine and the reference, at the same line: what relates a state to a  *)
(* configuration.                                                             *)

\* A section is a conditional of the stack, or one the skip has counted.  All are
\* included but those being skipped, and but the innermost where the skip has just
\* come upon the #else, #elif or #endif that ends it.
Stopped == ~ AtEof /\ Ends(Here.d)
SectionsAre(c) ==
    LET s == c.sections
    IN  /\ Len(s) = Len(conds) + Nest
        /\ \A k \in 1 .. Len(conds) :
              /\ s[k].taken <=> conds[k].wastrue \/ conds[k].ctx = "else"
              /\ s[k].last <=> conds[k].ctx = "else"
        /\ skipping = NONE => \A k \in 1 .. Len(conds) :
                                 s[k].on \/ (k = Len(conds) /\ Stopped)
        /\ skipping # NONE => /\ Last(c.files).below < Len(conds)
                              /\ \A k \in 1 .. Len(s) : s[k].on <=> k < Len(conds)
        /\ InQuotes(s) <=> Quoted

\* The macros that guard files.
Recorded(p, ig, c) ==
    \A path \in DOMAIN ig : /\ path \in DOMAIN p /\ path \in c.seen
                            /\ WholeGuard(p[path], ig[path])

\* What is read, defined and forbidden.  The reference may have marked a file that the
\* engine knows by its guard: it was imported again, and then nothing is undefined.
Shared(p, g, mac, ig, on, txt, c) ==
    /\ c.macros = mac /\ c.out = txt
    /\ on \subseteq c.once /\ c.once \subseteq DOMAIN p
    /\ \A path \in c.once : path \notin on =>
          c.met /\ path \in DOMAIN ig /\ ig[path] \in mac
    /\ \A n \in 1 .. Len(g) : g[n].path \in c.seen

\* The simulation relation.  c has read what the engine has read and stands before the
\* same line: their open files match, a conditional of cond_incl_stack or one that
\* skip_cond_incl has counted is a section of c, a guard that is still a candidate has
\* seen only lines of its group, one that is recorded spans its file, and macros, text
\* and the files not to be read again are the same.
Rel(c) == /\ Config(program, c) /\ c.status = "reading"
          /\ Levels(program, files, c)
          /\ SectionsAre(c)
          /\ GuardsOpen(program, files, opened, conds, c)
          /\ Recorded(program, includeGuard, c)
          /\ Shared(program, files, macros, includeGuard, once, out, c)

LEMMA NextAdvances ==
  ASSUME Places, ~ AtEof
  PROVE  Advanced(files, NextLine)
<1>1. /\ Len(NextLine) = Len(files) /\ Len(files) \in Nat /\ Len(files) >= 1
      /\ \A n \in 1 .. Len(files) - 1 : NextLine[n] = files[n]
      /\ Last(NextLine) = [Top EXCEPT !.pos = @ + 1]
  BY NextLocated, TopShape
<1>2. PICK N : files \in Seq(OpenFile(program, N))
  BY DEF Places, Located
<1>3. Top \in OpenFile(program, N) /\ Top = files[Len(files)]
  BY <1>2, TopShape, ElementShape
<1>4. Last(NextLine) = NextLine[Len(files)]
  BY <1>1 DEF Last
<1>5. PICK t : t = [Top EXCEPT !.pos = @ + 1]
  OBVIOUS
<1>6. t.path = Top.path /\ t.name = Top.name /\ t.id = Top.id /\ t.pos = Top.pos + 1
  BY <1>3, <1>5 DEF OpenFile
<1>7. \A n \in 1 .. Len(files) : n \in 1 .. Len(files) - 1 \/ n = Len(files)
  BY <1>1
<1> HIDE DEF NextLine
<1>8. NextLine[Len(files)] = t
  BY <1>1, <1>4, <1>5
<1>9. ASSUME NEW n \in 1 .. Len(files)
      PROVE  /\ NextLine[n].path = files[n].path /\ NextLine[n].name = files[n].name
             /\ NextLine[n].id = files[n].id
             /\ NextLine[n].pos = IF n = Len(files) THEN files[n].pos + 1 ELSE files[n].pos
  <2>1. CASE n = Len(files)
    BY <1>3, <1>6, <1>8, <2>1
  <2>2. CASE n # Len(files)
    BY <1>1, <1>7, <2>2
  <2> QED
    BY <2>1, <2>2
<1> QED
  BY <1>1, <1>9 DEF Advanced

LEMMA Aligned ==
  ASSUME Places, NEW c, Rel(c)
  PROVE  /\ Len(c.files) = Len(files) /\ Len(files) \in Nat /\ Len(files) >= 1
         /\ Last(c.files).path = Top.path /\ Last(c.files).pos = Top.pos
         /\ Top.name = Top.path
         /\ Last(c.files).below \in Nat /\ Len(c.sections) \in Nat
         /\ Last(c.files).below <= Len(c.sections)
         /\ Depth(Lines, Top.pos) \in Int
         /\ Len(c.sections) = Last(c.files).below + Depth(Lines, Top.pos)
         /\ PlainTo(Lines, Top.pos)
         /\ Plain(Lines, Top.pos) <=> ~ InQuotes(c.sections)
<1>1. /\ Len(files) \in Nat /\ Len(files) >= 1 /\ Top = files[Len(files)]
      /\ Top.pos \in Nat /\ Top.pos # 0
  BY TopShape
<1>2. Config(program, c) /\ Levels(program, files, c)
  BY DEF Rel
<1>3. /\ Len(c.files) = Len(files) /\ LevelAt(program, files, c, Len(files))
  BY <1>1, <1>2 DEF Levels
<1>4. /\ Last(c.files) = c.files[Len(files)] /\ Len(c.sections) \in Nat
      /\ Last(c.files).below \in Nat
  BY <1>1, <1>2, <1>3, ConfigShape
<1>5. Depth(Lines, Top.pos) \in Int
  BY <1>1, DepthNext
<1>6. Lines = program[files[Len(files)].path]
  BY <1>1 DEF Lines
<1> QED
  BY <1>1, <1>3, <1>4, <1>5, <1>6 DEF LevelAt, Level

LEMMA StepIs ==
  ASSUME Places, NEW c, Rel(c)
  PROVE  /\ ~ AtEof => Step(program, c) = Line(program, Here, c)
         /\ AtEof => Step(program, c) = EndFile(c)
<1>1. c.status = "reading" /\ Last(c.files).path = Top.path /\ Last(c.files).pos = Top.pos
  BY Aligned DEF Rel
<1> QED
  BY <1>1 DEF Step, AtEof, Here, Lines

\* A line that opens no file has been read.
LEMMA ReadRel ==
  ASSUME Places, NEW c, Rel(c), ~ AtEof, Read, UNCHANGED <<program, opened>>,
         NEW d, Config(program, d), d.status = "reading", Moved(c, d),
         Opens(Here.d) \/ Ends(Here.d) => ~ InQuotes(c.sections),
         Len(d.sections) = Len(c.sections) + Added(Here.d),
         Last(c.files).below <= Len(d.sections),
         InQuotes(d.sections) <=> (IF Here.d = "quote" THEN ~ InQuotes(c.sections)
                                   ELSE InQuotes(c.sections)),
         SectionsAre(d)',
         \A k \in 1 .. Len(conds') : conds'[k].guard # NONE =>
            \/ /\ k \in 1 .. Len(conds) /\ conds'[k].guard = conds[k].guard
               /\ conds'[k].file = conds[k].file /\ k <= Len(c.sections)
               /\ Here.d \in {"else", "elif"} => k < Len(c.sections)
            \/ /\ k = Len(c.sections) + 1 /\ Here.d = "ifndef"
               /\ Here.m = conds'[k].guard /\ conds'[k].file = Top.id /\ FirstLine,
         Recorded(program, includeGuard', d),
         Shared(program, files', macros', includeGuard', once', out', d)
  PROVE  Rel(d)'
<1>1. Located(program, files, opened) /\ Config(program, c) /\ Levels(program, files, c)
      /\ GuardsOpen(program, files, opened, conds, c)
  BY DEF Places, Rel
<1>2. Top = files[Len(files)] /\ Here = program[files[Len(files)].path][files[Len(files)].pos]
      /\ Lines = program[files[Len(files)].path]
  BY TopShape DEF Here, Lines
<1>3. PICK h : h = files'
  OBVIOUS
<1>4. Advanced(files, h)
  BY <1>3, NextAdvances DEF Read
<1>5. Levels(program, h, d)
  BY <1>1, <1>2, <1>4, LevelsRead
<1>6. PICK ds : ds = conds'
  OBVIOUS
<1>7. Kept(program, files, c, conds, ds)
  BY <1>2, <1>6 DEF FirstLine, Kept
<1>8. Config(program, c) /\ Moved(c, d)
  BY <1>1
<1>9. GuardsOpen(program, h, opened, ds, d)
  BY <1>1, <1>4, <1>7, <1>8, GuardsRead, Zenon
<1> QED
  BY <1>3, <1>5, <1>6, <1>9 DEF Rel

LEMMA SharedRead ==
  ASSUME NEW p, NEW g, NEW h, NEW mac, NEW ig, NEW on, NEW txt, NEW c, NEW d,
         Shared(p, g, mac, ig, on, txt, c), Advanced(g, h), Same(c, d)
  PROVE  Shared(p, h, mac, ig, on, txt, d)
BY DEF Shared, Advanced, Same

LEMMA RecordedSame ==
  ASSUME NEW p, NEW ig, NEW c, NEW d, Recorded(p, ig, c), c.seen \subseteq d.seen
  PROVE  Recorded(p, ig, d)
BY DEF Recorded

-----------------------------------------------------------------------------
(* Steps of the engine, each with the step of the reference it goes with *)
Goes(c) == \E d : d = Step(program, c) /\ (d.status = "refused" \/ Rel(d)')

LEMMA RefusedIs ==
  ASSUME NEW p, NEW c, Config(p, c)
  PROVE  Refuse(c).status = "refused"
BY DEF Refuse, Config, Fields

LEMMA GoesRefused ==
  ASSUME Places, NEW c, Rel(c), Step(program, c) = Refuse(c)
  PROVE  Goes(c)
BY RefusedIs DEF Goes, Rel

\* What the engine does not skip is in groups that are included.
LEMMA CalmHere ==
  ASSUME Places, Kinds, NEW c, Rel(c), Running
  PROVE  /\ Len(c.sections) = Len(conds) /\ Len(conds) \in Nat
         /\ ~ InQuotes(c.sections)
         /\ ~ Ends(Here.d) => Included(c.sections)
         /\ ~ Opens(Here.d) /\ ~ Ends(Here.d) =>
               Line(program, Here, c) = Effect(program, Here, c)
<1>1. SectionsAre(c) /\ Config(program, c) /\ skipping = NONE /\ ~ AtEof
  BY DEF Rel, Running
<1>2. Nest = 0 /\ ~ Quoted
  BY <1>1, NoSkipEffect
<1>3. Len(conds) \in Nat
  BY DEF Kinds
<1>4. Len(c.sections) = Len(conds) /\ ~ InQuotes(c.sections)
  BY <1>1, <1>2, <1>3 DEF SectionsAre
<1>5. ASSUME ~ Ends(Here.d) PROVE Included(c.sections)
  <2>1. \A k \in 1 .. Len(conds) : c.sections[k].on
    BY <1>1, <1>5 DEF SectionsAre, Stopped
  <2>2. /\ c.sections # << >> => Last(c.sections) = c.sections[Len(c.sections)]
        /\ c.sections = << >> <=> Len(c.sections) = 0
    BY <1>1, ConfigShape
  <2>3. Len(conds) # 0 => Len(conds) \in 1 .. Len(conds)
    BY <1>3
  <2> QED
    BY <1>4, <2>1, <2>2, <2>3 DEF Included
<1>6. ASSUME ~ Opens(Here.d), ~ Ends(Here.d)
      PROVE  Line(program, Here, c) = Effect(program, Here, c)
  BY <1>5, <1>6 DEF Line
<1> QED
  BY <1>3, <1>4, <1>5, <1>6

LEMMA CalmRel ==
  ASSUME Places, Kinds, NEW c, Rel(c), Running, Read,
         UNCHANGED <<program, opened, conds, skipping>>,
         ~ Opens(Here.d), ~ Ends(Here.d), Here.d # "quote",
         NEW d, Config(program, d), d.status = "reading", Moved(c, d),
         d.sections = c.sections,
         Recorded(program, includeGuard', d),
         Shared(program, files', macros', includeGuard', once', out', d)
  PROVE  Rel(d)'
<1>1. SectionsAre(c) /\ skipping = NONE /\ ~ AtEof
  BY DEF Rel, Running
<1>2. /\ Len(c.sections) = Len(conds) /\ Len(conds) \in Nat /\ ~ InQuotes(c.sections)
  BY CalmHere
<1>3. Added(Here.d) = 0 /\ Len(d.sections) = Len(c.sections) + Added(Here.d)
  BY <1>2 DEF Added, Ends
<1>4. Last(c.files).below <= Len(d.sections)
  BY Aligned
<1>5. SectionsAre(d)'
  <2>1. \A k \in 1 .. Len(conds) :
           /\ c.sections[k].taken <=> conds[k].wastrue \/ conds[k].ctx = "else"
           /\ c.sections[k].last <=> conds[k].ctx = "else"
           /\ c.sections[k].on
    BY <1>1 DEF SectionsAre, Stopped
  <2>2. Nest' = 0 /\ ~ Quoted' /\ skipping' = NONE /\ conds' = conds
    BY <1>1 DEF Nest, Quoted
  <2> QED
    BY <1>2, <2>1, <2>2 DEF SectionsAre
<1>6. ~ AtEof /\ Here.d \notin {"else", "elif"}
  BY <1>1 DEF Ends
<1>7. \A k \in 1 .. Len(conds') : conds'[k].guard # NONE =>
         /\ k \in 1 .. Len(conds) /\ conds'[k].guard = conds[k].guard
         /\ conds'[k].file = conds[k].file /\ k <= Len(c.sections)
         /\ Here.d \in {"else", "elif"} => k < Len(c.sections)
  BY <1>2, <1>6
<1> QED
  BY <1>2, <1>3, <1>4, <1>5, <1>6, <1>7, ReadRel

\* ... and so the lines that are no conditionals
With(c, m, on, t) == [c EXCEPT !.macros = m, !.once = on, !.out = t]

LEMMA WithItsOwn ==
  ASSUME NEW e, Fields(e), NEW d, d = With(e, e.macros, e.once, e.out)
  PROVE  d = e
BY DEF Fields, With

LEMMA EffectRel ==
  ASSUME NEW p, NEW c, Config(p, c), NEW m, NEW on, NEW t, NEW d,
         d = With(Past(c), m, on, t)
  PROVE  /\ Config(p, d) /\ Moved(c, d) /\ d.sections = c.sections /\ d.macros = m
         /\ d.once = on /\ d.out = t /\ d.seen = c.seen /\ d.met = c.met
         /\ d.status = c.status
<1>1. PICK e : e = Past(c)
  OBVIOUS
<1>2. Config(p, e) /\ Moved(c, e) /\ e.sections = c.sections /\ Same(c, e)
  BY <1>1, PastMoves
<1>3. /\ Fields(d) /\ d.sections = e.sections /\ d.files = e.files /\ d.macros = m
      /\ d.once = on /\ d.out = t /\ d.seen = e.seen /\ d.met = e.met
      /\ d.status = e.status
  BY <1>1, <1>2 DEF Config, Fields, With
<1> QED
  BY <1>2, <1>3 DEF Config, Moved, Same

-----------------------------------------------------------------------------
(* Lines of included groups that are no conditionals and open no file *)

LEMMA TextGoes ==
  ASSUME Places, Kinds, NEW c, Rel(c), Text
  PROVE  Goes(c)
<1>1. /\ Running /\ ~ AtEof /\ Read /\ UNCHANGED <<program, opened, conds, skipping>>
      /\ Here.d \in {"text", "blank"} /\ UNCHANGED <<macros, includeGuard, once>>
      /\ out' = IF Here.d = "blank" THEN out ELSE Append(out, <<Top.path, Top.pos>>)
  BY DEF Text, Running, known
<1>2. ~ Opens(Here.d) /\ ~ Ends(Here.d) /\ Here.d # "quote"
  BY <1>1 DEF Opens, Ends
<1>3. Step(program, c) = Effect(program, Here, c)
  BY <1>1, <1>2, StepIs, CalmHere
<1>4. /\ Config(program, c) /\ c.status = "reading" /\ Recorded(program, includeGuard, c)
      /\ Shared(program, files, macros, includeGuard, once, out, c)
  BY DEF Rel
<1>5. PICK e : e = Past(c)
  OBVIOUS
<1>6. /\ Config(program, e) /\ Moved(c, e) /\ e.sections = c.sections /\ Same(c, e)
  BY <1>4, <1>5, PastMoves
<1>7. PICK t : t = out'
  OBVIOUS
<1>8. PICK d : d = With(e, c.macros, c.once, t)
  OBVIOUS
<1>9. /\ Config(program, d) /\ Moved(c, d) /\ d.sections = c.sections
      /\ d.macros = c.macros /\ d.once = c.once /\ d.out = t /\ d.seen = c.seen
      /\ d.met = c.met /\ d.status = c.status
  BY <1>4, <1>5, <1>8, EffectRel
<1>10. d = Step(program, c)
  <2>1. Fields(e) /\ e.macros = c.macros /\ e.once = c.once /\ e.out = out
    BY <1>4, <1>6 DEF Config, Same, Shared
  <2>2. CASE Here.d = "blank"
    <3>1. Step(program, c) = e
      BY <1>3, <1>5, <2>2 DEF Effect
    <3>2. t = e.out
      BY <1>1, <1>7, <2>1, <2>2
    <3>3. d = With(e, e.macros, e.once, e.out)
      BY <1>8, <2>1, <3>2
    <3>4. d = e
      BY <2>1, <3>3, WithItsOwn
    <3> QED
      BY <3>1, <3>4
  <2>3. CASE Here.d = "text"
    <3>1. Step(program, c) = [e EXCEPT !.out = Append(@, <<Top.path, Top.pos>>)]
      BY <1>3, <1>5, <2>3, Aligned DEF Effect
    <3>2. t = Append(e.out, <<Top.path, Top.pos>>)
      BY <1>1, <1>7, <2>1, <2>3
    <3> QED
      BY <1>8, <2>1, <3>1, <3>2 DEF Fields, With
  <2> QED
    BY <1>1, <2>2, <2>3
<1>11. Advanced(files, files')
  BY <1>1, NextAdvances DEF Read
<1>12. Recorded(program, includeGuard', d)
  BY <1>1, <1>4, <1>9 DEF Recorded
<1>13. Shared(program, files', macros', includeGuard', once', out', d)
  BY <1>1, <1>4, <1>7, <1>9, <1>11 DEF Shared, Advanced
<1>14. Rel(d)'
  BY <1>1, <1>2, <1>4, <1>9, <1>12, <1>13, CalmRel
<1> QED
  BY <1>10, <1>14 DEF Goes

LEMMA DefineGoes ==
  ASSUME Places, Kinds, NEW c, Rel(c), ReadDefine
  PROVE  Goes(c)
<1>1. /\ Running /\ ~ AtEof /\ Read /\ UNCHANGED <<program, opened, conds, skipping>>
      /\ Here.d = "define" /\ UNCHANGED <<includeGuard, once, out>>
      /\ macros' = macros \cup {Here.m}
  BY DEF ReadDefine, Sees, Running
<1>2. ~ Opens(Here.d) /\ ~ Ends(Here.d) /\ Here.d # "quote"
  BY <1>1 DEF Opens, Ends
<1>3. Step(program, c) = Effect(program, Here, c)
  BY <1>1, <1>2, StepIs, CalmHere
<1>4. /\ Config(program, c) /\ c.status = "reading" /\ Recorded(program, includeGuard, c)
      /\ Shared(program, files, macros, includeGuard, once, out, c)
  BY DEF Rel
<1>5. PICK e : e = Past(c)
  OBVIOUS
<1>6. /\ Config(program, e) /\ Moved(c, e) /\ e.sections = c.sections /\ Same(c, e)
  BY <1>4, <1>5, PastMoves
<1>7. PICK m : m = macros'
  OBVIOUS
<1>8. PICK d : d = With(e, m, c.once, c.out)
  OBVIOUS
<1>9. /\ Config(program, d) /\ Moved(c, d) /\ d.sections = c.sections
      /\ d.macros = m /\ d.once = c.once /\ d.out = c.out /\ d.seen = c.seen
      /\ d.met = c.met /\ d.status = c.status
  BY <1>4, <1>5, <1>8, EffectRel
<1>10. d = Step(program, c)
  <2>1. Fields(e) /\ e.macros = macros /\ e.once = c.once /\ e.out = c.out
    BY <1>4, <1>6 DEF Config, Same, Shared
  <2>2. Step(program, c) = [e EXCEPT !.macros = @ \cup {Here.m}]
    BY <1>1, <1>3, <1>5 DEF Effect
  <2>3. m = e.macros \cup {Here.m}
    BY <1>1, <1>7, <2>1
  <2> QED
    BY <1>8, <2>1, <2>2, <2>3 DEF Fields, With
<1>11. Advanced(files, files')
  BY <1>1, NextAdvances DEF Read
<1>12. Recorded(program, includeGuard', d)
  BY <1>1, <1>4, <1>9 DEF Recorded
<1>13. Shared(program, files', macros', includeGuard', once', out', d)
  BY <1>1, <1>4, <1>7, <1>9, <1>11 DEF Shared, Advanced
<1>14. Rel(d)'
  BY <1>1, <1>2, <1>4, <1>9, <1>12, <1>13, CalmRel
<1> QED
  BY <1>10, <1>14 DEF Goes

LEMMA UndefGoes ==
  ASSUME Places, Kinds, NEW c, Rel(c), ReadUndef
  PROVE  Goes(c)
<1>1. /\ Running /\ ~ AtEof /\ Read /\ UNCHANGED <<program, opened, conds, skipping>>
      /\ Here.d = "undef" /\ UNCHANGED <<includeGuard, once, out>>
      /\ macros' = macros \ {Here.m}
  BY DEF ReadUndef, Sees, Running
<1>2. ~ Opens(Here.d) /\ ~ Ends(Here.d) /\ Here.d # "quote"
  BY <1>1 DEF Opens, Ends
<1>3. Step(program, c) = Effect(program, Here, c)
  BY <1>1, <1>2, StepIs, CalmHere
<1>4. /\ Config(program, c) /\ c.status = "reading" /\ Recorded(program, includeGuard, c)
      /\ Shared(program, files, macros, includeGuard, once, out, c)
  BY DEF Rel
<1>5. CASE c.met
  <2>1. Step(program, c) = Refuse(c)
    BY <1>1, <1>3, <1>5 DEF Effect
  <2> QED
    BY <2>1, GoesRefused
<1>6. CASE ~ c.met
  <2>1. PICK e : e = Past(c)
    OBVIOUS
  <2>2. /\ Config(program, e) /\ Moved(c, e) /\ e.sections = c.sections /\ Same(c, e)
    BY <1>4, <2>1, PastMoves
  <2>3. PICK m : m = macros'
    OBVIOUS
  <2>4. PICK d : d = With(e, m, c.once, c.out)
    OBVIOUS
  <2>5. /\ Config(program, d) /\ Moved(c, d) /\ d.sections = c.sections
        /\ d.macros = m /\ d.once = c.once /\ d.out = c.out /\ d.seen = c.seen
        /\ d.met = c.met /\ d.status = c.status
    BY <1>4, <2>1, <2>4, EffectRel
  <2>6. d = Step(program, c)
    <3>1. Fields(e) /\ e.macros = macros /\ e.once = c.once /\ e.out = c.out
      BY <1>4, <2>2 DEF Config, Same, Shared
    <3>2. Step(program, c) = [e EXCEPT !.macros = @ \ {Here.m}]
      BY <1>1, <1>3, <1>6, <2>1 DEF Effect
    <3>3. m = e.macros \ {Here.m}
      BY <1>1, <2>3, <3>1
    <3> QED
      BY <2>4, <3>1, <3>2, <3>3 DEF Fields, With
  <2>7. Advanced(files, files')
    BY <1>1, NextAdvances DEF Read
  <2>8. Recorded(program, includeGuard', d)
    BY <1>1, <1>4, <2>5 DEF Recorded
  <2>9. Shared(program, files', macros', includeGuard', once', out', d)
    BY <1>1, <1>4, <1>6, <2>3, <2>5, <2>7 DEF Shared, Advanced
  <2>10. Rel(d)'
    BY <1>1, <1>2, <1>4, <2>5, <2>8, <2>9, CalmRel
  <2> QED
    BY <2>6, <2>10 DEF Goes
<1> QED
  BY <1>5, <1>6

LEMMA OnceGoes ==
  ASSUME Places, Kinds, NEW c, Rel(c), PragmaOnce
  PROVE  Goes(c)
<1>1. /\ Running /\ ~ AtEof /\ Read /\ UNCHANGED <<program, opened, conds, skipping>>
      /\ Here.d = "once" /\ UNCHANGED <<includeGuard, macros, out>>
      /\ once' = once \cup {Top.name}
  BY DEF PragmaOnce, Sees, Running
<1>2. ~ Opens(Here.d) /\ ~ Ends(Here.d) /\ Here.d # "quote"
  BY <1>1 DEF Opens, Ends
<1>3. Step(program, c) = Effect(program, Here, c)
  BY <1>1, <1>2, StepIs, CalmHere
<1>4. /\ Config(program, c) /\ c.status = "reading" /\ Recorded(program, includeGuard, c)
      /\ Shared(program, files, macros, includeGuard, once, out, c)
  BY DEF Rel
<1>5. PICK e : e = Past(c)
  OBVIOUS
<1>6. /\ Config(program, e) /\ Moved(c, e) /\ e.sections = c.sections /\ Same(c, e)
  BY <1>4, <1>5, PastMoves
<1>7. PICK s : s = c.once \cup {Top.path}
  OBVIOUS
<1>8. PICK d : d = With(e, c.macros, s, c.out)
  OBVIOUS
<1>9. /\ Config(program, d) /\ Moved(c, d) /\ d.sections = c.sections
      /\ d.macros = c.macros /\ d.once = s /\ d.out = c.out /\ d.seen = c.seen
      /\ d.met = c.met /\ d.status = c.status
  BY <1>4, <1>5, <1>8, EffectRel
<1>10. d = Step(program, c)
  <2>1. Fields(e) /\ e.macros = c.macros /\ e.once = c.once /\ e.out = c.out
    BY <1>4, <1>6 DEF Config, Same
  <2>2. Step(program, c) = [e EXCEPT !.once = @ \cup {Top.path}]
    BY <1>1, <1>3, <1>5, Aligned DEF Effect
  <2>3. s = e.once \cup {Top.path}
    BY <1>7, <2>1
  <2> QED
    BY <1>8, <2>1, <2>2, <2>3 DEF Fields, With
<1>11. Advanced(files, files')
  BY <1>1, NextAdvances DEF Read
<1>12. Recorded(program, includeGuard', d)
  BY <1>1, <1>4, <1>9 DEF Recorded
<1>13. Top.name = Top.path /\ Top.path \in DOMAIN program
  BY Aligned, TopShape
<1>14. Shared(program, files', macros', includeGuard', once', out', d)
  BY <1>1, <1>4, <1>7, <1>9, <1>11, <1>13 DEF Shared, Advanced
<1>15. Rel(d)'
  BY <1>1, <1>2, <1>4, <1>9, <1>12, <1>14, CalmRel
<1> QED
  BY <1>10, <1>15 DEF Goes

\* What the engine has an error for, the standard refuses, and #line too.
LEMMA ErrorRefused ==
  ASSUME Places, Kinds, NEW c, Rel(c), ReadError \/ ReadLine
  PROVE  Step(program, c) = Refuse(c)
<1>1. Running /\ ~ AtEof /\ Here.d \in {"error", "quote", "line"}
  BY DEF ReadError, ReadLine, Sees, Running
<1>2. ~ Opens(Here.d) /\ ~ Ends(Here.d)
  BY <1>1 DEF Opens, Ends
<1>3. Step(program, c) = Effect(program, Here, c)
  BY <1>1, <1>2, StepIs, CalmHere
<1> QED
  BY <1>1, <1>3 DEF Effect

LEMMA StrayRefused ==
  ASSUME Places, Kinds, NEW c, Rel(c), ReadStray
  PROVE  Step(program, c) = Refuse(c)
<1>1. /\ Running /\ ~ AtEof /\ Ends(Here.d)
      /\ conds # << >> => Here.d # "endif" /\ Last(conds).ctx = "else"
  BY DEF ReadStray, Running
<1>2. ~ InQuotes(c.sections) /\ Len(c.sections) = Len(conds) /\ Len(conds) \in Nat
  BY <1>1, CalmHere
<1>3. Step(program, c) = EndOrNext(Here, c)
  <2>1. ~ Opens(Here.d)
    BY <1>1 DEF Opens, Ends
  <2> QED
    BY <1>1, <1>2, <2>1, StepIs DEF Line
<1>4. CASE Len(c.sections) = Last(c.files).below
  BY <1>3, <1>4 DEF EndOrNext
<1>5. CASE Len(c.sections) # Last(c.files).below
  <2>1. /\ Last(c.files).below \in Nat /\ Last(c.files).below <= Len(c.sections)
        /\ SectionsAre(c) /\ Config(program, c) /\ skipping = NONE
    BY <1>1, Aligned DEF Rel, Running
  <2>2. Len(conds) >= 1 /\ conds # << >> /\ c.sections # << >>
    BY <1>2, <1>5, <2>1
  <2>3. PICK N \in Nat : N = Len(conds)
    BY <1>2
  <2>4. N >= 1 /\ N \in 1 .. N /\ Len(c.sections) = N
    BY <1>2, <2>2, <2>3
  <2>5. Last(c.sections).last
    <3>1. Last(c.sections) = c.sections[N] /\ Last(conds) = conds[N]
      BY <2>1, <2>2, <2>3, <2>4, ConfigShape DEF Last
    <3>2. conds[N].ctx = "else"
      BY <1>1, <2>2, <3>1
    <3>3. c.sections[N].last <=> conds[N].ctx = "else"
      BY <2>1, <2>3, <2>4 DEF SectionsAre
    <3> QED
      BY <3>1, <3>2, <3>3
  <2>6. Enclosing(c.sections)
    <3>1. /\ Len(Front(c.sections)) = N - 1
          /\ Front(c.sections) \in Seq(Group)
          /\ \A k \in 1 .. N - 1 : Front(c.sections)[k] = c.sections[k]
      BY <2>1, <2>2, <2>4, FrontShape DEF Config
    <3>2. \A k \in 1 .. N - 1 : c.sections[k].on
      BY <2>1, <2>3, <2>4 DEF SectionsAre
    <3>3. CASE N = 1
      BY <3>1, <3>3 DEF Enclosing, Included
    <3>4. CASE N # 1
      <4>1. N - 1 \in 1 .. N - 1
        BY <2>4, <3>4
      <4>2. Last(Front(c.sections)) = c.sections[N - 1]
        BY <3>1, <4>1 DEF Last
      <4> QED
        BY <3>2, <4>1, <4>2 DEF Enclosing, Included
    <3> QED
      BY <3>3, <3>4
  <2>7. Here.d # "endif"
    BY <1>1, <2>2
  <2> QED
    BY <1>3, <1>5, <2>5, <2>6, <2>7 DEF EndOrNext
<1> QED
  BY <1>4, <1>5

-----------------------------------------------------------------------------
(* Skipping *)

\* The engine's two actions: the line that ends the skip is looked at and put
\* back, which the reference does not see, and any other line is read.
LEMMA StopGoes ==
  ASSUME Places, Kinds, NEW c, Rel(c), SkipStop
  PROVE  Rel(c)'
<1>1. /\ UNCHANGED <<program, files, opened, conds, macros, includeGuard, once, out>>
      /\ ~ AtEof /\ Ends(Here.d)
  BY DEF SkipStop, SkippingLine, known
<1>2. skipping # NONE /\ skipping' = NONE /\ ~ Quoted /\ Nest = 0 /\ ~ Quoted' /\ Nest' = 0
  BY StopEffect
<1>3. /\ Config(program, c) /\ c.status = "reading" /\ Levels(program, files, c)
      /\ SectionsAre(c) /\ GuardsOpen(program, files, opened, conds, c)
      /\ Recorded(program, includeGuard, c)
      /\ Shared(program, files, macros, includeGuard, once, out, c)
  BY DEF Rel
<1>4. Stopped'
  <2>1. Lines' = Lines /\ Top' = Top
    BY <1>1, SameDepth
  <2> QED
    BY <1>1, <2>1 DEF Stopped, AtEof, Here
<1>5. Len(conds) \in Nat
  BY DEF Kinds
<1>6. SectionsAre(c)'
  <2>1. /\ Len(c.sections) = Len(conds) + 0
        /\ \A k \in 1 .. Len(conds) :
              /\ c.sections[k].taken <=> conds[k].wastrue \/ conds[k].ctx = "else"
              /\ c.sections[k].last <=> conds[k].ctx = "else"
        /\ ~ InQuotes(c.sections)
        /\ \A k \in 1 .. Len(c.sections) : c.sections[k].on <=> k < Len(conds)
    BY <1>2, <1>3 DEF SectionsAre
  <2>2. \A k \in 1 .. Len(conds) : c.sections[k].on \/ k = Len(conds)
    BY <1>5, <2>1
  <2> QED
    BY <1>1, <1>2, <1>4, <1>5, <2>1, <2>2 DEF SectionsAre
<1> QED
  BY <1>1, <1>3, <1>6 DEF Rel

\* The state of the sections where lines are skipped
LEMMA SkippedHere ==
  ASSUME Places, Kinds, NEW c, Rel(c), SkipLine
  PROVE  /\ Len(conds) \in Nat /\ Nest \in Nat /\ Len(c.sections) = Len(conds) + Nest
         /\ Last(c.files).below \in Nat /\ Last(c.files).below < Len(conds)
         /\ \A k \in 1 .. Len(c.sections) : c.sections[k].on <=> k < Len(conds)
         /\ ~ Included(c.sections) /\ (InQuotes(c.sections) <=> Quoted)
         /\ Ends(Here.d) /\ ~ Quoted => Nest > 0
<1>1. SectionsAre(c) /\ Config(program, c) /\ skipping # NONE
      /\ (skipping.quoted \/ skipping.nest > 0 \/ ~ Ends(Here.d))
  BY DEF Rel, SkipLine, SkippingLine
<1>2. Len(conds) \in Nat /\ Nest \in Nat
  BY NestNat DEF Kinds
<1>3. /\ Len(c.sections) = Len(conds) + Nest /\ (InQuotes(c.sections) <=> Quoted)
      /\ Last(c.files).below < Len(conds)
      /\ \A k \in 1 .. Len(c.sections) : c.sections[k].on <=> k < Len(conds)
  BY <1>1 DEF SectionsAre
<1>4. Last(c.files).below \in Nat
  BY Aligned
<1>5. ~ Included(c.sections)
  <2>1. PICK n : n = Len(c.sections)
    OBVIOUS
  <2>2. n \in Nat /\ n \in 1 .. n /\ ~ (n < Len(conds)) /\ n # 0
    BY <1>2, <1>3, <1>4, <2>1
  <2>3. ~ c.sections[n].on
    BY <1>3, <2>1, <2>2
  <2> QED
    BY <1>1, <2>1, <2>2, <2>3, ConfigShape DEF Included
<1>6. Ends(Here.d) /\ ~ Quoted => Nest > 0
  BY <1>1 DEF Quoted, Nest
<1> QED
  BY <1>2, <1>3, <1>4, <1>5, <1>6

LEMMA SkipRel ==
  ASSUME Places, Kinds, NEW c, Rel(c), SkipLine,
         Opens(Here.d) \/ Ends(Here.d) => ~ InQuotes(c.sections),
         NEW d, Config(program, d), Moved(c, d), Same(c, d),
         Len(d.sections) = Len(c.sections) + Added(Here.d),
         \A k \in 1 .. Len(conds) : /\ d.sections[k].on <=> c.sections[k].on
                                    /\ d.sections[k].taken <=> c.sections[k].taken
                                    /\ d.sections[k].last <=> c.sections[k].last,
         \A k \in Len(conds) + 1 .. Len(d.sections) : ~ d.sections[k].on,
         InQuotes(d.sections) <=> (IF Here.d = "quote" THEN ~ InQuotes(c.sections)
                                   ELSE InQuotes(c.sections))
  PROVE  Rel(d)'
<1>1. /\ ~ AtEof /\ Read
      /\ UNCHANGED <<program, opened, conds, macros, includeGuard, once, out>>
  BY DEF SkipLine, SkippingLine, known
<1>2. /\ SectionsAre(c) /\ Config(program, c) /\ c.status = "reading"
      /\ Recorded(program, includeGuard, c)
      /\ Shared(program, files, macros, includeGuard, once, out, c)
  BY DEF Rel
<1>3. /\ Len(conds) \in Nat /\ Nest \in Nat /\ Len(c.sections) = Len(conds) + Nest
      /\ Last(c.files).below \in Nat /\ Last(c.files).below < Len(conds)
      /\ \A k \in 1 .. Len(c.sections) : c.sections[k].on <=> k < Len(conds)
      /\ InQuotes(c.sections) <=> Quoted
      /\ Ends(Here.d) /\ ~ Quoted => Nest > 0
  BY SkippedHere
<1>4. /\ skipping # NONE /\ skipping' # NONE
      /\ Quoted' <=> (IF Here.d = "quote" THEN ~ Quoted ELSE Quoted)
      /\ Nest' = Nest + (IF Quoted THEN 0 ELSE Added(Here.d))
  BY SkipLineEffect
<1>5. Added(Here.d) \in {-1, 0, 1} /\ (Added(Here.d) # 0 => Opens(Here.d) \/ Ends(Here.d))
      /\ (Added(Here.d) = -1 => Ends(Here.d))
  BY DEF Added, Ends
<1>6. Nest' = Nest + Added(Here.d) /\ Nest' \in Nat
  BY <1>3, <1>4, <1>5
<1>7. Len(d.sections) = Len(conds) + Nest'
  BY <1>3, <1>5, <1>6
<1>8. Last(d.files).below = Last(c.files).below
  <2>1. PICK n : n = Len(c.files)
    OBVIOUS
  <2>2. Last(c.files) = c.files[n] /\ Last(d.files) = d.files[n] /\ n \in Nat /\ n >= 1
    BY <1>2, <2>1, ConfigShape DEF Moved
  <2> QED
    BY <2>1, <2>2 DEF Moved
<1>9. SectionsAre(d)'
  <2>1. \A k \in 1 .. Len(conds) :
           /\ d.sections[k].taken <=> conds[k].wastrue \/ conds[k].ctx = "else"
           /\ d.sections[k].last <=> conds[k].ctx = "else"
    BY <1>2 DEF SectionsAre
  <2>2. ASSUME NEW k \in 1 .. Len(d.sections) PROVE d.sections[k].on <=> k < Len(conds)
    <3>1. CASE k <= Len(conds)
      BY <1>3, <3>1
    <3>2. CASE k > Len(conds)
      <4>1. k \in Len(conds) + 1 .. Len(d.sections)
        BY <1>3, <3>2
      <4> QED
        BY <1>3, <3>2, <4>1
    <3> QED
      BY <1>3, <3>1, <3>2
  <2>3. InQuotes(d.sections) <=> Quoted'
    BY <1>3, <1>4
  <2> QED
    BY <1>1, <1>3, <1>4, <1>7, <1>8, <2>1, <2>2, <2>3 DEF SectionsAre
<1>10. Last(c.files).below <= Len(d.sections)
  BY <1>3, <1>6, <1>7
<1>11. ASSUME NEW k \in 1 .. Len(conds'), conds'[k].guard # NONE
       PROVE  /\ k \in 1 .. Len(conds) /\ conds'[k].guard = conds[k].guard
              /\ conds'[k].file = conds[k].file /\ k <= Len(c.sections)
              /\ Here.d \in {"else", "elif"} => k < Len(c.sections)
  <2>1. k \in 1 .. Len(conds) /\ conds'[k] = conds[k]
    BY <1>1
  <2>2. k <= Len(c.sections) /\ (Nest > 0 => k < Len(c.sections))
    BY <1>3, <2>1
  <2>3. Here.d \in {"else", "elif"} => Nest > 0
    BY <1>3 DEF Ends
  <2> QED
    BY <2>1, <2>2, <2>3
<1>12. Advanced(files, files')
  BY <1>1, NextAdvances DEF Read
<1>13. Recorded(program, includeGuard', d)
  BY <1>1, <1>2, RecordedSame DEF Same
<1>14. Shared(program, files', macros', includeGuard', once', out', d)
  <2>1. PICK h : h = files'
    OBVIOUS
  <2>2. Shared(program, h, macros, includeGuard, once, out, d)
    BY <1>2, <1>12, <2>1, SharedRead
  <2> QED
    BY <1>1, <2>1, <2>2
<1>15. d.status = "reading"
  BY <1>2 DEF Same
<1> QED
  BY <1>1, <1>7, <1>9, <1>10, <1>11, <1>13, <1>14, <1>15, ReadRel

-----------------------------------------------------------------------------
(* Conditionals, where the lines are not skipped *)

LEMMA EnclosingIs ==
  ASSUME NEW p, NEW c, Config(p, c), NEW n \in Nat, n >= 1, Len(c.sections) = n
  PROVE  Enclosing(c.sections) <=> n = 1 \/ c.sections[n - 1].on
<1>0. n # 1 => n - 1 \in 1 .. n - 1 /\ n - 1 # 0
  OBVIOUS
<1>1. /\ Len(Front(c.sections)) = n - 1
      /\ Front(c.sections) \in Seq(Group)
      /\ \A k \in 1 .. n - 1 : Front(c.sections)[k] = c.sections[k]
  BY FrontShape, ConfigShape DEF Config
<1>2. CASE n = 1
  BY <1>1, <1>2 DEF Enclosing, Included
<1>3. CASE n # 1
  <2>1. n - 1 \in 1 .. n - 1 /\ n - 1 # 0
    BY <1>0, <1>3
  <2>2. Last(Front(c.sections)) = c.sections[n - 1] /\ Front(c.sections) # << >>
    BY <1>1, <2>1 DEF Last
  <2> QED
    BY <1>3, <2>2 DEF Enclosing, Included
<1> QED
  BY <1>2, <1>3

LEMMA SkipGoes ==
  ASSUME Places, Kinds, NEW c, Rel(c), SkipLine
  PROVE  Goes(c)
<1>1. Config(program, c) /\ ~ AtEof
  BY DEF Rel, SkipLine, SkippingLine
<1>2. PICK d : d = Line(program, Here, c)
  OBVIOUS
<1>3. d = Step(program, c)
  BY <1>1, <1>2, StepIs
<1>4. /\ Len(conds) \in Nat /\ Nest \in Nat /\ Len(c.sections) = Len(conds) + Nest
      /\ Last(c.files).below \in Nat /\ Last(c.files).below < Len(conds)
      /\ \A k \in 1 .. Len(c.sections) : c.sections[k].on <=> k < Len(conds)
      /\ ~ Included(c.sections) /\ (InQuotes(c.sections) <=> Quoted)
      /\ Ends(Here.d) /\ ~ Quoted => Nest > 0
  BY SkippedHere
<1>5. PICK n \in Nat : n = Len(c.sections)
  BY <1>4
<1>6. n >= 1 /\ Len(conds) \in 1 .. n
  BY <1>4, <1>5
<1>7. CASE (Opens(Here.d) \/ Ends(Here.d)) /\ InQuotes(c.sections)
  <2>1. d = Refuse(c)
    BY <1>2, <1>7 DEF Line
  <2> QED
    BY <1>3, <2>1, GoesRefused
<1>8. CASE Opens(Here.d) /\ ~ InQuotes(c.sections)
  <2>0. Included(c.sections) => Selected(Here, c.macros) \in BOOLEAN
    BY <1>4
  <2>1. /\ Config(program, d) /\ Moved(c, d) /\ Same(c, d)
        /\ Len(d.sections) = Len(c.sections) + 1
        /\ \A k \in 1 .. Len(c.sections) : d.sections[k] = c.sections[k]
        /\ d.sections[Len(c.sections) + 1].on
             <=> Included(c.sections) /\ Selected(Here, c.macros)
        /\ ~ InQuotes(d.sections)
    BY <1>1, <1>2, <1>8, <2>0, OpenEffect
  <2>2. Added(Here.d) = 1 /\ Here.d # "quote"
    BY <1>8 DEF Added, Opens
  <2>3. \A k \in 1 .. Len(conds) : d.sections[k] = c.sections[k]
    BY <1>4, <2>1
  <2>4. ASSUME NEW k \in Len(conds) + 1 .. Len(d.sections) PROVE ~ d.sections[k].on
    <3>1. CASE k = n + 1
      BY <1>4, <1>5, <2>1, <3>1
    <3>2. CASE k # n + 1
      <4>1. k \in 1 .. n /\ ~ (k < Len(conds))
        BY <1>4, <1>5, <2>1, <3>2
      <4> QED
        BY <1>4, <1>5, <2>1, <4>1
    <3> QED
      BY <3>1, <3>2
  <2>5. Rel(d)'
    BY <1>8, <2>1, <2>2, <2>3, <2>4, SkipRel
  <2> QED
    BY <1>3, <2>5 DEF Goes
<1>9. CASE Here.d = "endif" /\ ~ InQuotes(c.sections)
  <2>1. Nest > 0 /\ n > Len(conds) /\ Ends(Here.d)
    BY <1>4, <1>5, <1>9 DEF Ends
  <2>2. Len(c.sections) > Last(c.files).below
    BY <1>4, <2>1
  <2>3. /\ Config(program, d) /\ Moved(c, d) /\ Same(c, d)
        /\ Len(d.sections) = Len(c.sections) - 1
        /\ \A k \in 1 .. Len(c.sections) - 1 : d.sections[k] = c.sections[k]
        /\ ~ InQuotes(d.sections)
    BY <1>1, <1>2, <1>4, <1>9, <2>2, CloseEffect
  <2>4. Added(Here.d) = -1 /\ Here.d # "quote"
    BY <1>9 DEF Added, Opens
  <2>5. Len(d.sections) = Len(c.sections) + Added(Here.d)
    BY <1>4, <2>3, <2>4
  <2>6. \A k \in 1 .. Len(conds) : d.sections[k] = c.sections[k]
    BY <1>4, <1>5, <2>1, <2>3
  <2>7. ASSUME NEW k \in Len(conds) + 1 .. Len(d.sections) PROVE ~ d.sections[k].on
    <3>1. k \in 1 .. n - 1 /\ k \in 1 .. n /\ ~ (k < Len(conds))
      BY <1>4, <1>5, <2>3
    <3> QED
      BY <1>4, <1>5, <2>3, <3>1
  <2>8. Rel(d)'
    BY <1>9, <2>3, <2>4, <2>5, <2>6, <2>7, SkipRel
  <2> QED
    BY <1>3, <2>8 DEF Goes
<1>10. CASE Here.d \in {"else", "elif"} /\ ~ InQuotes(c.sections)
  <2>1. Nest > 0 /\ n > Len(conds) /\ Ends(Here.d)
    BY <1>4, <1>5, <1>10 DEF Ends
  <2>2. Len(c.sections) # Last(c.files).below
    BY <1>4, <2>1
  <2>3. ~ Enclosing(c.sections)
    <3>1. n # 1 /\ n - 1 \in 1 .. n /\ ~ (n - 1 < Len(conds))
      BY <1>4, <1>5, <2>1
    <3> QED
      BY <1>1, <1>4, <1>5, <1>6, <3>1, EnclosingIs
  <2>4. d = Past(c)
    BY <1>1, <1>2, <1>10, <2>2, <2>3, NestedEffect
  <2>5. Config(program, d) /\ Moved(c, d) /\ d.sections = c.sections /\ Same(c, d)
    BY <1>1, <2>4, PastMoves
  <2>6. Added(Here.d) = 0 /\ Here.d # "quote"
    BY <1>10 DEF Added, Opens
  <2>7. Len(d.sections) = Len(c.sections) + Added(Here.d)
    BY <1>4, <2>5, <2>6
  <2>8. ASSUME NEW k \in Len(conds) + 1 .. Len(d.sections) PROVE ~ d.sections[k].on
    <3>1. k \in 1 .. n /\ ~ (k < Len(conds))
      BY <1>4, <1>5, <2>5
    <3> QED
      BY <1>4, <1>5, <2>5, <3>1
  <2>9. Rel(d)'
    BY <1>10, <2>5, <2>6, <2>7, <2>8, SkipRel
  <2> QED
    BY <1>3, <2>9 DEF Goes
<1>11. CASE ~ Opens(Here.d) /\ ~ Ends(Here.d)
  <2>1. /\ Config(program, d) /\ Moved(c, d) /\ Same(c, d)
        /\ Len(d.sections) = Len(c.sections)
        /\ \A k \in 1 .. Len(c.sections) : /\ d.sections[k].on = c.sections[k].on
                                           /\ d.sections[k].taken = c.sections[k].taken
                                           /\ d.sections[k].last = c.sections[k].last
        /\ InQuotes(d.sections) <=> (IF Here.d = "quote" THEN ~ InQuotes(c.sections)
                                     ELSE InQuotes(c.sections))
    BY <1>1, <1>2, <1>4, <1>11, IgnoreEffect
  <2>2. Added(Here.d) = 0
    BY <1>11 DEF Added, Ends
  <2>3. Len(d.sections) = Len(c.sections) + Added(Here.d)
    BY <1>4, <2>1, <2>2
  <2>4. \A k \in 1 .. Len(conds) : k \in 1 .. Len(c.sections)
    BY <1>4
  <2>5. ASSUME NEW k \in Len(conds) + 1 .. Len(d.sections) PROVE ~ d.sections[k].on
    <3>1. k \in 1 .. n /\ ~ (k < Len(conds))
      BY <1>4, <1>5, <2>1
    <3> QED
      BY <1>4, <1>5, <2>1, <3>1
  <2>6. \A k \in 1 .. Len(conds) : /\ d.sections[k].on <=> c.sections[k].on
                                   /\ d.sections[k].taken <=> c.sections[k].taken
                                   /\ d.sections[k].last <=> c.sections[k].last
    BY <2>1, <2>4
  <2>7. Rel(d)'
    BY <1>11, <2>1, <2>3, <2>5, <2>6, SkipRel
  <2> QED
    BY <1>3, <2>7 DEF Goes
<1> QED
  BY <1>7, <1>8, <1>9, <1>10, <1>11 DEF Ends

\* The conditionals of included groups: #if, #ifdef and #ifndef
LEMMA OpenGoes ==
  ASSUME Places, Kinds, NEW c, Rel(c), Running, Opens(Here.d),
         NEW istrue \in BOOLEAN, Selected(Here, macros) = istrue,
         NEW ci, ci.wastrue = istrue, ci.ctx = "then",
         ci.guard # NONE => /\ Here.d = "ifndef" /\ Here.m = ci.guard
                            /\ ci.file = Top.id /\ FirstLine,
         DoReadIf(istrue, ci)
  PROVE  Goes(c)
<1>1. /\ ~ AtEof /\ skipping = NONE /\ Read /\ conds' = Append(conds, ci)
      /\ UNCHANGED <<program, opened, macros, includeGuard, once, out>>
      /\ istrue => skipping' = NONE
      /\ ~ istrue => StartSkip
  BY DEF DoReadIf, Running, known
<1>2. /\ SectionsAre(c) /\ Config(program, c) /\ c.status = "reading"
      /\ Recorded(program, includeGuard, c)
      /\ Shared(program, files, macros, includeGuard, once, out, c)
  BY DEF Rel
<1>3. ~ Ends(Here.d) /\ Here.d # "quote" /\ Added(Here.d) = 1
  BY DEF Opens, Ends, Added
<1>4. PICK N \in Nat : N = Len(conds)
  BY CalmHere
<1>5. Len(c.sections) = N /\ ~ InQuotes(c.sections) /\ Included(c.sections)
  BY <1>3, <1>4, CalmHere
<1>6. \A k \in 1 .. N : /\ c.sections[k].taken <=> conds[k].wastrue \/ conds[k].ctx = "else"
                        /\ c.sections[k].last <=> conds[k].ctx = "else"
                        /\ c.sections[k].on
  BY <1>1, <1>2, <1>3, <1>4 DEF SectionsAre, Stopped
<1>7. c.macros = macros
  BY <1>2 DEF Shared
<1>8. PICK d : d = Line(program, Here, c)
  OBVIOUS
<1>9. d = Step(program, c)
  BY <1>1, <1>8, StepIs
<1>10. Included(c.sections) => Selected(Here, c.macros) \in BOOLEAN
  BY <1>7
<1>11. /\ Config(program, d) /\ Moved(c, d) /\ Same(c, d)
       /\ Len(d.sections) = Len(c.sections) + 1
       /\ \A k \in 1 .. Len(c.sections) : d.sections[k] = c.sections[k]
       /\ d.sections[Len(c.sections) + 1].on
            <=> Included(c.sections) /\ Selected(Here, c.macros)
       /\ d.sections[Len(c.sections) + 1].taken <=> d.sections[Len(c.sections) + 1].on
       /\ ~ d.sections[Len(c.sections) + 1].last
       /\ ~ InQuotes(d.sections)
  BY <1>2, <1>5, <1>8, <1>10, OpenEffect
<1>12. /\ Len(d.sections) = N + 1 /\ \A k \in 1 .. N : d.sections[k] = c.sections[k]
       /\ d.sections[N + 1].on <=> istrue
       /\ d.sections[N + 1].taken <=> istrue
       /\ ~ d.sections[N + 1].last
  BY <1>5, <1>7, <1>11
<1>13. /\ Len(conds') = N + 1 /\ conds'[N + 1] = ci
       /\ \A k \in 1 .. N : conds'[k] = conds[k]
  <2>1. conds \in Seq(CondIncl)
    BY DEF Kinds
  <2> QED
    BY <1>1, <1>4, <2>1
<1>14. Last(c.files).below \in Nat /\ Last(c.files).below <= N
  BY <1>5, Aligned
<1>15. Last(d.files).below = Last(c.files).below
  <2>1. PICK n : n = Len(c.files)
    OBVIOUS
  <2>2. Last(c.files) = c.files[n] /\ Last(d.files) = d.files[n] /\ n \in Nat /\ n >= 1
    BY <1>2, <1>11, <2>1, ConfigShape DEF Moved
  <2> QED
    BY <1>11, <2>1, <2>2 DEF Moved
<1>16. Nest' = 0 /\ ~ Quoted' /\ (istrue <=> skipping' = NONE)
  <2>1. CASE istrue
    BY <1>1, <2>1 DEF Nest, Quoted
  <2>2. CASE ~ istrue
    BY <1>1, <2>2, StartSkipEffect
  <2> QED
    BY <2>1, <2>2
<1>17. \A k \in 1 .. N + 1 : k \in 1 .. N \/ k = N + 1
  OBVIOUS
<1>18. SectionsAre(d)'
  <2>1. \A k \in 1 .. N + 1 :
           /\ d.sections[k].taken <=> conds'[k].wastrue \/ conds'[k].ctx = "else"
           /\ d.sections[k].last <=> conds'[k].ctx = "else"
    <3>1. ASSUME NEW k \in 1 .. N
          PROVE  /\ d.sections[k].taken <=> conds'[k].wastrue \/ conds'[k].ctx = "else"
                 /\ d.sections[k].last <=> conds'[k].ctx = "else"
      BY <1>6, <1>12, <1>13
    <3>2. /\ d.sections[N + 1].taken <=> conds'[N + 1].wastrue \/ conds'[N + 1].ctx = "else"
          /\ d.sections[N + 1].last <=> conds'[N + 1].ctx = "else"
      BY <1>12, <1>13
    <3> QED
      BY <1>17, <3>1, <3>2
  <2>2. istrue => \A k \in 1 .. N + 1 : d.sections[k].on
    BY <1>6, <1>12, <1>17
  <2>3. ~ istrue => \A k \in 1 .. N + 1 : d.sections[k].on <=> k < N + 1
    <3>1. \A k \in 1 .. N : k < N + 1
      OBVIOUS
    <3> QED
      BY <1>6, <1>12, <1>17, <3>1
  <2>4. Last(d.files).below < N + 1
    BY <1>14, <1>15
  <2>5. N + 1 = (N + 1) + 0
    OBVIOUS
  <2> QED
    BY <1>11, <1>12, <1>13, <1>16, <2>1, <2>2, <2>3, <2>4, <2>5 DEF SectionsAre
<1>19. Len(d.sections) = Len(c.sections) + Added(Here.d)
       /\ Last(c.files).below <= Len(d.sections)
  BY <1>3, <1>5, <1>12, <1>14
<1>20. \A k \in 1 .. Len(conds') : conds'[k].guard # NONE =>
          \/ /\ k \in 1 .. Len(conds) /\ conds'[k].guard = conds[k].guard
             /\ conds'[k].file = conds[k].file /\ k <= Len(c.sections)
             /\ Here.d \in {"else", "elif"} => k < Len(c.sections)
          \/ /\ k = Len(c.sections) + 1 /\ Here.d = "ifndef"
             /\ Here.m = conds'[k].guard /\ conds'[k].file = Top.id /\ FirstLine
  <2>1. Here.d \notin {"else", "elif"}
    BY <1>3 DEF Ends
  <2>2. \A k \in 1 .. N : k <= N
    OBVIOUS
  <2> QED
    BY <1>4, <1>5, <1>13, <1>17, <2>1, <2>2
<1>21. Recorded(program, includeGuard', d)
  BY <1>1, <1>2, <1>11, RecordedSame DEF Same
<1>22. Shared(program, files', macros', includeGuard', once', out', d)
  <2>1. PICK h : h = files'
    OBVIOUS
  <2>2. Advanced(files, h)
    BY <1>1, <2>1, NextAdvances DEF Read
  <2>3. Shared(program, h, macros, includeGuard, once, out, d)
    BY <1>2, <1>11, <2>2, SharedRead
  <2> QED
    BY <1>1, <2>1, <2>3
<1>23. d.status = "reading"
  BY <1>2, <1>11 DEF Same
<1>24. Rel(d)'
  BY <1>1, <1>3, <1>5, <1>11, <1>18, <1>19, <1>20, <1>21, <1>22, <1>23, ReadRel
<1> QED
  BY <1>9, <1>24 DEF Goes

LEMMA IfGoes ==
  ASSUME Places, Kinds, NEW c, Rel(c), ReadIf \/ ReadIfdef \/ ReadIfndef
  PROVE  Goes(c)
<1>1. Running /\ Opens(Here.d)
  BY DEF ReadIf, ReadIfdef, ReadIfndef, Sees, Opens
<1>2. CASE ReadIf
  <2>1. PICK b \in BOOLEAN : b = Holds(Here.c)
    BY HoldsBoolean
  <2>2. PICK ci : ci = Cond(b)
    OBVIOUS
  <2>3. Here.d = "if" /\ DoReadIf(b, ci)
    BY <1>2, <2>1, <2>2 DEF ReadIf, Sees
  <2>4. Selected(Here, macros) = b
    BY <2>1, <2>3 DEF Selected, Holds
  <2>5. ci.wastrue = b /\ ci.ctx = "then" /\ ci.guard = NONE
    BY <2>2 DEF Cond
  <2> QED
    BY <1>1, <2>3, <2>4, <2>5, OpenGoes
<1>3. CASE ReadIfdef
  <2>1. PICK b \in BOOLEAN : b = (Here.m \in macros)
    <3>1. (Here.m \in macros) \in BOOLEAN
      OBVIOUS
    <3>2. PICK b : b = (Here.m \in macros)
      OBVIOUS
    <3>3. b \in BOOLEAN
      BY <3>1, <3>2
    <3> QED
      BY <3>2, <3>3
  <2>2. PICK ci : ci = Cond(b)
    OBVIOUS
  <2>3. Here.d = "ifdef" /\ DoReadIf(b, ci)
    BY <1>3, <2>1, <2>2 DEF ReadIfdef, Sees
  <2>4. Selected(Here, macros) = b
    BY <2>1, <2>3 DEF Selected
  <2>5. ci.wastrue = b /\ ci.ctx = "then" /\ ci.guard = NONE
    BY <2>2 DEF Cond
  <2> QED
    BY <1>1, <2>3, <2>4, <2>5, OpenGoes
<1>4. CASE ReadIfndef
  <2>1. PICK b \in BOOLEAN : b = (Here.m \notin macros)
    OBVIOUS
  <2>2. PICK ci : ci = IF FirstLine
                       THEN [Cond(b) EXCEPT !.guard = Here.m, !.file = Top.id]
                       ELSE Cond(b)
    OBVIOUS
  <2>3. Here.d = "ifndef" /\ DoReadIf(b, ci)
    BY <1>4, <2>1, <2>2 DEF ReadIfndef, Sees
  <2>4. Selected(Here, macros) = b
    BY <2>1, <2>3 DEF Selected
  <2>5. /\ ci.wastrue = b /\ ci.ctx = "then"
        /\ ci.guard # NONE => FirstLine /\ ci.guard = Here.m /\ ci.file = Top.id
    BY <2>2 DEF Cond
  <2> QED
    BY <1>1, <2>3, <2>4, <2>5, OpenGoes
<1> QED
  BY <1>2, <1>3, <1>4

\* #else and #elif
LEMMA NextGoes ==
  ASSUME Places, Kinds, NEW c, Rel(c), Running, Here.d \in {"else", "elif"},
         conds # << >>, Last(conds).ctx # "else",
         NEW istrue \in BOOLEAN, Selected(Here, macros) \in BOOLEAN,
         istrue <=> ~ Last(conds).wastrue /\ Selected(Here, macros),
         NEW ci, ci.guard = NONE, ci.ctx = "else" <=> Here.d = "else",
         (ci.wastrue \/ ci.ctx = "else") <=> (Last(conds).wastrue \/ istrue),
         LastCond(ci), Read,
         UNCHANGED <<program, opened, macros, includeGuard, once, out>>,
         istrue => skipping' = NONE, ~ istrue => StartSkip
  PROVE  Goes(c)
<1>1. ~ AtEof /\ skipping = NONE
  BY DEF Running
<1>2. /\ SectionsAre(c) /\ Config(program, c) /\ c.status = "reading"
      /\ Recorded(program, includeGuard, c)
      /\ Shared(program, files, macros, includeGuard, once, out, c)
  BY DEF Rel
<1>3. Ends(Here.d) /\ ~ Opens(Here.d) /\ Here.d # "quote" /\ Added(Here.d) = 0
      /\ Here.d # "endif"
  BY DEF Opens, Ends, Added
<1>4. PICK N \in Nat : N = Len(conds)
  BY CalmHere
<1>5. Len(c.sections) = N /\ ~ InQuotes(c.sections)
  BY <1>4, CalmHere
<1>6. conds \in Seq(CondIncl)
  BY DEF Kinds
<1>7. N >= 1 /\ N \in 1 .. N
  BY <1>4, <1>6
<1>8. Last(conds) = conds[N]
  BY <1>4, <1>6 DEF Last
<1>9. \A k \in 1 .. N : /\ c.sections[k].taken <=> conds[k].wastrue \/ conds[k].ctx = "else"
                        /\ c.sections[k].last <=> conds[k].ctx = "else"
                        /\ c.sections[k].on \/ k = N
  BY <1>1, <1>2, <1>4 DEF SectionsAre
<1>10. c.macros = macros
  BY <1>2 DEF Shared
<1>11. PICK d : d = Line(program, Here, c)
  OBVIOUS
<1>12. d = Step(program, c)
  BY <1>1, <1>11, StepIs
<1>13. CASE Len(c.sections) = Last(c.files).below
  <2>1. d = Refuse(c)
    BY <1>3, <1>5, <1>11, <1>13 DEF Line, EndOrNext
  <2> QED
    BY <1>12, <2>1, GoesRefused
<1>14. CASE Len(c.sections) # Last(c.files).below
  <2>1. Last(c.files).below \in Nat /\ Len(c.sections) > Last(c.files).below
        /\ Last(c.files).below < N
    BY <1>5, <1>14, Aligned
  <2>2. Enclosing(c.sections)
    <3>1. N = 1 \/ (N - 1 \in 1 .. N /\ N - 1 # N)
      BY <1>7
    <3>2. N = 1 \/ c.sections[N - 1].on
      BY <1>9, <3>1
    <3> QED
      BY <1>2, <1>5, <1>7, <3>2, EnclosingIs
  <2>3. Last(c.sections) = c.sections[N] /\ ~ Last(c.sections).last
    <3>1. Last(c.sections) = c.sections[N]
      BY <1>2, <1>5, <1>7, ConfigShape
    <3> QED
      BY <1>7, <1>8, <1>9, <3>1
  <2>4. Selected(Here, c.macros) \in BOOLEAN
    BY <1>10
  <2>5. /\ Config(program, d) /\ Moved(c, d) /\ Same(c, d)
        /\ Len(d.sections) = Len(c.sections)
        /\ \A k \in 1 .. Len(c.sections) - 1 : d.sections[k] = c.sections[k]
        /\ d.sections[Len(c.sections)].on
             <=> ~ c.sections[Len(c.sections)].taken /\ Selected(Here, c.macros)
        /\ d.sections[Len(c.sections)].taken
             <=> c.sections[Len(c.sections)].taken \/ d.sections[Len(c.sections)].on
        /\ d.sections[Len(c.sections)].last <=> Here.d = "else"
        /\ ~ InQuotes(d.sections)
    BY <1>2, <1>5, <1>11, <2>1, <2>2, <2>3, <2>4, NextEffect
  <2>6. c.sections[N].taken <=> Last(conds).wastrue
    BY <1>7, <1>8, <1>9
  <2>7. /\ Len(d.sections) = N /\ \A k \in 1 .. N - 1 : d.sections[k] = c.sections[k]
        /\ d.sections[N].on <=> istrue
        /\ d.sections[N].taken <=> Last(conds).wastrue \/ istrue
        /\ d.sections[N].last <=> Here.d = "else"
    BY <1>5, <1>10, <2>5, <2>6
  <2>8. /\ Len(conds') = N /\ conds'[N] = ci
        /\ \A k \in 1 .. N - 1 : conds'[k] = conds[k]
    <3>1. conds' = [conds EXCEPT ![N] = ci]
      BY <1>4 DEF LastCond
    <3> QED
      BY <1>4, <1>6, <1>7, <3>1
  <2>9. Last(d.files).below = Last(c.files).below
    <3>1. PICK n : n = Len(c.files)
      OBVIOUS
    <3>2. Last(c.files) = c.files[n] /\ Last(d.files) = d.files[n] /\ n \in Nat /\ n >= 1
      BY <1>2, <2>5, <3>1, ConfigShape DEF Moved
    <3> QED
      BY <2>5, <3>1, <3>2 DEF Moved
  <2>10. Nest' = 0 /\ ~ Quoted' /\ (istrue <=> skipping' = NONE)
    <3>1. CASE istrue
      BY <3>1 DEF Nest, Quoted
    <3>2. CASE ~ istrue
      BY <3>2, StartSkipEffect
    <3> QED
      BY <3>1, <3>2
  <2>11. \A k \in 1 .. N : (k \in 1 .. N - 1 /\ k < N) \/ (k = N /\ ~ (k < N))
    OBVIOUS
  <2>12. SectionsAre(d)'
    <3>1. \A k \in 1 .. N :
             /\ d.sections[k].taken <=> conds'[k].wastrue \/ conds'[k].ctx = "else"
             /\ d.sections[k].last <=> conds'[k].ctx = "else"
      BY <1>9, <2>7, <2>8, <2>11
    <3>2. istrue => \A k \in 1 .. N : d.sections[k].on
      BY <1>9, <2>7, <2>11
    <3>3. ~ istrue => \A k \in 1 .. N : d.sections[k].on <=> k < N
      BY <1>9, <2>7, <2>11
    <3>4. Last(d.files).below < N /\ N = N + 0
      BY <2>1, <2>9
    <3> QED
      BY <2>5, <2>7, <2>8, <2>10, <3>1, <3>2, <3>3, <3>4 DEF SectionsAre
  <2>13. Len(d.sections) = Len(c.sections) + Added(Here.d)
         /\ Last(c.files).below <= Len(d.sections)
    BY <1>3, <1>5, <2>1, <2>7
  <2>14. \A k \in 1 .. Len(conds') : conds'[k].guard # NONE =>
            /\ k \in 1 .. Len(conds) /\ conds'[k].guard = conds[k].guard
            /\ conds'[k].file = conds[k].file /\ k <= Len(c.sections)
            /\ Here.d \in {"else", "elif"} => k < Len(c.sections)
    <3>1. \A k \in 1 .. N : k <= N
      OBVIOUS
    <3> QED
      BY <1>4, <1>5, <2>8, <2>11, <3>1
  <2>15. Recorded(program, includeGuard', d)
    BY <1>2, <2>5, RecordedSame DEF Same
  <2>16. Shared(program, files', macros', includeGuard', once', out', d)
    <3>1. PICK h : h = files'
      OBVIOUS
    <3>2. Advanced(files, h)
      BY <1>1, <3>1, NextAdvances DEF Read
    <3>3. Shared(program, h, macros, includeGuard, once, out, d)
      BY <1>2, <2>5, <3>2, SharedRead
    <3> QED
      BY <3>1, <3>3
  <2>17. d.status = "reading"
    BY <1>2, <2>5 DEF Same
  <2>18. Rel(d)'
    BY <1>1, <1>3, <1>5, <2>5, <2>12, <2>13, <2>14, <2>15, <2>16, <2>17, ReadRel
  <2> QED
    BY <1>12, <2>18 DEF Goes
<1> QED
  BY <1>13, <1>14

LEMMA CondWith ==
  ASSUME NEW t \in CondIncl, NEW ct, NEW w
  PROVE  /\ [t EXCEPT !.ctx = ct, !.guard = NONE].ctx = ct
         /\ [t EXCEPT !.ctx = ct, !.guard = NONE].guard = NONE
         /\ [t EXCEPT !.ctx = ct, !.guard = NONE].wastrue = t.wastrue
         /\ [t EXCEPT !.ctx = ct, !.guard = NONE, !.wastrue = w].ctx = ct
         /\ [t EXCEPT !.ctx = ct, !.guard = NONE, !.wastrue = w].guard = NONE
         /\ [t EXCEPT !.ctx = ct, !.guard = NONE, !.wastrue = w].wastrue = w
BY DEF CondIncl

LEMMA ElseGoes ==
  ASSUME Places, Kinds, NEW c, Rel(c), ReadElse \/ ReadElif
  PROVE  Goes(c)
<1>1. /\ Running /\ conds # << >> /\ Last(conds).ctx # "else" /\ Read
      /\ UNCHANGED <<program, opened, macros, includeGuard, once, out>>
      /\ skipping = NONE
  BY DEF ReadElse, ReadElif, Sees, Running, known
<1>2. PICK t \in CondIncl : t = Last(conds)
  BY <1>1, LastShape DEF Kinds
<1>3. PICK w \in BOOLEAN : w = t.wastrue
  BY DEF CondIncl
<1>4. CASE ReadElse
  <2>1. PICK ci : ci = [t EXCEPT !.ctx = "else", !.guard = NONE]
    OBVIOUS
  <2>2. PICK b \in BOOLEAN : b <=> ~ w
    OBVIOUS
  <2>3. /\ Here.d = "else" /\ (w => StartSkip) /\ (~ w => UNCHANGED skipping)
        /\ LastCond(ci)
    BY <1>2, <1>3, <1>4, <2>1 DEF ReadElse, Sees
  <2>4. ci.guard = NONE /\ ci.ctx = "else" /\ ci.wastrue = w /\ Last(conds).wastrue = w
    BY <1>2, <1>3, <2>1, CondWith
  <2>5. Selected(Here, macros) = TRUE
    BY <2>3 DEF Selected
  <2>6. (b <=> ~ Last(conds).wastrue /\ Selected(Here, macros))
        /\ ((ci.wastrue \/ ci.ctx = "else") <=> (Last(conds).wastrue \/ b))
    BY <2>2, <2>4, <2>5
  <2>7. (b => skipping' = NONE) /\ (~ b => StartSkip)
    BY <1>1, <2>2, <2>3
  <2>8. /\ Here.d \in {"else", "elif"} /\ Selected(Here, macros) \in BOOLEAN
        /\ ci.ctx = "else" <=> Here.d = "else"
    BY <2>3, <2>4, <2>5
  <2> QED
    BY <1>1, <2>3, <2>4, <2>6, <2>7, <2>8, NextGoes
<1>5. CASE ReadElif
  <2>1. PICK h \in BOOLEAN : h = Holds(Here.c)
    BY HoldsBoolean
  <2>2. PICK b : b = (~ t.wastrue /\ h)
    OBVIOUS
  <2>3. b \in BOOLEAN /\ (b <=> ~ w /\ h)
    BY <1>3, <2>2
  <2>4. PICK v : v = (t.wastrue \/ b)
    OBVIOUS
  <2>5. v <=> w \/ b
    BY <1>3, <2>4
  <2>6. PICK ci : ci = [t EXCEPT !.ctx = "elif", !.guard = NONE, !.wastrue = v]
    OBVIOUS
  <2>7. /\ Here.d = "elif" /\ (b => UNCHANGED skipping) /\ (~ b => StartSkip)
        /\ LastCond([t EXCEPT !.ctx = "elif", !.guard = NONE, !.wastrue = @ \/ b])
    BY <1>2, <1>5, <2>1, <2>2 DEF ReadElif, Sees
  <2>8. LastCond(ci)
    BY <2>4, <2>6, <2>7
  <2>9. Selected(Here, macros) = h
    BY <2>1, <2>7 DEF Selected, Holds
  <2>10. ci.guard = NONE /\ ci.ctx = "elif" /\ ci.wastrue = v /\ Last(conds).wastrue = w
    BY <1>2, <1>3, <2>6, CondWith
  <2>11. (b <=> ~ Last(conds).wastrue /\ Selected(Here, macros))
         /\ ((ci.wastrue \/ ci.ctx = "else") <=> (Last(conds).wastrue \/ b))
    BY <2>3, <2>5, <2>9, <2>10
  <2>12. (b => skipping' = NONE) /\ (~ b => StartSkip)
    BY <1>1, <2>7
  <2>13. /\ Here.d \in {"else", "elif"} /\ Selected(Here, macros) \in BOOLEAN
         /\ ci.ctx = "else" <=> Here.d = "else"
    BY <2>7, <2>9, <2>10
  <2> QED
    BY <1>1, <2>3, <2>8, <2>10, <2>11, <2>12, <2>13, NextGoes
<1> QED
  BY <1>4, <1>5

-----------------------------------------------------------------------------
(* #endif, which records include guards *)

\* Lines all within one guarded group begin with the #ifndef of its macro.
LEMMA GuardFound ==
  ASSUME NEW f, NEW m, NEW n \in Nat, n # 0, SkimmedTo(f, m, n), Depth(f, n) >= 1
  PROVE  \E k \in 1 .. n - 1 : f[k].d = "ifndef" /\ f[k].m = m /\ Depth(f, k) = 0
<1> DEFINE Has(j) == \E k \in 1 .. j - 1 : /\ f[k].d = "ifndef" /\ f[k].m = m
                                           /\ Depth(f, k) = 0
           S == {j \in Nat : j # 0 /\ SkimmedTo(f, m, j) /\ Depth(f, j) >= 1 => Has(j)}
<1>1. 0 \in S
  OBVIOUS
<1>2. ASSUME NEW j \in Nat, j \in S PROVE j + 1 \in S
  <2> SUFFICES ASSUME SkimmedTo(f, m, j + 1), Depth(f, j + 1) >= 1 PROVE Has(j + 1)
    OBVIOUS
  <2>1. CASE j = 0
    <3>1. Depth(f, 1) = 0 /\ j + 1 = 1
      BY <2>1, DepthStart
    <3> QED
      BY <3>1
  <2>2. CASE j # 0
    <3>1. /\ Depth(f, j) \in Int
          /\ Depth(f, j + 1) = Depth(f, j) + (IF Plain(f, j) THEN Added(f[j].d) ELSE 0)
      BY <2>2, DepthNext
    <3>2. j \in 1 .. (j + 1) - 1 /\ \A k \in 1 .. j - 1 : k \in 1 .. (j + 1) - 1
      BY <2>2
    <3>3. Skimmed(f, m, j) /\ SkimmedTo(f, m, j)
      BY <3>2 DEF SkimmedTo
    <3>4. CASE Depth(f, j) >= 1
      <4>1. Has(j)
        BY <1>2, <2>2, <3>3, <3>4
      <4> QED
        BY <3>2, <4>1
    <3>5. CASE ~ (Depth(f, j) >= 1)
      <4>1. f[j].d # "blank"
        <5>1. f[j].d = "blank" => Added(f[j].d) = 0
          BY DEF Added, Opens
        <5> QED
          BY <3>1, <3>5, <5>1
      <4>2. f[j].d = "ifndef" /\ f[j].m = m /\ Depth(f, j) = 0
        BY <3>3, <3>5, <4>1 DEF Skimmed
      <4> QED
        BY <3>2, <4>2
    <3> QED
      BY <3>4, <3>5
  <2> QED
    BY <2>1, <2>2
<1> HIDE DEF S
<1>3. Nat \subseteq S
  BY <1>1, <1>2, NatSetInduction
<1> QED
  BY <1>3 DEF S

\* #endif: the file may turn out to be all one group, guarded by the macro of its #ifndef.
LEMMA GuardFits ==
  ASSUME Places, Kinds, NEW c, Rel(c), Running, Here.d = "endif", conds # << >>,
         Len(c.sections) > Last(c.files).below,
         NEW ci, ci = Last(conds), ci.guard # NONE, ci.file = Top.id
  PROVE  /\ LastLine => WholeGuard(Lines, ci.guard)
         /\ \A m : WholeGuard(Lines, m) => m = ci.guard
<1>1. /\ GuardsOpen(program, files, opened, conds, c) /\ Config(program, c) /\ ~ AtEof
      /\ Levels(program, files, c)
  BY DEF Rel, Running
<1>2. PICK N \in Nat : N = Len(files)
  BY TopShape
<1>3. /\ N >= 1 /\ N \in 1 .. N /\ Top = files[N] /\ Lines = program[files[N].path]
      /\ Len(Lines) \in Nat /\ Top.pos \in 1 .. Len(Lines)
  BY <1>1, <1>2, TopShape DEF Lines
<1>4. PICK k \in Nat : k = Len(conds)
  BY DEF Kinds
<1>5. k >= 1 /\ k \in 1 .. k /\ ci = conds[k]
  BY <1>4, LastShape DEF Kinds
<1>6. /\ k = c.files[N].below + 1 /\ SkimmedTo(Lines, ci.guard, Top.pos)
  BY <1>1, <1>2, <1>3, <1>4, <1>5 DEF GuardsOpen
<1>7. /\ Len(c.sections) = k /\ Len(c.files) = N /\ Last(c.files) = c.files[N]
      /\ ~ InQuotes(c.sections)
  BY <1>1, <1>2, <1>4, Aligned, CalmHere, ConfigShape
<1>8. /\ c.files[N].below \in Nat /\ PlainTo(Lines, Top.pos) /\ Plain(Lines, Top.pos)
      /\ Depth(Lines, Top.pos) \in Int
      /\ Len(c.sections) = c.files[N].below + Depth(Lines, Top.pos)
  BY <1>7, Aligned
<1>9. Depth(Lines, Top.pos) = 1
  BY <1>6, <1>7, <1>8
<1>10. Top.pos \in Nat /\ Top.pos # 0 /\ Top.pos <= Len(Lines)
  BY <1>3
<1>11. ASSUME LastLine PROVE WholeGuard(Lines, ci.guard)
  <2>1. Lines[Top.pos].d = "endif"
    BY DEF Here
  <2>2. \A i \in Top.pos + 1 .. Len(Lines) : Lines[i].d = "blank"
    BY <1>11 DEF LastLine
  <2> QED
    BY <1>3, <1>6, <1>8, <1>9, <1>10, <2>1, <2>2, GuardEnds
<1>12. ASSUME NEW m, WholeGuard(Lines, m) PROVE m = ci.guard
  <2>1. PICK i \in 1 .. Top.pos - 1 : /\ Lines[i].d = "ifndef" /\ Lines[i].m = ci.guard
                                      /\ Depth(Lines, i) = 0
    BY <1>6, <1>9, <1>10, GuardFound
  <2>2. i \in 1 .. (Len(Lines) + 1) - 1
    BY <1>3, <1>10
  <2>3. Skimmed(Lines, m, i)
    BY <1>12, <2>2 DEF WholeGuard, SkimmedTo
  <2> QED
    BY <2>1, <2>3 DEF Skimmed
<1> QED
  BY <1>11, <1>12

LEMMA EndifGoes ==
  ASSUME Places, Kinds, NEW c, Rel(c), ReadEndif
  PROVE  Goes(c)
<1>1. /\ Running /\ ~ AtEof /\ skipping = NONE /\ Here.d = "endif" /\ conds # << >>
      /\ conds' = Front(conds) /\ Read
      /\ UNCHANGED <<program, opened, skipping, macros, once, out>>
  BY DEF ReadEndif, Sees, Running
<1>2. /\ SectionsAre(c) /\ Config(program, c) /\ c.status = "reading"
      /\ Recorded(program, includeGuard, c)
      /\ Shared(program, files, macros, includeGuard, once, out, c)
  BY DEF Rel
<1>3. /\ Ends(Here.d) /\ ~ Opens(Here.d) /\ Here.d # "quote" /\ Added(Here.d) = -1
      /\ Here.d \notin {"else", "elif"}
  BY <1>1 DEF Opens, Ends, Added
<1>4. PICK N \in Nat : N = Len(conds)
  BY <1>1, CalmHere
<1>5. Len(c.sections) = N /\ ~ InQuotes(c.sections)
  BY <1>1, <1>4, CalmHere
<1>6. conds \in Seq(CondIncl)
  BY DEF Kinds
<1>7. N >= 1
  BY <1>1, <1>4, <1>6
<1>8. \A k \in 1 .. N : /\ c.sections[k].taken <=> conds[k].wastrue \/ conds[k].ctx = "else"
                        /\ c.sections[k].last <=> conds[k].ctx = "else"
                        /\ c.sections[k].on \/ k = N
  BY <1>1, <1>2, <1>4 DEF SectionsAre
<1>9. PICK d : d = Line(program, Here, c)
  OBVIOUS
<1>10. d = Step(program, c)
  BY <1>1, <1>9, StepIs
<1>11. CASE Len(c.sections) = Last(c.files).below
  <2>1. d = Refuse(c)
    BY <1>3, <1>5, <1>9, <1>11 DEF Line, EndOrNext
  <2> QED
    BY <1>10, <2>1, GoesRefused
<1>12. CASE Len(c.sections) # Last(c.files).below
  <2>1. /\ Last(c.files).below \in Nat /\ Len(c.sections) > Last(c.files).below
        /\ Last(c.files).below <= N - 1
    BY <1>5, <1>12, Aligned
  <2>2. /\ Config(program, d) /\ Moved(c, d) /\ Same(c, d)
        /\ Len(d.sections) = Len(c.sections) - 1
        /\ \A k \in 1 .. Len(c.sections) - 1 : d.sections[k] = c.sections[k]
        /\ ~ InQuotes(d.sections)
    BY <1>1, <1>2, <1>5, <1>9, <2>1, CloseEffect
  <2>3. /\ Len(conds') = N - 1 /\ \A k \in 1 .. N - 1 : conds'[k] = conds[k]
    BY <1>1, <1>4, <1>6, FrontShape
  <2>4. Len(d.sections) = N - 1 /\ \A k \in 1 .. N - 1 : d.sections[k] = c.sections[k]
    BY <1>5, <2>2
  <2>5. \A k \in 1 .. N - 1 : k \in 1 .. N /\ k # N
    OBVIOUS
  <2>6. SectionsAre(d)'
    <3>1. Nest' = 0 /\ ~ Quoted' /\ skipping' = NONE /\ N - 1 = (N - 1) + 0
      BY <1>1 DEF Nest, Quoted
    <3>2. \A k \in 1 .. N - 1 :
             /\ d.sections[k].taken <=> conds'[k].wastrue \/ conds'[k].ctx = "else"
             /\ d.sections[k].last <=> conds'[k].ctx = "else"
             /\ d.sections[k].on
      BY <1>8, <2>3, <2>4, <2>5
    <3> QED
      BY <2>2, <2>3, <2>4, <3>1, <3>2 DEF SectionsAre
  <2>7. Len(d.sections) = Len(c.sections) + Added(Here.d)
        /\ Last(c.files).below <= Len(d.sections)
    BY <1>3, <1>5, <2>1, <2>4
  <2>8. \A k \in 1 .. Len(conds') : conds'[k].guard # NONE =>
           /\ k \in 1 .. Len(conds) /\ conds'[k].guard = conds[k].guard
           /\ conds'[k].file = conds[k].file /\ k <= Len(c.sections)
           /\ Here.d \in {"else", "elif"} => k < Len(c.sections)
    <3>1. \A k \in 1 .. N : k <= N
      OBVIOUS
    <3> QED
      BY <1>3, <1>4, <1>5, <2>3, <2>5, <3>1
  <2>9. PICK h : h = files'
    OBVIOUS
  <2>10. Advanced(files, h)
    BY <1>1, <2>9, NextAdvances DEF Read
  <2>11. Shared(program, h, macros, includeGuard, once, out, d)
    BY <1>2, <2>2, <2>10, SharedRead
  <2>12. Recorded(program, includeGuard, d)
    BY <1>2, <2>2, RecordedSame DEF Same
  <2>13. Recorded(program, includeGuard', d)
         /\ Shared(program, h, macros, includeGuard', once, out, d)
    <3>1. PICK ci : ci = Last(conds)
      OBVIOUS
    <3>2. CASE ci.guard # NONE /\ ci.file = Top.id /\ LastLine
      <4>1. WholeGuard(Lines, ci.guard) /\ \A m : WholeGuard(Lines, m) => m = ci.guard
        BY <1>1, <2>1, <3>1, <3>2, GuardFits
      <4>2. Top.name = Top.path /\ Top.path \in DOMAIN program
            /\ Lines = program[Top.path]
        BY Aligned, TopShape DEF Lines
      <4>3. Top.path \in d.seen
        <5>1. Len(files) \in 1 .. Len(files) /\ Top = files[Len(files)]
          BY TopShape
        <5>2. Top.path \in c.seen
          BY <1>2, <5>1 DEF Shared
        <5> QED
          BY <2>2, <5>2 DEF Same
      <4>4. PICK ig : ig = includeGuard'
        OBVIOUS
      <4>5. PICK m : m = ci.guard
        OBVIOUS
      <4>6. PICK path : path = Top.path
        OBVIOUS
      <4>7. ig = [q \in DOMAIN includeGuard \cup {path} |->
                     IF q = path THEN m ELSE includeGuard[q]]
        BY <1>1, <3>1, <3>2, <4>2, <4>4, <4>5, <4>6 DEF ReadEndif, SetGuard
      <4>8. /\ path \in DOMAIN program /\ path \in d.seen
            /\ WholeGuard(program[path], m)
            /\ \A e : WholeGuard(program[path], e) => e = m
        BY <4>1, <4>2, <4>3, <4>5, <4>6
      <4>9. DOMAIN ig = DOMAIN includeGuard \cup {path} /\ ig[path] = m
            /\ \A q \in DOMAIN includeGuard : q # path => ig[q] = includeGuard[q]
        BY <4>7
      <4>10. Recorded(program, ig, d)
        BY <2>12, <4>8, <4>9 DEF Recorded
      <4>11. \A q \in DOMAIN includeGuard : ig[q] = includeGuard[q]
        BY <2>12, <4>8, <4>9 DEF Recorded
      <4>12. Shared(program, h, macros, ig, once, out, d)
        BY <2>11, <4>9, <4>11 DEF Shared
      <4> QED
        BY <4>4, <4>10, <4>12
    <3>3. CASE ~ (ci.guard # NONE /\ ci.file = Top.id /\ LastLine)
      <4>1. includeGuard' = includeGuard
        BY <3>1, <3>3 DEF ReadEndif
      <4> QED
        BY <2>11, <2>12, <4>1
    <3> QED
      BY <3>2, <3>3
  <2>14. Shared(program, files', macros', includeGuard', once', out', d)
    BY <1>1, <2>9, <2>13
  <2>15. d.status = "reading"
    BY <1>2, <2>2 DEF Same
  <2>16. Rel(d)'
    BY <1>1, <1>3, <1>5, <2>2, <2>6, <2>7, <2>8, <2>13, <2>14, <2>15, ReadRel
  <2> QED
    BY <1>10, <2>16 DEF Goes
<1> QED
  BY <1>11, <1>12

-----------------------------------------------------------------------------
(* The end of a file and of the program *)

LEMMA PopGoes ==
  ASSUME Places, Kinds, NEW c, Rel(c), PopFile
  PROVE  Goes(c)
<1>1. /\ AtEof /\ Len(files) > 1 /\ files' = Front(files)
      /\ UNCHANGED <<program, opened, conds, skipping, macros, includeGuard, once, out>>
  BY DEF PopFile, known
<1>2. /\ SectionsAre(c) /\ Config(program, c) /\ c.status = "reading"
      /\ Levels(program, files, c) /\ GuardsOpen(program, files, opened, conds, c)
      /\ Recorded(program, includeGuard, c) /\ Located(program, files, opened)
      /\ Shared(program, files, macros, includeGuard, once, out, c)
  BY DEF Rel, Places
<1>3. Step(program, c) = EndFile(c)
  BY <1>1, StepIs
<1>4. PICK N \in Nat : N = Len(files) - 1
  BY TopShape
<1>5. Len(files) = N + 1 /\ Len(c.files) = N + 1 /\ N >= 1
  BY <1>1, <1>4, Aligned, TopShape
<1>6. CASE Len(c.sections) # Last(c.files).below
  <2>1. Step(program, c) = Refuse(c)
    BY <1>3, <1>6 DEF EndFile
  <2> QED
    BY <2>1, GoesRefused
<1>7. CASE Len(c.sections) = Last(c.files).below
  <2>1. PICK d : d = [c EXCEPT !.files = Front(c.files)]
    OBVIOUS
  <2>2. Len(c.files) > 1
    BY <1>5
  <2>3. d = Step(program, c)
    BY <1>3, <1>7, <2>1, <2>2 DEF EndFile
  <2>4. PICK b : b = Front(c.files)
    OBVIOUS
  <2>5. /\ b \in Seq(OpenFileOf(program)) /\ Len(b) = N /\ b # << >>
        /\ \A n \in 1 .. N : b[n] = c.files[n]
    BY <1>2, <1>5, <2>4, FrontShape DEF Config
  <2>6. /\ Fields(d) /\ d.files = b /\ d.sections = c.sections /\ d.macros = c.macros
        /\ d.once = c.once /\ d.seen = c.seen /\ d.met = c.met /\ d.out = c.out
        /\ d.status = c.status
    BY <1>2, <2>1, <2>4 DEF Config, Fields
  <2>7. Config(program, d)
    BY <1>2, <2>5, <2>6 DEF Config
  <2>8. skipping = NONE
    <3>1. Len(conds) \in Nat /\ Nest \in Nat /\ Len(c.sections) = Len(conds) + Nest
      BY <1>2, NestNat DEF SectionsAre, Kinds
    <3> QED
      BY <1>2, <1>7, <3>1 DEF SectionsAre
  <2>9. ~ InQuotes(c.sections)
    BY <1>2, <2>8 DEF SectionsAre, Quoted
  <2>10. PICK h : h = files'
    OBVIOUS
  <2>11. Len(h) = N /\ \A n \in 1 .. N : h[n] = files[n]
    BY <1>1, <1>4, <2>10, PopLocated
  <2>12. Len(h) = Len(files) - 1 /\ \A n \in 1 .. Len(files) - 1 : h[n] = files[n]
    BY <1>4, <2>11
  <2>13. Levels(program, h, d)
    BY <1>1, <1>2, <1>7, <2>4, <2>6, <2>7, <2>9, <2>12, LevelsPop
  <2>14. \A n \in 1 .. N : d.files[n] = c.files[n]
    BY <2>5, <2>6
  <2>15. GuardsOpen(program, h, opened, conds, d)
    BY <1>2, <1>5, <2>11, <2>14, GuardsPop
  <2>16. SectionsAre(d)'
    <3>1. /\ Len(c.sections) = Len(conds) + Nest
          /\ \A k \in 1 .. Len(conds) :
                /\ c.sections[k].taken <=> conds[k].wastrue \/ conds[k].ctx = "else"
                /\ c.sections[k].last <=> conds[k].ctx = "else"
                /\ c.sections[k].on
          /\ InQuotes(c.sections) <=> Quoted
      BY <1>1, <1>2, <2>8 DEF SectionsAre, Stopped
    <3>2. Nest' = Nest /\ (Quoted' <=> Quoted) /\ skipping' = NONE
      BY <1>1, <2>8 DEF Nest, Quoted
    <3> QED
      BY <1>1, <2>6, <3>1, <3>2 DEF SectionsAre
  <2>17. Recorded(program, includeGuard, d)
    BY <1>2, <2>6, RecordedSame
  <2>18. Shared(program, h, macros, includeGuard, once, out, d)
    <3>1. \A n \in 1 .. N : n \in 1 .. Len(files)
      BY <1>5
    <3> QED
      BY <1>2, <2>6, <2>11, <3>1 DEF Shared
  <2>19. Rel(d)'
    BY <1>1, <1>2, <2>6, <2>7, <2>10, <2>13, <2>15, <2>16, <2>17, <2>18 DEF Rel
  <2> QED
    BY <2>3, <2>19 DEF Goes
<1> QED
  BY <1>6, <1>7

\* The program has ended, with what the reference has.
Ended(c) == /\ c.status = "done" /\ c.out = out /\ c.macros = macros /\ conds = << >>

LEMMA FinishEnds ==
  ASSUME Places, Kinds, NEW c, Rel(c), Finish
  PROVE  \E d : d = Step(program, c) /\ (d.status = "refused" \/ Ended(d)')
<1>1. AtEof /\ Len(files) = 1 /\ UNCHANGED <<program, conds, macros, out>>
  BY DEF Finish, known
<1>2. /\ SectionsAre(c) /\ Config(program, c) /\ c.status = "reading"
      /\ Levels(program, files, c)
      /\ Shared(program, files, macros, includeGuard, once, out, c)
  BY DEF Rel
<1>3. Step(program, c) = EndFile(c)
  BY <1>1, StepIs
<1>4. CASE Len(c.sections) # Last(c.files).below
  <2>1. Step(program, c) = Refuse(c)
    BY <1>3, <1>4 DEF EndFile
  <2>2. PICK d : d = Step(program, c)
    OBVIOUS
  <2>3. d.status = "refused"
    BY <1>2, <2>1, <2>2, RefusedIs
  <2> QED
    BY <2>2, <2>3
<1>5. CASE Len(c.sections) = Last(c.files).below
  <2>1. PICK d : d = [c EXCEPT !.status = "done"]
    OBVIOUS
  <2>2. ~ (Len(c.files) > 1) /\ Last(c.files).below = 0
    <3>1. Len(c.files) = 1 /\ c.files[1].below = 0
      BY <1>1, <1>2, Aligned DEF Levels
    <3> QED
      BY <1>2, <3>1, ConfigShape
  <2>3. d = Step(program, c)
    BY <1>3, <1>5, <2>1, <2>2 DEF EndFile
  <2>4. d.status = "done" /\ d.out = c.out /\ d.macros = c.macros
    BY <1>2, <2>1 DEF Config, Fields
  <2>5. conds = << >>
    <3>1. Len(conds) \in Nat /\ Nest \in Nat /\ Len(c.sections) = Len(conds) + Nest
          /\ conds \in Seq(CondIncl)
      BY <1>2, NestNat DEF SectionsAre, Kinds
    <3>2. Len(conds) = 0
      BY <1>5, <2>2, <3>1
    <3> QED
      BY <3>1, <3>2
  <2>6. Ended(d)'
    BY <1>1, <1>2, <2>4, <2>5 DEF Ended, Shared
  <2> QED
    BY <2>3, <2>6
<1> QED
  BY <1>4, <1>5

\* The paths asked for are those the engine tries.
LEMMA AskedIs ==
  ASSUME Top.name = Top.path, Here.d \in {"include", "import", "include_next"},
         Here.how \in {"abs", "quote", "angle"}
  PROVE  Asked(Top.path, Here) = Candidates
<1>1. PICK std : std = [n \in 1 .. Len(StdPath) |-> <<StdPath[n], Here.f>>]
  OBVIOUS
<1>2. Std = std /\ Len(StdPath) \in Nat /\ DOMAIN std = 1 .. Len(StdPath)
      /\ Len(std) = Len(StdPath)
  <2>1. Len(StdPath) \in Nat
    BY PathAssumption
  <2> QED
    BY <1>1, <2>1 DEF Std, InDir
<1>3. PICK path : path = Top.path
  OBVIOUS
<1>4. PICK I : I = {i \in 1 .. Len(std) : std[i] = path}
  OBVIOUS
<1>5. PICK after : after = IF I # {} THEN Min(I) ELSE 0
  OBVIOUS
<1>6. after = SelectInSeq(std, LAMBDA p : p = path)
  BY <1>4, <1>5 DEF SelectInSeq
<1>7. CASE I = {}
  <2>1. ~ \E n \in DOMAIN Std : Std[n] = path
    BY <1>2, <1>4, <1>7
  <2>2. after = 0
    BY <1>5, <1>7
  <2>3. After(path) = IF after = 0 THEN << >> ELSE SubSeq(std, after + 1, Len(std))
    BY <2>1, <2>2 DEF After
  <2> QED
    BY <1>1, <1>2, <1>3, <1>6, <2>3 DEF Asked, Candidates, InDir
<1>8. CASE I # {}
  <2>1. I \subseteq Nat
    BY <1>2, <1>4
  <2>2. PICK x \in I : \A y \in I : x <= y
    BY <1>8, <2>1, LeastOf
  <2>3. after = x
    <3>1. after = CHOOSE z \in I : \A y \in I : z <= y
      BY <1>5, <1>8 DEF Min
    <3>2. after \in I /\ \A y \in I : after <= y
      BY <2>2, <3>1
    <3> QED
      BY <2>1, <2>2, <3>2
  <2>4. PICK z : z = CHOOSE n \in DOMAIN Std : /\ Std[n] = path
                                               /\ \A k \in 1 .. n - 1 : Std[k] # path
    OBVIOUS
  <2>5. x \in DOMAIN Std /\ Std[x] = path /\ \A k \in 1 .. x - 1 : Std[k] # path
    <3>1. x \in 1 .. Len(std) /\ std[x] = path
      BY <1>4
    <3>2. ASSUME NEW k \in 1 .. x - 1, std[k] = path PROVE FALSE
      <4>1. k \in I /\ ~ (x <= k)
        BY <1>2, <1>4, <3>1, <3>2
      <4> QED
        BY <2>2, <4>1
    <3> QED
      BY <1>2, <3>1, <3>2
  <2>6. z \in DOMAIN Std /\ Std[z] = path /\ \A k \in 1 .. z - 1 : Std[k] # path
    BY <2>4, <2>5
  <2>7. z = x
    <3>1. z \in Nat /\ x \in Nat /\ z # 0 /\ x # 0
      BY <1>2, <2>5, <2>6
    <3>2. ~ (z < x) /\ ~ (x < z)
      BY <2>5, <2>6, <3>1
    <3> QED
      BY <3>1, <3>2
  <2>8. x # 0
    BY <1>2, <2>5
  <2>9. After(path) = SubSeq(std, 1 + x, Len(std))
    BY <1>2, <2>4, <2>5, <2>7 DEF After
  <2>10. 1 + x = x + 1
    BY <2>1
  <2>11. After(path) = IF after = 0 THEN << >> ELSE SubSeq(std, after + 1, Len(std))
    BY <2>3, <2>8, <2>9, <2>10
  <2> QED
    BY <1>1, <1>2, <1>3, <1>6, <2>11 DEF Asked, Candidates, InDir
<1> QED
  BY <1>7, <1>8

LEMMA CandidatesShape ==
  ASSUME Here.d \in {"include", "import", "include_next"},
         Here.how \in {"abs", "quote", "angle"}
  PROVE  Len(Candidates) \in Nat /\ DOMAIN Candidates = 1 .. Len(Candidates)
<1>1. PICK S : S = {<<x, Here.f>> : x \in Range(StdPath) \cup {"/", Top.name[1]}}
  OBVIOUS
<1>2. Std \in Seq(S)
  BY <1>1, PathAssumption DEF Std, InDir
<1>3. \A path : After(path) \in Seq(S)
  <2> SUFFICES ASSUME NEW path PROVE After(path) \in Seq(S)
    OBVIOUS
  <2>1. << >> \in Seq(S)
    OBVIOUS
  <2>2. ASSUME \E n \in DOMAIN Std : Std[n] = path PROVE After(path) \in Seq(S)
    <3>1. PICK I : I = {n \in DOMAIN Std : Std[n] = path}
      OBVIOUS
    <3>2. I # {} /\ I \subseteq Nat /\ Len(Std) \in Nat /\ DOMAIN Std = 1 .. Len(Std)
      BY <1>2, <2>2, <3>1
    <3>3. PICK x \in I : \A y \in I : x <= y
      BY <3>2, LeastOf
    <3>4. \A k \in 1 .. x - 1 : Std[k] # path
      <4> SUFFICES ASSUME NEW k \in 1 .. x - 1, Std[k] = path PROVE FALSE
        OBVIOUS
      <4>1. k \in I /\ ~ (x <= k)
        BY <3>1, <3>2
      <4> QED
        BY <3>3, <4>1
    <3>5. PICK z : z = CHOOSE n \in DOMAIN Std : /\ Std[n] = path
                                                /\ \A k \in 1 .. n - 1 : Std[k] # path
      OBVIOUS
    <3>6. z \in 1 .. Len(Std)
      BY <3>1, <3>2, <3>3, <3>4, <3>5
    <3>7. After(path) = SubSeq(Std, 1 + z, Len(Std))
      BY <2>2, <3>5 DEF After
    <3>8. 1 + z \in 1 .. Len(Std) + 1 /\ Len(Std) \in (1 + z) - 1 .. Len(Std)
      BY <3>2, <3>6
    <3> QED
      BY <1>2, <3>7, <3>8, SubSeqShape
  <2> QED
    BY <2>1, <2>2 DEF After
<1>4. <<InDir("/")>> \in Seq(S) /\ <<InDir(Top.name[1])>> \in Seq(S)
  BY <1>1 DEF InDir
<1>5. Candidates \in Seq(S)
  BY <1>2, <1>3, <1>4 DEF Candidates
<1> QED
  BY <1>5

-----------------------------------------------------------------------------
(* #include, #import and #include_next *)

\* Reading a file begins.
Began(c, d, q, l) ==
    /\ Descended(c, d, q) /\ d.sections = c.sections
    /\ d.macros = c.macros /\ d.out = c.out /\ d.status = c.status
    /\ d.once = IF l.d = "import" THEN c.once \cup {q} ELSE c.once
    /\ d.met <=> c.met \/ (l.d = "import" /\ q \in c.seen)
    /\ d.seen = c.seen \cup {q}
    /\ d.files = Append(Past(c).files,
                        [path |-> q, pos |-> 1, below |-> Len(c.sections)])

LEMMA EnterEffect ==
  ASSUME NEW p, NEW c, Config(p, c), NEW q, q \in DOMAIN p, NEW l
  PROVE  Config(p, Enter(q, l, c)) /\ Began(c, Enter(q, l, c), q, l)
<1>0. PICK d : d = Enter(q, l, c)
  OBVIOUS
<1>1. PICK e : e = Past(c)
  OBVIOUS
<1>2. Config(p, e) /\ Moved(c, e) /\ e.sections = c.sections /\ Same(c, e)
  BY <1>1, PastMoves
<1>3. PICK t : t = [path |-> q, pos |-> 1, below |-> Len(c.sections)]
  OBVIOUS
<1>4. t \in OpenFileOf(p)
  BY <1>3, ConfigShape DEF OpenFileOf
<1>5. PICK g : g = Append(e.files, t)
  OBVIOUS
<1>6. PICK on : on = IF l.d = "import" THEN e.once \cup {q} ELSE e.once
  OBVIOUS
<1>7. PICK m : m = (e.met \/ (l.d = "import" /\ q \in c.seen))
  OBVIOUS
<1>8. PICK s : s = e.seen \cup {q}
  OBVIOUS
<1>9. d = [e EXCEPT !.files = g, !.once = on, !.met = m, !.seen = s]
  BY <1>0, <1>1, <1>3, <1>5, <1>6, <1>7, <1>8, Zenon DEF Enter
<1>10. /\ Fields(d) /\ d.files = g /\ d.sections = e.sections /\ d.macros = e.macros
       /\ d.once = on /\ d.seen = s /\ d.met = m /\ d.out = e.out /\ d.status = e.status
  BY <1>2, <1>9 DEF Config, Fields
<1>11. m \in BOOLEAN /\ (m <=> e.met \/ (l.d = "import" /\ q \in c.seen))
  BY <1>2, <1>7 DEF Config
<1>12. /\ e.files \in Seq(OpenFileOf(p)) /\ g \in Seq(OpenFileOf(p)) /\ g # << >>
       /\ Len(g) = Len(e.files) + 1 /\ g[Len(e.files) + 1] = t
       /\ \A n \in 1 .. Len(e.files) : g[n] = e.files[n]
  BY <1>2, <1>4, <1>5, AppendShape DEF Config
<1>13. Config(p, d)
  BY <1>2, <1>10, <1>11, <1>12 DEF Config
<1>14. Len(e.files) = Len(c.files)
  BY <1>2 DEF Moved
<1>15. Descended(c, d, q)
  BY <1>2, <1>3, <1>10, <1>12, <1>14 DEF Descended, Moved
<1> QED
  BY <1>0, <1>1, <1>2, <1>3, <1>5, <1>6, <1>8, <1>10, <1>11, <1>13, <1>15 DEF Same, Began

\* The file found is the one the engine settles on.
LEMMA SettledIs ==
  ASSUME Places, NEW c, Rel(c), IncludeOp
  PROVE  /\ Found(program, Asked(Last(c.files).path, Here)) = {Candidates[n] : n \in Settled}
         /\ \A m, n \in Settled : Candidates[m] = Candidates[n]
         /\ \A n \in Settled : Exists(Candidates[n])
         /\ \A path \in c.once : Exists(path)
<1>1. /\ Here.d \in {"include", "import", "include_next"} /\ ~ AtEof
  BY DEF IncludeOp, Running
<1>2. Here.how \in {"abs", "quote", "angle"}
  BY <1>1, TopShape DEF IsLine
<1>3. Last(c.files).path = Top.path /\ Top.name = Top.path
  BY Aligned
<1>4. Asked(Last(c.files).path, Here) = Candidates
  BY <1>1, <1>2, <1>3, AskedIs
<1>5. PICK asked : asked = Candidates
  OBVIOUS
<1>6. Len(asked) \in Nat /\ DOMAIN asked = 1 .. Len(asked)
  BY <1>1, <1>2, <1>5, CandidatesShape
<1>7. /\ \A path \in c.once : path \in DOMAIN program
      /\ \A path \in once : path \in DOMAIN program
      /\ \A path \in DOMAIN includeGuard : path \in DOMAIN program
  BY DEF Rel, Shared, Recorded
<1>8. \A path : Settles(path) <=> path \in DOMAIN program
  BY <1>7 DEF Settles, Guarded, Exists
<1>9. Settled = {n \in DOMAIN asked : /\ asked[n] \in DOMAIN program
                                      /\ \A k \in 1 .. n - 1 : asked[k] \notin DOMAIN program}
  BY <1>5, <1>8 DEF Settled, Tried
<1>10. Found(program, asked) = {asked[n] : n \in Settled}
  BY <1>9 DEF Found
<1>11. \A m, n \in Settled : m = n
  <2> SUFFICES ASSUME NEW m \in Settled, NEW n \in Settled, m < n PROVE FALSE
    BY <1>6, <1>9
  <2>1. m \in 1 .. n - 1
    BY <1>6, <1>9
  <2> QED
    BY <1>9, <2>1
<1>12. \A n \in Settled : Exists(asked[n])
  BY <1>9 DEF Exists
<1>13. \A path \in c.once : Exists(path)
  BY <1>7 DEF Exists
<1> QED
  BY <1>4, <1>5, <1>10, <1>11, <1>12, <1>13

LEMMA IncludeIs ==
  ASSUME Places, Kinds, NEW c, Rel(c), IncludeOp
  PROVE  /\ Settled = {} => Step(program, c) = Refuse(c)
         /\ \A n \in Settled :
               /\ Candidates[n] \in c.once => Step(program, c) = Past(c)
               /\ Candidates[n] \notin c.once =>
                     Step(program, c) = Enter(Candidates[n], Here, c)
<1>1. Running /\ ~ AtEof /\ Here.d \in {"include", "import", "include_next"}
  BY DEF IncludeOp, Running
<1>2. ~ Opens(Here.d) /\ ~ Ends(Here.d)
  BY <1>1 DEF Opens, Ends
<1>3. Step(program, c) = Effect(program, Here, c)
  BY <1>1, <1>2, StepIs, CalmHere
<1>4. Step(program, c) = Include(program, Here, c)
  BY <1>1, <1>3 DEF Effect
<1>5. PICK found : found = Found(program, Asked(Last(c.files).path, Here))
  OBVIOUS
<1>6. /\ found = {Candidates[n] : n \in Settled}
      /\ \A m, n \in Settled : Candidates[m] = Candidates[n]
  BY <1>5, SettledIs
<1>7. Settled = {} => Step(program, c) = Refuse(c)
  BY <1>4, <1>5, <1>6 DEF Include
<1>8. ASSUME NEW n \in Settled
      PROVE  /\ Candidates[n] \in c.once => Step(program, c) = Past(c)
             /\ Candidates[n] \notin c.once =>
                   Step(program, c) = Enter(Candidates[n], Here, c)
  <2>1. PICK q : q = Candidates[n]
    OBVIOUS
  <2>2. found = {q}
    BY <1>6, <2>1
  <2>3. q = CHOOSE p \in found : TRUE
    BY <2>2
  <2>4. found # {}
    BY <2>2
  <2> QED
    BY <1>4, <1>5, <2>1, <2>3, <2>4 DEF Include
<1> QED
  BY <1>7, <1>8

LEMMA FailRefused ==
  ASSUME Places, Kinds, NEW c, Rel(c), IncludeFail
  PROVE  Step(program, c) = Refuse(c)
<1>1. IncludeOp /\ Settled = {}
  BY DEF IncludeFail
<1> QED
  BY <1>1, IncludeIs

\* A recorded guard: where its macro is defined, the file is skimmed.
LEMMA GuardingIs ==
  ASSUME Places, NEW c, Recorded(program, includeGuard, c), NEW q, Guarded(q),
         NEW b, Config(program, b), b.status = "reading", b.macros = macros,
         Included(b.sections), ~ InQuotes(b.sections),
         Last(b.files).path = q, Last(b.files).pos = 1,
         Last(b.files).below = Len(b.sections)
  PROVE  Guarding(program, b)
<1>1. q \in DOMAIN program /\ includeGuard[q] \in macros
      /\ WholeGuard(program[q], includeGuard[q])
  BY DEF Guarded, Recorded
<1>2. program \in Programs
  BY DEF Places, Located
<1>3. Len(program[q]) \in Nat
  BY <1>1, <1>2, FileShape
<1> QED
  BY <1>1, <1>3 DEF Guarding

\* The engine goes on where the reference is some steps later.
Follows(c) == \E k \in Nat : \E d : d = Run(program, c, k) /\ (d.status = "refused" \/ Rel(d)')

LEMMA OneStep ==
  ASSUME NEW c, Goes(c)
  PROVE  Follows(c)
<1>1. PICK d : d = Step(program, c) /\ (d.status = "refused" \/ Rel(d)')
  BY DEF Goes
<1>2. Run(program, c, 0) = c /\ Run(program, c, 0 + 1) = Step(program, Run(program, c, 0))
  BY RunSteps
<1>3. 0 + 1 \in Nat
  OBVIOUS
<1> QED
  BY <1>1, <1>2, <1>3 DEF Follows

LEMMA AgainFollows ==
  ASSUME Places, Kinds, NEW c, Rel(c), IncludeAgain
  PROVE  Follows(c)
<1>1. /\ IncludeOp /\ Running /\ ~ AtEof /\ Read
      /\ UNCHANGED <<program, opened, conds, skipping, macros, includeGuard, once, out>>
      /\ Here.d \in {"include", "import", "include_next"}
  BY DEF IncludeAgain, IncludeOp, Running
<1>2. PICK n \in Settled : Candidates[n] \in once \/ Guarded(Candidates[n])
  BY DEF IncludeAgain
<1>3. PICK q : q = Candidates[n]
  OBVIOUS
<1>4. ~ Opens(Here.d) /\ ~ Ends(Here.d) /\ Here.d # "quote"
  BY <1>1 DEF Opens, Ends
<1>5. /\ Config(program, c) /\ c.status = "reading" /\ Recorded(program, includeGuard, c)
      /\ Shared(program, files, macros, includeGuard, once, out, c)
  BY DEF Rel
<1>6. ~ InQuotes(c.sections) /\ Included(c.sections)
  BY <1>1, <1>4, CalmHere
<1>7. PICK h : h = files'
  OBVIOUS
<1>8. Advanced(files, h)
  BY <1>1, <1>7, NextAdvances DEF Read
<1>9. CASE q \in c.once
  <2>1. PICK d : d = Past(c)
    OBVIOUS
  <2>2. d = Step(program, c)
    BY <1>1, <1>3, <1>9, <2>1, IncludeIs
  <2>3. Config(program, d) /\ Moved(c, d) /\ d.sections = c.sections /\ Same(c, d)
    BY <1>5, <2>1, PastMoves
  <2>4. Recorded(program, includeGuard, d)
    BY <1>5, <2>3, RecordedSame DEF Same
  <2>5. Shared(program, h, macros, includeGuard, once, out, d)
    BY <1>5, <1>8, <2>3, SharedRead
  <2>6. d.status = "reading"
    BY <1>5, <2>3 DEF Same
  <2>7. Recorded(program, includeGuard', d)
        /\ Shared(program, files', macros', includeGuard', once', out', d)
    BY <1>1, <1>7, <2>4, <2>5
  <2>8. Rel(d)'
    BY <1>1, <1>4, <2>3, <2>6, <2>7, CalmRel
  <2> QED
    BY <2>2, <2>8, OneStep DEF Goes
<1>10. CASE q \notin c.once
  <2>1. Guarded(q) /\ q \in DOMAIN program
    BY <1>1, <1>2, <1>3, <1>5, <1>10, SettledIs DEF Shared, Exists
  <2>2. PICK b : b = Enter(q, Here, c)
    OBVIOUS
  <2>3. b = Step(program, c)
    BY <1>1, <1>3, <1>10, <2>2, IncludeIs
  <2>4. PICK e : e = Past(c)
    OBVIOUS
  <2>5. Config(program, e) /\ Moved(c, e) /\ e.sections = c.sections /\ Same(c, e)
    BY <1>5, <2>4, PastMoves
  <2>6. PICK t : t = [path |-> q, pos |-> 1, below |-> Len(c.sections)]
    OBVIOUS
  <2>7. /\ Config(program, b) /\ b.sections = c.sections
        /\ b.macros = c.macros /\ b.out = c.out /\ b.status = c.status
        /\ b.once = IF Here.d = "import" THEN c.once \cup {q} ELSE c.once
        /\ b.met <=> c.met \/ (Here.d = "import" /\ q \in c.seen)
        /\ b.seen = c.seen \cup {q}
        /\ b.files = Append(e.files, t)
    <3>1. Config(program, b) /\ Began(c, b, q, Here)
      BY <1>5, <2>1, <2>2, EnterEffect
    <3> QED
      BY <2>4, <2>6, <3>1 DEF Began
  <2>8. /\ e.files \in Seq(OpenFileOf(program)) /\ e.files # << >>
        /\ Len(e.files) \in Nat /\ Len(e.files) >= 1
    BY <2>5, ConfigShape DEF Config
  <2>9. t \in OpenFileOf(program)
    BY <1>5, <2>1, <2>6, ConfigShape DEF OpenFileOf
  <2>10. Front(b.files) = e.files /\ Last(b.files) = t /\ Len(b.files) > 1
    <3>1. PICK s : s = e.files
      OBVIOUS
    <3>2. s \in Seq(OpenFileOf(program)) /\ Len(s) \in Nat /\ Len(s) >= 1
      BY <2>8, <3>1
    <3>3. Len(Append(s, t)) = Len(s) + 1 /\ Append(s, t)[Len(s) + 1] = t
          /\ \A k \in 1 .. Len(s) : Append(s, t)[k] = s[k]
      BY <2>9, <3>2, AppendShape
    <3>4. Last(Append(s, t)) = t /\ Len(Append(s, t)) > 1
      BY <3>2, <3>3 DEF Last
    <3>5. Front(Append(s, t)) = s
      BY <2>9, <3>2 DEF Front
    <3> QED
      BY <2>7, <3>1, <3>4, <3>5
  <2>11. /\ Last(b.files).path = q /\ Last(b.files).pos = 1
         /\ Last(b.files).below = Len(b.sections)
    BY <2>6, <2>7, <2>10
  <2>12. b.macros = macros /\ b.status = "reading"
         /\ Included(b.sections) /\ ~ InQuotes(b.sections)
    BY <1>5, <1>6, <2>7 DEF Shared
  <2>13. Guarding(program, b)
    BY <1>5, <2>1, <2>7, <2>11, <2>12, GuardingIs
  <2>14. PICK k \in Nat : k = Len(program[q]) + 1
    BY <2>11, <2>13 DEF Guarding
  <2>15. PICK d : d = Run(program, b, k)
    OBVIOUS
  <2>16. /\ Config(program, d) /\ Same(b, d) /\ d.sections = b.sections
         /\ d.files = Front(b.files)
    BY <2>10, <2>11, <2>13, <2>14, <2>15, GuardedFile
  <2>17. Moved(c, d) /\ d.sections = c.sections
    BY <2>5, <2>7, <2>10, <2>16 DEF Moved
  <2>18. d = Run(program, c, 1 + k)
    <3>1. Run(program, c, 0) = c /\ Run(program, c, 0 + 1) = Step(program, Run(program, c, 0))
      BY RunSteps
    <3>2. b = Run(program, c, 1)
      BY <2>3, <3>1
    <3>3. 1 \in Nat
      OBVIOUS
    <3> QED
      BY <2>15, <3>2, <3>3, RunOn
  <2>19. Recorded(program, includeGuard, d)
    BY <1>5, <2>7, <2>16, RecordedSame DEF Same
  <2>20. q \in DOMAIN includeGuard /\ includeGuard[q] \in macros /\ q \in c.seen
    BY <1>5, <2>1 DEF Guarded, Recorded
  <2>21. Shared(program, h, macros, includeGuard, once, out, d)
    <3>1. /\ d.macros = c.macros /\ d.out = c.out /\ d.seen = c.seen \cup {q}
          /\ d.once = IF Here.d = "import" THEN c.once \cup {q} ELSE c.once
          /\ d.met <=> c.met \/ Here.d = "import"
      BY <2>7, <2>16, <2>20 DEF Same
    <3> QED
      BY <1>5, <1>8, <2>1, <2>20, <3>1 DEF Shared, Advanced
  <2>22. d.status = "reading"
    BY <2>12, <2>16 DEF Same
  <2>23. Recorded(program, includeGuard', d)
         /\ Shared(program, files', macros', includeGuard', once', out', d)
    BY <1>1, <1>7, <2>19, <2>21
  <2>24. Rel(d)'
    BY <1>1, <1>4, <2>16, <2>17, <2>22, <2>23, CalmRel
  <2>25. 1 + k \in Nat
    OBVIOUS
  <2> QED
    BY <2>18, <2>24, <2>25 DEF Follows
<1> QED
  BY <1>9, <1>10

\* A file is opened: the reference opens it too.
LEMMA FileGoes ==
  ASSUME Places, Kinds, NEW c, Rel(c), IncludeFile
  PROVE  Goes(c)
<1>1. /\ IncludeOp /\ Running /\ ~ AtEof /\ Len(files) < MaxFiles /\ skipping = NONE
      /\ UNCHANGED <<program, conds, skipping, macros, includeGuard, out>>
      /\ opened' = opened + 1
      /\ Here.d \in {"include", "import", "include_next"}
  BY DEF IncludeFile, IncludeOp, Running
<1>2. PICK n \in Settled :
         /\ Candidates[n] \notin once /\ ~ Guarded(Candidates[n])
         /\ files' = Append(NextLine, Open(Candidates[n]))
         /\ once' = IF Here.d = "import" THEN once \cup {Candidates[n]} ELSE once
  BY DEF IncludeFile
<1>3. PICK q : q = Candidates[n]
  OBVIOUS
<1>4. ~ Opens(Here.d) /\ ~ Ends(Here.d) /\ Here.d # "quote" /\ Here.d \notin {"else", "elif"}
  BY <1>1 DEF Opens, Ends
<1>5. /\ Config(program, c) /\ c.status = "reading" /\ Recorded(program, includeGuard, c)
      /\ Levels(program, files, c) /\ GuardsOpen(program, files, opened, conds, c)
      /\ Shared(program, files, macros, includeGuard, once, out, c) /\ SectionsAre(c)
      /\ Located(program, files, opened)
  BY DEF Rel, Places
<1>6. ~ InQuotes(c.sections) /\ Len(c.sections) = Len(conds) /\ Len(conds) \in Nat
      /\ Len(conds) <= Len(c.sections)
  <2>1. ~ InQuotes(c.sections) /\ Len(c.sections) = Len(conds) /\ Len(conds) \in Nat
    BY <1>1, CalmHere
  <2> QED
    BY <2>1
<1>7. q \in DOMAIN program
  BY <1>1, <1>3, SettledIs DEF Exists
<1>8. q \notin c.once
  BY <1>2, <1>3, <1>5 DEF Shared, Guarded
<1>9. PICK d : d = Enter(q, Here, c)
  OBVIOUS
<1>10. d = Step(program, c)
  BY <1>1, <1>3, <1>8, <1>9, IncludeIs
<1>11. Config(program, d) /\ Began(c, d, q, Here)
  BY <1>5, <1>7, <1>9, EnterEffect
<1>12. /\ Descended(c, d, q) /\ d.sections = c.sections
       /\ d.macros = c.macros /\ d.out = c.out /\ d.status = "reading"
       /\ d.once = IF Here.d = "import" THEN c.once \cup {q} ELSE c.once
       /\ d.met <=> c.met \/ (Here.d = "import" /\ q \in c.seen)
       /\ d.seen = c.seen \cup {q}
  BY <1>5, <1>11 DEF Began
<1>13. PICK h : h = files'
  OBVIOUS
<1>14. /\ Len(h) = Len(files) + 1
       /\ \A k \in 1 .. Len(files) - 1 : h[k] = files[k]
       /\ h[Len(files)] = [Top EXCEPT !.pos = @ + 1]
       /\ h[Len(files) + 1] = Open(q)
  BY <1>1, <1>2, <1>3, <1>7, <1>13, OpenLocated
<1>15. Entered(files, h, q, opened)
  <2>1. Advanced(files, NextLine)
    BY <1>1, NextAdvances
  <2>2. /\ Len(NextLine) = Len(files) /\ Len(files) \in Nat /\ Len(files) >= 1
        /\ \A k \in 1 .. Len(files) - 1 : NextLine[k] = files[k]
        /\ NextLine[Len(files)] = [Top EXCEPT !.pos = @ + 1]
    BY <1>1, NextLocated, TopShape DEF Last
  <2>3. PICK g : g = NextLine
    OBVIOUS
  <2>4. \A k \in 1 .. Len(files) : h[k] = g[k]
    <3>1. \A k \in 1 .. Len(files) : k \in 1 .. Len(files) - 1 \/ k = Len(files)
      BY <2>2
    <3> QED
      BY <1>14, <2>2, <2>3, <3>1
  <2>5. Open(q) = [path |-> q, name |-> q, pos |-> 1, id |-> opened]
    BY DEF Open
  <2> QED
    BY <1>14, <2>1, <2>3, <2>4, <2>5 DEF Advanced, Entered
<1>16. PICK l : l = program[files[Len(files)].path][files[Len(files)].pos]
  OBVIOUS
<1>17. l = Here
  BY <1>16, TopShape DEF Here, Lines
<1>18. ~ Opens(l.d) /\ ~ Ends(l.d) /\ l.d # "quote" /\ l.d \notin {"else", "elif"}
  BY <1>4, <1>17
<1>19. Levels(program, h, d)
  BY <1>5, <1>6, <1>11, <1>12, <1>15, <1>16, <1>18, LevelsOpen
<1>20. GuardsOpen(program, h, opened + 1, conds, d)
  BY <1>5, <1>6, <1>12, <1>15, <1>16, <1>18, GuardsEnter
<1>21. SectionsAre(d)'
  <2>1. /\ Len(c.sections) = Len(conds) + Nest
        /\ \A k \in 1 .. Len(conds) :
              /\ c.sections[k].taken <=> conds[k].wastrue \/ conds[k].ctx = "else"
              /\ c.sections[k].last <=> conds[k].ctx = "else"
              /\ c.sections[k].on
        /\ InQuotes(c.sections) <=> Quoted
    BY <1>1, <1>4, <1>5 DEF SectionsAre, Stopped
  <2>2. Nest' = Nest /\ (Quoted' <=> Quoted) /\ skipping' = NONE
    BY <1>1 DEF Nest, Quoted
  <2> QED
    BY <1>1, <1>12, <2>1, <2>2 DEF SectionsAre
<1>22. Recorded(program, includeGuard, d)
  BY <1>5, <1>12, RecordedSame
<1>23. PICK on : on = once'
  OBVIOUS
<1>24. Shared(program, h, macros, includeGuard, on, out, d)
  <2>1. PICK N \in Nat : N = Len(files)
    BY TopShape
  <2>2. \A k \in 1 .. N + 1 : k \in 1 .. N \/ k = N + 1
    OBVIOUS
  <2>3. Len(h) = N + 1 /\ h[N + 1].path = q /\ \A k \in 1 .. N : h[k].path = files[k].path
    BY <1>15, <2>1 DEF Entered
  <2>4. \A k \in 1 .. Len(h) : h[k].path \in d.seen
    BY <1>5, <1>12, <2>1, <2>2, <2>3 DEF Shared
  <2>5. on = IF Here.d = "import" THEN once \cup {q} ELSE once
    BY <1>2, <1>3, <1>23
  <2> QED
    BY <1>5, <1>7, <1>12, <2>4, <2>5 DEF Shared
<1>25. Rel(d)'
  BY <1>1, <1>11, <1>12, <1>13, <1>19, <1>20, <1>21, <1>22, <1>23, <1>24 DEF Rel
<1> QED
  BY <1>10, <1>25 DEF Goes

-----------------------------------------------------------------------------
(* From the first state on *)

\* Where the reference starts
LEMMA StartConfig ==
  ASSUME NEW p, NEW path \in DOMAIN p, NEW m, NEW on, NEW t
  PROVE  LET c == Start(path, m, on, t)
         IN  /\ Config(p, c) /\ c.status = "reading" /\ c.sections = << >>
             /\ c.macros = m /\ c.once = on /\ c.out = t /\ c.seen = {path}
             /\ Len(c.files) = 1 /\ c.files[1] = [path |-> path, pos |-> 1, below |-> 0]
             /\ Last(c.files) = [path |-> path, pos |-> 1, below |-> 0]
             /\ Included(c.sections) /\ ~ InQuotes(c.sections)
<1>1. PICK f : f = [path |-> path, pos |-> 1, below |-> 0]
  OBVIOUS
<1>2. f \in OpenFileOf(p)
  BY <1>1 DEF OpenFileOf
<1>3. PICK c : c = Start(path, m, on, t)
  OBVIOUS
<1>4. /\ c.files = <<f>> /\ c.sections = << >> /\ c.macros = m /\ c.once = on
      /\ c.seen = {path} /\ c.met = FALSE /\ c.out = t /\ c.status = "reading"
      /\ Fields(c)
  BY <1>1, <1>3 DEF Start, Fields
<1>5. <<f>> \in Seq(OpenFileOf(p)) /\ <<f>> # << >> /\ Len(<<f>>) = 1 /\ <<f>>[1] = f
      /\ Last(<<f>>) = f
  BY <1>2 DEF Last
<1>6. Config(p, c)
  <2>1. << >> \in Seq(Group) /\ 1 .. Len(<< >>) - 1 = {} /\ FALSE \in BOOLEAN
    OBVIOUS
  <2> QED
    BY <1>4, <1>5, <2>1 DEF Config
<1>7. Included(c.sections) /\ ~ InQuotes(c.sections)
  BY <1>4 DEF Included, InQuotes
<1> QED
  BY <1>1, <1>3, <1>4, <1>5, <1>6, <1>7

\* The engine has followed the reference, or the reference has refused the program.
First == Start(Main, {}, {}, << >>)
Reached(c) == \/ c.status = "refused"
              \/ status = "run" /\ Rel(c)
              \/ status = "done" /\ Ended(c)
Followed == \E n \in Nat : \E c : c = Run(program, First, n) /\ Reached(c)

LEMMA FollowedInit == Init => Followed
<1> SUFFICES ASSUME Init PROVE Followed
  OBVIOUS
<1>1. /\ program \in Programs /\ opened = 1 /\ conds = << >> /\ skipping = NONE
      /\ files = << [path |-> Main, name |-> Main, pos |-> 1, id |-> 0] >>
      /\ macros = {} /\ includeGuard = [path \in {} |-> NONE] /\ once = {}
      /\ out = << >> /\ status = "run"
  BY DEF Init
<1>2. Main \in DOMAIN program
  BY <1>1, ProgramsAssumption
<1>3. PICK c : c = First
  OBVIOUS
<1>4. /\ Config(program, c) /\ c.status = "reading" /\ c.sections = << >>
      /\ c.macros = {} /\ c.once = {} /\ c.out = << >> /\ c.seen = {Main}
      /\ Len(c.files) = 1 /\ c.files[1] = [path |-> Main, pos |-> 1, below |-> 0]
      /\ Last(c.files) = [path |-> Main, pos |-> 1, below |-> 0]
      /\ ~ InQuotes(c.sections)
  BY <1>2, <1>3, StartConfig DEF First
<1>5. /\ Len(files) = 1 /\ files[1].path = Main /\ files[1].name = Main
      /\ files[1].pos = 1 /\ files[1].id = 0
  BY <1>1
<1>6. PICK f : f = program[Main]
  OBVIOUS
<1>7. Depth(f, 1) = 0 /\ Plain(f, 1) /\ PlainTo(f, 1)
  <2>1. 1 .. 1 - 1 = {}
    OBVIOUS
  <2> QED
    BY <2>1, DepthStart DEF PlainTo
<1>8. 1 .. 1 = {1}
  OBVIOUS
<1>9. LevelAt(program, files, c, 1)
  <2>1. Level(c, 1) = 0
    BY <1>4 DEF Level
  <2> QED
    BY <1>4, <1>5, <1>6, <1>7, <2>1 DEF LevelAt
<1>10. Levels(program, files, c)
  BY <1>4, <1>5, <1>8, <1>9 DEF Levels
<1>11. 1 .. 0 = {} /\ Len(conds) = 0 /\ Len(c.sections) = 0
  BY <1>1, <1>4
<1>12. SectionsAre(c)
  BY <1>1, <1>4, <1>11 DEF SectionsAre, Nest, Quoted
<1>13. GuardsOpen(program, files, opened, conds, c)
  BY <1>11 DEF GuardsOpen
<1>14. Recorded(program, includeGuard, c)
  BY <1>1 DEF Recorded
<1>15. Shared(program, files, macros, includeGuard, once, out, c)
  BY <1>1, <1>4, <1>5, <1>8 DEF Shared
<1>16. Rel(c)
  BY <1>4, <1>10, <1>12, <1>13, <1>14, <1>15 DEF Rel
<1>17. Run(program, First, 0) = First /\ 0 \in Nat
  BY RunSteps
<1> QED
  BY <1>1, <1>3, <1>16, <1>17 DEF Followed, Reached

LEMMA ProgramStays == [Next]_vars => UNCHANGED program
<1> SUFFICES ASSUME [Next]_vars PROVE UNCHANGED program
  OBVIOUS
<1>1. Directive => UNCHANGED program
  BY DEF Directive, ReadIf, ReadIfdef, ReadIfndef, DoReadIf, ReadElse, ReadElif, ReadEndif,
         ReadStray, Fail, ReadDefine, ReadUndef, IncludeAgain, IncludeFile, IncludeFail,
         PragmaOnce, ReadLine, ReadError
<1> QED
  BY <1>1 DEF Next, PopFile, Finish, Text, SkipStop, SkipLine, vars

\* One step of the engine
LEMMA NextFollows ==
  ASSUME Places, Kinds, NEW c, Rel(c), Next, status = "run"
  PROVE  \E k \in Nat : \E d : d = Run(program, c, k) /\ Reached(d)'
<1>0. /\ Run(program, c, 0) = c
      /\ Run(program, c, 1) = Step(program, c) /\ 0 \in Nat /\ 1 \in Nat
  <2>1. Run(program, c, 0) = c /\ Run(program, c, 0 + 1) = Step(program, Run(program, c, 0))
    BY RunSteps
  <2> QED
    BY <2>1
<1>1. CASE status' = "run" /\ Follows(c)
  BY <1>1 DEF Follows, Reached
<1>2. CASE Step(program, c) = Refuse(c)
  <2>1. PICK d : d = Run(program, c, 1)
    OBVIOUS
  <2>2. d.status = "refused"
    BY <1>0, <1>2, <2>1, RefusedIs DEF Rel
  <2> QED
    BY <1>0, <2>1, <2>2 DEF Reached
<1>3. CASE PopFile
  <2>1. status' = "run" /\ Goes(c)
    BY <1>3, PopGoes DEF PopFile
  <2> QED
    BY <1>1, <2>1, OneStep
<1>4. CASE Finish
  <2>1. status' = "done"
    BY <1>4 DEF Finish
  <2>2. PICK d : d = Step(program, c) /\ (d.status = "refused" \/ Ended(d)')
    BY <1>4, FinishEnds
  <2> QED
    BY <1>0, <2>1, <2>2 DEF Reached
<1>5. CASE Text
  <2>1. status' = "run" /\ Goes(c)
    BY <1>5, TextGoes DEF Text
  <2> QED
    BY <1>1, <2>1, OneStep
<1>6. CASE SkipStop
  <2>1. status' = "run" /\ Rel(c)'
    BY <1>6, StopGoes DEF SkipStop
  <2> QED
    BY <1>0, <2>1 DEF Reached
<1>7. CASE SkipLine
  <2>1. status' = "run" /\ Goes(c)
    BY <1>7, SkipGoes DEF SkipLine
  <2> QED
    BY <1>1, <2>1, OneStep
<1>8. CASE ReadIf \/ ReadIfdef \/ ReadIfndef
  <2>1. status' = "run" /\ Goes(c)
    BY <1>8, IfGoes DEF ReadIf, ReadIfdef, ReadIfndef, DoReadIf
  <2> QED
    BY <1>1, <2>1, OneStep
<1>9. CASE ReadElse \/ ReadElif
  <2>1. status' = "run" /\ Goes(c)
    BY <1>9, ElseGoes DEF ReadElse, ReadElif
  <2> QED
    BY <1>1, <2>1, OneStep
<1>10. CASE ReadEndif
  <2>1. status' = "run" /\ Goes(c)
    BY <1>10, EndifGoes DEF ReadEndif
  <2> QED
    BY <1>1, <2>1, OneStep
<1>11. CASE ReadStray
  BY <1>2, <1>11, StrayRefused
<1>12. CASE ReadDefine
  <2>1. status' = "run" /\ Goes(c)
    BY <1>12, DefineGoes DEF ReadDefine
  <2> QED
    BY <1>1, <2>1, OneStep
<1>13. CASE ReadUndef
  <2>1. status' = "run" /\ Goes(c)
    BY <1>13, UndefGoes DEF ReadUndef
  <2> QED
    BY <1>1, <2>1, OneStep
<1>14. CASE IncludeAgain
  <2>1. status' = "run" /\ Follows(c)
    BY <1>14, AgainFollows DEF IncludeAgain
  <2> QED
    BY <1>1, <2>1
<1>15. CASE IncludeFile
  <2>1. status' = "run" /\ Goes(c)
    BY <1>15, FileGoes DEF IncludeFile
  <2> QED
    BY <1>1, <2>1, OneStep
<1>16. CASE IncludeFail
  BY <1>2, <1>16, FailRefused
<1>17. CASE PragmaOnce
  <2>1. status' = "run" /\ Goes(c)
    BY <1>17, OnceGoes DEF PragmaOnce
  <2> QED
    BY <1>1, <2>1, OneStep
<1>18. CASE ReadLine \/ ReadError
  BY <1>2, <1>18, ErrorRefused
<1> QED
  BY <1>3, <1>4, <1>5, <1>6, <1>7, <1>8, <1>9, <1>10, <1>11, <1>12, <1>13, <1>14,
     <1>15, <1>16, <1>17, <1>18 DEF Next, Directive

LEMMA NextRuns == Next => status = "run"
<1> SUFFICES ASSUME Next PROVE status = "run"
  OBVIOUS
<1>1. Directive => status = "run"
  BY DEF Directive, ReadIf, ReadIfdef, ReadIfndef, ReadElse, ReadElif, ReadEndif,
         ReadStray, ReadDefine, ReadUndef, IncludeAgain, IncludeFile, IncludeFail,
         IncludeOp, PragmaOnce, ReadLine, ReadError, Sees, Running
<1> QED
  BY <1>1 DEF Next, PopFile, Finish, Text, SkipStop, SkipLine, SkippingLine, Running

LEMMA FollowedStep == Places /\ Kinds /\ Followed /\ [Next]_vars => Followed'
<1> SUFFICES ASSUME Places, Kinds, Followed, [Next]_vars PROVE Followed'
  OBVIOUS
<1>1. UNCHANGED program
  BY ProgramStays
<1>2. PICK n \in Nat : \E c : c = Run(program, First, n) /\ Reached(c)
  BY DEF Followed
<1>3. PICK c : c = Run(program, First, n) /\ Reached(c)
  BY <1>2
<1>4. CASE c.status = "refused"
  <2>1. Reached(c)'
    BY <1>4 DEF Reached
  <2> QED
    BY <1>1, <1>3, <2>1 DEF Followed
<1>5. CASE c.status # "refused" /\ UNCHANGED vars
  <2>1. /\ UNCHANGED <<program, files, opened, conds, skipping, macros, includeGuard>>
        /\ UNCHANGED <<once, out, status>>
    BY <1>5 DEF vars, known
  <2>2. Lines' = Lines /\ Top' = Top
    BY <2>1, SameDepth
  <2>3. (Stopped' <=> Stopped) /\ Nest' = Nest /\ (Quoted' <=> Quoted)
    BY <2>1, <2>2 DEF Stopped, AtEof, Here, Nest, Quoted
  <2>4. SectionsAre(c) => SectionsAre(c)'
    BY <2>1, <2>3 DEF SectionsAre
  <2>5. Rel(c) => Rel(c)'
    BY <2>1, <2>4 DEF Rel
  <2>6. Reached(c)'
    BY <1>3, <2>1, <2>5 DEF Reached, Ended
  <2> QED
    BY <1>1, <1>3, <2>6 DEF Followed
<1>6. CASE c.status # "refused" /\ Next
  <2>1. status = "run" /\ Rel(c)
    BY <1>3, <1>6, NextRuns DEF Reached
  <2>2. PICK k \in Nat : \E d : d = Run(program, c, k) /\ Reached(d)'
    BY <1>6, <2>1, NextFollows
  <2>3. PICK d : d = Run(program, c, k) /\ Reached(d)'
    BY <2>2
  <2>4. d = Run(program, First, n + k) /\ n + k \in Nat
    BY <1>3, <2>3, RunOn
  <2> QED
    BY <1>1, <2>3, <2>4 DEF Followed
<1> QED
  BY <1>4, <1>5, <1>6

\* A run of the reference that ends is the one that Reference is.
LEMMA ReferenceIs ==
  ASSUME Conforms, NEW n \in Nat, Run(program, First, n).status # "reading"
  PROVE  Run(program, First, n) = Reference
<1>1. /\ MaxRead \in Nat /\ Reference = Run(program, First, MaxRead)
      /\ Reference.status = "done"
  BY MaxReadAssumption DEF Conforms, Reference, First
<1>2. n <= MaxRead \/ MaxRead <= n
  BY <1>1
<1>3. CASE n <= MaxRead
  BY <1>1, <1>3, RunStays
<1>4. CASE MaxRead <= n
  BY <1>1, <1>4, RunStays
<1> QED
  BY <1>2, <1>3, <1>4

LEMMA FollowedAgrees == Kinds /\ Followed => Agrees
<1> SUFFICES ASSUME Kinds, Followed, Conforms
             PROVE  /\ status # "error"
                    /\ status = "done" => /\ out = Reference.out
                                          /\ macros = Reference.macros
                                          /\ conds = << >>
  BY DEF Agrees
<1>1. PICK n \in Nat : \E c : c = Run(program, First, n) /\ Reached(c)
  BY DEF Followed
<1>2. PICK c : c = Run(program, First, n) /\ Reached(c)
  BY <1>1
<1>3. Reference.status = "done"
  BY DEF Conforms
<1>4. c.status # "refused"
  <2> SUFFICES ASSUME c.status = "refused" PROVE FALSE
    OBVIOUS
  <2>1. c = Reference
    BY <1>2, ReferenceIs
  <2> QED
    BY <1>3, <2>1
<1>5. ASSUME status = "done"
      PROVE  out = Reference.out /\ macros = Reference.macros /\ conds = << >>
  <2>1. Ended(c)
    BY <1>2, <1>4, <1>5 DEF Reached
  <2>2. c = Reference
    BY <1>2, <2>1, ReferenceIs DEF Ended
  <2> QED
    BY <2>1, <2>2 DEF Ended
<1> QED
  BY <1>2, <1>4, <1>5 DEF Reached

\* The text that reaches the parser is the text the standard selects, in its order, and
\* no program the reference accepts is refused, whatever the files are: what
\* skip_cond_incl skips, the wastrue and ctx of each CondIncl, and the guards and the
\* once set try_include consults (cpp.c:518-597, 670-742) show nowhere in it.
THEOREM TextIsSelected == Spec => []Agrees
<1> DEFINE IInv == Places /\ Kinds /\ Followed
<1>1. Init => IInv
  BY PlacesInit, KindsInit, FollowedInit
<1>2. IInv /\ [Next]_vars => IInv'
  BY PlacesStep, KindsStep, FollowedStep
<1>3. IInv => Agrees
  BY FollowedAgrees
<1> QED
  BY <1>1, <1>2, <1>3, PTL DEF Spec

\* When try_include does not read a file because the macro recorded for it by
\* read_endif is defined (cpp.c:593-599, 670-683), reading it would have added no text,
\* defined and undefined no macro, and come to the end of the file.
THEOREM GuardsAreTransparent == Spec => GuardIsTransparent
<1> DEFINE IInv == Places /\ Kinds /\ Followed
           Keep == IncludeAgain /\ Conforms =>
                     \A n \in Settled : LET p == Candidates[n]
                                        IN  p \notin once /\ Exists(p)
                                              => ReadingChangesNothing(p)
<1>1. Init => IInv
  BY PlacesInit, KindsInit, FollowedInit
<1>2. IInv /\ [Next]_vars => IInv'
  BY PlacesStep, KindsStep, FollowedStep
<1>3. IInv /\ [Next]_vars => [Keep]_vars
  <2> SUFFICES ASSUME Places, Kinds, Followed, IncludeAgain, Conforms, NEW n \in Settled,
                      NEW q, q = Candidates[n], q \notin once, Exists(q)
               PROVE  ReadingChangesNothing(q)
    OBVIOUS
  <2>1. status = "run" /\ IncludeOp
    BY DEF IncludeAgain, IncludeOp, Running
  <2>2. PICK k \in Nat : \E c : c = Run(program, First, k) /\ Reached(c)
    BY DEF Followed
  <2>3. PICK c : c = Run(program, First, k) /\ Reached(c)
    BY <2>2
  <2>4. Rel(c)
    <3>1. Reference.status = "done"
      BY DEF Conforms
    <3>2. ASSUME c.status = "refused" PROVE FALSE
      <4>1. c = Reference
        BY <2>3, <3>2, ReferenceIs
      <4> QED
        BY <3>1, <3>2, <4>1
    <3> QED
      BY <2>1, <2>3, <3>2 DEF Reached
  <2>5. Guarded(q)
    BY <2>1, <2>4, SettledIs DEF IncludeAgain
  <2>6. PICK b : b = Start(q, macros, once, out)
    OBVIOUS
  <2>7. q \in DOMAIN program
    BY DEF Exists
  <2>8. /\ Config(program, b) /\ b.status = "reading" /\ b.sections = << >>
        /\ b.macros = macros /\ Len(b.files) = 1
        /\ Last(b.files) = [path |-> q, pos |-> 1, below |-> 0]
        /\ Included(b.sections) /\ ~ InQuotes(b.sections)
    BY <2>6, <2>7, StartConfig
  <2>9. /\ Last(b.files).path = q /\ Last(b.files).pos = 1
        /\ Last(b.files).below = Len(b.sections)
    BY <2>8
  <2>10. Recorded(program, includeGuard, c)
    BY <2>4 DEF Rel
  <2>11. Guarding(program, b)
    BY <2>5, <2>8, <2>9, <2>10, GuardingIs
  <2>12. PICK n1 : n1 = Len(program[q])
    OBVIOUS
  <2>13. Run(program, b, n1 + 1) = [b EXCEPT !.files[1].pos = n1 + 1, !.status = "done"]
    <3>1. Len(program[Last(b.files).path]) = n1
      BY <2>9, <2>12
    <3>2. Run(program, b, Len(program[Last(b.files).path]) + 1)
            = [b EXCEPT !.files[1].pos = Len(program[Last(b.files).path]) + 1,
                        !.status = "done"]
      BY <2>8, <2>11, GuardedAlone
    <3> QED
      BY <3>1, <3>2
  <2> QED
    BY <2>6, <2>12, <2>13, Zenon DEF ReadingChangesNothing
<1>4. Spec => []IInv
  BY <1>1, <1>2, PTL DEF Spec
<1>5. Spec => [][Next]_vars
  BY DEF Spec
<1>6. Spec => [][Keep]_vars
  BY <1>3, <1>4, <1>5, PTL
<1> QED
  BY <1>6 DEF GuardIsTransparent
=============================================================================
