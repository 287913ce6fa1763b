------------------------------ MODULE Preproc -------------------------------
(***************************************************************************)
(* The directive engine of cpp.c with the parts of lex.c and file.c it     *)
(* drives: conditional inclusion and the skipping of excluded groups, the   *)
(* include stack, include guards, #pragma once, #import, #include_next and  *)
(* #line.  Input is line by line: a file is a sequence of lines, a line is  *)
(* a directive or a line of text.  Macro expansion is left out: a text line *)
(* that reaches the parser is the pair <<path, line number>> in `out', and  *)
(* of a macro only whether it is defined is known.                          *)
(*                                                                          *)
(* Lines are records with a field d:                                        *)
(*   text, blank; quote: text with one unpaired apostrophe in it            *)
(*   if, elif (field c: a Boolean, or a macro for `defined m')              *)
(*   ifdef, ifndef, define, undef (field m), else, endif                    *)
(*   include, import, include_next (fields f, how), once                    *)
(*   line (field to: the path the name of the file is set to), error        *)
(***************************************************************************)
EXTENDS Integers, Sequences, FiniteSets, SequencesExt, Functions

CONSTANTS Macro,        \* macro names
          Programs,     \* set of functions from path to sequence of lines
          Main,         \* the path of the file given on the command line
          StdPath,      \* std_include_path: a sequence of directories
          MaxFiles,     \* bound on the depth of the include stack
          NONE

IsLine(l) == /\ l.d \in {"if", "elif"} => l.c \in BOOLEAN \cup Macro
             /\ l.d \in {"ifdef", "ifndef", "define", "undef"} => l.m \in Macro
             /\ l.d \in {"include", "import", "include_next"} => l.how \in {"abs", "quote", "angle"}
IsFile(f) == f \in Seq(Range(f)) /\ \A l \in Range(f) : IsLine(l)

\* A path is <<directory, file name>>.
ASSUME ProgramsAssumption ==
    \A p \in Programs : Main \in DOMAIN p /\ \A path \in DOMAIN p : IsFile(p[path])
ASSUME PathAssumption == StdPath \in Seq(Range(StdPath))
ASSUME BoundAssumption == MaxFiles \in Nat \ {0}
ASSUME NoneAssumption == NONE \notin [nest : Nat, quoted : BOOLEAN]

VARIABLES program,      \* the files on disk
          files,        \* file.c's stack of open files
          opened,       \* how many were opened: the next File's identity
          conds,        \* cond_incl_stack
          skipping,     \* NONE, or where skip_cond_incl is
          macros,       \* the defined macros
          includeGuard, \* include_guard: path -> the macro guarding that file
          once,         \* paths not to be read again
          guardFlag,    \* the value of __8cc_include_guard
          out,          \* the text lines that got through
          status        \* "run", "error" (errort exits) or "done"

known == <<macros, includeGuard, once, guardFlag>>
vars  == <<program, files, opened, conds, skipping, known, out, status>>

Top       == Last(files)
Lines     == program[Top.path]
AtEof     == Top.pos > Len(Lines)
Here      == Lines[Top.pos]
Running   == status = "run" /\ ~ AtEof /\ skipping = NONE
Sees(d)   == Running /\ Here.d = d

\* The state of the files once the line under the cursor has been read.
NextLine == [files EXCEPT ![Len(files)].pos = @ + 1]
Read     == files' = NextLine

Open(path) == [path |-> path, name |-> path, pos |-> 1, id |-> opened]

Init == /\ program \in Programs
        /\ files = << [path |-> Main, name |-> Main, pos |-> 1, id |-> 0] >>
        /\ opened = 1
        /\ conds = << >> /\ skipping = NONE
        /\ macros = {}
        /\ includeGuard = [path \in {} |-> NONE] /\ once = {}
        /\ guardFlag = NONE
        /\ out = << >> /\ status = "run"

-----------------------------------------------------------------------------
(* file.c: readc() pops a file at its end; the first one stays *)
PopFile == /\ status = "run" /\ AtEof /\ Len(files) > 1
           /\ files' = Front(files)
           /\ UNCHANGED <<program, opened, conds, skipping, known, out,
                          status>>

Finish == /\ status = "run" /\ AtEof /\ Len(files) = 1
          /\ skipping' = NONE
          /\ status' = "done"
          /\ UNCHANGED <<program, files, opened, conds, known, out>>

\* An unpaired apostrophe is an error of the lexer where text is not skipped.
Text == /\ Running /\ Here.d \in {"text", "blank"}
        /\ out' = IF Here.d = "blank" THEN out
                  ELSE Append(out, <<Top.path, Top.pos>>)
        /\ Read
        /\ UNCHANGED <<program, opened, conds, skipping, known, status>>

\* errort(): print and exit
Fail == /\ status' = "error"
        /\ UNCHANGED <<program, files, opened, conds, skipping, known, out>>

-----------------------------------------------------------------------------
(* skip_cond_incl: called with the cursor after the directive's line *)
StartSkip == skipping' = [nest |-> 0, quoted |-> FALSE]

SkippingLine == status = "run" /\ ~ AtEof /\ skipping # NONE

Ends(d) == d \in {"else", "elif", "endif"}

\* #else, #elif or #endif of the skipped group: the directive is pushed back
SkipStop == /\ SkippingLine /\ ~ skipping.quoted
            /\ skipping.nest = 0 /\ Ends(Here.d)
            /\ skipping' = NONE
            /\ UNCHANGED <<program, files, opened, conds, known, out, status>>

\* mutant: #ifdef and #ifndef not counted
NestedIfOnly(d) == CASE d = "if"    -> skipping.nest + 1
                     [] d = "endif" -> skipping.nest - 1
                     [] OTHER       -> skipping.nest

\* mutant: the #endif of a nested group not counted
NestedNoEndif(d) == IF d \in {"if", "ifdef", "ifndef"} THEN skipping.nest + 1
                    ELSE skipping.nest

Nested(d) == CASE d \in {"if", "ifdef", "ifndef"} -> skipping.nest + 1
               [] d = "endif" -> skipping.nest - 1
               [] OTHER -> skipping.nest

\* mutant: the skip goes on over the end of its group
SkipLinePastEnd ==
    /\ SkippingLine
    /\ skipping' = IF Here.d = "quote" THEN [skipping EXCEPT !.quoted = ~ @]
                   ELSE [skipping EXCEPT !.nest = Nested(Here.d)]
    /\ Read
    /\ UNCHANGED <<program, opened, conds, known, out, status>>

\* skip_char reads to the next apostrophe, over lines and directives alike
SkipLine == /\ SkippingLine
            /\ skipping.quoted \/ skipping.nest > 0 \/ ~ Ends(Here.d)
            /\ skipping' =
                 IF Here.d = "quote"
                 THEN [skipping EXCEPT !.quoted = ~ @]
                 ELSE IF skipping.quoted THEN skipping
                 ELSE [skipping EXCEPT !.nest = Nested(Here.d)]
            /\ Read
            /\ UNCHANGED <<program, opened, conds, known, out, status>>

-----------------------------------------------------------------------------
(* Conditional directives *)

\* read_constexpr, of the two forms of condition the model has
Holds(c) == IF c \in BOOLEAN THEN c ELSE c \in macros

Cond(istrue) == [ctx |-> "then", wastrue |-> istrue, guard |-> NONE, file |-> 0]

DoReadIf(istrue, ci) ==
    /\ conds' = Append(conds, ci)
    /\ IF istrue THEN UNCHANGED skipping ELSE StartSkip
    /\ Read
    /\ UNCHANGED <<program, opened, known, out, status>>

ReadIf == Sees("if") /\ DoReadIf(Holds(Here.c), Cond(Holds(Here.c)))

ReadIfdef == Sees("ifdef") /\ DoReadIf(Here.m \in macros, Cond(Here.m \in macros))

\* tok->count == 2: the macro is the third token of the file
FirstLine == \A p \in 1 .. Top.pos - 1 : Lines[p].d = "blank"

ReadIfndef ==
    /\ Sees("ifndef")
    /\ LET istrue == Here.m \notin macros
       IN  DoReadIf(istrue, IF FirstLine
                            THEN [Cond(istrue) EXCEPT !.guard = Here.m,
                                                      !.file = Top.id]
                            ELSE Cond(istrue))

LastCond(ci) == conds' = [conds EXCEPT ![Len(conds)] = ci]

ReadElse ==
    /\ Sees("else") /\ conds # << >> /\ Last(conds).ctx # "else"
    /\ LastCond([Last(conds) EXCEPT !.ctx = "else", !.guard = NONE])
    /\ IF Last(conds).wastrue THEN StartSkip ELSE UNCHANGED skipping
    /\ Read
    /\ UNCHANGED <<program, opened, known, out, status>>

\* mutant: a taken #elif not remembered
ReadElifForget ==
    /\ Sees("elif") /\ conds # << >> /\ Last(conds).ctx # "else"
    /\ LET taken == ~ Last(conds).wastrue /\ Holds(Here.c)
       IN  /\ LastCond([Last(conds) EXCEPT !.ctx = "elif", !.guard = NONE])
           /\ IF taken THEN UNCHANGED skipping ELSE StartSkip
    /\ Read
    /\ UNCHANGED <<program, opened, known, out, status>>

ReadElif ==
    /\ Sees("elif") /\ conds # << >> /\ Last(conds).ctx # "else"
    /\ LET taken == ~ Last(conds).wastrue /\ Holds(Here.c)
       IN  /\ LastCond([Last(conds) EXCEPT !.ctx = "elif", !.guard = NONE,
                                           !.wastrue = @ \/ taken])
           /\ IF taken THEN UNCHANGED skipping ELSE StartSkip
    /\ Read
    /\ UNCHANGED <<program, opened, known, out, status>>

\* The token after #endif and its newlines comes from another file (or is EOF).
LastLine == \A p \in Top.pos + 1 .. Len(Lines) : Lines[p].d = "blank"

SetGuard(path, m) ==
    includeGuard' = [q \in DOMAIN includeGuard \cup {path} |->
                        IF q = path THEN m ELSE includeGuard[q]]

\* mutant: text after the #endif not looked for
ReadEndifEager ==
    /\ Sees("endif") /\ conds # << >>
    /\ LET ci == Last(conds)
       IN  IF ci.guard # NONE /\ ci.file = Top.id
           THEN SetGuard(Top.name, ci.guard) ELSE UNCHANGED includeGuard
    /\ conds' = Front(conds)
    /\ Read
    /\ UNCHANGED <<program, opened, skipping, macros, once, guardFlag, out,
                   status>>

ReadEndif ==
    /\ Sees("endif") /\ conds # << >>
    /\ LET ci == Last(conds)
       IN  IF ci.guard # NONE /\ ci.file = Top.id /\ LastLine
           THEN SetGuard(Top.name, ci.guard) ELSE UNCHANGED includeGuard
    /\ conds' = Front(conds)
    /\ Read
    /\ UNCHANGED <<program, opened, skipping, macros, once, guardFlag, out,
                   status>>

\* stray #else, #elif, #endif; #else or #elif after #else
ReadStray == /\ Running /\ Ends(Here.d)
             /\ conds # << >> => Here.d # "endif" /\ Last(conds).ctx = "else"
             /\ Fail

-----------------------------------------------------------------------------
(* Macros: which are defined is all the directives ask *)
ReadDefine == /\ Sees("define")
              /\ macros' = macros \cup {Here.m}
              /\ Read
              /\ UNCHANGED <<program, opened, conds, skipping, includeGuard,
                             once, guardFlag, out, status>>

ReadUndef == /\ Sees("undef")
             /\ macros' = macros \ {Here.m}
             /\ Read
             /\ UNCHANGED <<program, opened, conds, skipping, includeGuard,
                            once, guardFlag, out, status>>

-----------------------------------------------------------------------------
(* #include, #import, #include_next *)

InDir(dir) == <<dir, Here.f>>
Std == [n \in 1 .. Len(StdPath) |-> InDir(StdPath[n])]

\* #include_next: the search goes on after the directory of the current file;
\* when the current file is in none of them, nothing is left to try.
After(path) == IF \E n \in DOMAIN Std : Std[n] = path
               THEN SubSeq(Std, 1 + CHOOSE n \in DOMAIN Std :
                                      /\ Std[n] = path
                                      /\ \A k \in 1 .. n - 1 : Std[k] # path,
                           Len(Std))
               ELSE << >>

\* The paths tried, in order.  The name of the current file is the one #line
\* gave it, if one did.
Candidates == CASE Here.how = "abs"                       -> <<InDir("/")>>
                [] Here.how # "abs" /\ Here.d = "include_next"
                                                  -> After(Top.name)
                [] Here.how = "quote" /\ Here.d # "include_next"
                                                  -> <<InDir(Top.name[1])>> \o Std
                [] Here.how = "angle" /\ Here.d # "include_next" -> Std

Guarded(path) == /\ path \in DOMAIN includeGuard
                 /\ includeGuard[path] \in macros

Exists(path) == path \in DOMAIN program

\* try_include() answers true
Settles(path) == path \in once \/ Guarded(path) \/ Exists(path)

Tried == {n \in DOMAIN Candidates : \A k \in 1 .. n - 1 : ~ Settles(Candidates[k])}
Settled == {n \in Tried : Settles(Candidates[n])}

\* __8cc_include_guard is set for every path that `once' does not settle.
FlagAfter == LET asked == {n \in Tried : Candidates[n] \notin once}
             IN  IF asked = {} THEN guardFlag
                 ELSE Guarded(Candidates[Max(asked)])

IncludeOp == Running /\ Here.d \in {"include", "import", "include_next"}

\* Settled by `once' or by a guard: the file is not opened.
IncludeAgain ==
    /\ IncludeOp
    /\ \E n \in Settled : Candidates[n] \in once \/ Guarded(Candidates[n])
    /\ guardFlag' = FlagAfter
    /\ Read
    /\ UNCHANGED <<program, opened, conds, skipping, macros, includeGuard, once,
                   out, status>>

IncludeFile ==
    /\ IncludeOp /\ Len(files) < MaxFiles
    /\ \E n \in Settled :
          LET path == Candidates[n]
          IN  /\ path \notin once /\ ~ Guarded(path)
              /\ files' = Append(NextLine, Open(path))
              /\ once' = IF Here.d = "import" THEN once \cup {path} ELSE once
    /\ opened' = opened + 1
    /\ guardFlag' = FlagAfter
    /\ UNCHANGED <<program, conds, skipping, macros, includeGuard, out, status>>

IncludeFail == IncludeOp /\ Settled = {} /\ Fail

-----------------------------------------------------------------------------
(* #pragma once, #line and line markers, #error and what is not a directive *)

\* mutant: the file not recorded
PragmaOnceIgnored ==
    /\ Sees("once") /\ Read
    /\ UNCHANGED <<program, opened, conds, skipping, known, out, status>>

PragmaOnce == /\ Sees("once")
              /\ once' = once \cup {Top.name}
              /\ Read
              /\ UNCHANGED <<program, opened, conds, skipping, macros,
                             includeGuard, guardFlag, out, status>>

ReadLine == /\ Sees("line")
            /\ files' = [NextLine EXCEPT ![Len(files)].name = Here.to]
            /\ UNCHANGED <<program, opened, conds, skipping, known, out, status>>

ReadError == Running /\ Here.d \in {"error", "quote"} /\ Fail

-----------------------------------------------------------------------------
Directive == \/ ReadIf \/ ReadIfdef \/ ReadIfndef \/ ReadElse \/ ReadElif
             \/ ReadEndif \/ ReadStray \/ ReadDefine \/ ReadUndef
             \/ IncludeAgain \/ IncludeFile \/ IncludeFail
             \/ PragmaOnce \/ ReadLine \/ ReadError

Next == PopFile \/ Finish \/ Text \/ SkipStop \/ SkipLine \/ Directive

Spec     == Init /\ [][Next]_vars
FairSpec == Spec /\ WF_vars(Next)

-----------------------------------------------------------------------------
TypeOK == /\ \A n \in DOMAIN files :
                /\ files[n].path \in DOMAIN program
                /\ files[n].pos \in 1 .. Len(program[files[n].path]) + 1
                /\ files[n].id \in 0 .. opened - 1
          /\ files # << >> /\ Len(files) <= MaxFiles
          /\ opened \in Nat
          /\ \A n \in DOMAIN conds :
                conds[n] \in [ctx : {"then", "elif", "else"}, wastrue : BOOLEAN,
                              guard : Macro \cup {NONE}, file : Nat]
          /\ skipping \in {NONE} \cup [nest : Nat, quoted : BOOLEAN]
          /\ macros \subseteq Macro
          /\ \A path \in DOMAIN includeGuard : includeGuard[path] \in Macro
          /\ guardFlag \in BOOLEAN \cup {NONE}
          /\ status \in {"run", "error", "done"}

Opens(d) == d \in {"if", "ifdef", "ifndef"}

\* Of the first n lines of a file: how many have an unpaired apostrophe, and how
\* many, not between two of those, open a conditional or close one.
Quotes(f, n) == Cardinality({k \in 1 .. n : f[k].d = "quote"})
Plain(f, k)  == Quotes(f, k - 1) % 2 = 0
Opened(f, n) == Cardinality({k \in 1 .. n : Plain(f, k) /\ Opens(f[k].d)})
Closed(f, n) == Cardinality({k \in 1 .. n : Plain(f, k) /\ f[k].d = "endif"})

\* In a program of one file, well-formed or not: the conditionals open on the
\* stack and those counted by the skip are, together, the ones its lines opened
\* and did not close.  (A skip that meets the end of the input just ends, and
\* nothing is said of the #if without #endif.)
DepthCounts ==
    LET skipped == IF skipping = NONE THEN 0 ELSE skipping.nest
    IN  status = "run" /\ opened = 1 =>
        Len(conds) + skipped = Opened(Lines, Top.pos - 1) - Closed(Lines, Top.pos - 1)

\* Each #else, #elif and #endif of the file belongs to an #if of the file, and
\* each #if has an #endif.
Balanced(f) == /\ \A n \in DOMAIN f : Plain(f, n) /\ Ends(f[n].d)
                                       => Opened(f, n - 1) > Closed(f, n - 1)
               /\ Opened(f, Len(f)) = Closed(f, Len(f))

\* Where the conditionals of every file are balanced, a skip ends in the file
\* it began in, although readc goes on in the including file: no part of that
\* one is taken for the rest of an excluded group of the header.
NoSkipAcrossFiles == skipping # NONE /\ AtEof
                        => \E path \in DOMAIN program : ~ Balanced(program[path])
=============================================================================
