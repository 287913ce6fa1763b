----------------------------- MODULE PreprocRef -----------------------------
(***************************************************************************)
(* What C11 6.10.1 and 6.10.2 say a preprocessor does with a program, line   *)
(* by line, and the properties that hold the engine of Preproc against it.   *)
(* The reference reads every line of every file it includes, each time,      *)
(* unless #pragma once or #import forbids it: it skips nothing, and include  *)
(* guards are only macros to it.  It refuses what the standard does not      *)
(* define, what it forbids, and #line.                                       *)
(***************************************************************************)
EXTENDS Preproc

CONSTANT MaxRead        \* bound on the lines the reference reads

ASSUME MaxReadAssumption == MaxRead \in Nat

\* A group of an if-section: is it included (on), was one of its section included
\* before it or is it itself (taken), is it the #else group, and is an apostrophe
\* of its text unpaired so far.
Section(on, taken, last) == [on |-> on, taken |-> taken, last |-> last, quoted |-> FALSE]

\* The reference: the files being read, each with the number of sections open around
\* it; the sections; the macros; the files not to be read again; the files read so
\* far, and was one of them imported (met); the text; and "reading", "done" or "refused".
Start(path, defined, forbidden, text) ==
    [files |-> << [path |-> path, pos |-> 1, below |-> 0] >>, sections |-> << >>,
     macros |-> defined, once |-> forbidden, seen |-> {path}, met |-> FALSE,
     out |-> text, status |-> "reading"]

Refuse(c) == [c EXCEPT !.status = "refused"]
\* the cursor on the next line
Ahead(f) == [f EXCEPT !.pos = @ + 1]
Past(c)  == [c EXCEPT !.files = Append(Front(@), Ahead(Last(@)))]

\* Are all the groups around the line included, are all but the innermost?
Included(s)  == s = << >> \/ Last(s).on
Enclosing(s) == Included(Front(s))
InQuotes(s)  == s # << >> /\ Last(s).quoted

Selected(l, defined) ==
    CASE l.d \in {"if", "elif"} -> IF l.c \in BOOLEAN THEN l.c ELSE l.c \in defined
      [] l.d = "ifdef"          -> l.m \in defined
      [] l.d = "ifndef"         -> l.m \notin defined
      [] l.d = "else"           -> TRUE

\* #if, #ifdef, #ifndef: in a group that is not included only the nesting counts
OpenSection(l, c) ==
    LET on == Included(c.sections) /\ Selected(l, c.macros)
    IN  [Past(c) EXCEPT !.sections = Append(@, Section(on, on, FALSE))]

\* #elif and #else of a section whose lines are read
NextGroup(l, c) ==
    LET g  == Last(c.sections)
        on == ~ g.taken /\ Selected(l, c.macros)
    IN  [Past(c) EXCEPT !.sections =
                           Append(Front(@), Section(on, g.taken \/ on, l.d = "else"))]

EndOrNext(l, c) ==
    CASE Len(c.sections) = Last(c.files).below -> Refuse(c)
      [] Len(c.sections) # Last(c.files).below /\ l.d = "endif" ->
           [Past(c) EXCEPT !.sections = Front(@)]
      [] OTHER -> IF ~ Enclosing(c.sections) THEN Past(c)
                  ELSE IF Last(c.sections).last THEN Refuse(c) ELSE NextGroup(l, c)

\* The paths an #include line of the file at path asks for, in order; the one found is
\* the first that exists.
Asked(path, l) ==
    LET std   == [n \in 1 .. Len(StdPath) |-> <<StdPath[n], l.f>>]
        after == SelectInSeq(std, LAMBDA p : p = path)
    IN  CASE l.how = "abs" -> <<<<"/", l.f>>>>
          [] l.how # "abs" /\ l.d = "include_next" ->
               IF after = 0 THEN << >> ELSE SubSeq(std, after + 1, Len(std))
          [] l.how = "quote" /\ l.d # "include_next" -> <<<<path[1], l.f>>>> \o std
          [] l.how = "angle" /\ l.d # "include_next" -> std
Found(disk, asked) ==
    {asked[n] : n \in {k \in DOMAIN asked : /\ asked[k] \in DOMAIN disk
                                            /\ \A i \in 1 .. k - 1 : asked[i] \notin DOMAIN disk}}

\* Reading a file begins; what #import means for one read before is nowhere said, but for
\* the files that come after it.
Enter(p, l, c) ==
    LET imported == l.d = "import"
    IN  [Past(c) EXCEPT !.files = Append(@, [path |-> p, pos |-> 1, below |-> Len(c.sections)]),
                        !.once = IF imported THEN @ \cup {p} ELSE @,
                        !.met = @ \/ (imported /\ p \in c.seen),
                        !.seen = @ \cup {p}]
Include(disk, l, c) ==
    LET found == Found(disk, Asked(Last(c.files).path, l))
        p == CHOOSE p \in found : TRUE
    IN  CASE found = {} -> Refuse(c)
          [] found # {} /\ p \in c.once -> Past(c)
          [] OTHER -> Enter(p, l, c)

\* A line of an included group
Effect(disk, l, c) ==
    LET f == Last(c.files)
    IN  CASE l.d = "text" -> [Past(c) EXCEPT !.out = Append(@, <<f.path, f.pos>>)]
          [] l.d = "blank" -> Past(c)
          [] l.d = "define" -> [Past(c) EXCEPT !.macros = @ \cup {l.m}]
          [] l.d = "undef" -> IF c.met THEN Refuse(c)
                              ELSE [Past(c) EXCEPT !.macros = @ \ {l.m}]
          [] l.d = "once" -> [Past(c) EXCEPT !.once = @ \cup {f.path}]
          [] l.d \in {"include", "import", "include_next"} -> Include(disk, l, c)
          [] OTHER -> Refuse(c)

\* A line of a group that is not included: its apostrophes pair up
Pair(g) == [g EXCEPT !.quoted = ~ @]
Ignore(l, c) ==
    IF l.d # "quote" THEN Past(c)
    ELSE [Past(c) EXCEPT !.sections = Append(Front(@), Pair(Last(@)))]

Line(disk, l, c) ==
    CASE (Opens(l.d) \/ Ends(l.d)) /\ InQuotes(c.sections) -> Refuse(c)
      [] Opens(l.d) /\ ~ InQuotes(c.sections) -> OpenSection(l, c)
      [] Ends(l.d) /\ ~ InQuotes(c.sections) -> EndOrNext(l, c)
      [] OTHER -> IF Included(c.sections) THEN Effect(disk, l, c) ELSE Ignore(l, c)

\* Each section ends in the file it begins in.
EndFile(c) == CASE Len(c.sections) # Last(c.files).below -> Refuse(c)
                [] Len(c.sections) = Last(c.files).below /\ Len(c.files) > 1 ->
                     [c EXCEPT !.files = Front(@)]
                [] OTHER -> [c EXCEPT !.status = "done"]

Step(disk, c) ==
    LET f == Last(c.files)
    IN  CASE c.status # "reading" -> c
          [] c.status = "reading" /\ f.pos > Len(disk[f.path]) -> EndFile(c)
          [] OTHER -> Line(disk, disk[f.path][f.pos], c)

\* The reference after n steps
Run(disk, c, n) == LET run[k \in Nat] == IF k = 0 THEN c ELSE Step(disk, run[k - 1])
                   IN  run[n]

-----------------------------------------------------------------------------
Reference == Run(program, Start(Main, {}, {}, << >>), MaxRead)
Conforms  == Reference.status = "done"

\* The text that reaches the parser is the text the standard selects, in its
\* order, and no conforming program is refused: the skipping, the flags of
\* the conditionals, the guard and once shortcuts leave no trace in the output.
Agrees == Conforms =>
            /\ status # "error"
            /\ status = "done" => out = Reference.out /\ macros = Reference.macros
                                  /\ conds = << >>

\* What reading the file at p would change: nothing, if it is read, each line once,
\* to its end.
ReadingChangesNothing(p) ==
    LET before == Start(p, macros, once, out)
        n == Len(program[p])
    IN  Run(program, before, n + 1)
          = [before EXCEPT !.files[1].pos = n + 1, !.status = "done"]

\* When an #include is settled by a recorded guard, reading the file would have
\* changed nothing (cpp.c:594-596).
GuardIsTransparent ==
    [][ IncludeAgain /\ Conforms =>
          \A n \in Settled : LET p == Candidates[n]
                             IN  p \notin once /\ Exists(p) => ReadingChangesNothing(p) ]_vars

\* Preprocessing ends, self-inclusion through guards included.
Ending == Conforms => <>(status = "done")
=============================================================================
