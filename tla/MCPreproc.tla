----------------------------- MODULE MCPreproc ------------------------------
(***************************************************************************)
(* Main files are all the well-formed sequences of up to N lines over a     *)
(* small alphabet; they include a header h, found in the directory sys,     *)
(* whose text is one of a list chosen for the guard and once rules.  Beside *)
(* them are files of any lines, well-formed or not.                         *)
(***************************************************************************)
EXTENDS PreprocRef, TLC

CONSTANTS N, G, U

text  == [d |-> "text"]
blank == [d |-> "blank"]
quote == [d |-> "quote"]
else  == [d |-> "else"]
endif == [d |-> "endif"]
ifdef(m)  == [d |-> "ifdef", m |-> m]
ifndef(m) == [d |-> "ifndef", m |-> m]
elif(c)   == [d |-> "elif", c |-> c]
if(c)     == [d |-> "if", c |-> c]
define(m) == [d |-> "define", m |-> m]
undef(m)  == [d |-> "undef", m |-> m]
include(f) == [d |-> "include", f |-> f, how |-> "quote"]
sysinclude(f) == [d |-> "include", f |-> f, how |-> "angle"]
import(f)  == [d |-> "import", f |-> f, how |-> "angle"]
includenext(f) == [d |-> "include_next", f |-> f, how |-> "angle"]
absinclude(f) == [d |-> "include", f |-> f, how |-> "abs"]
pragmaonce == [d |-> "once"]
line(p)    == [d |-> "line", to |-> p]
error      == [d |-> "error"]

MCMain == <<"src", "main">>
MCStd  == <<"sys", "alt">>
H      == <<"sys", "h">>
HAlt   == <<"alt", "h">>

\* Well-formed groups of at most n lines
RECURSIVE Groups(_, _), Rest(_, _)
Groups(n, plain) ==
    {<< >>}
    \cup (IF n < 1 THEN {} ELSE {<<l>> \o g : l \in plain, g \in Groups(n - 1, plain)})
    \cup (IF n < 2 THEN {}
          ELSE UNION {{<<o>> \o r : o \in {ifdef(G), ifndef(G)},
                                    r \in Rest(n - 1, plain)}})
\* ... what follows an #if line: groups, #elif, #else, #endif and more lines
Rest(n, plain) ==
    IF n < 1 THEN {}
    ELSE UNION {{g \o <<endif>> \o t : t \in Groups(n - 1 - Len(g), plain)}
                \cup (IF n - Len(g) < 2 THEN {}
                      ELSE {g \o <<else>> \o e \o <<endif>> :
                               e \in Groups(n - 2 - Len(g), plain)}
                           \cup {g \o <<elif(c)>> \o e :
                                    c \in {TRUE, U}, e \in Rest(n - 1 - Len(g), plain)}) :
                g \in Groups(n - 1, plain)}

Mains == Groups(N, {text, sysinclude("h"), undef(G)})

Headers == {
    << ifndef(G), define(G), text, endif >>,
    << blank, ifndef(G), define(G), text, endif, blank >>,
    << ifndef(G), define(G), else, text, endif >>,
    << ifndef(G), define(G), elif(TRUE), text, endif >>,
    << ifndef(G), define(G), text, endif, text >>,
    << text, ifndef(G), define(G), endif >>,
    << ifndef(G), endif, ifndef(U), text, endif >>,
    << ifndef(G), define(G), sysinclude("h"), if(FALSE), text, elif(G), text,
       endif, endif >>,
    << pragmaonce, define(G), include("h"), text >>,
    << ifndef(G), define(G), text, includenext("h"), endif >> }

Disk(m, h) == MCMain :> m @@ H :> h @@ HAlt :> << text >>

WellFormed == {Disk(m, h) : m \in Mains, h \in Headers}

\* Two headers of one name, found through different lines of the main file.
Includes == {include("h"), sysinclude("h"), import("h"), absinclude("h")}
Guards   == {<< text >>, << pragmaonce, text >>,
             << ifndef(G), define(G), text, endif >>}
Searched == {MCMain :> << a, b, c >> @@ <<"src", "h">> :> q @@ H :> h
                @@ <<"/", "h">> :> << text, sysinclude("h") >> :
                a \in Includes, b \in Includes \cup {undef(G)}, c \in Includes,
                q \in Guards, h \in Guards}

\* Apostrophes of prose in an excluded group, two of them: one alone is taken for a
\* char constant that runs over the #endif (lex.c:192).
Prose == {Disk(<< ifdef(G), quote >> \o t \o << quote, endif, text >>, << text >>) :
             t \in BoundedSeq({text, blank, define(G)}, 2)}

Accepted == WellFormed \cup Searched \cup Prose

\* What NoSkipAcrossFiles says of balanced files, it says of all of these.
ASSUME AcceptedAssumption == \A p \in Accepted : \A path \in DOMAIN p : Balanced(p[path])

\* Any lines at all, and an #include of nothing.
AnyLines == {MCMain :> m :
                m \in BoundedSeq({text, ifdef(G), if(TRUE), if(FALSE), elif(TRUE),
                                  else, endif}, 5)
                      \cup BoundedSeq({ifndef(G), if(U), define(G), else, endif,
                                       include("h"), error, line(H)}, 4)}

MCPrograms == Accepted \cup AnyLines

\* The reference accepts all of these, and reads each within the bound.
ASSUME ConformingAssumption ==
    \A p \in Accepted : Run(p, Start(Main, {}, {}, << >>), MaxRead).status = "done"
=============================================================================
