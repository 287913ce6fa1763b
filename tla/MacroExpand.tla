---------------------------- MODULE MacroExpand -----------------------------
(***************************************************************************)
(* The macro expander of cpp.c and the token buffers of lex.c under it:     *)
(* read_expand, the reading of arguments, subst with # and ##, hide sets,   *)
(* and the parser, which reads tokens and gives some of them back.          *)
(*                                                                          *)
(* A token is [k, s, hs]: its kind, its spelling and its hide set.  Kinds    *)
(* are "id", whose spelling is a sequence of names (so that pasting is       *)
(* concatenation), "str" and "num" for results of # and of special macros,   *)
(* punctuators, "nl" for a newline and "eof".  A macro is [kind, params, va, *)
(* body]; an identifier of the body that is one of params is what the code   *)
(* keeps as TMACRO_PARAM.  Spaces and directives inside arguments are left   *)
(* out: `macros' does not change.                                            *)
(*                                                                          *)
(* `calls' holds the nested calls the expander is in: "args" reads the       *)
(* arguments of a macro call, "peek" looks for the `)' of an empty list,     *)
(* "subst" is in a body and "all" expands one argument.                      *)
(***************************************************************************)
EXTENDS Integers, Sequences, FiniteSets, SequencesExt

CONSTANTS Programs      \* set of [macros, text, back]: macros by name, tokens,
                        \* and how many tokens the parser gives back at once
CONSTANT MaxBack        \* bound on how often it does

IsToken(t)   == t = [k |-> t.k, s |-> t.s, hs |-> t.hs] /\ t.k # "eof"
IsTokens(ts) == ts \in Seq(Range(ts)) /\ \A t \in Range(ts) : IsToken(t)

IsMacroDef(m) == /\ m.kind \in {"obj", "func", "special"}
                 /\ m.params \in Seq(Range(m.params))
                 /\ m.kind # "func" => m.params = << >>
                 /\ IsTokens(m.body)

ASSUME MacroAssumption ==
    /\ MaxBack \in Nat
    /\ \A p \in Programs : /\ p.back \in Nat /\ IsTokens(p.text)
                           /\ \A s \in DOMAIN p.macros : IsMacroDef(p.macros[s])

VARIABLES macros, back, \* of the program
          buffers,      \* lex.c's token buffers, the next token first; the
                        \* first one ends with what is left of the file
          calls,        \* the calls the expander is in
          out,          \* the tokens the parser has
          phase,        \* "read", "end" or "error" (the compiler exits)
          nback

vars == <<macros, back, buffers, calls, out, phase, nback>>

Fresh(k, s) == [k |-> k, s |-> s, hs |-> {}]
Eof         == Fresh("eof", << >>)

Init == \E p \in Programs : /\ macros = p.macros /\ back = p.back
                            /\ buffers = <<p.text>>
                            /\ calls = << >> /\ out = << >>
                            /\ phase = "read" /\ nback = 0

-----------------------------------------------------------------------------
(* lex(): the top buffer; a stashed argument ends with EOF *)
Buf  == Last(buffers)
Tok  == IF Buf = << >> THEN Eof ELSE Head(Buf)
Rest == IF Buf = << >> THEN << >> ELSE Tail(Buf)

Ahead(ts) == buffers' = Append(Front(buffers), ts)
Frame     == Last(calls)
Within(f) == calls' = Append(Front(calls), f)
InCall(k) == phase = "read" /\ calls # << >> /\ Frame.k = k

Error == /\ phase' = "error"
         /\ UNCHANGED <<macros, back, buffers, calls, out, nback>>

-----------------------------------------------------------------------------
(* read_expand *)
Expanding  == phase = "read" /\ (calls # << >> => Frame.k \in {"all", "peek"})
Macro      == macros[Tok.s]
IsMacro(t) == t.k = "id" /\ t.s \in DOMAIN macros

Expandable == IsMacro(Tok) /\ Tok.s \notin Tok.hs

\* next('(')
Called   == Len(Buf) > 1 /\ Buf[2].k = "("

\* The next token is the result as it is.
Plain == /\ Tok.k # "nl"
         /\ Expandable => Macro.kind = "func" /\ ~ Called

SkipNewline == /\ Expanding /\ Tok.k = "nl"
               /\ Ahead(Rest)
               /\ UNCHANGED <<macros, back, calls, out, phase, nback>>

\* The parser gets the token.
ReadToken == /\ Expanding /\ calls = << >> /\ Plain
             /\ Ahead(Rest)
             /\ IF Tok.k = "eof" THEN phase' = "end" /\ UNCHANGED out
                ELSE out' = Append(out, Tok) /\ UNCHANGED phase
             /\ UNCHANGED <<macros, back, calls, nback>>

\* The parser gets it and gives it back, alone or with tokens it had before:
\* peek() in parse.c gives back one, other callers of unget_token more.
PeekToken ==
    /\ Expanding /\ calls = << >> /\ Plain /\ nback < MaxBack
    /\ \E n \in 1 .. back :
         LET read == IF Tok.k = "eof" THEN out ELSE Append(out, Tok)
         IN  /\ n <= Len(read)
             /\ Ahead(SubSeq(read, Len(read) - n + 1, Len(read)) \o Rest)
             /\ out' = SubSeq(read, 1, Len(read) - n)
    /\ nback' = nback + 1
    /\ UNCHANGED <<macros, back, calls, phase>>

Subst(m, args, hs) == [k |-> "subst", m |-> m, args |-> args, hs |-> hs,
                       i |-> 1, r |-> << >>]

ExpandObj == /\ Expanding /\ Expandable /\ Macro.kind = "obj"
             /\ Ahead(Rest)
             /\ calls' = Append(calls, Subst(Macro, << >>, Tok.hs \cup {Tok.s}))
             /\ UNCHANGED <<macros, back, out, phase, nback>>

\* __LINE__ and its like: make_token_pushback
ExpandSpecial == /\ Expanding /\ Expandable /\ Macro.kind = "special"
                 /\ Ahead(<<[k |-> "num", s |-> << >>, hs |-> Tok.hs]>> \o Rest)
                 /\ UNCHANGED <<macros, back, calls, out, phase, nback>>

OpenCall == /\ Expanding /\ Expandable /\ Macro.kind = "func" /\ Called
            /\ Ahead(Tail(Rest))
            /\ LET opened == Append(calls, [k |-> "args", name |-> Tok, args |-> << >>,
                                           arg |-> << >>, level |-> 0])
               IN  calls' = IF Macro.params = << >> THEN Append(opened, [k |-> "peek"])
                            ELSE opened
            /\ UNCHANGED <<macros, back, out, phase, nback>>

-----------------------------------------------------------------------------
(* read_args, do_read_args, read_one_arg *)
Named == macros[Frame.name.s]

\* mutant: the hide set of the `)' not used
HideOfName(name, rparen) == name.hs \cup {name.s}

HideOfCall(name, rparen) == (name.hs \cap rparen.hs) \cup {name.s}

\* The argument list is complete; rparen is read.
Enter(f, args, below) ==
    /\ Ahead(Rest)
    /\ calls' = Append(below, Subst(macros[f.name.s], args,
                                    HideOfCall(f.name, Tok)))
    /\ UNCHANGED <<macros, back, out, phase, nback>>

\* A macro without parameters: peek_token() expands what comes before the `)'.
\* Here the call is the only one below "peek".
PeekParen ==
    /\ InCall("peek") /\ Plain
    /\ IF Tok.k = ")"
       THEN Enter(Last(Front(calls)), << >>, Front(Front(calls)))
       ELSE /\ calls' = Front(calls)
            /\ UNCHANGED <<macros, back, buffers, out, phase, nback>>

\* mutant: an argument list without end is read for ever
ArgEofIgnored == /\ InCall("args") /\ Tok.k = "eof"
                 /\ Ahead(Rest)
                 /\ UNCHANGED <<macros, back, calls, out, phase, nback>>

ArgEof == InCall("args") /\ Tok.k = "eof" /\ Error

ArgNewline == /\ InCall("args") /\ Tok.k = "nl"
              /\ Ahead(Rest)
              /\ UNCHANGED <<macros, back, calls, out, phase, nback>>

InEllipsis == Named.va /\ Len(Frame.args) + 1 = Len(Named.params)
Separates  == Frame.level = 0 /\ (Tok.k = ")" \/ (Tok.k = "," /\ ~ InEllipsis))

ArgComma == /\ InCall("args") /\ Separates /\ Tok.k = ","
            /\ Ahead(Rest)
            /\ Within([Frame EXCEPT !.args = Append(@, Frame.arg), !.arg = << >>])
            /\ UNCHANGED <<macros, back, out, phase, nback>>

ArgEnd ==
    /\ InCall("args") /\ Separates /\ Tok.k = ")"
    /\ LET given == Append(Frame.args, Frame.arg)
           args  == IF Named.va /\ Len(given) = Len(Named.params) - 1
                    THEN Append(given, << >>) ELSE given
       IN  IF Len(args) # Len(Named.params) THEN Error
           ELSE Enter(Frame, args, Front(calls))

Nesting == CASE Tok.k = "(" -> 1 [] Tok.k = ")" -> -1 [] OTHER -> 0

ArgToken == /\ InCall("args") /\ Tok.k \notin {"eof", "nl"} /\ ~ Separates
            /\ Ahead(Rest)
            /\ Within([Frame EXCEPT !.arg = Append(@, Tok),
                                    !.level = @ + Nesting])
            /\ UNCHANGED <<macros, back, out, phase, nback>>

ReadArgs == PeekParen \/ ArgEof \/ ArgNewline \/ ArgComma \/ ArgEnd \/ ArgToken

-----------------------------------------------------------------------------
(* subst: one token of the body, with the one after it *)
At(n)       == n <= Len(Frame.m.body)
T(n)        == Frame.m.body[n]
IsParam(t)  == t.k = "id" /\ t.s \in Range(Frame.m.params)
Arg(t)      == Frame.args[CHOOSE n \in DOMAIN Frame.m.params :
                             Frame.m.params[n] = t.s]
IsVararg(t) == Frame.m.va /\ t.s = Last(Frame.m.params)
T0          == T(Frame.i)
T1          == T(Frame.i + 1)
HasT1       == At(Frame.i + 1)
In          == InCall("subst") /\ At(Frame.i)

\* n tokens of the body done: r so far, and the hide set from here on
Done(n, r, hs) == /\ Within([Frame EXCEPT !.i = @ + n, !.r = r, !.hs = hs])
                  /\ UNCHANGED <<macros, back, buffers, out, phase, nback>>

\* glue_tokens: other pairs than identifiers are no token, or assert in vec_pop
Glues(r, t) == r # << >> /\ Last(r).k = "id" /\ t.k = "id"
Glue(r, t)  == Append(Front(r), Fresh("id", Last(r).s \o t.s))
GlueOr(n, r, t, rest, hs) == IF Glues(r, t) THEN Done(n, Glue(r, t) \o rest, hs)
                             ELSE Error

IsStringize == T0.k = "#" /\ HasT1 /\ IsParam(T1)
IsPasteArg  == T0.k = "##" /\ HasT1 /\ IsParam(T1)
IsPaste     == T0.k = "##" /\ HasT1 /\ ~ IsParam(T1)
IsPasted    == IsParam(T0) /\ HasT1 /\ T1.k = "##"

Spelling(t) == <<t.k, t.s>>

Stringize == /\ In /\ IsStringize
             /\ Done(2, Append(Frame.r, Fresh("str", [n \in DOMAIN Arg(T1) |->
                                                        Spelling(Arg(T1)[n])])),
                     Frame.hs)

\* [GNU] , ## __VA_ARGS__
PasteArg ==
    /\ In /\ IsPasteArg
    /\ LET arg == Arg(T1)
           r   == Frame.r
       IN  IF IsVararg(T1) /\ r # << >> /\ Last(r).k = ","
           THEN Done(2, IF arg = << >> THEN Front(r) ELSE r \o arg, Frame.hs)
           ELSE IF arg = << >> THEN Done(2, r, Frame.hs)
           ELSE GlueOr(2, r, Head(arg), Tail(arg), Frame.hs)

\* The hide set of the ## or of its operand, empty both, replaces that of the call.
Paste == In /\ IsPaste /\ GlueOr(2, Frame.r, T1, << >>, T1.hs)

Pasted == /\ In /\ IsPasted
          /\ IF Arg(T0) = << >> THEN Done(2, Frame.r, T1.hs)
             ELSE Done(1, Frame.r \o Arg(T0), T1.hs)

\* expand_all: the argument becomes a stashed buffer
OpenArg == /\ In /\ IsParam(T0) /\ ~ IsPasted
           /\ buffers' = Append(buffers, Arg(T0))
           /\ calls' = Append(calls, [k |-> "all", r |-> << >>])
           /\ UNCHANGED <<macros, back, out, phase, nback>>

CollectArg == /\ InCall("all") /\ Plain /\ Tok.k # "eof"
              /\ Ahead(Rest)
              /\ Within([Frame EXCEPT !.r = Append(@, Tok)])
              /\ UNCHANGED <<macros, back, out, phase, nback>>

BackInBody(r) == calls' = Append(Front(Front(calls)),
                                 [Last(Front(calls)) EXCEPT !.i = @ + 1, !.r = @ \o r])

\* mutant: the buffer of the argument left stashed
CloseArgStashed ==
    /\ InCall("all") /\ Plain /\ Tok.k = "eof"
    /\ BackInBody(Frame.r)
    /\ UNCHANGED <<macros, back, buffers, out, phase, nback>>

CloseArg == /\ InCall("all") /\ Plain /\ Tok.k = "eof"
            /\ buffers' = Front(buffers)
            /\ BackInBody(Frame.r)
            /\ UNCHANGED <<macros, back, out, phase, nback>>

Copy == /\ In /\ ~ IsStringize /\ ~ IsPasteArg /\ ~ IsPaste /\ ~ IsParam(T0)
        /\ Done(1, Append(Frame.r, T0), Frame.hs)

\* add_hide_set and unget_all
Rescan == /\ InCall("subst") /\ ~ At(Frame.i)
          /\ Ahead([n \in DOMAIN Frame.r |->
                      [Frame.r[n] EXCEPT !.hs = @ \cup Frame.hs]] \o Buf)
          /\ calls' = Front(calls)
          /\ UNCHANGED <<macros, back, out, phase, nback>>

Substitute == \/ Stringize \/ PasteArg \/ Paste \/ Pasted \/ OpenArg
              \/ CollectArg \/ CloseArg \/ Copy \/ Rescan

-----------------------------------------------------------------------------
Expand == \/ SkipNewline \/ ReadToken \/ PeekToken \/ ExpandObj
          \/ ExpandSpecial \/ OpenCall

Next == Expand \/ ReadArgs \/ Substitute

Spec     == Init /\ [][Next]_vars
FairSpec == Spec /\ WF_vars(Next)

-----------------------------------------------------------------------------
(* The calls of the expander and what they work on *)
IsArgs(as) == as \in Seq(Range(as)) /\ \A a \in Range(as) : IsTokens(a)

IsArgsCall(c) ==
    /\ c = [k |-> "args", name |-> c.name, args |-> c.args, arg |-> c.arg,
            level |-> c.level]
    /\ IsMacro(c.name) /\ IsToken(c.name) /\ macros[c.name.s].kind = "func"
    /\ IsArgs(c.args) /\ IsTokens(c.arg) /\ c.level \in Nat

\* A body is substituted with an argument for each parameter.
IsSubst(c) ==
    /\ c = [k |-> "subst", m |-> c.m, args |-> c.args, hs |-> c.hs, i |-> c.i,
            r |-> c.r]
    /\ c.m \in Range(macros)
    /\ IsArgs(c.args) /\ Len(c.args) = Len(c.m.params)
    /\ c.i \in 1 .. Len(c.m.body) + 1 /\ IsTokens(c.r)

\* `below' is the call that c returns to.
IsPeek(c, below) == /\ c = [k |-> "peek"]
                    /\ below.k = "args" /\ below.args = << >>
                    /\ macros[below.name.s].params = << >>
IsAll(c, below)  == /\ c = [k |-> "all", r |-> c.r] /\ IsTokens(c.r)
                    /\ below.k = "subst" /\ below.i <= Len(below.m.body)

IsCall(c, below) == /\ c.k \in {"args", "subst", "peek", "all"}
                    /\ c.k = "args"  => IsArgsCall(c)
                    /\ c.k = "subst" => IsSubst(c)
                    /\ c.k = "peek"  => IsPeek(c, below)
                    /\ c.k = "all"   => IsAll(c, below)

Below(n) == IF n = 1 THEN [k |-> "parser"] ELSE calls[n - 1]

\* Every call is one its function was entered with, and there is one stashed
\* buffer for each argument being expanded; the EOF that ends such a buffer
\* stays in it.
TypeOK == /\ phase \in {"read", "end", "error"}
          /\ nback \in 0 .. MaxBack
          /\ \A s \in DOMAIN macros : IsMacroDef(macros[s])
          /\ calls \in Seq(Range(calls))
          /\ \A n \in DOMAIN calls : IsCall(calls[n], Below(n))
          /\ buffers \in Seq(Range(buffers))
          /\ \A b \in Range(buffers) : IsTokens(b)
          /\ Len(buffers) = 1 + Cardinality({n \in DOMAIN calls : calls[n].k = "all"})
          /\ IsTokens(out) /\ \A t \in Range(out) : t.k # "nl"
=============================================================================
