------------------------------ MODULE MacroRef ------------------------------
(***************************************************************************)
(* The macro expansion algorithm of Dave Prosser's document, which C's       *)
(* 6.10.3 puts in words and cpp.c says its read_expand is, as recursive      *)
(* operators over whole token lists; and the properties that hold the       *)
(* engine of MacroExpand against it.  Newlines are spaces, and [GNU]         *)
(* , ## __VA_ARGS__ is as the comment in subst says.                         *)
(***************************************************************************)
EXTENDS MacroExpand

VARIABLE meant          \* what the algorithm makes of the text

refVars == <<vars, meant>>

\* An ill-formed call; no list with this in it is the meaning of a program.
Bad == Fresh("bad", << >>)

-----------------------------------------------------------------------------
(* The arguments of a call: ts begins after the `(' *)
Count(ts, n, k) == Cardinality({p \in 1 .. n : ts[p].k = k})
Open(ts, n)     == Count(ts, n, "(") - Count(ts, n, ")")
Closes(ts)      == {n \in DOMAIN ts : Open(ts, n) < 0}
End(ts)         == CHOOSE n \in Closes(ts) : \A p \in Closes(ts) : n <= p

\* The places of the commas that separate arguments, and of both ends
Commas(ts)   == {n \in 1 .. End(ts) : ts[n].k = "," /\ Open(ts, n) = 0}
Marks(ts, m) ==
    LET commas == SetToSortSeq(Commas(ts), <)
        used   == IF m.va /\ Len(commas) >= Len(m.params)
                  THEN SubSeq(commas, 1, Len(m.params) - 1) ELSE commas
    IN  <<0>> \o used \o <<End(ts)>>

Actuals(ts, m) ==
    LET marks == Marks(ts, m)
        list  == [n \in 1 .. Len(marks) - 1 |->
                    SubSeq(ts, marks[n] + 1, marks[n + 1] - 1)]
    IN  IF m.params = << >> /\ list = << << >> >> THEN << >>
        ELSE IF m.va /\ Len(list) = Len(m.params) - 1 THEN Append(list, << >>)
        ELSE list

-----------------------------------------------------------------------------
HsAdd(hs, ts) == [n \in DOMAIN ts |-> [ts[n] EXCEPT !.hs = @ \cup hs]]

\* Paste the last of ls and the first of rs.
Pasting(ls, rs) ==
    IF ls = << >> \/ Last(ls).k # "id" \/ Head(rs).k # "id" THEN <<Bad>>
    ELSE Front(ls) \o <<[k |-> "id", s |-> Last(ls).s \o Head(rs).s,
                         hs |-> Last(ls).hs \cap Head(rs).hs]>> \o Tail(rs)

RECURSIVE Prosser(_), Replaced(_, _, _, _, _)

Prosser(ts) ==
    IF ts = << >> THEN << >>
    ELSE LET t == Head(ts)
             m == macros[t.s]
         IN  IF ~ IsMacro(t) \/ t.s \in t.hs THEN <<t>> \o Prosser(Tail(ts))
             ELSE CASE m.kind = "special" ->
                         <<[t EXCEPT !.k = "num", !.s = << >>]>> \o Prosser(Tail(ts))
                    [] m.kind = "obj" ->
                         Prosser(Replaced(m.body, m, << >>, t.hs \cup {t.s}, << >>)
                                 \o Tail(ts))
                    [] m.kind = "func" /\ ~ (Len(ts) > 1 /\ ts[2].k = "(") ->
                         <<t>> \o Prosser(Tail(ts))
                    [] m.kind = "func" /\ Len(ts) > 1 /\ ts[2].k = "(" ->
                         LET after == SubSeq(ts, 3, Len(ts))
                         IN  IF Closes(after) = {} THEN <<Bad>>
                             ELSE LET args == Actuals(after, m)
                                      hs == (t.hs \cap after[End(after)].hs)
                                              \cup {t.s}
                                  IN  IF Len(args) # Len(m.params) THEN <<Bad>>
                                      ELSE Prosser(Replaced(m.body, m, args, hs,
                                                            << >>)
                                                   \o SubSeq(after, End(after) + 1,
                                                             Len(after)))

\* subst(IS, FP, AP, HS, OS) of the document
Replaced(is, m, ap, hs, os) ==
    LET param(n)  == n <= Len(is) /\ is[n].k = "id" /\ is[n].s \in Range(m.params)
        kind(n)   == IF n <= Len(is) THEN is[n].k ELSE "none"
        select(n) == ap[CHOOSE p \in DOMAIN m.params : m.params[p] = is[n].s]
        rest(n)   == SubSeq(is, n, Len(is))
        go(n, o)  == Replaced(rest(n), m, ap, hs, o)
        vararg(n) == m.va /\ is[n].s = Last(m.params)
    IN  CASE is = << >> -> HsAdd(hs, os)
          [] kind(1) = "#" /\ param(2) ->
               go(3, Append(os, Fresh("str", [n \in DOMAIN select(2) |->
                                                 Spelling(select(2)[n])])))
          [] kind(1) = "##" /\ param(2) ->
               IF vararg(2) /\ os # << >> /\ Last(os).k = ","
               THEN go(3, IF select(2) = << >> THEN Front(os)
                          ELSE os \o select(2))
               ELSE go(3, IF select(2) = << >> THEN os
                          ELSE Pasting(os, select(2)))
          [] kind(1) = "##" /\ kind(2) # "none" /\ ~ param(2) ->
               go(3, Pasting(os, <<is[2]>>))
          [] param(1) /\ kind(2) = "##" ->
               IF select(1) # << >> THEN go(2, os \o select(1))
               ELSE IF param(3) THEN go(4, os \o select(3))
               ELSE go(3, os)
          [] param(1) /\ kind(2) # "##" -> go(2, os \o Prosser(select(1)))
          [] OTHER -> go(2, Append(os, is[1]))

-----------------------------------------------------------------------------
RefInit == /\ Init
           /\ meant = Prosser(SelectSeq(buffers[1], LAMBDA t : t.k # "nl"))
RefSpec == RefInit /\ [][Next /\ UNCHANGED meant]_refVars
                   /\ WF_refVars(Next /\ UNCHANGED meant)

Written(ts) == [n \in DOMAIN ts |-> Spelling(ts[n])]
Meaningful  == \A n \in DOMAIN meant : meant[n].k # "bad"

\* The parser gets the tokens the algorithm makes of the text, no others, in
\* their order, and all of them: self-reference stops, arguments are expanded
\* once and apart from the text around them, and neither the buffers in which
\* that happens nor tokens given back leave a trace.
Agrees == Meaningful => /\ phase # "error"
                        /\ IsPrefix(Written(out), Written(meant))
                        /\ phase = "end" => Written(out) = Written(meant)

\* Expansion ends, with an error where the algorithm has no meaning.
Ends == <>(phase # "read")
=============================================================================
