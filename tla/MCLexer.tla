------------------------------ MODULE MCLexer -------------------------------
EXTENDS LexerRef

\* Bytes above 127 are named by their value.
MCCode ==
    LET ascii == <<"!", "\"", "#", "$", "%", "&", "'", "(", ")", "*", "+", ",", "-", ".", "/",
                   "0", "1", "2", "3", "4", "5", "6", "7", "8", "9", ":", ";", "<", "=", ">", "?">>
        upper == <<"A", "B", "C", "D", "E", "F", "L", "U">>
        lower == <<"a", "b", "c", "d", "e", "f">>
        high  == (194 :> "xC2") @@ (160 :> "xA0") @@ (195 :> "xC3") @@ (169 :> "xA9")
                 @@ (240 :> "xF0") @@ (159 :> "x9F") @@ (152 :> "x98") @@ (128 :> "x80")
    IN  [c \in {ascii[i] : i \in DOMAIN ascii} |-> 32 + CHOOSE i \in DOMAIN ascii : ascii[i] = c]
        @@ [c \in {lower[i] : i \in DOMAIN lower} |-> 96 + CHOOSE i \in DOMAIN lower : lower[i] = c]
        @@ [c \in {upper[i] : i \in 1 .. 6} |-> 64 + CHOOSE i \in DOMAIN upper : upper[i] = c]
        @@ [c \in {high[b] : b \in DOMAIN high} |-> CHOOSE b \in DOMAIN high : high[b] = c]
        @@ ("L" :> 76) @@ ("U" :> 85) @@ ("n" :> 110) @@ ("u" :> 117) @@ ("x" :> 120) @@ ("|" :> 124)
        @@ ("\\" :> 92) @@ ("^" :> 94) @@ ("_" :> 95) @@ ("~" :> 126) @@ (" " :> 32)
        @@ (NL :> 10) @@ (CR :> 13)

\* The ends of the ranges of one, two, three and four bytes, and a few between.
MCKnown ==
    (36 :> [utf8 |-> <<36>>, utf16 |-> <<36, 0>>, utf32 |-> <<36, 0, 0, 0>>])
    @@ (160 :> [utf8 |-> <<194, 160>>, utf16 |-> <<160, 0>>, utf32 |-> <<160, 0, 0, 0>>])
    @@ (233 :> [utf8 |-> <<195, 169>>, utf16 |-> <<233, 0>>, utf32 |-> <<233, 0, 0, 0>>])
    @@ (2047 :> [utf8 |-> <<223, 191>>, utf16 |-> <<255, 7>>, utf32 |-> <<255, 7, 0, 0>>])
    @@ (2048 :> [utf8 |-> <<224, 160, 128>>, utf16 |-> <<0, 8>>, utf32 |-> <<0, 8, 0, 0>>])
    @@ (65535 :> [utf8 |-> <<239, 191, 191>>, utf16 |-> <<255, 255>>, utf32 |-> <<255, 255, 0, 0>>])
    @@ (65536 :> [utf8 |-> <<240, 144, 128, 128>>, utf16 |-> <<0, 216, 0, 220>>, utf32 |-> <<0, 0, 1, 0>>])
    @@ (128512 :> [utf8 |-> <<240, 159, 152, 128>>, utf16 |-> <<61, 216, 0, 222>>, utf32 |-> <<0, 246, 1, 0>>])
    @@ (1114111 :> [utf8 |-> <<244, 143, 191, 191>>, utf16 |-> <<255, 219, 255, 223>>,
                    utf32 |-> <<255, 255, 16, 0>>])

Texts(S, n) == UNION {[1 .. m -> S] : m \in 0 .. n}
Logical(t) == LET n == Normal(t) p == Places(n) IN [i \in DOMAIN p |-> n[p[i]]]

\* Left out: two dots (one token, a name, for this lexer), an empty char constant, and
\* a backslash left at the end of a line by a splice (given back with the newline, it
\* splices again).
Usual(t) ==
    LET w == Logical(t)
    IN  /\ \A i \in 1 .. Len(w) - 1 :
             SubSeq(w, i, i + 1) = <<".", ".">> => \E j \in {i - 1, i} \cap 1 .. Len(w) - 2 : SubSeq(w, j, j + 2) = <<".", ".", ".">>
        /\ \A i \in 1 .. Len(w) - 1 : SubSeq(w, i, i + 1) # <<"\\", NL>>
        /\ \A i \in 1 .. Len(w) - 2 : SubSeq(w, i, i + 2) # <<"'", "'", "'">>

Chars(t) == [text |-> t, header |-> NONE, paste |-> NONE, named |-> FALSE]
Every(S, n) == {Chars(t) : t \in {t \in Texts(S, n) : Usual(t)}}
Enclosed(q, S, n) == {Chars(<<q>> \o t \o <<q>>) : t \in {t \in Texts(S, n) : Usual(<<q>> \o t \o <<q>>)}}

\* Universal characters and bytes, in names and in strings of every prefix
Digits8 == {<<"0", "0", "0", "0", "0", "0", "2", "4">>, <<"0", "0", "0", "0", "0", "0", "A", "0">>,
            <<"0", "0", "0", "0", "0", "7", "F", "f">>, <<"0", "0", "0", "0", "0", "8", "0", "0">>,
            <<"0", "0", "0", "0", "F", "F", "F", "F">>, <<"0", "0", "0", "1", "0", "0", "0", "0">>,
            <<"0", "0", "0", "1", "F", "6", "0", "0">>, <<"0", "0", "1", "0", "F", "F", "F", "F">>}
Ucns == {<<"\\", "U">> \o d : d \in Digits8} \cup {<<"\\", "u", "0", "0", "e", "9">>}
BadUcns == {<<"\\", "u", "d", "8", "0", "0">>, <<"\\", "u", "0", "0", "2", "5">>,
            <<"\\", "u", "0", "x">>, <<"\\", "u", "0", "0", "9", "F">>,
            <<"\\", "U", "0", "0", "2", "0", "0", "0", "0", "0">>}
Raw == {<<"xC3", "xA9">>, <<"xC2", "xA0">>, <<"xF0", "x9F", "x98", "x80">>, <<"a">>, <<"\\", "0">>}
Encodings == {<< >>, <<"L">>, <<"U">>, <<"u">>, <<"u", "8">>}
Quoted(p, body) == p \o <<"\"">> \o body \o <<"\"">>
Wides == {Chars(<<"a">> \o u \o v) : u \in Ucns, v \in Ucns \cup BadUcns \cup {<<"1">>, <<"+">>}}
         \cup {Chars(Quoted(p, u \o r)) : p \in Encodings, u \in Ucns \cup BadUcns, r \in Raw}
         \cup {Chars(p \o <<"'">> \o u \o <<"'">>) : p \in Encodings \ {<<"u", "8">>},
                                                     u \in Ucns \cup {<<"\\", "x", "e", "9">>, <<"xA9">>}}
Adjacent == {Chars(Quoted(p, u) \o s \o Quoted(q, r)) :
                p \in Encodings, q \in Encodings, s \in {<< >>, <<" ">>, <<NL>>},
                u \in {<< >>, <<"a">>, <<"\\", "u", "0", "0", "e", "9">>}, r \in {<< >>, <<"xC3", "xA9">>}}

\* A header may end in a splice, but not in a backslash before it.
Headers == {h \in Texts({"a", "+", NL, "\\"}, 3) : Logical(h) # << >> => Last(Logical(h)) # "\\"}
Included == {[text |-> t, header |-> h, paste |-> NONE, named |-> FALSE] :
                t \in {t \in Texts({"a", NL, "+"}, 3) : NL \in Range(t)}, h \in Headers}

Spelled == {<<"+">>, <<"=">>, <<"+", "+">>, <<"-">>, <<">">>, <<">", ">">>, <<"#">>, <<"/">>, <<"%">>, <<":">>,
            <<"%", ":">>, <<"*">>, <<"a">>, <<"L">>, <<"1">>, <<"1", "e">>, <<".", ".", ".">>,
            <<"'", "a", "'">>, <<"\"", "a", "\"">>}
Pasted == {[text |-> << >>, header |-> NONE, paste |-> a \o b, named |-> FALSE] : a \in Spelled, b \in Spelled}

\* An #include; its word is one letter.
Names == {[Chars(<<"#", "a">> \o t) EXCEPT !.named = TRUE] :
             t \in {t \in Texts({"<", ">", "\"", "/", "*", " ", "a", "\\", NL}, 4) : Usual(<<"#", "a">> \o t)}}

MCPrograms ==
    <<Every({"/", "*", "a", "\\", NL}, 5),
      Every({"%", ":", ">", "\\", NL}, 5),
      Every({"#", "a", " ", "/", "\\", NL}, 4),
      Every({"<", "=", ">", "-", ":", "%"}, 4),
      Every({"+", "=", "&", "|", "!", "^"}, 3),
      Every({".", "1", "e", "+"}, 4),
      Every({"u", "8", "L", "\"", "'"}, 4),
      Every({"a", CR, NL, "\\"}, 5),
      Enclosed("\"", {"\\", "x", "1", "a", "\""}, 5),
      Enclosed("'", {"\\", "1", "n", "'"}, 5),
      Wides, Adjacent, Included, Pasted, Names>>
=============================================================================
