------------------------------ MODULE LexerRef ------------------------------
(***************************************************************************)
(* What a text means, read from the whole of it: spliced lines are joined     *)
(* first, a token is the longest spelling of one, and a string is decoded from *)
(* a table.  The lexer sees one character at a time and gives some back.       *)
(***************************************************************************)
EXTENDS Lexer

CONSTANT Known           \* code points and their bytes: utf8, utf16 and utf32

ASSUME KnownAssumption == \A x \in DOMAIN Known : IsValidUcn(x)

LargestIn(S) == CHOOSE x \in S : \A y \in S : y <= x
LeastIn(S)   == CHOOSE x \in S : \A y \in S : x <= y

-----------------------------------------------------------------------------
(* Logical characters *)
Normal(text) ==
    LET n == FlattenSeq([i \in DOMAIN text |->
                 CASE text[i] = CR /\ i < Len(text) /\ text[i + 1] = NL -> << >>
                   [] text[i] = CR -> <<NL>>
                   [] OTHER -> <<text[i]>>])
    IN  IF n # << >> /\ Last(n) = NL THEN n ELSE Append(n, NL)

Spliced(t, i) == i \in 1 .. Len(t) - 1 /\ t[i] = "\\" /\ t[i + 1] = NL
\* the places of t that are left once its lines are spliced
Places(t) == SelectSeq([i \in DOMAIN t |-> i], LAMBDA i : ~ Spliced(t, i) /\ ~ Spliced(t, i - 1))

LineColumn(t, i) ==
    LET breaks == {j \in 1 .. i - 1 : t[j] = NL}
    IN  <<1 + Cardinality(breaks), i - LargestIn(breaks \cup {0})>>

-----------------------------------------------------------------------------
(* Escapes, and the bytes they stand for *)
Digits(e, i) == Len(e) >= i /\ \A j \in i .. Len(e) : Hex(e[j]) # NONE
Number(e, i, base) == FoldLeft(LAMBDA n, c : base * n + Hex(c), 0, SubSeq(e, i, Len(e)))
IsUcn(e) == /\ Len(e) > 2 /\ e[1] = "\\" /\ Digits(e, 3)
            /\ (e[2] = "u" /\ Len(e) = 6) \/ (e[2] = "U" /\ Len(e) = 10)
            /\ IsValidUcn(Number(e, 3, 16)) /\ Number(e, 3, 16) <= 1114111
IsEscape(e) ==
    /\ Len(e) > 1 /\ e[1] = "\\"
    /\ \/ Len(e) = 2 /\ e[2] \notin {"x", "u", "U"}
       \/ Len(e) < 5 /\ \A j \in 2 .. Len(e) : IsOctal(e[j])
       \/ e[2] = "x" /\ Digits(e, 3)
       \/ IsUcn(e)
ValueOf(e) == CASE Len(e) = 1 -> Byte(e[1])
                [] e[1] = "\\" /\ e[2] \in {"x", "u", "U"} -> Number(e, 3, 16)
                [] IsOctal(e[2]) -> Number(e, 2, 8)
                [] e[2] \in DOMAIN SimpleEscapes -> SimpleEscapes[e[2]]
                [] OTHER -> Byte(e[2])
BytesOf(e) == IF IsUcn(e) THEN Known[ValueOf(e)].utf8 ELSE <<ValueOf(e) % 256>>

\* A text as characters and escapes, the longest first; << >> stands for a bad one.
RECURSIVE Elements(_)
Elements(w) ==
    LET n == IF w[1] # "\\" THEN 1
             ELSE LargestIn({0} \cup {m \in DOMAIN w : IsEscape(SubSeq(w, 1, m))})
    IN  CASE w = << >> -> << >>
          [] w # << >> /\ n = 0 -> << << >> >>
          [] OTHER -> <<SubSeq(w, 1, n)>> \o Elements(SubSeq(w, n + 1, Len(w)))
Bytes(w) == LET es == Elements(w) IN FlattenSeq([i \in DOMAIN es |-> BytesOf(es[i])])

-----------------------------------------------------------------------------
(* The spellings of a token *)
IsLetter(c) == IsAlpha(c) \/ c \in {"_", "$"} \/ Byte(c) > 127
IsIdent(w) ==
    /\ IsLetter(w[1])
    /\ \A e \in Range(Elements(w)) : IsUcn(e) \/ (Len(e) = 1 /\ (IsLetter(e[1]) \/ IsDigit(e[1])))
IsNumber(w) == /\ IsDigit(w[1]) \/ (Len(w) > 1 /\ w[1] = "." /\ IsDigit(w[2]))
               /\ \A i \in 2 .. Len(w) :
                    \/ IsDigit(w[i]) \/ IsAlpha(w[i]) \/ w[i] \in {".", "_"}
                    \/ w[i] \in {"+", "-"} /\ w[i - 1] \in {"e", "E", "p", "P"}

PrefixOf(w) == CASE w[1] = "u" /\ Len(w) > 1 /\ w[2] = "8" -> "u8"
                 [] w[1] \in {"L", "U", "u"} -> w[1]
                 [] OTHER -> ""
BodyOf(w) == SubSeq(w, Len(PrefixOf(w)) + 2, Len(w) - 1)
IsLiteral(w, quote) ==
    LET n == Len(PrefixOf(w))
    IN  /\ Len(w) >= n + 2 /\ w[n + 1] = quote /\ Last(w) = quote
        /\ {<< >>, <<quote>>} \cap Range(Elements(BodyOf(w))) = {}
IsString(w)    == IsLiteral(w, "\"")
IsCharacter(w) == IsLiteral(w, "'") /\ PrefixOf(w) # "u8" /\ Len(Elements(BodyOf(w))) = 1

Spellings ==
    ("++" :> {<<"+", "+">>}) @@ ("+=" :> {<<"+", "=">>}) @@ ("*=" :> {<<"*", "=">>})
    @@ ("--" :> {<<"-", "-">>}) @@ ("-=" :> {<<"-", "=">>}) @@ ("->" :> {<<"-", ">">>})
    @@ ("==" :> {<<"=", "=">>}) @@ ("!=" :> {<<"!", "=">>}) @@ ("/=" :> {<<"/", "=">>})
    @@ ("&&" :> {<<"&", "&">>}) @@ ("&=" :> {<<"&", "=">>}) @@ ("^=" :> {<<"^", "=">>})
    @@ ("||" :> {<<"|", "|">>}) @@ ("|=" :> {<<"|", "=">>}) @@ ("%=" :> {<<"%", "=">>})
    @@ ("<=" :> {<<"<", "=">>}) @@ ("<<" :> {<<"<", "<">>}) @@ ("<<=" :> {<<"<", "<", "=">>})
    @@ (">=" :> {<<">", "=">>}) @@ (">>" :> {<<">", ">">>}) @@ (">>=" :> {<<">", ">", "=">>})
    @@ ("..." :> {<<".", ".", ".">>}) @@ ("[" :> {<<"[">>, <<"<", ":">>})
    @@ ("]" :> {<<"]">>, <<":", ">">>}) @@ ("{" :> {<<"{">>, <<"<", "%">>})
    @@ ("}" :> {<<"}">>, <<"%", ">">>}) @@ ("#" :> {<<"#">>, <<"%", ":">>})
    @@ ("##" :> {<<"#", "#">>, <<"%", ":", "%", ":">>})
    @@ [p \in {"(", ")", ",", ";", "?", "~", ":", "+", "*", "=", "!", "&", "|", "^", "/", "-",
               "<", ">", "%", "."} |-> {<<p>>}]
Named(w) == {p \in DOMAIN Spellings : w \in Spellings[p]}

IsToken(w) == IsIdent(w) \/ IsNumber(w) \/ IsString(w) \/ IsCharacter(w) \/ Named(w) # {}
Meaning(w) ==
    CASE IsIdent(w) -> [k |-> "id", v |-> Bytes(w)]
      [] IsNumber(w) -> [k |-> "num", v |-> [i \in DOMAIN w |-> Byte(w[i])]]
      [] IsString(w) -> [k |-> "str", v |-> <<PrefixOf(w), Append(Bytes(BodyOf(w)), 0)>>]
      [] IsCharacter(w) -> [k |-> "char", v |-> <<PrefixOf(w),
             LET x == ValueOf(BodyOf(w)) IN IF PrefixOf(w) = "" THEN Char(x) ELSE x>>]
      [] Named(w) # {} -> [k |-> "kw", v |-> CHOOSE p \in Named(w) : TRUE]
      [] OTHER -> [k |-> "invalid", v |-> w[1]]

-----------------------------------------------------------------------------
(* The tokens of a text, each with its first and last character *)
Item(t, space, i, j) == <<[tok |-> t, space |-> space, first |-> i, last |-> j]>>

RECURSIVE Scan(_, _, _)
\* After the longest token that begins at i, of those that end in fits.  A name breaks
\* off at a bad universal character, and never ends where the text does.
ScanToken(w, i, space, fits) ==
    LET j == LargestIn(fits \cup {i})
        named == IsIdent(SubSeq(w, i, j))
        broken == j + 2 <= Len(w) /\ w[j + 1] = "\\" /\ w[j + 2] \in {"u", "U"}
    IN  CASE \/ fits = {} /\ w[i] \in {"\"", "'"}
             \/ named /\ broken -> Item(Failed, space, i, i)
          [] named /\ j = Len(w) -> Item([k |-> "endless", v |-> << >>], space, i, i)
          [] OTHER -> Item(Meaning(SubSeq(w, i, j)), space, i, j) \o Scan(w, j + 1, FALSE)
\* after the comment that opens at i, if it ends
ScanComment(w, i, space, ends) ==
    IF ends = {} THEN Item(Failed, space, i, i) ELSE Scan(w, LeastIn(ends) + 2, TRUE)
Scan(w, i, space) ==
    LET Opens(c) == w[i] = "/" /\ i < Len(w) /\ w[i + 1] = c
    IN  CASE i > Len(w) -> Item([k |-> "eof", v |-> << >>], space, i, i)
          [] i <= Len(w) /\ w[i] = NL ->
               Item([k |-> "newline", v |-> << >>], space, i, i) \o Scan(w, i + 1, FALSE)
          [] i <= Len(w) /\ IsSpace(w[i]) -> Scan(w, i + 1, TRUE)
          [] i <= Len(w) /\ Opens("/") ->
               Scan(w, LeastIn({n \in i .. Len(w) : w[n] = NL} \cup {Len(w) + 1}), TRUE)
          [] i <= Len(w) /\ Opens("*") ->
               ScanComment(w, i, space, {j \in i + 2 .. Len(w) - 1 : w[j] = "*" /\ w[j + 1] = "/"})
          [] OTHER -> ScanToken(w, i, space, {j \in i .. Len(w) : IsToken(SubSeq(w, i, j))})

\* In a directive the name that opens at i, and what follows it
NameItems(w, i, close) ==
    LET ends == {j \in i + 1 .. Len(w) : w[j] = close /\ NL \notin Range(SubSeq(w, i, j))}
        name(j) == [n \in 1 .. j - i - 1 |-> Byte(w[i + n])]
    IN  IF ends = {} \/ LeastIn(ends) = i + 1 THEN Item(Failed, FALSE, i, i)
        ELSE LET j == LeastIn(ends)
             IN  Item([k |-> "name", v |-> <<close, name(j)>>], FALSE, i, j) \o Scan(w, j + 1, FALSE)
\* the items of a directive: its third is a name, or there is none and a token without
\* the spaces before it
Naming(w, items) ==
    LET named == program.named /\ Len(items) > 2
        i == items[3].first
        c == IF i > Len(w) THEN NL ELSE w[i]
    IN  CASE ~ named \/ (c = "/" /\ items[3].tok.k = "error") -> items
          [] named /\ c \in {"\"", "<"} ->
               SubSeq(items, 1, 2) \o NameItems(w, i, IF c = "<" THEN ">" ELSE c)
          [] OTHER -> SubSeq(items, 1, 2) \o Item([k |-> "none", v |-> << >>], FALSE, i, i - 1)
                      \o [SubSeq(items, 3, Len(items)) EXCEPT ![1].space = FALSE]

\* The tokens items of the logical text w, whose characters are at the places p of t,
\* as lex() marks them.  Two marks are not kept: the place of a slash, a percent sign
\* or a backslash whose lookahead crossed the end of its line, and the bol of a token
\* that a spliced line alone separates from the one before it.
Marks(t, p, w, items) ==
    LET Broken(i) == Spliced(t, p[i] + 1)
        IsMarked(x) == x.tok.k \notin Static \cup {"error", "endless", "name", "none"}
    IN  [n \in DOMAIN items |->
          LET x == items[n]
              first == n = 1 \/ items[n - 1].tok.k = "newline"
          IN  [k |-> x.tok.k, v |-> x.tok.v, space |-> x.space,
               place |-> IF IsMarked(x) THEN LineColumn(t, p[x.first]) ELSE <<0, 0>>,
               placed |-> IsMarked(x) /\ ~ (w[x.first] \in {"/", "%", "\\"}
                                             /\ (Broken(x.first) \/ t[p[x.first] + 1] = NL)),
               bol |-> first,
               sure |-> IsMarked(x) /\ ~ (~ first /\ Broken(items[n - 1].last))]]
LogicalMarks(t, p, w) == Marks(t, p, w, Naming(w, Scan(w, 1, FALSE)))
Unspliced(t, p) == LogicalMarks(t, p, [i \in DOMAIN p |-> t[p[i]]])
ExpectedIn(t)   == Unspliced(t, Places(t))
Expected(text)  == ExpectedIn(Normal(text))

\* the header's tokens after the newline at which it was included
Spread(main, header) == IF Last(header).k = "error" THEN SubSeq(main, 1, at) \o header
                        ELSE SubSeq(main, 1, at) \o Front(header) \o SubSeq(main, at + 1, Len(main))
\* A header whose last line ends in a splice goes on in the line after the #include,
\* which C11 5.1.1.2p2 leaves open: one text, no place or bol of which is judged.
EndsSpliced(t) == Spliced(t, Len(t) - 1)
Behind(t, p, k) == LET items == Scan([i \in DOMAIN p |-> t[p[i]]], 1, FALSE)
                   IN  SubSeq(t, p[items[k].last] + 1, Len(t))
Unjudged(items) == [n \in DOMAIN items |-> [items[n] EXCEPT !.placed = FALSE, !.sure = FALSE]]
Joined(main, header) ==
    SubSeq(Expected(program.text), 1, at)
    \o Unjudged(ExpectedIn(header \o Behind(main, Places(main), at)))
Whole == CASE at = NONE -> Expected(program.text)
           [] at # NONE /\ EndsSpliced(Normal(program.header)) ->
                Joined(Normal(program.text), Normal(program.header))
           [] OTHER -> Spread(Expected(program.text), Expected(program.header))

Stopped == phase \in {"done", "error", "endless"}
\* each token read before the last, the end or the error, and the one expected for it
EachOf(w, Same(_, _)) == \A i \in 1 .. Len(tokens) - 1 : Same(tokens[i], w[i])
Each(Same(_, _)) == EachOf(Whole, Same)

-----------------------------------------------------------------------------
(* Properties *)

\* A token has a kind the lexer makes, and a pushed back character a file to go to;
\* a char constant without a prefix has the value of a signed char (lex.c:370).
TypeOK ==
    /\ phase \in {"lexing", "done", "error", "endless", "pasting", "pasted"}
    /\ Len(stream.files) \in 1 .. 2 /\ spaced \subseteq Static
    /\ \A i \in DOMAIN tokens :
         /\ tokens[i].k \in {"id", "num", "str", "char", "kw", "newline", "eof", "invalid", "error", "endless", "space", "name", "none"}
         /\ tokens[i].k = "char" /\ tokens[i].v[1] = "" => tokens[i].v[2] \in -128 .. 127

AgreesWith(w) ==
    /\ phase = CASE Last(w).k = "eof" -> "done" [] OTHER -> Last(w).k
    /\ IF phase = "error" THEN Len(tokens) - 1 <= Len(w) ELSE Len(tokens) = Len(w)
    /\ EachOf(w, LAMBDA t, x : t.k = x.k /\ t.v = x.v
                             /\ t.k \notin Static \cup {"name", "none"} => t.space = x.space)

\* The lexer, which reads a character at a time and gives back at most what it looked
\* ahead, reads the longest tokens of the spliced text to its end, fails where it has
\* none, and loops only in a name that a splice leaves at the end of the text
\* (lex.c:403).  An included file is read between two lines; the last one of it
\* continues in the file around it if it ends in a splice (readc, file.c:98), and
\* nothing else joins.  The space of the static tokens is not compared: it stays set
\* (lex.c:661), and nothing reads it.
Agrees == Stopped => AgreesWith(Whole)

IsPaste(t, e) ==
    IF Len(e) = 3 /\ e[1].k # "newline" /\ ~ e[1].space THEN t.k = e[1].k /\ t.v = e[1].v
    ELSE t.k = IF e[1].k = "newline" /\ e[1].space THEN "space" ELSE "error"

\* What ## glues is one token, or the compiler stops (glue_tokens, lex_string).
PastesOne == phase = "pasted" => IsPaste(tokens[1], Expected(program.paste))

\* However the lookaheads nest, no more than the three characters of File.buf are given
\* back (the assertion of unreadc, file.c:118).
PushbackFits == stream.deepest <= 3

\* A token carries the line and the column its first character has in the file, however
\* often that was given back (mark, get and unreadc count them up and down).
Positions == Stopped => Each(LAMBDA t, x : x.placed => t.place = x.place)

\* A token is marked as the first of its line exactly where a logical line begins, so
\* that a # there, and no other, is a directive (read_expand, cpp.c).
Directives == Stopped => Each(LAMBDA t, x : x.sure => t.bol = x.bol)

\* The code points of bytes in UTF-8, by the table
RECURSIVE Points(_)
Points(b) ==
    LET x == CHOOSE x \in DOMAIN Known : IsPrefix(Known[x].utf8, b)
        ascii == b[1] < 128
    IN  IF b = << >> THEN << >>
        ELSE <<IF ascii THEN b[1] ELSE x>>
             \o Points(SubSeq(b, IF ascii THEN 2 ELSE Len(Known[x].utf8) + 1, Len(b)))
Wide(b, enc) == FlattenSeq([i \in DOMAIN Points(b) |->
    LET x == Points(b)[i]
    IN  CASE x < 128 /\ enc = "u" -> <<x, 0>>
          [] x < 128 /\ enc # "u" -> <<x, 0, 0, 0>>
          [] x >= 128 /\ enc = "u" -> Known[x].utf16
          [] OTHER -> Known[x].utf32])

\* The strings a line consists of become one literal: the text of all of them and one
\* zero, in the encoding one of them names; two encodings do not mix
\* (concatenate_string, ast_string, to_utf16 and to_utf32).
Decodes ==
    phase = "done" /\ (\A i \in DOMAIN tokens : tokens[i].k \in {"str", "newline", "eof"})
        /\ tokens[1].k = "str" =>
      LET strings == SelectSeq(tokens, LAMBDA t : t.k = "str")
          encs == {strings[i].v[1] : i \in DOMAIN strings} \ {""}
          text == FlattenSeq([i \in DOMAIN strings |-> Front(strings[i].v[2])]) \o <<0>>
      IN  AstString(strings) =
            CASE Cardinality(encs) > 1 -> << >>
              [] encs \subseteq {"u8"} -> text
              [] OTHER -> Wide(text, CHOOSE e \in encs : TRUE)
=============================================================================
