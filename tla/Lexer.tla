------------------------------- MODULE Lexer --------------------------------
(***************************************************************************)
(* Characters to tokens: the stream of file.c, which joins spliced lines,     *)
(* and the lexer of lex.c, one lex() per step.  A character is the string of   *)
(* it, or the name of a byte above 127; Code gives the byte.  A stream s is    *)
(* its stack of files and the largest pushback so far; every reader returns    *)
(* what it read and the stream after it.                                       *)
(***************************************************************************)
EXTENDS Encoding, FiniteSets, TLC

CONSTANTS Programs,      \* records of a text, a header or NONE, a string to paste or NONE,
                         \* and whether the text is a directive with a header name
          Code,          \* the byte of each character
          NL, CR, EOF, NONE

VARIABLES program, stream, tokens, phase, at,
          spaced         \* the static tokens whose space is set

vars == <<program, stream, tokens, phase, at, spaced>>

-----------------------------------------------------------------------------
(* file.c *)
File(text, isString) == [text |-> text, p |-> 1, buf |-> << >>, line |-> 1, column |-> 1,
                         last |-> NONE, isString |-> isString]
Stream(f) == [files |-> <<f>>, deepest |-> 0]
Got(c, s) == [c |-> c, s |-> s]
\* what F makes of what a reader has got
Then(r, F(_, _)) == F(r.c, r.s)
Top(s)    == Last(s.files)
SetTop(s, f) == [s EXCEPT !.files = Append(Front(@), f)]

\* readc_file, readc_string: a text that does not end in a newline gets one
ReadcFile(f) ==
    LET next(n) == [f EXCEPT !.p = @ + n]
        got(c, g) == Got(c, [g EXCEPT !.last = c])
    IN  CASE f.p > Len(f.text) -> got(IF f.last \in {NL, EOF} THEN EOF ELSE NL, f)
          [] f.p <= Len(f.text) /\ f.text[f.p] = CR ->
               got(NL, next(IF f.p < Len(f.text) /\ f.text[f.p + 1] = NL THEN 2 ELSE 1))
          [] OTHER -> got(f.text[f.p], next(1))

FromBuffer(f) == IF f.buf # << >> THEN Got(Last(f.buf), [f EXCEPT !.buf = Front(@)])
                 ELSE ReadcFile(f)

\* mutant: a newline does not start a column
AfterKeepColumn(c, f) ==
    IF c = EOF THEN f
    ELSE [f EXCEPT !.line = @ + (IF c = NL THEN 1 ELSE 0), !.column = @ + 1]

\* the place after a character
After(c, f) == CASE c = NL -> [f EXCEPT !.line = @ + 1, !.column = 1]
                 [] c = EOF -> f
                 [] OTHER -> [f EXCEPT !.column = @ + 1]
Get(s) == Then(FromBuffer(Top(s)), LAMBDA c, f : Got(c, SetTop(s, After(c, f))))

\* mutant: the line of a newline that is given back is not
BackKeepLine(c, f) == IF c = NL THEN [f EXCEPT !.buf = Append(@, c), !.column = 1]
                      ELSE [f EXCEPT !.buf = Append(@, c), !.column = @ - 1]

Back(c, f) == IF c = NL THEN [f EXCEPT !.buf = Append(@, c), !.line = @ - 1, !.column = 1]
              ELSE [f EXCEPT !.buf = Append(@, c), !.column = @ - 1]
Unreadc(c, s) ==
    LET n == Len(Top(s).buf) + 1
    IN  IF c = EOF THEN s
        ELSE [SetTop(s, Back(c, Top(s))) EXCEPT !.deepest = IF n > @ THEN n ELSE @]

RECURSIVE Readc(_)
Readc(s) ==
    Then(Get(s), LAMBDA c, q :
        CASE c = EOF -> IF Len(s.files) = 1 THEN Got(EOF, q)
                        ELSE Readc([q EXCEPT !.files = Front(@)])
          [] c = "\\" -> Then(Get(q), LAMBDA d, t : IF d = NL THEN Readc(t)
                                                   ELSE Got(c, Unreadc(d, t)))
          [] OTHER -> Got(c, q))

Peek(s)    == Then(Readc(s), LAMBDA c, q : Got(c, Unreadc(c, q)))
\* next(): is the next character x?  It is taken only if it is.
Next1(x, s) == Then(Readc(s), LAMBDA c, q : IF c = x THEN Got(TRUE, q)
                                            ELSE Got(FALSE, Unreadc(c, q)))

-----------------------------------------------------------------------------
(* Spaces and comments *)
ByteOf     == Code @@ (EOF :> -1)
Byte(c)    == ByteOf[c]
IsDigit(c) == Byte(c) \in 48 .. 57
IsAlpha(c) == Byte(c) \in 65 .. 90 \cup 97 .. 122
IsSpace(c) == Byte(c) \in {9, 11, 12, 32}
\* the value of a hexadecimal digit; NONE for another character
Hex(c) == CASE IsDigit(c) -> Byte(c) - 48
            [] Byte(c) \in 65 .. 70 -> Byte(c) - 55
            [] Byte(c) \in 97 .. 102 -> Byte(c) - 87
            [] OTHER -> NONE

Failed == [k |-> "error", v |-> << >>]
Tok(k, v, s) == [tok |-> [k |-> k, v |-> v], s |-> s]
Fail(s)      == [tok |-> Failed, s |-> s]

\* mutant: the star that opens a comment may also close it
RECURSIVE SkipBlockEager(_, _)
SkipBlockEager(maybeEnd, s) ==
    Then(Readc(s), LAMBDA c, q :
        CASE c = EOF -> Got(FALSE, q)
          [] c = "/" -> Got(TRUE, q)
          [] OTHER -> SkipBlockEager(c = "*", q))

RECURSIVE SkipBlockComment(_, _), SkipLine(_), SkipSpace(_, _)
SkipBlockComment(maybeEnd, s) ==
    Then(Readc(s), LAMBDA c, q :
        CASE c = EOF -> Got(FALSE, q)
          [] c = "/" /\ maybeEnd -> Got(TRUE, q)
          [] OTHER -> SkipBlockComment(c = "*", q))
SkipLine(s) == Then(Readc(s), LAMBDA c, q : CASE c = EOF -> q
                                              [] c = NL -> Unreadc(NL, q)
                                              [] OTHER -> SkipLine(q))

\* skip_space; ok is FALSE when a comment does not end
Skipped(ok, any, s) == [ok |-> ok, any |-> any, s |-> s]
SkipComment(any, s) ==
    Then(Next1("*", s), LAMBDA star, q :
        IF star
        THEN Then(SkipBlockComment(FALSE, q), LAMBDA ended, t :
                 IF ended THEN SkipSpace(TRUE, t) ELSE Skipped(FALSE, any, t))
        ELSE Then(Next1("/", q), LAMBDA line, t :
                 IF line THEN SkipSpace(TRUE, SkipLine(t))
                 ELSE Skipped(TRUE, any, Unreadc("/", t))))
SkipSpace(any, s) ==
    Then(Readc(s), LAMBDA c, q :
        CASE IsSpace(c) -> SkipSpace(TRUE, q)
          [] c = "/" -> SkipComment(any, q)
          [] OTHER -> Skipped(TRUE, any, Unreadc(c, q)))

-----------------------------------------------------------------------------
(* Numbers, characters, strings and identifiers *)
RECURSIVE ReadNumber(_, _, _)
ReadNumber(spelled, last, s) ==
    Then(Readc(s), LAMBDA c, q :
        IF IsDigit(c) \/ IsAlpha(c) \/ c = "."
           \/ (last \in {"e", "E", "p", "P"} /\ c \in {"+", "-"})
        THEN ReadNumber(Append(spelled, Byte(c)), c, q)
        ELSE Tok("num", spelled, Unreadc(c, q)))

IsOctal(c) == Byte(c) \in 48 .. 55

\* an octal escape has at most `more' further digits
RECURSIVE ReadOctalChar(_, _, _), ReadHexChar(_, _), ReadUniversalChar(_, _, _)
ReadOctalChar(value, more, s) ==
    IF more = 0 THEN Got(value, s)
    ELSE Then(Peek(s), LAMBDA p, q :
             IF ~ IsOctal(p) THEN Got(value, q)
             ELSE Then(Readc(q), LAMBDA c, t : ReadOctalChar(8 * value + Hex(c), more - 1, t)))

ReadHexChar(value, s) ==
    Then(Readc(s), LAMBDA c, q :
        IF Hex(c) = NONE THEN Got(value, Unreadc(c, q))
        ELSE ReadHexChar(IF value = NONE THEN Hex(c) ELSE 16 * value + Hex(c), q))

IsValidUcn(c) == /\ c \notin 55296 .. 57343
                 /\ c >= 160 \/ c \in {36, 64, 96}
ReadUniversalChar(value, more, s) ==
    IF more = 0 THEN Got(IF IsValidUcn(value) THEN value ELSE NONE, s)
    ELSE Then(Readc(s), LAMBDA c, q :
             IF Hex(c) = NONE THEN Got(NONE, q)
             ELSE ReadUniversalChar(16 * value + Hex(c), more - 1, q))

SimpleEscapes == ("a" :> 7) @@ ("b" :> 8) @@ ("f" :> 12) @@ ("n" :> 10) @@ ("r" :> 13)
    @@ ("t" :> 9) @@ ("v" :> 11) @@ ("e" :> 27)

\* The value of an escape after its backslash; NONE stops the compiler.
ReadEscapedChar(s) ==
    Then(Readc(s), LAMBDA c, q :
        CASE c \in DOMAIN SimpleEscapes -> Got(SimpleEscapes[c], q)
          [] c = "x" -> ReadHexChar(NONE, q)
          [] c \in {"u", "U"} -> ReadUniversalChar(0, IF c = "u" THEN 4 ELSE 8, q)
          [] IsOctal(c) -> ReadOctalChar(Hex(c), 2, q)
          [] OTHER -> Got(Byte(c), q))

\* A conversion to char, which is signed; a buffer holds the byte, c % 256.
Char(c) == IF c % 256 > 127 THEN (c % 256) - 256 ELSE c % 256

\* mutant: the value of a char is that of its byte
CharUnsigned(enc, x) == [k |-> "char", v |-> <<enc, x>>]

CharToken(enc, x) == [k |-> "char", v |-> <<enc, IF enc = "" THEN Char(x) ELSE x>>]
ReadChar(enc, s) ==
    Then(Then(Readc(s), LAMBDA c, q : IF c = "\\" THEN ReadEscapedChar(q) ELSE Got(Byte(c), q)),
         LAMBDA x, q : Then(Readc(q), LAMBDA quote, t :
             IF x = NONE \/ quote # "'" THEN Fail(t)
             ELSE [tok |-> CharToken(enc, x), s |-> t]))

\* What an escape adds to a string or a name, p the character after its backslash.  A
\* value write_utf8 has no bytes for stops the compiler, like a bad escape.
EscapeBytes(p, x) == IF p \in {"u", "U"} THEN WriteUtf8(x) ELSE <<x % 256>>
Stops(p, x) == x = NONE \/ EscapeBytes(p, x) = << >>

RECURSIVE ReadString(_, _, _)
ReadString(enc, body, s) ==
    Then(Readc(s), LAMBDA c, q :
        CASE c = EOF -> Fail(q)
          [] c = "\"" -> Tok("str", <<enc, Append(body, 0)>>, q)
          [] c = "\\" -> Then(Peek(q), LAMBDA p, t :
               Then(ReadEscapedChar(t), LAMBDA x, u :
                   IF Stops(p, x) THEN Fail(u) ELSE ReadString(enc, body \o EscapeBytes(p, x), u)))
          [] OTHER -> ReadString(enc, Append(body, Byte(c)), q))

\* Bit 7 of EOF is set: at the end of a file whose last newline is spliced the loop
\* of read_ident does not end.
Endless(s) == [tok |-> [k |-> "endless", v |-> << >>], s |-> s]

RECURSIVE ReadIdent(_, _)
ReadIdent(spelled, s) ==
    Then(Readc(s), LAMBDA c, q :
        CASE c = EOF -> Endless(s)
          [] IsDigit(c) \/ IsAlpha(c) \/ c \in {"_", "$"} \/ Byte(c) > 127 ->
               ReadIdent(Append(spelled, Byte(c)), q)
          [] c = "\\" -> Then(Peek(q), LAMBDA p, t :
               IF p \notin {"u", "U"} THEN Tok("id", spelled, Unreadc(c, t))
               ELSE Then(ReadEscapedChar(t), LAMBDA x, u :
                        IF Stops(p, x) THEN Fail(u)
                        ELSE ReadIdent(spelled \o EscapeBytes(p, x), u)))
          [] OTHER -> Tok("id", spelled, Unreadc(c, q)))

-----------------------------------------------------------------------------
(* Tokens *)
\* What may follow the spelling of a punctuator, in the order it is tried, and what
\* it is then.
Longer ==
    (":" :> << <<">", "]">> >>) @@ ("#" :> << <<"#", "##">> >>)
    @@ ("+" :> << <<"+", "++">>, <<"=", "+=">> >>) @@ ("*" :> << <<"=", "*=">> >>)
    @@ ("=" :> << <<"=", "==">> >>) @@ ("!" :> << <<"=", "!=">> >>)
    @@ ("&" :> << <<"&", "&&">>, <<"=", "&=">> >>)
    @@ ("|" :> << <<"|", "||">>, <<"=", "|=">> >>)
    @@ ("^" :> << <<"=", "^=">> >>) @@ ("/" :> << <<"=", "/=">> >>)
    @@ ("-" :> << <<"-", "--">>, <<">", "->">>, <<"=", "-=">> >>)
    @@ ("<" :> << <<"<", "<<">>, <<"=", "<=">>, <<":", "[">>, <<"%", "{">> >>)
    @@ ("<<" :> << <<"=", "<<=">> >>) @@ (">>" :> << <<"=", ">>=">> >>)
    @@ (">" :> << <<"=", ">=">>, <<">", ">>">> >>)
Alone == {"(", ")", ",", ";", "[", "]", "{", "}", "?", "~"}

RECURSIVE Punctuator(_, _), TryEach(_, _, _)
Punctuator(kw, s) == IF kw \in DOMAIN Longer THEN TryEach(Longer[kw], kw, s) ELSE Tok("kw", kw, s)
TryEach(longer, kw, s) ==
    IF longer = << >> THEN Tok("kw", kw, s)
    ELSE Then(Next1(longer[1][1], s), LAMBDA ok, q :
             IF ok THEN Punctuator(longer[1][2], q) ELSE TryEach(Tail(longer), kw, q))

\* mutant: all of %:% is given back
HashDigraphGiveBack(s) ==
    Then(Next1("%", s), LAMBDA again, q :
        IF ~ again THEN Tok("kw", "#", q)
        ELSE Then(Next1(":", q), LAMBDA twice, t :
                 IF twice THEN Tok("kw", "##", t)
                 ELSE Tok("kw", "%", Unreadc(":", Unreadc("%", t)))))

\* read_hash_digraph, after %:
HashDigraph(s) ==
    Then(Next1("%", s), LAMBDA again, q :
        IF ~ again THEN Tok("kw", "#", q)
        ELSE Then(Next1(":", q), LAMBDA twice, t :
                 IF twice THEN Tok("kw", "##", t) ELSE Tok("kw", "#", Unreadc("%", t))))
Percent(s) ==
    Then(Next1(">", s), LAMBDA brace, q :
        IF brace THEN Tok("kw", "}", q)
        ELSE Then(Next1(":", q), LAMBDA hash, t :
                 IF hash THEN HashDigraph(t)
                 ELSE Then(Next1("=", t), LAMBDA eq, u : Tok("kw", IF eq THEN "%=" ELSE "%", u))))

Dot(s) ==
    Then(Peek(s), LAMBDA p, q :
        IF IsDigit(p) THEN ReadNumber(<<Byte(".")>>, ".", q)
        ELSE Then(Next1(".", q), LAMBDA two, t :
                 IF ~ two THEN Tok("kw", ".", t)
                 ELSE Then(Next1(".", t), LAMBDA three, u :
                          IF three THEN Tok("kw", "...", u)
                          ELSE Tok("id", <<Byte("."), Byte(".")>>, u))))

\* L, U and u: a literal, u8 that of a string only, or an identifier
Utf8String(s) ==
    Then(Next1("8", s), LAMBDA eight, q :
        IF ~ eight THEN ReadIdent(<<Byte("u")>>, q)
        ELSE Then(Next1("\"", q), LAMBDA str, t :
                 IF str THEN ReadString("u8", << >>, t)
                 ELSE ReadIdent(<<Byte("u")>>, Unreadc("8", t))))
Prefixed(c, s) ==
    Then(Next1("\"", s), LAMBDA str, q :
        IF str THEN ReadString(c, << >>, q)
        ELSE Then(Next1("'", q), LAMBDA char, t :
                 CASE char -> ReadChar(c, t)
                   [] ~ char /\ c = "u" -> Utf8String(t)
                   [] OTHER -> ReadIdent(<<Byte(c)>>, t)))

DoReadToken(s) ==
    Then(Readc(s), LAMBDA c, q :
        CASE c = EOF -> Tok("eof", << >>, q)
          [] c = NL -> Tok("newline", << >>, q)
          [] c \in {"L", "U", "u"} -> Prefixed(c, q)
          \* a byte above 127 is negative in a string
          [] \/ IsAlpha(c) /\ c \notin {"L", "U", "u"}
             \/ c \in {"_", "$"}
             \/ Byte(c) \in 128 .. 253 /\ ~ Top(s).isString -> ReadIdent(<<Byte(c)>>, q)
          [] IsDigit(c) -> ReadNumber(<<Byte(c)>>, c, q)
          [] c = "\"" -> ReadString("", << >>, q)
          [] c = "'" -> ReadChar("", q)
          [] c = "." -> Dot(q)
          [] c = "%" -> Percent(q)
          [] c \in DOMAIN Longer \cup Alone -> Punctuator(c, q)
          [] OTHER -> Tok("invalid", c, q))

\* lex(), with the buffers empty: a token is marked with the place it starts at, with
\* whether spaces come before it, and whether the line began there.  The tokens of a
\* newline and of the end are one static token each, with no place: once its space is
\* set it stays.
Static == {"newline", "eof"}
Marked(bol, sp, t) ==
    [t EXCEPT !.tok = [k |-> t.tok.k, v |-> t.tok.v, bol |-> bol,
         space |-> sp.any \/ t.tok.k \in spaced,
         place |-> IF t.tok.k \in Static THEN <<0, 0>>
                   ELSE <<Top(sp.s).line, Top(sp.s).column>>]]
LexAfter(bol, sp) == Marked(bol, sp, IF sp.ok THEN DoReadToken(sp.s) ELSE Fail(sp.s))
LexOne(s) == LexAfter(Top(s).column = 1, SkipSpace(FALSE, s))

\* read_header_file_name: what a #include names, up to the quote that closes it; no
\* character has a meaning there.  Anything else but spaces is left to lex().
RECURSIVE ReadHeaderName(_, _, _)
ReadHeaderName(close, name, s) ==
    Then(Next1(close, s), LAMBDA closed, q :
        CASE closed -> IF name = << >> THEN Fail(q) ELSE Tok("name", <<close, name>>, q)
          [] OTHER -> Then(Readc(q), LAMBDA c, t :
               IF c \in {EOF, NL} THEN Fail(t) ELSE ReadHeaderName(close, Append(name, Byte(c)), t)))
HeaderFileName(s) ==
    Then(Next1("\"", s), LAMBDA quote, q :
        IF quote THEN ReadHeaderName("\"", << >>, q)
        ELSE Then(Next1("<", q), LAMBDA angle, t :
                 IF angle THEN ReadHeaderName(">", << >>, t) ELSE Tok("none", << >>, t)))
NameAfter(sp) == IF sp.ok THEN HeaderFileName(sp.s) ELSE Fail(sp.s)

\* mutant: what follows the token is left unread
OnlyLax(t) == t.tok

\* lex_string: the one token of a string; two slashes are a comment, a space
Only(t) == IF t.tok.k = "error" THEN Failed
           ELSE Then(Next1(NL, t.s), LAMBDA ok, s : IF Peek(s).c # EOF THEN Failed ELSE t.tok)
StringToken(sp) == Only(CASE ~ sp.ok -> Fail(sp.s)
                          [] sp.ok /\ sp.any -> Tok("space", << >>, sp.s)
                          [] OTHER -> DoReadToken(sp.s))
LexString(text) == StringToken(SkipSpace(FALSE, Stream(File(text, TRUE))))

-----------------------------------------------------------------------------
(* What the parser makes of string tokens *)
\* concatenate_string: adjacent strings are one; its encodings, and its bytes
Concatenate(strings) ==
    LET encs == {strings[i].v[1] : i \in DOMAIN strings} \ {""}
    IN  [encs |-> encs,
         body |-> FlattenSeq([i \in DOMAIN strings |-> Front(strings[i].v[2])]) \o <<0>>]

\* ast_string: the bytes of a literal; << >> where the code stops with an error
AstString(strings) ==
    LET c == Concatenate(strings)
    IN  CASE Cardinality(c.encs) > 1 -> << >>
          [] c.encs \in {{}, {"u8"}} -> c.body
          [] c.encs = {"u"} -> ToUtf16(c.body)
          [] OTHER -> ToUtf32(c.body)

-----------------------------------------------------------------------------
Init == /\ \E f \in DOMAIN Programs : program \in Programs[f]
        /\ stream = Stream(File(program.text, FALSE))
        /\ tokens = << >> /\ at = NONE /\ spaced = {}
        /\ phase = IF program.paste = NONE THEN "lexing" ELSE "pasting"

Lexed(t) == /\ stream' = t.s
            /\ tokens' = Append(tokens, t.tok)
            /\ phase' = CASE t.tok.k = "eof" -> "done"
                          [] t.tok.k \in {"error", "endless"} -> t.tok.k
                          [] OTHER -> "lexing"
\* the directive's # and its word have been read, and its file name has not
AtName == program.named /\ Len(tokens) = 2
Lex == /\ phase = "lexing" /\ ~ AtName
       /\ LET t == LexOne(stream)
          IN  /\ Lexed(t)
              /\ spaced' = IF t.tok.space THEN spaced \cup ({t.tok.k} \cap Static) ELSE spaced
       /\ UNCHANGED <<program, at>>

ReadHeaderFileName == /\ phase = "lexing" /\ AtName
                      /\ Lexed(NameAfter(SkipSpace(FALSE, stream)))
                      /\ UNCHANGED <<program, at, spaced>>

\* stream_push: a header is read from the next line on
Include == /\ phase = "lexing" /\ at = NONE /\ program.header # NONE
           /\ tokens # << >> /\ Last(tokens).k = "newline"
           /\ stream' = [stream EXCEPT !.files = Append(@, File(program.header, FALSE))]
           /\ at' = Len(tokens)
           /\ UNCHANGED <<program, tokens, phase, spaced>>

Paste == /\ phase = "pasting"
         /\ tokens' = <<LexString(program.paste)>>
         /\ phase' = "pasted"
         /\ UNCHANGED <<program, stream, at, spaced>>

Terminated == phase \in {"done", "error", "endless", "pasted"} /\ UNCHANGED vars

Next == Lex \/ ReadHeaderFileName \/ Include \/ Paste \/ Terminated
Spec == Init /\ [][Next]_vars
=============================================================================
