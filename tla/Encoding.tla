------------------------------ MODULE Encoding ------------------------------
(***************************************************************************)
(* encoding.c: UTF-8 read and written, and UTF-16 and UTF-32 written, low     *)
(* byte first.  A string is a sequence of bytes.                             *)
(***************************************************************************)
EXTENDS Integers, SequencesExt

InvalidUtf8 == << >>

\* The bits of a byte, from the highest on
Bit(c, n) == (c \div <<128, 64, 32, 16, 8, 4, 2, 1>>[n]) % 2
CountLeadingOnes(c) == CHOOSE n \in 0 .. 8 : /\ n < 8 => Bit(c, n + 1) = 0
                                             /\ \A m \in 1 .. n : Bit(c, m) = 1

\* The n bytes of a character are there, and all but the first continue it.
Continued(s, n) == n <= Len(s) /\ \A i \in 2 .. n : s[i] \div 64 = 2

\* what a byte adds to the code point it continues
Six(c) == c % 64

\* mutant: the lead byte keeps a bit too few
ReadRuneShort(s) ==
    LET n == CountLeadingOnes(s[1])
    IN  CASE n = 0 -> <<s[1], 1>>
          [] n = 2 -> <<(s[1] % 16) * 64 + Six(s[2]), 2>>
          [] n = 3 -> <<(s[1] % 8) * 4096 + Six(s[2]) * 64 + Six(s[3]), 3>>
          [] n = 4 -> <<(s[1] % 4) * 262144 + Six(s[2]) * 4096 + Six(s[3]) * 64 + Six(s[4]), 4>>
          [] OTHER -> InvalidUtf8

\* The code point at the start of a string, and its length in bytes.
ReadRune(s) ==
    LET n == CountLeadingOnes(s[1])
    IN  IF n = 0 THEN <<s[1], 1>>
        ELSE IF ~ Continued(s, n) THEN InvalidUtf8
        ELSE IF n = 2 THEN <<(s[1] % 32) * 64 + Six(s[2]), 2>>
        ELSE IF n = 3 THEN <<(s[1] % 16) * 4096 + Six(s[2]) * 64 + Six(s[3]), 3>>
        ELSE IF n = 4 THEN
            <<(s[1] % 8) * 262144 + Six(s[2]) * 4096 + Six(s[3]) * 64 + Six(s[4]), 4>>
        ELSE InvalidUtf8

\* The code points of a string; << >> where the code stops with an error.
RuneAt(s, i) == ReadRune(SubSeq(s, i, Len(s)))
\* r, what is read at i, and the code points after it
AndRest(s, i, r, from) ==
    IF r = InvalidUtf8 THEN InvalidUtf8
    ELSE IF i + r[2] > Len(s) THEN <<r[1]>>
    ELSE IF from[i + r[2]] = InvalidUtf8 THEN InvalidUtf8
    ELSE <<r[1]>> \o from[i + r[2]]
Runes(s) ==
    LET from[i \in 1 .. Len(s)] == AndRest(s, i, RuneAt(s, i), from)
    IN  from[1]

Write16(x) == <<x % 256, x \div 256>>
Write32(x) == Write16(x % 65536) \o Write16(x \div 65536)

Utf16Units(rune) ==
    IF rune < 65536 THEN Write16(rune)
    ELSE Write16(55232 + rune \div 1024) \o Write16(56320 + (rune % 1024))

ToUtf16(s) == FlattenSeq([i \in DOMAIN Runes(s) |-> Utf16Units(Runes(s)[i])])
ToUtf32(s) == FlattenSeq([i \in DOMAIN Runes(s) |-> Write32(Runes(s)[i])])

\* << >> where write_utf8 stops with an error
WriteUtf8(rune) ==
    LET Rest(n) == 128 + Six(rune \div n)
    IN  IF rune < 128 THEN <<rune>>
        ELSE IF rune < 2048 THEN <<192 + rune \div 64, Rest(1)>>
        ELSE IF rune < 65536 THEN <<224 + rune \div 4096, Rest(64), Rest(1)>>
        ELSE IF rune < 2097152 THEN <<240 + rune \div 262144, Rest(4096), Rest(64), Rest(1)>>
        ELSE InvalidUtf8
=============================================================================
