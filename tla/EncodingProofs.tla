--------------------------- MODULE EncodingProofs ---------------------------
(***************************************************************************)
(* What encoding.c writes reads back: one code point in UTF-8, a text of them  *)
(* of any length, and the units and the bytes of UTF-16 and UTF-32.            *)
(***************************************************************************)
EXTENDS Encoding, Lemmas

-----------------------------------------------------------------------------
(* The lead byte *)

LEMMA BitIs ==
  ASSUME NEW c \in 0 .. 255
  PROVE  /\ Bit(c, 1) = (c \div 128) % 2 /\ Bit(c, 2) = (c \div 64) % 2
         /\ Bit(c, 3) = (c \div 32) % 2 /\ Bit(c, 4) = (c \div 16) % 2
         /\ Bit(c, 5) = (c \div 8) % 2
BY DEF Bit

LEMMA BitsAre ==
  ASSUME NEW c \in 0 .. 255
  PROVE  /\ c < 128 => Bit(c, 1) = 0
         /\ c \in 128 .. 191 => Bit(c, 1) = 1 /\ Bit(c, 2) = 0
         /\ c \in 192 .. 223 => Bit(c, 1) = 1 /\ Bit(c, 2) = 1 /\ Bit(c, 3) = 0
         /\ c \in 224 .. 239 => Bit(c, 1) = 1 /\ Bit(c, 2) = 1 /\ Bit(c, 3) = 1 /\ Bit(c, 4) = 0
         /\ c \in 240 .. 247 => /\ Bit(c, 1) = 1 /\ Bit(c, 2) = 1 /\ Bit(c, 3) = 1 /\ Bit(c, 4) = 1
                                /\ Bit(c, 5) = 0
<1>1. c < 128 => (c \div 128) % 2 = 0
  OBVIOUS
<1>2. c \in 128 .. 191 => (c \div 128) % 2 = 1 /\ (c \div 64) % 2 = 0
  OBVIOUS
<1>3. c \in 192 .. 223 => (c \div 128) % 2 = 1 /\ (c \div 64) % 2 = 1 /\ (c \div 32) % 2 = 0
  OBVIOUS
<1>4. c \in 224 .. 239 => /\ (c \div 128) % 2 = 1 /\ (c \div 64) % 2 = 1 /\ (c \div 32) % 2 = 1
                          /\ (c \div 16) % 2 = 0
  OBVIOUS
<1>5. c \in 240 .. 247 => /\ (c \div 128) % 2 = 1 /\ (c \div 64) % 2 = 1 /\ (c \div 32) % 2 = 1
                          /\ (c \div 16) % 2 = 1 /\ (c \div 8) % 2 = 0
  OBVIOUS
<1> QED
  BY <1>1, <1>2, <1>3, <1>4, <1>5, BitIs

LEMMA OnesAre ==
  ASSUME NEW c, NEW k \in 0 .. 7, Bit(c, k + 1) = 0, \A m \in 1 .. k : Bit(c, m) = 1
  PROVE  CountLeadingOnes(c) = k
<1> DEFINE P(n) == /\ n < 8 => Bit(c, n + 1) = 0
                   /\ \A m \in 1 .. n : Bit(c, m) = 1
<1>1. P(k)
  OBVIOUS
<1>2. ASSUME NEW n \in 0 .. 8, P(n)
      PROVE  n = k
  <2>1. CASE n < k
    <3>1. n + 1 \in 1 .. k /\ n < 8
      BY <2>1
    <3> QED
      BY <1>2, <3>1
  <2>2. CASE k < n
    <3>1. k + 1 \in 1 .. n
      BY <2>2
    <3> QED
      BY <1>2, <3>1
  <2> QED
    BY <2>1, <2>2
<1>3. k \in 0 .. 8
  OBVIOUS
<1> HIDE DEF P
<1>4. (CHOOSE n \in 0 .. 8 : P(n)) = k
  BY <1>1, <1>2, <1>3
<1> QED
  BY <1>4 DEF P, CountLeadingOnes

LEMMA LeadIs ==
  ASSUME NEW c \in 0 .. 255
  PROVE  /\ c < 128 => CountLeadingOnes(c) = 0
         /\ c \in 128 .. 191 => CountLeadingOnes(c) = 1
         /\ c \in 192 .. 223 => CountLeadingOnes(c) = 2
         /\ c \in 224 .. 239 => CountLeadingOnes(c) = 3
         /\ c \in 240 .. 247 => CountLeadingOnes(c) = 4
<1>1. CASE c < 128
  BY <1>1, BitsAre, OnesAre
<1>2. CASE c \in 128 .. 191
  <2>1. \A m \in 1 .. 1 : m = 1
    OBVIOUS
  <2> QED
    BY <1>2, <2>1, BitsAre, OnesAre
<1>3. CASE c \in 192 .. 223
  <2>1. \A m \in 1 .. 2 : m = 1 \/ m = 2
    OBVIOUS
  <2> QED
    BY <1>3, <2>1, BitsAre, OnesAre
<1>4. CASE c \in 224 .. 239
  <2>1. \A m \in 1 .. 3 : m = 1 \/ m = 2 \/ m = 3
    OBVIOUS
  <2> QED
    BY <1>4, <2>1, BitsAre, OnesAre
<1>5. CASE c \in 240 .. 247
  <2>1. \A m \in 1 .. 4 : m = 1 \/ m = 2 \/ m = 3 \/ m = 4
    OBVIOUS
  <2> QED
    BY <1>5, <2>1, BitsAre, OnesAre
<1> QED
  BY <1>1, <1>2, <1>3, <1>4, <1>5

-----------------------------------------------------------------------------
(* A code point, six bits at a time *)

LEMMA SixIs ==
  ASSUME NEW x \in Nat
  PROVE  /\ Six(x) \in 0 .. 63 /\ x = 64 * (x \div 64) + Six(x)
         /\ Six(128 + Six(x)) = Six(x) /\ (128 + Six(x)) \div 64 = 2
BY SMTT(20) DEF Six

LEMMA DigitsAre ==
  ASSUME NEW x \in Nat
  PROVE  /\ x < 2048 => x \div 64 \in 0 .. 31
         /\ x < 65536 => x \div 4096 \in 0 .. 15
         /\ x < 2097152 => x \div 262144 \in 0 .. 7
         /\ x \div 64 \in Nat /\ x \div 4096 \in Nat /\ x \div 262144 \in Nat
         /\ x \div 64 = 64 * (x \div 4096) + Six(x \div 64)
         /\ x \div 4096 = 64 * (x \div 262144) + Six(x \div 4096)
BY SMTT(20) DEF Six

LEMMA Shifted ==
  ASSUME NEW v \in Nat, NEW c \in Nat, NEW b \in Nat, NEW a \in Nat
  PROVE  64 * (64 * (64 * v + c) + b) + a = v * 262144 + c * 4096 + b * 64 + a
BY SMT

\* What write_utf8 writes, by the length.
LEMMA WriteIs ==
  ASSUME NEW x \in Nat
  PROVE  /\ x < 128 => WriteUtf8(x) = <<x>>
         /\ (128 <= x /\ x < 2048) => WriteUtf8(x) = <<192 + x \div 64, 128 + Six(x)>>
         /\ (2048 <= x /\ x < 65536) =>
              WriteUtf8(x) = <<224 + x \div 4096, 128 + Six(x \div 64), 128 + Six(x)>>
         /\ (65536 <= x /\ x < 2097152) =>
              WriteUtf8(x) = <<240 + x \div 262144, 128 + Six(x \div 4096),
                               128 + Six(x \div 64), 128 + Six(x)>>
<1>1. x \div 1 = x
  BY SMTT(20)
<1>2. CASE x < 128
  BY SMTT(20), <1>2 DEF WriteUtf8
<1>3. CASE 128 <= x /\ x < 2048
  BY SMTT(20), <1>1, <1>3 DEF WriteUtf8
<1>4. CASE 2048 <= x /\ x < 65536
  BY SMTT(20), <1>1, <1>4 DEF WriteUtf8
<1>5. CASE 65536 <= x /\ x < 2097152
  BY SMTT(20), <1>1, <1>5 DEF WriteUtf8
<1>6. CASE x >= 2097152
  BY SMTT(20), <1>6
<1> QED
  BY SMTT(20), <1>2, <1>3, <1>4, <1>5, <1>6

\* What read_rune makes of a lead byte and the bytes that continue it.
LEMMA ReadOne ==
  ASSUME NEW s, s[1] \in 0 .. 127
  PROVE  ReadRune(s) = <<s[1], 1>>
<1>1. CountLeadingOnes(s[1]) = 0
  BY SMTT(20), LeadIs
<1> QED
  BY SMTT(20), <1>1 DEF ReadRune

LEMMA ReadTwo ==
  ASSUME NEW s, s[1] \in 192 .. 223, Continued(s, 2)
  PROVE  ReadRune(s) = <<(s[1] % 32) * 64 + Six(s[2]), 2>>
<1>1. CountLeadingOnes(s[1]) = 2
  BY SMTT(20), LeadIs
<1> QED
  BY SMTT(20), <1>1 DEF ReadRune

LEMMA ReadThree ==
  ASSUME NEW s, s[1] \in 224 .. 239, Continued(s, 3)
  PROVE  ReadRune(s) = <<(s[1] % 16) * 4096 + Six(s[2]) * 64 + Six(s[3]), 3>>
<1>1. CountLeadingOnes(s[1]) = 3
  BY SMTT(20), LeadIs
<1> QED
  BY SMTT(20), <1>1 DEF ReadRune

LEMMA ReadFour ==
  ASSUME NEW s, s[1] \in 240 .. 247, Continued(s, 4)
  PROVE  ReadRune(s) = <<(s[1] % 8) * 262144 + Six(s[2]) * 4096 + Six(s[3]) * 64 + Six(s[4]), 4>>
<1>1. CountLeadingOnes(s[1]) = 4
  BY SMTT(20), LeadIs
<1> QED
  BY SMTT(20), <1>1 DEF ReadRune

CodePoint == {x \in Nat : x < 2097152}       \* those write_utf8 writes
Byte256   == 0 .. 255

LEMMA WriteShape ==
  ASSUME NEW x \in CodePoint
  PROVE  /\ WriteUtf8(x) \in Seq(Byte256) /\ Len(WriteUtf8(x)) \in 1 .. 4
<1>0. x \in Nat /\ x < 2097152
  BY SMTT(20) DEF CodePoint
<1>1. /\ Six(x) \in 0 .. 63 /\ Six(x \div 64) \in 0 .. 63 /\ Six(x \div 4096) \in 0 .. 63
  BY SMTT(20), <1>0, DigitsAre, SixIs
<1>2. CASE x < 128
  <2>1. WriteUtf8(x) = <<x>> /\ x \in Byte256
    BY SMTT(20), <1>0, <1>2, WriteIs DEF Byte256
  <2> QED
    BY SMTT(20), <2>1
<1>3. CASE 128 <= x /\ x < 2048
  <2>1. WriteUtf8(x) = <<192 + x \div 64, 128 + Six(x)>>
    BY SMTT(20), <1>0, <1>3, WriteIs
  <2>2. /\ 192 + x \div 64 \in Byte256
        /\ 128 + Six(x) \in Byte256
    BY SMTT(20), <1>0, <1>1, <1>3, DigitsAre DEF Byte256
  <2> QED
    BY SMTT(20), <2>1, <2>2
<1>4. CASE 2048 <= x /\ x < 65536
  <2>1. WriteUtf8(x) = <<224 + x \div 4096,
                        128 + Six(x \div 64),
                        128 + Six(x)>>
    BY SMTT(20), <1>0, <1>4, WriteIs
  <2>2. /\ 224 + x \div 4096 \in Byte256
        /\ 128 + Six(x \div 64) \in Byte256
        /\ 128 + Six(x) \in Byte256
    BY SMTT(20), <1>0, <1>1, <1>4, DigitsAre DEF Byte256
  <2> QED
    BY SMTT(20), <2>1, <2>2
<1>5. CASE 65536 <= x /\ x < 2097152
  <2>1. WriteUtf8(x) = <<240 + x \div 262144,
                        128 + Six(x \div 4096),
                        128 + Six(x \div 64),
                        128 + Six(x)>>
    BY SMTT(20), <1>0, <1>5, WriteIs
  <2>2. /\ 240 + x \div 262144 \in Byte256
        /\ 128 + Six(x \div 4096) \in Byte256
        /\ 128 + Six(x \div 64) \in Byte256
        /\ 128 + Six(x) \in Byte256
    BY SMTT(20), <1>0, <1>1, <1>5, DigitsAre DEF Byte256
  <2> QED
    BY SMTT(20), <2>1, <2>2
<1> QED
  BY SMTT(20), <1>0, <1>2, <1>3, <1>4, <1>5

\* s begins with w.
Begins(s, w) == Len(w) <= Len(s) /\ \A i \in 1 .. Len(w) : s[i] = w[i]

\* What read_rune reads at the start of a string that begins as write_utf8 wrote a code
\* point is that code point, and as many bytes as were written, for every code point
\* write_utf8 does not refuse (encoding.c:20, 82).
THEOREM Utf8ReadsBack ==
  ASSUME NEW x \in CodePoint, NEW s, Begins(s, WriteUtf8(x))
  PROVE  ReadRune(s) = <<x, Len(WriteUtf8(x))>>
<1>0. x \in Nat /\ x < 2097152
  BY SMTT(20) DEF CodePoint
<1>1. /\ x = 64 * (x \div 64) + Six(x)
      /\ Six(x) \in 0 .. 63 /\ Six(128 + Six(x)) = Six(x) /\ (128 + Six(x)) \div 64 = 2
  BY SMTT(20), <1>0, SixIs
<1>2. PICK y : y = x \div 64
  BY SMTT(20)
<1>3. /\ y \in Nat /\ x = 64 * y + Six(x)
      /\ Six(y) \in 0 .. 63 /\ Six(128 + Six(y)) = Six(y) /\ (128 + Six(y)) \div 64 = 2
  BY SMTT(20), <1>0, <1>1, <1>2, DigitsAre, SixIs
<1>4. PICK z : z = x \div 4096
  BY SMTT(20)
<1>5. /\ z \in Nat /\ y = 64 * z + Six(y)
      /\ Six(z) \in 0 .. 63 /\ Six(128 + Six(z)) = Six(z) /\ (128 + Six(z)) \div 64 = 2
  BY SMTT(20), <1>0, <1>2, <1>4, DigitsAre, SixIs
<1>6. PICK v : v = x \div 262144
  BY SMTT(20)
<1>7. /\ v \in Nat /\ z = 64 * v + Six(z)
  BY SMTT(20), <1>0, <1>4, <1>6, DigitsAre
<1>8. CASE x < 128
  <2>1. WriteUtf8(x) = <<x>>
    BY SMTT(20), <1>0, <1>8, WriteIs
  <2>2. PICK w : w = <<x>>
    BY Zenon
  <2>3. Len(w) = 1 /\ w[1] = x /\ WriteUtf8(x) = w
    BY SMTT(20), <2>1, <2>2
  <2>4. s[1] = x
    BY SMTT(20), <2>3 DEF Begins
  <2> QED
    BY SMTT(20), <1>0, <1>8, <2>3, <2>4, ReadOne
<1>9. CASE 128 <= x /\ x < 2048
  <2>1. WriteUtf8(x) = <<192 + y, 128 + Six(x)>> /\ y \in 0 .. 31
    <3>1. y \in 0 .. 31
      BY SMTT(20), <1>0, <1>2, <1>9, DigitsAre
    <3>2. WriteUtf8(x) = <<192 + x \div 64, 128 + Six(x)>>
      BY SMTT(20), <1>0, <1>9, WriteIs
    <3> QED
      BY SMTT(20), <1>2, <3>1, <3>2
  <2>2. PICK w : w = <<192 + y, 128 + Six(x)>>
    BY Zenon
  <2>3. Len(w) = 2 /\ w[1] = 192 + y /\ w[2] = 128 + Six(x) /\ WriteUtf8(x) = w
    BY SMTT(20), <2>1, <2>2
  <2>4. s[1] = 192 + y /\ s[2] = 128 + Six(x) /\ 2 <= Len(s)
    <3>1. Len(w) <= Len(s) /\ \A i \in 1 .. Len(w) : s[i] = w[i]
      BY SMTT(20), <2>3 DEF Begins
    <3>2. 1 \in 1 .. Len(w) /\ 2 \in 1 .. Len(w)
      BY SMTT(20), <2>3
    <3> QED
      BY SMTT(20), <2>3, <3>1, <3>2
  <2>5. s[1] \in 192 .. 223 /\ s[1] % 32 = y
    BY SMTT(20), <2>1, <2>4
  <2>6. Continued(s, 2)
    <3>1. \A i \in 2 .. 2 : i = 2
      BY SMTT(20)
    <3> QED
      BY SMTT(20), <1>1, <2>4, <3>1 DEF Continued
  <2>7. ReadRune(s) = <<y * 64 + Six(x), 2>>
    BY SMTT(20), <1>1, <2>4, <2>5, <2>6, ReadTwo
  <2> QED
    BY SMTT(20), <1>3, <2>3, <2>7
<1>10. CASE 2048 <= x /\ x < 65536
  <2>1. WriteUtf8(x) = <<224 + z, 128 + Six(y), 128 + Six(x)>> /\ z \in 0 .. 15
    BY SMTT(20), <1>0, <1>2, <1>4, <1>10, WriteIs, DigitsAre
  <2>2. PICK w : w = <<224 + z, 128 + Six(y), 128 + Six(x)>>
    BY Zenon
  <2>3. /\ Len(w) = 3 /\ w[1] = 224 + z /\ w[2] = 128 + Six(y) /\ w[3] = 128 + Six(x)
        /\ WriteUtf8(x) = w
    BY SMTT(20), <2>1, <2>2
  <2>4. s[1] = 224 + z /\ s[2] = 128 + Six(y) /\ s[3] = 128 + Six(x) /\ 3 <= Len(s)
    <3>0. Begins(s, w) /\ Len(w) = 3
      BY Zenon, <2>3
    <3>1. 3 <= Len(s) /\ \A i \in 1 .. 3 : s[i] = w[i]
      BY Zenon, <3>0 DEF Begins
    <3>2. s[1] = w[1] /\ s[2] = w[2] /\ s[3] = w[3]
      BY SMTT(20), <3>1
    <3> QED
      BY Zenon, <2>3, <3>1, <3>2
  <2>5. s[1] \in 224 .. 239 /\ s[1] % 16 = z
    BY SMTT(20), <2>1, <2>4
  <2>6. Continued(s, 3)
    <3>1. \A i \in 2 .. 3 : i = 2 \/ i = 3
      BY SMTT(20)
    <3> QED
      BY SMTT(20), <1>1, <1>3, <2>4, <3>1 DEF Continued
  <2>7. ReadRune(s) = <<z * 4096 + Six(y) * 64 + Six(x), 3>>
    BY SMTT(20), <1>1, <1>3, <2>4, <2>5, <2>6, ReadThree
  <2>8. z * 4096 + Six(y) * 64 + Six(x) = x
    BY SMTT(20), <1>1, <1>3, <1>5
  <2> QED
    BY SMTT(20), <2>3, <2>7, <2>8
<1>11. CASE 65536 <= x /\ x < 2097152
  <2>1. WriteUtf8(x) = <<240 + v, 128 + Six(z), 128 + Six(y), 128 + Six(x)>> /\ v \in 0 .. 7
    BY SMTT(20), <1>0, <1>2, <1>4, <1>6, <1>11, WriteIs, DigitsAre
  <2>2. PICK w : w = <<240 + v, 128 + Six(z), 128 + Six(y), 128 + Six(x)>>
    BY Zenon
  <2>3. /\ Len(w) = 4 /\ w[1] = 240 + v /\ w[2] = 128 + Six(z) /\ w[3] = 128 + Six(y)
        /\ w[4] = 128 + Six(x) /\ WriteUtf8(x) = w
    BY SMTT(20), <2>1, <2>2
  <2>4. /\ s[1] = 240 + v /\ s[2] = 128 + Six(z) /\ s[3] = 128 + Six(y)
        /\ s[4] = 128 + Six(x) /\ 4 <= Len(s)
    <3>0. Begins(s, w) /\ Len(w) = 4
      BY Zenon, <2>3
    <3>1. 4 <= Len(s) /\ \A i \in 1 .. 4 : s[i] = w[i]
      BY Zenon, <3>0 DEF Begins
    <3>2. s[1] = w[1] /\ s[2] = w[2] /\ s[3] = w[3] /\ s[4] = w[4]
      BY SMTT(20), <3>1
    <3> QED
      BY Zenon, <2>3, <3>1, <3>2
  <2>5. s[1] \in 240 .. 247 /\ s[1] % 8 = v
    BY SMTT(20), <2>1, <2>4
  <2>6. Continued(s, 4)
    <3>1. \A i \in 2 .. 4 : i = 2 \/ i = 3 \/ i = 4
      BY SMTT(20)
    <3> QED
      BY SMTT(20), <1>1, <1>3, <1>5, <2>4, <3>1 DEF Continued
  <2>7. ReadRune(s) = <<v * 262144 + Six(z) * 4096 + Six(y) * 64 + Six(x), 4>>
    BY SMTT(20), <1>1, <1>3, <1>5, <2>4, <2>5, <2>6, ReadFour
  <2>8. v * 262144 + Six(z) * 4096 + Six(y) * 64 + Six(x) = x
    <3>1. /\ v \in Nat /\ Six(z) \in Nat /\ Six(y) \in Nat /\ Six(x) \in Nat
          /\ x = 64 * (64 * (64 * v + Six(z)) + Six(y)) + Six(x)
      BY SMTT(20), <1>1, <1>3, <1>5, <1>7
    <3> QED
      BY SMTT(20), <3>1, Shifted
  <2> QED
    BY SMTT(20), <2>3, <2>7, <2>8
<1> QED
  BY SMTT(20), <1>0, <1>8, <1>9, <1>10, <1>11

-----------------------------------------------------------------------------
(* Texts *)

LEMMA RuneLength ==
  ASSUME NEW u
  PROVE  ReadRune(u) = InvalidUtf8 \/ ReadRune(u)[2] \in 1 .. 4
BY SMTT(30) DEF ReadRune, InvalidUtf8

\* What is read at i depends on what is read further on only.
LEMMA RestCongruent ==
  ASSUME NEW s, Len(s) \in Nat, NEW i \in 1 .. Len(s), NEW f, NEW g,
         \A k \in i + 1 .. Len(s) : f[k] = g[k]
  PROVE  AndRest(s, i, RuneAt(s, i), f) = AndRest(s, i, RuneAt(s, i), g)
<1>1. PICK r : r = RuneAt(s, i)
  OBVIOUS
<1>2. CASE r = InvalidUtf8
  BY Zenon, <1>1, <1>2 DEF AndRest
<1>3. CASE r # InvalidUtf8 /\ i + r[2] > Len(s)
  BY Zenon, <1>1, <1>3 DEF AndRest
<1>4. CASE r # InvalidUtf8 /\ ~ (i + r[2] > Len(s))
  <2>1. r[2] \in 1 .. 4
    BY Zenon, <1>1, <1>4, RuneLength DEF RuneAt
  <2>2. i + r[2] \in i + 1 .. Len(s)
    BY SMTT(20), <1>4, <2>1
  <2>3. f[i + r[2]] = g[i + r[2]]
    BY Zenon, <2>2
  <2> QED
    BY Zenon, <1>1, <2>3 DEF AndRest
<1> QED
  BY Zenon, <1>2, <1>3, <1>4

\* Runes has the value its recursion says.
LEMMA RunesUnfold ==
  ASSUME NEW s, Len(s) \in Nat \ {0}
  PROVE  \E f : /\ Runes(s) = f[1]
                /\ \A i \in 1 .. Len(s) : f[i] = AndRest(s, i, RuneAt(s, i), f)
<1> DEFINE V(f, i) == AndRest(s, i, RuneAt(s, i), f)
           P(f, j) == \A k \in j .. Len(s) : f[k] = V(f, k)
           S == {n \in Nat : n <= Len(s) => \E f : P(f, Len(s) + 1 - n)}
           from[i \in 1 .. Len(s)] == V(from, i)
<1>0. PICK L : L = Len(s)
  OBVIOUS
<1>1. Nat \subseteq S
  <2>1. 0 \in S
    <3>1. \A k \in Len(s) + 1 - 0 .. Len(s) : FALSE
      OBVIOUS
    <3>2. P([k \in {} |-> 0], Len(s) + 1 - 0)
      BY Zenon, <3>1
    <3> QED
      BY Zenon, <3>2, 0 \in Nat
  <2>2. ASSUME NEW n \in Nat, n \in S
        PROVE  n + 1 \in S
    <3> SUFFICES ASSUME n + 1 <= Len(s)
                 PROVE  \E f : P(f, Len(s) + 1 - (n + 1))
      OBVIOUS
    <3>1. PICK f : P(f, Len(s) + 1 - n)
      <4>1. n <= Len(s)
        OBVIOUS
      <4> QED
        BY Zenon, <2>2, <4>1
    <3>2. PICK j : j = Len(s) - n
      OBVIOUS
    <3>3. /\ j \in 1 .. Len(s) /\ Len(s) + 1 - (n + 1) = j /\ Len(s) + 1 - n = j + 1
      BY <3>2
    <3> DEFINE g == [k \in 1 .. Len(s) |-> IF k = j THEN V(f, j) ELSE f[k]]
    <3>4. g[j] = V(f, j) /\ \A k \in 1 .. Len(s) : k # j => g[k] = f[k]
      BY Zenon, <3>3
    <3> HIDE DEF g
    <3>5. \A k \in j .. Len(s) : \A i \in k + 1 .. Len(s) : g[i] = f[i]
      <4>1. \A k \in j .. Len(s) : \A i \in k + 1 .. Len(s) : i \in 1 .. Len(s) /\ i # j
        BY <3>3
      <4> QED
        BY Zenon, <3>4, <4>1
    <3>6. \A k \in j .. Len(s) : V(g, k) = V(f, k)
      <4> SUFFICES ASSUME NEW k \in j .. Len(s) PROVE V(g, k) = V(f, k)
        OBVIOUS
      <4>1. k \in 1 .. Len(s) /\ Len(s) \in Nat
        BY <3>3
      <4>2. \A i \in k + 1 .. Len(s) : g[i] = f[i]
        BY Zenon, <3>5
      <4> QED
        BY Zenon, <4>1, <4>2, RestCongruent
    <3>7. \A k \in j .. Len(s) : k = j \/ (k \in j + 1 .. Len(s) /\ k # j /\ k \in 1 .. Len(s))
      BY <3>3
    <3>8. j \in j .. Len(s)
      BY <3>3
    <3> HIDE DEF V
    <3>9. P(g, j)
      <4> SUFFICES ASSUME NEW k \in j .. Len(s) PROVE g[k] = V(g, k)
        BY Zenon
      <4>1. CASE k = j
        BY Zenon, <3>4, <3>6, <3>8, <4>1
      <4>2. CASE k # j
        <5>1. k \in j + 1 .. Len(s) /\ k \in 1 .. Len(s)
          BY Zenon, <3>7, <4>2
        <5>2. f[k] = V(f, k)
          BY Zenon, <3>1, <3>3, <5>1
        <5> QED
          BY Zenon, <3>4, <3>6, <4>2, <5>1, <5>2
      <4> QED
        BY Zenon, <4>1, <4>2
    <3> QED
      BY Zenon, <3>3, <3>9
  <2> HIDE DEF S
  <2> QED
    BY Zenon, <2>1, <2>2, NatSetInduction
<1>2. PICK f : P(f, 1)
  <2>1. Len(s) \in S
    BY Zenon, <1>1
  <2>2. Len(s) + 1 - Len(s) = 1 /\ Len(s) <= Len(s)
    OBVIOUS
  <2> QED
    BY Zenon, <2>1, <2>2
<1> DEFINE g == [k \in 1 .. Len(s) |-> f[k]]
<1>3. g = [i \in 1 .. Len(s) |-> V(g, i)]
  <2>1. \A i \in 1 .. Len(s) : f[i] = V(g, i)
    <3> SUFFICES ASSUME NEW i \in 1 .. Len(s) PROVE f[i] = V(g, i)
      OBVIOUS
    <3>1. \A k \in i + 1 .. Len(s) : k \in 1 .. Len(s)
      OBVIOUS
    <3>2. \A k \in i + 1 .. Len(s) : f[k] = g[k]
      BY Zenon, <3>1
    <3> HIDE DEF g
    <3>3. V(f, i) = V(g, i)
      <4>1. Len(s) \in Nat
        OBVIOUS
      <4> QED
        BY Zenon, <3>2, <4>1, RestCongruent
    <3> QED
      BY Zenon, <1>2, <3>3
  <2> QED
    BY Zenon, <2>1
<1> HIDE DEF g
<1>4. \E q : q = [i \in 1 .. Len(s) |-> V(q, i)]
  BY Zenon, <1>3
<1>5. from = [i \in 1 .. Len(s) |-> V(from, i)]
  BY Zenon, <1>4
<1>6. Runes(s) = from[1]
  BY Zenon DEF Runes
<1> HIDE DEF from
<1>7. \A i \in 1 .. Len(s) : from[i] = V(from, i)
  BY Zenon, <1>5
<1> QED
  BY Zenon, <1>6, <1>7

\* s is the code points cs one after the other, cs[k] from at[k] on.
Spells(s, cs, at) ==
    /\ at \in [1 .. Len(cs) + 1 -> 1 .. Len(s) + 1]
    /\ at[1] = 1 /\ at[Len(cs) + 1] = Len(s) + 1
    /\ \A k \in 1 .. Len(cs) :
         LET w == WriteUtf8(cs[k])
         IN  at[k + 1] = at[k] + Len(w) /\ \A i \in 1 .. Len(w) : s[at[k] + i - 1] = w[i]

LEMMA ReadsAt ==
  ASSUME NEW cs \in Seq(CodePoint), NEW s \in Seq(Byte256), NEW at, Spells(s, cs, at),
         NEW k \in 1 .. Len(cs)
  PROVE  /\ RuneAt(s, at[k]) = <<cs[k], Len(WriteUtf8(cs[k]))>>
         /\ at[k] \in 1 .. Len(s)
         /\ at[k + 1] = at[k] + Len(WriteUtf8(cs[k]))
<1>1. PICK x : x = cs[k]
  OBVIOUS
<1>2. x \in CodePoint
  BY <1>1, ElementShape
<1>3. PICK w : w = WriteUtf8(x)
  OBVIOUS
<1>4. w \in Seq(Byte256) /\ Len(w) \in 1 .. 4
  BY Zenon, <1>2, <1>3, WriteShape
<1>5. Len(s) \in Nat /\ Len(cs) \in Nat
  OBVIOUS
<1>6. PICK a : a = at[k]
  OBVIOUS
<1>7. PICK b : b = at[k + 1]
  OBVIOUS
<1>8. /\ a \in 1 .. Len(s) + 1 /\ b \in 1 .. Len(s) + 1 /\ b = a + Len(w)
      /\ \A i \in 1 .. Len(w) : s[a + i - 1] = w[i]
  <2>1. k \in 1 .. Len(cs) + 1 /\ k + 1 \in 1 .. Len(cs) + 1
    BY <1>5
  <2>2. at \in [1 .. Len(cs) + 1 -> 1 .. Len(s) + 1]
    BY Zenon DEF Spells
  <2>3. at[k] \in 1 .. Len(s) + 1 /\ at[k + 1] \in 1 .. Len(s) + 1
    BY Zenon, <2>1, <2>2
  <2>4. at[k + 1] = at[k] + Len(w) /\ \A i \in 1 .. Len(w) : s[at[k] + i - 1] = w[i]
    BY Zenon, <1>1, <1>3 DEF Spells
  <2> QED
    BY Zenon, <1>6, <1>7, <2>3, <2>4
<1>9. a \in 1 .. Len(s) /\ Len(w) <= Len(s) - a + 1
  <2>1. PICK l : l = Len(w)
    OBVIOUS
  <2>2. l \in 1 .. 4 /\ b = a + l /\ a \in 1 .. Len(s) + 1 /\ b \in 1 .. Len(s) + 1
    BY Zenon, <1>4, <1>8, <2>1
  <2>3. PICK L : L = Len(s)
    OBVIOUS
  <2>4. L \in Nat /\ a \in 1 .. L + 1 /\ b \in 1 .. L + 1
    BY Zenon, <1>5, <2>2, <2>3
  <2>5. a \in 1 .. L /\ l <= L - a + 1
    BY SMTT(20), <2>2, <2>4
  <2> QED
    BY Zenon, <2>1, <2>3, <2>5
<1>10. PICK u : u = SubSeq(s, a, Len(s))
  OBVIOUS
<1>11. /\ Len(u) = Len(s) - a + 1
       /\ \A i \in 1 .. Len(s) - a + 1 : u[i] = s[a + i - 1]
  <2>1. a \in 1 .. Len(s) + 1 /\ Len(s) \in a - 1 .. Len(s)
    BY SMTT(20), <1>5, <1>9
  <2> QED
    BY Zenon, <1>10, <2>1, SubSeqShape
<1>12. Begins(u, w)
  <2>1. Len(w) <= Len(u)
    BY SMTT(20), <1>9, <1>11
  <2>2. \A i \in 1 .. Len(w) : i \in 1 .. Len(s) - a + 1
    BY SMTT(20), <1>4, <1>5, <1>9
  <2>3. \A i \in 1 .. Len(w) : u[i] = w[i]
    BY Zenon, <1>8, <1>11, <2>2
  <2> QED
    BY Zenon, <2>1, <2>3 DEF Begins
<1>13. ReadRune(u) = <<x, Len(w)>>
  BY Zenon, <1>2, <1>3, <1>12, Utf8ReadsBack
<1> QED
  BY Zenon, <1>1, <1>3, <1>6, <1>7, <1>8, <1>9, <1>10, <1>13 DEF RuneAt

\* What to_utf16 and to_utf32 read of a text is the text: the code points of a string
\* that write_utf8 wrote, one after the other, are those that were written, for every
\* text of every length (encoding.c:20, 82).
THEOREM TextReadsBack ==
  ASSUME NEW cs \in Seq(CodePoint), cs # << >>, NEW s \in Seq(Byte256),
         NEW at, Spells(s, cs, at)
  PROVE  Runes(s) = cs
<1>1. PICK n : n = Len(cs)
  OBVIOUS
<1>2. n \in Nat /\ n >= 1 /\ Len(s) \in Nat
  BY <1>1
<1>3. /\ \A k \in 1 .. n :
           /\ RuneAt(s, at[k]) = <<cs[k], Len(WriteUtf8(cs[k]))>>
           /\ at[k] \in 1 .. Len(s)
           /\ at[k + 1] = at[k] + Len(WriteUtf8(cs[k]))
  BY Zenon, <1>1, ReadsAt
<1>4. at[1] = 1 /\ at[n + 1] = Len(s) + 1
  BY Zenon, <1>1 DEF Spells
<1>5. Len(s) \in Nat \ {0}
  <2>1. 1 \in 1 .. n
    BY <1>2
  <2>2. 1 \in 1 .. Len(s)
    BY Zenon, <1>3, <1>4, <2>1
  <2> QED
    BY <1>2, <2>2
<1>6. PICK f : /\ Runes(s) = f[1]
               /\ \A i \in 1 .. Len(s) : f[i] = AndRest(s, i, RuneAt(s, i), f)
  BY Zenon, <1>5, RunesUnfold
<1> DEFINE T(k) == [m \in 1 .. n - k + 1 |-> cs[k + m - 1]]
           S == {j \in Nat : j < n => f[at[n - j]] = T(n - j)}
<1>7. \A k \in 1 .. n :
        /\ T(k) \in Seq(CodePoint) /\ Len(T(k)) = n - k + 1 /\ T(k) # << >>
        /\ \A m \in 1 .. n - k + 1 : T(k)[m] = cs[k + m - 1]
  <2> SUFFICES ASSUME NEW k \in 1 .. n
               PROVE  /\ T(k) \in Seq(CodePoint) /\ Len(T(k)) = n - k + 1 /\ T(k) # << >>
                      /\ \A m \in 1 .. n - k + 1 : T(k)[m] = cs[k + m - 1]
    OBVIOUS
  <2>1. n - k + 1 \in Nat /\ n - k + 1 >= 1
    BY <1>2
  <2>2. \A m \in 1 .. n - k + 1 : cs[k + m - 1] \in CodePoint
    <3>1. \A m \in 1 .. n - k + 1 : k + m - 1 \in 1 .. Len(cs)
      BY <1>1, <1>2
    <3> QED
      BY Zenon, <3>1, ElementShape
  <2>3. T(k) \in [1 .. n - k + 1 -> CodePoint]
    BY Zenon, <2>2
  <2>4. T(k) \in Seq(CodePoint) /\ Len(T(k)) = n - k + 1
    <3>1. PICK N : N = n - k + 1
      OBVIOUS
    <3>2. PICK v : v = T(k)
      OBVIOUS
    <3>3. N \in Nat /\ v \in [1 .. N -> CodePoint]
      BY Zenon, <2>1, <2>3, <3>1, <3>2
    <3> HIDE DEF T
    <3>4. v \in Seq(CodePoint) /\ Len(v) = N
      BY SMTT(20), <3>3
    <3> QED
      BY Zenon, <3>1, <3>2, <3>4
  <2> QED
    BY <2>1, <2>4
<1> HIDE DEF T
<1>8. \A k \in 1 .. n : k < n => <<cs[k]>> \o T(k + 1) = T(k)
  <2> SUFFICES ASSUME NEW k \in 1 .. n, k < n
               PROVE  <<cs[k]>> \o T(k + 1) = T(k)
    OBVIOUS
  <2>1. k + 1 \in 1 .. n /\ n - (k + 1) + 1 = n - k
    BY <1>2
  <2>2. cs[k] \in CodePoint
    BY <1>1
  <2>3. PICK t : t = T(k + 1)
    OBVIOUS
  <2>4. /\ t \in Seq(CodePoint) /\ Len(t) = n - k
        /\ \A m \in 1 .. n - k : t[m] = cs[k + 1 + m - 1]
    BY Zenon, <1>7, <2>1, <2>3
  <2>5. PICK v : v = T(k)
    OBVIOUS
  <2>6. /\ v \in Seq(CodePoint) /\ Len(v) = n - k + 1
        /\ \A m \in 1 .. n - k + 1 : v[m] = cs[k + m - 1]
    BY Zenon, <1>7, <2>5
  <2>7. PICK c : c = cs[k]
    OBVIOUS
  <2>8. /\ <<c>> \o t \in Seq(CodePoint) /\ Len(<<c>> \o t) = n - k + 1
    <3>1. PICK j \in Nat : j = n - k
      BY <1>2
    <3>2. c \in CodePoint /\ t \in Seq(CodePoint) /\ Len(t) = j
      BY <2>2, <2>4, <2>7, <3>1
    <3>3. <<c>> \in Seq(CodePoint) /\ Len(<<c>>) = 1
      BY <3>2
    <3>4. <<c>> \o t \in Seq(CodePoint)
      BY <3>2, <3>3
    <3>5. Len(<<c>> \o t) = 1 + j
      BY <3>2, <3>3
    <3> QED
      BY <1>2, <3>1, <3>4, <3>5
  <2>9. \A m \in 1 .. n - k + 1 : (<<c>> \o t)[m] = v[m]
    <3> SUFFICES ASSUME NEW m \in 1 .. n - k + 1 PROVE (<<c>> \o t)[m] = v[m]
      OBVIOUS
    <3>1. CASE m = 1
      <4>1. (<<c>> \o t)[m] = c
        BY <2>2, <2>4, <2>7, <3>1
      <4>2. k + m - 1 = k
        BY <3>1
      <4> QED
        BY Zenon, <2>6, <2>7, <4>1, <4>2
    <3>2. CASE m # 1
      <4>1. m - 1 \in 1 .. n - k /\ k + 1 + (m - 1) - 1 = k + m - 1
        BY <1>2, <3>2
      <4>2. (<<c>> \o t)[m] = t[m - 1]
        BY <1>2, <2>2, <2>4, <2>7, <4>1
      <4> QED
        BY Zenon, <2>4, <2>6, <4>1, <4>2
    <3> QED
      BY <3>1, <3>2
  <2>10. <<c>> \o t = v
    <3>1. PICK q : q = <<c>> \o t
      OBVIOUS
    <3>2. q \in Seq(CodePoint) /\ Len(q) = Len(v) /\ \A m \in 1 .. Len(q) : q[m] = v[m]
      BY Zenon, <2>6, <2>8, <2>9, <3>1
    <3> QED
      BY <2>6, <3>1, <3>2
  <2> QED
    BY Zenon, <2>3, <2>5, <2>7, <2>10
<1>9. ASSUME NEW k \in 1 .. n, k < n => f[at[k + 1]] = T(k + 1)
      PROVE  f[at[k]] = T(k)
  <2>1. PICK a : a = at[k]
    OBVIOUS
  <2>2. PICK r : r = RuneAt(s, a)
    OBVIOUS
  <2>3. PICK l : l = Len(WriteUtf8(cs[k]))
    OBVIOUS
  <2>4. /\ r = <<cs[k], l>> /\ a \in 1 .. Len(s) /\ at[k + 1] = a + l
    BY Zenon, <1>3, <2>1, <2>2, <2>3
  <2>5. r # InvalidUtf8 /\ r[1] = cs[k] /\ r[2] = l
    BY <2>4 DEF InvalidUtf8
  <2>6. f[a] = AndRest(s, a, r, f)
    BY Zenon, <1>6, <2>2, <2>4
  <2>7. CASE k = n
    <3>1. a + r[2] > Len(s)
      <4>1. a + r[2] = Len(s) + 1
        BY Zenon, <1>4, <2>4, <2>5, <2>7
      <4> QED
        BY <1>2, <4>1
    <3>2. f[a] = <<cs[k]>>
      BY Zenon, <2>5, <2>6, <3>1 DEF AndRest
    <3>3. T(k) = <<cs[k]>>
      <4>1. n - k + 1 = 1 /\ k + 1 - 1 = k /\ 1 \in 1 .. 1
        BY <1>2, <2>7
      <4>2. PICK v : v = T(k)
        OBVIOUS
      <4>3. v \in Seq(CodePoint) /\ Len(v) = 1 /\ v[1] = cs[k]
        BY Zenon, <1>7, <4>1, <4>2
      <4>4. v = <<v[1]>>
        BY <4>3
      <4> QED
        BY Zenon, <4>2, <4>3, <4>4
    <3> QED
      BY Zenon, <2>1, <3>2, <3>3
  <2>8. CASE k # n
    <3>1. k < n /\ k + 1 \in 1 .. n
      BY <1>2, <2>8
    <3>2. at[k + 1] \in 1 .. Len(s)
      BY Zenon, <1>3, <3>1
    <3>3. ~ (a + r[2] > Len(s))
      <4>1. a + r[2] \in 1 .. Len(s)
        BY Zenon, <2>4, <2>5, <3>2
      <4> QED
        BY <1>2, <4>1
    <3>4. f[a + r[2]] = T(k + 1) /\ T(k + 1) # InvalidUtf8
      BY Zenon, <1>7, <1>9, <2>4, <2>5, <3>1 DEF InvalidUtf8
    <3>5. f[a] = <<cs[k]>> \o T(k + 1)
      BY Zenon, <2>5, <2>6, <3>3, <3>4 DEF AndRest
    <3> QED
      BY Zenon, <1>8, <2>1, <3>1, <3>5
  <2> QED
    BY Zenon, <2>7, <2>8
<1>10. Nat \subseteq S
  <2>1. 0 \in S
    <3>1. n - 0 = n /\ n \in 1 .. n /\ ~ (n < n)
      BY <1>2
    <3>2. f[at[n]] = T(n)
      BY Zenon, <1>9, <3>1
    <3> QED
      BY Zenon, <3>1, <3>2, 0 \in Nat
  <2>2. ASSUME NEW j \in Nat, j \in S
        PROVE  j + 1 \in S
    <3> SUFFICES ASSUME j + 1 < n
                 PROVE  f[at[n - (j + 1)]] = T(n - (j + 1))
      OBVIOUS
    <3>1. PICK k : k = n - (j + 1)
      OBVIOUS
    <3>2. k \in 1 .. n /\ k + 1 = n - j /\ j < n
      BY <1>2, <3>1
    <3>3. f[at[k + 1]] = T(k + 1)
      BY Zenon, <2>2, <3>2
    <3> QED
      BY Zenon, <1>9, <3>1, <3>2, <3>3
  <2> HIDE DEF S
  <2> QED
    BY Zenon, <2>1, <2>2, NatSetInduction
<1>11. Runes(s) = T(1)
  <2>1. PICK j : j = n - 1
    OBVIOUS
  <2>2. j \in Nat /\ j < n /\ n - j = 1
    BY <1>2, <2>1
  <2>3. f[at[1]] = T(1)
    BY Zenon, <1>10, <2>2
  <2> QED
    BY Zenon, <1>4, <1>6, <2>3
<1>12. T(1) = cs
  <2>1. 1 \in 1 .. n /\ n - 1 + 1 = n
    BY <1>2
  <2>2. PICK v : v = T(1)
    OBVIOUS
  <2>3. v \in Seq(CodePoint) /\ Len(v) = n /\ \A m \in 1 .. n : v[m] = cs[1 + m - 1]
    BY Zenon, <1>7, <2>1, <2>2
  <2>4. \A m \in 1 .. n : 1 + m - 1 = m
    OBVIOUS
  <2>5. \A m \in 1 .. n : v[m] = cs[m]
    BY Zenon, <2>3, <2>4
  <2>6. v = cs
    BY <1>1, <2>3, <2>5
  <2> QED
    BY Zenon, <2>2, <2>6
<1> QED
  BY Zenon, <1>11, <1>12

-----------------------------------------------------------------------------
(* UTF-16 and UTF-32 *)

\* the unit whose bytes begin at i, the low one first
Unit(b, i) == b[i] + 256 * b[i + 1]
Unicode == {x \in Nat : x < 1114112}       \* the code points UTF-16 has units for

\* b is the surrogates of x, the high one first.
HighSurrogates == 55296 .. 56319
LowSurrogates  == 56320 .. 57343
IsPair(b, x) == /\ Len(b) = 4
                /\ Unit(b, 1) \in HighSurrogates /\ Unit(b, 3) \in LowSurrogates
                /\ x = 65536 + 1024 * (Unit(b, 1) - 55296) + (Unit(b, 3) - 56320)

LEMMA TwoUnits ==
  ASSUME NEW p \in Byte256, NEW q \in Byte256, NEW r \in Byte256, NEW t \in Byte256
  PROVE  <<p, q>> \o <<r, t>> = <<p, q, r, t>>
<1>1. PICK u : u = <<p, q>>
  OBVIOUS
<1>2. PICK v : v = <<r, t>>
  OBVIOUS
<1>3. PICK w : w = <<p, q, r, t>>
  OBVIOUS
<1>4. PICK y : y = u \o v
  OBVIOUS
<1>5. u \in Seq(Byte256) /\ Len(u) = 2 /\ u[1] = p /\ u[2] = q
  BY SMTT(20), <1>1
<1>6. v \in Seq(Byte256) /\ Len(v) = 2 /\ v[1] = r /\ v[2] = t
  BY SMTT(20), <1>2
<1>7. w \in Seq(Byte256) /\ Len(w) = 4 /\ w[1] = p /\ w[2] = q /\ w[3] = r /\ w[4] = t
  BY SMTT(20), <1>3
<1>8. /\ y \in Seq(Byte256) /\ Len(y) = 4
      /\ y[1] = u[1] /\ y[2] = u[2] /\ y[3] = v[1] /\ y[4] = v[2]
  <2>1. /\ y \in Seq(Byte256) /\ Len(y) = Len(u) + Len(v)
        /\ \A i \in 1 .. Len(u) + Len(v) : y[i] = IF i <= Len(u) THEN u[i] ELSE v[i - Len(u)]
    <3>1. u \in Seq(Byte256) /\ v \in Seq(Byte256)
      BY Zenon, <1>5, <1>6
    <3> QED
      BY SMTT(20), <1>4, <3>1, ConcatProperties
  <2>2. Len(u) = 2 /\ Len(v) = 2
    BY Zenon, <1>5, <1>6
  <2> QED
    BY SMTT(20), <2>1, <2>2
<1>9. \A i \in 1 .. 4 : y[i] = w[i]
  <2>1. \A i \in 1 .. 4 : i = 1 \/ i = 2 \/ i = 3 \/ i = 4
    BY SMTT(20)
  <2> QED
    BY Zenon, <1>5, <1>6, <1>7, <1>8, <2>1
<1>10. y = w
  BY SMTT(20), <1>7, <1>8, <1>9
<1> QED
  BY Zenon, <1>1, <1>2, <1>3, <1>4, <1>10

\* to_utf16 writes a code point of the basic plane as one unit and another as a high and
\* a low surrogate it can be had back from, each unit in two bytes (encoding.c:55).
THEOREM Utf16ReadsBack ==
  ASSUME NEW x \in Unicode, NEW b, b = Utf16Units(x)
  PROVE  /\ \A i \in DOMAIN b : b[i] \in Byte256
         /\ IF x < 65536 THEN Len(b) = 2 /\ Unit(b, 1) = x ELSE IsPair(b, x)
<1>0. x \in Nat /\ x < 1114112
  BY SMTT(20) DEF Unicode
<1>2. CASE x < 65536
  <2>1. PICK p : p = x % 256
    BY SMTT(20)
  <2>2. PICK q : q = x \div 256
    BY SMTT(20)
  <2>3. p \in Byte256 /\ q \in Byte256 /\ x = p + 256 * q
    BY SMTT(20), <1>0, <1>2, <2>1, <2>2 DEF Byte256
  <2>4. b = <<p, q>>
    BY SMTT(20), <1>0, <1>2, <2>1, <2>2 DEF Utf16Units, Write16
  <2>5. Len(b) = 2 /\ b[1] = p /\ b[2] = q /\ DOMAIN b = {1, 2}
    BY SMTT(20), <2>4
  <2>6. Unit(b, 1) = x
    <3>1. Unit(b, 1) = b[1] + 256 * b[2]
      BY SMTT(20) DEF Unit
    <3> QED
      BY SMTT(20), <2>3, <2>5, <3>1
  <2>7. \A i \in DOMAIN b : b[i] \in Byte256
    BY SMTT(20), <2>3, <2>5
  <2> QED
    BY SMTT(20), <1>2, <2>5, <2>6, <2>7
<1>3. CASE x >= 65536
  <2>1. PICK h : h = 55232 + x \div 1024
    BY SMTT(20)
  <2>2. PICK l : l = 56320 + (x % 1024)
    BY SMTT(20)
  <2>3. /\ h \in Nat /\ 55296 <= h /\ h < 56320 /\ l \in Nat /\ 56320 <= l /\ l < 57344
        /\ x = 65536 + 1024 * (h - 55296) + (l - 56320)
    BY SMTT(20), <1>0, <1>3, <2>1, <2>2
  <2>4. PICK h0 : h0 = h % 256
    BY SMTT(20)
  <2>5. PICK h1 : h1 = h \div 256
    BY SMTT(20)
  <2>6. PICK l0 : l0 = l % 256
    BY SMTT(20)
  <2>7. PICK l1 : l1 = l \div 256
    BY SMTT(20)
  <2>8. /\ h0 \in Byte256 /\ h1 \in Byte256 /\ h = h0 + 256 * h1
        /\ l0 \in Byte256 /\ l1 \in Byte256 /\ l = l0 + 256 * l1
    BY SMTT(20), <2>3, <2>4, <2>5, <2>6, <2>7 DEF Byte256
  <2>9. b = <<h0, h1>> \o <<l0, l1>>
    <3>1. b = Write16(h) \o Write16(l)
      BY SMTT(20), <1>0, <1>3, <2>1, <2>2 DEF Utf16Units
    <3>2. Write16(h) = <<h0, h1>> /\ Write16(l) = <<l0, l1>>
      BY SMTT(20), <2>4, <2>5, <2>6, <2>7 DEF Write16
    <3> QED
      BY SMTT(20), <3>1, <3>2
  <2>10. b = <<h0, h1, l0, l1>>
    BY SMTT(20), <2>8, <2>9, TwoUnits
  <2>11. Len(b) = 4 /\ b[1] = h0 /\ b[2] = h1 /\ b[3] = l0 /\ b[4] = l1 /\ DOMAIN b = 1 .. 4
    BY SMTT(20), <2>10
  <2>12. \A i \in DOMAIN b : b[i] \in Byte256
    <3>1. b[1] \in Byte256 /\ b[2] \in Byte256 /\ b[3] \in Byte256 /\ b[4] \in Byte256
      BY SMTT(20), <2>8, <2>11
    <3>2. DOMAIN b = 1 .. 4
      BY SMTT(20), <2>11
    <3> QED
      BY SMTT(20), <3>1, <3>2
  <2>13. Unit(b, 1) = h /\ Unit(b, 3) = l
    <3>1. Unit(b, 1) = b[1] + 256 * b[2] /\ Unit(b, 3) = b[3] + 256 * b[4]
      BY SMTT(20) DEF Unit
    <3> QED
      BY SMTT(20), <2>8, <2>11, <3>1
  <2>14. IsPair(b, x)
    <3>1. Len(b) = 4
      BY SMTT(20), <2>11
    <3>2. h \in HighSurrogates /\ l \in LowSurrogates
      BY SMTT(20), <2>3 DEF HighSurrogates, LowSurrogates
    <3>3. Unit(b, 1) \in HighSurrogates /\ Unit(b, 3) \in LowSurrogates
      BY <2>13, <3>2, Zenon
    <3>4. x = 65536 + 1024 * (Unit(b, 1) - 55296) + (Unit(b, 3) - 56320)
      BY SMTT(20), <2>3, <2>13
    <3> QED
      BY SMTT(20), <3>1, <3>3, <3>4 DEF IsPair
  <2>15. ~ (x < 65536)
    BY SMTT(20), <1>0, <1>3
  <2> QED
    BY SMTT(20), <2>12, <2>14, <2>15
<1> QED
  BY SMTT(20), <1>0, <1>2, <1>3

\* to_utf32 writes the four bytes of a code point, the low one first (encoding.c:50).
THEOREM Utf32ReadsBack ==
  ASSUME NEW x \in CodePoint, NEW b, b = Write32(x)
  PROVE  /\ Len(b) = 4 /\ \A i \in 1 .. 4 : b[i] \in Byte256
         /\ x = Unit(b, 1) + 65536 * Unit(b, 3)
<1>0. x \in Nat /\ x < 2097152
  BY SMTT(20) DEF CodePoint
<1>1. PICK h : h = x \div 65536
  BY SMTT(20)
<1>2. PICK l : l = x % 65536
  BY SMTT(20)
<1>3. /\ h \in Nat /\ h < 32 /\ l \in Nat /\ l < 65536 /\ x = l + 65536 * h
  BY SMTT(20), <1>0, <1>1, <1>2
<1>4. PICK h0 : h0 = h % 256
  BY SMTT(20)
<1>5. PICK h1 : h1 = h \div 256
  BY SMTT(20)
<1>6. PICK l0 : l0 = l % 256
  BY SMTT(20)
<1>7. PICK l1 : l1 = l \div 256
  BY SMTT(20)
<1>8. /\ h0 \in Byte256 /\ h1 \in Byte256 /\ h = h0 + 256 * h1
      /\ l0 \in Byte256 /\ l1 \in Byte256 /\ l = l0 + 256 * l1
  BY SMTT(20), <1>3, <1>4, <1>5, <1>6, <1>7 DEF Byte256
<1>9. b = <<l0, l1>> \o <<h0, h1>>
  BY SMTT(20), <1>1, <1>2, <1>4, <1>5, <1>6, <1>7 DEF Write32, Write16
<1>10. b = <<l0, l1, h0, h1>>
  BY SMTT(20), <1>8, <1>9, TwoUnits
<1>11. Len(b) = 4 /\ b[1] = l0 /\ b[2] = l1 /\ b[3] = h0 /\ b[4] = h1
  BY SMTT(20), <1>10
<1>12. \A i \in 1 .. 4 : b[i] \in Byte256
  <2>1. b[1] \in Byte256 /\ b[2] \in Byte256 /\ b[3] \in Byte256 /\ b[4] \in Byte256
    BY SMTT(20), <1>8, <1>11
  <2> QED
    BY SMTT(20), <2>1
<1>13. Unit(b, 1) = l /\ Unit(b, 3) = h
  <2>1. Unit(b, 1) = b[1] + 256 * b[2] /\ Unit(b, 3) = b[3] + 256 * b[4]
    BY SMTT(20) DEF Unit
  <2> QED
    BY SMTT(20), <1>8, <1>11, <2>1
<1> QED
  BY SMTT(20), <1>3, <1>11, <1>12, <1>13
=============================================================================
