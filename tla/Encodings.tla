----------------------------- MODULE Encodings -----------------------------
(* Text and data written in another alphabet and read back: URL escapes,    *)
(* quoted strings, hexadecimal digits, Base64 and Punycode (string.c,       *)
(* block.c, punycode.c). A text is the sequence of its code points, a block *)
(* the sequence of its bytes; the numbers are the real ones.                *)
EXTENDS Integers, Sequences, SequencesExt

CONSTANTS Codes,       \* the code points texts are made of; all but 0
          MaxCodes,    \* bound on the length of a text
          MaxUint      \* the largest number Punycode counts with, 2^32 - 1

VARIABLE text

Init == text = <<>>
Next == \/ Len(text) < MaxCodes /\ \E c \in Codes : text' = Append(text, c)
        \/ text' = <<>>

From(s, n) == SubSeq(s, n, Len(s))
HexDigit(d, a) == IF d < 10 THEN 48 + d ELSE a + d - 10       \* a: 65 or 97

(* UTF-8 and UTF-16 are external (libunistring).                            *)
init_MultibyteChar(c) ==
  LET trail(k) == 128 + ((c \div 64 ^ k) % 64)
  IN  IF c < 128 THEN <<c>>
      ELSE IF c < 2048 THEN <<192 + c \div 64, trail(0)>>
      ELSE IF c < 65536 THEN <<224 + c \div 4096, trail(1), trail(0)>>
      ELSE <<240 + c \div 262144, trail(2), trail(1), trail(0)>>

Utf8(s) == FlattenSeq([i \in DOMAIN s |-> init_MultibyteChar(s[i])])
Surrogates == 55296..57343
Utf16(c) == IF c < 65536 THEN <<c>>
            ELSE <<55296 + (c - 65536) \div 1024, 56320 + ((c - 65536) % 1024)>>
CodeOf(hi, lo) == 65536 + (hi - 55296) * 1024 + (lo - 56320)

-----------------------------------------------------------------------------
(* URL escapes: "%" and two digits for a byte. The terminating zero is in   *)
(* every list of excluded characters.                                       *)

Excluded(b, excluded) == b = 0 \/ b \in excluded
Unreserved(b) == b \in 65..90 \cup 97..122 \cup 48..57 \cup {45, 95, 46, 126}

maybeUrlEncodeExclude_String(s, excluded) ==
  FlattenSeq([i \in DOMAIN s |->
    IF Unreserved(s[i]) \/ Excluded(s[i], excluded) THEN <<s[i]>>
    ELSE <<37, HexDigit(s[i] \div 16, 65), HexDigit(s[i] % 16, 65)>>])

fromHexUrl_(b) == CASE b \in 48..57 -> b - 48 [] b \in 65..70 -> b - 55
                    [] b \in 97..102 -> b - 87 [] OTHER -> -1

RECURSIVE maybeUrlDecodeExclude_String(_, _)
maybeUrlDecodeExclude_String(s, excluded) ==
  IF s = <<>> THEN <<>>
  ELSE LET isHex == s[1] = 37 /\ Len(s) >= 3 /\ fromHexUrl_(s[2]) >= 0 /\ fromHexUrl_(s[3]) >= 0
           b == 16 * fromHexUrl_(s[2]) + fromHexUrl_(s[3])
       IN  IF isHex /\ ~Excluded(b, excluded)
           THEN <<b>> \o maybeUrlDecodeExclude_String(From(s, 4), excluded)
           ELSE <<s[1]>> \o maybeUrlDecodeExclude_String(Tail(s), excluded)

-----------------------------------------------------------------------------
(* Quoted strings.                                                          *)

Escapes == <<<<34, 34>>, <<92, 92>>, <<10, 110>>, <<13, 114>>, <<9, 116>>>>
EscapeOf(c) == SelectSeq(Escapes, LAMBDA e : e[1] = c)
MeaningOf(c) == SelectSeq(Escapes, LAMBDA e : e[2] = c)

Numeric(u) == <<92, 117>> \o [k \in 1..4 |-> HexDigit((u \div 16 ^ (4 - k)) % 16, 97)]
NumberIn(s) == FoldLeft(LAMBDA n, b : 16 * n + fromHexUrl_(b), 0, s)

quote_String(s, numericUnicode) ==
  FlattenSeq([i \in DOMAIN s |->
    IF EscapeOf(s[i]) # <<>> THEN <<92, EscapeOf(s[i])[1][2]>>
    ELSE IF numericUnicode /\ s[i] >= 128
         THEN FlattenSeq([k \in DOMAIN Utf16(s[i]) |-> Numeric(Utf16(s[i])[k])])
         ELSE <<s[i]>>])

\* Mutant: the second half of a pair is read where the first one ends.
RECURSIVE UnquoteHalf(_)
UnquoteHalf(s) ==
  IF s = <<>> THEN <<>>
  ELSE IF s[1] # 92 THEN <<s[1]>> \o UnquoteHalf(Tail(s))
  ELSE IF s[2] # 117 THEN <<MeaningOf(s[2])[1][1]>> \o UnquoteHalf(From(s, 3))
  ELSE LET u == NumberIn(SubSeq(s, 3, 6))
       IN  IF u \notin Surrogates THEN <<u>> \o UnquoteHalf(From(s, 7))
           ELSE <<CodeOf(u, NumberIn(SubSeq(s, 7, 10)))>> \o UnquoteHalf(From(s, 11))

(* Of a text that quote_String made; it asserts that an escape is known.    *)
RECURSIVE unquoteDelim_String(_)
unquoteDelim_String(s) ==
  IF s = <<>> THEN <<>>
  ELSE IF s[1] # 92 THEN <<s[1]>> \o unquoteDelim_String(Tail(s))
  ELSE IF s[2] # 117 THEN <<MeaningOf(s[2])[1][1]>> \o unquoteDelim_String(From(s, 3))
  ELSE LET u == NumberIn(SubSeq(s, 3, 6))
       IN  IF u \notin Surrogates THEN <<u>> \o unquoteDelim_String(From(s, 7))
           ELSE <<CodeOf(u, NumberIn(SubSeq(s, 9, 12)))>> \o unquoteDelim_String(From(s, 13))

-----------------------------------------------------------------------------
(* Hexadecimal digits and Base64.                                           *)

hexEncode_Block(s) ==
  FlattenSeq([i \in DOMAIN s |-> <<HexDigit(s[i] \div 16, 97), HexDigit(s[i] % 16, 97)>>])

fromHex_(b) == IF b >= 97 THEN b - 87 ELSE IF b >= 65 THEN b - 55 ELSE b - 48
hexDecode_Rangecc(s) ==
  [i \in 1..Len(s) \div 2 |-> (16 * fromHex_(s[2 * i - 1]) + fromHex_(s[2 * i])) % 256]

base64Table_(n) == CASE n < 26 -> 65 + n [] n \in 26..51 -> 71 + n
                     [] n \in 52..61 -> n - 4 [] n = 62 -> 43 [] n = 63 -> 47
base64Index_(b) == CASE b = 61 -> 0 [] b = 47 -> 63 [] b = 43 -> 62
                     [] b >= 97 -> b - 71 [] b \in 65..96 -> b - 65 [] OTHER -> b + 4

(* Three bytes in four digits; a group that is cut short ends in "=".       *)
Group(s) ==
  LET b == s \o [i \in 1..3 - Len(s) |-> 0]
      digits == <<b[1] \div 4, (b[1] % 4) * 16 + (b[2] \div 16),
                  (b[2] % 16) * 4 + (b[3] \div 64), b[3] % 64>>
  IN  [i \in 1..4 |-> IF i > Len(s) + 1 THEN 61 ELSE base64Table_(digits[i])]

base64Encode_Block(s) ==
  FlattenSeq([g \in 1..(Len(s) + 2) \div 3 |->
    Group(SubSeq(s, 3 * g - 2, IF 3 * g < Len(s) THEN 3 * g ELSE Len(s)))])

(* Digits are collected in sixteen bits and leave as bytes from the top.    *)
base64Decode_Block(s) ==
  LET take(d, b) ==
        LET comp == d.comp + base64Index_(b) * 2 ^ d.shift
        IN  IF d.shift <= 8
            THEN [comp |-> (comp * 256) % 65536, shift |-> d.shift + 2, out |-> Append(d.out, comp \div 256)]
            ELSE [d EXCEPT !.comp = comp, !.shift = d.shift - 6]
  IN  FoldLeft(take, [comp |-> 0, shift |-> 10, out |-> <<>>], s).out

-----------------------------------------------------------------------------
(* Punycode: the basic code points, "-", and a number in base 36 for each   *)
(* of the others. An output that does not fit is tried again with twice the *)
(* room, which changes nothing; too large a number is an error (no result). *)

Error == [error |-> TRUE]
threshold_(k, bias) == IF k <= bias THEN 1 ELSE IF k >= bias + 26 THEN 26 ELSE k - bias
encodeDigit_(d) == IF d < 26 THEN d + 97 ELSE d + 22
decodeDigit_(b) == CASE b \in 48..57 -> b - 22 [] b \in 65..90 -> b - 65
                     [] b \in 97..122 -> b - 97 [] OTHER -> 36

RECURSIVE Scale(_, _)
Scale(delta, k) == IF delta > (35 * 26) \div 2 THEN Scale(delta \div 35, k + 36)
                   ELSE k + ((36 * delta) \div (delta + 38))

adapt_(delta, points, first) ==
  LET d == IF first THEN delta \div 700 ELSE delta \div 2 IN Scale(d + d \div points, 0)

RECURSIVE Digits(_, _, _)
Digits(q, k, bias) ==
  LET t == threshold_(k, bias)
  IN  IF q < t THEN <<encodeDigit_(q)>>
      ELSE <<encodeDigit_(t + ((q - t) % (36 - t)))>> \o Digits((q - t) \div (36 - t), k + 36, bias)

RECURSIVE Rounds(_, _, _)
Rounds(s, basic, d) ==
  IF d.h >= Len(s) THEN d.out
  ELSE LET m == CHOOSE c \in {s[j] : j \in DOMAIN s} :
                  c >= d.n /\ \A j \in DOMAIN s : s[j] >= d.n => c <= s[j]
           point(e, c) ==
             IF c < m THEN [e EXCEPT !.delta = @ + 1]
             ELSE IF c > m THEN e
             ELSE [e EXCEPT !.out = @ \o Digits(e.delta, 36, e.bias), !.delta = 0, !.h = @ + 1,
                            !.bias = adapt_(e.delta, e.h + 1, e.h = basic)]
           all == FoldLeft(point, [d EXCEPT !.delta = @ + (m - d.n) * (d.h + 1)], s)
       IN  IF m - d.n > (MaxUint - d.delta) \div (d.h + 1) THEN Error
           ELSE Rounds(s, basic, [all EXCEPT !.delta = @ + 1, !.n = m + 1])

punyEncode_Rangecc(s) ==
  LET basic == SelectSeq(s, LAMBDA c : c < 128)
  IN  Rounds(s, Len(basic), [n |-> 128, delta |-> 0, bias |-> 72, h |-> Len(basic),
                             out |-> IF basic = <<>> THEN <<>> ELSE Append(basic, 45)])

(* One number, read from position d.at: [i, at], or an error.               *)
RECURSIVE Number(_, _, _, _, _)
Number(s, bias, d, w, k) ==
  IF d.at > Len(s) THEN Error
  ELSE LET digit == decodeDigit_(s[d.at])
           t == threshold_(k, bias)
           i == d.i + digit * w
       IN  IF digit >= 36 \/ digit > (MaxUint - d.i) \div w THEN Error
           ELSE IF digit < t THEN [i |-> i, at |-> d.at + 1]
           ELSE IF w > MaxUint \div (36 - t) THEN Error
           ELSE Number(s, bias, [i |-> i, at |-> d.at + 1], w * (36 - t), k + 36)

RECURSIVE Points(_, _)
Points(s, d) ==
  IF d.at > Len(s) THEN d.out
  ELSE LET v == Number(s, d.bias, [i |-> d.i, at |-> d.at], 1, 36)
           points == Len(d.out) + 1
       IN  IF v = Error THEN Error
           ELSE IF v.i \div points > MaxUint - d.n THEN Error
           ELSE LET n == d.n + v.i \div points
                IN  Points(s, [at |-> v.at, n |-> n, i |-> (v.i % points) + 1,
                               bias |-> adapt_(v.i - d.i, points, d.i = 0),
                               out |-> InsertAt(d.out, (v.i % points) + 1, n)])

punyDecode_Rangecc(s) ==
  LET b == SelectLastInSeq(s, LAMBDA c : c = 45) - 1        \* position of the last "-"
  IN  IF \E j \in 1..b : s[j] >= 128 THEN Error
      ELSE Points(s, [at |-> IF b > 0 THEN b + 2 ELSE 1, n |-> 128, i |-> 0, bias |-> 72,
                      out |-> SubSeq(s, 1, b)])

-----------------------------------------------------------------------------

(* What is written in one of the alphabets is read back as it was: URL      *)
(* escapes with any characters excluded but "%" itself, quoted strings with *)
(* numeric escapes or without, hexadecimal digits, Punycode, and Base64     *)
(* but for the zero bytes that fill the last group.                         *)
ReadsBack ==
  LET bytes == Utf8(text)
      filler == [i \in 1..(2 * Len(bytes)) % 3 |-> 0]
  IN  /\ \A x \in {{}, {32}, {47, 65}} :
           maybeUrlDecodeExclude_String(maybeUrlEncodeExclude_String(bytes, x), {}) = bytes
      /\ \A numeric \in BOOLEAN : unquoteDelim_String(quote_String(text, numeric)) = text
      /\ hexDecode_Rangecc(hexEncode_Block(bytes)) = bytes
      /\ base64Decode_Block(base64Encode_Block(bytes)) = bytes \o filler
      /\ punyDecode_Rangecc(punyEncode_Rangecc(text)) = text
=============================================================================
