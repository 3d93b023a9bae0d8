-------------------------------- MODULE Text --------------------------------
(* Searching, comparing and cutting UTF-8 strings (string.c). A string is a  *)
(* sequence of bytes; positions are offsets, as in the code; -1 is "none".   *)
EXTENDS Encodings

None == -1
Least(m, n) == IF m < n THEN m ELSE n
Sub(s, from, to) == SubSeq(s, from + 1, to)          \* the bytes from..to - 1
At(s, p, x) == p >= 0 /\ p + Len(x) <= Len(s) /\ Sub(s, p, p + Len(x)) = x

(* External: libc and libunistring.                                          *)
Width(b) == IF b < 128 THEN 1 ELSE IF b < 224 THEN 2 ELSE IF b < 240 THEN 3 ELSE 4
CodeAt(s, p) == CHOOSE c \in Codes \cup {75} : At(s, p, init_MultibyteChar(c))
lower_Char(c) == CASE c \in 65..90 -> c + 32 [] c = 8490 -> 107 [] OTHER -> c
upper_Char(c) == IF c \in 97..122 THEN c - 32 ELSE c
isSpace_Char(c) == c = 32
u8_cmp2(a, b) ==
  LET differ == {i \in 1..Least(Len(a), Len(b)) : a[i] # b[i]}
      i == CHOOSE i \in differ : \A j \in differ : i <= j
  IN  IF differ # {} THEN a[i] - b[i] ELSE Len(a) - Len(b)
strstr(s, from, x) ==
  LET found == {p \in from..Len(s) : At(s, p, x)}
  IN  IF found = {} THEN None ELSE CHOOSE p \in found : \A q \in found : p <= q

-----------------------------------------------------------------------------
(* Characters: the offsets an iterator visits, forwards and backwards.       *)

RECURSIVE StringConstIterator(_, _), StringReverseConstIterator(_, _)
StringConstIterator(s, p) ==
  IF p = Len(s) THEN <<>> ELSE <<p>> \o StringConstIterator(s, p + Width(s[p + 1]))
StringReverseConstIterator(s, p) ==
  IF p = 0 THEN <<>>
  ELSE LET q == CHOOSE q \in 0..p - 1 : q + Width(s[q + 1]) = p /\ s[q + 1] \notin 128..191
       IN  <<q>> \o StringReverseConstIterator(s, q)

length_String(s) == Len(StringConstIterator(s, 0))
OffsetOf(s, n) == IF n < length_String(s) THEN StringConstIterator(s, 0)[n + 1] ELSE Len(s)

truncate_String(s, n) == Sub(s, 0, OffsetOf(s, n))
removeEnd_String(s, n) ==
  IF n = 0 THEN s ELSE IF n < length_String(s) THEN truncate_String(s, length_String(s) - n) ELSE <<>>
mid_String(s, start, count) ==
  IF count = 0 THEN <<>> ELSE Sub(s, OffsetOf(s, start), OffsetOf(s, start + count))

RECURSIVE trimStart_Rangecc(_), trimEnd_Rangecc(_)
trimStart_Rangecc(s) ==
  IF s # <<>> /\ isSpace_Char(CodeAt(s, 0)) THEN trimStart_Rangecc(From(s, Width(s[1]) + 1)) ELSE s
trimEnd_Rangecc(s) ==
  IF s # <<>> /\ isSpace_Char(CodeAt(s, Head(StringReverseConstIterator(s, Len(s)))))
  THEN trimEnd_Rangecc(Sub(s, 0, Head(StringReverseConstIterator(s, Len(s))))) ELSE s
trim_String(s) == trimEnd_Rangecc(trimStart_Rangecc(s))

-----------------------------------------------------------------------------
(* Comparing.                                                                *)

iCmpStrN(a, b, n) == u8_cmp2(Sub(a, 0, Least(n, Len(a))), Sub(b, 0, Least(n, Len(b))))

cmpCStrNSc_Rangecc(s, x, n) ==
  LET cmp == iCmpStrN(s, x, Least(n, Len(s)))
  IN  IF cmp # 0 THEN cmp ELSE IF n = Len(s) THEN 0 ELSE IF Len(s) < n THEN -1 ELSE 1

(* The first n bytes of s.                                                   *)
iCmpStrRange(s, n, x) ==
  LET cmp == iCmpStrN(s, x, n)
  IN  IF cmp = 0 /\ Len(x) # n THEN (IF n < Len(x) THEN -1 ELSE 1) ELSE cmp

startsWithSc_Rangecc(s, x) == Len(s) >= Len(x) /\ iCmpStrN(s, x, Len(x)) = 0
endsWithSc_Rangecc(s, x) ==
  Len(s) >= Len(x) /\ iCmpStrN(From(s, Len(s) - Len(x) + 1), x, Len(x)) = 0

(* Unchanged text shares its data; cmp_Block looks at the common length.     *)
ChangeCase(s, change(_)) ==
  LET new == FlattenSeq([i \in 1..length_String(s) |->
                           init_MultibyteChar(change(CodeAt(s, OffsetOf(s, i - 1))))])
      n == Least(Len(new), Len(s))
  IN  IF Sub(new, 0, n) = Sub(s, 0, n) THEN s ELSE new
upper_String(s) == ChangeCase(s, upper_Char)
lower_String(s) == ChangeCase(s, lower_Char)

-----------------------------------------------------------------------------
(* Searching and replacing.                                                  *)

indexOfCStrFromSc_String(s, x, from) == IF from >= Len(s) THEN None ELSE strstr(s, from, x)

\* Mutant: the search ends before the first position.
LastIndexAfterFirst(s, x) ==
  LET found == {p \in 1..Len(s) : iCmpStrN(From(s, p + 1), x, Len(x)) = 0}
  IN  IF Len(x) > Len(s) \/ found = {} THEN None ELSE CHOOSE p \in found : \A q \in found : p >= q

lastIndexOfCStr_Rangecc(s, x) ==
  LET found == {p \in 0..Len(s) - Len(x) : iCmpStrN(From(s, p + 1), x, Len(x)) = 0}
  IN  IF Len(x) > Len(s) \/ found = {} THEN None ELSE CHOOSE p \in found : \A q \in found : p >= q

findAscii_Rangecc(s, end, c) == LET p == strstr(s, 0, <<c>>) IN IF p = None \/ p >= end THEN None ELSE p

(* Ignoring case: too large a needle is not looked for, the search gives up  *)
(* when the text ends within a match, and nothing is found for no needle.    *)
RECURSIVE Matches(_, _, _, _), SearchFrom(_, _, _)
Matches(s, p, x, q) ==                          \* "yes", "no", "end": the text ended
  IF q >= Len(x) THEN "yes"
  ELSE IF p >= Len(s) THEN "end"
  ELSE IF lower_Char(CodeAt(s, p)) # lower_Char(CodeAt(x, q)) THEN "no"
  ELSE Matches(s, p + Width(s[p + 1]), x, q + Width(x[q + 1]))
SearchFrom(s, p, x) ==
  IF p >= Len(s) THEN None
  ELSE CASE Matches(s, p, x, 0) = "yes" -> p
         [] Matches(s, p, x, 0) = "end" -> None
         [] OTHER -> SearchFrom(s, p + Width(s[p + 1]), x)
strcasestr_(s, x) == IF x = <<>> \/ Len(x) > Len(s) THEN None ELSE SearchFrom(s, 0, x)

RECURSIVE ReplaceFrom(_, _, _, _)
ReplaceFrom(s, from, x, y) ==
  LET p == indexOfCStrFromSc_String(s, x, from)
  IN  IF p = None THEN s
      ELSE ReplaceFrom(Sub(s, 0, p) \o y \o Sub(s, p + Len(x), Len(s)), p + Len(y), x, y)
replace_String(s, x, y) == ReplaceFrom(s, 0, x, y)

-----------------------------------------------------------------------------
(* The next part of the first "end" bytes of s between separators; the       *)
(* separator is looked for in all of s.                                      *)

Stop == [start |-> None, end |-> None]
PartFrom(s, end, x, start) ==
  LET found == strstr(s, start, x)
  IN  [start |-> start, end |-> IF found # None /\ found < end THEN found ELSE end]

nextSplit_Rangecc(s, end, x, range) ==
  IF range.start = None
  THEN IF Len(x) > end \/ cmpCStrNSc_Rangecc(Sub(s, 0, end), x, Len(x)) = 0 THEN Stop
       ELSE PartFrom(s, end, x, IF iCmpStrN(s, x, Len(x)) = 0 THEN Len(x) ELSE 0)
  ELSE IF range.start = end \/ range.end + Len(x) >= end THEN Stop
  ELSE PartFrom(s, end, x, range.end + Len(x))

RECURSIVE SplitFrom(_, _, _, _)
SplitFrom(s, end, x, range) ==
  LET next == nextSplit_Rangecc(s, end, x, range)
  IN  IF next = Stop THEN <<>> ELSE <<Sub(s, next.start, next.end)>> \o SplitFrom(s, end, x, next)
split_Rangecc(s, end, x) == SplitFrom(s, end, x, Stop)

-----------------------------------------------------------------------------
(* Regular expressions (regexp.c). A match has the range of all of it and    *)
(* those of its groups, and where the next search begins.                    *)

(* External: the first match at or after a position; the pattern is an A and *)
(* a group of any number of a.                                               *)
pcre2_match(s, from) ==
  LET p == strstr(s, from, <<65>>)
      end == CHOOSE e \in p + 1..Len(s) : /\ \A i \in p + 2..e : s[i] = 97
                                          /\ e < Len(s) => s[e + 1] # 97
  IN  IF p = None THEN <<>> ELSE <<[start |-> p, end |-> end], [start |-> p + 1, end |-> end]>>

init_RegExpMatch == [pos |-> 0, ranges |-> <<>>]
match_RegExp(s, m) ==
  LET ranges == IF m.pos > Len(s) THEN <<>> ELSE pcre2_match(s, m.pos)
  IN  IF ranges = <<>> THEN Stop ELSE [pos |-> ranges[1].end, ranges |-> ranges]
capturedRange_RegExpMatch(s, m, index) ==
  IF index < Len(m.ranges) THEN Sub(s, m.ranges[index + 1].start, m.ranges[index + 1].end) ELSE <<>>

(* A replacement, with the groups it refers to: \\ is a backslash, \1 the     *)
(* first group; another character after a backslash is dropped.              *)
RECURSIVE Referring(_, _, _), ReplaceMatches(_, _, _, _)
Referring(s, y, m) ==
  IF y = <<>> THEN <<>>
  ELSE IF y[1] # 92 THEN <<y[1]>> \o Referring(s, Tail(y), m)
  ELSE (CASE y[2] = 92 -> <<92>>
          [] y[2] \in 48..57 -> capturedRange_RegExpMatch(s, m, y[2] - 48)
          [] OTHER -> <<>>) \o Referring(s, From(y, 3), m)
ReplaceMatches(s, y, pos, m) ==
  LET next == match_RegExp(s, m)
  IN  IF next = Stop THEN From(s, pos + 1)
      ELSE Sub(s, pos, next.ranges[1].start) \o Referring(s, y, next)
             \o ReplaceMatches(s, y, next.ranges[1].end, next)
replaceRegExp_String(s, y) == ReplaceMatches(s, y, 0, init_RegExpMatch)

-----------------------------------------------------------------------------

(* What a reader of the interface expects.                                   *)
RECURSIVE PartsBetween(_, _)
PartsBetween(s, x) ==
  LET p == strstr(s, 0, x)
  IN  IF p = None THEN <<s>> ELSE <<Sub(s, 0, p)>> \o PartsBetween(From(s, p + Len(x) + 1), x)
DropFirst(t) == IF t # <<>> /\ Head(t) = <<>> THEN Tail(t) ELSE t
DropLast(t) == IF t # <<>> /\ Last(t) = <<>> THEN Front(t) ELSE t
Join(t, x) == FlattenSeq([i \in DOMAIN t |-> IF i = Len(t) THEN t[i] ELSE t[i] \o x])
Lowered(t) == [i \in DOMAIN t |-> lower_Char(t[i])]
Sign(n) == IF n < 0 THEN -1 ELSE IF n > 0 THEN 1 ELSE 0

\* Whether a separator lies across the end of a range.
Straddles(s, end, x) == \E p \in 0..end : p < end /\ p + Len(x) > end /\ At(s, p, x)

CutsCharacters(s) ==
  /\ StringReverseConstIterator(s, Len(s)) = Reverse(StringConstIterator(s, 0))
  /\ \A n \in 0..Len(text) + 1 :
       LET k == Least(n, Len(text))
       IN  /\ truncate_String(s, n) = Utf8(Sub(text, 0, k))
           /\ removeEnd_String(s, n) = Utf8(Sub(text, 0, Len(text) - k))
           /\ \A c \in 0..Len(text) : mid_String(s, n, c) = Utf8(Sub(text, n, Least(n + c, Len(text))))
  /\ \E i, j \in 0..Len(text) :
       /\ \A k \in DOMAIN text : (k <= i \/ k > Len(text) - j) => isSpace_Char(text[k])
       /\ trim_String(s) = (IF i + j >= Len(text) THEN <<>> ELSE Utf8(Sub(text, i, Len(text) - j)))
       /\ trim_String(s) # <<>> => ~isSpace_Char(text[i + 1]) /\ ~isSpace_Char(text[Len(text) - j])
  /\ upper_String(s) = Utf8([k \in DOMAIN text |-> upper_Char(text[k])])
  /\ lower_String(s) = Utf8(Lowered(text))

(* Every A with the a's after it, between what there is to the next A.       *)
ReplacesMatches(s) ==
  LET parts == PartsBetween(s, <<65>>)
      Run(part) == CHOOSE n \in 0..Len(part) : /\ \A i \in 1..n : part[i] = 97
                                               /\ n < Len(part) => part[n + 1] # 97
      As(part) == Sub(part, 0, Run(part))
  IN  replaceRegExp_String(s, <<92, 49, 45, 92, 92, 92, 48, 92, 50>>) =
        parts[1] \o FlattenSeq([i \in 1..Len(parts) - 1 |->
          As(parts[i + 1]) \o <<45, 92, 65>> \o As(parts[i + 1]) \o From(parts[i + 1], Run(parts[i + 1]) + 1)])

Compares(s, x) ==
  LET places == {p \in 0..Len(s) : At(s, p, x)}
  IN  /\ Sign(cmpCStrNSc_Rangecc(s, x, Len(x))) = Sign(u8_cmp2(s, x))
      /\ \A n \in 0..Len(s) : Sign(iCmpStrRange(s, n, x)) = Sign(u8_cmp2(Sub(s, 0, n), x))
      /\ startsWithSc_Rangecc(s, x) <=> 0 \in places
      /\ endsWithSc_Rangecc(s, x) <=> Len(s) - Len(x) \in places
      /\ LET p == lastIndexOfCStr_Rangecc(s, x)
         IN  IF places = {} THEN p = None ELSE p \in places /\ \A q \in places : q <= p
      /\ replace_String(s, x, <<>>) = Join(PartsBetween(s, x), <<>>)
      /\ replace_String(s, x, x \o x) = Join(PartsBetween(s, x), x \o x)

(* Strings are cut between characters and compared in one order; what a      *)
(* search finds is there and is the first (or last); all that was there is   *)
(* replaced, once, by what the replacement says of it; a string is split at  *)
(* every separator, an empty first or last part dropped, unless the          *)
(* separator is longer than the string or lies across the end of the range;  *)
(* ignoring case finds the first match, unless the needle has more bytes     *)
(* than the text.                                                            *)
TextIsExact ==
  LET s == Utf8(text)
  IN  /\ CutsCharacters(s) /\ ReplacesMatches(s)
      /\ \A y \in UNION {[1..n -> Codes] : n \in 1..2} :
           LET x == Utf8(y)
               same == {p \in 0..Len(text) - Len(y) : Lowered(Sub(text, p, p + Len(y))) = Lowered(y)}
           IN  /\ Compares(s, x)
               /\ Len(x) <= Len(s) =>
                    strcasestr_(s, x) = (IF same = {} THEN None
                                         ELSE OffsetOf(s, CHOOSE p \in same : \A q \in same : p <= q))
               /\ \A end \in Len(x)..Len(s) :
                    ~Straddles(s, end, x) =>
                      split_Rangecc(s, end, x) = DropLast(DropFirst(PartsBetween(Sub(s, 0, end), x)))
      /\ \A c \in Codes, end \in 0..Len(s) :
           c < 128 => findAscii_Rangecc(s, end, c) = strstr(Sub(s, 0, end), 0, <<c>>)
=============================================================================
