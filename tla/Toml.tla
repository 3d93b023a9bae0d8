-------------------------------- MODULE Toml --------------------------------
(* Reading TOML (toml.c): a line is a table, a key with its value or an      *)
(* error, and the user's handlers are told of them. A text is a sequence of  *)
(* characters, the words "0x" and "true" among them.                         *)
EXTENDS Naturals, Sequences, SequencesExt

CONSTANT MaxText             \* bound on the characters of a text

VARIABLE toml                \* the text

Characters == {"k", "1", ".", "-", "0x", "true", " ", "=", "#", "[", "]", "Q", "B", "N"}
Q == "Q"                     \* the quote,
B == "B"                     \* the backslash
N == "N"                     \* and the end of a line

Init == toml = <<>>
Next == \/ Len(toml) < MaxText /\ \E c \in Characters : toml' = Append(toml, c)
        \/ toml' = <<>>

-----------------------------------------------------------------------------

(* External: the parts of string.c that are Text's and Encodings'.           *)
trim_String(t) ==
  LET kept == {i \in DOMAIN t : t[i] # " "}
  IN  IF kept = {} THEN <<>>
      ELSE SubSeq(t, CHOOSE i \in kept : \A j \in kept : i <= j, CHOOSE i \in kept : \A j \in kept : i >= j)
RECURSIVE unquote_String(_)
unquote_String(t) ==
  IF t = <<>> THEN <<>>
  ELSE IF Head(t) # B THEN <<Head(t)>> \o unquote_String(Tail(t))
  ELSE IF Len(t) > 1 /\ t[2] \in {B, Q} THEN <<t[2]>> \o unquote_String(SubSeq(t, 3, Len(t)))
  ELSE unquote_String(SubSeq(t, 3, Len(t)))
quote_String(t) == FlattenSeq([i \in DOMAIN t |-> IF t[i] \in {B, Q} THEN <<B, t[i]>> ELSE <<t[i]>>])

RECURSIVE Lines(_), CommentAt(_, _, _, _)
Lines(t) == LET i == SelectInSeq(t, LAMBDA c : c = N)
            IN  IF i = 0 THEN <<t>> ELSE <<SubSeq(t, 1, i - 1)>> \o Lines(SubSeq(t, i + 1, Len(t)))

(* Where a comment starts that is not in a string.                           *)
CommentAt(t, i, isQuoted, isEscape) ==
  IF i > Len(t) THEN 0
  ELSE IF isQuoted THEN CommentAt(t, i + 1, isEscape \/ t[i] # Q, ~isEscape /\ t[i] = B)
  ELSE IF t[i] = "#" THEN i ELSE CommentAt(t, i + 1, t[i] = Q, FALSE)
trimComment_(t) == LET i == CommentAt(t, 1, FALSE, FALSE)
                   IN  IF i = 0 THEN t ELSE trim_String(SubSeq(t, 1, i - 1))

(* A sign or none, digits, then perhaps a period and digits.                 *)
parseNumber_(t) ==
  LET Digits(from) == CHOOSE n \in 0..Len(t) : /\ \A i \in from..from + n - 1 : i <= Len(t) /\ t[i] = "1"
                                               /\ from + n > Len(t) \/ t[from + n] # "1"
      first == IF Head(t) = "1" THEN 1 ELSE 2
      end == first + Digits(first)
  IN  IF Digits(first) = 0 THEN "none"
      ELSE IF end > Len(t) THEN "int64"
      ELSE IF t[end] = "." /\ end + Digits(end + 1) = Len(t) THEN "float64" ELSE "none"

(* The value; what becomes of a single quote is not defined.                 *)
ValueOf(t) ==
  IF t = <<Q>> THEN [type |-> "undefined"]
  ELSE IF Head(t) = Q /\ Last(t) = Q
       THEN [type |-> "string", value |-> unquote_String(SubSeq(t, 2, Len(t) - 1))]
  ELSE IF t = <<"true">> THEN [type |-> "boolean", value |-> t]
  ELSE IF Head(t) \in {"0x", "1", "-"} THEN [type |-> parseNumber_(t), value |-> t]
  ELSE [type |-> "none"]

Told(table, isStart) == IF table = <<>> THEN <<>> ELSE <<[table |-> table, isStart |-> isStart]>>

(* One line: r has what the handlers were told, the table, and whether all   *)
(* lines were right.                                                         *)
Assign(r, key, value) ==
  IF key = <<>> \/ value = <<>> \/ ValueOf(value).type = "none" THEN [r EXCEPT !.allOk = FALSE]
  ELSE [r EXCEPT !.told = Append(@, [table |-> r.table, key |-> key, value |-> ValueOf(value)])]
ReadTrimmed(r, line, equals) ==
  IF Head(line) = "[" /\ Last(line) = "]"
  THEN LET table == trim_String(SubSeq(line, 2, Len(line) - 1))
       IN  [r EXCEPT !.told = @ \o Told(r.table, FALSE) \o Told(table, TRUE), !.table = table]
  ELSE IF equals = 0 THEN [r EXCEPT !.allOk = FALSE]
  ELSE Assign(r, trim_String(SubSeq(line, 1, equals - 1)), trim_String(SubSeq(line, equals + 1, Len(line))))
ReadLine(r, text) ==
  LET line == trimComment_(trim_String(text))
  IN  IF trim_String(text) = <<>> \/ Head(trim_String(text)) = "#" THEN r
      ELSE ReadTrimmed(r, line, SelectInSeq(line, LAMBDA c : c = "="))

Ended(r) == [told |-> r.told \o Told(r.table, FALSE), allOk |-> r.allOk]
parse_TomlParser(t) == Ended(FoldLeft(ReadLine, [told |-> <<>>, table |-> <<>>, allOk |-> TRUE], Lines(t)))

-----------------------------------------------------------------------------

IsTable(e) == "isStart" \in DOMAIN e

(* Every table that is started ends before the next, the values between are  *)
(* told to be in it, and those outside in none; a string is told as it was   *)
(* before it was quoted, whatever is in it or in a comment behind it; and    *)
(* what a document says is what its lines say one by one.                    *)
TomlIsTold == \A start \in {<<>>, <<"k", "=">>, <<"[", "k", "]", N, "k", "=">>} :
  LET text == start \o toml
      doc == parse_TomlParser(text)
      told == doc.told
      line == <<"k", " ", "=", Q>> \o quote_String(text) \o <<Q, " ", "#">> \o text
  IN  /\ \A i \in DOMAIN told :
           LET before == SelectSeq(SubSeq(told, 1, i - 1), IsTable)
               open == before # <<>> /\ Last(before).isStart
           IN  IF IsTable(told[i]) THEN told[i].isStart = ~open /\ (open => told[i].table = Last(before).table)
               ELSE told[i].table = (IF open THEN Last(before).table ELSE <<>>)
      /\ told # <<>> /\ IsTable(Last(told)) => ~Last(told).isStart
      /\ N \notin Range(text) =>
           parse_TomlParser(<<"[", "k", "]", N>> \o line)
             = [allOk |-> TRUE,
                told |-> Told(<<"k">>, TRUE)
                         \o <<[table |-> <<"k">>, key |-> <<"k">>, value |-> [type |-> "string", value |-> text]]>>
                         \o Told(<<"k">>, FALSE)]
      /\ doc.allOk <=> \A i \in DOMAIN Lines(text) : parse_TomlParser(Lines(text)[i]).allOk
=============================================================================
