----------------------------- MODULE CommandLine -----------------------------
(* The command line (commandline.c): the words of response files, arguments  *)
(* found by name, and the iterator over the entries. An entry is taken apart *)
(* into its dashes, its name (a joined "-ab" has two letters) and the value  *)
(* after "="; positions count from 1, the executable.                        *)
EXTENDS Naturals, Sequences, SequencesExt

CONSTANTS Entries,       \* the entries of a command line
          Names,         \* the names looked for
          MinCount, MaxCount,    \* the values defined for each of them
          MaxArgs,       \* bound on the entries
          Chars,         \* of a response file: Space, Quote, At, Dash and letters
          Space, Quote, At, Dash,
          Contents,      \* of the response file with a name; <<>> if there is none
          MaxInput       \* bound on the characters

VARIABLES args, input

Executable == [dashes |-> 0, name |-> <<"x">>, assigned |-> FALSE, value |-> <<>>]
NULL == [pos |-> 0, values |-> <<>>]
unlimitedValues == 9

Init == args = <<Executable>> /\ input = <<>>

(* The arguments the program is started with, or those in a file.            *)
Next == \/ Len(args) < MaxArgs /\ input = <<>> /\ (\E e \in Entries : args' = Append(args, e))
           /\ UNCHANGED input
        \/ Len(input) < MaxInput /\ Len(args) = 1 /\ (\E c \in Chars : input' = Append(input, c))
           /\ UNCHANGED args
        \/ args' = <<Executable>> /\ input' = <<>>

-----------------------------------------------------------------------------
(* Response files.                                                           *)

RECURSIVE skipSpace(_), Word(_, _), loadArgumentsFile_CommandLine_(_)
skipSpace(t) == IF t # <<>> /\ Head(t) = Space THEN skipSpace(Tail(t)) ELSE t

Put(c, w) == [w EXCEPT !.word = <<c>> \o @]
(* A word goes to the next space that is not quoted; two quotes are one.     *)
Word(t, inQuote) ==
  IF t = <<>> \/ (~inQuote /\ Head(t) = Space) THEN [word |-> <<>>, rest |-> t]
  ELSE IF Head(t) # Quote THEN Put(Head(t), Word(Tail(t), inQuote))
  ELSE IF ~inQuote THEN Word(Tail(t), TRUE)
  ELSE IF Len(t) > 1 /\ t[2] = Quote THEN Put(Quote, Word(Tail(Tail(t)), TRUE))
  ELSE Word(Tail(t), FALSE)

(* "@" reads another file; "--" ends this one; an empty word is no argument. *)
loadArgumentsFile_CommandLine_(t) ==
  LET start == skipSpace(t)
      isResponse == start # <<>> /\ Head(start) = At
      w == Word(IF isResponse THEN skipSpace(Tail(start)) ELSE start, FALSE)
  IN  IF t = <<>> THEN <<>>
      ELSE IF isResponse
           THEN loadArgumentsFile_CommandLine_(Contents[w.word]) \o loadArgumentsFile_CommandLine_(w.rest)
      ELSE IF w.word = <<Dash, Dash>> THEN <<>>
      ELSE (IF w.word = <<>> THEN <<>> ELSE <<w.word>>) \o loadArgumentsFile_CommandLine_(w.rest)

-----------------------------------------------------------------------------
(* Finding an argument.                                                      *)

Rest(e) == e.name \o (IF e.assigned THEN <<"=">> \o e.value ELSE <<>>)   \* after the dashes

cmpArg_(e, arg) == IF Len(arg) = 1 THEN arg[1] \in Range(Rest(e)) ELSE e.name = arg

findArg_CommandLine_(arg) ==
  LET found == {p \in DOMAIN args : /\ args[p].dashes = (IF Len(arg) > 1 THEN 2 ELSE 1)
                                    /\ cmpArg_(args[p], arg)}
  IN  IF found = {} THEN 0 ELSE CHOOSE p \in found : \A q \in found : p <= q

checkArgumentPosValuesN_CommandLine_(pos, minCount, maxCount) ==
  LET end == CHOOSE q \in pos + 1..Len(args) + 1 :
               /\ q > Len(args) \/ args[q].dashes > 0
               /\ \A r \in pos + 1..q - 1 : args[r].dashes = 0
      count == end - pos - 1
      taken == IF maxCount # unlimitedValues /\ maxCount < count THEN maxCount ELSE count
  IN  IF args[pos].assigned
      THEN IF minCount > 1 \/ maxCount = 0 THEN NULL
           ELSE [pos |-> pos, values |-> <<args[pos].value>>]
      ELSE IF count < minCount THEN NULL
      ELSE [pos |-> pos, values |-> [i \in 1..taken |-> args[pos + i].name]]

(* With the counts defined for the name.                                     *)
checkArgument_CommandLine(arg) ==
  LET pos == findArg_CommandLine_(arg)
  IN  IF pos = 0 THEN NULL
      ELSE checkArgumentPosValuesN_CommandLine_(pos, MinCount[arg], MaxCount[arg])

-----------------------------------------------------------------------------
(* The iterator: "entry" is the name it stands on, "after" what follows it   *)
(* in the same entry.                                                        *)

argumentType_CommandLine_(pos) ==
  LET e == args[pos]
  IN  IF e.dashes = 2 /\ Rest(e) # <<>> THEN "long"
      ELSE IF e.dashes = 2 \/ (e.dashes = 1 /\ Rest(e) # <<>>) THEN "short" ELSE "value"

valueCountForArgument_CommandLine_(name, pos) ==
  LET end == CHOOSE q \in pos..Len(args) + 1 :
               /\ q > Len(args) \/ argumentType_CommandLine_(q) # "value"
               /\ \A r \in pos..q - 1 : argumentType_CommandLine_(r) = "value"
      count == end - pos
  IN  IF name \notin Names THEN 0
      ELSE IF MaxCount[name] # unlimitedValues /\ MaxCount[name] < count THEN MaxCount[name] ELSE count

(* Only the last of joined letters has values.                               *)
Letter(pos, letters) ==
  LET entry == SubSeq(letters, 1, 1)
      after == Tail(letters)
      isAssignedValue == after # <<>> /\ Head(after) = "="
  IN  [value |-> pos, argType |-> "short", entry |-> entry, after |-> after,
       isAssignedValue |-> isAssignedValue,
       valueCount |-> IF after = <<>> THEN valueCountForArgument_CommandLine_(entry, pos + 1)
                      ELSE IF isAssignedValue THEN 1 ELSE 0]

EntryAt(pos) ==
  LET e == args[pos]
      type == argumentType_CommandLine_(pos)
  IN  IF type = "short" THEN Letter(pos, IF e.dashes = 2 THEN <<"-">> ELSE Rest(e))
      ELSE [value |-> pos, argType |-> type, entry |-> e.name, after |-> <<>>,
            isAssignedValue |-> type = "long" /\ e.assigned,
            valueCount |-> IF type = "value" THEN 0 ELSE IF e.assigned THEN 1
                           ELSE valueCountForArgument_CommandLine_(e.name, pos + 1)]

next_CommandLineConstIterator(i) ==
  LET pos == i.value + i.valueCount + 1 - (IF i.isAssignedValue THEN 1 ELSE 0)
  IN  IF i.argType = "short" /\ i.after # <<>> /\ Head(i.after) # "=" THEN Letter(i.value, i.after)
      ELSE IF pos > Len(args) THEN [i EXCEPT !.value = 0] ELSE EntryAt(pos)

init_CommandLineConstIterator ==
  next_CommandLineConstIterator([value |-> 1, argType |-> "value", entry |-> <<>>, after |-> <<>>,
                                 isAssignedValue |-> FALSE, valueCount |-> 0])

argument_CommandLineConstIterator(i) ==
  IF i.argType = "value" THEN NULL
  ELSE checkArgumentPosValuesN_CommandLine_(i.value, i.valueCount, i.valueCount)

RECURSIVE VisitsFrom(_)
VisitsFrom(i) == IF i.value = 0 THEN <<>> ELSE <<i>> \o VisitsFrom(next_CommandLineConstIterator(i))

-----------------------------------------------------------------------------

RECURSIVE Split(_)
Split(t) == IF ~Contains(t, Space) THEN <<t>>
            ELSE LET p == CHOOSE p \in DOMAIN t : t[p] = Space /\ ~Contains(SubSeq(t, 1, p - 1), Space)
                 IN  <<SubSeq(t, 1, p - 1)>> \o Split(SubSeq(t, p + 1, Len(t)))
BeforeEnd(t) == SelectInSeq(Append(t, <<Dash, Dash>>), LAMBDA w : w = <<Dash, Dash>>) - 1
InQuotes(w) == <<Quote>> \o FlattenSeq([i \in DOMAIN w |-> IF w[i] = Quote THEN <<Quote, Quote>>
                                                           ELSE <<w[i]>>]) \o <<Quote, Space>>

(* The words of a file are those between spaces, and quoting them again      *)
(* gives the same words; the iterator visits every entry or takes it as a    *)
(* value of the argument before it; and what it finds is what a search by    *)
(* name finds first, with the same values. (Not when the letter is in the    *)
(* value of an earlier argument, is not the last of its entry, "-" is among  *)
(* the values, or there are too few.)                                        *)
ReadersAgree ==
  LET words == loadArgumentsFile_CommandLine_(input)
      visits == VisitsFrom(init_CommandLineConstIterator)
      Consumed(i) == i.value + 1..i.value + i.valueCount - (IF i.isAssignedValue THEN 1 ELSE 0)
      Misled(arg) == \E p \in DOMAIN args : args[p].dashes = 1 /\ arg[1] \in Range(args[p].value)
  IN  /\ ~(Contains(input, Quote) \/ Contains(input, At)) =>
           words = SelectSeq(SubSeq(Split(input), 1, BeforeEnd(Split(input))), LAMBDA w : w # <<>>)
      /\ loadArgumentsFile_CommandLine_(FlattenSeq([i \in DOMAIN words |-> InQuotes(words[i])])) = words
      /\ \A p \in 2..Len(args) :
           IF \E k \in DOMAIN visits : visits[k].value = p
           THEN \A k \in DOMAIN visits : p \notin Consumed(visits[k])
           ELSE \E k \in DOMAIN visits : p \in Consumed(visits[k])
      /\ \A arg \in Names :
           LET mine == SelectSeq(visits, LAMBDA i : i.argType # "value" /\ i.entry = arg)
               first == Head(mine)
           IN  ~Misled(arg) =>
                 IF mine = <<>> THEN findArg_CommandLine_(arg) = 0
                 ELSE /\ findArg_CommandLine_(arg) = first.value
                      /\ (first.after = <<>> \/ first.isAssignedValue)
                         /\ (\A p \in Consumed(first) : args[p].dashes = 0)
                         /\ first.valueCount >= MinCount[arg]
                         /\ (first.isAssignedValue => MinCount[arg] <= 1 /\ MaxCount[arg] > 0) =>
                           argument_CommandLineConstIterator(first) = checkArgument_CommandLine(arg)
=============================================================================
