-------------------------------- MODULE MCData --------------------------------
(* The containers, strings and streams on small instances, one of them in    *)
(* each behaviour.                                                           *)
EXTENDS Data, TLC

CONSTANTS anchor, n1, n2, n3, n4, n5, n6

VARIABLES values, list,
          map, iterator, held, buckets, size, cursor, present, ahead,
          code, text, os, file, disk, exists, nodes, strings,
          path, args, input, tree, content, toml, archive, stream, kept, saved,
          time, exact, texts, dest, live, taken, ints, pointers,
          rect, point, stood, items, iter, given, visited

\* Eight keys, one of them on two nodes.
MapNodes == 1..9
MapKey == [n \in MapNodes |-> IF n = 9 THEN 3 ELSE n]
M == INSTANCE Map WITH Nodes <- MapNodes, Key <- MapKey

\* Six keys of three binary digits, one of them on two nodes.
HashKey == (n1 :> 0 @@ n2 :> 1 @@ n3 :> 2 @@ n4 :> 4 @@ n5 :> 7 @@ n6 :> 4)
H == INSTANCE Hash WITH Nodes <- DOMAIN HashKey, Key <- HashKey, Fanout <- 2,
                        iHashMaxNodes <- 2, KeyDigits <- 3, None <- null

S == INSTANCE SortedArray WITH Majors <- 0..2, Minors <- 0..1, Tags <- 0..1

ListRank == (n1 :> 1 @@ n2 :> 2 @@ n3 :> 2 @@ n4 :> 3 @@ n5 :> 4)
L == INSTANCE List WITH Nodes <- DOMAIN ListRank, Rank <- ListRank,
                        Root <- anchor, NULL <- null

\* A, a, %, -, ", \, u, 2, a line feed, and characters of two, three and four bytes.
E == INSTANCE Encodings WITH Codes <- {65, 97, 37, 45, 34, 92, 117, 50, 10, 233, 20013, 128664},
                             MaxCodes <- 3, MaxUint <- 2147483647, text <- code

\* A, a, a space, k and the Kelvin sign, which k is the lower case of.
T == INSTANCE Text WITH Codes <- {65, 97, 32, 107, 8490}, MaxCodes <- 4, MaxUint <- 2147483647

F == INSTANCE File WITH Bytes <- {1, 10, 13}, CR <- 13, LF <- 10, MaxFile <- 3, Chunk <- 2,
                      SizeBits <- 4
N == INSTANCE StringList WITH Strings <- {n1, n2}, MaxPerNode <- 4, MaxStrings <- 7

\* Two of the three keys have the same CRC, and both objects the same text.
MCCrc(k) == IF k = 3 THEN 1 ELSE k
MCString(o) == n1

\* A slash, a dot, a tilde and a letter; the home is /a/a, the working directory /aa.
P == INSTANCE Path WITH Codes <- {47, 46, 126, 97}, MaxCodes <- 5, MaxUint <- 2147483647,
                        Home <- <<47, 97, 47, 97>>, Cwd <- <<47, 97, 97>>,
                        iPathMaxSegments <- 3, text <- path

\* -a has no value, -b one or none, --ll any number; the response file x is |"  " x|.
Entry(dashes, name) == [dashes |-> dashes, name |-> name, assigned |-> FALSE, value |-> <<>>]
Assigned(dashes, name, value) == [Entry(dashes, name) EXCEPT !.assigned = TRUE, !.value = value]
EntryValues == {Entry(1, <<"a">>), Entry(1, <<"a", "b">>), Assigned(1, <<"b">>, <<"a">>),
                Assigned(1, <<"b">>, <<"v">>), Entry(2, <<"l", "l">>),
                Assigned(2, <<"l", "l">>, <<"a">>), Entry(1, <<>>), Entry(2, <<>>), Entry(0, <<"v">>)}
MaxCounts == (<<"a">> :> 0 @@ <<"b">> :> 1 @@ <<"l", "l">> :> 9)
Letters == {" ", "Q", "@", "-", "x"}
Responses == [w \in UNION {[1..n -> Letters] : n \in 0..5} |->
                IF w = <<"x">> THEN <<"Q", " ", "Q", " ", "x">> ELSE <<>>]
C == INSTANCE CommandLine WITH Entries <- EntryValues, Names <- DOMAIN MaxCounts,
                               MinCount <- [MaxCounts EXCEPT ![<<"l", "l">>] = 0],
                               MaxCount <- MaxCounts, MaxArgs <- 5, Chars <- Letters,
                               Space <- " ", Quote <- "Q", At <- "@", Dash <- "-",
                               Contents <- Responses, MaxInput <- 5

X == INSTANCE Xml WITH ElementNames <- {"a", "b"}, MaxNodes <- 4, MaxPieces <- 4
Y == INSTANCE Toml WITH MaxText <- 3

\* Files in a directory, and one whose name its subdirectory begins with; a path has a backslash.
Z == INSTANCE Archive WITH Paths <- {<<97, 98>>, <<97, 47, 98>>, <<97, 92, 98>>, <<97, 47, 98, 92, 97>>},
                           Contents <- {<<>>, <<1, 1, 1>>, <<1, 2>>}, MaxEntries <- 2, want <- kept

\* Three parts of a second, in a zone that keeps summer time from -1 to 1.
D == INSTANCE Time WITH Parts <- 3, MaxExact <- 9, Summer <- -1..1

K == INSTANCE Collections WITH Texts <- {<<>>, <<1>>, <<2, 1>>}, Ints <- 0..2, Addresses <- 1..3,
                               MaxStrings <- 3, strings <- texts

\* One of the two TLS requests has a client certificate.
MCClient == (n1 :> null @@ n2 :> n3)

\* Rectangles on five lines; three elements, some of them equal.
G == INSTANCE Rect WITH Lines <- 0..4, Sizes <- 0..3, iter <- point, visited <- stood
I == INSTANCE PtrArray WITH Pointers <- {n1, n2}, MaxItems <- 3

AllInit == /\ DataInit /\ S!Init /\ L!Init /\ M!Init /\ H!Init
           /\ E!Init /\ T!Init /\ F!Init /\ N!Init
           /\ P!Init /\ C!Init /\ X!Init /\ Y!Init /\ Z!Init
           /\ D!Init /\ K!Init /\ G!Init /\ I!Init

MCInit ==
  /\ AllInit
  /\ subject \in {"array", "sorted", "list", "map", "hash", "block", "encoding", "text", "buffer",
                  "file", "strings", "holders", "path", "commandline", "xml", "toml", "archive",
                  "time", "collections", "sessions", "rect", "compression", "pointers"}
  /\ IF subject = "file" THEN TRUE ELSE os = "posix" /\ disk = <<>> /\ exists
  /\ IF subject = "xml" THEN TRUE ELSE tree = X!Element("a")
  /\ IF subject = "rect" THEN TRUE ELSE rect = G!zero_Rect

Still(s, v) == IF subject = s THEN TRUE ELSE UNCHANGED v

OtherNext == \/ subject = "sorted"   /\ S!Next
             \/ subject = "list"     /\ L!Next
             \/ subject = "map"      /\ M!Next
             \/ subject = "hash"     /\ H!Next
             \/ subject = "encoding" /\ E!Next
             \/ subject = "text"     /\ T!Next
             \/ subject = "file"     /\ F!Next
             \/ subject = "strings"  /\ N!Next
             \/ subject = "path"     /\ P!Next
             \/ subject = "commandline" /\ C!Next
             \/ subject = "xml"      /\ X!Next
             \/ subject = "toml"     /\ Y!Next
             \/ subject = "archive"  /\ Z!Next
             \/ subject = "time"     /\ D!Next
             \/ subject = "collections" /\ K!Next
             \/ subject = "rect"     /\ G!Next
             \/ subject = "pointers" /\ I!Next

otherVars == <<values, list, map, iterator, held, buckets, size, cursor, present, ahead,
               code, text, os, file, disk, exists, nodes, strings, path, args, input,
               tree, content, toml, archive, stream, kept, saved, time, exact, texts, dest,
               live, taken, ints, pointers, rect, point, stood, items, iter, given, visited>>
vars == <<dataVars, otherVars>>

MCNext ==
  \/ DataNext /\ UNCHANGED otherVars
  \/ /\ OtherNext
     /\ Still("sorted", values) /\ Still("list", list)
     /\ Still("map", <<map, iterator, held>>)
     /\ Still("hash", <<buckets, size, cursor, present, ahead>>)
     /\ Still("encoding", code) /\ Still("text", text)
     /\ Still("file", <<os, file, disk, exists>>)
     /\ Still("strings", <<nodes, strings>>)
     /\ Still("path", path) /\ Still("commandline", <<args, input>>) /\ Still("xml", <<tree, content>>)
     /\ Still("toml", toml) /\ Still("archive", <<archive, stream, kept, saved>>)
     /\ Still("time", <<time, exact>>)
     /\ Still("collections", <<texts, dest, live, taken, ints, pointers>>)
     /\ Still("rect", <<rect, point, stood>>)
     /\ Still("pointers", <<items, iter, given, visited>>)
     /\ UNCHANGED dataVars

MCSpec == MCInit /\ [][MCNext]_vars

OneInit == AllInit /\ os = "posix" /\ disk = <<>> /\ exists /\ tree = X!Element("a") /\ rect = G!zero_Rect
MapOnly == subject = "map" /\ OneInit /\ [][MCNext]_vars
SessionsOnly == subject = "sessions" /\ OneInit /\ [][MCNext]_vars

SortLeavesInOrder == L!SortLeavesInOrder
RedBlack == subject = "map" => M!RedBlack
IterationVisitsAll == M!IterationVisitsAll
NoneWhenRejected == R!NoneWhenRejected
TextIsExact == subject = "text" => T!TextIsExact
ListIsASequence == subject = "strings" => N!ListIsASequence

(* A search in a sorted array, a map or a hash finds what is there, where it *)
(* is, and nothing else; and a point is found in the rectangles, on the      *)
(* edges and in the iterations that have it.                                 *)
SearchesAreExact == /\ subject = "sorted" => S!SearchIsExact
                    /\ subject = "map" => M!FindsHeld
                    /\ subject = "hash" => H!HashFindsPresent
                    /\ subject = "rect" => G!RectIsItsPoints

(* An iterator goes on from where it stands, whatever is removed through it: *)
(* a map's to the next key, a hash's to a node it has not visited, and an    *)
(* array's through all that was there when it began.                         *)
IteratorsGoOn == M!IteratorGoesOn /\ H!VisitsEach /\ [](subject = "pointers" => I!VisitsAll)

(* What is written in an alphabet, to a file or for a collection or a date   *)
(* is read back as it was; and a time is the sum of what was added to it.    *)
ReadsBack == /\ subject = "encoding" => E!ReadsBack
             /\ subject = "file" => F!FileIsRead
             /\ subject = "collections" => K!CollectionsAreKept
             /\ subject = "time" => D!TimesAddUp

(* What a path, a command line, a document or an archive says is found in it *)
(* by every way there is to read it.                                         *)
DocumentsAreExact == /\ subject = "path" => P!PathsKeepTheirPlace
                     /\ subject = "commandline" => C!ReadersAgree
                     /\ subject = "xml" => X!DocumentIsRead
                     /\ subject = "toml" => Y!TomlIsTold
                     /\ subject = "archive" => Z!ArchiveKeepsData
=============================================================================
