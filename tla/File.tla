-------------------------------- MODULE File --------------------------------
(* A stream on a file, over the C library (file.c) or over Win32 handles     *)
(* with text mode done by hand (platform/win32/file.c). The stream keeps a   *)
(* position and a size of its own beside those of the file.                  *)
EXTENDS Integers, Sequences, SequencesExt

CONSTANTS Bytes,       \* the values of a byte; CR and LF are two of them
          CR, LF,
          MaxFile,     \* bound on the size of the file
          Chunk,       \* bytes read at a time in text mode, 1023 in the code
          SizeBits     \* of a size_t, 64 in the code

VARIABLES os, file,
          disk, exists \* what is in the file, and whether there is one

diskVars == <<disk, exists>>
fileVars == <<os, file, diskVars>>

Least(m, n) == IF m < n THEN m ELSE n
Most(m, n) == IF m > n THEN m ELSE n
Data == UNION {[1..n -> Bytes] : n \in 0..2}
iInvalidSize == 2^SizeBits - 1
Plus(m, n) == (m + n) % 2^SizeBits
Modes == {"read", "write", "readwrite", "append", "appendread"}
Appending == {"append", "appendread"}
NoFile == [data |-> <<>>, from |-> 0, to |-> 0]

(* "place" is the file's own position; "last" what the last read gave and    *)
(* the part of the file it came from; "doubt" is set where the stream is     *)
(* known to lose its place, until the next seek.                             *)
Init == /\ os \in {"posix", "win32"}
        /\ file = [open |-> FALSE, mode |-> "read", text |-> FALSE, pos |-> 0, size |-> 0,
                   place |-> 0, doubt |-> FALSE, last |-> NoFile]
        /\ disk \in UNION {[1..n -> Bytes] : n \in 0..MaxFile}
        /\ exists \in IF disk = <<>> THEN BOOLEAN ELSE {TRUE}

fileSize_FileInfo == IF exists THEN Len(disk) ELSE iInvalidSize

\* Not open: there is no position to be in doubt about.
Shut(f) == [f EXCEPT !.open = FALSE, !.place = 0, !.doubt = FALSE, !.last = NoFile]

(* The stream's fields are set before fopen(), which may fail. A file that   *)
(* is only written is emptied; where one that is appended to is read first   *)
(* is up to the C library: glibc reads from its start. On POSIX text mode is *)
(* no different.                                                             *)
fopen_File(mode, text) ==
  LET size == IF mode = "write" THEN file.size ELSE fileSize_FileInfo
      closed == [file EXCEPT !.mode = mode, !.text = text, !.size = size,
                             !.pos = IF mode \in Appending THEN size ELSE 0]
      starts == CASE mode = "append" -> {Len(disk)}
                  [] mode = "appendread" -> {0, Len(disk)}
                  [] OTHER -> {0}
  IN  \/ file' = closed /\ UNCHANGED diskVars
      \/ /\ exists \/ mode \in Appending \cup {"write"}
         /\ \E start \in starts :
              file' = [closed EXCEPT !.open = TRUE, !.place = start,
                                     !.doubt = mode \in Appending /\ (~exists \/ start # Len(disk))]
         /\ disk' = IF mode = "write" THEN <<>> ELSE disk
         /\ exists' = TRUE

(* CreateFile() keeps what is in the file; one that is only written keeps    *)
(* the stream's position too.                                                *)
CreateFile_File(mode, text) ==
  LET closed == [file EXCEPT !.mode = mode, !.text = text]
      start == IF mode \in Appending THEN Len(disk) ELSE 0
      opened == [closed EXCEPT !.open = TRUE, !.place = start]
  IN  \/ file' = closed /\ UNCHANGED diskVars
      \/ /\ exists \/ mode # "read"
         /\ file' = IF mode = "write" THEN [opened EXCEPT !.doubt = file.pos # 0]
                    ELSE [opened EXCEPT !.pos = start, !.size = Len(disk), !.doubt = FALSE]
         /\ exists' = TRUE /\ UNCHANGED disk

open_File(mode, text) ==
  /\ ~file.open
  /\ IF os = "posix" THEN fopen_File(mode, text) ELSE CreateFile_File(mode, text)
  /\ UNCHANGED os

close_File == file.open /\ file' = Shut(file) /\ UNCHANGED <<os, diskVars>>

seek_File_(offset) ==
  /\ file.open
  /\ file' = [file EXCEPT !.pos = offset, !.place = offset, !.doubt = FALSE]
  /\ UNCHANGED <<os, diskVars>>

(* Text mode: line ends lose their CR. Whether a CR that ends a chunk ends a *)
(* line is known from one byte more; at the end of the file that byte is     *)
(* whatever the buffer holds.                                                *)
Kept(s, k) == SelectSeq([i \in 1..k |-> IF s[i] = CR /\ i < Len(s) /\ s[i + 1] = LF THEN <<>> ELSE <<s[i]>>],
                        LAMBDA t : t # <<>>)
Converted(s, k) == FlattenSeq(Kept(s, k))

\* Mutant: the byte after a chunk is not looked at.
RECURSIVE ChunkByChunk(_, _, _)
ChunkByChunk(from, avail, out) ==
  LET rest == SubSeq(disk, from + 1, Len(disk))
      k == Least(Least(avail, Chunk), Len(rest))
      got == Converted(SubSeq(rest, 1, k), k)
  IN  IF k = 0 THEN {[data |-> out, to |-> from]}
      ELSE ChunkByChunk(from + k, avail - Len(got), out \o got)

RECURSIVE ReadText(_, _, _)
ReadText(from, avail, out) ==
  LET rest == SubSeq(disk, from + 1, Len(disk))
      k == Least(Least(avail, Chunk), Len(rest))
      got == Converted(rest, k)
      ends == k = Len(rest) /\ rest[k] = CR
  IN  IF k = 0 THEN {[data |-> out, to |-> from]}
      ELSE ReadText(from + k, avail - Len(got), out \o got)
           \cup IF ends THEN ReadText(from + k, avail - Len(got) + 1, out \o Front(got)) ELSE {}

ReadBytes(from, n) ==
  LET to == Most(from, Least(from + n, Len(disk)))
  IN  {[data |-> SubSeq(disk, from + 1, to), to |-> to]}

(* readData_Stream: the position moves by what was read and skipped, and the *)
(* size is no less, even when nothing was read past the end.                 *)
Read(n) ==
  /\ file.open /\ file.mode \in {"read", "readwrite", "appendread"} /\ n > 0
  /\ \E r \in IF os = "win32" /\ file.text THEN ReadText(file.place, n, <<>>) ELSE ReadBytes(file.place, n) :
       LET pos == Plus(file.pos, r.to - file.place)
       IN  file' = [file EXCEPT !.pos = pos, !.size = Most(@, pos), !.place = r.to,
                                !.last = [data |-> r.data, from |-> file.place, to |-> r.to]]
  /\ UNCHANGED <<os, diskVars>>

WithCR(s) == FlattenSeq([i \in DOMAIN s |-> IF s[i] = LF THEN <<CR, LF>> ELSE <<s[i]>>])

(* The C library appends wherever the position is, and the stream counts on  *)
(* from where it was; a gap is filled.                                       *)
writeData_Stream(data) ==
  LET s == IF os = "win32" /\ file.text THEN WithCR(data) ELSE data
      at == IF os = "posix" /\ file.mode \in Appending THEN Len(disk) ELSE file.place
      end == at + Len(s)
      pos == Plus(file.pos, Len(s))
  IN  /\ file.open /\ file.mode # "read" /\ data # <<>> /\ Most(end, pos) <= MaxFile
      /\ disk' = [i \in 1..Most(end, Len(disk)) |->
                    IF i \in at + 1..end THEN s[i - at]
                    ELSE IF i <= Len(disk) THEN disk[i] ELSE CHOOSE b \in Bytes : b \notin {CR, LF}]
      /\ file' = [file EXCEPT !.pos = pos, !.size = Most(@, pos), !.place = end,
                              !.doubt = @ \/ at # file.place, !.last = NoFile]
      /\ UNCHANGED <<os, exists>>

Next ==
  \/ close_File
  \/ \E mode \in Modes, text \in IF os = "posix" THEN {FALSE} ELSE BOOLEAN : open_File(mode, text)
  \/ \E n \in 0..MaxFile : seek_File_(n) \/ Read(n)
  \/ \E s \in Data : writeData_Stream(s)

-----------------------------------------------------------------------------

(* The stream's position is that of the file, and nothing in the file lies   *)
(* beyond the stream's size when all of it may be read, whatever was         *)
(* converted on the way, however often opening failed; except, until the     *)
(* next seek, where the C library appends to a file that was not there (its  *)
(* size is taken to be iInvalidSize), that it reads from the start, or       *)
(* elsewhere than at its position, and in a file opened again to be written  *)
(* by Win32. What was read is what the file holds there, lines ending in LF  *)
(* in text mode; a CR that ends the file may go.                             *)
FileIsRead ==
  LET f == file
      part == SubSeq(disk, f.last.from + 1, f.last.to)
      next == SubSeq(disk, f.last.from + 1, Least(f.last.to + 1, Len(disk)))
      lines == Converted(next, Len(part))
  IN  /\ f.open /\ ~f.doubt => f.pos = f.place
      /\ f.open /\ ~f.doubt /\ f.mode \in {"read", "readwrite"} => Len(disk) <= f.size
      /\ IF os = "win32" /\ f.text
         THEN \/ f.last.data = lines
              \/ lines # <<>> /\ Last(lines) = CR /\ f.last.to = Len(disk) /\ f.last.data = Front(lines)
         ELSE f.last.data = part
=============================================================================
