------------------------------- MODULE Archive -------------------------------
(* ZIP archives (archive.c). A stream is a sequence of parts: a header, a    *)
(* name or a byte of data is one part each, so a position is a number of     *)
(* parts. The sorted array of entries is a function of their paths, which    *)
(* are strings of letters and slashes. "want" is what the archive should     *)
(* hold, "saved" what it held when the stream was written.                   *)
EXTENDS Naturals, Sequences, SequencesExt

CONSTANTS Paths,             \* of entries
          Contents,          \* of entries
          MaxEntries         \* bound on the entries

VARIABLES archive, stream, want, saved

archiveVars == <<archive, stream, want, saved>>
Slash == 47
Backslash == 92
None == [none |-> TRUE]
Empty == [p \in {} |-> None]

(* External: what zlib makes of some bytes; only long runs become shorter.   *)
Parts(s) == [i \in DOMAIN s |-> [byte |-> s[i]]]
compress_Block(s) == IF Len(s) > 2 /\ Cardinality(Range(s)) = 1 THEN <<[deflated |-> s]>>
                     ELSE <<[deflated |-> s]>> \o Parts(s)
decompress_Block(s) == IF s # <<>> /\ "deflated" \in DOMAIN s[1] THEN s[1].deflated ELSE <<>>
Byte(part) == IF "byte" \in DOMAIN part THEN part.byte ELSE 0

Closed == [isWritable |-> FALSE, source |-> <<>>, entries |-> Empty, ok |-> TRUE]
Init == archive = Closed /\ stream = <<>> /\ want = Empty /\ saved = Empty

Less(p, q) == \/ Len(p) < Len(q) /\ SubSeq(q, 1, Len(p)) = p
              \/ \E i \in 1..Len(p) : /\ i <= Len(q) /\ p[i] < q[i]
                                      /\ SubSeq(p, 1, i - 1) = SubSeq(q, 1, i - 1)
Sorted(paths) == SetToSortSeq(paths, Less)
StartsWith(p, q) == Len(p) >= Len(q) /\ SubSeq(p, 1, Len(q)) = q

-----------------------------------------------------------------------------
(* Dates and times of two bytes.                                             *)

packed_DOSTime_(t) == ((t.seconds \div 2) % 32) + ((t.minutes % 64) * 32) + (t.hours * 2048)
init_DOSTime_(n) == [seconds |-> (n % 32) * 2, minutes |-> (n \div 32) % 64, hours |-> n \div 2048]
packed_DOSDate_(d) == (d.day % 32) + ((d.month % 16) * 32) + (d.year * 512)
init_DOSDate_(n) == [day |-> n % 32, month |-> (n \div 32) % 16, year |-> n \div 512]

-----------------------------------------------------------------------------
(* Writing: local headers with names and data, then the central directory.   *)

Stored(entry) == LET comp == compress_Block(entry.data)
                 IN  IF Len(comp) < entry.size THEN [compression |-> "deflated", bytes |-> comp]
                     ELSE [compression |-> "none", bytes |-> Parts(entry.data)]
write_LocalFileHeader_(entry) ==
  [sig |-> "local", compression |-> Stored(entry).compression, size |-> entry.size,
   compressedSize |-> Len(Stored(entry).bytes), crc32 |-> entry.crc32]
write_CentralFileHeader_(entry, offset) ==
  [write_LocalFileHeader_(entry) EXCEPT !.sig = "central"] @@ ("relOffset" :> offset)

\* Mutant: an offset does not count the data before it.
SerializedByHeaders(entries) ==
  LET paths == Sorted(DOMAIN entries)
      Local(i) == <<write_LocalFileHeader_(entries[paths[i]]), [name |-> paths[i]]>> \o Stored(entries[paths[i]]).bytes
      body == FlattenSeq([i \in DOMAIN paths |-> Local(i)])
      central == FlattenSeq([i \in DOMAIN paths |->
                   <<write_CentralFileHeader_(entries[paths[i]], 2 * (i - 1)), [name |-> paths[i]]>>])
  IN  body \o central \o <<[sig |-> "end", totalEntryCount |-> Len(paths), offset |-> Len(body)]>>

Serialized(entries) ==
  LET paths == Sorted(DOMAIN entries)
      Local(i) == <<write_LocalFileHeader_(entries[paths[i]]), [name |-> paths[i]]>> \o Stored(entries[paths[i]]).bytes
      Before(i) == FlattenSeq([j \in 1..i - 1 |-> Local(j)])
      body == Before(Len(paths) + 1)
      central == FlattenSeq([i \in DOMAIN paths |->
                   <<write_CentralFileHeader_(entries[paths[i]], Len(Before(i))), [name |-> paths[i]]>>])
  IN  body \o central \o <<[sig |-> "end", totalEntryCount |-> Len(paths), offset |-> Len(body)]>>

(* Reading.                                                                  *)
HasSig(is, pos, sig) == pos < Len(is) /\ "sig" \in DOMAIN is[pos + 1] /\ is[pos + 1].sig = sig
read_LocalFileHeader_(is, pos) == HasSig(is, pos, "local")
read_CentralFileHeader_(is, pos) == HasSig(is, pos, "central")
seekToCentralEnd_(is) ==
  LET found == {pos \in 0..Len(is) - 1 : HasSig(is, pos, "end")}
  IN  IF found = {} THEN Len(is) ELSE CHOOSE pos \in found : \A q \in found : pos >= q

(* One more entry of the central directory; directories are passed over.     *)
ReadEntry(is, pos, r) ==
  LET header == is[pos + 1]
      path == is[pos + 2].name
  IN  IF ~r.ok \/ ~read_CentralFileHeader_(is, pos) THEN [r EXCEPT !.ok = FALSE]
      ELSE IF Last(path) = Slash /\ header.size = 0 THEN r
      ELSE [r EXCEPT !.entries =
              (path :> [size |-> header.size, crc32 |-> header.crc32, compression |-> header.compression,
                        archSize |-> header.compressedSize, archPos |-> header.relOffset + 2,
                        data |-> None]) @@ @]

readDirectory_Archive_(is) ==
  LET end == seekToCentralEnd_(is)
      count == is[end + 1].totalEntryCount
      none == [ok |-> FALSE, entries |-> Empty]
  IN  IF ~read_LocalFileHeader_(is, 0) \/ end = Len(is) THEN none
      ELSE FoldLeft(LAMBDA r, i : ReadEntry(is, is[end + 1].offset + 2 * (i - 1), r),
                    [none EXCEPT !.ok = TRUE], [i \in 1..count |-> i])

(* The entry with its data, read when they are not there or not all.         *)
loadEntry_Archive_(a, path) ==
  LET entry == a.entries[path]
      arch == SubSeq(a.source, entry.archPos + 1, entry.archPos + entry.archSize)
  IN  IF entry.data # None /\ Len(entry.data) = entry.size THEN entry
      ELSE [entry EXCEPT !.data = IF entry.compression = "deflated" THEN decompress_Block(arch)
                                    ELSE [i \in DOMAIN arch |-> Byte(arch[i])]]

-----------------------------------------------------------------------------
(* The operations. A path may be written with backslashes.                   *)

Slashed(path) == [i \in DOMAIN path |-> IF path[i] = Backslash THEN Slash ELSE path[i]]
findPath_Archive_(path) == Slashed(path)
findOrAddEntry_Archive_(entries, path) ==
  LET p == Slashed(path)
  IN  IF p \in DOMAIN entries THEN entries
      ELSE (p :> [size |-> 0, crc32 |-> <<>>, compression |-> "none", archSize |-> 0, archPos |-> 0,
                  data |-> None]) @@ entries

openWritable_Archive ==
  archive' = [Closed EXCEPT !.isWritable = TRUE] /\ want' = Empty /\ UNCHANGED <<stream, saved>>

(* openData_Archive and openFile_Archive. After an error the archive is open *)
(* with the entries read so far.                                             *)
openData_Archive ==
  LET r == readDirectory_Archive_(stream)
  IN  /\ stream # <<>>
      /\ archive' = [isWritable |-> FALSE, source |-> stream, entries |-> r.entries, ok |-> r.ok]
      /\ want' = IF r.ok THEN saved ELSE Empty
      /\ UNCHANGED <<stream, saved>>

close_Archive == archive' = Closed /\ want' = Empty /\ UNCHANGED <<stream, saved>>

setData_Archive(path, data) ==
  /\ archive.isWritable /\ Cardinality(DOMAIN want \cup {Slashed(path)}) <= MaxEntries
  /\ archive' = [archive EXCEPT !.entries =
                   [findOrAddEntry_Archive_(@, path) EXCEPT ![findPath_Archive_(path)] =
                      [@ EXCEPT !.data = data, !.size = Len(data), !.crc32 = data]]]
  /\ want' = (Slashed(path) :> data) @@ want
  /\ UNCHANGED <<stream, saved>>

data_Archive(path) ==
  /\ findPath_Archive_(path) \in DOMAIN archive.entries
  /\ archive' = [archive EXCEPT !.entries[findPath_Archive_(path)] =
                   loadEntry_Archive_(archive, findPath_Archive_(path))]
  /\ UNCHANGED <<stream, want, saved>>

(* Every entry has its data.                                                 *)
serialize_Archive ==
  /\ archive.isWritable \/ archive.source # <<>>
  /\ \A p \in DOMAIN archive.entries : archive.entries[p].data # None
  /\ stream' = Serialized(archive.entries) /\ saved' = want /\ UNCHANGED <<archive, want>>

(* The end of the stream is lost.                                            *)
Truncated == /\ Len(stream) > 1 /\ archive = Closed
             /\ stream' = Front(stream) /\ saved' = Empty /\ UNCHANGED <<archive, want>>

Next == \/ openWritable_Archive \/ openData_Archive \/ close_Archive \/ serialize_Archive \/ Truncated
        \/ \E p \in Paths : data_Archive(p) \/ \E s \in Contents : setData_Archive(p, s)

-----------------------------------------------------------------------------
(* Directories.                                                              *)

dirNameSep_Path(p) == LET sep == SelectLastInSeq(p, LAMBDA c : c = Slash) IN SubSeq(p, 1, sep)

isDirectory_Archive(dir) ==
  LET there == {p \in DOMAIN archive.entries : ~Less(p, dir)}
      first == Head(Sorted(there))
  IN  dir = <<>> \/ (there # {} /\ Len(first) > Len(dir) /\ StartsWith(first, dir))

listDirectory_Archive(dir) ==
  LET Under(p) == StartsWith(dirNameSep_Path(p), dir)
      Child(p) == LET rest == SubSeq(p, Len(dir) + 1, Len(p))
                  IN  SubSeq(p, 1, Len(dir) + SelectInSeq(rest, LAMBDA c : c = Slash))
  IN  {p \in DOMAIN archive.entries : dirNameSep_Path(p) = dir}
      \cup {Child(p) : p \in {q \in DOMAIN archive.entries : Under(q) /\ dirNameSep_Path(q) # dir}}

-----------------------------------------------------------------------------

(* An archive has the entries that were set, or those of the stream it was   *)
(* opened from, and each entry's data are what was set, whenever they are    *)
(* read; a stream that was written and has an entry can be opened, and one   *)
(* that lost its end cannot; a directory is what has entries below it, and   *)
(* lists them once; and a packed time is that time.                          *)
ArchiveKeepsData ==
  LET dirs == UNION {{SubSeq(p, 1, i) : i \in {j \in DOMAIN p : p[j] = Slash}} :
                       p \in {Slashed(q) : q \in Paths}}
  IN  /\ archive.ok => /\ DOMAIN archive.entries = DOMAIN want
                       /\ \A p \in DOMAIN want : loadEntry_Archive_(archive, p).data = want[p]
      /\ archive.source = stream /\ stream # <<>> => (archive.ok <=> saved # Empty)
      /\ \A dir \in dirs \cup {<<>>} :
           LET below == {p \in DOMAIN archive.entries : StartsWith(p, dir) /\ p # dir}
           IN  /\ isDirectory_Archive(dir) <=> dir = <<>> \/ below # {}
               /\ \A p \in below : \E q \in listDirectory_Archive(dir) : StartsWith(p, q)
               /\ \A q \in listDirectory_Archive(dir) :
                    /\ \E p \in below : StartsWith(p, q)
                    /\ Slash \notin Range(SubSeq(q, Len(dir) + 1, Len(q) - 1))
      /\ archive = Closed /\ stream = <<>> =>
           /\ \A h \in 0..23, m \in 0..59, s \in 0..59 :
                LET t == init_DOSTime_(packed_DOSTime_([seconds |-> s, minutes |-> m, hours |-> h]))
                IN  t.hours = h /\ t.minutes = m /\ t.seconds \in {s - 1, s} /\ t.seconds % 2 = 0
           /\ \A d \in 1..31, m \in 1..12, y \in {0, 1, 63, 127} :
                LET date == [day |-> d, month |-> m, year |-> y]
                IN  init_DOSDate_(packed_DOSDate_(date)) = date
=============================================================================
