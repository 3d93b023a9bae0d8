------------------------------- MODULE Buffer -------------------------------
(* A stream in memory (stream.c, buffer.c): a block, a position and a size   *)
(* that every call keeps under the stream's mutex, and integers in either    *)
(* byte order. "log" is the stream as its user sees it: all that was         *)
(* written, what was consumed of it, and the place of the next byte.         *)
EXTENDS Integers, Sequences, SequencesExt

CONSTANTS Bytes,       \* the values of a byte: 0..255 in the code
          MaxSize,     \* bound on the bytes written
          MaxPos       \* positions tried by seek

VARIABLES buffer, log

bufferVars == <<buffer, log>>

Least(m, n) == IF m < n THEN m ELSE n
Most(m, n) == IF m > n THEN m ELSE n

Data == UNION {[1..n -> Bytes] : n \in 0..2}
Orders == {"little", "big"}
Base == Cardinality(Bytes)

Init == /\ buffer = [open |-> FALSE, readOnly |-> FALSE, block |-> <<>>, pos |-> 0, size |-> 0, order |-> "little"]
        /\ log = [written |-> <<>>, consumed |-> <<>>, at |-> 0]

Overwrite(s, p, t) == SubSeq(s, 1, p) \o t \o SubSeq(s, p + Len(t) + 1, Len(s))

setSize_Stream(b, n) == [b EXCEPT !.size = n, !.pos = Least(@, n)]
Moved(b, n) == [b EXCEPT !.pos = @ + n, !.size = Most(@, b.pos + n)]

read_Buffer_(b, n) == IF b.pos = b.size THEN <<>> ELSE SubSeq(b.block, b.pos + 1, Least(b.pos + n, Len(b.block)))
readData_Stream(b, n) == Moved(b, Len(read_Buffer_(b, n)))

(* Integers of two bytes stand for those of 16, 32 and 64 bits.              *)
order16(v, order) == IF order = "little" THEN <<v % Base, v \div Base>> ELSE <<v \div Base, v % Base>>
value16(s, order) == IF order = "little" THEN s[1] + Base * s[2] ELSE Base * s[1] + s[2]

-----------------------------------------------------------------------------

Opened(b, readOnly, s) ==
  /\ ~buffer.open
  /\ buffer' = setSize_Stream([b EXCEPT !.open = TRUE, !.readOnly = readOnly, !.block = s], Len(s))
  /\ log' = [written |-> s, consumed |-> <<>>, at |-> buffer'.pos]

(* A copy of a block, or a block that the buffer writes to.                  *)
open_Buffer(s) == Opened(buffer, TRUE, s)
openData_Buffer(s) == Opened(buffer, FALSE, s)
openEmpty_Buffer == Opened(buffer, FALSE, <<>>)

close_Buffer == buffer.open /\ buffer' = [buffer EXCEPT !.open = FALSE, !.block = <<>>] /\ UNCHANGED log

clear_Buffer ==
  /\ buffer.open
  /\ buffer' = setSize_Stream([buffer EXCEPT !.block = <<>>], 0)
  /\ log' = [written |-> log.consumed, consumed |-> log.consumed, at |-> Len(log.consumed)]

seek_Stream(offset) ==
  /\ buffer.open
  /\ buffer' = [buffer EXCEPT !.pos = Least(offset, Len(buffer.block))]
  /\ log' = [log EXCEPT !.at = Least(Len(log.consumed) + offset, Len(log.written))]

(* readBlock, read8..64, readAll: what was asked for or what is left.        *)
Read(n) ==
  /\ buffer.open
  /\ buffer' = readData_Stream(buffer, n)
  /\ log' = [log EXCEPT !.at = Least(@ + n, Len(log.written))]

writeData_Stream(s) ==
  /\ buffer.open /\ Most(log.at + Len(s), Len(log.written)) <= MaxSize
  /\ IF buffer.readOnly THEN UNCHANGED bufferVars
     ELSE /\ buffer' = Moved([buffer EXCEPT !.block = Overwrite(@, buffer.pos, s)], Len(s))
          /\ log' = [log EXCEPT !.written = Overwrite(@, log.at, s), !.at = @ + Len(s)]

write16_Stream(v) == writeData_Stream(order16(v, buffer.order))
setByteOrder_Stream(order) == buffer' = [buffer EXCEPT !.order = order] /\ UNCHANGED log

\* Mutant: the position is left at the start, where the bytes were taken.
ConsumeAtStart(b, n) ==
  LET k == Len(read_Buffer_([b EXCEPT !.pos = 0], n))
  IN  setSize_Stream([b EXCEPT !.block = SubSeq(@, k + 1, Len(@)), !.pos = 0], Len(b.block) - k)

(* From the start, wherever the position is; it stays on the same byte.      *)
consumed_(b, n) ==
  LET k == Len(read_Buffer_([b EXCEPT !.pos = 0], n))
      rest == setSize_Stream([b EXCEPT !.block = SubSeq(@, k + 1, Len(@))], Len(b.block) - k)
  IN  [rest EXCEPT !.pos = b.pos - k]

(* No caller consumes what lies behind its position: that would wrap around. *)
consume_Buffer(n) ==
  /\ buffer.open /\ ~buffer.readOnly /\ buffer.pos >= Least(n, Len(buffer.block))
  /\ buffer' = consumed_(buffer, n)
  /\ log' = [log EXCEPT !.consumed = @ \o SubSeq(buffer.block, 1, Least(n, Len(buffer.block)))]

consumeAll_Buffer ==
  /\ buffer.open /\ ~buffer.readOnly
  /\ buffer' = setSize_Stream([buffer EXCEPT !.block = <<>>], 0)
  /\ log' = [log EXCEPT !.consumed = @ \o buffer.block, !.at = Len(log.written)]

Next ==
  \/ openEmpty_Buffer \/ close_Buffer \/ clear_Buffer \/ consumeAll_Buffer
  \/ \E s \in Data : open_Buffer(s) \/ openData_Buffer(s) \/ writeData_Stream(s)
  \/ \E n \in 0..MaxPos : seek_Stream(n) \/ Read(n) \/ consume_Buffer(n)
  \/ \E v \in 0..Base * Base - 1 : write16_Stream(v)
  \/ \E order \in Orders : setByteOrder_Stream(order)

-----------------------------------------------------------------------------

(* A buffer is the queue its user sees: what was consumed and what is left   *)
(* are what was written, in order, and the next byte is read or written      *)
(* where the user left off, whatever was consumed meanwhile; the size is     *)
(* that of the data. An integer is read back as it was written.              *)
BufferIsAQueue ==
  /\ buffer.open =>
       /\ log.consumed \o buffer.block = log.written
       /\ buffer.pos = log.at - Len(log.consumed)
       /\ buffer.size = Len(buffer.block)
  /\ \A v \in 0..Base * Base - 1 :
       value16(order16(v, buffer.order), buffer.order) = v
=============================================================================
