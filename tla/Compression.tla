----------------------------- MODULE Compression -----------------------------
(* Compressing and decompressing blocks (block.c): the loop that calls zlib  *)
(* with room to write in, and doubles the room when it is full. "wrote" is   *)
(* what zlib has written, in order.                                          *)
EXTENDS Naturals, Sequences

CONSTANTS Bytes,             \* that are written
          Room,              \* the size of a new output block: 1024 in the code
          MaxIn, MaxOut      \* bounds on the bytes read and written

VARIABLES z, out, wrote

compressionVars == <<z, out, wrote>>
Data(n) == UNION {[1..k -> Bytes] : k \in 0..n}
new_Block(n) == [i \in 1..n |-> 0]
truncate_Block(s, n) == SubSeq(s, 1, n)
resize_Block(s, n) == [i \in 1..n |-> IF i \in DOMAIN s THEN s[i] ELSE 0]

Init == z = [process |-> "none"] /\ out = <<>> /\ wrote = <<>>
Running == z.process \in {"deflate", "inflate"}

(* compressLevel_Block, decompress_Block and decompressGzip_Block.           *)
init_ZStream_ == /\ ~Running /\ wrote' = <<>> /\ out' = new_Block(Room)
                 /\ \E process \in {"deflate", "inflate"}, n \in 0..MaxIn :
                      z' = [process |-> process, finish |-> FALSE, availIn |-> n,
                            nextOut |-> 0, availOut |-> Room]

(* External: zlib reads and writes as much as it likes of what there is, and *)
(* says that it did, that it could not, or that something is wrong with the  *)
(* input; deflating is over when it was told to finish, and inflating when   *)
(* the compressed data end, whatever follows them.                           *)
MayReturn(rc, read, run) ==
  CASE rc = "Z_OK"         -> read > 0 \/ run # <<>>
    [] rc = "Z_BUF_ERROR"  -> read = 0 /\ run = <<>> /\ (z.availIn = 0 \/ z.availOut = 0)
    [] rc = "Z_DATA_ERROR" -> z.process = "inflate"
    [] rc = "Z_STREAM_END" -> z.process = "deflate" => z.finish /\ read = z.availIn

\* Mutant: the new room is taken to begin where the block does.
GrownFromStart(d, s) ==
  IF d.availOut > 0 THEN <<d, s>>
  ELSE <<[d EXCEPT !.nextOut = 0, !.availOut = Len(s)], resize_Block(s, 2 * Len(s))>>

Grown(d, s) ==
  IF d.availOut > 0 THEN <<d, s>>
  ELSE <<[d EXCEPT !.nextOut = Len(s), !.availOut = Len(s)], resize_Block(s, 2 * Len(s))>>

(* One turn of the loop; what fails is cleared by its caller.                *)
process_ZStream_ ==
  /\ Running
  /\ \E rc \in {"Z_OK", "Z_BUF_ERROR", "Z_DATA_ERROR", "Z_STREAM_END"}, read \in 0..z.availIn,
        run \in {s \in Data(MaxOut - Len(wrote)) : Len(s) <= z.availOut} :
       LET put == [i \in DOMAIN out |-> IF i - z.nextOut \in DOMAIN run THEN run[i - z.nextOut]
                                        ELSE out[i]]
           d == [z EXCEPT !.availIn = @ - read, !.nextOut = @ + Len(run), !.availOut = @ - Len(run)]
           grown == Grown(d, put)
       IN  /\ MayReturn(rc, read, run) /\ wrote' = wrote \o run
           /\ CASE rc = "Z_STREAM_END" -> /\ z' = [process |-> "done"]
                                          /\ out' = truncate_Block(put, Len(put) - d.availOut)
                [] rc = "Z_DATA_ERROR" -> z' = [process |-> "failed"] /\ out' = <<>>
                [] OTHER -> /\ z' = [grown[1] EXCEPT !.finish = @ \/ d.availIn = 0]
                            /\ out' = grown[2]

Next == init_ZStream_ \/ process_ZStream_

(* What zlib writes is in the block, in order and without a gap, however     *)
(* often the block grew on the way; it is never told to write outside the    *)
(* block, nor called without room; and in the end the block has all of it    *)
(* and nothing else, or nothing when something was wrong.                    *)
OutputIsWhole ==
  /\ Running => /\ truncate_Block(out, Len(wrote)) = wrote
                /\ z.nextOut = Len(wrote) /\ z.nextOut + z.availOut = Len(out)
                /\ z.availOut > 0
  /\ z.process = "done" => out = wrote
  /\ z.process = "failed" => out = <<>>
=============================================================================
