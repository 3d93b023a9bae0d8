-------------------------------- MODULE Data --------------------------------
(* What holds data for others, one of them in each behaviour: arrays, blocks *)
(* that share their bytes, the blocks that zlib writes, buffers, containers  *)
(* that hold references, and the certificates of cached TLS sessions.        *)
EXTENDS Array

CONSTANTS null,                                               \* no object
          Handles, BlockBytes, MaxBlock, FirstAlloc,          \* Block
          OutBytes, Room, MaxIn, MaxOut,                      \* Compression
          BufferBytes, MaxBuffer, MaxPos,                     \* Buffer
          Objects, Keys, Crc(_), StringOf(_), MaxItems, MaxLost,           \* Holders
          TlsRequests, TlsHosts, ClientOf, maxSessionAge, MaxClock, MaxRenewals,
          MaxOverwritten                                      \* Sessions

VARIABLES subject, mem, want, z, out, wrote, buffer, log, refs, hash, objects, standing, set, lost,
          clock, server, cache, requests, certs, overwritten

B == INSTANCE Block WITH Bytes <- BlockBytes, MaxSize <- MaxBlock
Q == INSTANCE Compression WITH Bytes <- OutBytes
U == INSTANCE Buffer WITH Bytes <- BufferBytes, MaxSize <- MaxBuffer
O == INSTANCE Holders WITH Text <- StringOf, list <- objects, cursor <- standing
R == INSTANCE Sessions WITH Requests <- TlsRequests, Hosts <- TlsHosts, Client <- ClientOf,
                            None <- null, maxSessionAge_CachedSession_ <- maxSessionAge

(* A byte may be zero, what is allocated has a size, there are finitely many *)
(* of everything, and a null pointer is none of what there is.               *)
ASSUME DataAssumption ==
  /\ IsFiniteSet(Handles) /\ 0 \in BlockBytes /\ MaxBlock \in Nat /\ FirstAlloc \in Nat \ {0}
  /\ Room \in Nat \ {0} /\ MaxIn \in Nat /\ MaxOut \in Nat
  /\ IsFiniteSet(BufferBytes) /\ MaxPos \in Nat /\ IsFiniteSet(Keys) /\ MaxItems \in Nat
  /\ IsFiniteSet(TlsRequests) /\ IsFiniteSet(TlsHosts) /\ maxSessionAge \in Int
  /\ null \notin Nat /\ null \notin R!AllSessions /\ null \notin R!Entries

blockVars == <<mem, want>>
compressionVars == <<z, out, wrote>>
bufferVars == <<buffer, log>>
holderVars == <<refs, hash, objects, standing, set, lost>>
sessionVars == <<clock, server, cache, requests, certs, overwritten>>
dataVars == <<subject, array, blockVars, compressionVars, bufferVars, holderVars, sessionVars>>

DataInit == Init /\ B!Init /\ Q!Init /\ U!Init /\ O!Init /\ R!Init

DataNext ==
  /\ UNCHANGED subject
  /\ \/ /\ subject = "array" /\ Next
        /\ UNCHANGED <<blockVars, compressionVars, bufferVars, holderVars, sessionVars>>
     \/ /\ subject = "block" /\ B!Next
        /\ UNCHANGED <<array, compressionVars, bufferVars, holderVars, sessionVars>>
     \/ /\ subject = "compression" /\ Q!Next
        /\ UNCHANGED <<array, blockVars, bufferVars, holderVars, sessionVars>>
     \/ /\ subject = "buffer" /\ U!Next
        /\ UNCHANGED <<array, blockVars, compressionVars, holderVars, sessionVars>>
     \/ /\ subject = "holders" /\ O!Next
        /\ UNCHANGED <<array, blockVars, compressionVars, bufferVars, sessionVars>>
     \/ /\ subject = "sessions" /\ R!Next
        /\ UNCHANGED <<array, blockVars, compressionVars, bufferVars, holderVars>>

DataSpec == DataInit /\ [][DataNext]_dataVars

(* Blocks are values of their own, whatever data they share; and what is     *)
(* compressed or decompressed into one is whole, however often it grows.     *)
BlocksAreValues == /\ subject = "block" => B!BlocksAreValues
                   /\ subject = "compression" => Q!OutputIsWhole

(* What is read from a buffer is what was written there, in order.           *)
StreamsAreExact == subject = "buffer" => U!BufferIsAQueue

(* Whatever is counted has that many holders: the objects in lists and       *)
(* hashes, the certificates in TLS requests and their cache.                 *)
HoldersBalance == /\ subject = "holders" => O!HoldersBalance
                  /\ subject = "sessions" => R!SessionsAreTheirs
=============================================================================
