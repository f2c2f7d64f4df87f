--------------------------------- MODULE Buffer ---------------------------------
(***************************************************************************)
(* Buffer: a vector with two indices into it.  The operations are          *)
(* functions from a buffer to the buffer after them; the state machine     *)
(* applies them in any order, as Connection does on the io thread.         *)
(*                                                                         *)
(* A buffer is a record: mem is buffer_, whose byte at offset i is         *)
(* mem[i + 1]; reader and writer are readerIndex_ and writerIndex_.        *)
(***************************************************************************)
EXTENDS Naturals, Sequences

CONSTANTS
  Byte,
  Zero,           \* what resize() fills with
  CheapPrepend,   \* kCheapPrepend, 8 in the code
  InitialSize,    \* kInitialSize, 1024 in the code
  ExtraSize,      \* sizeof(extrabuf), 65536 in the code
  MaxData,        \* bound on what one call appends
  MaxSize         \* bound on the size of buffer_

ASSUME ByteAssumption == Zero \in Byte
ASSUME BufferSizes ==
  /\ CheapPrepend \in Nat /\ InitialSize \in Nat /\ ExtraSize \in Nat
  /\ MaxData \in Nat /\ MaxSize \in Nat

VARIABLES
  buf,
  given      \* history: what the last call brought

vars == <<buf, given>>

Readable(b) == b.writer - b.reader
Writable(b) == Len(b.mem) - b.writer
Prependable(b) == b.reader

(* The readable bytes, peek() to beginwrite(). *)
Content(b) == SubSeq(b.mem, b.reader + 1, b.writer)

(* buffer_.resize(), never to less. *)
Resize(mem, size) == mem \o [i \in 1 .. size - Len(mem) |-> Zero]

(* std::copy of data to the offset at. *)
Copy(mem, at, data) ==
  [i \in 1 .. Len(mem) |->
     IF at < i /\ i <= at + Len(data) THEN data[i - at] ELSE mem[i]]

(* Faulty variant: the room before the reader is not compared with         *)
(* kCheapPrepend, which must stay free.                                    *)
MakeSpace_NoPrepend(b, len) ==
  IF Writable(b) + Prependable(b) < len
  THEN [b EXCEPT !.mem = Resize(b.mem, b.writer + len)]
  ELSE [mem |-> Copy(b.mem, CheapPrepend, Content(b)),
        reader |-> CheapPrepend, writer |-> CheapPrepend + Readable(b)]

(* Faulty variant: the buffer grows whatever room the reader has left. *)
MakeSpace_Resize(b, len) == [b EXCEPT !.mem = Resize(b.mem, b.writer + len)]

(* Grow, or move the readable bytes to the front. *)
MakeSpace(b, len) ==
  IF Writable(b) + Prependable(b) < len + CheapPrepend
  THEN [b EXCEPT !.mem = Resize(b.mem, b.writer + len)]
  ELSE [mem |-> Copy(b.mem, CheapPrepend, Content(b)),
        reader |-> CheapPrepend, writer |-> CheapPrepend + Readable(b)]

EnsureWriteable(b, len) == IF Writable(b) < len THEN MakeSpace(b, len) ELSE b

(* Into the writable bytes, which are enough. *)
Write(b, data) ==
  [b EXCEPT !.mem = Copy(b.mem, b.writer, data), !.writer = b.writer + Len(data)]

AppendTo(b, data) == Write(EnsureWriteable(b, Len(data)), data)

RetrieveAll(b) == [b EXCEPT !.reader = CheapPrepend, !.writer = CheapPrepend]

Retrieve(b, len) ==
  IF len < Readable(b) THEN [b EXCEPT !.reader = b.reader + len] ELSE RetrieveAll(b)

(* Faulty variant: writerIndex_ stays where it was before the overflow. *)
ReadFd_NoIndex(b, data) ==
  LET writable == Writable(b)
  IN IF Len(data) <= writable
     THEN Write(b, data)
     ELSE AppendTo([b EXCEPT !.mem = Copy(b.mem, b.writer, SubSeq(data, 1, writable))],
                   SubSeq(data, writable + 1, Len(data)))

(* readv() put data into the writable bytes, and what they have no room    *)
(* for into extrabuf, which is then appended.                              *)
ReadFd(b, data) ==
  LET writable == Writable(b)
  IN IF Len(data) <= writable
     THEN Write(b, data)
     ELSE AppendTo(Write(b, SubSeq(data, 1, writable)),
                   SubSeq(data, writable + 1, Len(data)))

(* What one readv() can return: extrabuf is offered only when the buffer   *)
(* has less room than it.                                                  *)
ReadLimit(b) ==
  IF Writable(b) < ExtraSize THEN Writable(b) + ExtraSize ELSE Writable(b)

-----------------------------------------------------------------------------
Data == UNION {[1 .. n -> Byte] : n \in 0 .. MaxData}

Init ==
  /\ buf = [mem |-> [i \in 1 .. CheapPrepend + InitialSize |-> Zero],
            reader |-> CheapPrepend, writer |-> CheapPrepend]
  /\ given = <<>>

(* append() *)
AppendBytes(data) ==
  /\ buf' = AppendTo(buf, data)
  /\ given' = data
  /\ Len(buf'.mem) <= MaxSize

(* retrieve(), by handleWrite and behind retrieveAsString. *)
RetrieveBytes(len) == buf' = Retrieve(buf, len) /\ given' = <<>>

(* readFd() *)
ReadBytes(data) ==
  /\ Len(data) <= ReadLimit(buf)
  /\ buf' = ReadFd(buf, data)
  /\ given' = data
  /\ Len(buf'.mem) <= MaxSize

Next ==
  \/ \E data \in Data : AppendBytes(data) \/ ReadBytes(data)
  \/ \E len \in 0 .. MaxSize : RetrieveBytes(len)

Spec == Init /\ [][Next]_vars

-----------------------------------------------------------------------------
(* Properties.                                                             *)

(* The indices stay in order and inside the vector, the first              *)
(* kCheapPrepend bytes stay free: no copy leaves the vector.               *)
IndicesInv ==
  /\ buf.mem \in Seq(Byte)
  /\ buf.reader \in Nat /\ buf.writer \in Nat
  /\ CheapPrepend <= buf.reader
  /\ buf.reader <= buf.writer
  /\ buf.writer <= Len(buf.mem)

(* Bytes come out in the order in which they went in, through moves,       *)
(* growth and reads that overflow into extrabuf.                           *)
Queue == INSTANCE ByteQueue WITH queue <- Content(buf)
QueueRefined == Queue!Spec

(* The vector grows only for bytes it could not hold with the prefix kept  *)
(* free, and it never shrinks.                                             *)
GrowsWhenFull ==
  [][/\ Len(buf'.mem) >= Len(buf.mem)
     /\ Len(buf'.mem) > Len(buf.mem) =>
          CheapPrepend + Readable(buf') > Len(buf.mem)]_vars

================================================================================
