------------------------------ MODULE Buffer_proof ------------------------------
(***************************************************************************)
(* Proofs about Buffer, for any bytes and any sizes.  The invariant needs  *)
(* no strengthening; what takes work is what the operations do to the      *)
(* readable bytes, which is proved element by element.                     *)
(***************************************************************************)
EXTENDS Buffer, SequenceTheorems, TLAPS

(* IndicesInv of any buffer b. *)
BufferOK(b) ==
  /\ b \in [mem : Seq(Byte), reader : Nat, writer : Nat]
  /\ CheapPrepend <= b.reader
  /\ b.reader <= b.writer
  /\ b.writer <= Len(b.mem)

-----------------------------------------------------------------------------
(* The parts of the operations. *)

LEMMA FunctionIsSeq ==
  ASSUME NEW n \in Nat, NEW f \in [1 .. n -> Byte]
  PROVE  f \in Seq(Byte) /\ Len(f) = n
<1>1. f \in Seq(Byte)
  BY SeqDef
<1>2. QED BY <1>1, LenProperties

LEMMA CopyBytes ==
  ASSUME NEW mem \in Seq(Byte), NEW at \in Nat, NEW data \in Seq(Byte)
  PROVE  /\ Copy(mem, at, data) \in Seq(Byte)
         /\ Len(Copy(mem, at, data)) = Len(mem)
         /\ \A i \in 1 .. Len(mem) :
              Copy(mem, at, data)[i] =
                IF at < i /\ i <= at + Len(data) THEN data[i - at] ELSE mem[i]
<1>1. Len(mem) \in Nat /\ Len(data) \in Nat
  BY LenProperties
<1>2. ASSUME NEW i \in 1 .. Len(mem)
      PROVE  (IF at < i /\ i <= at + Len(data) THEN data[i - at] ELSE mem[i]) \in Byte
  <2>1. CASE at < i /\ i <= at + Len(data)
    <3>1. i - at \in 1 .. Len(data)
      BY <1>1, <2>1
    <3>2. QED BY <2>1, <3>1, ElementOfSeq
  <2>2. CASE ~(at < i /\ i <= at + Len(data))
    BY <2>2, ElementOfSeq
  <2>3. QED BY <2>1, <2>2
<1>3. Copy(mem, at, data) \in [1 .. Len(mem) -> Byte]
  BY <1>2 DEF Copy
<1>4. QED BY <1>1, <1>3, FunctionIsSeq DEF Copy

LEMMA ResizeBytes ==
  ASSUME NEW mem \in Seq(Byte), NEW size \in Nat, Len(mem) <= size
  PROVE  /\ Resize(mem, size) \in Seq(Byte)
         /\ Len(Resize(mem, size)) = size
         /\ \A i \in 1 .. Len(mem) : Resize(mem, size)[i] = mem[i]
<1> DEFINE more == [i \in 1 .. size - Len(mem) |-> Zero]
<1>1. Len(mem) \in Nat /\ size - Len(mem) \in Nat
  BY LenProperties
<1>2. more \in [1 .. size - Len(mem) -> Byte]
  BY ByteAssumption
<1>3. more \in Seq(Byte) /\ Len(more) = size - Len(mem)
  BY <1>1, <1>2, FunctionIsSeq
<1>4. Resize(mem, size) = mem \o more
  BY DEF Resize
<1> HIDE DEF more
<1>5. QED BY <1>1, <1>3, <1>4, ConcatProperties

LEMMA ContentBytes ==
  ASSUME NEW b, BufferOK(b)
  PROVE  /\ Content(b) \in Seq(Byte)
         /\ Len(Content(b)) = Readable(b)
         /\ Readable(b) \in Nat
         /\ \A i \in 1 .. Readable(b) : Content(b)[i] = b.mem[b.reader + i]
<1>1. /\ b.mem \in Seq(Byte) /\ b.reader \in Nat /\ b.writer \in Nat
      /\ b.reader <= b.writer /\ b.writer <= Len(b.mem) /\ Len(b.mem) \in Nat
  BY LenProperties DEF BufferOK
<1>2. \A i \in b.reader + 1 .. b.writer : b.mem[i] \in Byte
  BY <1>1, ElementOfSeq
<1>3. /\ Content(b) \in Seq(Byte)
      /\ Len(Content(b)) = IF b.reader + 1 <= b.writer
                           THEN b.writer - (b.reader + 1) + 1 ELSE 0
      /\ \A i \in 1 .. b.writer - (b.reader + 1) + 1 :
           Content(b)[i] = b.mem[b.reader + 1 + i - 1]
  <2>1. b.reader + 1 \in Int /\ b.writer \in Int
    BY <1>1
  <2>2. QED BY <1>2, <2>1, SubSeqProperties DEF Content
<1>4. b.writer - (b.reader + 1) + 1 = Readable(b)
  BY <1>1 DEF Readable
<1>5. \A i \in 1 .. Readable(b) : b.reader + 1 + i - 1 = b.reader + i
  BY <1>1
<1>6. Len(Content(b)) = Readable(b) /\ Readable(b) \in Nat
  BY <1>1, <1>3 DEF Readable
<1>7. QED BY <1>3, <1>4, <1>5, <1>6

(* Two buffers with the same readable bytes, wherever they are. *)
LEMMA SameContent ==
  ASSUME NEW b, NEW c, BufferOK(b), BufferOK(c), Readable(b) = Readable(c),
         \A i \in 1 .. Readable(b) : c.mem[c.reader + i] = b.mem[b.reader + i]
  PROVE  Content(c) = Content(b)
<1>1. \A i \in 1 .. Len(Content(c)) : Content(c)[i] = Content(b)[i]
  BY ContentBytes
<1>2. QED BY <1>1, ContentBytes, SeqEqual

-----------------------------------------------------------------------------
(* What each operation does to the indices and to the readable bytes.      *)

(* makeSpace makes the room it was asked for and moves no readable byte    *)
(* out of its place in the content.                                        *)
LEMMA MakeSpaceKeeps ==
  ASSUME NEW b, BufferOK(b), NEW len \in Nat, Writable(b) < len
  PROVE  /\ BufferOK(MakeSpace(b, len))
         /\ Content(MakeSpace(b, len)) = Content(b)
         /\ Writable(MakeSpace(b, len)) >= len
<1> DEFINE c == MakeSpace(b, len)
<1>1. /\ b \in [mem : Seq(Byte), reader : Nat, writer : Nat]
      /\ b.mem \in Seq(Byte) /\ b.reader \in Nat /\ b.writer \in Nat
      /\ Len(b.mem) \in Nat /\ CheapPrepend \in Nat
      /\ CheapPrepend <= b.reader /\ b.reader <= b.writer
      /\ b.writer <= Len(b.mem)
  BY LenProperties, BufferSizes DEF BufferOK
<1>2. CASE Writable(b) + Prependable(b) < len + CheapPrepend
  <2>1. c = [b EXCEPT !.mem = Resize(b.mem, b.writer + len)]
    BY <1>2 DEF MakeSpace
  <2>2. b.writer + len \in Nat /\ Len(b.mem) <= b.writer + len
    BY <1>1 DEF Writable
  <2>3. /\ Resize(b.mem, b.writer + len) \in Seq(Byte)
        /\ Len(Resize(b.mem, b.writer + len)) = b.writer + len
        /\ \A i \in 1 .. Len(b.mem) : Resize(b.mem, b.writer + len)[i] = b.mem[i]
    BY <1>1, <2>2, ResizeBytes
  <2>4. /\ c \in [mem : Seq(Byte), reader : Nat, writer : Nat]
        /\ c.mem = Resize(b.mem, b.writer + len)
        /\ c.reader = b.reader /\ c.writer = b.writer
    BY <1>1, <2>1, <2>3
  <2> HIDE DEF c
  <2>5. BufferOK(c)
    BY <1>1, <2>3, <2>4 DEF BufferOK
  <2>6. Readable(c) = Readable(b) /\ Writable(c) >= len
    BY <1>1, <2>3, <2>4 DEF Readable, Writable
  <2>7. \A i \in 1 .. Readable(b) : c.mem[c.reader + i] = b.mem[b.reader + i]
    <3>1. \A i \in 1 .. Readable(b) : b.reader + i \in 1 .. Len(b.mem)
      BY <1>1 DEF Readable
    <3>2. QED BY <2>3, <2>4, <3>1
  <2>8. Content(c) = Content(b)
    BY <2>5, <2>6, <2>7, SameContent
  <2>9. QED BY <2>5, <2>6, <2>8 DEF c
<1>3. CASE ~(Writable(b) + Prependable(b) < len + CheapPrepend)
  <2>1. c = [mem |-> Copy(b.mem, CheapPrepend, Content(b)),
             reader |-> CheapPrepend, writer |-> CheapPrepend + Readable(b)]
    BY <1>3 DEF MakeSpace
  <2>2. /\ Content(b) \in Seq(Byte) /\ Len(Content(b)) = Readable(b)
        /\ Readable(b) \in Nat
        /\ \A i \in 1 .. Readable(b) : Content(b)[i] = b.mem[b.reader + i]
    BY ContentBytes
  <2>3. /\ c.mem \in Seq(Byte) /\ Len(c.mem) = Len(b.mem)
        /\ \A i \in 1 .. Len(b.mem) :
             c.mem[i] = IF CheapPrepend < i /\ i <= CheapPrepend + Readable(b)
                        THEN Content(b)[i - CheapPrepend] ELSE b.mem[i]
    BY <1>1, <2>1, <2>2, CopyBytes
  <2>4. /\ c \in [mem : Seq(Byte), reader : Nat, writer : Nat]
        /\ c.reader = CheapPrepend /\ c.writer = CheapPrepend + Readable(b)
    BY <1>1, <2>1, <2>2, <2>3
  <2> HIDE DEF c
  <2>5. CheapPrepend + Readable(b) + len <= Len(b.mem)
    BY <1>1, <1>3 DEF Writable, Prependable, Readable
  <2>6. BufferOK(c)
    BY <1>1, <2>2, <2>3, <2>4, <2>5 DEF BufferOK
  <2>7. Readable(c) = Readable(b) /\ Writable(c) >= len
    BY <1>1, <2>2, <2>3, <2>4, <2>5 DEF Readable, Writable
  <2>8. ASSUME NEW i \in 1 .. Readable(b)
        PROVE  c.mem[c.reader + i] = b.mem[b.reader + i]
    <3>1. /\ CheapPrepend + i \in 1 .. Len(b.mem)
          /\ CheapPrepend < CheapPrepend + i
          /\ CheapPrepend + i <= CheapPrepend + Readable(b)
          /\ (CheapPrepend + i) - CheapPrepend = i
      BY <1>1, <2>2, <2>5
    <3>2. c.mem[CheapPrepend + i] = Content(b)[i]
      BY <2>3, <3>1
    <3>3. QED BY <2>2, <2>4, <3>2
  <2>9. Content(c) = Content(b)
    BY <2>6, <2>7, <2>8, SameContent
  <2>10. QED BY <2>6, <2>7, <2>9 DEF c
<1>4. QED BY <1>2, <1>3

LEMMA EnsureKeeps ==
  ASSUME NEW b, BufferOK(b), NEW len \in Nat
  PROVE  /\ BufferOK(EnsureWriteable(b, len))
         /\ Content(EnsureWriteable(b, len)) = Content(b)
         /\ Writable(EnsureWriteable(b, len)) >= len
<1>1. Writable(b) \in Nat
  BY LenProperties DEF BufferOK, Writable
<1>2. CASE Writable(b) < len
  BY <1>2, MakeSpaceKeeps DEF EnsureWriteable
<1>3. CASE ~(Writable(b) < len)
  BY <1>1, <1>3 DEF EnsureWriteable
<1>4. QED BY <1>2, <1>3

(* Bytes written where there is room follow those that were there. *)
LEMMA WriteAppends ==
  ASSUME NEW b, BufferOK(b), NEW data \in Seq(Byte), Len(data) <= Writable(b)
  PROVE  /\ BufferOK(Write(b, data))
         /\ Content(Write(b, data)) = Content(b) \o data
<1> DEFINE c == Write(b, data)
<1>1. /\ b \in [mem : Seq(Byte), reader : Nat, writer : Nat]
      /\ b.mem \in Seq(Byte) /\ b.reader \in Nat /\ b.writer \in Nat
      /\ Len(b.mem) \in Nat /\ CheapPrepend \in Nat /\ Len(data) \in Nat
      /\ CheapPrepend <= b.reader /\ b.reader <= b.writer
      /\ b.writer + Len(data) <= Len(b.mem)
  BY LenProperties, BufferSizes DEF BufferOK, Writable
<1>2. /\ Copy(b.mem, b.writer, data) \in Seq(Byte)
      /\ Len(Copy(b.mem, b.writer, data)) = Len(b.mem)
      /\ \A i \in 1 .. Len(b.mem) :
           Copy(b.mem, b.writer, data)[i] =
             IF b.writer < i /\ i <= b.writer + Len(data)
             THEN data[i - b.writer] ELSE b.mem[i]
  BY <1>1, CopyBytes
<1>3. /\ c \in [mem : Seq(Byte), reader : Nat, writer : Nat]
      /\ c.mem = Copy(b.mem, b.writer, data)
      /\ c.reader = b.reader /\ c.writer = b.writer + Len(data)
  <2> DEFINE mem == Copy(b.mem, b.writer, data)
             writer == b.writer + Len(data)
  <2>1. c = [b EXCEPT !.mem = mem, !.writer = writer]
    BY DEF Write
  <2>2. mem \in Seq(Byte) /\ writer \in Nat
    BY <1>1, <1>2
  <2> HIDE DEF mem, writer, c
  <2>3. /\ c \in [mem : Seq(Byte), reader : Nat, writer : Nat]
        /\ c.mem = mem /\ c.reader = b.reader /\ c.writer = writer
    BY <1>1, <2>1, <2>2
  <2>4. QED BY <2>3 DEF mem, writer
<1> HIDE DEF c
<1>4. BufferOK(c)
  BY <1>1, <1>2, <1>3 DEF BufferOK
<1>5. Readable(c) = Readable(b) + Len(data)
  BY <1>1, <1>3 DEF Readable
<1>6. /\ Content(b) \in Seq(Byte) /\ Len(Content(b)) = Readable(b)
      /\ Readable(b) \in Nat
      /\ \A i \in 1 .. Readable(b) : Content(b)[i] = b.mem[b.reader + i]
  BY ContentBytes
<1>7. /\ Content(c) \in Seq(Byte) /\ Len(Content(c)) = Readable(c)
      /\ \A i \in 1 .. Readable(c) : Content(c)[i] = c.mem[b.reader + i]
  BY <1>3, <1>4, ContentBytes
<1>8. /\ Content(b) \o data \in Seq(Byte)
      /\ Len(Content(b) \o data) = Readable(c)
      /\ \A i \in 1 .. Readable(c) :
           (Content(b) \o data)[i] =
             IF i <= Readable(b) THEN Content(b)[i] ELSE data[i - Readable(b)]
  <2> DEFINE old == Content(b)
  <2>1. old \in Seq(Byte) /\ Len(old) = Readable(b)
    BY <1>6
  <2> HIDE DEF old
  <2>2. /\ old \o data \in Seq(Byte)
        /\ Len(old \o data) = Len(old) + Len(data)
        /\ \A i \in 1 .. Len(old) + Len(data) : (old \o data)[i] =
              IF i <= Len(old) THEN old[i] ELSE data[i - Len(old)]
    BY <2>1, ConcatProperties
  <2>3. Len(old) + Len(data) = Readable(c)
    BY <1>5, <2>1
  <2>4. QED BY <2>1, <2>2, <2>3 DEF old
<1>9. ASSUME NEW i \in 1 .. Readable(c)
      PROVE  Content(c)[i] = (Content(b) \o data)[i]
  <2>1. b.reader + i \in 1 .. Len(b.mem) /\ i \in Nat
    BY <1>1, <1>5, <1>6 DEF Readable
  <2>2. CASE i <= Readable(b)
    <3>1. ~(b.writer < b.reader + i) /\ i \in 1 .. Readable(b)
      BY <1>1, <1>6, <2>2 DEF Readable
    <3>2. c.mem[b.reader + i] = b.mem[b.reader + i]
      BY <1>2, <1>3, <2>1, <3>1
    <3>3. QED BY <1>6, <1>7, <1>8, <2>2, <3>1, <3>2
  <2>3. CASE ~(i <= Readable(b))
    <3>1. /\ b.writer < b.reader + i /\ b.reader + i <= b.writer + Len(data)
          /\ (b.reader + i) - b.writer = i - Readable(b)
      BY <1>1, <1>5, <1>6, <2>1, <2>3 DEF Readable
    <3>2. c.mem[b.reader + i] = data[i - Readable(b)]
      BY <1>2, <1>3, <2>1, <3>1
    <3>3. QED BY <1>7, <1>8, <2>3, <3>2
  <2>4. QED BY <2>2, <2>3
<1>10. Content(c) = Content(b) \o data
  BY <1>7, <1>8, <1>9, SeqEqual
<1>11. QED BY <1>4, <1>10 DEF c

LEMMA AppendAppends ==
  ASSUME NEW b, BufferOK(b), NEW data \in Seq(Byte)
  PROVE  /\ BufferOK(AppendTo(b, data))
         /\ Content(AppendTo(b, data)) = Content(b) \o data
<1> DEFINE c == EnsureWriteable(b, Len(data))
<1>1. Len(data) \in Nat
  BY LenProperties
<1>2. BufferOK(c) /\ Content(c) = Content(b) /\ Writable(c) >= Len(data)
  BY <1>1, EnsureKeeps
<1>3. AppendTo(b, data) = Write(c, data)
  BY DEF AppendTo
<1> HIDE DEF c
<1>4. Writable(c) \in Int
  BY <1>2, LenProperties DEF BufferOK, Writable
<1>5. Len(data) <= Writable(c)
  BY <1>1, <1>2, <1>4
<1>6. QED BY <1>2, <1>3, <1>5, WriteAppends

(* A sequence cut in two. *)
LEMMA HeadAndRest ==
  ASSUME NEW data \in Seq(Byte), NEW k \in Nat, k <= Len(data)
  PROVE  /\ SubSeq(data, 1, k) \in Seq(Byte)
         /\ SubSeq(data, k + 1, Len(data)) \in Seq(Byte)
         /\ Len(SubSeq(data, 1, k)) = k
         /\ Len(SubSeq(data, k + 1, Len(data))) = Len(data) - k
         /\ SubSeq(data, 1, k) \o SubSeq(data, k + 1, Len(data)) = data
<1> DEFINE head == SubSeq(data, 1, k)
           rest == SubSeq(data, k + 1, Len(data))
<1>1. /\ Len(data) \in Nat
      /\ \A i \in 1 .. Len(data) : data[i] \in Byte
  BY LenProperties, ElementOfSeq
<1>2. /\ head \in Seq(Byte)
      /\ Len(head) = IF 1 <= k THEN k - 1 + 1 ELSE 0
      /\ \A i \in 1 .. k - 1 + 1 : head[i] = data[1 + i - 1]
  <2>1. 1 \in Int /\ k \in Int
    OBVIOUS
  <2>2. \A i \in 1 .. k : data[i] \in Byte
    BY <1>1
  <2>3. QED BY <2>1, <2>2, SubSeqProperties
<1>3. /\ rest \in Seq(Byte)
      /\ Len(rest) = IF k + 1 <= Len(data) THEN Len(data) - (k + 1) + 1 ELSE 0
      /\ \A i \in 1 .. Len(data) - (k + 1) + 1 : rest[i] = data[k + 1 + i - 1]
  <2>1. k + 1 \in Int /\ Len(data) \in Int
    BY <1>1
  <2>2. \A i \in k + 1 .. Len(data) : data[i] \in Byte
    BY <1>1
  <2>3. QED BY <2>1, <2>2, SubSeqProperties
<1> HIDE DEF head, rest
<1>4. Len(head) = k /\ Len(rest) = Len(data) - k
  BY <1>1, <1>2, <1>3
<1>5. /\ head \o rest \in Seq(Byte)
      /\ Len(head \o rest) = Len(data)
      /\ \A i \in 1 .. Len(data) :
           (head \o rest)[i] = IF i <= k THEN head[i] ELSE rest[i - k]
  <2>1. Len(head) + Len(rest) = Len(data)
    BY <1>1, <1>4
  <2>2. /\ head \o rest \in Seq(Byte)
        /\ Len(head \o rest) = Len(head) + Len(rest)
        /\ \A i \in 1 .. Len(head) + Len(rest) : (head \o rest)[i] =
              IF i <= Len(head) THEN head[i] ELSE rest[i - Len(head)]
    BY <1>2, <1>3, ConcatProperties
  <2>3. QED BY <1>4, <2>1, <2>2
<1>6. ASSUME NEW i \in 1 .. Len(data)
      PROVE  (head \o rest)[i] = data[i]
  <2>1. CASE i <= k
    <3>1. i \in 1 .. k - 1 + 1 /\ 1 + i - 1 = i
      BY <1>1, <2>1
    <3>2. QED BY <1>2, <1>5, <2>1, <3>1
  <2>2. CASE ~(i <= k)
    <3>1. /\ i - k \in 1 .. Len(data) - (k + 1) + 1
          /\ k + 1 + (i - k) - 1 = i
      BY <1>1, <2>2
    <3>2. rest[i - k] = data[k + 1 + (i - k) - 1]
      BY <1>3, <3>1
    <3>3. QED BY <1>5, <2>2, <3>1, <3>2
  <2>3. QED BY <2>1, <2>2
<1>7. head \o rest = data
  BY <1>5, <1>6, SeqEqual
<1>8. QED BY <1>2, <1>3, <1>4, <1>7 DEF head, rest

(* readFd writes what fits and appends the rest, which may be nothing. *)
LEMMA ReadFdSplits ==
  ASSUME NEW b, BufferOK(b), NEW data \in Seq(Byte)
  PROVE  \/ Len(data) <= Writable(b) /\ ReadFd(b, data) = Write(b, data)
         \/ \E head \in Seq(Byte), rest \in Seq(Byte) :
              /\ Len(head) <= Writable(b)
              /\ head \o rest = data
              /\ Len(head) + Len(rest) = Len(data)
              /\ ReadFd(b, data) = AppendTo(Write(b, head), rest)
<1> DEFINE k == Writable(b)
           head == SubSeq(data, 1, k)
           rest == SubSeq(data, k + 1, Len(data))
<1>1. k \in Nat /\ Len(data) \in Nat
  BY LenProperties DEF BufferOK, Writable
<1>2. CASE Len(data) <= k
  BY <1>2 DEF ReadFd
<1>3. CASE ~(Len(data) <= k)
  <2>1. ReadFd(b, data) = AppendTo(Write(b, head), rest)
    BY <1>3 DEF ReadFd
  <2>2. /\ head \in Seq(Byte) /\ rest \in Seq(Byte) /\ head \o rest = data
        /\ Len(head) = k /\ Len(rest) = Len(data) - k
    <3>1. k <= Len(data)
      BY <1>1, <1>3
    <3>2. QED BY <1>1, <3>1, HeadAndRest
  <2> HIDE DEF head, rest
  <2>3. Len(head) <= Writable(b) /\ Len(head) + Len(rest) = Len(data)
    BY <1>1, <2>2
  <2>4. QED BY <2>1, <2>2, <2>3
<1>4. QED BY <1>2, <1>3

(* Whether or not what was read overflowed into extrabuf. *)
LEMMA ReadFdAppends ==
  ASSUME NEW b, BufferOK(b), NEW data \in Seq(Byte)
  PROVE  /\ BufferOK(ReadFd(b, data))
         /\ Content(ReadFd(b, data)) = Content(b) \o data
<1>1. CASE Len(data) <= Writable(b) /\ ReadFd(b, data) = Write(b, data)
  BY <1>1, WriteAppends
<1>2. CASE \E head \in Seq(Byte), rest \in Seq(Byte) :
             /\ Len(head) <= Writable(b)
             /\ head \o rest = data
             /\ Len(head) + Len(rest) = Len(data)
             /\ ReadFd(b, data) = AppendTo(Write(b, head), rest)
  <2>1. PICK head \in Seq(Byte), rest \in Seq(Byte) :
             /\ Len(head) <= Writable(b)
             /\ head \o rest = data
             /\ ReadFd(b, data) = AppendTo(Write(b, head), rest)
    BY <1>2
  <2>2. BufferOK(Write(b, head)) /\ Content(Write(b, head)) = Content(b) \o head
    BY <2>1, WriteAppends
  <2>3. /\ BufferOK(ReadFd(b, data))
        /\ Content(ReadFd(b, data)) = (Content(b) \o head) \o rest
    BY <2>1, <2>2, AppendAppends
  <2>4. (Content(b) \o head) \o rest = Content(b) \o (head \o rest)
    BY ContentBytes, ConcatAssociative
  <2>5. QED BY <2>1, <2>3, <2>4
<1>3. QED BY <1>1, <1>2, ReadFdSplits

(* retrieve drops bytes from the front; retrieving more than there is, or  *)
(* all there is, empties the buffer.                                       *)
LEMMA RetrieveDrops ==
  ASSUME NEW b, BufferOK(b), NEW len \in Nat
  PROVE  /\ BufferOK(Retrieve(b, len))
         /\ \E n \in 0 .. Len(Content(b)) :
              Content(Retrieve(b, len)) = SubSeq(Content(b), n + 1, Len(Content(b)))
<1> DEFINE c == Retrieve(b, len)
           n == IF len < Readable(b) THEN len ELSE Readable(b)
           old == Content(b)
<1>1. /\ b \in [mem : Seq(Byte), reader : Nat, writer : Nat]
      /\ b.reader \in Nat /\ b.writer \in Nat /\ Len(b.mem) \in Nat
      /\ CheapPrepend \in Nat /\ CheapPrepend <= b.reader
      /\ b.reader <= b.writer /\ b.writer <= Len(b.mem)
  BY LenProperties, BufferSizes DEF BufferOK
<1>2. /\ old \in Seq(Byte) /\ Len(old) = Readable(b) /\ Readable(b) \in Nat
      /\ \A i \in 1 .. Readable(b) : old[i] = b.mem[b.reader + i]
  BY ContentBytes
<1>3. n \in Nat /\ n \in 0 .. Len(old)
  BY <1>2
<1>4. /\ BufferOK(c) /\ c.mem = b.mem
      /\ Readable(c) = Readable(b) - n
      /\ n < Readable(b) => c.reader = b.reader + n
  <2>1. CASE len < Readable(b)
    <3>1. c = [b EXCEPT !.reader = b.reader + len]
      BY <2>1 DEF Retrieve
    <3> HIDE DEF c
    <3>2. b.reader + len \in Nat /\ b.reader + len <= b.writer
      BY <1>1, <2>1 DEF Readable
    <3>3. /\ c \in [mem : Seq(Byte), reader : Nat, writer : Nat]
          /\ c.mem = b.mem /\ c.reader = b.reader + len /\ c.writer = b.writer
      BY <1>1, <3>1, <3>2
    <3>4. QED BY <1>1, <2>1, <3>2, <3>3 DEF BufferOK, Readable
  <2>2. CASE ~(len < Readable(b))
    <3>1. c = [b EXCEPT !.reader = CheapPrepend, !.writer = CheapPrepend]
      BY <2>2 DEF Retrieve, RetrieveAll
    <3> HIDE DEF c
    <3>2. /\ c \in [mem : Seq(Byte), reader : Nat, writer : Nat]
          /\ c.mem = b.mem /\ c.reader = CheapPrepend /\ c.writer = CheapPrepend
      BY <1>1, <3>1
    <3>3. QED BY <1>1, <1>2, <2>2, <3>2 DEF BufferOK, Readable
  <2>3. QED BY <2>1, <2>2
<1> HIDE DEF c, n, old
<1>5. /\ Content(c) \in Seq(Byte) /\ Len(Content(c)) = Readable(b) - n
      /\ \A i \in 1 .. Readable(b) - n : Content(c)[i] = b.mem[c.reader + i]
  BY <1>4, ContentBytes
<1>6. /\ SubSeq(old, n + 1, Len(old)) \in Seq(Byte)
      /\ Len(SubSeq(old, n + 1, Len(old))) = Readable(b) - n
      /\ \A i \in 1 .. Readable(b) - n :
           SubSeq(old, n + 1, Len(old))[i] = old[n + i]
  <2>1. n + 1 \in Int /\ Len(old) \in Int
    BY <1>2, <1>3
  <2>2. \A i \in n + 1 .. Len(old) : old[i] \in Byte
    BY <1>2, <1>3, ElementOfSeq
  <2>3. /\ SubSeq(old, n + 1, Len(old)) \in Seq(Byte)
        /\ Len(SubSeq(old, n + 1, Len(old))) =
             IF n + 1 <= Len(old) THEN Len(old) - (n + 1) + 1 ELSE 0
        /\ \A i \in 1 .. Len(old) - (n + 1) + 1 :
             SubSeq(old, n + 1, Len(old))[i] = old[n + 1 + i - 1]
    BY <2>1, <2>2, SubSeqProperties
  <2>4. Len(old) - (n + 1) + 1 = Readable(b) - n
    BY <1>2, <1>3
  <2>5. \A i \in 1 .. Readable(b) - n : n + 1 + i - 1 = n + i
    BY <1>3
  <2>6. Len(SubSeq(old, n + 1, Len(old))) = Readable(b) - n
    BY <1>2, <1>3, <2>3
  <2>7. QED BY <2>3, <2>4, <2>5, <2>6
<1>7. ASSUME NEW i \in 1 .. Readable(b) - n
      PROVE  Content(c)[i] = SubSeq(old, n + 1, Len(old))[i]
  <2>1. /\ n < Readable(b) /\ n + i \in 1 .. Readable(b)
        /\ (b.reader + n) + i = b.reader + (n + i)
    BY <1>1, <1>2, <1>3
  <2>2. QED BY <1>2, <1>4, <1>5, <1>6, <2>1
<1>8. Content(c) = SubSeq(old, n + 1, Len(old))
  BY <1>5, <1>6, <1>7, SeqEqual
<1>9. QED BY <1>3, <1>4, <1>8 DEF c, old

(* A vector grows only when the bytes it is to hold do not fit behind the  *)
(* prefix.                                                                 *)
GrowsFor(before, after, bytes) ==
  /\ Len(after.mem) >= Len(before.mem)
  /\ Len(after.mem) > Len(before.mem) => CheapPrepend + bytes > Len(before.mem)

LEMMA AppendGrows ==
  ASSUME NEW b, BufferOK(b), NEW data \in Seq(Byte)
  PROVE  GrowsFor(b, AppendTo(b, data), Readable(b) + Len(data))
<1> DEFINE c == EnsureWriteable(b, Len(data))
<1>1. /\ b.mem \in Seq(Byte) /\ b.reader \in Nat /\ b.writer \in Nat
      /\ b \in [mem : Seq(Byte), reader : Nat, writer : Nat]
      /\ Len(b.mem) \in Nat /\ CheapPrepend \in Nat /\ Len(data) \in Nat
      /\ CheapPrepend <= b.reader /\ b.reader <= b.writer
      /\ b.writer <= Len(b.mem)
  BY LenProperties, BufferSizes DEF BufferOK
<1>2. GrowsFor(b, c, Readable(b) + Len(data))
  <2>1. CASE /\ Writable(b) < Len(data)
             /\ Writable(b) + Prependable(b) < Len(data) + CheapPrepend
    <3>1. c = [b EXCEPT !.mem = Resize(b.mem, b.writer + Len(data))]
      BY <2>1 DEF EnsureWriteable, MakeSpace
    <3>2. c.mem = Resize(b.mem, b.writer + Len(data))
      BY <1>1, <3>1
    <3>3. Len(c.mem) = b.writer + Len(data)
      <4>1. b.writer + Len(data) \in Nat /\ Len(b.mem) <= b.writer + Len(data)
        BY <1>1, <2>1 DEF Writable
      <4>2. QED BY <1>1, <3>2, <4>1, ResizeBytes
    <3> HIDE DEF c
    <3>4. QED BY <1>1, <2>1, <3>3
          DEF GrowsFor, Writable, Prependable, Readable
  <2>2. CASE /\ Writable(b) < Len(data)
             /\ ~(Writable(b) + Prependable(b) < Len(data) + CheapPrepend)
    <3>1. c.mem = Copy(b.mem, CheapPrepend, Content(b))
      BY <2>2 DEF EnsureWriteable, MakeSpace
    <3>2. Len(c.mem) = Len(b.mem)
      BY <1>1, <3>1, ContentBytes, CopyBytes
    <3> HIDE DEF c
    <3>3. QED BY <1>1, <3>2 DEF GrowsFor
  <2>3. CASE ~(Writable(b) < Len(data))
    <3>1. c = b
      BY <2>3 DEF EnsureWriteable
    <3> HIDE DEF c
    <3>2. QED BY <1>1, <3>1 DEF GrowsFor
  <2>4. QED BY <2>1, <2>2, <2>3
<1>3. BufferOK(c)
  BY <1>1, EnsureKeeps
<1>4. AppendTo(b, data) = Write(c, data)
  BY DEF AppendTo
<1> HIDE DEF c
<1>5. Len(Write(c, data).mem) = Len(c.mem)
  <2>1. c \in [mem : Seq(Byte), reader : Nat, writer : Nat]
    BY <1>3 DEF BufferOK
  <2>2. Write(c, data).mem = Copy(c.mem, c.writer, data)
    BY <2>1 DEF Write
  <2>3. QED BY <2>1, <2>2, CopyBytes
<1>6. QED BY <1>2, <1>4, <1>5 DEF GrowsFor

LEMMA WriteStays ==
  ASSUME NEW b, BufferOK(b), NEW data \in Seq(Byte)
  PROVE  Len(Write(b, data).mem) = Len(b.mem)
<1>1. b \in [mem : Seq(Byte), reader : Nat, writer : Nat] /\ b.writer \in Nat
  BY DEF BufferOK
<1>2. Write(b, data).mem = Copy(b.mem, b.writer, data)
  BY <1>1 DEF Write
<1>3. QED BY <1>1, <1>2, CopyBytes

LEMMA ReadFdGrows ==
  ASSUME NEW b, BufferOK(b), NEW data \in Seq(Byte)
  PROVE  GrowsFor(b, ReadFd(b, data), Readable(b) + Len(data))
<1>1. Len(b.mem) \in Nat
  BY LenProperties DEF BufferOK
<1>2. CASE Len(data) <= Writable(b) /\ ReadFd(b, data) = Write(b, data)
  <2>1. Len(ReadFd(b, data).mem) = Len(b.mem)
    BY <1>2, WriteStays
  <2>2. QED BY <1>1, <2>1 DEF GrowsFor
<1>3. CASE \E head \in Seq(Byte), rest \in Seq(Byte) :
             /\ Len(head) <= Writable(b)
             /\ head \o rest = data
             /\ Len(head) + Len(rest) = Len(data)
             /\ ReadFd(b, data) = AppendTo(Write(b, head), rest)
  <2>1. PICK head \in Seq(Byte), rest \in Seq(Byte) :
             /\ Len(head) <= Writable(b)
             /\ Len(head) + Len(rest) = Len(data)
             /\ ReadFd(b, data) = AppendTo(Write(b, head), rest)
    BY <1>3
  <2> DEFINE c == Write(b, head)
  <2>2. /\ BufferOK(c) /\ Content(c) = Content(b) \o head
        /\ Len(c.mem) = Len(b.mem)
    BY <2>1, WriteAppends, WriteStays
  <2>3. ReadFd(b, data) = AppendTo(c, rest)
    BY <2>1
  <2> HIDE DEF c
  <2>4. Readable(c) = Readable(b) + Len(head)
    <3>1. Content(b) \in Seq(Byte) /\ Len(Content(b)) = Readable(b)
      BY ContentBytes
    <3>2. Len(Content(b) \o head) = Len(Content(b)) + Len(head)
      BY <3>1, ConcatProperties
    <3>3. Len(Content(c)) = Readable(c)
      BY <2>2, ContentBytes
    <3>4. QED BY <2>2, <3>1, <3>2, <3>3
  <2>5. Readable(c) + Len(rest) = Readable(b) + Len(data)
    <3>1. /\ Readable(b) \in Nat /\ Len(head) \in Nat /\ Len(rest) \in Nat
      BY ContentBytes, LenProperties
    <3>2. Len(head) + Len(rest) = Len(data)
      BY <2>1
    <3>3. ASSUME NEW r \in Nat, NEW h \in Nat, NEW t \in Nat
          PROVE  (r + h) + t = r + (h + t)
      OBVIOUS
    <3>4. (Readable(b) + Len(head)) + Len(rest) = Readable(b) + (Len(head) + Len(rest))
      BY <3>1, <3>3
    <3>5. QED BY <2>4, <3>2, <3>4
  <2>6. GrowsFor(c, AppendTo(c, rest), Readable(c) + Len(rest))
    BY <2>2, AppendGrows
  <2>7. QED BY <2>2, <2>3, <2>5, <2>6 DEF GrowsFor
<1>4. QED BY <1>2, <1>3, ReadFdSplits

-----------------------------------------------------------------------------
(* The state machine.                                                      *)

LEMMA DataIsSeq == ASSUME NEW data \in Data PROVE data \in Seq(Byte)
<1>1. PICK n \in 0 .. MaxData : data \in [1 .. n -> Byte]
  BY DEF Data
<1>2. n \in Nat
  BY BufferSizes
<1>3. QED BY <1>1, <1>2, FunctionIsSeq

LEMMA NewBuffer == Init => BufferOK(buf) /\ Content(buf) = <<>> /\ given = <<>>
<1> SUFFICES ASSUME Init PROVE BufferOK(buf) /\ Content(buf) = <<>> /\ given = <<>>
  OBVIOUS
<1> DEFINE mem == [i \in 1 .. CheapPrepend + InitialSize |-> Zero]
<1>1. mem \in [1 .. CheapPrepend + InitialSize -> Byte]
  BY ByteAssumption
<1>2. /\ CheapPrepend \in Nat /\ InitialSize \in Nat
      /\ CheapPrepend + InitialSize \in Nat
  BY BufferSizes
<1>3. mem \in Seq(Byte) /\ Len(mem) = CheapPrepend + InitialSize
  BY <1>1, <1>2, FunctionIsSeq
<1>4. buf = [mem |-> mem, reader |-> CheapPrepend, writer |-> CheapPrepend]
  BY DEF Init
<1> HIDE DEF mem
<1>5. BufferOK(buf) /\ buf.reader = CheapPrepend /\ buf.writer = CheapPrepend
  BY <1>2, <1>3, <1>4 DEF BufferOK
<1>6. SubSeq(buf.mem, buf.reader + 1, buf.writer) = <<>>
  <2>1. buf.reader + 1 \in Int /\ buf.writer \in Int
        /\ buf.writer < buf.reader + 1
    BY <1>2, <1>5
  <2>2. QED BY <2>1, SubSeqEmpty
<1>7. QED BY <1>5, <1>6 DEF Content, Init

(* What a step may do, in one place. *)
Appends(data) ==
  /\ BufferOK(buf') /\ Content(buf') = Content(buf) \o data /\ given' = data
  /\ GrowsFor(buf, buf', Readable(buf) + Len(data))

Drops ==
  /\ BufferOK(buf') /\ Len(buf'.mem) = Len(buf.mem) /\ given' = <<>>
  /\ \E n \in 0 .. Len(Content(buf)) :
       Content(buf') = SubSeq(Content(buf), n + 1, Len(Content(buf)))

LEMMA StepOfBuffer ==
  ASSUME BufferOK(buf), Next
  PROVE  (\E data \in Seq(Byte) : Appends(data)) \/ Drops
<1>1. CASE \E data \in Data : AppendBytes(data) \/ ReadBytes(data)
  <2>1. PICK data \in Data : AppendBytes(data) \/ ReadBytes(data)
    BY <1>1
  <2>2. data \in Seq(Byte)
    BY DataIsSeq
  <2>3. CASE AppendBytes(data)
    BY <2>2, <2>3, AppendAppends, AppendGrows DEF AppendBytes, Appends
  <2>4. CASE ReadBytes(data)
    BY <2>2, <2>4, ReadFdAppends, ReadFdGrows DEF ReadBytes, Appends
  <2>5. QED BY <2>1, <2>2, <2>3, <2>4
<1>2. CASE \E len \in 0 .. MaxSize : RetrieveBytes(len)
  <2>1. PICK len \in 0 .. MaxSize : RetrieveBytes(len)
    BY <1>2
  <2>2. len \in Nat /\ buf' = Retrieve(buf, len) /\ given' = <<>>
    BY <2>1, BufferSizes DEF RetrieveBytes
  <2>3. Retrieve(buf, len).mem = buf.mem
    <3>1. buf \in [mem : Seq(Byte), reader : Nat, writer : Nat]
      BY DEF BufferOK
    <3>2. QED BY <3>1 DEF Retrieve, RetrieveAll
  <2>4. QED BY <2>2, <2>3, RetrieveDrops DEF Drops
<1>3. QED BY <1>1, <1>2 DEF Next

LEMMA BufferStays ==
  ASSUME BufferOK(buf), [Next]_vars
  PROVE  BufferOK(buf)'
<1>1. CASE Next
  BY <1>1, StepOfBuffer DEF Appends, Drops, BufferOK
<1>2. CASE UNCHANGED vars
  BY <1>2 DEF BufferOK, vars
<1>3. QED BY <1>1, <1>2

(* The indices stay in order, inside the vector and behind the prefix,     *)
(* whatever is appended, read and retrieved.                               *)
THEOREM IndicesCorrect == Spec => []IndicesInv
<1>1. Init => BufferOK(buf)
  BY NewBuffer
<1>2. BufferOK(buf) /\ [Next]_vars => BufferOK(buf)'
  BY BufferStays
<1>3. BufferOK(buf) => IndicesInv
  BY DEF BufferOK, IndicesInv
<1>4. QED BY <1>1, <1>2, <1>3, PTL DEF Spec

(* The readable bytes are a queue: makeSpace, growth and the overflow of   *)
(* readFd into extrabuf neither lose, repeat nor reorder a byte.           *)
THEOREM BufferImplementsQueue == Spec => QueueRefined
<1>1. Init => BufferOK(buf) /\ Queue!Init
  BY NewBuffer DEF Queue!Init
<1>2. BufferOK(buf) /\ [Next]_vars => BufferOK(buf)'
  BY BufferStays
<1>3. ASSUME BufferOK(buf), [Next]_vars
      PROVE  [Queue!Put \/ Queue!Take]_(Queue!vars)
  <2>1. CASE UNCHANGED vars
    BY <2>1 DEF vars, Queue!vars, Content
  <2>2. CASE Next
    <3>1. CASE \E data \in Seq(Byte) : Appends(data)
      BY <3>1 DEF Appends, Queue!Put
    <3>2. CASE Drops
      BY <3>2 DEF Drops, Queue!Take
    <3>3. QED BY <1>3, <2>2, <3>1, <3>2, StepOfBuffer
  <2>3. QED BY <1>3, <2>1, <2>2
<1>4. QED BY <1>1, <1>2, <1>3, PTL DEF Spec, QueueRefined, Queue!Spec

(* No append makes the vector grow that moving the readable bytes to the   *)
(* front could have served, and nothing makes it shrink.                   *)
THEOREM GrowthCorrect == Spec => GrowsWhenFull
<1> DEFINE Growth ==
      /\ Len(buf'.mem) >= Len(buf.mem)
      /\ Len(buf'.mem) > Len(buf.mem) =>
           CheapPrepend + Readable(buf') > Len(buf.mem)
<1>1. Init => BufferOK(buf)
  BY NewBuffer
<1>2. BufferOK(buf) /\ [Next]_vars => BufferOK(buf)'
  BY BufferStays
<1>3. ASSUME BufferOK(buf), Next PROVE Growth
  <2>1. CASE \E data \in Seq(Byte) : Appends(data)
    <3>1. PICK data \in Seq(Byte) : Appends(data)
      BY <2>1
    <3>2. Content(buf) \in Seq(Byte) /\ Len(Content(buf)) = Readable(buf)
      BY <1>3, ContentBytes
    <3>3. Len(Content(buf) \o data) = Len(Content(buf)) + Len(data)
      BY <3>2, ConcatProperties
    <3>4. Len(Content(buf')) = Readable(buf')
      BY <3>1, ContentBytes DEF Appends
    <3>5. Readable(buf') = Readable(buf) + Len(data)
      BY <3>1, <3>2, <3>3, <3>4 DEF Appends
    <3>6. QED BY <3>1, <3>5 DEF Appends, GrowsFor
  <2>2. CASE Drops
    <3>1. Len(buf'.mem) = Len(buf.mem) /\ Len(buf.mem) \in Nat
      BY <2>2, LenProperties DEF Drops, BufferOK
    <3>2. QED BY <3>1
  <2>3. QED BY <1>3, <2>1, <2>2, StepOfBuffer
<1>4. BufferOK(buf) /\ [Next]_vars => [Growth]_vars
  BY <1>3
<1>5. QED BY <1>1, <1>2, <1>4, PTL DEF Spec, GrowsWhenFull

================================================================================
