-------------------------- MODULE Asynclogging_proof --------------------------
(***************************************************************************)
(* Proofs about Asynclogging, for every buffer size, every set of message  *)
(* lengths below it and any number of messages.                            *)
(***************************************************************************)
EXTENDS Asynclogging, SequenceTheorems, WellFoundedInduction, TLAPS

(* A buffer after reset().                                                 *)
LEMMA EmptyIsBuffer == EmptyBuffer \in LogBuffer
<1>1. <<>> \in Seq(Nat)
  OBVIOUS
<1>2. 0 \in 0 .. BufferSize - 1
  BY SizesAssumption
<1>3. QED BY <1>1, <1>2 DEF EmptyBuffer, LogBuffer

(* A message put where it fits leaves room for a NUL. *)
LEMMA PutFits ==
  ASSUME NEW buffer \in LogBuffer, NEW n \in Nat, NEW size \in Sizes,
         Fits(buffer, size)
  PROVE  Put(buffer, n, size) \in LogBuffer
<1>1. /\ buffer.msgs \in Seq(Nat) /\ buffer.cur \in Nat
      /\ size \in Nat /\ BufferSize \in Nat
  BY SizesAssumption DEF LogBuffer
<1>2. Append(buffer.msgs, n) \in Seq(Nat)
  BY <1>1, AppendProperties
<1>3. buffer.cur + size \in 0 .. BufferSize - 1
  BY <1>1 DEF Fits
<1>4. QED BY <1>2, <1>3 DEF Put, LogBuffer

(* Any message fits into an empty buffer, which append does not test. *)
LEMMA FitsEmpty == ASSUME NEW size \in Sizes PROVE Fits(EmptyBuffer, size)
  BY SizesAssumption DEF Fits, EmptyBuffer

(* start() makes the thread: before it there is none. *)
NoThreadYet == life = "made" => tpc = "none"

BuffersInv == BuffersOK /\ PointersInv /\ NoThreadYet

(* append keeps the invariant, whichever branch it takes. *)
LEMMA AppendStep ==
  ASSUME BuffersInv, NEW size \in Sizes, AppendMessage(size)
  PROVE  BuffersInv'
<1> USE DEF BuffersInv, BuffersOK, PointersInv, NoThreadYet
<1>1. appended' \in Nat /\ UNCHANGED <<threadVars, life>>
  BY DEF AppendMessage
<1>2. CASE Fits(current, size)
  <2>1. current' \in LogBuffer /\ UNCHANGED <<next, buffers>>
    BY <1>1, <1>2, PutFits DEF AppendMessage
  <2>2. QED BY <1>1, <2>1, NullAssumption DEF threadVars
<1>3. CASE ~Fits(current, size)
  <2>1. (IF next # Null THEN next ELSE EmptyBuffer) = EmptyBuffer
    OBVIOUS
  <2>2. current' \in LogBuffer
    BY <1>1, <1>3, <2>1, EmptyIsBuffer, FitsEmpty, PutFits DEF AppendMessage
  <2>3. buffers' \in Seq(LogBuffer) /\ buffers' # <<>>
    <3>1. buffers' = Append(buffers, current)
      BY <1>3 DEF AppendMessage
    <3>2. QED BY <3>1, AppendProperties
  <2>4. next' = Null
    BY <1>3 DEF AppendMessage
  <2>5. QED BY <1>1, <2>2, <2>3, <2>4, NullAssumption DEF threadVars
<1>4. QED BY <1>2, <1>3

(* The exchange finds a spare for the current buffer, and one for          *)
(* nextBuffer_ if append used that up.                                     *)
LEMMA ExchangeStep == ASSUME BuffersInv, Exchange PROVE BuffersInv'
<1> USE DEF BuffersInv, BuffersOK, PointersInv, NoThreadYet
<1>1. newBuffer[1] = EmptyBuffer /\ newBuffer[2] = EmptyBuffer
  BY DEF Exchange
<1>2. /\ toWrite' \in Seq(LogBuffer) /\ toWrite' # <<>>
      /\ Len(toWrite') = Len(buffers) + 1
  BY AppendProperties DEF Exchange
<1>3. buffers' = <<>> /\ buffers' \in Seq(LogBuffer)
  BY DEF Exchange
<1>4. current' = EmptyBuffer /\ next' = EmptyBuffer
  BY <1>1 DEF Exchange
<1>5. /\ newBuffer' \in {EmptyBuffer, Null} \X {EmptyBuffer, Null}
      /\ newBuffer'[2] = Null => next = Null
  BY <1>1, EmptyIsBuffer, NullAssumption DEF Exchange
<1>6. newBuffer'[2] = Null => Len(toWrite') > 1
  <2>1. next = Null => Len(buffers) > 0
    BY EmptySeq, LenProperties
  <2>2. QED BY <1>2, <1>5, <2>1, LenProperties
<1>7. tpc' = "write" /\ UNCHANGED <<appended, life>> /\ tpc # "none"
  BY DEF Exchange
<1>8. QED
  BY <1>2, <1>3, <1>4, <1>5, <1>6, <1>7, EmptyIsBuffer, NullAssumption

(* What was handed out comes back: of two buffers or more two are kept. *)
LEMMA WriteStep == ASSUME BuffersInv, WriteBuffers PROVE BuffersInv'
<1> USE DEF BuffersInv, BuffersOK, PointersInv, NoThreadYet
<1>1. Len(toWrite) \in Nat /\ Len(toWrite) > 0
  BY EmptySeq, LenProperties DEF WriteBuffers
<1>2. Len(Kept) = IF Len(toWrite) > 2 THEN 2 ELSE Len(toWrite)
  BY <1>1, SubSeqProperties DEF Kept
<1>3. Kept # <<>>
  <2>1. Len(<<>>) = 0
    OBVIOUS
  <2>2. Len(Kept) # 0
    BY <1>1, <1>2
  <2>3. QED BY <2>1, <2>2
<1>4. newBuffer' = <<EmptyBuffer, EmptyBuffer>>
  BY <1>1, <1>2, <1>3 DEF WriteBuffers, Spares
<1>5. toWrite' = <<>> /\ toWrite' \in Seq(LogBuffer)
  BY DEF WriteBuffers
<1>6. tpc' = "top" /\ tpc # "none" /\ UNCHANGED <<sharedVars, appended, life>>
  BY DEF WriteBuffers
<1>7. QED
  BY <1>4, <1>5, <1>6, EmptyIsBuffer, NullAssumption DEF sharedVars

(* The constructor's buffers.                                              *)
LEMMA InitBuffers == Init => BuffersInv
<1>1. <<>> \in Seq(LogBuffer)
  OBVIOUS
<1>2. QED
  BY <1>1, EmptyIsBuffer, NullAssumption
  DEF Init, BuffersInv, BuffersOK, PointersInv, NoThreadYet

(* The other steps leave the buffers alone. *)
LEMMA BuffersKept ==
  ASSUME BuffersInv, AwaitStart \/ Top \/ Wait \/ Start \/ Stop \/ Joined
  PROVE  BuffersInv'
<1>1. CASE AwaitStart \/ Top \/ Wait
  BY <1>1 DEF AwaitStart, Top, Wait, sharedVars, BuffersInv, BuffersOK, PointersInv, NoThreadYet
<1>2. CASE Start \/ Stop \/ Joined
  BY <1>2 DEF Start, Stop, Joined, sharedVars, threadVars,
              BuffersInv, BuffersOK, PointersInv, NoThreadYet
<1>3. QED BY <1>1, <1>2

(* Neither append nor the thread ever uses a null buffer, no message is    *)
(* copied past the end of one, and the spares are empty.                   *)
THEOREM BuffersCorrect == Spec => [](BuffersOK /\ PointersInv)
<1>1. Init => BuffersInv
  BY InitBuffers
<1>2. BuffersInv /\ [Next]_vars => BuffersInv'
  <2> SUFFICES ASSUME BuffersInv, [Next]_vars PROVE BuffersInv'
    OBVIOUS
  <2>1. ASSUME NEW size \in Sizes, AppendMessage(size) PROVE BuffersInv'
    BY <2>1, AppendStep
  <2>2. CASE AwaitStart \/ Top \/ Wait \/ Start \/ Stop \/ Joined
    BY <2>2, BuffersKept
  <2>3. CASE Exchange
    BY <2>3, ExchangeStep
  <2>4. CASE WriteBuffers
    BY <2>4, WriteStep
  <2>5. CASE UNCHANGED vars
    BY <2>5 DEF vars, sharedVars, threadVars, BuffersInv, BuffersOK, PointersInv, NoThreadYet
  <2>6. QED BY <2>1, <2>2, <2>3, <2>4, <2>5 DEF Next, ThreadStep
<1>3. QED BY <1>1, <1>2, PTL DEF Spec, BuffersInv

-----------------------------------------------------------------------------
(* Flattening.  A fact about every number is proved of the least one for   *)
(* which it would fail.                                                    *)

(* A set of naturals that has 0 and each number's successor has them all:  *)
(* a least number outside would have a predecessor inside.                 *)
LEMMA SetInduction ==
  ASSUME NEW S, 0 \in S, \A n \in Nat : n \in S => n + 1 \in S
  PROVE  Nat \subseteq S
<1> DEFINE T == Nat \ S
           R == OpToRel(<, Nat)
<1>1. SUFFICES ASSUME T # {} PROVE FALSE
  OBVIOUS
<1>2. PICK x \in T : \A y \in T : ~(<<y, x>> \in R)
  BY <1>1, NatLessThanWellFounded, WFMin
<1>3. x \in Nat /\ x # 0
  OBVIOUS
<1>4. x - 1 \in Nat /\ (x - 1) + 1 = x /\ x - 1 < x
  BY <1>3
<1>5. <<x - 1, x>> \in R
  BY <1>3, <1>4 DEF OpToRel
<1>6. x - 1 \notin T
  BY <1>2, <1>5
<1>7. QED BY <1>3, <1>4, <1>6

(* What FlattenSeq defines of a sequence s of sequences: f[i] is the first *)
(* i of them, one after the other.                                         *)
FlattenOf(f, s) == f = [i \in 1 .. Len(s) |-> IF i = 1 THEN s[i] ELSE f[i - 1] \o s[i]]

(* FlattenSeq takes the last of them.                                      *)
LEMMA FlattenIs ==
  ASSUME NEW s, Len(s) # 0
  PROVE FlattenSeq(s) = (CHOOSE f : FlattenOf(f, s))[Len(s)]
  BY DEF FlattenSeq, FlattenOf

(* The flattened prefixes of a sequence. *)
LEMMA FlattenExists == ASSUME NEW s \in Seq(Seq(Nat)) PROVE \E f : FlattenOf(f, s)
<1> DEFINE Upto(f, n) == f = [i \in 1 .. n |-> IF i = 1 THEN s[i] ELSE f[i - 1] \o s[i]]
           S == {n \in Nat : \E f : Upto(f, n)}
<1>1. 0 \in S
  <2>1. Upto([i \in 1 .. 0 |-> <<>>], 0)
    OBVIOUS
  <2>2. QED BY <2>1
<1>2. ASSUME NEW n \in Nat, n \in S PROVE n + 1 \in S
  <2>1. PICK f : Upto(f, n)
    BY <1>2
  <2> DEFINE g == [i \in 1 .. n + 1 |->
                     IF i = n + 1 THEN IF i = 1 THEN s[i] ELSE f[n] \o s[i] ELSE f[i]]
  <2>2. \A i \in 1 .. n : f[i] = IF i = 1 THEN s[i] ELSE f[i - 1] \o s[i]
    BY <2>1
  <2>3. \A i \in 1 .. n + 1 : g[i] = IF i = 1 THEN s[i] ELSE g[i - 1] \o s[i]
    <3>1. SUFFICES ASSUME NEW i \in 1 .. n + 1
                   PROVE  g[i] = IF i = 1 THEN s[i] ELSE g[i - 1] \o s[i]
      OBVIOUS
    <3>2. i # 1 => i - 1 \in 1 .. n /\ i - 1 # n + 1 /\ i - 1 \in 1 .. n + 1
      OBVIOUS
    <3>3. i # 1 => g[i - 1] = f[i - 1]
      BY <3>2
    <3> HIDE DEF g
    <3>4. CASE i = n + 1
      <4>1. g[i] = IF i = 1 THEN s[i] ELSE f[n] \o s[i]
        BY <3>4 DEF g
      <4>2. i # 1 => i - 1 = n
        BY <3>4
      <4>3. QED BY <3>3, <4>1, <4>2
    <3>5. CASE i # n + 1
      <4>1. g[i] = f[i] /\ i \in 1 .. n
        BY <3>5 DEF g
      <4>2. QED BY <2>2, <3>3, <4>1
    <3>6. QED BY <3>4, <3>5
  <2>4. g = [i \in 1 .. n + 1 |-> g[i]]
    OBVIOUS
  <2> HIDE DEF g
  <2>5. Upto(g, n + 1)
    BY <2>3, <2>4
  <2> HIDE DEF Upto
  <2>6. n + 1 \in Nat /\ \E h : Upto(h, n + 1)
    BY <2>5
  <2>7. QED BY <2>6
<1> HIDE DEF S
<1>3. Nat \subseteq S
  BY <1>1, <1>2, SetInduction
<1>4. Len(s) \in S
  BY <1>3
<1>5. QED BY <1>4 DEF S, FlattenOf

(* The one FlattenSeq chooses.                                             *)
Flat(s) == CHOOSE f : FlattenOf(f, s)

(* It has the recursive property, for there is one that has.               *)
LEMMA FlatIs ==
  ASSUME NEW s \in Seq(Seq(Nat))
  PROVE  \A i \in 1 .. Len(s) : Flat(s)[i] = IF i = 1 THEN s[i] ELSE Flat(s)[i - 1] \o s[i]
<1>1. FlattenOf(Flat(s), s)
  BY FlattenExists DEF Flat
<1>2. QED BY <1>1 DEF FlattenOf

(* A longer sequence has the flattened prefixes of a shorter one. *)
LEMMA FlatPrefix ==
  ASSUME NEW s \in Seq(Seq(Nat)), NEW x \in Seq(Nat)
  PROVE  \A i \in 1 .. Len(s) : Flat(Append(s, x))[i] = Flat(s)[i] /\ Flat(s)[i] \in Seq(Nat)
<1> DEFINE t == Append(s, x)
           S == {n \in Nat : n \in 1 .. Len(s) => Flat(t)[n] = Flat(s)[n] /\ Flat(s)[n] \in Seq(Nat)}
<1>1. /\ t \in Seq(Seq(Nat)) /\ Len(t) = Len(s) + 1 /\ Len(s) \in Nat
      /\ \A i \in 1 .. Len(s) : t[i] = s[i] /\ s[i] \in Seq(Nat)
  BY AppendProperties, LenProperties
<1>2. /\ \A i \in 1 .. Len(s) : Flat(s)[i] = IF i = 1 THEN s[i] ELSE Flat(s)[i - 1] \o s[i]
      /\ \A i \in 1 .. Len(s) + 1 : Flat(t)[i] = IF i = 1 THEN t[i] ELSE Flat(t)[i - 1] \o t[i]
  BY <1>1, FlatIs
<1> HIDE DEF t
<1>3. 0 \in S
  OBVIOUS
<1>4. ASSUME NEW n \in Nat, n \in S PROVE n + 1 \in S
  <2>1. SUFFICES ASSUME n + 1 \in 1 .. Len(s)
                 PROVE  Flat(t)[n + 1] = Flat(s)[n + 1] /\ Flat(s)[n + 1] \in Seq(Nat)
    OBVIOUS
  <2>2. n + 1 \in 1 .. Len(s) + 1 /\ (n + 1 # 1 => n \in 1 .. Len(s) /\ (n + 1) - 1 = n)
    BY <1>1, <2>1
  <2>3. CASE n + 1 = 1
    BY <1>1, <1>2, <2>1, <2>2, <2>3
  <2>4. CASE n + 1 # 1
    <3>1. Flat(t)[n] = Flat(s)[n] /\ Flat(s)[n] \in Seq(Nat)
      BY <1>4, <2>2, <2>4
    <3>2. Flat(s)[n + 1] = Flat(s)[n] \o s[n + 1] /\ Flat(t)[n + 1] = Flat(t)[n] \o t[n + 1]
      BY <1>2, <2>1, <2>2, <2>4
    <3>3. Flat(s)[n] \o s[n + 1] \in Seq(Nat)
      BY <1>1, <2>1, <3>1, ConcatProperties
    <3>4. QED BY <1>1, <2>1, <3>1, <3>2, <3>3
  <2>5. QED BY <2>3, <2>4
<1> HIDE DEF S
<1>5. Nat \subseteq S
  BY <1>3, <1>4, SetInduction
<1>6. QED BY <1>1, <1>5 DEF S, t

(* One sequence more.                                                      *)
LEMMA FlattenAppend ==
  ASSUME NEW s \in Seq(Seq(Nat)), NEW x \in Seq(Nat)
  PROVE  /\ FlattenSeq(<<>>) = <<>>
         /\ FlattenSeq(s) \in Seq(Nat)
         /\ FlattenSeq(Append(s, x)) = FlattenSeq(s) \o x
<1> DEFINE t == Append(s, x)
           n == Len(s)
<1>1. /\ t \in Seq(Seq(Nat)) /\ Len(t) = n + 1 /\ n \in Nat /\ t[n + 1] = x
      /\ Len(<<>>) = 0 /\ n = Len(s)
  BY AppendProperties, LenProperties
<1>2. FlattenSeq(<<>>) = <<>>
  BY DEF FlattenSeq
<1>3. \A r : Len(r) # 0 => FlattenSeq(r) = Flat(r)[Len(r)]
  BY FlattenIs DEF Flat
<1>4. n # 0 => Flat(t)[n] = Flat(s)[n] /\ Flat(s)[n] \in Seq(Nat)
  BY <1>1, FlatPrefix
<1> HIDE DEF t, n
<1>5. Len(t) # 0 /\ n + 1 \in 1 .. Len(t) /\ (n + 1) - 1 = n /\ (n + 1 = 1 <=> n = 0)
  BY <1>1
<1>6. FlattenSeq(t) = Flat(t)[n + 1]
  BY <1>1, <1>3, <1>5
<1>7. Flat(t)[n + 1] = IF n = 0 THEN x ELSE Flat(t)[n] \o x
  <2>1. \A i \in 1 .. Len(t) : Flat(t)[i] = IF i = 1 THEN t[i] ELSE Flat(t)[i - 1] \o t[i]
    BY <1>1, FlatIs
  <2>2. Flat(t)[n + 1] = IF n + 1 = 1 THEN t[n + 1] ELSE Flat(t)[(n + 1) - 1] \o t[n + 1]
    BY <1>5, <2>1
  <2>3. QED BY <1>1, <1>5, <2>2
<1>8. CASE n = 0
  <2>1. s = <<>>
    BY <1>1, <1>8, EmptySeq
  <2>2. <<>> \o x = x /\ <<>> \in Seq(Nat)
    BY ConcatEmptySeq
  <2>3. QED BY <1>2, <1>6, <1>7, <1>8, <2>1, <2>2 DEF t
<1>9. CASE n # 0
  <2>1. FlattenSeq(s) = Flat(s)[n]
    BY <1>1, <1>3, <1>9
  <2>2. QED BY <1>2, <1>4, <1>6, <1>7, <1>9, <2>1 DEF t
<1>10. QED BY <1>8, <1>9

(* Quantified, as the provers use them best.                               *)
LEMMA NumbersAssociative == \A a, b, c \in Seq(Nat) : (a \o b) \o c = a \o (b \o c)
  BY ConcatAssociative

LEMMA ListsAssociative ==
  \A a, b, c \in Seq(Seq(Nat)) : (a \o b) \o c = a \o (b \o c)
  BY ConcatAssociative

(* By the length of the second.                                            *)
LEMMA FlattenConcat ==
  ASSUME NEW a \in Seq(Seq(Nat)), NEW b \in Seq(Seq(Nat))
  PROVE  FlattenSeq(a \o b) = FlattenSeq(a) \o FlattenSeq(b)
<1> DEFINE P(c) == FlattenSeq(a \o c) = FlattenSeq(a) \o FlattenSeq(c)
           S == {n \in Nat : \A c \in Seq(Seq(Nat)) : Len(c) = n => P(c)}
<1>1. 0 \in S
  <2>1. \A c \in Seq(Seq(Nat)) : Len(c) = 0 => c = <<>>
    BY EmptySeq
  <2>2. a \o <<>> = a
    BY ConcatEmptySeq
  <2>3. FlattenSeq(<<>>) = <<>> /\ FlattenSeq(a) \in Seq(Nat)
    <3>1. <<>> \in Seq(Nat)
      OBVIOUS
    <3>2. QED BY <3>1, FlattenAppend
  <2>4. FlattenSeq(a) \o <<>> = FlattenSeq(a)
    BY <2>3, ConcatEmptySeq
  <2>5. P(<<>>)
    BY <2>2, <2>3, <2>4
  <2> HIDE DEF P
  <2>6. QED BY <2>1, <2>5
<1>2. ASSUME NEW n \in Nat, n \in S PROVE n + 1 \in S
  <2>1. SUFFICES ASSUME NEW c \in Seq(Seq(Nat)), Len(c) = n + 1 PROVE P(c)
    OBVIOUS
  <2>2. c # <<>>
    <3>1. Len(<<>>) = 0
      OBVIOUS
    <3>2. QED BY <2>1, <3>1
  <2>3. PICK d \in Seq(Seq(Nat)), x \in Seq(Nat) : c = Append(d, x)
    BY <2>2, SequenceEmptyOrAppend
  <2>4. Len(d) = n
    <3>1. Len(c) = Len(d) + 1 /\ Len(d) \in Nat
      BY <2>3, AppendProperties, LenProperties
    <3>2. QED BY <2>1, <3>1
  <2>5. P(d)
    BY <1>2, <2>4
  <2>6. a \o d \in Seq(Seq(Nat)) /\ a \o c = Append(a \o d, x)
    <3>1. a \o d \in Seq(Seq(Nat))
      BY ConcatProperties
    <3>2. <<x>> \in Seq(Seq(Nat))
      OBVIOUS
    <3>3. Append(d, x) = d \o <<x>> /\ Append(a \o d, x) = (a \o d) \o <<x>>
      BY <3>1, AppendIsConcat
    <3>4. (a \o d) \o <<x>> = a \o (d \o <<x>>)
      BY <3>2, ListsAssociative
    <3>5. QED BY <2>3, <3>1, <3>3, <3>4
  <2>7. FlattenSeq(a \o c) = FlattenSeq(a \o d) \o x
    BY <2>6, FlattenAppend
  <2>8. FlattenSeq(c) = FlattenSeq(d) \o x /\ FlattenSeq(a) \in Seq(Nat) /\ FlattenSeq(d) \in Seq(Nat)
    BY <2>3, FlattenAppend
  <2>9. (FlattenSeq(a) \o FlattenSeq(d)) \o x = FlattenSeq(a) \o (FlattenSeq(d) \o x)
    BY <2>8, NumbersAssociative
  <2>10. QED BY <2>5, <2>7, <2>8, <2>9
<1> HIDE DEF S
<1>3. Nat \subseteq S
  BY <1>1, <1>2, SetInduction
<1>4. Len(b) \in S
  BY <1>3, LenProperties
<1>5. QED BY <1>4 DEF S

(* The buffers kept and those erased are the buffers taken.                *)
LEMMA SplitBuffers ==
  ASSUME NEW s \in Seq(LogBuffer), NEW n \in 0 .. Len(s)
  PROVE  /\ SubSeq(s, 1, n) \in Seq(LogBuffer)
         /\ SubSeq(s, n + 1, Len(s)) \in Seq(LogBuffer)
         /\ SubSeq(s, 1, n) \o SubSeq(s, n + 1, Len(s)) = s
<1>1. Len(s) \in Nat
  BY LenProperties
<1>2. 1 \in 1 .. Len(s) + 1 /\ n \in 1 - 1 .. Len(s) /\ Len(s) \in n .. Len(s)
  BY <1>1
<1>3. SubSeq(s, 1, n) \o SubSeq(s, n + 1, Len(s)) = SubSeq(s, 1, Len(s))
  BY <1>2, ConcatAdjacentSubSeq
<1>4. SubSeq(s, 1, Len(s)) = s
  BY SubSeqFull
<1>5. SubSeq(s, 1, n) \in Seq(LogBuffer) /\ SubSeq(s, n + 1, Len(s)) \in Seq(LogBuffer)
  BY <1>1, SubSeqProperties
<1>6. QED BY <1>3, <1>4, <1>5

(* The messages of one buffer more, and of two sequences of buffers.       *)
LEMMA ContentsFacts ==
  ASSUME NEW a \in Seq(LogBuffer), NEW c \in LogBuffer
  PROVE  /\ Contents(<<>>) = <<>>
         /\ Contents(a) \in Seq(Nat)
         /\ Contents(Append(a, c)) = Contents(a) \o c.msgs
         /\ \A b \in Seq(LogBuffer) : Contents(a \o b) = Contents(a) \o Contents(b)
<1> DEFINE M(s) == [i \in DOMAIN s |-> s[i].msgs]
<1>1. \A s \in Seq(LogBuffer) : M(s) \in Seq(Seq(Nat)) /\ Len(M(s)) = Len(s) /\ DOMAIN M(s) = 1 .. Len(s)
  <2>1. SUFFICES ASSUME NEW s \in Seq(LogBuffer)
                 PROVE  M(s) \in Seq(Seq(Nat)) /\ Len(M(s)) = Len(s) /\ DOMAIN M(s) = 1 .. Len(s)
    OBVIOUS
  <2>2. Len(s) \in Nat /\ DOMAIN s = 1 .. Len(s) /\ \A i \in 1 .. Len(s) : s[i].msgs \in Seq(Nat)
    <3>1. Len(s) \in Nat /\ DOMAIN s = 1 .. Len(s) /\ \A i \in 1 .. Len(s) : s[i] \in LogBuffer
      BY LenProperties, ElementOfSeq
    <3>2. \A x \in LogBuffer : x.msgs \in Seq(Nat)
      BY DEF LogBuffer
    <3>3. QED BY <3>1, <3>2
  <2>3. M(s) \in Seq(Seq(Nat))
    BY <2>2, IsASeq
  <2>4. DOMAIN M(s) = 1 .. Len(s)
    BY <2>2
  <2>5. QED BY <2>2, <2>3, <2>4, LenProperties
<1>2. M(<<>>) = <<>>
  OBVIOUS
<1>3. c.msgs \in Seq(Nat)
  BY DEF LogBuffer
<1>4. M(Append(a, c)) = Append(M(a), c.msgs)
  <2>1. /\ Append(a, c) \in Seq(LogBuffer) /\ Len(Append(a, c)) = Len(a) + 1 /\ Len(a) \in Nat
        /\ \A i \in 1 .. Len(a) : Append(a, c)[i] = a[i]
        /\ Append(a, c)[Len(a) + 1] = c
    BY AppendProperties, LenProperties
  <2>2. /\ Append(M(a), c.msgs) \in Seq(Seq(Nat)) /\ Len(Append(M(a), c.msgs)) = Len(a) + 1
        /\ \A i \in 1 .. Len(a) : Append(M(a), c.msgs)[i] = M(a)[i]
        /\ Append(M(a), c.msgs)[Len(a) + 1] = c.msgs
    <3>1. M(a) \in Seq(Seq(Nat)) /\ Len(M(a)) = Len(a)
      BY <1>1
    <3> HIDE DEF M
    <3>2. QED BY <1>3, <3>1, AppendProperties
  <2>3. M(Append(a, c)) \in Seq(Seq(Nat)) /\ Len(M(Append(a, c))) = Len(a) + 1
    BY <1>1, <2>1
  <2>4. ASSUME NEW i \in 1 .. Len(a) + 1 PROVE M(Append(a, c))[i] = Append(M(a), c.msgs)[i]
    <3>1. M(Append(a, c))[i] = Append(a, c)[i].msgs
      BY <1>1, <2>1
    <3>2. CASE i = Len(a) + 1
      BY <2>1, <2>2, <3>1, <3>2
    <3>3. CASE i # Len(a) + 1
      <4>1. i \in 1 .. Len(a)
        BY <2>1, <3>3
      <4>2. M(a)[i] = a[i].msgs
        BY <1>1, <4>1
      <4>3. QED BY <2>1, <2>2, <3>1, <4>1, <4>2
    <3>4. QED BY <3>2, <3>3
  <2> HIDE DEF M
  <2>5. QED BY <2>2, <2>3, <2>4, SeqEqual
<1>5. ASSUME NEW b \in Seq(LogBuffer) PROVE M(a \o b) = M(a) \o M(b)
  <2>1. /\ a \o b \in Seq(LogBuffer) /\ Len(a \o b) = Len(a) + Len(b)
        /\ Len(a) \in Nat /\ Len(b) \in Nat
        /\ \A i \in 1 .. Len(a) + Len(b) :
             (a \o b)[i] = IF i <= Len(a) THEN a[i] ELSE b[i - Len(a)]
    BY ConcatProperties, LenProperties
  <2>2. /\ M(a) \in Seq(Seq(Nat)) /\ Len(M(a)) = Len(a)
        /\ M(b) \in Seq(Seq(Nat)) /\ Len(M(b)) = Len(b)
        /\ M(a \o b) \in Seq(Seq(Nat)) /\ Len(M(a \o b)) = Len(a) + Len(b)
    BY <1>1, <2>1
  <2>3. /\ \A i \in 1 .. Len(a) : M(a)[i] = a[i].msgs
        /\ \A i \in 1 .. Len(b) : M(b)[i] = b[i].msgs
        /\ \A i \in 1 .. Len(a) + Len(b) : M(a \o b)[i] = (a \o b)[i].msgs
    BY <1>1, <2>1
  <2> HIDE DEF M
  <2>4. /\ M(a) \o M(b) \in Seq(Seq(Nat)) /\ Len(M(a) \o M(b)) = Len(a) + Len(b)
        /\ \A i \in 1 .. Len(a) + Len(b) :
             (M(a) \o M(b))[i] = IF i <= Len(a) THEN M(a)[i] ELSE M(b)[i - Len(a)]
    BY <2>2, ConcatProperties
  <2>5. ASSUME NEW i \in 1 .. Len(a) + Len(b) PROVE M(a \o b)[i] = (M(a) \o M(b))[i]
    <3>1. CASE i <= Len(a)
      BY <2>1, <2>3, <2>4, <3>1
    <3>2. CASE ~(i <= Len(a))
      <4>1. i - Len(a) \in 1 .. Len(b)
        BY <2>1, <3>2
      <4>2. QED BY <2>1, <2>3, <2>4, <3>2, <4>1
    <3>3. QED BY <3>1, <3>2
  <2>6. QED BY <2>2, <2>4, <2>5, SeqEqual
<1>6. \A s : Contents(s) = FlattenSeq(M(s))
  BY DEF Contents
<1>7. M(a) \in Seq(Seq(Nat)) /\ \A b \in Seq(LogBuffer) : M(b) \in Seq(Seq(Nat))
  BY <1>1
<1> HIDE DEF M
<1>8. Contents(<<>>) = <<>> /\ Contents(a) \in Seq(Nat) /\ Contents(Append(a, c)) = Contents(a) \o c.msgs
  BY <1>2, <1>3, <1>4, <1>6, <1>7, FlattenAppend
<1>9. \A b \in Seq(LogBuffer) : Contents(a \o b) = Contents(a) \o Contents(b)
  BY <1>5, <1>6, <1>7, FlattenConcat
<1>10. QED BY <1>8, <1>9

-----------------------------------------------------------------------------
(* Sequences that list numbers in order.                                   *)

(* Quantified, as above.                                                   *)
LEMMA RangeOfConcat == \A a, b \in Seq(Nat) : Range(a \o b) = Range(a) \cup Range(b)
  BY RangeConcatenation

(* A number greater than all before it goes to the end. *)
LEMMA ListsAppend ==
  ASSUME NEW s \in Seq(Nat), NEW S, Lists(s, S), NEW n \in Nat, \A m \in S : m < n
  PROVE  Lists(Append(s, n), S \cup {n})
<1>1. /\ Append(s, n) \in Seq(Nat) /\ Len(s) \in Nat
      /\ DOMAIN s = 1 .. Len(s) /\ DOMAIN Append(s, n) = 1 .. Len(s) + 1
      /\ \A i \in 1 .. Len(s) : Append(s, n)[i] = s[i] /\ s[i] \in Nat
      /\ Append(s, n)[Len(s) + 1] = n
  BY AppendProperties, LenProperties, ElementOfSeq
<1>2. /\ Range(s) = S /\ Range(s) = {s[i] : i \in 1 .. Len(s)}
      /\ \A i, j \in 1 .. Len(s) : i < j => s[i] < s[j]
  BY <1>1, RangeEquality DEF Lists
<1> DEFINE t == Append(s, n)
<1> HIDE DEF t
<1>3. Range(t) = S \cup {n}
  <2>1. Range(<<n>>) = {n} /\ <<n>> \in Seq(Nat) /\ t = s \o <<n>>
    BY AppendIsConcat DEF Range, t
  <2>2. QED BY <1>2, <2>1, RangeOfConcat
<1>4. ASSUME NEW i \in 1 .. Len(s) + 1, NEW j \in 1 .. Len(s) + 1, i < j
      PROVE  t[i] < t[j]
  <2>1. i \in 1 .. Len(s) /\ t[i] = s[i] /\ s[i] \in S
    BY <1>1, <1>2, <1>4 DEF t
  <2>2. CASE j = Len(s) + 1
    BY <1>1, <2>1, <2>2 DEF t
  <2>3. CASE j # Len(s) + 1
    <3>1. j \in 1 .. Len(s) /\ t[j] = s[j]
      BY <1>1, <2>3 DEF t
    <3>2. QED BY <1>2, <1>4, <2>1, <3>1
  <2>4. QED BY <2>2, <2>3
<1>5. QED BY <1>1, <1>3, <1>4 DEF Lists, t

(* What is taken out of the middle leaves the rest in order. *)
LEMMA ListsRemove ==
  ASSUME NEW a \in Seq(Nat), NEW b \in Seq(Nat), NEW c \in Seq(Nat), NEW S,
         Lists((a \o b) \o c, S)
  PROVE  Lists(a \o c, S \ Range(b)) /\ Range(b) \subseteq S
<1> DEFINE w == (a \o b) \o c
           t == a \o c
           p == Len(a)
           q == Len(b)
           r == Len(c)
           at(i) == IF i <= p THEN i ELSE i + q
<1>1. /\ a \o b \in Seq(Nat) /\ w \in Seq(Nat) /\ t \in Seq(Nat)
      /\ p \in Nat /\ q \in Nat /\ r \in Nat
      /\ Len(a) = p /\ Len(b) = q /\ Len(c) = r /\ Len(a \o b) = p + q
      /\ Len(w) = (p + q) + r /\ Len(t) = p + r
  BY ConcatProperties, LenProperties
<1>2. /\ \A i \in 1 .. p + q :
           (a \o b)[i] = IF i <= p THEN a[i] ELSE b[i - p]
      /\ \A i \in 1 .. (p + q) + r :
           w[i] = IF i <= p + q THEN (a \o b)[i] ELSE c[i - (p + q)]
      /\ \A i \in 1 .. p + r : t[i] = IF i <= p THEN a[i] ELSE c[i - p]
  BY <1>1, ConcatProperties
<1>3. /\ Range(w) = S /\ Range(w) = (Range(a) \cup Range(b)) \cup Range(c)
      /\ Range(t) = Range(a) \cup Range(c)
  <2>1. /\ Range(t) = Range(a) \cup Range(c) /\ Range(a \o b) = Range(a) \cup Range(b)
        /\ Range(w) = Range(a \o b) \cup Range(c)
    BY <1>1, RangeOfConcat
  <2>2. QED BY <2>1 DEF Lists
<1>4. \A i, j \in 1 .. (p + q) + r : i < j => w[i] < w[j]
  <2>1. DOMAIN w = 1 .. (p + q) + r
    BY <1>1, LenProperties
  <2>2. QED BY <2>1 DEF Lists
<1>5. \A i \in 1 .. Len(w) : w[i] \in Nat
  BY <1>1, ElementOfSeq
<1> HIDE DEF w, t, p, q, r
<1>6. ASSUME NEW i \in 1 .. p + r
      PROVE  /\ at(i) \in 1 .. (p + q) + r
             /\ ~(p < at(i) /\ at(i) <= p + q)
             /\ t[i] = w[at(i)]
  <2>1. CASE i <= p
    BY <1>1, <1>2, <2>1
  <2>2. CASE ~(i <= p)
    <3>1. /\ at(i) = i + q /\ at(i) \in 1 .. (p + q) + r
          /\ ~(at(i) <= p + q) /\ at(i) - (p + q) = i - p
      BY <1>1, <2>2
    <3>2. w[at(i)] = c[at(i) - (p + q)] /\ t[i] = c[i - p]
      BY <1>2, <2>2, <3>1
    <3>3. QED BY <3>1, <3>2
  <2>3. QED BY <2>1, <2>2
<1>7. \A i, j \in 1 .. p + r : i < j => at(i) < at(j)
  BY <1>1
<1> HIDE DEF at
<1>8. \A i, j \in DOMAIN t : i < j => t[i] < t[j]
  <2>1. DOMAIN t = 1 .. p + r
    BY <1>1, LenProperties
  <2>2. QED BY <1>4, <1>6, <1>7, <2>1
<1>9. Range(t) \cap Range(b) = {}
  <2>1. SUFFICES ASSUME NEW x \in Range(t), x \in Range(b) PROVE FALSE
    OBVIOUS
  <2>2. PICK i \in 1 .. p + r : x = t[i]
    BY <1>1, RangeEquality
  <2>3. PICK j \in 1 .. q : x = b[j]
    BY <1>1, <2>1, RangeEquality
  <2>4. /\ p + j \in 1 .. (p + q) + r /\ w[p + j] = x
        /\ p < p + j /\ p + j <= p + q
    <3>1. /\ p + j \in 1 .. p + q /\ (p + j) - p = j
          /\ p + j \in 1 .. (p + q) + r /\ ~(p + j <= p)
          /\ p + j <= p + q
      BY <1>1
    <3>2. w[p + j] = (a \o b)[p + j]
      BY <1>2, <3>1
    <3>3. (a \o b)[p + j] = b[j]
      BY <1>2, <3>1
    <3>4. QED BY <1>1, <2>3, <3>1, <3>2, <3>3
  <2>5. at(i) # p + j /\ w[at(i)] = w[p + j] /\ at(i) \in 1 .. (p + q) + r
    BY <1>6, <2>2, <2>4
  <2>6. w[at(i)] \in Nat /\ (at(i) < p + j \/ p + j < at(i))
    <3>1. at(i) \in Int /\ p + j \in Int /\ at(i) \in 1 .. Len(w)
      BY <1>1, <2>4, <2>5
    <3>2. w[at(i)] \in Nat
      BY <1>5, <3>1
    <3>3. QED BY <2>5, <3>1, <3>2
  <2>7. w[at(i)] < w[p + j] \/ w[p + j] < w[at(i)]
    BY <1>4, <2>4, <2>5, <2>6
  <2>8. QED BY <2>5, <2>6, <2>7
<1>10. Range(t) = S \ Range(b) /\ Range(b) \subseteq S
  BY <1>3, <1>9
<1>11. QED BY <1>8, <1>10 DEF Lists, t

-----------------------------------------------------------------------------
(* The order of the messages.                                              *)

TypeInv ==
  /\ running \in BOOLEAN
  /\ tpc \in {"none", "await", "top", "lock", "waiting", "write", "exited"}
  /\ life \in {"made", "started", "join", "done"}
  /\ file \in Seq(Nat)
  /\ lost \subseteq 1 .. appended

(* Nothing is taken but while it is written, what has no text has no       *)
(* message, and the destructor returns when the thread has ended.          *)
QuietInv ==
  /\ tpc # "write" => toWrite = <<>>
  /\ current.cur = 0 => current.msgs = <<>>
  /\ life = "done" => tpc = "exited"

OrderInv == BuffersInv /\ TypeInv /\ QuietInv /\ InOrder /\ AtExit

(* Everything on its way to the file, in order. *)
Whole == file \o Contents(toWrite) \o Contents(buffers) \o current.msgs

(* The pieces of Whole.                                                    *)
LEMMA WholeFacts ==
  ASSUME OrderInv
  PROVE  /\ file \in Seq(Nat) /\ Contents(toWrite) \in Seq(Nat)
         /\ Contents(buffers) \in Seq(Nat) /\ current.msgs \in Seq(Nat)
         /\ Contents(<<>>) = <<>>
         /\ Contents(Append(buffers, current)) = Contents(buffers) \o current.msgs
<1>1. /\ current \in LogBuffer /\ buffers \in Seq(LogBuffer) /\ toWrite \in Seq(LogBuffer)
      /\ file \in Seq(Nat)
  BY DEF OrderInv, BuffersInv, BuffersOK, TypeInv
<1>2. current.msgs \in Seq(Nat)
  BY <1>1 DEF LogBuffer
<1>3. QED BY <1>1, <1>2, ContentsFacts

(* Two more facts about concatenation.                                     *)
LEMMA ConcatTypes == \A a, b \in Seq(Nat) : a \o b \in Seq(Nat)
  BY ConcatProperties

LEMMA ConcatAppend ==
  \A a, b \in Seq(Nat), n \in Nat :
    a \o Append(b, n) = Append(a \o b, n) /\ a \o Append(<<>>, n) = Append(a, n)
<1>1. SUFFICES ASSUME NEW a \in Seq(Nat), NEW b \in Seq(Nat), NEW n \in Nat
               PROVE  a \o Append(b, n) = Append(a \o b, n) /\ a \o Append(<<>>, n) = Append(a, n)
  OBVIOUS
<1>2. <<n>> \in Seq(Nat) /\ Append(<<>>, n) = <<n>> /\ a \o b \in Seq(Nat)
  BY ConcatTypes
<1>3. /\ Append(b, n) = b \o <<n>> /\ Append(a, n) = a \o <<n>>
      /\ Append(a \o b, n) = (a \o b) \o <<n>>
  BY <1>2, AppendIsConcat
<1>4. QED BY <1>2, <1>3, NumbersAssociative

(* append puts the next number at the end of Whole, in either branch.      *)
LEMMA OrderAppend ==
  ASSUME OrderInv, NEW size \in Sizes, AppendMessage(size)
  PROVE  OrderInv'
<1>1. BuffersInv'
  BY AppendStep DEF OrderInv
<1>2. /\ life \in {"made", "started"} /\ appended \in Nat /\ appended' = appended + 1
      /\ UNCHANGED <<running, toWrite, tpc, life, file, lost>>
      /\ size \in Nat /\ size > 0 /\ current.cur \in Nat
      /\ lost \subseteq 1 .. appended
  BY SizesAssumption
  DEF AppendMessage, OrderInv, BuffersInv, BuffersOK, TypeInv, threadVars, LogBuffer
<1>3. TypeInv'
  BY <1>2 DEF OrderInv, TypeInv
<1>4. Whole' = Append(Whole, appended + 1) /\ current'.cur # 0
  <2>1. CASE Fits(current, size)
    <3>1. /\ current'.msgs = Append(current.msgs, appended + 1)
          /\ current'.cur = current.cur + size /\ buffers' = buffers
      BY <1>2, <2>1 DEF AppendMessage, Put
    <3>2. Whole' = file \o Contents(toWrite) \o Contents(buffers) \o Append(current.msgs, appended + 1)
      BY <1>2, <3>1 DEF Whole
    <3>3. appended + 1 \in Nat
      BY <1>2
    <3>4. Whole' = Append(Whole, appended + 1)
      <4> DEFINE x == file \o Contents(toWrite) \o Contents(buffers)
      <4>1. /\ x \in Seq(Nat) /\ Whole = x \o current.msgs
            /\ Whole' = x \o Append(current.msgs, appended + 1)
        BY <3>2, WholeFacts, ConcatTypes DEF Whole
      <4> HIDE DEF x
      <4>2. QED BY <3>3, <4>1, WholeFacts, ConcatAppend
    <3>5. QED BY <1>2, <3>1, <3>4
  <2>2. CASE ~Fits(current, size)
    <3>1. (IF next # Null THEN next ELSE EmptyBuffer) = EmptyBuffer
      BY DEF OrderInv, BuffersInv, BuffersOK
    <3>2. /\ current'.msgs = Append(<<>>, appended + 1)
          /\ current'.cur = 0 + size /\ buffers' = Append(buffers, current)
      BY <1>2, <2>2, <3>1 DEF AppendMessage, Put, EmptyBuffer
    <3>3. Whole' = file \o Contents(toWrite) \o (Contents(buffers) \o current.msgs)
                     \o Append(<<>>, appended + 1)
      BY <1>2, <3>2, WholeFacts DEF Whole
    <3>4. appended + 1 \in Nat
      BY <1>2
    <3>5. Whole' = Append(Whole, appended + 1)
      <4> DEFINE x == file \o Contents(toWrite)
                 z == x \o (Contents(buffers) \o current.msgs)
      <4>1. x \in Seq(Nat) /\ z \in Seq(Nat)
        BY WholeFacts, ConcatTypes
      <4>2. Whole = (x \o Contents(buffers)) \o current.msgs /\ Whole' = z \o Append(<<>>, appended + 1)
        BY <3>3 DEF Whole
      <4> HIDE DEF x
      <4>3. Whole = z
        BY <4>1, <4>2, WholeFacts, NumbersAssociative
      <4> HIDE DEF z
      <4>4. QED BY <3>4, <4>1, <4>2, <4>3, ConcatAppend
    <3>6. QED BY <1>2, <3>2, <3>5
  <2>3. QED BY <2>1, <2>2
<1>5. Lists(Whole, 1 .. appended \ lost)
  BY <1>2 DEF OrderInv, InOrder, Whole
<1>6. Whole \in Seq(Nat)
  <2>1. \A x, y \in Seq(Nat) : x \o y \in Seq(Nat)
    BY ConcatProperties
  <2>2. QED BY <2>1, WholeFacts DEF Whole
<1>7. Lists(Append(Whole, appended + 1), (1 .. appended \ lost) \cup {appended + 1})
  BY <1>2, <1>5, <1>6, ListsAppend
<1>8. (1 .. appended \ lost) \cup {appended + 1} = 1 .. appended' \ lost'
  BY <1>2
<1>9. InOrder'
  BY <1>4, <1>7, <1>8 DEF InOrder, Whole
<1>10. QuietInv' /\ AtExit'
  BY <1>2, <1>4 DEF OrderInv, QuietInv, AtExit
<1>11. QED BY <1>1, <1>3, <1>9, <1>10 DEF OrderInv

(* The exchange moves the pieces and leaves Whole as it is.                *)
LEMMA OrderExchange == ASSUME OrderInv, Exchange PROVE OrderInv'
<1>1. BuffersInv'
  BY ExchangeStep DEF OrderInv
<1>2. newBuffer[1] = EmptyBuffer /\ toWrite = <<>>
  BY DEF OrderInv, BuffersInv, BuffersOK, PointersInv, QuietInv, Exchange
<1>3. /\ toWrite' = Append(buffers, current) /\ buffers' = <<>> /\ tpc' = "write"
      /\ current'.msgs = <<>> /\ UNCHANGED <<running, life, file, appended, lost>>
  BY <1>2 DEF Exchange, EmptyBuffer
<1>4. Whole' = Whole
  <2>1. /\ Whole = file \o <<>> \o Contents(buffers) \o current.msgs
        /\ Whole' = file \o (Contents(buffers) \o current.msgs) \o <<>> \o <<>>
    BY <1>2, <1>3, WholeFacts DEF Whole
  <2>2. \A x \in Seq(Nat) : x \o <<>> = x
    BY ConcatEmptySeq
  <2>3. \A x, y \in Seq(Nat) : x \o y \in Seq(Nat)
    BY ConcatProperties
  <2>4. Whole' = file \o (Contents(buffers) \o current.msgs)
    BY <2>1, <2>2, <2>3, WholeFacts
  <2>5. Whole = file \o Contents(buffers) \o current.msgs
    BY <2>1, <2>2, WholeFacts
  <2>6. QED BY <2>4, <2>5, WholeFacts, NumbersAssociative
<1>5. TypeInv' /\ life # "done"
  BY <1>3 DEF OrderInv, TypeInv, QuietInv, Exchange
<1>6. InOrder'
  BY <1>3, <1>4 DEF OrderInv, InOrder, Whole
<1>7. QuietInv' /\ AtExit'
  BY <1>3, <1>5 DEF QuietInv, AtExit
<1>8. QED BY <1>1, <1>5, <1>6, <1>7 DEF OrderInv

(* The buffers that are erased leave the order of the rest as it was. *)
LEMMA OrderWrite == ASSUME OrderInv, WriteBuffers PROVE OrderInv'
<1>1. BuffersInv'
  BY WriteStep DEF OrderInv
<1>2. /\ life # "done" /\ toWrite \in Seq(LogBuffer) /\ toWrite' = <<>> /\ tpc' = "top"
      /\ file' = file \o Contents(Kept) /\ lost' = lost \cup Range(Contents(Erased))
      /\ UNCHANGED <<running, buffers, current, life, appended>>
  BY DEF OrderInv, BuffersInv, BuffersOK, QuietInv, WriteBuffers, sharedVars
<1>3. Kept \in Seq(LogBuffer) /\ Erased \in Seq(LogBuffer) /\ toWrite = Kept \o Erased
  <2> DEFINE n == IF Len(toWrite) > 2 THEN 2 ELSE Len(toWrite)
  <2>1. Len(toWrite) \in Nat /\ n \in 0 .. Len(toWrite) /\ n \in Nat
    BY <1>2, LenProperties
  <2>2. Kept = SubSeq(toWrite, 1, n)
    BY DEF Kept
  <2> HIDE DEF n
  <2>3. Len(Kept) = n /\ Kept \in Seq(LogBuffer)
    BY <1>2, <2>1, <2>2, SubSeqProperties
  <2>4. Erased = SubSeq(toWrite, n + 1, Len(toWrite))
    BY <2>3 DEF Erased
  <2>5. QED BY <1>2, <2>1, <2>2, <2>3, <2>4, SplitBuffers
<1> DEFINE k == Contents(Kept)
           e == Contents(Erased)
           b == Contents(buffers)
           m == current.msgs
<1>4. /\ k \in Seq(Nat) /\ e \in Seq(Nat) /\ b \in Seq(Nat) /\ m \in Seq(Nat)
      /\ file \in Seq(Nat) /\ Contents(toWrite) = k \o e /\ Contents(<<>>) = <<>>
  <2>1. current \in LogBuffer
    BY DEF OrderInv, BuffersInv, BuffersOK
  <2>2. QED BY <1>3, <2>1, WholeFacts, ContentsFacts
<1>5. Whole = file \o (k \o e) \o b \o m /\ Whole' = file \o k \o <<>> \o b \o m
  BY <1>2, <1>4 DEF Whole
<1> HIDE DEF k, e, b, m
<1>6. \A x, y \in Seq(Nat) : x \o y \in Seq(Nat)
  BY ConcatProperties
<1>7. file \o k \in Seq(Nat) /\ file \o k \o e \in Seq(Nat) /\ b \o m \in Seq(Nat)
  BY <1>4, <1>6
<1>8. Whole = ((file \o k) \o e) \o (b \o m)
  <2>1. file \o (k \o e) = (file \o k) \o e
    BY <1>4, NumbersAssociative
  <2> DEFINE x == (file \o k) \o e
  <2>2. Whole = (x \o b) \o m /\ x \in Seq(Nat)
    BY <1>5, <1>7, <2>1
  <2> HIDE DEF x
  <2>3. Whole = x \o (b \o m)
    BY <1>4, <2>2, NumbersAssociative
  <2>4. QED BY <2>3 DEF x
<1>9. Whole' = (file \o k) \o (b \o m)
  <2>1. file \o k \o <<>> = file \o k
    BY <1>7, ConcatEmptySeq
  <2> DEFINE x == file \o k
  <2>2. Whole' = (x \o b) \o m /\ x \in Seq(Nat)
    BY <1>5, <1>7, <2>1
  <2> HIDE DEF x
  <2>3. Whole' = x \o (b \o m)
    BY <1>4, <2>2, NumbersAssociative
  <2>4. QED BY <2>3 DEF x
<1>10. Lists(((file \o k) \o e) \o (b \o m), 1 .. appended \ lost)
  BY <1>2, <1>8 DEF OrderInv, InOrder, Whole
<1>11. /\ Lists((file \o k) \o (b \o m), (1 .. appended \ lost) \ Range(e))
       /\ Range(e) \subseteq 1 .. appended \ lost
  <2> DEFINE x == file \o k
             y == b \o m
             S == 1 .. appended \ lost
  <2>1. x \in Seq(Nat) /\ y \in Seq(Nat) /\ e \in Seq(Nat) /\ Lists((x \o e) \o y, S)
    BY <1>4, <1>7, <1>10
  <2> HIDE DEF x, y, S
  <2>2. Lists(x \o y, S \ Range(e)) /\ Range(e) \subseteq S
    BY <2>1, ListsRemove
  <2>3. QED BY <2>2 DEF x, y, S
<1>12. lost' = lost \cup Range(e) /\ file' = file \o k
  BY <1>2 DEF e, k
<1>13. TypeInv'
  BY <1>2, <1>7, <1>11, <1>12 DEF OrderInv, TypeInv
<1>14. InOrder'
  <2>1. (1 .. appended \ lost) \ Range(e) = 1 .. appended' \ lost'
    BY <1>2, <1>12
  <2>2. QED BY <1>9, <1>11, <2>1 DEF InOrder, Whole
<1>15. QuietInv' /\ AtExit'
  BY <1>2 DEF OrderInv, QuietInv, AtExit
<1>16. QED BY <1>1, <1>13, <1>14, <1>15 DEF OrderInv

(* The thread has ended and has taken nothing: of what is on its way the   *)
(* destructor writes all but the filled buffers.                           *)
LEMMA OrderJoined == ASSUME OrderInv, Joined PROVE OrderInv'
<1>1. /\ life = "join" /\ tpc = "exited" /\ life' = "done" /\ toWrite = <<>>
      /\ UNCHANGED <<running, current, next, buffers, newBuffer, toWrite, tpc, appended, lost>>
  BY DEF Joined, sharedVars, threadVars, OrderInv, QuietInv
<1>2. BuffersInv'
  BY <1>1 DEF OrderInv, BuffersInv, BuffersOK, PointersInv, NoThreadYet
<1>3. file' = file \o current.msgs
  <2>1. current.cur \in Nat /\ file \o <<>> = file
    BY WholeFacts, ConcatEmptySeq DEF OrderInv, BuffersInv, BuffersOK, LogBuffer
  <2>2. current.cur = 0 => file \o current.msgs = file
    BY <2>1 DEF OrderInv, QuietInv
  <2>3. file' = IF current.cur > 0 THEN file \o current.msgs ELSE file
    BY DEF Joined
  <2>4. QED BY <2>1, <2>2, <2>3
<1>4. Lists((file \o Contents(buffers)) \o current.msgs, 1 .. appended \ lost)
  <2>1. file \o Contents(toWrite) = file
    BY <1>1, WholeFacts, ConcatEmptySeq
  <2>2. QED BY <1>1, <2>1 DEF OrderInv, InOrder
<1>5. AtExit'
  <2>1. Lists(file \o current.msgs, (1 .. appended \ lost) \ Range(Contents(buffers)))
    BY <1>4, WholeFacts, ListsRemove
  <2>2. QED BY <1>1, <1>3, <2>1 DEF AtExit
<1>6. TypeInv'
  <2>1. file' \in Seq(Nat)
    BY <1>3, WholeFacts, ConcatProperties
  <2>2. QED BY <1>1, <2>1 DEF OrderInv, TypeInv
<1>7. InOrder' /\ QuietInv'
  BY <1>1 DEF InOrder, QuietInv, OrderInv
<1>8. QED BY <1>2, <1>5, <1>6, <1>7 DEF OrderInv

(* The induction.                                                          *)
LEMMA OrderInvariant == Spec => []OrderInv
<1>1. Init => OrderInv
  <2> SUFFICES ASSUME Init PROVE OrderInv
    OBVIOUS
  <2>1. BuffersInv
    BY InitBuffers
  <2>2. TypeInv
    <3>1. <<>> \in Seq(Nat)
      OBVIOUS
    <3>2. QED BY <3>1 DEF Init, TypeInv
  <2>3. QuietInv /\ AtExit
    BY DEF Init, QuietInv, AtExit, EmptyBuffer
  <2>4. InOrder
    <3>1. <<>> \in Seq(LogBuffer) /\ <<>> \o <<>> = <<>>
      OBVIOUS
    <3>2. Contents(<<>>) = <<>>
      BY <3>1, EmptyIsBuffer, ContentsFacts
    <3>3. Whole = <<>> /\ 1 .. appended \ lost = {}
      BY <3>1, <3>2 DEF Init, Whole, EmptyBuffer
    <3>4. Lists(<<>>, {})
      BY DEF Lists, Range
    <3>5. QED BY <3>3, <3>4 DEF InOrder, Whole
  <2>5. QED BY <2>1, <2>2, <2>3, <2>4 DEF OrderInv
<1>2. OrderInv /\ [Next]_vars => OrderInv'
  <2> SUFFICES ASSUME OrderInv, [Next]_vars PROVE OrderInv'
    OBVIOUS
  <2>1. ASSUME NEW size \in Sizes, AppendMessage(size) PROVE OrderInv'
    BY <2>1, OrderAppend
  <2>2. CASE Exchange
    BY <2>2, OrderExchange
  <2>3. CASE WriteBuffers
    BY <2>3, OrderWrite
  <2>4. CASE Joined
    BY <2>4, OrderJoined
  <2>5. CASE AwaitStart \/ Top \/ Wait \/ Start \/ Stop
    <3>1. BuffersInv'
      BY <2>5, BuffersKept DEF OrderInv
    <3>2. /\ UNCHANGED <<current, buffers, toWrite, file, appended, lost>>
          /\ life # "done" /\ life' # "done" /\ (tpc = "write" => tpc' = "write")
      <4>1. CASE AwaitStart \/ Top \/ Wait
        BY <4>1 DEF AwaitStart, Top, Wait, sharedVars, OrderInv, QuietInv
      <4>2. CASE Start \/ Stop
        BY <4>2 DEF Start, Stop, sharedVars, threadVars, OrderInv, BuffersInv, NoThreadYet
      <4>3. QED BY <2>5, <4>1, <4>2
    <3>3. TypeInv'
      BY <2>5, <3>2 DEF AwaitStart, Top, Wait, Start, Stop, threadVars, OrderInv, TypeInv
    <3>4. InOrder' /\ AtExit' /\ QuietInv'
      BY <3>2 DEF OrderInv, InOrder, AtExit, QuietInv
    <3>5. QED BY <3>1, <3>3, <3>4 DEF OrderInv
  <2>6. CASE UNCHANGED vars
    BY <2>6 DEF vars, sharedVars, threadVars, OrderInv, BuffersInv, BuffersOK, PointersInv,
                NoThreadYet, TypeInv, QuietInv, InOrder, AtExit
  <2>7. QED BY <2>1, <2>2, <2>3, <2>4, <2>5, <2>6 DEF Next, ThreadStep
<1>3. QED BY <1>1, <1>2, PTL DEF Spec

(* The fields of Asynclogging and what is kept about its file have their   *)
(* types.                                                                  *)
THEOREM TypeCorrect == Spec => []TypeOK
<1>1. OrderInv => TypeOK
  BY DEF OrderInv, BuffersInv, BuffersOK, TypeInv, TypeOK
<1>2. QED BY <1>1, OrderInvariant, PTL

(* Until the destructor returns, the file and what is on its way to it,    *)
(* the buffers taken, the filled ones and the current one, are all that    *)
(* was appended and not erased, once each and in the order of append.      *)
THEOREM WrittenInOrder == Spec => []InOrder
  BY OrderInvariant, PTL DEF OrderInv

(* When the destructor has returned, the file lacks no more than the       *)
(* erased buffers and the filled ones that the thread left behind.         *)
THEOREM WrittenAtExit == Spec => []AtExit
  BY OrderInvariant, PTL DEF OrderInv

===============================================================================
