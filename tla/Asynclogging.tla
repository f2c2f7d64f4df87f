----------------------------- MODULE Asynclogging -----------------------------
(***************************************************************************)
(* Asynclogging: threads append messages to a buffer behind a mutex, and   *)
(* one thread takes the filled buffers, and after a timeout the one being  *)
(* filled, writes them to the file and keeps two of them as spares.        *)
(*                                                                         *)
(* mutex_ is held within one action; the thread gives it up in wait_for    *)
(* only, between Wait and Exchange.  wait_for may end at any time, for its *)
(* timeout is always near enough.  What the thread does with the buffers   *)
(* it took nobody else sees: one action.  A message is its number in the   *)
(* order of append; of its text only the length is kept, in the buffers.   *)
(***************************************************************************)
EXTENDS Naturals, Sequences, SequencesExt

CONSTANTS
  BufferSize,     \* kBufferSize, 4096 in the code
  Sizes,          \* lengths of messages; LOG_FORMAT makes none above 4095
  MaxMessages,    \* bound on the number of messages
  Null            \* an empty unique_ptr

ASSUME SizesAssumption ==
  /\ BufferSize \in Nat \ {0}
  /\ Sizes \subseteq 1 .. BufferSize - 1

(* cur is cur_ - buffer_.  One byte is always left, and is NUL. *)
LogBuffer == [msgs : Seq(Nat), cur : 0 .. BufferSize - 1]

ASSUME NullAssumption == Null \notin LogBuffer

VARIABLES
  running,    \* running_
  current,    \* currentBuffer_
  next,       \* nextBuffer_
  buffers,    \* buffers_
  newBuffer,  \* newBuffer1 and newBuffer2 of threadFunc
  toWrite,    \* buffersToWrite of threadFunc
  tpc,        \* where the thread is
  life,       \* how far start() and the destructor have come
  file,       \* history: the messages in the file, in order
  appended,   \* history: how many messages were appended
  lost        \* history: the messages of buffers that were erased

sharedVars == <<current, next, buffers>>
threadVars == <<newBuffer, toWrite, tpc>>
vars == <<sharedVars, threadVars, running, life, file, appended, lost>>

EmptyBuffer == [msgs |-> <<>>, cur |-> 0]

Init ==
  /\ running = FALSE
  /\ current = EmptyBuffer
  /\ next = EmptyBuffer
  /\ buffers = <<>>
  /\ newBuffer = <<EmptyBuffer, EmptyBuffer>>
  /\ toWrite = <<>>
  /\ tpc = "none"
  /\ life = "made"
  /\ file = <<>>
  /\ appended = 0
  /\ lost = {}

(* LogBuffer::append *)
Put(buffer, n, size) ==
  [msgs |-> Append(buffer.msgs, n), cur |-> buffer.cur + size]

(* Faulty variant: a message may fill the buffer to its last byte. *)
Fits_Exactly(buffer, size) == BufferSize - buffer.cur >= size

Fits(buffer, size) == BufferSize - buffer.cur > size

(* The messages in a sequence of buffers. *)
Contents(bs) == FlattenSeq([i \in DOMAIN bs |-> bs[i].msgs])

-----------------------------------------------------------------------------
(* The threads that log.                                                   *)

(* append(), until the destructor begins. *)
AppendMessage(size) ==
  /\ life \in {"made", "started"}
  /\ appended < MaxMessages
  /\ appended' = appended + 1
  /\ IF Fits(current, size)
     THEN /\ current' = Put(current, appended', size)
          /\ UNCHANGED <<next, buffers>>
     ELSE /\ buffers' = Append(buffers, current)
          /\ current' = Put(IF next # Null THEN next ELSE EmptyBuffer, appended', size)
          /\ next' = Null
  /\ UNCHANGED <<running, threadVars, life, file, lost>>

-----------------------------------------------------------------------------
(* threadFunc.                                                             *)

(* The first wait, for running_. *)
AwaitStart ==
  /\ tpc = "await" /\ running
  /\ tpc' = "top"
  /\ UNCHANGED <<running, sharedVars, newBuffer, toWrite, life, file, appended, lost>>

(* while (running_) *)
Top ==
  /\ tpc = "top"
  /\ tpc' = IF running THEN "lock" ELSE "exited"
  /\ UNCHANGED <<running, sharedVars, newBuffer, toWrite, life, file, appended, lost>>

(* No filled buffer: wait_for gives the mutex up. *)
Wait ==
  /\ tpc = "lock" /\ buffers = <<>>
  /\ tpc' = "waiting"
  /\ UNCHANGED <<running, sharedVars, newBuffer, toWrite, life, file, appended, lost>>

(* Faulty variant: wait() and not wait_for(). *)
Exchange_NoTimeout ==
  /\ tpc \in {"lock", "waiting"} /\ buffers # <<>>
  /\ toWrite' = Append(buffers, current)
  /\ current' = newBuffer[1]
  /\ buffers' = <<>>
  /\ next' = IF next = Null THEN newBuffer[2] ELSE next
  /\ newBuffer' = <<Null, IF next = Null THEN Null ELSE newBuffer[2]>>
  /\ tpc' = "write"
  /\ UNCHANGED <<running, life, file, appended, lost>>

(* Faulty variant: only filled buffers are taken. *)
Exchange_FilledOnly ==
  /\ tpc = "waiting" \/ (tpc = "lock" /\ buffers # <<>>)
  /\ toWrite' = buffers
  /\ buffers' = <<>>
  /\ next' = IF next = Null THEN newBuffer[2] ELSE next
  /\ newBuffer' = [newBuffer EXCEPT ![2] = IF next = Null THEN Null ELSE @]
  /\ tpc' = "write"
  /\ UNCHANGED <<running, current, life, file, appended, lost>>

(* Take the filled buffers and the current one, leave a spare in its place *)
(* and another in nextBuffer_ if that was used up.                         *)
Exchange ==
  /\ tpc = "waiting" \/ (tpc = "lock" /\ buffers # <<>>)
  /\ toWrite' = Append(buffers, current)
  /\ current' = newBuffer[1]
  /\ buffers' = <<>>
  /\ next' = IF next = Null THEN newBuffer[2] ELSE next
  /\ newBuffer' = <<Null, IF next = Null THEN Null ELSE newBuffer[2]>>
  /\ tpc' = "write"
  /\ UNCHANGED <<running, life, file, appended, lost>>

(* Of more than two buffers the first two are written. *)
Kept == SubSeq(toWrite, 1, IF Len(toWrite) > 2 THEN 2 ELSE Len(toWrite))
Erased == SubSeq(toWrite, Len(Kept) + 1, Len(toWrite))

(* Faulty variant: the spares are not reset. *)
Spares_NotReset(kept) ==
  LET n == Len(kept)
  IN <<IF newBuffer[1] = Null /\ n > 0 THEN kept[n] ELSE newBuffer[1],
       IF newBuffer[2] = Null /\ n > 1 THEN kept[n - 1] ELSE newBuffer[2]>>

(* Faulty variant: one spare is kept. *)
Spares_First(kept) == <<EmptyBuffer, newBuffer[2]>>

(* The buffers written, the last one first, replace the spares that were   *)
(* handed out, after a reset().                                            *)
Spares(kept) ==
  LET left == IF newBuffer[1] = Null THEN Len(kept) - 1 ELSE Len(kept)
  IN <<IF newBuffer[1] = Null /\ kept # <<>> THEN EmptyBuffer ELSE newBuffer[1],
       IF newBuffer[2] = Null /\ left > 0 THEN EmptyBuffer ELSE newBuffer[2]>>

WriteBuffers ==
  /\ tpc = "write"
  /\ lost' = lost \cup Range(Contents(Erased))
  /\ file' = file \o Contents(Kept)
  /\ newBuffer' = Spares(Kept)
  /\ toWrite' = <<>>
  /\ tpc' = "top"
  /\ UNCHANGED <<running, sharedVars, life, appended>>

-----------------------------------------------------------------------------
(* The owner.                                                              *)

(* start(): running_ = true, then the thread. *)
Start ==
  /\ life = "made"
  /\ life' = "started"
  /\ running' = TRUE
  /\ tpc' = "await"
  /\ UNCHANGED <<sharedVars, newBuffer, toWrite, file, appended, lost>>

(* ~Asynclogging: running_ = false without the mutex, notify_all; the      *)
(* thread that waits may wake by it, as it may by the timeout.             *)
Stop ==
  /\ life = "started"
  /\ life' = "join"
  /\ running' = FALSE
  /\ UNCHANGED <<sharedVars, threadVars, file, appended, lost>>

(* Faulty variant: the destructor does not write what the thread left. *)
Joined_NoFlush ==
  /\ life = "join" /\ tpc = "exited"
  /\ life' = "done"
  /\ UNCHANGED <<running, sharedVars, threadVars, file, appended, lost>>

(* join() returns; the current buffer is written if it holds anything. *)
Joined ==
  /\ life = "join" /\ tpc = "exited"
  /\ life' = "done"
  /\ file' = IF current.cur > 0 THEN file \o current.msgs ELSE file
  /\ UNCHANGED <<running, sharedVars, threadVars, appended, lost>>

-----------------------------------------------------------------------------
ThreadStep == AwaitStart \/ Top \/ Wait \/ Exchange \/ WriteBuffers

Next ==
  \/ \E size \in Sizes : AppendMessage(size)
  \/ ThreadStep
  \/ Start \/ Stop \/ Joined

Spec == Init /\ [][Next]_vars

(* The thread runs, wait_for ends by its timeout if by nothing else, and   *)
(* join() returns when the thread has ended.                               *)
Fairness == WF_vars(ThreadStep) /\ WF_vars(Joined)

FairSpec == Spec /\ Fairness

-----------------------------------------------------------------------------
(* Properties.                                                             *)

(* LogBuffer includes that no message is copied past the end of a buffer,  *)
(* and that the text of a buffer ends in a NUL, on which the destructor    *)
(* relies.                                                                 *)
BuffersOK ==
  /\ current \in LogBuffer
  /\ buffers \in Seq(LogBuffer) /\ toWrite \in Seq(LogBuffer)
  /\ next \in {EmptyBuffer, Null}
  /\ newBuffer \in {EmptyBuffer, Null} \X {EmptyBuffer, Null}
  /\ appended \in Nat

TypeOK ==
  /\ BuffersOK
  /\ running \in BOOLEAN
  /\ tpc \in {"none", "await", "top", "lock", "waiting", "write", "exited"}
  /\ life \in {"made", "started", "join", "done"}
  /\ file \in Seq(Nat)
  /\ lost \subseteq Nat

(* No null pointer is used: append always has a current buffer, the thread *)
(* always has a spare for it and one for nextBuffer_ should that be used   *)
(* up.  About two buffers always coming back when two were handed out,     *)
(* although all but two of those taken are erased.                         *)
PointersInv ==
  /\ current # Null
  /\ next = Null => buffers # <<>>
  /\ tpc # "write" => newBuffer[1] # Null /\ newBuffer[2] # Null
  /\ tpc = "write" => toWrite # <<>> /\ (newBuffer[2] = Null => Len(toWrite) > 1)

(* s holds the numbers of S, each once and in order. *)
Lists(s, S) == Range(s) = S /\ \A i, j \in DOMAIN s : i < j => s[i] < s[j]

(* The messages go to the file in the order in which they were appended,   *)
(* each once, and none is missing but those of the buffers that were       *)
(* erased: what is not in the file is on its way, behind what is.          *)
InOrder ==
  life # "done" =>
    Lists(file \o Contents(toWrite) \o Contents(buffers) \o current.msgs,
          1 .. appended \ lost)

(* What the destructor leaves unwritten is what was in filled buffers, and *)
(* nothing else.                                                           *)
AtExit ==
  life = "done" => Lists(file, (1 .. appended \ lost) \ Range(Contents(buffers)))

(* A message reaches the file, unless its buffer is erased or the log is   *)
(* destroyed, although nobody appends another.                             *)
MessageIsWritten ==
  \A n \in 1 .. MaxMessages :
    running /\ n <= appended ~> n \in Range(file) \cup lost \/ ~running

(* The destructor returns if the thread had seen running_ set.  It does    *)
(* not rely on notify_all, which the thread may miss.                      *)
DestructorReturns == life = "join" /\ tpc # "await" ~> life = "done"

===============================================================================
