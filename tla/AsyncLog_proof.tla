----------------------------- MODULE AsyncLog_proof -----------------------------
(***************************************************************************)
(* Proofs about AsyncLog, for any threads and any messages: one instance   *)
(* is made, and what is pushed leaves in order, all of it before the       *)
(* destructor returns.                                                     *)
(***************************************************************************)
EXTENDS AsyncLog, SequenceTheorems, TLAPS

Streams == {"cerr", "file", "nowhere"}

TypeInv ==
  /\ tpc \in [Threads -> {"idle", "lock", "log", "notify"}]
  /\ said \in [Threads -> Seq(Messages)]
  /\ instances \in {0, 1}
  /\ queue \in Seq(Messages) /\ pushed \in Seq(Messages)
  /\ exit \in BOOLEAN /\ owner \in {"using", "notifying", "joining", "gone"}
  /\ wpc \in {"none", "top", "waiting", "woken", "taken", "to cerr", "to file", "ended"}
  /\ written \in Seq([msg : Messages, to : Streams])
  /\ file \in {"closed", "open", "failed"} /\ meddled \in BOOLEAN

(* Between taking a message and writing it the writer has exactly that one. *)
Holding == wpc \in {"taken", "to cerr", "to file"}

HandInv ==
  hand \in IF Holding THEN {<<m>> : m \in Messages} ELSE {<<>>}

(* There is a writer only when there is an instance. *)
WriterInv == instances = 0 => wpc = "none"

(* The destructor has the log to itself; the writer ends with nothing left. *)
ExitInv ==
  /\ exit <=> owner # "using"
  /\ exit => \A t \in Threads : tpc[t] = "idle"
  /\ wpc = "ended" => queue = <<>> /\ exit
  /\ owner = "gone" => wpc = "ended"

(* The file the writer chose can only be unusable by another thread's doing. *)
FileInv ==
  /\ file = "failed" => meddled
  /\ wpc = "to file" => file = "open" \/ meddled
  /\ \A i \in DOMAIN written : written[i].to = "nowhere" => meddled

FlowInv == Out \o hand \o queue = pushed

LogInv == TypeInv /\ HandInv /\ WriterInv /\ ExitInv /\ FileInv /\ FlowInv

-----------------------------------------------------------------------------
(* The messages that left, as a sequence.                                  *)

LEMMA OutIsSeq == ASSUME TypeInv PROVE Out \in Seq(Messages)
<1> DEFINE Entries == [msg : Messages, to : Streams]
<1>1. written \in Seq(Entries) /\ \A e \in Entries : e.msg \in Messages
  BY DEF TypeInv
<1> HIDE DEF Entries
<1>2. /\ Len(written) \in Nat /\ DOMAIN written = 1 .. Len(written)
      /\ \A i \in 1 .. Len(written) : written[i] \in Entries
  BY <1>1, LenProperties, ElementOfSeq
<1>3. \A i \in 1 .. Len(written) : written[i].msg \in Messages
  BY <1>1, <1>2
<1>4. QED BY <1>2, <1>3, SeqDef DEF Out

(* Writing one more entry appends its message to those that left. *)
LEMMA OutAppend ==
  ASSUME TypeInv, NEW m \in Messages, NEW s \in Streams,
         written' = Append(written, [msg |-> m, to |-> s])
  PROVE  Out' = Out \o <<m>>
<1> DEFINE Entries == [msg : Messages, to : Streams]
           e == [msg |-> m, to |-> s]
<1>1. written \in Seq(Entries) /\ e \in Entries
  BY DEF TypeInv
<1>2. /\ Len(written) \in Nat /\ DOMAIN written = 1 .. Len(written)
      /\ written' \in Seq(Entries) /\ Len(written') = Len(written) + 1
      /\ DOMAIN written' = 1 .. Len(written) + 1
      /\ \A i \in 1 .. Len(written) : written'[i] = written[i]
      /\ written'[Len(written) + 1] = e
  <2>1. written' = Append(written, e)
    OBVIOUS
  <2>2. QED BY <1>1, <2>1, AppendProperties, LenProperties
<1>3. Out \in Seq(Messages) /\ Len(Out) = Len(written)
  BY <1>2, OutIsSeq, LenProperties DEF Out
<1>4. Out' = [i \in 1 .. Len(written) + 1 |->
                IF i <= Len(written) THEN Out[i] ELSE m]
  <2>1. Out' = [i \in 1 .. Len(written) + 1 |-> written'[i].msg]
    BY <1>2 DEF Out
  <2>2. \A i \in 1 .. Len(written) : Out[i] = written'[i].msg
    BY <1>2 DEF Out
  <2>3. \A i \in 1 .. Len(written) + 1 :
          written'[i].msg = IF i <= Len(written) THEN Out[i] ELSE m
    BY <1>2, <2>2
  <2>4. QED BY <2>1, <2>3
<1>5. Append(Out, m) = [i \in 1 .. Len(written) + 1 |->
                          IF i <= Len(written) THEN Out[i] ELSE m]
  <2>1. /\ Append(Out, m) \in Seq(Messages) /\ Len(Append(Out, m)) = Len(written) + 1
        /\ \A i \in 1 .. Len(written) : Append(Out, m)[i] = Out[i]
        /\ Append(Out, m)[Len(written) + 1] = m
    BY <1>3, AppendProperties
  <2>2. \A i \in 1 .. Len(written) + 1 :
          Append(Out, m)[i] = IF i <= Len(written) THEN Out[i] ELSE m
    BY <1>2, <2>1
  <2>3. Append(Out, m) = [i \in 1 .. Len(written) + 1 |-> Append(Out, m)[i]]
    BY <2>1, LenProperties
  <2>4. QED BY <2>2, <2>3
<1>6. QED BY <1>3, <1>4, <1>5, AppendIsConcat

LEMMA HandIsSeq == ASSUME HandInv PROVE hand \in Seq(Messages)
<1>1. <<>> \in Seq(Messages) /\ \A m \in Messages : <<m>> \in Seq(Messages)
  OBVIOUS
<1>2. QED BY <1>1 DEF HandInv

-----------------------------------------------------------------------------
(* The steps that move a message.                                          *)

LEMMA PushStep ==
  ASSUME LogInv, NEW t \in Threads, Push(t)
  PROVE  LogInv'
<1> USE DEF LogInv
<1>1. /\ tpc[t] = "log" /\ tpc' = [tpc EXCEPT ![t] = "notify"]
      /\ said' = [said EXCEPT ![t] = <<>>]
      /\ queue' = queue \o said[t] /\ pushed' = pushed \o said[t]
      /\ UNCHANGED <<instances, exit, owner, wpc, hand, written, file, meddled>>
  BY DEF Push, Goes, ownerVars, fileVars
<1>2. said[t] \in Seq(Messages) /\ <<>> \in Seq(Messages)
  <2>1. said \in [Threads -> Seq(Messages)]
    BY DEF TypeInv
  <2>2. said[t] \in Seq(Messages)
    BY <2>1
  <2>3. QED BY <2>2
<1>3. queue \in Seq(Messages) /\ pushed \in Seq(Messages)
  BY DEF TypeInv
<1>4. TypeInv'
  <2>1. queue' \in Seq(Messages) /\ pushed' \in Seq(Messages)
    BY <1>1, <1>2, <1>3, ConcatProperties
  <2>2. /\ tpc' \in [Threads -> {"idle", "lock", "log", "notify"}]
        /\ said' \in [Threads -> Seq(Messages)]
    BY <1>1, <1>2 DEF TypeInv
  <2>3. QED BY <1>1, <2>1, <2>2 DEF TypeInv
<1>5. FlowInv'
  <2> DEFINE gone == Out \o hand
  <2>1. gone \in Seq(Messages)
    BY OutIsSeq, HandIsSeq, ConcatProperties
  <2>2. gone \o (queue \o said[t]) = (gone \o queue) \o said[t]
    <3>1. \A a, b, c \in Seq(Messages) : (a \o b) \o c = a \o (b \o c)
      BY ConcatAssociative
    <3> HIDE DEF gone
    <3>2. QED BY <1>2, <1>3, <2>1, <3>1
  <2>3. Out' = Out /\ hand' = hand
    BY <1>1 DEF Out
  <2>4. QED BY <1>1, <2>2, <2>3 DEF FlowInv
<1>6. ExitInv'
  <2>1. ~exit
    BY <1>1 DEF ExitInv
  <2>2. QED BY <1>1, <2>1 DEF ExitInv
<1>7. HandInv' /\ WriterInv' /\ FileInv'
  BY <1>1 DEF HandInv, Holding, WriterInv, FileInv
<1>8. QED BY <1>4, <1>5, <1>6, <1>7

LEMMA TakeStep == ASSUME LogInv, Take PROVE LogInv'
<1> USE DEF LogInv
<1>1. /\ wpc \in {"top", "woken"} /\ hand = <<>>
      /\ UNCHANGED <<tpc, said, instances, pushed, exit, owner, written, file, meddled>>
  BY DEF Take, HandInv, Holding, logVars, ownerVars, fileVars
<1>2. queue \in Seq(Messages) /\ Out' = Out
  BY <1>1 DEF TypeInv, Out
<1>3. CASE queue = <<>>
  <2>1. wpc' \in {"ended", "waiting"} /\ (wpc' = "ended" => exit) /\ UNCHANGED <<queue, hand>>
    BY <1>3 DEF Take
  <2>2. QED
    BY <1>1, <1>2, <1>3, <2>1
    DEF TypeInv, HandInv, Holding, WriterInv, ExitInv, FileInv, FlowInv
<1>4. CASE queue # <<>>
  <2>1. wpc' = "taken" /\ hand' = <<Head(queue)>> /\ queue' = Tail(queue)
    BY <1>4 DEF Take
  <2>2. Head(queue) \in Messages /\ Tail(queue) \in Seq(Messages)
    BY <1>2, <1>4, HeadTailProperties
  <2>3. <<Head(queue)>> \in Seq(Messages)
    BY <2>2
  <2>4. <<Head(queue)>> \o Tail(queue) = queue
    BY <1>2, <1>4
  <2>5. FlowInv'
    <3>1. Out \o hand = Out
      BY <1>1, OutIsSeq, ConcatEmptySeq
    <3>2. (Out \o <<Head(queue)>>) \o Tail(queue) = Out \o (<<Head(queue)>> \o Tail(queue))
      BY <2>2, <2>3, OutIsSeq, ConcatAssociative
    <3>3. QED BY <1>1, <1>2, <2>1, <2>4, <3>1, <3>2 DEF FlowInv
  <2>6. TypeInv' /\ HandInv'
    BY <1>1, <2>1, <2>2 DEF TypeInv, HandInv, Holding
  <2>7. WriterInv' /\ ExitInv' /\ FileInv'
    BY <1>1, <1>4, <2>1 DEF WriterInv, ExitInv, FileInv
  <2>8. QED BY <2>5, <2>6, <2>7
<1>5. QED BY <1>3, <1>4

LEMMA WriteStep == ASSUME LogInv, Write PROVE LogInv'
<1> USE DEF LogInv
<1> DEFINE to == CASE wpc = "to cerr" -> "cerr"
                   [] wpc = "to file" /\ file = "open" -> "file"
                   [] OTHER -> "nowhere"
<1>1. /\ wpc \in {"to cerr", "to file"} /\ wpc' = "top" /\ hand' = <<>>
      /\ written' = Append(written, [msg |-> Head(hand), to |-> to])
      /\ UNCHANGED <<tpc, said, instances, queue, pushed, exit, owner, file, meddled>>
  BY DEF Write, logVars, ownerVars, fileVars
<1>2. PICK m \in Messages : hand = <<m>>
  BY <1>1 DEF HandInv, Holding
<1>3. to \in Streams /\ (to = "nowhere" => meddled)
  BY <1>1 DEF FileInv, Streams
<1> HIDE DEF to
<1>4. written' = Append(written, [msg |-> m, to |-> to])
  <2>1. Head(hand) = m
    BY <1>2
  <2>2. QED BY <1>1, <2>1
<1>5. FlowInv'
  <2>1. Out' = Out \o <<m>>
    BY <1>3, <1>4, OutAppend
  <2>2. Out \o <<m>> \in Seq(Messages)
    BY <1>2, OutIsSeq, HandIsSeq, ConcatProperties
  <2>3. Out' \o hand' = Out \o hand
    BY <1>1, <1>2, <2>1, <2>2, ConcatEmptySeq
  <2>4. QED BY <1>1, <2>3 DEF FlowInv
<1>6. written \in Seq([msg : Messages, to : Streams]) /\ [msg |-> m, to |-> to] \in [msg : Messages, to : Streams]
  BY <1>3 DEF TypeInv
<1>7. TypeInv'
  <2>1. written' \in Seq([msg : Messages, to : Streams])
    BY <1>4, <1>6, AppendProperties
  <2>2. QED BY <1>1, <2>1 DEF TypeInv
<1>8. FileInv'
  <2>1. /\ Len(written) \in Nat /\ DOMAIN written = 1 .. Len(written)
        /\ DOMAIN written' = 1 .. Len(written) + 1
        /\ \A i \in 1 .. Len(written) : written'[i] = written[i]
        /\ written'[Len(written) + 1] = [msg |-> m, to |-> to]
    BY <1>4, <1>6, AppendProperties, LenProperties
  <2>2. \A i \in DOMAIN written' : written'[i].to = "nowhere" => meddled
    <3>1. \A i \in 1 .. Len(written) : written'[i].to = "nowhere" => meddled
      BY <2>1 DEF FileInv
    <3>2. written'[Len(written) + 1].to = to
      BY <2>1
    <3>3. QED BY <1>3, <2>1, <3>1, <3>2
  <2>3. QED BY <1>1, <2>2 DEF FileInv
<1>9. HandInv' /\ WriterInv' /\ ExitInv'
  BY <1>1 DEF HandInv, Holding, WriterInv, ExitInv
<1>10. QED BY <1>5, <1>7, <1>8, <1>9

-----------------------------------------------------------------------------
(* The steps that move none.                                               *)

LEMMA ThreadStep ==
  ASSUME LogInv, NEW t \in Threads,
         (\E m \in Messages : StartLog(t, m)) \/ MakeInstance(t) \/ Discard(t) \/ Notify(t)
  PROVE  LogInv'
<1> USE DEF LogInv, Goes
<1>1. UNCHANGED <<queue, pushed, exit, owner, hand, written, file, meddled>>
  BY DEF StartLog, MakeInstance, Discard, Notify, ownerVars, fileVars
<1>2. FlowInv'
  BY <1>1 DEF FlowInv, Out
<1>3. TypeInv'
  <2>1. CASE \E m \in Messages : StartLog(t, m)
    <3>1. PICK m \in Messages : StartLog(t, m)
      BY <2>1
    <3>2. <<m>> \in Seq(Messages)
      OBVIOUS
    <3>3. said' \in [Threads -> Seq(Messages)]
      BY <3>1, <3>2 DEF StartLog, TypeInv
    <3>4. QED BY <1>1, <3>1, <3>3 DEF StartLog, TypeInv
  <2>2. CASE MakeInstance(t)
    BY <1>1, <2>2 DEF MakeInstance, TypeInv
  <2>3. CASE Discard(t)
    <3>1. <<>> \in Seq(Messages)
      OBVIOUS
    <3>2. said' \in [Threads -> Seq(Messages)]
      BY <2>3, <3>1 DEF Discard, TypeInv
    <3>3. QED BY <1>1, <2>3, <3>2 DEF Discard, TypeInv
  <2>4. CASE Notify(t)
    BY <1>1, <2>4 DEF Notify, WakeWriter, TypeInv
  <2>5. QED BY <2>1, <2>2, <2>3, <2>4
<1>4. ~exit
  BY DEF StartLog, MakeInstance, Discard, Notify, ExitInv
<1>5. /\ wpc' # wpc => \/ wpc = "none" /\ wpc' = "top"
                       \/ wpc = "waiting" /\ wpc' = "woken"
      /\ instances' = 0 => instances = 0 /\ (wpc = "none" => wpc' = "none")
  <2>1. CASE \E m \in Messages : StartLog(t, m)
    BY <2>1 DEF StartLog
  <2>2. CASE MakeInstance(t)
    BY <2>2 DEF MakeInstance, WriterInv
  <2>3. CASE Discard(t)
    BY <2>3 DEF Discard
  <2>4. CASE Notify(t)
    BY <2>4 DEF Notify, WakeWriter
  <2>5. QED BY <2>1, <2>2, <2>3, <2>4
<1>6. HandInv' /\ WriterInv' /\ ExitInv' /\ FileInv'
  BY <1>1, <1>4, <1>5 DEF HandInv, Holding, WriterInv, ExitInv, FileInv
<1>7. QED BY <1>2, <1>3, <1>6

LEMMA QuietStep ==
  ASSUME LogInv, Open \/ Close \/ ChooseStream \/ SpuriousWakeup \/ SetExit \/ NotifyAll \/ Join
  PROVE  LogInv'
<1> USE DEF LogInv, logVars, ownerVars, fileVars
<1>1. UNCHANGED <<tpc, said, instances, queue, pushed, hand, written>>
  BY DEF Open, Close, ChooseStream, SpuriousWakeup, SetExit, NotifyAll, Join
<1>2. FlowInv'
  BY <1>1 DEF FlowInv, Out
<1>3. TypeInv'
  BY <1>1 DEF Open, Close, ChooseStream, SpuriousWakeup, SetExit, NotifyAll, Join,
              WakeWriter, TypeInv
<1>4. HandInv' /\ WriterInv'
  BY <1>1 DEF Open, Close, ChooseStream, SpuriousWakeup, SetExit, NotifyAll, Join,
              WakeWriter, HandInv, Holding, WriterInv
<1>5. ExitInv'
  <2>1. CASE Open \/ Close \/ ChooseStream \/ SpuriousWakeup
    <3>1. UNCHANGED <<exit, owner>>
      BY <2>1 DEF Open, Close, ChooseStream, SpuriousWakeup
    <3>2. wpc' = "ended" <=> wpc = "ended"
      BY <2>1 DEF Open, Close, ChooseStream, SpuriousWakeup
    <3>3. QED BY <1>1, <3>1, <3>2 DEF ExitInv
  <2>2. CASE SetExit
    BY <1>1, <2>2 DEF SetExit, ExitInv
  <2>3. CASE NotifyAll
    BY <1>1, <2>3 DEF NotifyAll, WakeWriter, ExitInv
  <2>4. CASE Join
    BY <1>1, <2>4 DEF Join, ExitInv
  <2>5. QED BY <2>1, <2>2, <2>3, <2>4
<1>6. FileInv'
  BY <1>1 DEF Open, Close, ChooseStream, SpuriousWakeup, SetExit, NotifyAll, Join,
              WakeWriter, FileInv, TypeInv
<1>7. QED BY <1>2, <1>3, <1>4, <1>5, <1>6

-----------------------------------------------------------------------------

LEMMA LogInvariant == Spec => []LogInv
<1>1. Init => LogInv
  <2> SUFFICES ASSUME Init PROVE LogInv
    OBVIOUS
  <2>1. Out = <<>>
    BY DEF Init, Out
  <2>2. <<>> \in Seq(Messages) /\ <<>> \in Seq([msg : Messages, to : Streams])
    OBVIOUS
  <2>3. FlowInv
    BY <2>1, <2>2, ConcatEmptySeq DEF Init, FlowInv
  <2>4. TypeInv
    BY <2>2 DEF Init, TypeInv
  <2>5. QED
    BY <2>3, <2>4 DEF Init, LogInv, HandInv, Holding, WriterInv, ExitInv, FileInv
<1>2. LogInv /\ [Next]_vars => LogInv'
  <2> SUFFICES ASSUME LogInv, [Next]_vars PROVE LogInv'
    OBVIOUS
  <2>1. ASSUME NEW t \in Threads, Log(t) \/ \E m \in Messages : StartLog(t, m) PROVE LogInv'
    BY <2>1, PushStep, ThreadStep DEF Log
  <2>2. CASE WriterStep
    BY <2>2, TakeStep, WriteStep, QuietStep DEF WriterStep
  <2>3. CASE Open \/ Close \/ SpuriousWakeup \/ SetExit \/ NotifyAll \/ Join
    BY <2>3, QuietStep
  <2>4. CASE UNCHANGED vars
    BY <2>4 DEF vars, logVars, ownerVars, fileVars, LogInv, TypeInv, HandInv, Holding,
                WriterInv, ExitInv, FileInv, FlowInv, Out
  <2>5. QED BY <2>1, <2>2, <2>3, <2>4 DEF Next
<1>3. QED BY <1>1, <1>2, PTL DEF Spec

(* However many threads call instance() at once, one log is made. *)
THEOREM OneInstanceCorrect == Spec => []OneInstance
<1>1. LogInv => OneInstance
  <2>1. LogInv => instances \in {0, 1}
    BY DEF LogInv, TypeInv
  <2>2. QED BY <2>1 DEF OneInstance
<1>2. QED BY <1>1, LogInvariant, PTL

(* What is pushed leaves in its order, none of it stays behind when the    *)
(* destructor returns, and none goes nowhere unless another thread closed  *)
(* or reopened the file.                                                   *)
THEOREM AllIsWrittenCorrect == Spec => []AllIsWritten
<1>1. LogInv => AllIsWritten
  <2> SUFFICES ASSUME LogInv PROVE AllIsWritten
    OBVIOUS
  <2>1. ASSUME owner = "gone" PROVE Out = pushed
    <3>1. hand = <<>> /\ queue = <<>>
      BY <2>1 DEF LogInv, ExitInv, HandInv, Holding
    <3>2. QED BY <3>1, OutIsSeq, ConcatEmptySeq DEF LogInv, FlowInv
  <2>2. QED BY <2>1 DEF LogInv, FlowInv, FileInv, AllIsWritten
<1>2. QED BY <1>1, LogInvariant, PTL

===============================================================================
