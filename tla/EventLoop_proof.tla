---------------------------- MODULE EventLoop_proof ----------------------------
(***************************************************************************)
(* Proofs about EventLoop, for every set of threads, functors and          *)
(* channels, every initial size of the event array and every maximum of    *)
(* the eventfd counter.                                                    *)
(***************************************************************************)
EXTENDS EventLoop, SequenceTheorems, TLAPS

(* A step of the loop's thread, of user code on it or of another thread    *)
(* leaves every variable with its type and the flag and vector of          *)
(* doPendingFunctors in step with the phase.                               *)
LEMMA TypeStep ==
  ASSUME TypeOK, PhaseInv, [Next]_vars
  PROVE  TypeOK' /\ PhaseInv'
<1> USE DEF TypeOK, PhaseInv, Phase, UserCode, taskVars, threadVars, pollVars
<1>1. CASE LoopStep
  <2>1. CASE StartLoop  BY <2>1 DEF StartLoop
  <2>2. CASE CheckQuit  BY <2>2 DEF CheckQuit
  <2>3. CASE HandleWakeup
    BY <2>3, EventfdAssumption DEF HandleWakeup
  <2>4. CASE CallbackReturns  BY <2>4 DEF CallbackReturns
  <2>5. ASSUME NEW c \in IoChannels, HandleEvent(c)
        PROVE  TypeOK' /\ PhaseInv'
    BY <2>5 DEF HandleEvent
  <2>6. CASE BeginPending  BY <2>6 DEF BeginPending
  <2>7. CASE SwapPending
    <3>1. <<>> \in Seq(Functors)
      OBVIOUS
    <3>2. QED BY <2>7, <3>1 DEF SwapPending
  <2>8. CASE RunFunctor  BY <2>8 DEF RunFunctor
  <2>9. CASE FunctorReturns
    <3>1. functors # <<>>
      BY <2>9 DEF FunctorReturns
    <3>2. Head(functors) \in Functors /\ Tail(functors) \in Seq(Functors)
      BY <3>1, HeadTailProperties
    <3>3. Append(ran, Head(functors)) \in Seq(Functors)
      BY <3>2, AppendProperties
    <3>4. QED BY <2>9, <3>2, <3>3 DEF FunctorReturns
  <2>10. CASE EndPending  BY <2>10 DEF EndPending
  <2>11. QED
    BY <1>1, <2>1, <2>2, <2>3, <2>4, <2>5, <2>6, <2>7, <2>8, <2>9, <2>10
    DEF LoopStep
<1>2. CASE Wait
  <2>1. CASE PollNone  BY <2>1 DEF PollNone
  <2>2. ASSUME NEW io \in SUBSET IoChannels, Poll(io)
        PROVE  TypeOK' /\ PhaseInv'
    BY <2>2 DEF Poll
  <2>3. QED BY <1>2, <2>1, <2>2 DEF Wait
<1>3. CASE SelfCall
  <2>1. CASE SelfQuit  BY <2>1 DEF SelfQuit
  <2>2. ASSUME NEW f \in Functors, SelfQueueInLoop(f)
        PROVE  TypeOK' /\ PhaseInv'
    BY <2>2, AppendProperties, EventfdAssumption DEF SelfQueueInLoop, WriteEventfd
  <2>3. QED BY <1>3, <2>1, <2>2 DEF SelfCall
<1>4. ASSUME NEW t \in Threads, ThreadStep(t)
      PROVE  TypeOK' /\ PhaseInv'
  <2>1. CASE Wakeup(t)
    BY <2>1, EventfdAssumption DEF Wakeup, WriteEventfd
  <2>2. CASE Quit(t)  BY <2>2 DEF Quit
  <2>3. ASSUME NEW f \in Functors, QueueInLoop(t, f)
        PROVE  TypeOK' /\ PhaseInv'
    BY <2>3, AppendProperties DEF QueueInLoop
  <2>4. QED BY <1>4, <2>1, <2>2, <2>3 DEF ThreadStep
<1>5. CASE UNCHANGED vars  BY <1>5 DEF vars
<1>6. QED BY <1>1, <1>2, <1>3, <1>4, <1>5 DEF Next

(* Every variable keeps its type, and the flag and vector of               *)
(* doPendingFunctors go with the phase of the loop's thread: a functor     *)
(* that runs is the head of a non-empty vector, which is what makes        *)
(* FunctorReturns well typed.                                              *)
THEOREM TypeCorrect == Spec => [](TypeOK /\ PhaseInv)
<1>1. Init => TypeOK /\ PhaseInv
  <2> SUFFICES ASSUME Init PROVE TypeOK /\ PhaseInv
    OBVIOUS
  <2>1. <<>> \in Seq(Functors)
    OBVIOUS
  <2>2. eventfd \in 0 .. EventfdMax /\ eventListSize \in Nat \ {0}
    BY SizeAssumption, EventfdAssumption DEF Init
  <2>3. TypeOK
    BY <2>1, <2>2 DEF Init, TypeOK, Phase, UserCode
  <2>4. QED BY <2>3 DEF Init, PhaseInv
<1>2. TypeOK /\ PhaseInv /\ [Next]_vars => TypeOK' /\ PhaseInv'
  BY TypeStep
<1>3. QED BY <1>1, <1>2, PTL DEF Spec

(* What queueInLoop's wake-up rule is worth: pushing and, after the        *)
(* unlock, waking keeps the promise, whoever queues and at whatever phase  *)
(* of the loop, and the swap is the only step that may end it.             *)
LEMMA WakeupStep ==
  ASSUME TypeOK, PhaseInv, WakeupInv, [Next]_vars, PhaseInv'
  PROVE  WakeupInv'
<1> USE DEF WakeupInv, WorkWaits, WakeupPromised
<1>1. CASE LoopStep
  <2>1. CASE StartLoop
    BY <2>1 DEF StartLoop, taskVars, threadVars, pollVars
  <2>2. CASE CheckQuit
    BY <2>2 DEF CheckQuit, taskVars, threadVars, pollVars
  <2>3. CASE HandleWakeup  BY <2>3 DEF HandleWakeup
  <2>4. CASE CallbackReturns  BY <2>4 DEF CallbackReturns
  <2>5. ASSUME NEW c \in IoChannels, HandleEvent(c)
        PROVE  WakeupInv'
    BY <2>5 DEF HandleEvent
  <2>6. CASE BeginPending  BY <2>6 DEF BeginPending
  <2>7. CASE SwapPending
    <3>1. DOMAIN pending' = {}
      BY <2>7 DEF SwapPending
    <3>2. QED BY <2>7, <3>1 DEF SwapPending
  <2>8. CASE RunFunctor
    BY <2>8 DEF RunFunctor, taskVars, threadVars, pollVars
  <2>9. CASE FunctorReturns
    BY <2>9 DEF FunctorReturns, threadVars, pollVars
  <2>10. CASE EndPending
    BY <2>10 DEF EndPending, threadVars, pollVars
  <2>11. QED
    BY <1>1, <2>1, <2>2, <2>3, <2>4, <2>5, <2>6, <2>7, <2>8, <2>9, <2>10
    DEF LoopStep
<1>2. CASE Wait
  BY <1>2 DEF Wait, PollNone, Poll
<1>3. CASE SelfCall
  <2>1. CASE SelfQuit
    BY <2>1 DEF SelfQuit, UserCode, taskVars, threadVars, pollVars
  <2>2. ASSUME NEW f \in Functors, SelfQueueInLoop(f)
        PROVE  WakeupInv'
    <3>1. CASE pc = "init"
      <4>1. WorkWaits' => WorkWaits
        BY <2>2, <3>1, AppendProperties DEF SelfQueueInLoop, TypeOK
      <4>2. ~calling /\ pc' = pc /\ UNCHANGED <<eventfd, tpc>>
        BY <2>2, <3>1 DEF SelfQueueInLoop, PhaseInv, threadVars
      <4>3. QED BY <3>1, <4>1, <4>2
    <3>2. CASE pc = "callback"
      BY <2>2, <3>2 DEF SelfQueueInLoop
    <3>3. CASE pc = "functor"
      <4>1. calling
        BY <3>3 DEF PhaseInv
      <4>2. eventfd' > 0
        BY <2>2, <4>1, EventfdAssumption DEF SelfQueueInLoop, WriteEventfd, TypeOK
      <4>3. QED BY <4>2
    <3>4. QED BY <2>2, <3>1, <3>2, <3>3 DEF SelfQueueInLoop, UserCode
  <2>3. QED BY <1>3, <2>1, <2>2 DEF SelfCall
<1>4. ASSUME NEW t \in Threads, ThreadStep(t)
      PROVE  WakeupInv'
  <2>1. CASE Wakeup(t)
    <3>1. eventfd' > 0
      BY <2>1, EventfdAssumption DEF Wakeup, WriteEventfd, TypeOK
    <3>2. QED BY <3>1
  <2>2. CASE tpc'[t] = "wakeup"  BY <2>2
  <2>3. QED BY <1>4, <2>1, <2>2 DEF ThreadStep, Quit, QueueInLoop, TypeOK
<1>5. CASE UNCHANGED vars  BY <1>5 DEF vars
<1>6. QED BY <1>1, <1>2, <1>3, <1>4, <1>5 DEF Next

(* In every reachable state from which the loop gets to epoll_wait without *)
(* swapping, waiting work has its wake-up.                                 *)
THEOREM WakeupCorrect == Spec => []WakeupInv
<1>1. Init => WakeupInv
  BY DEF Init, WakeupInv, PhaseInv, WorkWaits
<1>2. TypeOK /\ PhaseInv /\ PhaseInv' /\ WakeupInv /\ [Next]_vars => WakeupInv'
  BY WakeupStep
<1>3. QED BY <1>1, <1>2, TypeCorrect, PTL DEF Spec

(* The loop never sleeps in epoll_wait on a functor or a quit() that       *)
(* nobody will wake it for.                                                *)
THEOREM NoWakeupIsLost == Spec => []NoLostWakeup
<1>1. WakeupInv => NoLostWakeup
  BY DEF WakeupInv, NoLostWakeup
<1>2. QED BY <1>1, WakeupCorrect, PTL

-----------------------------------------------------------------------------
(* The first of two queues chained one behind the other is the first of    *)
(* the chain.                                                              *)
LEMMA HeadTailOfConcat ==
  ASSUME NEW S, NEW s \in Seq(S), NEW t \in Seq(S), s # <<>>
  PROVE  /\ s \o t # <<>>
         /\ Head(s \o t) = Head(s)
         /\ Tail(s \o t) = Tail(s) \o t
<1>1. s \o t \in Seq(S) /\ Len(s \o t) = Len(s) + Len(t)
  BY ConcatProperties
<1>2. Len(s) \in Nat /\ Len(t) \in Nat /\ Len(s) > 0
  BY LenProperties, EmptySeq
<1>3. s \o t # <<>>
  BY <1>1, <1>2, EmptySeq
<1>4. Head(s \o t) = Head(s)
  BY <1>1, <1>2, <1>3, ConcatProperties
<1>5. Tail(s) \in Seq(S) /\ Len(Tail(s)) = Len(s) - 1
  BY HeadTailProperties
<1>6. Tail(s \o t) \in Seq(S) /\ Len(Tail(s \o t)) = Len(s) + Len(t) - 1
  BY <1>1, <1>3, HeadTailProperties
<1>7. Tail(s) \o t \in Seq(S) /\ Len(Tail(s) \o t) = Len(s) - 1 + Len(t)
  BY <1>5, ConcatProperties
<1>8. ASSUME NEW i \in 1 .. Len(Tail(s \o t))
      PROVE  Tail(s \o t)[i] = (Tail(s) \o t)[i]
  <2>1. Tail(s \o t)[i] = (s \o t)[i + 1]
    BY <1>1, <1>3, HeadTailProperties
  <2>2. (s \o t)[i + 1] = IF i + 1 <= Len(s) THEN s[i + 1] ELSE t[i + 1 - Len(s)]
    <3>1. i + 1 \in 1 .. Len(s) + Len(t)
      BY <1>2, <1>6
    <3>2. QED BY <3>1, ConcatProperties
  <2>3. (Tail(s) \o t)[i]
          = IF i <= Len(s) - 1 THEN Tail(s)[i] ELSE t[i - (Len(s) - 1)]
    <3>1. i \in 1 .. Len(Tail(s)) + Len(t)
      BY <1>2, <1>5, <1>6
    <3>2. QED BY <3>1, <1>5, ConcatProperties
  <2>4. i <= Len(s) - 1 => Tail(s)[i] = s[i + 1]
    BY <1>2, <1>5, HeadTailProperties
  <2>5. QED BY <1>2, <2>1, <2>2, <2>3, <2>4
<1>9. Tail(s \o t) = Tail(s) \o t
  BY <1>2, <1>6, <1>7, <1>8, SeqEqual
<1>10. QED BY <1>3, <1>4, <1>9

(* A functor pushed to pendingFunctors_ is the youngest of the executor's  *)
(* queue, and new to it.                                                   *)
LEMMA PushIsSubmit ==
  ASSUME TypeOK, NEW f \in Functors, Fresh(f),
         pending' = Append(pending, f), UNCHANGED <<functors, ran>>
  PROVE  Executor!Submit(f)
<1>1. pending \in Seq(Functors) /\ functors \in Seq(Functors) /\ <<f>> \in Seq(Functors)
  BY DEF TypeOK
<1>2. functors \o Append(pending, f) = Append(functors \o pending, f)
  <2>1. Append(pending, f) = pending \o <<f>>
    BY <1>1, AppendIsConcat
  <2>2. functors \o pending \in Seq(Functors)
    BY <1>1, ConcatProperties
  <2>3. Append(functors \o pending, f) = (functors \o pending) \o <<f>>
    BY <2>2, AppendIsConcat
  <2>4. QED BY <1>1, <2>1, <2>3, ConcatAssociative
<1>3. Range(functors \o pending) = Range(functors) \cup Range(pending)
  BY <1>1, RangeConcatenation
<1>4. f \notin Range(functors \o pending) \cup Range(ran)
  BY <1>3 DEF Fresh
<1>5. QED BY <1>2, <1>4 DEF Executor!Submit, Range, Executor!Range

(* Every step of the loop and its threads is a step of the executor or     *)
(* leaves its queue and its record alone.                                  *)
LEMMA StepRefines ==
  ASSUME TypeOK, PhaseInv, [Next]_vars
  PROVE  [Executor!Next]_(Executor!vars)
<1> USE DEF Executor!vars, taskVars
<1>1. CASE LoopStep
  <2>1. CASE SwapPending
    <3>1. functors = <<>>
      BY <2>1 DEF SwapPending, PhaseInv
    <3>2. functors \o pending = pending /\ pending \o <<>> = pending
      BY <3>1, ConcatEmptySeq DEF TypeOK
    <3>3. QED BY <2>1, <3>2 DEF SwapPending
  <2>2. CASE FunctorReturns
    <3>1. functors \in Seq(Functors) /\ pending \in Seq(Functors) /\ functors # <<>>
      BY <2>2 DEF TypeOK, PhaseInv, FunctorReturns
    <3>2. QED BY <2>2, <3>1, HeadTailOfConcat
                 DEF FunctorReturns, Executor!Next, Executor!Execute
  <2>3. CASE StartLoop  BY <2>3 DEF StartLoop
  <2>4. CASE CheckQuit  BY <2>4 DEF CheckQuit
  <2>5. CASE HandleWakeup  BY <2>5 DEF HandleWakeup
  <2>6. CASE CallbackReturns  BY <2>6 DEF CallbackReturns
  <2>7. ASSUME NEW c \in IoChannels, HandleEvent(c)
        PROVE  [Executor!Next]_(Executor!vars)
    BY <2>7 DEF HandleEvent
  <2>8. CASE BeginPending  BY <2>8 DEF BeginPending
  <2>9. CASE RunFunctor  BY <2>9 DEF RunFunctor
  <2>10. CASE EndPending  BY <2>10 DEF EndPending
  <2>11. QED
    BY <1>1, <2>1, <2>2, <2>3, <2>4, <2>5, <2>6, <2>7, <2>8, <2>9, <2>10
    DEF LoopStep
<1>2. CASE Wait
  BY <1>2 DEF Wait, PollNone, Poll
<1>3. CASE SelfCall
  <2>1. CASE SelfQuit  BY <2>1 DEF SelfQuit
  <2>2. ASSUME NEW f \in Functors, SelfQueueInLoop(f)
        PROVE  [Executor!Next]_(Executor!vars)
    BY <2>2, PushIsSubmit DEF SelfQueueInLoop, Executor!Next
  <2>3. QED BY <1>3, <2>1, <2>2 DEF SelfCall
<1>4. ASSUME NEW t \in Threads, ThreadStep(t)
      PROVE  [Executor!Next]_(Executor!vars)
  <2>1. CASE Wakeup(t) \/ Quit(t)  BY <2>1 DEF Wakeup, Quit
  <2>2. ASSUME NEW f \in Functors, QueueInLoop(t, f)
        PROVE  [Executor!Next]_(Executor!vars)
    BY <2>2, PushIsSubmit DEF QueueInLoop, Executor!Next
  <2>3. QED BY <1>4, <2>1, <2>2 DEF ThreadStep
<1>5. CASE UNCHANGED vars  BY <1>5 DEF vars
<1>6. QED BY <1>1, <1>2, <1>3, <1>4, <1>5 DEF Next

(* The loop implements the executor: what it accepted, from whichever      *)
(* thread, is executed one at a time, in that order and once.              *)
THEOREM LoopImplementsExecutor == Spec => SerialExecution
<1>1. Init => Executor!Init
  <2>1. <<>> \o <<>> = <<>>
    BY ConcatEmptySeq, EmptySeq
  <2>2. QED BY <2>1 DEF Init, Executor!Init
<1>2. TypeOK /\ PhaseInv /\ [Next]_vars => [Executor!Next]_(Executor!vars)
  BY StepRefines
<1>3. QED BY <1>1, <1>2, TypeCorrect, PTL DEF Spec, SerialExecution, Executor!Spec

===============================================================================
