------------------------- MODULE WorkThreadPool_proof -------------------------
(***************************************************************************)
(* Proofs about WorkThreadPool, for every non-empty set of workers and     *)
(* every set of producers and tasks.                                       *)
(***************************************************************************)
EXTENDS WorkThreadPool, SequenceTheorems, TLAPS

(* Every variable keeps its type. *)
LEMMA TypeStep == TypeOK /\ [Next]_vars => TypeOK'
<1> SUFFICES ASSUME TypeOK, [Next]_vars PROVE TypeOK'
  OBVIOUS
<1> USE DEF TypeOK, WorkerPhase, taskVars, callVars
<1>1. ASSUME NEW w \in Workers, WorkerStep(w) \/ SpuriousWakeup(w)
      PROVE  TypeOK'
  <2>1. CASE Top(w)  BY <2>1 DEF Top
  <2>2. CASE Lock(w)  BY <2>2 DEF Lock
  <2>3. CASE Check(w)  BY <2>3 DEF Check
  <2>4. CASE Block(w)  BY <2>4 DEF Block
  <2>5. CASE Return(w)  BY <2>5 DEF Return
  <2>6. CASE Take(w)
    <3>1. Head(queue) \in Tasks /\ Tail(queue) \in Seq(Tasks)
      BY <2>6, HeadTailProperties DEF Take
    <3>2. Append(started, Head(queue)) \in Seq(Tasks)
      BY <3>1, AppendProperties
    <3>3. QED BY <2>6, <3>1, <3>2 DEF Take
  <2>7. CASE Finish(w)  BY <2>7 DEF Finish
  <2>8. CASE SpuriousWakeup(w)  BY <2>8 DEF SpuriousWakeup
  <2>9. QED
    BY <1>1, <2>1, <2>2, <2>3, <2>4, <2>5, <2>6, <2>7, <2>8 DEF WorkerStep
<1>2. ASSUME NEW p \in Producers, ProducerStep(p)
      PROVE  TypeOK'
  <2>1. CASE NotifyOne(p)  BY <2>1 DEF NotifyOne, Waiting
  <2>2. ASSUME NEW t \in Tasks, AddTask(p, t)
        PROVE  TypeOK'
    <3>1. Append(queue, t) \in Seq(Tasks) /\ Append(added, t) \in Seq(Tasks)
      BY AppendProperties
    <3>2. QED BY <2>2, <3>1 DEF AddTask
  <2>3. QED BY <1>2, <2>1, <2>2 DEF ProducerStep
<1>3. CASE Destructor
  BY <1>3 DEF Destructor, SetStop, NotifyAll, Joined, Waiting
<1>4. CASE UNCHANGED vars  BY <1>4 DEF vars
<1>5. QED BY <1>1, <1>2, <1>3, <1>4 DEF Next

THEOREM TypeCorrect == Spec => []TypeOK
<1>1. Init => TypeOK
  <2>1. <<>> \in Seq(Tasks)
    OBVIOUS
  <2>2. QED BY <2>1 DEF Init, TypeOK, WorkerPhase
<1>2. QED BY <1>1, TypeStep, PTL DEF Spec

(* One worker at most is between lock and unlock, and what a worker about  *)
(* to wait has seen still holds.                                           *)
LEMMA LockStep ==
  ASSUME TypeOK, LockInv, [Next]_vars
  PROVE  LockInv'
<1> USE DEF TypeOK, LockInv, taskVars, callVars
<1>1. ASSUME NEW w \in Workers, WorkerStep(w) \/ SpuriousWakeup(w)
      PROVE  LockInv'
  <2>1. CASE Top(w)  BY <2>1 DEF Top
  <2>2. CASE Lock(w)  BY <2>2, WorkersAssumption DEF Lock
  <2>3. CASE Check(w)  BY <2>3 DEF Check
  <2>4. CASE Block(w)  BY <2>4, WorkersAssumption DEF Block
  <2>5. CASE Return(w)  BY <2>5, WorkersAssumption DEF Return
  <2>6. CASE Take(w)  BY <2>6, WorkersAssumption DEF Take
  <2>7. CASE Finish(w)  BY <2>7 DEF Finish
  <2>8. CASE SpuriousWakeup(w)  BY <2>8 DEF SpuriousWakeup
  <2>9. QED
    BY <1>1, <2>1, <2>2, <2>3, <2>4, <2>5, <2>6, <2>7, <2>8 DEF WorkerStep
<1>2. ASSUME NEW p \in Producers, ProducerStep(p)
      PROVE  LockInv'
  <2>1. CASE NotifyOne(p)  BY <2>1 DEF NotifyOne, Waiting
  <2>2. ASSUME NEW t \in Tasks, AddTask(p, t)
        PROVE  LockInv'
    BY <2>2, WorkersAssumption DEF AddTask
  <2>3. QED BY <1>2, <2>1, <2>2 DEF ProducerStep
<1>3. CASE Destructor
  <2>1. CASE SetStop  BY <2>1 DEF SetStop
  <2>2. CASE NotifyAll  BY <2>2 DEF NotifyAll, Waiting
  <2>3. CASE Joined  BY <2>3 DEF Joined
  <2>4. QED BY <1>3, <2>1, <2>2, <2>3 DEF Destructor
<1>4. CASE UNCHANGED vars  BY <1>4 DEF vars
<1>5. QED BY <1>1, <1>2, <1>3, <1>4 DEF Next

THEOREM LockCorrect == Spec => []LockInv
<1>1. Init => LockInv
  BY WorkersAssumption DEF Init, LockInv
<1>2. TypeOK /\ LockInv /\ [Next]_vars => LockInv'
  BY LockStep
<1>3. QED BY <1>1, <1>2, TypeCorrect, PTL DEF Spec

-----------------------------------------------------------------------------
(* The worker that takes the last task is the only one past the wait: the  *)
(* others hold no mutex and test the predicate again.                      *)
LEMMA UnderflowStep ==
  ASSUME TypeOK, LockInv, NoUnderflow, [Next]_vars
  PROVE  NoUnderflow'
<1> USE DEF TypeOK, NoUnderflow, taskVars, callVars
<1>1. ASSUME NEW w \in Workers, WorkerStep(w) \/ SpuriousWakeup(w)
      PROVE  NoUnderflow'
  <2>1. CASE Take(w)
    <3>1. \A v \in Workers \ {w} : wpc[v] # "take"
      BY <2>1 DEF Take, LockInv
    <3>2. QED BY <2>1, <3>1 DEF Take
  <2>2. CASE Top(w) \/ Lock(w) \/ Check(w) \/ Block(w)
    BY <2>2 DEF Top, Lock, Check, Block
  <2>3. CASE Return(w) \/ Finish(w) \/ SpuriousWakeup(w)
    BY <2>3 DEF Return, Finish, SpuriousWakeup
  <2>4. QED BY <1>1, <2>1, <2>2, <2>3 DEF WorkerStep
<1>2. ASSUME NEW p \in Producers, ProducerStep(p)
      PROVE  NoUnderflow'
  <2>1. CASE NotifyOne(p)  BY <2>1 DEF NotifyOne, Waiting
  <2>2. ASSUME NEW t \in Tasks, AddTask(p, t)
        PROVE  NoUnderflow'
    <3>1. queue' # <<>>
      BY <2>2, AppendProperties DEF AddTask
    <3>2. QED BY <3>1
  <2>3. QED BY <1>2, <2>1, <2>2 DEF ProducerStep
<1>3. CASE Destructor
  BY <1>3 DEF Destructor, SetStop, NotifyAll, Joined, Waiting
<1>4. CASE UNCHANGED vars  BY <1>4 DEF vars
<1>5. QED BY <1>1, <1>2, <1>3, <1>4 DEF Next

(* No worker pops an empty queue. *)
THEOREM QueueNeverUnderflows == Spec => []NoUnderflow
<1>1. Init => NoUnderflow
  BY DEF Init, NoUnderflow
<1>2. TypeOK /\ LockInv /\ NoUnderflow /\ [Next]_vars => NoUnderflow'
  BY UnderflowStep
<1>3. QED BY <1>1, <1>2, TypeCorrect, LockCorrect, PTL DEF Spec

(* A worker goes to sleep only on an empty queue, a push is followed by a  *)
(* notification, and a notification that wakes nobody finds a worker awake.*)
LEMMA AbandonedStep ==
  ASSUME TypeOK, LockInv, NoTaskAbandoned, [Next]_vars
  PROVE  NoTaskAbandoned'
<1> USE DEF TypeOK, NoTaskAbandoned, taskVars, callVars
<1>1. ASSUME NEW w \in Workers, WorkerStep(w) \/ SpuriousWakeup(w)
      PROVE  NoTaskAbandoned'
  <2>1. CASE Block(w)
    <3>1. queue' = <<>>
      BY <2>1 DEF Block, LockInv
    <3>2. QED BY <3>1
  <2>2. CASE wpc'[w] # "waiting"  BY <2>2
  <2>3. QED
    BY <1>1, <2>1, <2>2
    DEF WorkerStep, Top, Lock, Check, Return, Take, Finish, SpuriousWakeup
<1>2. ASSUME NEW p \in Producers, ProducerStep(p)
      PROVE  NoTaskAbandoned'
  <2>1. CASE NotifyOne(p)
    <3>1. CASE Waiting = {}
      <4>1. \E w \in Workers : wpc'[w] # "waiting"
        BY <2>1, <3>1, WorkersAssumption DEF NotifyOne, Waiting
      <4>2. QED BY <4>1
    <3>2. ASSUME NEW w \in Waiting, wpc' = [wpc EXCEPT ![w] = "woken"]
          PROVE  NoTaskAbandoned'
      BY <3>2 DEF Waiting
    <3>3. QED BY <2>1, <3>1, <3>2 DEF NotifyOne
  <2>2. ASSUME NEW t \in Tasks, AddTask(p, t)
        PROVE  NoTaskAbandoned'
    BY <2>2 DEF AddTask
  <2>3. QED BY <1>2, <2>1, <2>2 DEF ProducerStep
<1>3. CASE Destructor
  BY <1>3 DEF Destructor, SetStop, NotifyAll, Joined, Waiting, LockInv
<1>4. CASE UNCHANGED vars  BY <1>4 DEF vars
<1>5. QED BY <1>1, <1>2, <1>3, <1>4 DEF Next

(* Queued tasks are never left to sleeping workers. *)
THEOREM NoTaskIsAbandoned == Spec => []NoTaskAbandoned
<1>1. Init => NoTaskAbandoned
  BY DEF Init, NoTaskAbandoned
<1>2. TypeOK /\ LockInv /\ NoTaskAbandoned /\ [Next]_vars => NoTaskAbandoned'
  BY AbandonedStep
<1>3. QED BY <1>1, <1>2, TypeCorrect, LockCorrect, PTL DEF Spec

-----------------------------------------------------------------------------
(* Workers pop from the front, under the mutex, what addtask pushed at the *)
(* back: the tasks started and those queued make up the tasks accepted.    *)
LEMMA OrderStep ==
  ASSUME TypeOK, StartedInOrder, [Next]_vars
  PROVE  StartedInOrder'
<1> USE DEF TypeOK, StartedInOrder, taskVars, callVars
<1>1. ASSUME NEW w \in Workers, Take(w)
      PROVE  StartedInOrder'
  <2> DEFINE h == Head(queue)
  <2>1. queue # <<>> /\ queue' = Tail(queue) /\ started' = Append(started, h)
        /\ added' = added
    BY <1>1 DEF Take
  <2>2. h \in Tasks /\ Tail(queue) \in Seq(Tasks) /\ <<h>> \in Seq(Tasks)
    BY <2>1, HeadTailProperties
  <2>3. queue = <<h>> \o Tail(queue)
    <3>1. <<h>> \o Tail(queue) \in Seq(Tasks)
          /\ Len(<<h>> \o Tail(queue)) = 1 + Len(Tail(queue))
      BY <2>2, ConcatProperties
    <3>2. Len(Tail(queue)) = Len(queue) - 1 /\ Len(queue) \in Nat
      BY <2>1, HeadTailProperties, LenProperties
    <3>3. ASSUME NEW i \in 1 .. Len(queue)
          PROVE  queue[i] = (<<h>> \o Tail(queue))[i]
      <4>1. (<<h>> \o Tail(queue))[i] = IF i <= 1 THEN <<h>>[i] ELSE Tail(queue)[i - 1]
        BY <2>2, <3>2, ConcatProperties
      <4>2. i > 1 => Tail(queue)[i - 1] = queue[i]
        BY <2>1, <3>2, HeadTailProperties
      <4>3. i = 1 => <<h>>[i] = queue[i]
        BY <2>1
      <4>4. QED BY <3>2, <4>1, <4>2, <4>3
    <3>4. QED BY <3>1, <3>2, <3>3, SeqEqual
  <2>4. Append(started, h) = started \o <<h>>
    BY <2>2, AppendIsConcat
  <2>5. (started \o <<h>>) \o Tail(queue) = started \o (<<h>> \o Tail(queue))
    BY <2>2, ConcatAssociative
  <2>6. QED BY <2>1, <2>3, <2>4, <2>5
<1>2. ASSUME NEW p \in Producers, NEW t \in Tasks, AddTask(p, t)
      PROVE  StartedInOrder'
  <2>1. Append(queue, t) = queue \o <<t>> /\ <<t>> \in Seq(Tasks)
    BY AppendIsConcat
  <2>2. Append(added, t) = added \o <<t>>
    BY AppendIsConcat
  <2>3. (started \o queue) \o <<t>> = started \o (queue \o <<t>>)
    BY <2>1, ConcatAssociative
  <2>4. QED BY <1>2, <2>1, <2>2, <2>3 DEF AddTask
<1>3. CASE UNCHANGED <<queue, added, started>>  BY <1>3
<1>4. QED
  BY <1>1, <1>2, <1>3
  DEF Next, WorkerStep, ProducerStep, Destructor, Top, Lock, Check, Block, Return,
      Finish, SpuriousWakeup, NotifyOne, SetStop, NotifyAll, Joined, vars

(* Tasks start in the order of addtask, each once, and none disappears. *)
THEOREM TasksStartInOrder == Spec => []StartedInOrder
<1>1. Init => StartedInOrder
  <2>1. <<>> \o <<>> = <<>>
    BY ConcatEmptySeq, EmptySeq
  <2>2. QED BY <2>1 DEF Init, StartedInOrder
<1>2. TypeOK /\ StartedInOrder /\ [Next]_vars => StartedInOrder'
  BY OrderStep
<1>3. QED BY <1>1, <1>2, TypeCorrect, PTL DEF Spec

===============================================================================
