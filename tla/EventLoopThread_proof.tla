------------------------- MODULE EventLoopThread_proof -------------------------
(***************************************************************************)
(* Proofs about EventLoopThread.  Whatever its owner and the other threads *)
(* do, the loop in the thread is an EventLoop as EventLoop.tla specifies   *)
(* it, so what is proved there holds here.                                 *)
(***************************************************************************)
EXTENDS EventLoopThread, EventLoop_proof

(* A step of the thread, its owner or another thread is a step of the loop *)
(* or leaves the loop alone.                                               *)
LEMMA StepOfLoop == [ThreadNext]_<<vars, threadLoopVars>> => [Next]_vars
<1> SUFFICES ASSUME [ThreadNext]_<<vars, threadLoopVars>> PROVE [Next]_vars
  OBVIOUS
<1>1. CASE StartThread \/ BeginDestructor \/ SpuriousWakeup \/ AwaitLoop \/ Join
  BY <1>1 DEF StartThread, BeginDestructor, SpuriousWakeup, AwaitLoop, Join
<1>2. CASE CallQuit \/ QuitWakesUp
  BY <1>2, OwnerAssumption DEF CallQuit, QuitWakesUp, Next, ThreadStep
<1>3. CASE Publish \/ Leave \/ ExitThread
  BY <1>3 DEF Publish, Leave, ExitThread
<1>4. CASE InitCallback \/ RunLoop \/ AwaitEvents
  BY <1>4 DEF InitCallback, RunLoop, AwaitEvents, Next
<1>5. ASSUME NEW t \in Threads, UseLoop(t) PROVE [Next]_vars
  BY <1>5 DEF UseLoop, Next, ThreadStep
<1>6. CASE UNCHANGED <<vars, threadLoopVars>>
  BY <1>6
<1>7. QED
  BY <1>1, <1>2, <1>3, <1>4, <1>5, <1>6 DEF ThreadNext, OwnerStep

(* The loop of an EventLoopThread is an EventLoop. *)
THEOREM ThreadIsLoop == ThreadSpec => Spec
<1>1. ThreadInit => Init
  BY DEF ThreadInit
<1>2. QED BY <1>1, StepOfLoop, PTL DEF ThreadSpec, Spec

(* Every variable has its type, the loop's included. *)
THEOREM ThreadTypeCorrect == ThreadSpec => []ThreadTypeOK
<1> DEFINE Inv == opc \in OwnerPhase /\ ptr \in BOOLEAN
                  /\ life \in {"none", "init", "loop", "returning", "exited"}
                  /\ asked \in BOOLEAN
<1>1. ThreadInit => Inv
  BY DEF ThreadInit, OwnerPhase
<1>2. Inv /\ [ThreadNext]_<<vars, threadLoopVars>> => Inv'
  <2> SUFFICES ASSUME Inv, [ThreadNext]_<<vars, threadLoopVars>> PROVE Inv'
    OBVIOUS
  <2> USE DEF OwnerPhase
  <2>1. CASE StartThread \/ BeginDestructor \/ SpuriousWakeup \/ OwnerStep
    BY <2>1 DEF StartThread, BeginDestructor, SpuriousWakeup, OwnerStep, AwaitLoop,
                CallQuit, QuitWakesUp, Join
  <2>2. CASE Publish \/ Leave \/ ExitThread
    BY <2>2 DEF Publish, NotifyOwner, Leave, ExitThread
  <2>3. CASE InitCallback \/ RunLoop \/ AwaitEvents
    BY <2>3 DEF InitCallback, RunLoop, AwaitEvents, NoteQuit, threadLoopVars
  <2>4. ASSUME NEW t \in Threads, UseLoop(t) PROVE Inv'
    BY <2>4 DEF UseLoop, NoteQuit
  <2>5. CASE UNCHANGED <<vars, threadLoopVars>>
    BY <2>5 DEF threadLoopVars
  <2>6. QED
    BY <2>1, <2>2, <2>3, <2>4, <2>5 DEF ThreadNext
<1>3. Inv /\ TypeOK => ThreadTypeOK
  BY DEF ThreadTypeOK
<1>4. QED BY <1>1, <1>2, <1>3, ThreadIsLoop, TypeCorrect, PTL DEF ThreadSpec

(* So it loses no wake-up either, whoever starts it and destroys it. *)
THEOREM ThreadLosesNoWakeup == ThreadSpec => []NoLostWakeup
  BY ThreadIsLoop, NoWakeupIsLost, PTL

(* What the loop does to its phase and to quit_, by itself ... *)
LEMMA LoopEnds ==
  ASSUME LoopStep
  PROVE  /\ pc # "stopped"
         /\ pc' = "stopped" => quit'
         /\ quit' => quit
  BY DEF LoopStep, StartLoop, CheckQuit, HandleWakeup, CallbackReturns, HandleEvent,
         BeginPending, SwapPending, RunFunctor, FunctorReturns, EndPending

(* ... and what calls of it do, on its own thread or on another. *)
LEMMA CallsKeepPhase ==
  ASSUME SelfCall \/ \E t \in Threads : ThreadStep(t)
  PROVE  pc' = pc /\ (quit => quit')
  BY DEF SelfCall, SelfQuit, SelfQueueInLoop, ThreadStep, Wakeup, Quit, QueueInLoop

LEMMA WaitKeepsQuit ==
  ASSUME Wait
  PROVE  pc' # "stopped" /\ quit' = quit
  BY DEF Wait, PollNone, Poll

(* Who is where: startloop() returns a loop that is set up, and a loop     *)
(* that ended before the owner's quit() was asked to by somebody else.     *)
THEOREM HandshakeCorrect == ThreadSpec => []HandshakeInv
<1>1. ThreadInit => HandshakeInv
  BY DEF ThreadInit, Init, HandshakeInv, InitBeforeUse, DestructorIsSafe
<1>2. ThreadTypeOK /\ HandshakeInv /\ [ThreadNext]_<<vars, threadLoopVars>>
        => HandshakeInv'
  <2> SUFFICES ASSUME ThreadTypeOK, HandshakeInv, [ThreadNext]_<<vars, threadLoopVars>>
               PROVE  HandshakeInv'
    OBVIOUS
  <2> life \in {"none", "init", "loop", "returning", "exited"}
    BY DEF ThreadTypeOK
  <2> USE DEF HandshakeInv, InitBeforeUse, DestructorIsSafe
  <2>1. CASE StartThread \/ BeginDestructor \/ SpuriousWakeup
    BY <2>1 DEF StartThread, BeginDestructor, SpuriousWakeup, vars
  <2>2. CASE AwaitLoop
    BY <2>2 DEF AwaitLoop, vars
  <2>3. CASE CallQuit
    BY <2>3 DEF CallQuit, Quit, vars
  <2>4. CASE QuitWakesUp
    BY <2>4 DEF QuitWakesUp, Wakeup, vars
  <2>5. CASE Join
    BY <2>5 DEF Join, vars
  <2>6. CASE Publish
    BY <2>6 DEF Publish, NotifyOwner, vars
  <2>7. CASE Leave \/ ExitThread
    BY <2>7 DEF Leave, ExitThread, vars
  <2>8. CASE InitCallback
    BY <2>8, CallsKeepPhase DEF InitCallback, NoteQuit
  <2>9. CASE RunLoop
    <3>1. CASE LoopStep
      BY <2>9, <3>1, LoopEnds DEF RunLoop, NoteQuit
    <3>2. CASE SelfCall
      BY <2>9, <3>2, CallsKeepPhase DEF RunLoop, NoteQuit
    <3>3. QED BY <2>9, <3>1, <3>2 DEF RunLoop
  <2>10. CASE AwaitEvents
    BY <2>10, WaitKeepsQuit DEF AwaitEvents, threadLoopVars
  <2>11. ASSUME NEW t \in Threads, UseLoop(t) PROVE HandshakeInv'
    <3>1. ThreadStep(t) /\ life = "loop"
      BY <2>11 DEF UseLoop, ThreadStep
    <3>2. QED BY <2>11, <3>1, CallsKeepPhase DEF UseLoop, NoteQuit
  <2>12. CASE UNCHANGED <<vars, threadLoopVars>>
    BY <2>12 DEF vars, threadLoopVars
  <2>13. QED
    BY <2>1, <2>2, <2>3, <2>4, <2>5, <2>6, <2>7, <2>8, <2>9, <2>10, <2>11, <2>12
       DEF ThreadNext, OwnerStep
<1>3. QED BY <1>1, <1>2, ThreadTypeCorrect, PTL DEF ThreadSpec

(* Unless somebody else asks the loop to quit, the destructor neither      *)
(* calls a loop that is gone nor leaves the thread behind.                 *)
THEOREM DestructorSafe == ThreadSpec => []DestructorIsSafe
<1>1. HandshakeInv => DestructorIsSafe
  BY DEF HandshakeInv
<1>2. QED BY <1>1, HandshakeCorrect, PTL

(* No user of the loop that startloop() returned precedes its callback. *)
THEOREM CallbackBeforeUse == ThreadSpec => []InitBeforeUse
<1>1. HandshakeInv => InitBeforeUse
  BY DEF HandshakeInv
<1>2. QED BY <1>1, HandshakeCorrect, PTL

================================================================================
