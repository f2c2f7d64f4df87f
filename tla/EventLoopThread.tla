---------------------------- MODULE EventLoopThread ----------------------------
(***************************************************************************)
(* EventLoopThread: a thread with an EventLoop on its stack, and the owner *)
(* that starts it, gets the address of the loop from it, and in its        *)
(* destructor asks the loop to quit and joins the thread.  Other threads   *)
(* use the loop once startloop() returned it.                              *)
(*                                                                         *)
(* The loop is EventLoop, whose actions are used as they are.  mutex_ is   *)
(* held within one action, save by the owner in cond_.wait, which releases *)
(* it.  The destructor reads loop_ without the mutex.                      *)
(*                                                                         *)
(* Other threads are assumed to use the loop only while it exists.  Of the *)
(* owner that is not assumed: its call of a loop that is gone is a fault,  *)
(* or, when quit() finds it gone before its wakeup(), it is late; after    *)
(* either its thread does nothing.                                         *)
(***************************************************************************)
EXTENDS EventLoop

CONSTANT Owner     \* the thread that owns the EventLoopThread

ASSUME OwnerAssumption == Owner \in Threads

VARIABLES
  opc,      \* how far the owner is in startloop and the destructor
  ptr,      \* loop_ is not null
  life,     \* the thread: none, in the thread-init callback, in loop(),
            \* returning from threadFunc, exited (the loop is destroyed)
  asked     \* history: quit_ is true and it was not the owner who made it so

threadLoopVars == <<opc, ptr, life, asked>>

OwnerPhase == {"new", "lock", "waiting", "woken", "started", "quit", "wakeup",
               "join", "gone", "late", "fault"}

ThreadInit ==
  /\ Init
  /\ opc = "new"
  /\ ptr = FALSE
  /\ life = "none"
  /\ asked = FALSE

(* What a step of anybody but the owner does to that history. *)
NoteQuit == asked' = (quit' /\ (asked \/ ~quit))

-----------------------------------------------------------------------------
(* The owner.                                                              *)

(* startloop: thread_.start() returns when the thread runs. *)
StartThread ==
  /\ opc = "new"
  /\ opc' = "lock"
  /\ life' = "init"
  /\ UNCHANGED <<ptr, asked, vars>>

(* Faulty variant: the wait is not in a loop, and not after a test. *)
AwaitLoop_NoTest ==
  /\ opc \in {"lock", "woken"}
  /\ opc' = IF opc = "woken" THEN "started" ELSE "waiting"
  /\ UNCHANGED <<ptr, life, asked, vars>>

(* while (loop_ == nullptr) cond_.wait(gd) *)
AwaitLoop ==
  /\ opc \in {"lock", "woken"}
  /\ opc' = IF ptr THEN "started" ELSE "waiting"
  /\ UNCHANGED <<ptr, life, asked, vars>>

(* cond_.wait may return for no reason. *)
SpuriousWakeup ==
  /\ opc = "waiting"
  /\ opc' = "woken"
  /\ UNCHANGED <<ptr, life, asked, vars>>

(* ~EventLoopThread: with no loop there is nothing to quit or to join. *)
BeginDestructor ==
  /\ opc = "started"
  /\ opc' = IF ptr THEN "quit" ELSE "gone"
  /\ UNCHANGED <<ptr, life, asked, vars>>

(* loop_->quit(), up to its call of wakeup().  loop_ is read again: null,  *)
(* or the loop when the compiler kept what it had read before.             *)
CallQuit ==
  /\ opc = "quit"
  /\ \/ /\ ptr \/ life = "returning"
        /\ opc' = "wakeup"
        /\ Quit(Owner)
     \/ /\ ~ptr
        /\ opc' = "fault"
        /\ UNCHANGED vars
  /\ UNCHANGED <<ptr, life, asked>>

(* Faulty variant: the destructor does not join. *)
QuitWakesUp_NoJoin ==
  /\ opc = "wakeup"
  /\ IF life = "exited"
     THEN opc' = "late" /\ UNCHANGED vars
     ELSE opc' = "gone" /\ Wakeup(Owner)
  /\ UNCHANGED <<ptr, life, asked>>

(* ... and wakeup(), for which the loop, once it saw the flag, need not    *)
(* wait.                                                                   *)
QuitWakesUp ==
  /\ opc = "wakeup"
  /\ IF life = "exited"
     THEN opc' = "late" /\ UNCHANGED vars
     ELSE opc' = "join" /\ Wakeup(Owner)
  /\ UNCHANGED <<ptr, life, asked>>

Join ==
  /\ opc = "join" /\ life = "exited"
  /\ opc' = "gone"
  /\ UNCHANGED <<ptr, life, asked, vars>>

-----------------------------------------------------------------------------
(* threadFunc.                                                             *)

(* cond_.notify_one() wakes the owner if it waits. *)
NotifyOwner == opc' = IF opc = "waiting" THEN "woken" ELSE opc

(* Faulty variant: the owner is not notified. *)
Publish_NoNotify ==
  /\ life = "init"
  /\ life' = "loop"
  /\ ptr' = TRUE
  /\ UNCHANGED <<opc, asked, vars>>

(* The thread-init callback returned: loop_ = &loop, notify, enter loop(). *)
Publish ==
  /\ life = "init"
  /\ life' = "loop"
  /\ ptr' = TRUE
  /\ NotifyOwner
  /\ UNCHANGED <<asked, vars>>

(* What the thread does in the callback, and in loop(). *)
InitCallback ==
  /\ life = "init" /\ SelfCall
  /\ NoteQuit
  /\ UNCHANGED <<opc, ptr, life>>

RunLoop ==
  /\ life = "loop"
  /\ LoopStep \/ (SelfCall /\ pc # "init")
  /\ NoteQuit
  /\ UNCHANGED <<opc, ptr, life>>

AwaitEvents ==
  /\ life = "loop" /\ Wait
  /\ UNCHANGED threadLoopVars

(* loop() returned: loop_ = nullptr, under the mutex. *)
Leave ==
  /\ life = "loop" /\ pc = "stopped"
  /\ life' = "returning"
  /\ ptr' = FALSE
  /\ UNCHANGED <<opc, asked, vars>>

(* threadFunc returns and destroys the loop. *)
ExitThread ==
  /\ life = "returning"
  /\ life' = "exited"
  /\ UNCHANGED <<opc, ptr, asked, vars>>

(* Another thread that was given the loop uses it while the owner lives,   *)
(* or finishes the call it is in.                                          *)
UseLoop(t) ==
  /\ t # Owner
  /\ \/ opc = "started" /\ life = "loop" /\ ThreadStep(t)
     \/ life = "loop" /\ Wakeup(t)
  /\ NoteQuit
  /\ UNCHANGED <<opc, ptr, life>>

-----------------------------------------------------------------------------
OwnerStep == AwaitLoop \/ CallQuit \/ QuitWakesUp \/ Join

ThreadNext ==
  \/ StartThread \/ BeginDestructor \/ SpuriousWakeup \/ OwnerStep
  \/ InitCallback \/ Publish \/ RunLoop \/ AwaitEvents \/ Leave \/ ExitThread
  \/ \E t \in Threads : UseLoop(t)

ThreadSpec == ThreadInit /\ [][ThreadNext]_<<vars, threadLoopVars>>

(* The two threads run, in the owner's calls and in threadFunc, the        *)
(* thread-init callback and the loop's callbacks return, and epoll_wait    *)
(* reports the eventfd.  Nobody has to create or destroy the object.       *)
ThreadFairness ==
  /\ WF_<<vars, threadLoopVars>>(OwnerStep)
  /\ WF_<<vars, threadLoopVars>>(Publish \/ Leave \/ ExitThread)
  /\ WF_<<vars, threadLoopVars>>(RunLoop /\ LoopStep)
  /\ WF_<<vars, threadLoopVars>>(eventfd > 0 /\ AwaitEvents)
  /\ \A t \in Threads : WF_<<vars, threadLoopVars>>(UseLoop(t) /\ Wakeup(t))

ThreadFairSpec == ThreadSpec /\ ThreadFairness

-----------------------------------------------------------------------------
(* Properties.                                                             *)

ThreadTypeOK ==
  /\ TypeOK
  /\ opc \in OwnerPhase
  /\ ptr \in BOOLEAN
  /\ life \in {"none", "init", "loop", "returning", "exited"}
  /\ asked \in BOOLEAN

(* startloop() returns only after the thread-init callback: no user of the *)
(* loop gets in before it is set up.  About the wait in startloop against  *)
(* the place where threadFunc sets loop_ and notifies.                     *)
InitBeforeUse ==
  opc \notin {"new", "lock", "waiting", "woken"} => life \notin {"none", "init"}

(* As long as nobody but the owner asks the loop to quit, its destructor   *)
(* is safe although it reads loop_ twice and without the mutex: it never   *)
(* calls a loop that is gone, and the object, whose mutex_ threadFunc      *)
(* takes at its end, goes only after the thread.  Somebody else's quit()   *)
(* breaks both: loop_ may be null or dangle at the call, and a destructor  *)
(* that finds it null does not join.                                       *)
DestructorIsSafe ==
  /\ opc = "fault" => asked
  /\ opc = "gone" /\ life # "exited" => asked

(* The inductive form of the two: which loop there is at each step of the  *)
(* owner, that a loop ends only when quit_ is true, and who made it so.    *)
HandshakeInv ==
  /\ opc = "new" <=> life = "none"
  /\ ptr <=> life = "loop"
  /\ InitBeforeUse
  /\ opc \in {"gone", "fault"} => life \in {"returning", "exited"}
  /\ life \in {"returning", "exited"} => pc = "stopped"
  /\ pc = "stopped" => quit
  /\ asked => quit
  /\ quit /\ opc \notin {"wakeup", "join", "gone", "late"} => asked
  /\ DestructorIsSafe

(* startloop() returns, unless the loop ended before it could see it.      *)
StartReturns ==
  opc = "lock" ~> opc = "started" \/ life \in {"returning", "exited"}

(* What the header says of quit(), which the destructor relies on before   *)
(* it joins: the loop exits, whenever it was asked to.                     *)
QuitEndsLoop == opc = "quit" ~> life = "exited"

===============================================================================
