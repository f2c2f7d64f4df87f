------------------------------- MODULE EventLoop -------------------------------
(***************************************************************************)
(* One EventLoop: the reactor thread that runs loop(), and the threads     *)
(* that hand it callbacks or ask it to quit.                               *)
(*                                                                         *)
(* The loop thread polls, handles the active channels, then swaps the      *)
(* vector of pending functors under the mutex and runs what it took.       *)
(* Another thread pushes a functor under the mutex and, after unlocking,   *)
(* writes the wake-up eventfd: two steps, between which the loop runs.     *)
(*                                                                         *)
(* Abstractions.  A step is what a thread does between two accesses to     *)
(* state another thread reads: the mutex is held within one action only,   *)
(* so it is not a variable.  looping_ is written and never read.  A        *)
(* Timestamp carries nothing a property tells apart.  runInLoop called on  *)
(* the loop's thread calls the functor as part of the user code that calls *)
(* it; from another thread it is queueInLoop.                              *)
(***************************************************************************)
EXTENDS Naturals, Sequences, FiniteSets, Functions

CONSTANTS
  Threads,            \* threads, other than the loop's, that use the loop
  Functors,           \* the callbacks; each is queued at most once
  IoChannels,         \* registered channels other than wakeupChannel_
  WakeupChannel,      \* wakeupChannel_
  InitEventListSize,  \* kInitEventListSize, 16 in the code
  EventfdMax          \* where write() on the eventfd gives EAGAIN, 2^64 - 2

ASSUME ChannelAssumption == WakeupChannel \notin IoChannels /\ IsFiniteSet(IoChannels)
ASSUME SizeAssumption    == InitEventListSize \in Nat \ {0}
ASSUME EventfdAssumption == EventfdMax \in Nat \ {0}

VARIABLES
  pc,             \* where the loop's thread is
  quit,           \* quit_
  calling,        \* callingPendingFunctors_
  pending,        \* pendingFunctors_
  functors,       \* the vector doPendingFunctors swapped out, less what it ran
  active,         \* activeChannels_, less the channels already handled
  eventListSize,  \* events_.size() of the poller
  eventfd,        \* counter behind wakeupfd_
  tpc,            \* tpc[t]: between calls, or about to call wakeup()
  early,          \* history: queued by the loop's thread before loop()
  ran             \* history: functors completed, in order

vars == <<pc, quit, calling, pending, functors, active, eventListSize,
          eventfd, tpc, early, ran>>

threadVars == <<tpc>>
pollVars   == <<active, eventListSize>>
taskVars   == <<calling, pending, functors, ran, early>>

(* Phases of the loop's thread.  In the three phases of UserCode it runs   *)
(* code the library's user supplied: the thread-init callback, a channel's *)
(* callback, a functor.                                                    *)
UserCode == {"init", "callback", "functor"}
Phase    == UserCode \cup {"check", "poll", "events", "swap", "functors", "stopped"}

Init ==
  /\ pc = "init"
  /\ quit = FALSE
  /\ calling = FALSE
  /\ pending = <<>>
  /\ functors = <<>>
  /\ active = {}
  /\ eventListSize = InitEventListSize
  /\ eventfd = 0
  /\ tpc = [t \in Threads |-> "idle"]
  /\ early = {}
  /\ ran = <<>>

(* A functor no thread has queued yet. *)
Fresh(f) == f \notin Range(pending) \cup Range(functors) \cup Range(ran)

-----------------------------------------------------------------------------
(* Calls made by the other threads.                                        *)

(* write() of 1 to the non-blocking eventfd: EAGAIN, and no change, when   *)
(* the counter is at its maximum.                                          *)
WriteEventfd == eventfd' = IF eventfd < EventfdMax THEN eventfd + 1 ELSE eventfd

(* Faulty variant: queueInLoop tests only callingPendingFunctors_, and not *)
(* !isInLoopThread(), before it wakes the loop.                            *)
Wakeup_OnlyWhenCalling(t) ==
  /\ tpc[t] = "wakeup"
  /\ tpc' = [tpc EXCEPT ![t] = "idle"]
  /\ IF calling THEN WriteEventfd ELSE UNCHANGED eventfd
  /\ UNCHANGED <<pc, quit, taskVars, pollVars>>

(* wakeup(): the second half of queueInLoop and of quit. *)
Wakeup(t) ==
  /\ tpc[t] = "wakeup"
  /\ tpc' = [tpc EXCEPT ![t] = "idle"]
  /\ WriteEventfd
  /\ UNCHANGED <<pc, quit, taskVars, pollVars>>

(* queueInLoop up to the unlock; runInLoop from a thread not the loop's. *)
QueueInLoop(t, f) ==
  /\ tpc[t] = "idle"
  /\ Fresh(f)
  /\ pending' = Append(pending, f)
  /\ tpc' = [tpc EXCEPT ![t] = "wakeup"]
  /\ UNCHANGED <<pc, quit, calling, functors, ran, early, pollVars, eventfd>>

(* Faulty variant: quit() sets the flag and leaves the loop asleep. *)
Quit_NoWakeup(t) ==
  /\ tpc[t] = "idle"
  /\ quit' = TRUE
  /\ UNCHANGED <<pc, tpc, taskVars, pollVars, eventfd>>

(* quit() from a thread not the loop's, up to the call of wakeup(). *)
Quit(t) ==
  /\ tpc[t] = "idle"
  /\ quit' = TRUE
  /\ tpc' = [tpc EXCEPT ![t] = "wakeup"]
  /\ UNCHANGED <<pc, taskVars, pollVars, eventfd>>

-----------------------------------------------------------------------------
(* Calls made by user code on the loop's own thread.                       *)

(* Faulty variant: only other threads wake the loop. *)
SelfQueueInLoop_NoWakeup(f) ==
  /\ pc \in UserCode
  /\ Fresh(f)
  /\ pending' = Append(pending, f)
  /\ early' = IF pc = "init" THEN early \cup {f} ELSE early
  /\ UNCHANGED <<pc, quit, calling, functors, ran, threadVars, pollVars, eventfd>>

(* queueInLoop: the loop wakes itself only while it runs functors, for     *)
(* these run before the next poll and the new one does not.  Nobody but    *)
(* this thread reads pendingFunctors_, so push and wakeup are one step.    *)
SelfQueueInLoop(f) ==
  /\ pc \in UserCode
  /\ Fresh(f)
  /\ pending' = Append(pending, f)
  /\ early' = IF pc = "init" THEN early \cup {f} ELSE early
  /\ IF calling THEN WriteEventfd ELSE UNCHANGED eventfd
  /\ UNCHANGED <<pc, quit, calling, functors, ran, threadVars, pollVars>>

(* quit() on the loop's own thread: no wakeup. *)
SelfQuit ==
  /\ pc \in UserCode
  /\ quit' = TRUE
  /\ UNCHANGED <<pc, taskVars, threadVars, pollVars, eventfd>>

-----------------------------------------------------------------------------
(* The loop.                                                               *)

(* loop() begins: quit_ is reset, whatever it was. *)
StartLoop ==
  /\ pc = "init"
  /\ quit' = FALSE
  /\ pc' = "check"
  /\ UNCHANGED <<taskVars, threadVars, pollVars, eventfd>>

(* while (!quit_), and activeChannels_.clear() when the loop goes on. *)
CheckQuit ==
  /\ pc = "check"
  /\ pc' = IF quit THEN "stopped" ELSE "poll"
  /\ UNCHANGED <<quit, taskVars, threadVars, pollVars, eventfd>>

(* epoll_wait returns some descriptors.  wakeupfd_ is ready while its      *)
(* counter is positive; any io of the others may be.  At most              *)
(* events_.size() are reported, and a full array doubles for the next time.*)
Poll(io) ==
  LET ready == io \cup (IF eventfd > 0 THEN {WakeupChannel} ELSE {})
  IN /\ pc = "poll"
     /\ ready # {}
     /\ active' \in SUBSET ready
     /\ IF Cardinality(ready) < eventListSize
        THEN active' = ready /\ UNCHANGED eventListSize
        ELSE /\ Cardinality(active') = eventListSize
             /\ eventListSize' = 2 * eventListSize
     /\ pc' = "events"
     /\ UNCHANGED <<quit, taskVars, threadVars, eventfd>>

(* epoll_wait returns none: kPollTimeMs is over, or EINTR. *)
PollNone ==
  /\ pc = "poll"
  /\ eventfd = 0
  /\ active' = {}
  /\ pc' = "events"
  /\ UNCHANGED <<quit, taskVars, threadVars, eventListSize, eventfd>>

(* wakeupChannel_->handleEvent: handleRead() reads the counter to zero. *)
HandleWakeup ==
  /\ pc = "events"
  /\ WakeupChannel \in active
  /\ active' = active \ {WakeupChannel}
  /\ eventfd' = 0
  /\ UNCHANGED <<pc, quit, taskVars, threadVars, eventListSize>>

(* handleEvent of another channel enters its callback. *)
HandleEvent(c) ==
  /\ pc = "events"
  /\ c \in active
  /\ active' = active \ {c}
  /\ pc' = "callback"
  /\ UNCHANGED <<quit, taskVars, threadVars, eventListSize, eventfd>>

CallbackReturns ==
  /\ pc = "callback"
  /\ pc' = "events"
  /\ UNCHANGED <<quit, taskVars, threadVars, pollVars, eventfd>>

(* doPendingFunctors announces itself before it takes the mutex. *)
BeginPending ==
  /\ pc = "events"
  /\ active = {}
  /\ calling' = TRUE
  /\ pc' = "swap"
  /\ UNCHANGED <<quit, pending, functors, ran, early, threadVars, pollVars, eventfd>>

(* Faulty variant: the vector is copied and not swapped. *)
SwapPending_Copy ==
  /\ pc = "swap"
  /\ functors' = pending
  /\ pc' = "functors"
  /\ UNCHANGED <<quit, calling, pending, ran, early, threadVars, pollVars, eventfd>>

(* functors.swap(pendingFunctors_), under the mutex. *)
SwapPending ==
  /\ pc = "swap"
  /\ functors' = pending
  /\ pending' = <<>>
  /\ pc' = "functors"
  /\ UNCHANGED <<quit, calling, ran, early, threadVars, pollVars, eventfd>>

(* functor() is entered ... *)
RunFunctor ==
  /\ pc = "functors"
  /\ functors # <<>>
  /\ pc' = "functor"
  /\ UNCHANGED <<quit, taskVars, threadVars, pollVars, eventfd>>

(* ... and returns. *)
FunctorReturns ==
  /\ pc = "functor"
  /\ ran' = Append(ran, Head(functors))
  /\ functors' = Tail(functors)
  /\ pc' = "functors"
  /\ UNCHANGED <<quit, calling, pending, early, threadVars, pollVars, eventfd>>

(* The vector is exhausted: callingPendingFunctors_ = false. *)
EndPending ==
  /\ pc = "functors"
  /\ functors = <<>>
  /\ calling' = FALSE
  /\ pc' = "check"
  /\ UNCHANGED <<quit, pending, functors, ran, early, threadVars, pollVars, eventfd>>

-----------------------------------------------------------------------------
(* Steps the loop's thread takes without waiting for anything. *)
LoopStep ==
  \/ StartLoop \/ CheckQuit
  \/ HandleWakeup \/ CallbackReturns
  \/ \E c \in IoChannels : HandleEvent(c)
  \/ BeginPending \/ SwapPending \/ RunFunctor \/ FunctorReturns \/ EndPending

Wait == PollNone \/ \E io \in SUBSET IoChannels : Poll(io)

SelfCall == SelfQuit \/ \E f \in Functors : SelfQueueInLoop(f)

ThreadStep(t) == Wakeup(t) \/ Quit(t) \/ \E f \in Functors : QueueInLoop(t, f)

Next == LoopStep \/ Wait \/ SelfCall \/ \E t \in Threads : ThreadStep(t)

Spec == Init /\ [][Next]_vars

(* The scheduler runs the loop's thread and finishes a call of wakeup().   *)
(* epoll_wait returns when the eventfd is readable.  Nothing says that a   *)
(* socket is ever ready, that the ten-second timeout may be relied on, or  *)
(* that anybody calls the loop.                                            *)
Fairness ==
  /\ WF_vars(LoopStep)
  /\ WF_vars(eventfd > 0 /\ \E io \in SUBSET IoChannels : Poll(io))
  /\ \A t \in Threads : WF_vars(Wakeup(t))

FairSpec == Spec /\ Fairness

-----------------------------------------------------------------------------
(* Properties.                                                             *)

TypeOK ==
  /\ pc \in Phase
  /\ quit \in BOOLEAN
  /\ calling \in BOOLEAN
  /\ pending \in Seq(Functors)
  /\ functors \in Seq(Functors)
  /\ active \subseteq IoChannels \cup {WakeupChannel}
  /\ eventListSize \in Nat \ {0}
  /\ eventfd \in 0 .. EventfdMax
  /\ tpc \in [Threads -> {"idle", "wakeup"}]
  /\ early \subseteq Functors
  /\ ran \in Seq(Functors)

(* The eventfd is readable, or a thread is on its way to make it so. *)
WakeupPromised == eventfd > 0 \/ \E t \in Threads : tpc[t] = "wakeup"

(* A functor waits that was queued by another thread, or after loop()      *)
(* began.                                                                  *)
WorkWaits == \E i \in DOMAIN pending : pending[i] \notin early

(* The loop never sleeps on work: when its thread is in epoll_wait and a   *)
(* functor is pending, or quit() was called, the eventfd is readable or a  *)
(* thread is about to write it.  About queueInLoop's wake-up rule          *)
(* (!isInLoopThread() || callingPendingFunctors_) against the order poll,  *)
(* handleRead, swap.                                                       *)
NoLostWakeup == pc = "poll" /\ (WorkWaits \/ quit) => WakeupPromised

(* How the phase of the loop's thread, callingPendingFunctors_ and the     *)
(* vector doPendingFunctors works on belong together.                      *)
PhaseInv ==
  /\ calling <=> pc \in {"swap", "functors", "functor"}
  /\ pc = "functor" => functors # <<>>
  /\ pc \notin {"functors", "functor"} => functors = <<>>

(* The inductive form of NoLostWakeup: in every phase from which the loop  *)
(* reaches epoll_wait without swapping first, the promise already holds.   *)
WakeupInv ==
  /\ PhaseInv
  /\ pc \in {"init", "check", "poll", "functors", "functor"} /\ WorkWaits
       => WakeupPromised
  /\ pc = "poll" /\ quit => WakeupPromised

(* The loop executes what it accepted serially, in order and once. *)
Executor ==
  INSTANCE SerialExecutor WITH queue <- functors \o pending, done <- ran
SerialExecution == Executor!Spec

(* A functor queued by another thread, or by the loop's own once loop()    *)
(* began, is executed unless the loop stops.  No timeout of epoll_wait is  *)
(* needed for it.                                                          *)
QueuedFunctorRuns ==
  \A f \in Functors :
    f \in Range(pending) \ early ~> f \in Range(ran) \/ pc = "stopped"

(* A quit() that comes after loop() began ends the loop. *)
QuitStopsLoop == quit /\ pc # "init" ~> pc = "stopped"

===============================================================================
