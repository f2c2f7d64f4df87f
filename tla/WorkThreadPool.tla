---------------------------- MODULE WorkThreadPool ----------------------------
(***************************************************************************)
(* WorkThreadPool: worker threads that share a queue of tasks behind a     *)
(* mutex and a condition variable, the threads that add tasks, and the     *)
(* destructor.                                                             *)
(*                                                                         *)
(* A worker holds the mutex from lock to unlock over several steps, for    *)
(* stop_ is set and the condition notified by threads that do not hold it. *)
(* condition_.wait(lock, pred) is the loop it is defined as: test the      *)
(* predicate with the mutex held; if it is false release the mutex and     *)
(* begin to wait in one step; when woken take the mutex and test again.    *)
(***************************************************************************)
EXTENDS Naturals, Sequences, FiniteSets, Functions

CONSTANTS
  Workers,     \* threads_
  Producers,   \* threads that call addtask
  Tasks,       \* the tasks; each is added at most once
  None         \* the owner of a free mutex

ASSUME WorkersAssumption == Workers # {} /\ None \notin Workers

VARIABLES
  queue,       \* taskqueue_
  stop,        \* stop_
  mutex,       \* the worker that holds mutex_, or None
  wpc,         \* wpc[w]: where worker w is
  ppc,         \* ppc[p]: between calls, or about to notify
  dtor,        \* how far ~WorkThreadPool has come
  added,       \* history: tasks in the order of addtask
  started      \* history: tasks in the order workers took them

vars == <<queue, stop, mutex, wpc, ppc, dtor, added, started>>

(* A worker at "waiting" is in the condition's wait set; one at "woken"     *)
(* left it and needs the mutex again, as one at "lock" needs it at first.  *)
WorkerPhase ==
  {"top", "lock", "check", "block", "waiting", "woken", "take", "exec", "done"}

Init ==
  /\ queue = <<>>
  /\ stop = FALSE
  /\ mutex = None
  /\ wpc = [w \in Workers |-> "top"]
  /\ ppc = [p \in Producers |-> "idle"]
  /\ dtor = "alive"
  /\ added = <<>>
  /\ started = <<>>

Waiting == {w \in Workers : wpc[w] = "waiting"}

taskVars == <<queue, added, started>>
callVars == <<stop, ppc, dtor>>

-----------------------------------------------------------------------------
(* A worker.                                                               *)

(* while (stop_ == false) *)
Top(w) ==
  /\ wpc[w] = "top"
  /\ wpc' = [wpc EXCEPT ![w] = IF stop THEN "done" ELSE "lock"]
  /\ UNCHANGED <<mutex, taskVars, callVars>>

(* Faulty variant: wait() in an if and not in a loop. *)
Lock_NoRetest(w) ==
  /\ wpc[w] \in {"lock", "woken"}
  /\ mutex = None
  /\ mutex' = w
  /\ wpc' = [wpc EXCEPT ![w] = IF wpc[w] = "lock" THEN "check" ELSE "take"]
  /\ UNCHANGED <<taskVars, callVars>>

Lock(w) ==
  /\ wpc[w] \in {"lock", "woken"}
  /\ mutex = None
  /\ mutex' = w
  /\ wpc' = [wpc EXCEPT ![w] = "check"]
  /\ UNCHANGED <<taskVars, callVars>>

(* The predicate of condition_.wait. *)
Check(w) ==
  /\ wpc[w] = "check"
  /\ wpc' = [wpc EXCEPT ![w] = IF stop \/ queue # <<>> THEN "take" ELSE "block"]
  /\ UNCHANGED <<mutex, taskVars, callVars>>

(* wait() releases the mutex and joins the wait set. *)
Block(w) ==
  /\ wpc[w] = "block"
  /\ wpc' = [wpc EXCEPT ![w] = "waiting"]
  /\ mutex' = None
  /\ UNCHANGED <<taskVars, callVars>>

(* The standard lets wait() return for no reason. *)
SpuriousWakeup(w) ==
  /\ wpc[w] = "waiting"
  /\ wpc' = [wpc EXCEPT ![w] = "woken"]
  /\ UNCHANGED <<mutex, taskVars, callVars>>

(* Stopped with nothing left to do: return, releasing the mutex. *)
Return(w) ==
  /\ wpc[w] = "take"
  /\ stop /\ queue = <<>>
  /\ wpc' = [wpc EXCEPT ![w] = "done"]
  /\ mutex' = None
  /\ UNCHANGED <<taskVars, callVars>>

(* front() and pop(), then the end of the lock's scope. *)
Take(w) ==
  /\ wpc[w] = "take"
  /\ queue # <<>>
  /\ started' = Append(started, Head(queue))
  /\ queue' = Tail(queue)
  /\ wpc' = [wpc EXCEPT ![w] = "exec"]
  /\ mutex' = None
  /\ UNCHANGED <<added, callVars>>

(* task() returns. *)
Finish(w) ==
  /\ wpc[w] = "exec"
  /\ wpc' = [wpc EXCEPT ![w] = "top"]
  /\ UNCHANGED <<mutex, taskVars, callVars>>

-----------------------------------------------------------------------------
(* The threads that use the pool.                                          *)

(* addtask(t): push under the mutex.  The pool must still exist. *)
AddTask(p, t) ==
  /\ ppc[p] = "idle"
  /\ dtor # "joined"
  /\ mutex = None
  /\ t \notin Range(added)
  /\ queue' = Append(queue, t)
  /\ added' = Append(added, t)
  /\ ppc' = [ppc EXCEPT ![p] = "notify"]
  /\ UNCHANGED <<stop, mutex, wpc, dtor, started>>

(* Faulty variant: addtask forgets to notify. *)
NotifyOne_Forgotten(p) ==
  /\ ppc[p] = "notify"
  /\ ppc' = [ppc EXCEPT ![p] = "idle"]
  /\ UNCHANGED <<mutex, stop, wpc, dtor, taskVars>>

(* condition_.notify_one(), after the unlock: one waiting worker, if any. *)
NotifyOne(p) ==
  /\ ppc[p] = "notify"
  /\ ppc' = [ppc EXCEPT ![p] = "idle"]
  /\ \/ \E w \in Waiting : wpc' = [wpc EXCEPT ![w] = "woken"]
     \/ Waiting = {} /\ UNCHANGED wpc
  /\ UNCHANGED <<mutex, stop, dtor, taskVars>>

(* ~WorkThreadPool: stop_ = true, without the mutex. *)
SetStop ==
  /\ dtor = "alive"
  /\ stop' = TRUE
  /\ dtor' = "notify"
  /\ UNCHANGED <<mutex, wpc, ppc, taskVars>>

(* Faulty variant: the destructor wakes one worker only. *)
NotifyAll_One ==
  /\ dtor = "notify"
  /\ dtor' = "join"
  /\ \/ \E w \in Waiting : wpc' = [wpc EXCEPT ![w] = "woken"]
     \/ Waiting = {} /\ UNCHANGED wpc
  /\ UNCHANGED <<mutex, stop, ppc, taskVars>>

(* condition_.notify_all() *)
NotifyAll ==
  /\ dtor = "notify"
  /\ dtor' = "join"
  /\ wpc' = [w \in Workers |-> IF w \in Waiting THEN "woken" ELSE wpc[w]]
  /\ UNCHANGED <<mutex, stop, ppc, taskVars>>

(* The last join() returns: every worker left its loop. *)
Joined ==
  /\ dtor = "join"
  /\ \A w \in Workers : wpc[w] = "done"
  /\ dtor' = "joined"
  /\ UNCHANGED <<mutex, stop, wpc, ppc, taskVars>>

-----------------------------------------------------------------------------
WorkerStep(w) ==
  Top(w) \/ Lock(w) \/ Check(w) \/ Block(w) \/ Return(w) \/ Take(w) \/ Finish(w)

ProducerStep(p) == NotifyOne(p) \/ \E t \in Tasks : AddTask(p, t)

Destructor == SetStop \/ NotifyAll \/ Joined

Next ==
  \/ \E w \in Workers : WorkerStep(w) \/ SpuriousWakeup(w)
  \/ \E p \in Producers : ProducerStep(p)
  \/ Destructor

Spec == Init /\ [][Next]_vars

(* Threads run, tasks return, a call of addtask or of the destructor that  *)
(* began goes on, and a worker that keeps asking for a mutex that keeps    *)
(* being released gets it.  Nobody has to add a task or to destroy the     *)
(* pool, and no worker is ever woken without a notification.               *)
Fairness ==
  /\ \A w \in Workers : WF_vars(WorkerStep(w)) /\ SF_vars(Lock(w))
  /\ \A p \in Producers : WF_vars(NotifyOne(p))
  /\ WF_vars(NotifyAll) /\ WF_vars(Joined)

FairSpec == Spec /\ Fairness

-----------------------------------------------------------------------------
(* Properties.                                                             *)

TypeOK ==
  /\ queue \in Seq(Tasks)
  /\ stop \in BOOLEAN
  /\ mutex \in Workers \cup {None}
  /\ wpc \in [Workers -> WorkerPhase]
  /\ ppc \in [Producers -> {"idle", "notify"}]
  /\ dtor \in {"alive", "notify", "join", "joined"}
  /\ added \in Seq(Tasks)
  /\ started \in Seq(Tasks)
  /\ stop <=> dtor # "alive"

(* front() is never called on an empty queue: a worker past the wait finds *)
(* a task unless it is about to return.  About the predicate being tested  *)
(* again after every wake-up, when another worker may have come first.     *)
NoUnderflow ==
  \A w \in Workers : wpc[w] = "take" /\ queue = <<>> => stop

(* Tasks start in the order in which addtask accepted them, each once, and *)
(* none disappears: what was accepted has been started or is queued.       *)
StartedInOrder == added = started \o queue

(* No task is left to sleeping workers: while tasks are queued and the     *)
(* pool is not being destroyed, a worker is awake, or the thread that      *)
(* added one is about to notify.  About addtask notifying after it         *)
(* released the mutex.                                                     *)
NoTaskAbandoned ==
  queue # <<>> /\ ~stop =>
    (\E w \in Workers : wpc[w] # "waiting") \/ (\E p \in Producers : ppc[p] = "notify")

(* The inductive form: the mutex belongs to the one worker past lock, and  *)
(* a worker about to wait has seen the queue as it still is, empty.        *)
LockInv ==
  /\ \A w \in Workers :
       mutex = w <=> wpc[w] \in {"check", "block", "take"}
  /\ \A w \in Workers : wpc[w] = "block" => queue = <<>>
  /\ \A w \in Workers : wpc[w] = "done" => stop

(* A task handed to the pool is started, unless the pool is destroyed.     *)
QueuedTaskStarts ==
  \A t \in Tasks : t \in Range(added) ~> t \in Range(started) \/ stop

(* Once stop_ is set the destructor returns, unless a worker had found the *)
(* predicate false and had yet to begin its wait: notify_all reaches every *)
(* other worker.                                                           *)
JoinReturns ==
  dtor = "notify" /\ (\A w \in Workers : wpc[w] # "block") ~> dtor = "joined"

(* What the header says of stop_: once the destructor sets it, all threads *)
(* exit.                                                                   *)
StopEndsAllWorkers == stop ~> \A w \in Workers : wpc[w] = "done"

===============================================================================
