-------------------------------- MODULE AsyncLog --------------------------------
(***************************************************************************)
(* AsyncLog: threads that log make the one instance when they need it,     *)
(* push messages under mutex_ and notify; a writer thread takes one at a   *)
(* time and writes it, without the mutex, to the file that open() opened   *)
(* or to cerr; the destructor lets it drain the queue and joins it.        *)
(*                                                                         *)
(* Both mutexes are held within one action; the writer's wait releases its *)
(* own.  instance_ is read without one, but no thread sees it before the   *)
(* constructor is done: the call in it that starts a thread is opaque to   *)
(* the compiler.  Whether a message passes the level is left open, for     *)
(* level() may change it at any time.  The owner is assumed to destroy the *)
(* log when nobody uses it.                                                *)
(***************************************************************************)
EXTENDS Naturals, Sequences, Functions

CONSTANTS
  Threads,       \* threads that log
  Messages       \* each pushed at most once

VARIABLES
  tpc,           \* tpc[t]: where a thread is in log()
  said,          \* said[t]: the message of its call, as a sequence of one
  instances,     \* how often the constructor ran
  queue,         \* LogQueue_
  exit,          \* exit_
  wpc,           \* where the writer is
  hand,          \* the message it took, as a sequence of one
  file,          \* fout_: closed, open, or open with failbit set
  owner,         \* how far the destructor is
  pushed,        \* history: what entered the queue, in order,
  written,       \* ... and left it, each with where to
  meddled        \* history: close(), or open() of an open file, was called

logVars   == <<tpc, said, instances>>
ownerVars == <<exit, owner>>
fileVars  == <<file, meddled>>
vars == <<logVars, queue, pushed, ownerVars, wpc, hand, written, fileVars>>

Init ==
  /\ tpc = [t \in Threads |-> "idle"] /\ said = [t \in Threads |-> <<>>]
  /\ instances = 0
  /\ queue = <<>> /\ pushed = <<>>
  /\ exit = FALSE /\ owner = "using"
  /\ wpc = "none" /\ hand = <<>> /\ written = <<>>
  /\ file = "closed" /\ meddled = FALSE

-----------------------------------------------------------------------------
(* The threads that log.                                                   *)

Goes(t, from, to) == tpc[t] = from /\ tpc' = [tpc EXCEPT ![t] = to]

(* LOG(m): instance() tests instance_ without the mutex. *)
StartLog(t, m) ==
  /\ owner = "using"
  /\ \A u \in Threads : m \notin Range(said[u])
  /\ m \notin Range(pushed)
  /\ Goes(t, "idle", IF instances > 0 THEN "log" ELSE "lock")
  /\ said' = [said EXCEPT ![t] = <<m>>]
  /\ UNCHANGED <<instances, queue, pushed, ownerVars, wpc, hand, written, fileVars>>

(* Faulty variant: instance_ is not tested again under the mutex. *)
MakeInstance_NoRetest(t) ==
  /\ Goes(t, "lock", "log")
  /\ instances' = instances + 1 /\ wpc' = "top"
  /\ UNCHANGED <<said, queue, pushed, ownerVars, hand, written, fileVars>>

(* ... and again with it; the constructor starts the writer. *)
MakeInstance(t) ==
  /\ Goes(t, "lock", "log")
  /\ IF instances = 0
     THEN instances' = 1 /\ wpc' = "top"
     ELSE UNCHANGED <<instances, wpc>>
  /\ UNCHANGED <<said, queue, pushed, ownerVars, hand, written, fileVars>>

(* log(): below the level, or pushed. *)
Discard(t) ==
  /\ Goes(t, "log", "idle")
  /\ said' = [said EXCEPT ![t] = <<>>]
  /\ UNCHANGED <<instances, queue, pushed, ownerVars, wpc, hand, written, fileVars>>

Push(t) ==
  /\ Goes(t, "log", "notify")
  /\ queue' = queue \o said[t]
  /\ pushed' = pushed \o said[t]
  /\ said' = [said EXCEPT ![t] = <<>>]
  /\ UNCHANGED <<instances, ownerVars, wpc, hand, written, fileVars>>

WakeWriter == wpc' = IF wpc = "waiting" THEN "woken" ELSE wpc

(* notify_one, after the unlock. *)
Notify(t) ==
  /\ Goes(t, "notify", "idle")
  /\ WakeWriter
  /\ UNCHANGED <<said, instances, queue, pushed, ownerVars, hand, written, fileVars>>

-----------------------------------------------------------------------------
(* open() and close(), from any thread.                                    *)

(* open() of an open stream fails: it throws, and leaves failbit set. *)
Open ==
  /\ owner = "using" /\ instances > 0
  /\ file' = IF file = "closed" THEN "open" ELSE "failed"
  /\ meddled' = (meddled \/ file # "closed")
  /\ UNCHANGED <<logVars, queue, pushed, ownerVars, wpc, hand, written>>

Close ==
  /\ owner = "using" /\ file # "closed"
  /\ file' = "closed"
  /\ meddled' = TRUE
  /\ UNCHANGED <<logVars, queue, pushed, ownerVars, wpc, hand, written>>

-----------------------------------------------------------------------------
(* The writer: asyncWrite.                                                 *)

(* Faulty variant: a writer told to exit does not look at the queue. *)
Take_ExitFirst ==
  /\ wpc \in {"top", "woken"}
  /\ IF exit THEN wpc' = "ended" /\ UNCHANGED <<queue, hand>>
     ELSE IF queue = <<>> THEN wpc' = "waiting" /\ UNCHANGED <<queue, hand>>
     ELSE wpc' = "taken" /\ hand' = <<Head(queue)>> /\ queue' = Tail(queue)
  /\ UNCHANGED <<logVars, pushed, ownerVars, written, fileVars>>

(* Under the mutex: wait until there is a message or an exit, leave on an  *)
(* exit with nothing to write, take the first message.                     *)
Take ==
  /\ wpc \in {"top", "woken"}
  /\ IF queue # <<>>
     THEN wpc' = "taken" /\ hand' = <<Head(queue)>> /\ queue' = Tail(queue)
     ELSE wpc' = (IF exit THEN "ended" ELSE "waiting") /\ UNCHANGED <<queue, hand>>
  /\ UNCHANGED <<logVars, pushed, ownerVars, written, fileVars>>

SpuriousWakeup ==
  /\ wpc = "waiting" /\ wpc' = "woken"
  /\ UNCHANGED <<logVars, queue, pushed, ownerVars, hand, written, fileVars>>

(* is_open() ... *)
ChooseStream ==
  /\ wpc = "taken"
  /\ wpc' = IF file = "closed" THEN "to cerr" ELSE "to file"
  /\ UNCHANGED <<logVars, queue, pushed, ownerVars, hand, written, fileVars>>

(* ... and <<, to a stream that another thread may have closed meanwhile.  *)
Write ==
  /\ wpc \in {"to cerr", "to file"}
  /\ wpc' = "top"
  /\ written' = Append(written,
       [msg |-> Head(hand),
        to |-> CASE wpc = "to cerr" -> "cerr"
                 [] wpc = "to file" /\ file = "open" -> "file"
                 [] OTHER -> "nowhere"])
  /\ hand' = <<>>
  /\ UNCHANGED <<logVars, queue, pushed, ownerVars, fileVars>>

-----------------------------------------------------------------------------
(* The destructor.                                                         *)

(* exit_ is set under the mutex: never between the writer's test and wait. *)
SetExit ==
  /\ owner = "using" /\ instances > 0 /\ \A t \in Threads : tpc[t] = "idle"
  /\ owner' = "notifying" /\ exit' = TRUE
  /\ UNCHANGED <<logVars, queue, pushed, wpc, hand, written, fileVars>>

(* Faulty variant: the writer is not notified. *)
NotifyAll_Forgotten ==
  /\ owner = "notifying" /\ owner' = "joining"
  /\ UNCHANGED <<logVars, queue, pushed, exit, wpc, hand, written, fileVars>>

NotifyAll ==
  /\ owner = "notifying" /\ owner' = "joining"
  /\ WakeWriter
  /\ UNCHANGED <<logVars, queue, pushed, exit, hand, written, fileVars>>

(* join(), and close(). *)
Join ==
  /\ owner = "joining" /\ wpc = "ended" /\ owner' = "gone"
  /\ file' = "closed"
  /\ UNCHANGED <<logVars, queue, pushed, exit, wpc, hand, written, meddled>>

-----------------------------------------------------------------------------
Log(t) == MakeInstance(t) \/ Discard(t) \/ Push(t) \/ Notify(t)

WriterStep == Take \/ ChooseStream \/ Write

Next ==
  \/ \E t \in Threads : Log(t) \/ \E m \in Messages : StartLog(t, m)
  \/ Open \/ Close
  \/ WriterStep \/ SpuriousWakeup
  \/ SetExit \/ NotifyAll \/ Join

Spec == Init /\ [][Next]_vars

(* Threads finish a call of log(), the writer and the destructor run.      *)
(* Nobody has to log, or to destroy the log.                               *)
Fairness ==
  /\ \A t \in Threads : WF_vars(Log(t))
  /\ WF_vars(WriterStep)
  /\ WF_vars(NotifyAll \/ Join)

FairSpec == Spec /\ Fairness

-----------------------------------------------------------------------------
(* Properties.                                                             *)

(* However many threads log first at once, instance() makes one log.       *)
OneInstance == instances <= 1

Out == [i \in DOMAIN written |-> written[i].msg]

(* What was pushed leaves in the order it was pushed, and when the         *)
(* destructor returns it has left: exit_ does not overtake the queue.      *)
(* A message goes nowhere only when another thread closed the file, or     *)
(* opened it again: the writer uses fout_ without mutex_.                  *)
AllIsWritten ==
  /\ Out \o hand \o queue = pushed
  /\ owner = "gone" => Out = pushed
  /\ \A i \in DOMAIN written : written[i].to = "nowhere" => meddled

(* Every message pushed is written, although nobody holds the mutex while  *)
(* notifying, and the destructor returns.                                  *)
LogDrains ==
  /\ \A m \in Messages : m \in Range(pushed) ~> m \in Range(Out)
  /\ owner = "notifying" ~> owner = "gone"

===============================================================================
