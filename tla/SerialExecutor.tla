---------------------------- MODULE SerialExecutor ----------------------------
(***************************************************************************)
(* What an EventLoop promises to those who hand it callbacks: callbacks    *)
(* are executed one at a time, each exactly once, in the order in which    *)
(* they were accepted.  The specification says nothing of threads, locks,  *)
(* the wake-up descriptor or the two vectors the implementation swaps.     *)
(*                                                                         *)
(* EventLoop.tla implements this specification; the modules of the         *)
(* connection life cycle use a loop through it.                            *)
(***************************************************************************)
EXTENDS Sequences, Functions

CONSTANT Functors    \* the callbacks, each submitted at most once

VARIABLES
  queue,             \* accepted and not yet completed, oldest first
  done               \* completed, in the order of completion

vars == <<queue, done>>

Init ==
  /\ queue = <<>>
  /\ done = <<>>

(* Accept a callback nobody submitted before. *)
Submit(f) ==
  /\ f \notin Range(queue) \cup Range(done)
  /\ queue' = Append(queue, f)
  /\ UNCHANGED done

(* Complete the oldest accepted callback. *)
Execute ==
  /\ queue # <<>>
  /\ done' = Append(done, Head(queue))
  /\ queue' = Tail(queue)

Next == Execute \/ \E f \in Functors : Submit(f)

Spec == Init /\ [][Next]_vars

===============================================================================
