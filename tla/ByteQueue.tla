------------------------------- MODULE ByteQueue -------------------------------
(* What a Buffer promises: bytes come out in the order in which they went  *)
(* in, each once.  It says nothing of indices, of moving or of growing.    *)
EXTENDS Naturals, Sequences

CONSTANT Byte

VARIABLES
  queue,     \* the bytes put and not yet taken
  given      \* what the caller put in the last step

vars == <<queue, given>>

Init == queue = <<>> /\ given = <<>>

(* All of what is given goes to the end ... *)
Put == given' \in Seq(Byte) /\ queue' = queue \o given'

(* ... and some bytes leave at the front. *)
Take ==
  /\ given' = <<>>
  /\ \E n \in 0 .. Len(queue) : queue' = SubSeq(queue, n + 1, Len(queue))

Spec == Init /\ [][Put \/ Take]_vars

================================================================================
