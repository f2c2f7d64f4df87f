------------------------------ MODULE ByteStream ------------------------------
(***************************************************************************)
(* What a Connection promises to the user's code: it is reported up once   *)
(* and down at most once; what is sent while it is up goes out in the      *)
(* order in which it was accepted, each unit once and none skipped; after  *)
(* down nothing is accepted or goes out any more.                          *)
(***************************************************************************)
EXTENDS Naturals, Sequences

CONSTANT Payload     \* the sequences of units one send may accept

VARIABLES
  phase,             \* what the user was told: "new", "up" or "down"
  accepted,          \* units accepted, in order
  sent               \* units handed to the network, in order

vars == <<phase, accepted, sent>>

IsPrefixOf(s, t) == Len(s) <= Len(t) /\ s = SubSeq(t, 1, Len(s))

Init == phase = "new" /\ accepted = <<>> /\ sent = <<>>

Open ==
  /\ phase = "new"
  /\ phase' = "up"
  /\ UNCHANGED <<accepted, sent>>

(* Some of what is accepted, possibly with something new, goes out. *)
Progress ==
  /\ phase = "up"
  /\ accepted' = accepted \/ \E p \in Payload : accepted' = accepted \o p
  /\ IsPrefixOf(sent, sent') /\ IsPrefixOf(sent', accepted')
  /\ UNCHANGED phase

Close ==
  /\ phase = "up"
  /\ phase' = "down"
  /\ UNCHANGED <<accepted, sent>>

Next == Open \/ Progress \/ Close

Spec == Init /\ [][Next]_vars

===============================================================================
