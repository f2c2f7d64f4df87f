---------------------------- MODULE ConnectionLives ----------------------------
(* What a TcpServer promises of its connections: each is accepted once,    *)
(* reported up and then down, and keeps its descriptor until it has been   *)
(* reported down.  Only when the server ends may a descriptor be closed    *)
(* without that.                                                           *)
CONSTANT Ids

VARIABLES
  phase,     \* phase[c]: "none", "kConnecting", "kConnected", "kDisconnected"
  open,      \* the connections whose descriptor is open
  ending     \* the server is being destroyed

vars == <<phase, open, ending>>

Init == phase = [c \in Ids |-> "none"] /\ open = {} /\ ending = FALSE

Moves(c, from, to) == phase[c] = from /\ phase'[c] = to

Stays(c) == phase'[c] = phase[c] /\ (c \in open' <=> c \in open)

(* On the main loop's own thread a connection is up at once. *)
Accepted(c) ==
  /\ c \notin open /\ c \in open'
  /\ Moves(c, "none", "kConnecting") \/ Moves(c, "none", "kConnected")

Reported(c) ==
  /\ c \in open
  /\ Moves(c, "kConnecting", "kConnected") \/ Moves(c, "kConnected", "kDisconnected")
  /\ c \in open' \/ phase'[c] = "kDisconnected"

Closed(c) ==
  /\ c \in open /\ c \notin open'
  /\ phase'[c] = phase[c]
  /\ phase[c] = "kDisconnected" \/ ending

Next ==
  /\ DOMAIN phase' = Ids
  /\ ending => ending'
  /\ \A c \in Ids : Stays(c) \/ Accepted(c) \/ Reported(c) \/ Closed(c)

Spec == Init /\ [][Next]_vars

================================================================================
