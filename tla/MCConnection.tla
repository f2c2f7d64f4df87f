----------------------------- MODULE MCConnection -----------------------------
(* Connection on small instances: what each run lets the user call is in   *)
(* its configuration.  The workers, and the messages, are interchangeable  *)
(* in the run that checks safety only.                                     *)
EXTENDS Connection, TLC

Symmetry == Permutations(Workers) \cup Permutations(Messages)

===============================================================================
