-------------------------------- MODULE MCBuffer --------------------------------
(* Buffer with a prefix of one byte and room for three, and calls that     *)
(* bring up to four: a call fits, makes the readable bytes move, makes the *)
(* vector grow, or overflows into an extrabuf of two.                      *)
EXTENDS Buffer

================================================================================
