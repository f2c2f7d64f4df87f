---------------------------- MODULE MCAsynclogging ----------------------------
(* Asynclogging with buffers of four bytes and messages of one or three:   *)
(* a buffer takes one or two messages and is left with one byte or none    *)
(* to spare, and six messages make more than the two buffers that are kept.*)
EXTENDS Asynclogging

===============================================================================
