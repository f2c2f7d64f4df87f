--------------------------- MODULE MCWorkThreadPool ---------------------------
(* WorkThreadPool with three workers, so that one may run, one wait and    *)
(* one be between its test and its wait, two producers and three tasks.    *)
EXTENDS WorkThreadPool

===============================================================================
