------------------------------- MODULE MCAsyncLog -------------------------------
(* Two threads that may both find no instance, and three messages.         *)
EXTENDS AsyncLog

===============================================================================
