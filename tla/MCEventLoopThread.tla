--------------------------- MODULE MCEventLoopThread ---------------------------
(* EventLoopThread with its owner, two more threads that use the loop,     *)
(* three functors and one socket.  The epoll array starts at one entry, so *)
(* that it is too short for what is ready; the eventfd counts to two, so   *)
(* that it overflows.                                                      *)
EXTENDS EventLoopThread

================================================================================
