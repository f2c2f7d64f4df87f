------------------------------ MODULE MCTcpServer ------------------------------
(* A server with no worker thread or two, three peers, and descriptors for *)
(* two connections at once, or one less: descriptor 0 may be free, and is  *)
(* then lost to the first peer.                                            *)
EXTENDS TcpServer

================================================================================
