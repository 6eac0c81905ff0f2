---------------------------- MODULE MCEthSocket ----------------------------
(* Two sockets and three pbufs, one fewer than the two lists hold, so that  *)
(* the pool runs empty; pbufs and sockets are interchangeable.              *)
EXTENDS EthSocket, TLC

Interchangeable == Permutations(Pbuf) \cup Permutations(Socket)
=============================================================================
