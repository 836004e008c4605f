------------------------- MODULE MCReliablePublisher --------------------------
(* Two messages and the replayer, with one crash. *)
EXTENDS ReliablePublisher
===============================================================================
