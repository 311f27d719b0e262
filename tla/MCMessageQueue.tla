--------------------------- MODULE MCMessageQueue ---------------------------
(* A small instance of MessageQueue: a pool of two slots, two threads that *)
(* send, receive and reset, one interrupt handler that sends, and two      *)
(* messages.                                                               *)
EXTENDS MessageQueue
=============================================================================
