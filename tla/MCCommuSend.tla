---------------------------- MODULE MCCommuSend ----------------------------
(* A small instance of CommuSend.  Two reports tell a stale report from    *)
(* the last one, a mailbox of two posts gets full, and three sectors tell  *)
(* a late answer from the one asked for.  A read asks for one sector or    *)
(* for two.  Of the three blocks other threads may hold one: enough to get *)
(* the one that a queued struct has left.                                  *)
EXTENDS CommuSend
=============================================================================
