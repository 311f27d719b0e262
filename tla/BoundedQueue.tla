---------------------------- MODULE BoundedQueue ----------------------------
(***************************************************************************)
(* What a message queue of the kernel promises to the threads and the      *)
(* interrupt handlers that share it: a bounded sequence of messages, sent  *)
(* to its end, or to its front when urgent, received from its front, each  *)
(* by one receiver and as it was sent.  Nothing here says how the messages *)
(* are stored or who waits for them; MessageQueue does.                    *)
(***************************************************************************)
EXTENDS Naturals, Sequences

CONSTANTS Receivers,  \* the threads that receive
          Messages,   \* what can be sent
          Capacity,   \* the most messages the queue holds
          NoMsg       \* what a thread that has received nothing yet holds

VARIABLES contents,   \* the messages waiting, the oldest first
          taken       \* per thread, the last message it received
qvars == <<contents, taken>>

QTypeOK == /\ contents \in Seq(Messages)
           /\ Len(contents) <= Capacity
           /\ taken \in [Receivers -> Messages \union {NoMsg}]

QInit == /\ contents = <<>>
         /\ taken = [t \in Receivers |-> NoMsg]

SendLast(m) == /\ Len(contents) < Capacity
               /\ contents' = Append(contents, m)
               /\ UNCHANGED taken

SendFirst(m) == /\ Len(contents) < Capacity
                /\ contents' = <<m>> \o contents
                /\ UNCHANGED taken

ReceiveFirst(t) == /\ contents # <<>>
                   /\ taken' = [taken EXCEPT ![t] = Head(contents)]
                   /\ contents' = Tail(contents)

Empty == /\ contents' = <<>>
         /\ UNCHANGED taken

QNext == \/ \E m \in Messages : SendLast(m) \/ SendFirst(m)
         \/ \E t \in Receivers : ReceiveFirst(t)
         \/ Empty

QSpec == QInit /\ [][QNext]_qvars
=============================================================================
