---------------------------- MODULE MessageQueue ----------------------------
(***************************************************************************)
(* The message queue of the RT-Thread kernel (src/src/ipc.c, rt_mq_): the  *)
(* object behind mq_key_ms, mq_key_sm, mq_commu_recv, mq_flash_read and    *)
(* mq_lua, on which every key report and every sector of the disk crosses  *)
(* from an interrupt handler to a thread and from a thread to another.     *)
(*                                                                         *)
(* Each call is cut where the code enables interrupts.  A send takes a     *)
(* free slot, copies the message with interrupts on, then links the slot;  *)
(* a receive unlinks a slot, copies it out with interrupts on, then frees  *)
(* it.  Between two critical sections any thread may be preempted and any  *)
(* interrupt served.  An interrupt handler sends without being preempted   *)
(* by a thread.                                                            *)
(*                                                                         *)
(* The pool is a set of slots: which free slot a send takes is not         *)
(* observable, so the free list is a set.  All queues of the program are   *)
(* created with RT_IPC_FLAG_FIFO, so threads wait in arrival order.        *)
(***************************************************************************)
EXTENDS Integers, FiniteSets, SequencesExt

CONSTANTS Threads,   \* the threads that call the queue
          Handlers,  \* the interrupt handlers that send to it
          Slots,     \* the message slots of msg_pool
          Messages,  \* the messages
          NoSlot,    \* no slot in the caller's hands
          NoMsg      \* nothing copied yet

Callers == Threads \union Handlers

ASSUME PoolAssumption ==
       /\ IsFiniteSet(Slots) /\ NoSlot \notin Slots
       /\ NoMsg \notin Messages

ASSUME CallersAssumption ==
       /\ IsFiniteSet(Threads)
       /\ Threads \intersect Handlers = {}

VARIABLES free,      \* msg_queue_free: the slots of the free list
          queue,     \* msg_queue_head .. msg_queue_tail: the linked slots
          entry,     \* mq->entry
          content,   \* what was copied into each slot
          suspended, \* parent.suspend_thread: the waiting threads, in order
          pc,        \* where each caller is between critical sections
          slot,      \* the local variable msg of each caller
          timeout,   \* a receiver's timeout: none (0, or no call), finite, forever
          error,     \* thread->error
          got        \* the receive buffer of each thread
vars == <<free, queue, entry, content, suspended, pc, slot, timeout, error,
          got>>

Timeouts == {"none", "finite", "forever"}

Sending   == {"copyLast", "copyFirst", "linkLast", "linkFirst"}
Receiving == {"copyOut", "giveBack"}

(* A caller in one of these places owns the slot it points at.             *)
Holding(c) == pc[c] \in Sending \union Receiving

(* A thread that was suspended, has been made ready again with no error,   *)
(* and has not run since.                                                  *)
Woken(t) == /\ pc[t] = "waiting" /\ error[t] = "EOK"
            /\ t \notin Range(suspended)
WokenThreads == {t \in Threads : Woken(t)}

TypeOK == /\ free \in SUBSET Slots
          /\ queue \in Seq(Slots)
          /\ entry \in Nat
          /\ content \in [Slots -> Messages \union {NoMsg}]
          /\ suspended \in Seq(Threads)
          /\ pc \in [Callers -> {"idle", "waiting"} \union Sending \union Receiving]
          /\ slot \in [Callers -> Slots \union {NoSlot}]
          /\ timeout \in [Threads -> Timeouts]
          /\ error \in [Threads -> {"EOK", "ERROR", "ETIMEOUT"}]
          /\ got \in [Threads -> Messages \union {NoMsg}]

(* rt_mq_init: every slot of the pool is on the free list.                 *)
Init == /\ free = Slots
        /\ queue = <<>>
        /\ entry = 0
        /\ content = [s \in Slots |-> NoMsg]
        /\ suspended = <<>>
        /\ pc = [c \in Callers |-> "idle"]
        /\ slot = [c \in Callers |-> NoSlot]
        /\ timeout = [t \in Threads |-> "none"]
        /\ error = [t \in Threads |-> "EOK"]
        /\ got = [t \in Threads |-> NoMsg]

(* A thread executes only while no interrupt handler is inside a call.     *)
Runs(c) == c \in Threads => \A h \in Handlers : pc[h] = "idle"

(***************************************************************************)
(* rt_mq_send and rt_mq_urgent                                             *)
(***************************************************************************)

(* The first critical section; a full pool refuses the message (-EFULL).   *)
TakeFree(c, copy) ==
  /\ Runs(c) /\ pc[c] = "idle"
  /\ \E s \in free : /\ free' = free \ {s}
                     /\ slot' = [slot EXCEPT ![c] = s]
  /\ pc' = [pc EXCEPT ![c] = copy]
  /\ UNCHANGED <<queue, entry, content, suspended, timeout, error, got>>

(* rt_memcpy of the caller's message into the slot, interrupts enabled.    *)
CopyIn(c, m) ==
  /\ Runs(c) /\ pc[c] \in {"copyLast", "copyFirst"}
  /\ content' = [content EXCEPT ![slot[c]] = m]
  /\ pc' = [pc EXCEPT ![c] = IF @ = "copyLast" THEN "linkLast" ELSE "linkFirst"]
  /\ UNCHANGED <<free, queue, entry, suspended, slot, timeout, error, got>>

(* Mutant: a send wakes a receiver only when the queue was empty.          *)
ResumeFirstIfEmpty ==
  suspended' = IF suspended = <<>> \/ entry > 0 THEN suspended ELSE Tail(suspended)

(* rt_ipc_list_resume on a list that may be empty.                         *)
ResumeFirst == suspended' = IF suspended = <<>> THEN <<>> ELSE Tail(suspended)

(* The second critical section.                                            *)
Link(c, at, linked) ==
  /\ Runs(c) /\ pc[c] = at
  /\ queue' = linked
  /\ entry' = entry + 1
  /\ ResumeFirst
  /\ pc' = [pc EXCEPT ![c] = "idle"]
  /\ slot' = [slot EXCEPT ![c] = NoSlot]
  /\ UNCHANGED <<free, content, timeout, error, got>>

LinkLast(c)  == Link(c, "linkLast", Append(queue, slot[c]))
LinkFirst(c) == Link(c, "linkFirst", <<slot[c]>> \o queue)

(***************************************************************************)
(* rt_mq_recv: the caller's first pass, and the pass after each wake-up    *)
(***************************************************************************)

(* Mutant: the slot is on the free list before its message is copied.      *)
UnlinkAndFree(t) ==
  /\ entry > 0
  /\ free' = free \union {queue[1]}
  /\ slot' = [slot EXCEPT ![t] = queue[1]]
  /\ queue' = Tail(queue)
  /\ entry' = entry - 1
  /\ pc' = [pc EXCEPT ![t] = "copyOut"]
  /\ UNCHANGED <<content, suspended, error, got>>

(* The head is unlinked; the slot stays with the receiver until it has     *)
(* copied the message.                                                     *)
Unlink(t) ==
  /\ entry > 0
  /\ slot' = [slot EXCEPT ![t] = queue[1]]
  /\ queue' = Tail(queue)
  /\ entry' = entry - 1
  /\ pc' = [pc EXCEPT ![t] = "copyOut"]
  /\ UNCHANGED <<free, content, suspended, error, got>>

(* rt_ipc_list_suspend, and the thread timer when the wait is bounded.     *)
Suspend(t) ==
  /\ entry = 0
  /\ suspended' = Append(suspended, t)
  /\ pc' = [pc EXCEPT ![t] = "waiting"]
  /\ error' = [error EXCEPT ![t] = "EOK"]
  /\ UNCHANGED <<free, queue, entry, content, slot, got>>

(* The call returns without a message: nothing queued and no time left.    *)
GiveUp(t) ==
  /\ entry = 0
  /\ pc' = [pc EXCEPT ![t] = "idle"]
  /\ UNCHANGED <<free, queue, entry, content, suspended, slot, got>>

Receive(t, limit) ==
  /\ Runs(t) /\ pc[t] = "idle"
  /\ timeout' = [timeout EXCEPT ![t] = limit]
  /\ \/ Unlink(t)
     \/ limit # "none" /\ Suspend(t)
     \/ limit = "none" /\ GiveUp(t) /\ UNCHANGED error

(* Back from rt_schedule with no error: look at entry again.  What is left *)
(* of a finite timeout may be 0.                                           *)
Retry(t) ==
  /\ Runs(t) /\ Woken(t)
  /\ \/ Unlink(t) /\ UNCHANGED timeout
     \/ Suspend(t) /\ UNCHANGED timeout
     \/ /\ timeout[t] = "finite" /\ GiveUp(t)
        /\ timeout' = [timeout EXCEPT ![t] = "none"]
        /\ error' = [error EXCEPT ![t] = "ETIMEOUT"]

(* Back from rt_schedule with an error, which the call returns.            *)
Fail(t) ==
  /\ Runs(t) /\ pc[t] = "waiting" /\ error[t] # "EOK"
  /\ pc' = [pc EXCEPT ![t] = "idle"]
  /\ timeout' = [timeout EXCEPT ![t] = "none"]
  /\ UNCHANGED <<free, queue, entry, content, suspended, slot, error, got>>

(* rt_thread_timeout, from the tick interrupt: the waiting thread leaves   *)
(* the list and becomes ready with an error.                               *)
Expire(t) ==
  /\ Runs(t)
  /\ timeout[t] = "finite"
  /\ \E i \in DOMAIN suspended : /\ suspended[i] = t
                                /\ suspended' = RemoveAt(suspended, i)
  /\ error' = [error EXCEPT ![t] = "ETIMEOUT"]
  /\ UNCHANGED <<free, queue, entry, content, pc, slot, timeout, got>>

CopyOut(t) ==
  /\ Runs(t) /\ pc[t] = "copyOut"
  /\ got' = [got EXCEPT ![t] = content[slot[t]]]
  /\ pc' = [pc EXCEPT ![t] = "giveBack"]
  /\ UNCHANGED <<free, queue, entry, content, suspended, slot, timeout, error>>

(* Mutant: the pointer is cleared before the slot it points at is freed.   *)
ClearThenGiveBack(t) ==
  /\ Runs(t) /\ pc[t] = "giveBack"
  /\ free' = free \union {NoSlot}
  /\ slot' = [slot EXCEPT ![t] = NoSlot]
  /\ pc' = [pc EXCEPT ![t] = "idle"]
  /\ timeout' = [timeout EXCEPT ![t] = "none"]
  /\ UNCHANGED <<queue, entry, content, suspended, error, got>>

GiveBack(t) ==
  /\ Runs(t) /\ pc[t] = "giveBack"
  /\ free' = free \union {slot[t]}
  /\ slot' = [slot EXCEPT ![t] = NoSlot]
  /\ pc' = [pc EXCEPT ![t] = "idle"]
  /\ timeout' = [timeout EXCEPT ![t] = "none"]
  /\ UNCHANGED <<queue, entry, content, suspended, error, got>>

(* Mutant: a reset forgets the slots it unlinks.                           *)
NothingReleased == {}

(* The slots a reset moves from the queue to the free list.                *)
Released == Range(queue)

(***************************************************************************)
(* rt_mq_control with RT_IPC_CMD_RESET: every waiter is made ready with an *)
(* error, every linked slot returns to the free list.                      *)
(***************************************************************************)
Reset(t) ==
  /\ Runs(t) /\ pc[t] = "idle"
  /\ error' = [u \in Threads |-> IF u \in Range(suspended) THEN "ERROR" ELSE error[u]]
  /\ suspended' = <<>>
  /\ free' = free \union Released
  /\ queue' = <<>>
  /\ entry' = 0
  /\ UNCHANGED <<content, pc, slot, timeout, got>>

SendStep(c) == \/ \E m \in Messages : CopyIn(c, m)
               \/ LinkLast(c)
               \/ LinkFirst(c)
RecvStep(t) == Retry(t) \/ Fail(t) \/ CopyOut(t) \/ GiveBack(t)

Next == \/ \E c \in Callers : \/ TakeFree(c, "copyLast")
                               \/ TakeFree(c, "copyFirst")
                               \/ SendStep(c)
        \/ \E t \in Threads : RecvStep(t) \/ Expire(t) \/ Reset(t)
        \/ \E t \in Threads, limit \in Timeouts : Receive(t, limit)

Spec == Init /\ [][Next]_vars

(* A call that has begun goes on: a ready thread of the kernel runs when   *)
(* the threads above it block, a handler runs to its end.                  *)
FairSpec == /\ Spec
            /\ \A c \in Callers : WF_vars(SendStep(c))
            /\ \A t \in Threads : WF_vars(RecvStep(t))
-----------------------------------------------------------------------------
(***************************************************************************)
(* Properties                                                              *)
(***************************************************************************)

(* Every slot of the pool is in exactly one place: on the free list, once  *)
(* in the queue, or in the hands of one caller that is copying.  A slot in *)
(* two places would have one message overwritten by another, a slot in     *)
(* none would shrink the queue until every send fails.                     *)
SlotsConserved ==
  /\ IsInjective(queue)
  /\ Range(queue) \intersect free = {}
  /\ \A c \in Callers : Holding(c) => slot[c] \in Slots \ (free \union Range(queue))
  /\ \A c, d \in Callers : Holding(c) /\ Holding(d) /\ slot[c] = slot[d] => c = d
  /\ Slots = free \union Range(queue) \union {slot[c] : c \in {d \in Callers : Holding(d)}}

(* Strengthening for the proofs: the counter counts the linked slots.      *)
EntryCounts == entry = Len(queue)

(* Strengthening for the proofs: who is on the wait list is inside its     *)
(* call, once, and has been given no error.                                *)
WaitersWait == /\ IsInjective(suspended)
               /\ \A t \in Range(suspended) : pc[t] = "waiting" /\ error[t] = "EOK"

(* While a thread sleeps in rt_mq_recv, each queued message has a thread   *)
(* that was woken for it and has yet to run: no wake-up is lost, whoever   *)
(* overtakes a woken receiver and whenever a timeout or a reset strikes.   *)
NoLostWakeup == suspended # <<>> => entry <= Cardinality(WokenThreads)

IInv == TypeOK /\ EntryCounts /\ SlotsConserved /\ WaitersWait /\ NoLostWakeup

(* A message does not stay queued beside a thread that waits in rt_mq_recv *)
(* for ever: either the queue drains or nobody is left waiting.            *)
MessageReachesWaiter ==
  entry > 0 /\ suspended # <<>> ~> entry = 0 \/ suspended = <<>>

(* The slots and the copies implement a bounded queue of messages, a       *)
(* message counting as received when its slot is unlinked.                 *)
Abstract == INSTANCE BoundedQueue WITH
              Receivers <- Threads,
              Capacity <- Cardinality(Slots),
              contents <- [i \in DOMAIN queue |-> content[queue[i]]],
              taken <- [t \in Threads |-> IF pc[t] = "copyOut"
                                          THEN content[slot[t]] ELSE got[t]]
ImplementsQueue == Abstract!QSpec
=============================================================================
