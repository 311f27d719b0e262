------------------------- MODULE MessageQueueProofs -------------------------
(***************************************************************************)
(* Proofs about MessageQueue for any number of threads, handlers, slots    *)
(* and messages.  The inductive invariant IInv adds to the three           *)
(* properties what makes them inductive: the counter equals the length of  *)
(* the list, and who is listed as waiting does wait, once, without error.  *)
(***************************************************************************)
EXTENDS MessageQueue, SeqLemmas, FiniteSetTheorems

LEMMA InitIInv == Init => IInv
<1> SUFFICES ASSUME Init PROVE IInv
  OBVIOUS
<1>1. Range(<<>>) = {} /\ IsInjective(<<>>)
  BY DEF Range, IsInjective
<1>2. TypeOK
  BY PoolAssumption DEF Init, TypeOK, Timeouts
<1>3. EntryCounts
  BY DEF Init, EntryCounts
<1>4. \A c \in Callers : ~ Holding(c)
  BY DEF Init, Holding, Sending, Receiving
<1>5. SlotsConserved
  BY <1>1, <1>4 DEF Init, SlotsConserved
<1>6. WaitersWait /\ NoLostWakeup
  BY <1>1 DEF Init, WaitersWait, NoLostWakeup
<1> QED BY <1>2, <1>3, <1>5, <1>6 DEF IInv

(* The set of woken threads is finite.                                     *)
LEMMA WokenFinite ==
  /\ IsFiniteSet(WokenThreads)
  /\ Cardinality(WokenThreads) \in Nat
<1>1. WokenThreads \in SUBSET Threads
  BY DEF WokenThreads
<1> QED BY <1>1, CallersAssumption, FS_Subset, FS_CardinalityType

LEMMA WokenFiniteNext ==
  /\ IsFiniteSet(WokenThreads')
  /\ Cardinality(WokenThreads') \in Nat
<1>1. WokenThreads' \in SUBSET Threads
  BY DEF WokenThreads
<1> QED BY <1>1, CallersAssumption, FS_Subset, FS_CardinalityType

LEMMA TakeFreeKeeps ==
  ASSUME IInv, NEW c \in Callers, NEW copy \in {"copyLast", "copyFirst"},
         TakeFree(c, copy)
  PROVE  IInv'
<1> USE DEF IInv
<1>1. PICK s \in free : free' = free \ {s} /\ slot' = [slot EXCEPT ![c] = s]
  BY DEF TakeFree
<1>2. TypeOK'
  BY <1>1 DEF TypeOK, TakeFree, Sending
<1>3. EntryCounts' /\ IsInjective(queue') /\ WaitersWait'
  BY DEF EntryCounts, SlotsConserved, TakeFree, WaitersWait, TypeOK, Range
<1>4. SlotsConserved'
  <2>1. ~ Holding(c) /\ Holding(c)' /\ slot'[c] = s
    BY <1>1 DEF TakeFree, Holding, Sending, Receiving, TypeOK
  <2>2. \A d \in Callers \ {c} : (Holding(d)' <=> Holding(d)) /\ slot'[d] = slot[d]
    BY <1>1 DEF TakeFree, Holding, TypeOK
  <2>3. queue' = queue /\ free' = free \ {s} /\ s \in Slots
    BY <1>1 DEF TakeFree, TypeOK
  <2> QED BY <2>1, <2>2, <2>3 DEF SlotsConserved
<1>5. NoLostWakeup'
  <2>1. WokenThreads' = WokenThreads
    BY DEF TakeFree, WokenThreads, Woken, TypeOK, Callers
  <2> QED BY <2>1 DEF NoLostWakeup, TakeFree
<1> QED BY <1>2, <1>3, <1>4, <1>5

LEMMA CopyInKeeps ==
  ASSUME IInv, NEW c \in Callers, NEW m \in Messages, CopyIn(c, m)
  PROVE  IInv'
<1> USE DEF IInv
<1>1. TypeOK'
  BY DEF TypeOK, CopyIn, Sending
<1>2. EntryCounts' /\ WaitersWait'
  BY DEF EntryCounts, CopyIn, WaitersWait, TypeOK, Range
<1>3. SlotsConserved'
  <2>1. \A d \in Callers : Holding(d)' <=> Holding(d)
    BY DEF CopyIn, Holding, Sending, Receiving, TypeOK
  <2>2. queue' = queue /\ free' = free /\ slot' = slot
    BY DEF CopyIn
  <2> QED BY <2>1, <2>2 DEF SlotsConserved
<1>4. NoLostWakeup'
  <2>1. WokenThreads' = WokenThreads
    BY DEF CopyIn, WokenThreads, Woken, TypeOK, Callers
  <2> QED BY <2>1 DEF NoLostWakeup, CopyIn
<1> QED BY <1>1, <1>2, <1>3, <1>4

(* Linking at either end: the list gains the caller's slot, the counter    *)
(* one, and the first waiter is woken.                                     *)
LEMMA LinkKeeps ==
  ASSUME IInv, NEW c \in Callers, NEW at \in {"linkLast", "linkFirst"},
         NEW linked \in {Append(queue, slot[c]), <<slot[c]>> \o queue},
         Link(c, at, linked)
  PROVE  IInv'
<1> USE DEF IInv
<1>1. pc[c] = at /\ Holding(c) /\ slot[c] \in Slots /\ slot[c] \notin Range(queue)
  BY DEF Link, Holding, Sending, SlotsConserved
<1>2. /\ linked \in Seq(Slots) /\ Len(linked) = Len(queue) + 1
      /\ Range(linked) = Range(queue) \union {slot[c]}
      /\ IsInjective(linked)
  <2>1. queue \in Seq(Slots) /\ IsInjective(queue)
    BY DEF TypeOK, SlotsConserved
  <2>2. CASE linked = Append(queue, slot[c])
    BY <1>1, <2>1, <2>2, AppendLemma
  <2>3. CASE linked = <<slot[c]>> \o queue
    BY <1>1, <2>1, <2>3, ConsLemma
  <2> QED BY <2>2, <2>3
<1>3. suspended # <<>> =>
        /\ suspended[1] \in Threads
        /\ Tail(suspended) \in Seq(Threads)
        /\ Range(suspended) = Range(Tail(suspended)) \union {suspended[1]}
        /\ IsInjective(Tail(suspended))
        /\ suspended[1] \notin Range(Tail(suspended))
  BY TailLemma DEF TypeOK, WaitersWait
<1>4. suspended' \in Seq(Threads)
  BY <1>3 DEF Link, ResumeFirst
<1>5. TypeOK'
  BY <1>2, <1>4 DEF TypeOK, Link
<1>6. EntryCounts'
  BY <1>2 DEF EntryCounts, Link
<1>7. SlotsConserved'
  <2>1. Holding(c) /\ ~ Holding(c)'
    BY <1>1 DEF Link, Holding, Sending, Receiving, TypeOK
  <2>2. \A d \in Callers \ {c} : (Holding(d)' <=> Holding(d)) /\ slot'[d] = slot[d]
    BY DEF Link, Holding, TypeOK
  <2>3. queue' = linked /\ free' = free
    BY DEF Link
  <2> QED BY <1>1, <1>2, <2>1, <2>2, <2>3 DEF SlotsConserved
<1>8. Range(suspended') \subseteq Range(suspended) /\ IsInjective(suspended')
  BY <1>3 DEF Link, ResumeFirst, WaitersWait, IsInjective, Range
<1>9. WaitersWait'
  <2>1. \A t \in Range(suspended') : t # c
    BY <1>1, <1>8 DEF WaitersWait
  <2>2. Range(suspended') \subseteq Threads
    BY <1>4 DEF Range
  <2> QED BY <1>8, <2>1, <2>2 DEF WaitersWait, Link, TypeOK, Callers
<1>10. NoLostWakeup'
  <2> SUFFICES ASSUME suspended' # <<>>
               PROVE  entry' <= Cardinality(WokenThreads')
    BY DEF NoLostWakeup
  <2>1. suspended # <<>> /\ suspended' = Tail(suspended)
    BY DEF Link, ResumeFirst
  <2> DEFINE t0 == suspended[1]
  <2>2. t0 \in Threads /\ t0 \in Range(suspended) /\ t0 \notin Range(suspended')
    BY <1>3, <2>1
  <2>3. pc[t0] = "waiting" /\ error[t0] = "EOK" /\ t0 # c
    BY <1>1, <2>2 DEF WaitersWait
  <2>4. t0 \notin WokenThreads
    BY <2>2 DEF WokenThreads, Woken
  <2>5. WokenThreads' = WokenThreads \union {t0}
    <3>1. \A t \in Threads : Woken(t)' <=> Woken(t) \/ t = t0
      BY <1>1, <1>3, <2>1, <2>2, <2>3 DEF Woken, Link, TypeOK, Callers
    <3> QED BY <2>2, <3>1 DEF WokenThreads
  <2>6. Cardinality(WokenThreads') = Cardinality(WokenThreads) + 1
    BY <2>4, <2>5, WokenFinite, FS_AddElement
  <2>7. entry <= Cardinality(WokenThreads) /\ entry' = entry + 1
    BY <2>1 DEF NoLostWakeup, Link
  <2> QED BY <2>6, <2>7, WokenFinite DEF TypeOK
<1> QED BY <1>5, <1>6, <1>7, <1>9, <1>10

(* Unlinking the head, by a thread that has just called or that was woken. *)
LEMMA UnlinkKeeps ==
  ASSUME IInv, NEW t \in Threads, Unlink(t), pc[t] = "idle" \/ Woken(t),
         timeout' \in [Threads -> Timeouts]
  PROVE  IInv'
<1> USE DEF IInv
<1>1. queue # <<>> /\ t \in Callers /\ ~ Holding(t)
  BY DEF Unlink, EntryCounts, TypeOK, Callers, Holding, Sending, Receiving, Woken
<1>2. /\ queue[1] \in Slots /\ Tail(queue) \in Seq(Slots)
      /\ Len(Tail(queue)) = Len(queue) - 1
      /\ Range(queue) = Range(Tail(queue)) \union {queue[1]}
      /\ IsInjective(Tail(queue)) /\ queue[1] \notin Range(Tail(queue))
  BY <1>1, TailLemma DEF TypeOK, SlotsConserved
<1>3. TypeOK'
  <2>1. entry' \in Nat
    BY DEF TypeOK, Unlink
  <2>2. pc' \in [Callers -> {"idle", "waiting"} \union Sending \union Receiving]
    BY DEF TypeOK, Unlink, Receiving
  <2>3. slot' \in [Callers -> Slots \union {NoSlot}]
    BY <1>2 DEF TypeOK, Unlink
  <2> QED BY <1>2, <2>1, <2>2, <2>3 DEF TypeOK, Unlink
<1>4. EntryCounts'
  BY <1>2 DEF EntryCounts, Unlink
<1>5. SlotsConserved'
  <2>1. Holding(t)' /\ slot'[t] = queue[1]
    BY <1>1 DEF Unlink, Holding, Sending, Receiving, TypeOK
  <2>2. \A d \in Callers \ {t} : (Holding(d)' <=> Holding(d)) /\ slot'[d] = slot[d]
    BY DEF Unlink, Holding, TypeOK
  <2>3. queue' = Tail(queue) /\ free' = free
    BY DEF Unlink
  <2> QED BY <1>1, <1>2, <2>1, <2>2, <2>3 DEF SlotsConserved
<1>6. WaitersWait' /\ t \notin Range(suspended)
  <2>1. t \notin Range(suspended)
    BY DEF WaitersWait, Woken
  <2>2. Range(suspended) \subseteq Threads
    BY DEF Range, TypeOK
  <2> QED BY <2>1, <2>2 DEF WaitersWait, Unlink, TypeOK, Callers
<1>7. NoLostWakeup'
  <2> SUFFICES ASSUME suspended # <<>> PROVE entry' <= Cardinality(WokenThreads')
    BY DEF NoLostWakeup, Unlink
  <2>1. WokenThreads' = WokenThreads \ {t}
    <3>1. \A u \in Threads : Woken(u)' <=> Woken(u) /\ u # t
      BY DEF Woken, Unlink, TypeOK, Callers
    <3> QED BY <3>1 DEF WokenThreads
  <2>2. Cardinality(WokenThreads') >= Cardinality(WokenThreads) - 1
    <3>1. Cardinality(WokenThreads \ {t}) = IF t \in WokenThreads
                                            THEN Cardinality(WokenThreads) - 1
                                            ELSE Cardinality(WokenThreads)
      BY WokenFinite, FS_RemoveElement
    <3> QED BY <2>1, <3>1, WokenFinite
  <2>3. entry <= Cardinality(WokenThreads) /\ entry' = entry - 1
    BY DEF NoLostWakeup, Unlink
  <2> QED BY <2>2, <2>3, WokenFinite, WokenFiniteNext DEF TypeOK
<1> QED BY <1>3, <1>4, <1>5, <1>6, <1>7

(* Sleeping on an empty queue.                                             *)
LEMMA SuspendKeeps ==
  ASSUME IInv, NEW t \in Threads, Suspend(t), pc[t] = "idle" \/ Woken(t),
         timeout' \in [Threads -> Timeouts]
  PROVE  IInv'
<1> USE DEF IInv
<1>1. t \in Callers /\ t \notin Range(suspended) /\ ~ Holding(t)
  BY DEF Callers, WaitersWait, Woken, Holding, Sending, Receiving
<1>2. /\ Append(suspended, t) \in Seq(Threads)
      /\ Range(Append(suspended, t)) = Range(suspended) \union {t}
      /\ IsInjective(Append(suspended, t))
  BY <1>1, AppendLemma DEF TypeOK, WaitersWait
<1>3. TypeOK'
  BY <1>2 DEF TypeOK, Suspend
<1>4. EntryCounts'
  BY DEF EntryCounts, Suspend
<1>5. SlotsConserved'
  <2>1. \A d \in Callers : Holding(d)' <=> Holding(d)
    BY <1>1 DEF Suspend, Holding, Sending, Receiving, TypeOK
  <2>2. queue' = queue /\ free' = free /\ slot' = slot
    BY DEF Suspend
  <2> QED BY <2>1, <2>2 DEF SlotsConserved
<1>6. WaitersWait'
  <2>1. Range(suspended) \subseteq Threads
    BY DEF Range, TypeOK
  <2> QED BY <1>1, <1>2, <2>1 DEF WaitersWait, Suspend, TypeOK, Callers
<1>7. NoLostWakeup'
  BY WokenFiniteNext DEF NoLostWakeup, Suspend
<1> QED BY <1>3, <1>4, <1>5, <1>6, <1>7

(* Steps that move one thread, not on the wait list, between places where  *)
(* it holds no slot and is not woken, while the queue stays as it is.      *)
LEMMA LeaveKeeps ==
  ASSUME IInv, NEW t \in Threads, ~ Holding(t), t \notin Range(suspended),
         pc' = [pc EXCEPT ![t] = "idle"],
         entry = 0 \/ ~ Woken(t),
         UNCHANGED <<free, queue, entry, content, suspended, slot, got>>,
         timeout' \in [Threads -> Timeouts],
         \/ error' = error
         \/ error' = [error EXCEPT ![t] = "ETIMEOUT"]
  PROVE  IInv'
<1> USE DEF IInv
<1>1. TypeOK'
  BY DEF TypeOK
<1>2. EntryCounts'
  BY DEF EntryCounts
<1>3. SlotsConserved'
  <2>1. \A d \in Callers : Holding(d)' <=> Holding(d)
    BY DEF Holding, Sending, Receiving, TypeOK
  <2> QED BY <2>1 DEF SlotsConserved
<1>4. WaitersWait'
  <2>1. Range(suspended) \subseteq Threads
    BY DEF Range, TypeOK
  <2> QED BY <2>1 DEF WaitersWait, TypeOK, Callers
<1>5. NoLostWakeup'
  <2>1. CASE entry = 0
    BY <2>1, WokenFiniteNext DEF NoLostWakeup
  <2>2. CASE ~ Woken(t)
    <3>1. \A u \in Threads : Woken(u)' <=> Woken(u)
      BY <2>2 DEF Woken, TypeOK, Callers
    <3>2. WokenThreads' = WokenThreads
      BY <3>1 DEF WokenThreads
    <3> QED BY <3>2 DEF NoLostWakeup
  <2> QED BY <2>1, <2>2
<1> QED BY <1>1, <1>2, <1>3, <1>4, <1>5

LEMMA ReceiveKeeps ==
  ASSUME IInv, NEW t \in Threads, NEW limit \in Timeouts, Receive(t, limit)
  PROVE  IInv'
<1>1. pc[t] = "idle" /\ timeout' \in [Threads -> Timeouts]
  BY DEF Receive, IInv, TypeOK
<1>2. CASE Unlink(t)
  BY <1>1, <1>2, UnlinkKeeps
<1>3. CASE Suspend(t)
  BY <1>1, <1>3, SuspendKeeps
<1>4. CASE GiveUp(t) /\ UNCHANGED error
  <2>1. ~ Holding(t) /\ t \notin Range(suspended) /\ ~ Woken(t)
    BY <1>1 DEF Holding, Sending, Receiving, Woken, IInv, WaitersWait
  <2> QED BY <1>1, <1>4, <2>1, LeaveKeeps DEF GiveUp
<1> QED BY <1>2, <1>3, <1>4 DEF Receive

LEMMA RetryKeeps ==
  ASSUME IInv, NEW t \in Threads, Retry(t)
  PROVE  IInv'
<1>1. Woken(t) /\ timeout' \in [Threads -> Timeouts]
  BY DEF Retry, IInv, TypeOK, Timeouts
<1>2. CASE Unlink(t)
  BY <1>1, <1>2, UnlinkKeeps
<1>3. CASE Suspend(t)
  BY <1>1, <1>3, SuspendKeeps
<1>4. CASE GiveUp(t) /\ error' = [error EXCEPT ![t] = "ETIMEOUT"]
  <2>1. ~ Holding(t) /\ t \notin Range(suspended) /\ entry = 0
    BY <1>1, <1>4 DEF Holding, Sending, Receiving, Woken, GiveUp
  <2> QED BY <1>1, <1>4, <2>1, LeaveKeeps DEF GiveUp
<1> QED BY <1>2, <1>3, <1>4 DEF Retry

LEMMA FailKeeps ==
  ASSUME IInv, NEW t \in Threads, Fail(t)
  PROVE  IInv'
<1>1. ~ Holding(t) /\ t \notin Range(suspended) /\ ~ Woken(t)
  BY DEF Fail, Holding, Sending, Receiving, Woken, IInv, WaitersWait
<1>2. timeout' \in [Threads -> Timeouts]
  BY DEF Fail, IInv, TypeOK, Timeouts
<1> QED BY <1>1, <1>2, LeaveKeeps DEF Fail

LEMMA ExpireKeeps ==
  ASSUME IInv, NEW t \in Threads, Expire(t)
  PROVE  IInv'
<1> USE DEF IInv
<1>1. PICK i \in DOMAIN suspended : /\ suspended[i] = t
                                   /\ suspended' = RemoveAt(suspended, i)
  BY DEF Expire
<1>2. /\ suspended' \in Seq(Threads)
      /\ Range(suspended') = Range(suspended) \ {t}
      /\ IsInjective(suspended')
  BY <1>1, RemoveAtLemma DEF TypeOK, WaitersWait
<1>3. t \in Range(suspended) /\ suspended # <<>>
  BY <1>1 DEF Range
<1>4. TypeOK'
  BY <1>2 DEF TypeOK, Expire
<1>5. EntryCounts'
  BY DEF EntryCounts, Expire
<1>6. SlotsConserved'
  <2>1. \A d \in Callers : Holding(d)' <=> Holding(d)
    BY DEF Expire, Holding
  <2> QED BY <2>1 DEF SlotsConserved, Expire
<1>7. WaitersWait'
  <2>1. Range(suspended') \subseteq Threads
    BY <1>2 DEF Range
  <2> QED BY <1>2, <2>1 DEF WaitersWait, Expire, TypeOK
<1>8. NoLostWakeup'
  <2>1. \A u \in Threads : Woken(u)' <=> Woken(u)
    BY <1>2, <1>3 DEF Woken, Expire, TypeOK
  <2>2. WokenThreads' = WokenThreads
    BY <2>1 DEF WokenThreads
  <2> QED BY <1>3, <2>2 DEF NoLostWakeup, Expire
<1> QED BY <1>4, <1>5, <1>6, <1>7, <1>8

LEMMA CopyOutKeeps ==
  ASSUME IInv, NEW t \in Threads, CopyOut(t)
  PROVE  IInv'
<1> USE DEF IInv
<1>1. t \in Callers /\ Holding(t) /\ slot[t] \in Slots
  BY DEF CopyOut, Callers, Holding, Receiving, SlotsConserved
<1>2. TypeOK'
  BY <1>1 DEF TypeOK, CopyOut, Receiving
<1>3. EntryCounts' /\ WaitersWait'
  BY DEF EntryCounts, CopyOut, WaitersWait, TypeOK, Range
<1>4. SlotsConserved'
  <2>1. \A d \in Callers : Holding(d)' <=> Holding(d)
    BY DEF CopyOut, Holding, Receiving, TypeOK
  <2> QED BY <2>1 DEF SlotsConserved, CopyOut
<1>5. NoLostWakeup'
  <2>1. WokenThreads' = WokenThreads
    BY DEF CopyOut, WokenThreads, Woken, TypeOK, Callers
  <2> QED BY <2>1 DEF NoLostWakeup, CopyOut
<1> QED BY <1>2, <1>3, <1>4, <1>5

LEMMA GiveBackKeeps ==
  ASSUME IInv, NEW t \in Threads, GiveBack(t)
  PROVE  IInv'
<1> USE DEF IInv
<1>1. t \in Callers /\ Holding(t) /\ slot[t] \in Slots
  BY DEF GiveBack, Callers, Holding, Receiving, SlotsConserved
<1>2. TypeOK'
  BY <1>1 DEF TypeOK, GiveBack, Timeouts
<1>3. EntryCounts' /\ WaitersWait'
  BY DEF EntryCounts, GiveBack, WaitersWait, TypeOK, Range
<1>4. SlotsConserved'
  <2>1. ~ Holding(t)'
    BY <1>1 DEF GiveBack, Holding, Sending, Receiving, TypeOK
  <2>2. \A d \in Callers \ {t} : (Holding(d)' <=> Holding(d)) /\ slot'[d] = slot[d]
    BY DEF GiveBack, Holding, TypeOK
  <2>3. queue' = queue /\ free' = free \union {slot[t]}
    BY DEF GiveBack
  <2> QED BY <1>1, <2>1, <2>2, <2>3 DEF SlotsConserved
<1>5. NoLostWakeup'
  <2>1. WokenThreads' = WokenThreads
    BY DEF GiveBack, WokenThreads, Woken, TypeOK, Callers
  <2> QED BY <2>1 DEF NoLostWakeup, GiveBack
<1> QED BY <1>2, <1>3, <1>4, <1>5

LEMMA ResetKeeps ==
  ASSUME IInv, NEW t \in Threads, Reset(t)
  PROVE  IInv'
<1> USE DEF IInv
<1>1. Range(<<>>) = {} /\ IsInjective(<<>>)
  BY DEF Range, IsInjective
<1>2. Range(queue) \subseteq Slots
  BY DEF Range, TypeOK
<1>3. TypeOK'
  BY <1>2 DEF TypeOK, Reset, Released
<1>4. EntryCounts'
  BY DEF EntryCounts, Reset
<1>5. SlotsConserved'
  <2>1. \A d \in Callers : Holding(d)' <=> Holding(d)
    BY DEF Reset, Holding
  <2>2. queue' = <<>> /\ free' = free \union Range(queue) /\ slot' = slot
    BY DEF Reset, Released
  <2> QED BY <1>1, <2>1, <2>2 DEF SlotsConserved
<1>6. WaitersWait' /\ NoLostWakeup'
  BY <1>1 DEF WaitersWait, NoLostWakeup, Reset
<1> QED BY <1>3, <1>4, <1>5, <1>6

LEMMA StutterKeeps == IInv /\ UNCHANGED vars => IInv'
<1> SUFFICES ASSUME IInv, UNCHANGED vars PROVE IInv'
  OBVIOUS
<1> USE DEF IInv, vars
<1>1. TypeOK' /\ EntryCounts'
  BY DEF TypeOK, EntryCounts
<1>2. SlotsConserved'
  BY DEF SlotsConserved, Holding
<1>3. WaitersWait'
  BY DEF WaitersWait
<1>4. NoLostWakeup'
  <2>1. WokenThreads' = WokenThreads
    BY DEF WokenThreads, Woken
  <2> QED BY <2>1 DEF NoLostWakeup
<1> QED BY <1>1, <1>2, <1>3, <1>4

(* Every step of the queue keeps the inductive invariant.                  *)
LEMMA NextKeeps == IInv /\ [Next]_vars => IInv'
<1> SUFFICES ASSUME IInv, [Next]_vars PROVE IInv'
  OBVIOUS
<1>1. ASSUME NEW c \in Callers, TakeFree(c, "copyLast") \/ TakeFree(c, "copyFirst")
      PROVE  IInv'
  BY <1>1, TakeFreeKeeps
<1>2. ASSUME NEW c \in Callers, SendStep(c) PROVE IInv'
  <2>1. ASSUME NEW m \in Messages, CopyIn(c, m) PROVE IInv'
    BY <2>1, CopyInKeeps
  <2>2. CASE LinkLast(c)
    BY <2>2, LinkKeeps DEF LinkLast
  <2>3. CASE LinkFirst(c)
    BY <2>3, LinkKeeps DEF LinkFirst
  <2> QED BY <1>2, <2>1, <2>2, <2>3 DEF SendStep
<1>3. ASSUME NEW t \in Threads, RecvStep(t) PROVE IInv'
  BY <1>3, RetryKeeps, FailKeeps, CopyOutKeeps, GiveBackKeeps DEF RecvStep
<1>4. ASSUME NEW t \in Threads, Expire(t) \/ Reset(t) PROVE IInv'
  BY <1>4, ExpireKeeps, ResetKeeps
<1>5. ASSUME NEW t \in Threads, NEW limit \in Timeouts, Receive(t, limit)
      PROVE  IInv'
  BY <1>5, ReceiveKeeps
<1>6. CASE UNCHANGED vars
  BY <1>6, StutterKeeps
<1> QED BY <1>1, <1>2, <1>3, <1>4, <1>5, <1>6 DEF Next

LEMMA Invariance == Spec => []IInv
BY InitIInv, NextKeeps, PTL DEF Spec

(* The variables of a queue keep their types, for any pool and any callers *)
(* of rt_mq_send, rt_mq_urgent, rt_mq_recv and rt_mq_control.              *)
THEOREM TypeCorrect == Spec => []TypeOK
<1>1. IInv => TypeOK
  BY DEF IInv
<1> QED BY <1>1, Invariance, PTL

(* No interleaving of senders, receivers, timeouts and resets loses a slot *)
(* of msg_pool or gives one to two owners.                                 *)
THEOREM SlotsAreConserved == Spec => []SlotsConserved
<1>1. IInv => SlotsConserved
  BY DEF IInv
<1> QED BY <1>1, Invariance, PTL

(* A message that rt_mq_send or rt_mq_urgent links while threads sleep in  *)
(* rt_mq_recv always has a thread woken for it.                            *)
THEOREM WakeupsAreKept == Spec => []NoLostWakeup
<1>1. IInv => NoLostWakeup
  BY DEF IInv
<1> QED BY <1>1, Invariance, PTL

-----------------------------------------------------------------------------
(* The refinement.  Where a message counts, it is there: every linked slot *)
(* has been copied to, and so has a slot about to be linked or copied out. *)
Filled ==
  /\ \A i \in DOMAIN queue : content[queue[i]] \in Messages
  /\ \A c \in Callers : pc[c] \in {"linkLast", "linkFirst", "copyOut"} => content[slot[c]] \in Messages

Contents == [i \in DOMAIN queue |-> content[queue[i]]]
TakenMsgs == [t \in Threads |-> IF pc[t] = "copyOut" THEN content[slot[t]] ELSE got[t]]

LEMMA ContentsLemma ==
  ASSUME TypeOK, Filled
  PROVE  /\ Contents \in Seq(Messages) /\ Len(Contents) = Len(queue)
         /\ \A i \in 1 .. Len(queue) : Contents[i] = content[queue[i]]
<1>1. queue \in Seq(Slots) /\ Len(queue) \in Nat /\ DOMAIN queue = 1 .. Len(queue)
  BY DEF TypeOK
<1>2. Contents \in [1 .. Len(queue) -> Messages]
  BY <1>1 DEF Contents, Filled
<1> QED BY <1>1, <1>2, SeqDef DEF Contents

(* At the front of a list.                                                 *)
LEMMA FrontLemma ==
  ASSUME NEW S, NEW s \in Seq(S), NEW e \in S
  PROVE  /\ <<e>> \o s \in Seq(S) /\ Len(<<e>> \o s) = Len(s) + 1
         /\ \A i \in 1 .. Len(s) + 1 : (<<e>> \o s)[i] = IF i = 1 THEN e ELSE s[i - 1]
OBVIOUS

(* The pool has a slot for each linked message, and one in hand.           *)
LEMMA RoomLemma ==
  ASSUME IInv, NEW c \in Callers, Holding(c)
  PROVE  Len(queue) < Cardinality(Slots)
<1>1. /\ slot[c] \in Slots /\ slot[c] \notin Range(queue) /\ IsInjective(queue)
      /\ queue \in Seq(Slots) /\ Len(queue) \in Nat /\ DOMAIN queue = 1 .. Len(queue)
  BY DEF IInv, TypeOK, SlotsConserved
<1> DEFINE T == Slots \ {slot[c]}
           n == Len(queue)
<1>2. IsFiniteSet(T) /\ Cardinality(T) = Cardinality(Slots) - 1 /\ Cardinality(Slots) \in Nat
      /\ Cardinality(T) \in Nat
  BY <1>1, PoolAssumption, FS_RemoveElement, FS_CardinalityType
<1>3. IsFiniteSet(1 .. n) /\ Cardinality(1 .. n) = n
  <2>1. n \in Nat /\ (1 > n => n = 0) /\ n - 1 + 1 = n
    BY <1>1
  <2> HIDE DEF n
  <2> QED BY <2>1, FS_Interval
<1>4. queue \in [1 .. n -> T]
  BY <1>1 DEF Range
<1>5. \A x, y \in 1 .. n : queue[x] = queue[y] => x = y
  BY <1>1 DEF IsInjective
<1>6. ~ (Cardinality(T) < n)
  <2> DEFINE S == 1 .. n
  <2>1. IsFiniteSet(S) /\ Cardinality(S) = n /\ IsFiniteSet(T) /\ queue \in [S -> T]
    BY <1>2, <1>3, <1>4
  <2>2. ~ \E x, y \in S : x # y /\ queue[x] = queue[y]
    BY <1>5
  <2> HIDE DEF T, S, n
  <2>3. ASSUME Cardinality(T) < Cardinality(S) PROVE FALSE
    <3>1. \E x, y \in S : x # y /\ queue[x] = queue[y]
      BY <2>1, <2>3, FS_PigeonHole
    <3> QED BY <2>2, <3>1
  <2> QED BY <2>1, <2>3
<1> HIDE DEF T
<1> QED BY <1>1, <1>2, <1>6

LEMMA InitRefines == Init => Abstract!QInit /\ Filled
<1> SUFFICES ASSUME Init PROVE Abstract!QInit /\ Filled
  OBVIOUS
<1>1. DOMAIN queue = {} /\ queue = <<>>
  BY DEF Init
<1>2. [i \in DOMAIN queue |-> content[queue[i]]] = <<>>
  BY <1>1
<1>3. \A c \in Callers : pc[c] = "idle"
  BY DEF Init
<1>4. [t \in Threads |-> IF pc[t] = "copyOut" THEN content[slot[t]] ELSE got[t]] = [t \in Threads |-> NoMsg]
  BY <1>3 DEF Init, Callers
<1>5. Filled
  BY <1>1, <1>3 DEF Filled
<1> QED BY <1>2, <1>4, <1>5 DEF Abstract!QInit

(* A step that leaves the linked slots and what is in them alone, and what *)
(* each receiver has taken, is a stutter.                                  *)
LEMMA StutterRefines ==
  ASSUME IInv, Filled, queue' = queue,
         \A i \in DOMAIN queue : content'[queue[i]] = content[queue[i]],
         \A t \in Threads : (IF pc[t] = "copyOut" THEN content[slot[t]] ELSE got[t])
                            = (IF pc'[t] = "copyOut" THEN content'[slot'[t]] ELSE got'[t])
  PROVE  Contents' = Contents /\ TakenMsgs' = TakenMsgs
BY DEF Contents, TakenMsgs

LEMMA TakeFreeRefines ==
  ASSUME IInv, Filled, NEW c \in Callers, NEW copy \in {"copyLast", "copyFirst"}, TakeFree(c, copy)
  PROVE  Filled' /\ Contents' = Contents /\ TakenMsgs' = TakenMsgs
<1>1. PICK s \in free : slot' = [slot EXCEPT ![c] = s]
  BY DEF TakeFree
<1>2. /\ pc[c] = "idle" /\ pc' = [pc EXCEPT ![c] = copy]
      /\ queue' = queue /\ content' = content /\ got' = got
  BY DEF TakeFree
<1>3. /\ pc'[c] = copy /\ \A d \in Callers : d # c => pc'[d] = pc[d] /\ slot'[d] = slot[d]
  BY <1>1, <1>2 DEF IInv, TypeOK
<1>4. Filled'
  BY <1>2, <1>3 DEF Filled
<1> QED BY <1>2, <1>3, <1>4, StutterRefines DEF Callers

LEMMA CopyInRefines ==
  ASSUME IInv, Filled, NEW c \in Callers, NEW m \in Messages, CopyIn(c, m)
  PROVE  Filled' /\ Contents' = Contents /\ TakenMsgs' = TakenMsgs
<1>1. /\ pc[c] \in {"copyLast", "copyFirst"} /\ content' = [content EXCEPT ![slot[c]] = m]
      /\ pc' = [pc EXCEPT ![c] = IF @ = "copyLast" THEN "linkLast" ELSE "linkFirst"]
      /\ queue' = queue /\ slot' = slot /\ got' = got
  BY DEF CopyIn
<1>2. Holding(c) /\ slot[c] \in Slots /\ slot[c] \notin Range(queue)
  BY <1>1 DEF Holding, Sending, IInv, SlotsConserved
<1>3. /\ pc'[c] \in {"linkLast", "linkFirst"} /\ content'[slot[c]] = m
      /\ \A d \in Callers : d # c => pc'[d] = pc[d]
  BY <1>1, <1>2 DEF IInv, TypeOK
<1>4. \A i \in DOMAIN queue : content'[queue[i]] = content[queue[i]]
  <2>1. \A i \in DOMAIN queue : queue[i] \in Slots /\ queue[i] # slot[c]
    BY <1>2 DEF Range, IInv, TypeOK
  <2> QED BY <1>1, <2>1 DEF IInv, TypeOK
<1>5. ASSUME NEW d \in Callers, d # c, Holding(d)
      PROVE  content'[slot[d]] = content[slot[d]]
  <2>1. slot[d] \in Slots /\ slot[d] # slot[c]
    BY <1>2, <1>5 DEF IInv, SlotsConserved
  <2> QED BY <1>1, <2>1 DEF IInv, TypeOK
<1>6. \A d \in Callers : pc[d] \in {"linkLast", "linkFirst", "copyOut"} => Holding(d)
  BY DEF Holding, Sending, Receiving
<1>7. Filled'
  BY <1>1, <1>3, <1>4, <1>5, <1>6 DEF Filled
<1> QED BY <1>1, <1>3, <1>4, <1>5, <1>6, <1>7, StutterRefines DEF Callers

(* Linking sends: to the end, or to the front.                             *)
LEMMA LinkRefines ==
  ASSUME IInv, Filled, NEW c \in Callers, NEW at \in {"linkLast", "linkFirst"},
         NEW linked, Link(c, at, linked),
         linked = IF at = "linkLast" THEN Append(queue, slot[c]) ELSE <<slot[c]>> \o queue
  PROVE  /\ Filled' /\ TakenMsgs' = TakenMsgs /\ Len(Contents) < Cardinality(Slots)
         /\ content[slot[c]] \in Messages
         /\ Contents' = IF at = "linkLast" THEN Append(Contents, content[slot[c]])
                                           ELSE <<content[slot[c]]>> \o Contents
<1>1. /\ pc[c] = at /\ queue' = linked /\ content' = content /\ got' = got
      /\ pc' = [pc EXCEPT ![c] = "idle"] /\ slot' = [slot EXCEPT ![c] = NoSlot]
  BY DEF Link
<1>2. Holding(c) /\ content[slot[c]] \in Messages /\ slot[c] \in Slots
  BY <1>1 DEF Holding, Sending, Filled, IInv, SlotsConserved
<1>3. /\ pc'[c] = "idle" /\ \A d \in Callers : d # c => pc'[d] = pc[d] /\ slot'[d] = slot[d]
  BY <1>1 DEF IInv, TypeOK
<1>4. TypeOK /\ queue \in Seq(Slots) /\ Len(queue) \in Nat
  BY DEF IInv, TypeOK
<1>5. /\ Contents \in Seq(Messages) /\ Len(Contents) = Len(queue)
      /\ \A i \in 1 .. Len(queue) : Contents[i] = content[queue[i]]
  BY <1>4, ContentsLemma
<1> DEFINE m == content[slot[c]]
           s == slot[c]
           sent == IF at = "linkLast" THEN Append(Contents, m) ELSE <<m>> \o Contents
<1>6. /\ linked \in Seq(Slots) /\ Len(linked) = Len(queue) + 1 /\ DOMAIN linked = 1 .. Len(queue) + 1
      /\ \A i \in 1 .. Len(queue) + 1 :
           linked[i] = IF at = "linkLast" THEN IF i = Len(queue) + 1 THEN s ELSE queue[i]
                       ELSE IF i = 1 THEN s ELSE queue[i - 1]
  <2>1. s \in Slots
    BY <1>2
  <2> HIDE DEF s
  <2>2. linked = IF at = "linkLast" THEN Append(queue, s) ELSE <<s>> \o queue
    BY DEF s
  <2>3. CASE at = "linkLast"
    BY <1>4, <2>1, <2>2, <2>3
  <2>4. CASE at = "linkFirst"
    <3>1. linked = <<s>> \o queue
      BY <2>2, <2>4
    <3>2. /\ <<s>> \o queue \in Seq(Slots) /\ Len(<<s>> \o queue) = Len(queue) + 1
          /\ \A i \in 1 .. Len(queue) + 1 : (<<s>> \o queue)[i] = IF i = 1 THEN s ELSE queue[i - 1]
      BY <1>4, <2>1, FrontLemma
    <3>3. DOMAIN linked = 1 .. Len(queue) + 1
      BY <3>1, <3>2, LenProperties
    <3> QED BY <2>4, <3>1, <3>2, <3>3
  <2> QED BY <2>3, <2>4
<1>7. /\ sent \in Seq(Messages) /\ Len(sent) = Len(queue) + 1
      /\ \A i \in 1 .. Len(queue) + 1 :
           sent[i] = IF at = "linkLast" THEN IF i = Len(queue) + 1 THEN m ELSE Contents[i]
                     ELSE IF i = 1 THEN m ELSE Contents[i - 1]
  <2>1. m \in Messages
    BY <1>2
  <2> HIDE DEF m
  <2>3. CASE at = "linkLast"
    BY <1>4, <1>5, <2>1, <2>3
  <2>4. CASE at = "linkFirst"
    <3>1. sent = <<m>> \o Contents
      BY <2>4
    <3>2. /\ <<m>> \o Contents \in Seq(Messages) /\ Len(<<m>> \o Contents) = Len(Contents) + 1
          /\ \A i \in 1 .. Len(Contents) + 1 : (<<m>> \o Contents)[i] = IF i = 1 THEN m ELSE Contents[i - 1]
      BY <1>5, <2>1, FrontLemma
    <3> QED BY <1>5, <2>4, <3>1, <3>2
  <2> QED BY <2>3, <2>4
<1> HIDE DEF sent
<1>8. ASSUME NEW i \in 1 .. Len(queue) + 1
      PROVE  content[linked[i]] = sent[i] /\ content[linked[i]] \in Messages
  <2>1. CASE at = "linkLast" /\ i = Len(queue) + 1
    BY <1>2, <1>4, <1>6, <1>7, <2>1
  <2>2. CASE at = "linkLast" /\ i # Len(queue) + 1
    <3>1. i \in 1 .. Len(queue) /\ linked[i] = queue[i] /\ sent[i] = Contents[i]
      BY <1>4, <1>6, <1>7, <2>2
    <3> QED BY <1>5, <3>1, ElementOfSeq
  <2>3. CASE at = "linkFirst" /\ i = 1
    BY <1>2, <1>4, <1>6, <1>7, <2>3
  <2>4. CASE at = "linkFirst" /\ i # 1
    <3>1. i - 1 \in 1 .. Len(queue) /\ linked[i] = queue[i - 1] /\ sent[i] = Contents[i - 1]
      BY <1>4, <1>6, <1>7, <2>4
    <3> QED BY <1>5, <3>1, ElementOfSeq
  <2> QED BY <2>1, <2>2, <2>3, <2>4
<1>9. Filled'
  BY <1>1, <1>3, <1>6, <1>8 DEF Filled
<1>10. Contents' = sent
  <2>1. Contents' = [i \in 1 .. Len(queue) + 1 |-> content[linked[i]]]
    BY <1>1, <1>6 DEF Contents
  <2>2. sent = [i \in 1 .. Len(queue) + 1 |-> sent[i]]
    BY <1>7, <1>4
  <2> QED BY <1>8, <2>1, <2>2
<1>11. TakenMsgs' = TakenMsgs
  BY <1>1, <1>3 DEF TakenMsgs, Callers
<1> QED BY <1>2, <1>5, <1>9, <1>10, <1>11, RoomLemma DEF sent

(* Unlinking receives.                                                     *)
LEMMA UnlinkRefines ==
  ASSUME IInv, Filled, NEW t \in Threads, Unlink(t), pc[t] \in {"idle", "waiting"}
  PROVE  /\ Filled' /\ Contents # <<>>
         /\ Contents' = Tail(Contents) /\ TakenMsgs' = [TakenMsgs EXCEPT ![t] = Head(Contents)]
<1>1. /\ entry > 0 /\ slot' = [slot EXCEPT ![t] = queue[1]] /\ queue' = Tail(queue)
      /\ pc' = [pc EXCEPT ![t] = "copyOut"] /\ content' = content /\ got' = got
  BY DEF Unlink
<1>2. TypeOK /\ queue \in Seq(Slots) /\ Len(queue) \in Nat \ {0} /\ DOMAIN queue = 1 .. Len(queue)
  BY <1>1 DEF IInv, TypeOK, EntryCounts
<1>3. /\ Contents \in Seq(Messages) /\ Len(Contents) = Len(queue)
      /\ \A i \in 1 .. Len(queue) : Contents[i] = content[queue[i]]
  BY <1>2, ContentsLemma
<1>4. queue # <<>> /\ Contents # <<>>
  BY <1>2, <1>3, EmptySeq
<1>5. /\ Tail(queue) \in Seq(Slots) /\ Len(Tail(queue)) = Len(queue) - 1
      /\ \A i \in 1 .. Len(queue) - 1 : Tail(queue)[i] = queue[i + 1]
  BY <1>2, <1>4, RestLemma
<1>6. /\ Tail(Contents) \in Seq(Messages) /\ Len(Tail(Contents)) = Len(queue) - 1
      /\ \A i \in 1 .. Len(queue) - 1 : Tail(Contents)[i] = Contents[i + 1]
      /\ Head(Contents) = Contents[1]
  BY <1>3, <1>4, RestLemma
<1> DEFINE r == Tail(queue)
           s == Tail(Contents)
<1>7. DOMAIN r = 1 .. Len(queue) - 1 /\ s = [i \in 1 .. Len(queue) - 1 |-> s[i]]
  <2>1. r \in Seq(Slots) /\ Len(r) = Len(queue) - 1 /\ s \in Seq(Messages) /\ Len(s) = Len(queue) - 1
    BY <1>5, <1>6
  <2> HIDE DEF r, s
  <2>2. DOMAIN r = 1 .. Len(queue) - 1 /\ s \in [1 .. Len(queue) - 1 -> Messages]
    BY <2>1, LenProperties
  <2> QED BY <2>2
<1>8. ASSUME NEW i \in 1 .. Len(queue) - 1
      PROVE  content[r[i]] = s[i] /\ content[r[i]] \in Messages
  <2>1. i + 1 \in 1 .. Len(queue)
    BY <1>2
  <2>2. content[r[i]] = content[queue[i + 1]] /\ s[i] = Contents[i + 1]
    BY <1>5, <1>6
  <2> QED BY <1>2, <1>3, <2>1, <2>2, ElementOfSeq DEF Filled
<1>9. /\ pc'[t] = "copyOut" /\ slot'[t] = queue[1] /\ t \in Callers
      /\ \A d \in Callers : d # t => pc'[d] = pc[d] /\ slot'[d] = slot[d]
  BY <1>1 DEF IInv, TypeOK, Callers
<1>10. content[queue[1]] = Head(Contents) /\ content[queue[1]] \in Messages
  BY <1>2, <1>3, <1>6 DEF Filled
<1>11. Filled'
  <2>1. queue' = r /\ content' = content
    BY <1>1
  <2> HIDE DEF r, s
  <2> QED BY <1>7, <1>8, <1>9, <1>10, <2>1 DEF Filled
<1>12. Contents' = s
  <2>1. queue' = r /\ content' = content
    BY <1>1
  <2> HIDE DEF r, s
  <2>2. Contents' = [i \in 1 .. Len(queue) - 1 |-> content[r[i]]]
    BY <1>7, <2>1 DEF Contents
  <2> QED BY <1>7, <1>8, <2>2
<1>13. TakenMsgs' = [TakenMsgs EXCEPT ![t] = Head(Contents)]
  <2> DEFINE h == Head(Contents)
  <2>1. content[queue[1]] = h
    BY <1>10
  <2> HIDE DEF h
  <2>2. ASSUME NEW u \in Threads
        PROVE  TakenMsgs'[u] = IF u = t THEN h ELSE TakenMsgs[u]
    BY <1>1, <1>9, <2>1 DEF TakenMsgs, Callers
  <2>3. TakenMsgs' = [u \in Threads |-> TakenMsgs'[u]] /\ DOMAIN TakenMsgs = Threads
    BY DEF TakenMsgs
  <2>4. TakenMsgs' = [TakenMsgs EXCEPT ![t] = h]
    BY <2>2, <2>3
  <2> QED BY <2>4 DEF h
<1> QED BY <1>4, <1>11, <1>12, <1>13

(* All that happens between is invisible.                                  *)
LEMMA QuietRefines ==
  ASSUME IInv, Filled, NEW t \in Threads,
         queue' = queue, content' = content,
         \/ CopyOut(t)
         \/ GiveBack(t)
         \/ pc[t] \notin {"copyOut"} /\ UNCHANGED <<slot, got>>
            /\ (pc' = pc \/ \E p \in {"idle", "waiting"} : pc' = [pc EXCEPT ![t] = p])
  PROVE  Filled' /\ Contents' = Contents /\ TakenMsgs' = TakenMsgs
<1>0. t \in Callers /\ TypeOK
  BY DEF Callers, IInv
<1>1. /\ \A d \in Callers : d # t => pc'[d] = pc[d] /\ slot'[d] = slot[d]
      /\ pc'[t] \in {"linkLast", "linkFirst", "copyOut"} => pc'[t] = pc[t] /\ slot'[t] = slot[t]
      /\ \A u \in Threads : u # t => got'[u] = got[u]
      /\ (IF pc[t] = "copyOut" THEN content[slot[t]] ELSE got[t]) =
         (IF pc'[t] = "copyOut" THEN content[slot'[t]] ELSE got'[t])
  <2>1. CASE CopyOut(t)
    BY <1>0, <2>1 DEF CopyOut, TypeOK
  <2>2. CASE GiveBack(t)
    BY <1>0, <2>2 DEF GiveBack, TypeOK
  <2>3. CASE pc[t] \notin {"copyOut"} /\ UNCHANGED <<slot, got>>
             /\ (pc' = pc \/ \E p \in {"idle", "waiting"} : pc' = [pc EXCEPT ![t] = p])
    BY <1>0, <2>3 DEF TypeOK
  <2> QED BY <2>1, <2>2, <2>3
<1>2. Filled'
  BY <1>1 DEF Filled
<1>3. \A u \in Threads : (IF pc[u] = "copyOut" THEN content[slot[u]] ELSE got[u])
                         = (IF pc'[u] = "copyOut" THEN content'[slot'[u]] ELSE got'[u])
  BY <1>1 DEF Callers
<1> QED BY <1>2, <1>3, StutterRefines

(* A step of the queue is a step of the bounded queue, or none.            *)
QStep == \/ \E m \in Messages : /\ Len(Contents) < Cardinality(Slots) /\ TakenMsgs' = TakenMsgs
                                /\ Contents' \in {Append(Contents, m), <<m>> \o Contents}
         \/ \E t \in Threads : /\ Contents # <<>> /\ Contents' = Tail(Contents)
                               /\ TakenMsgs' = [TakenMsgs EXCEPT ![t] = Head(Contents)]
         \/ Contents' = <<>> /\ TakenMsgs' = TakenMsgs
         \/ Contents' = Contents /\ TakenMsgs' = TakenMsgs

LEMMA NextRefines == IInv /\ Filled /\ [Next]_vars => Filled' /\ QStep
<1> SUFFICES ASSUME IInv, Filled, [Next]_vars PROVE Filled' /\ QStep
  OBVIOUS
<1>1. ASSUME NEW c \in Callers, TakeFree(c, "copyLast") \/ TakeFree(c, "copyFirst")
      PROVE  Filled' /\ QStep
  BY <1>1, TakeFreeRefines DEF QStep
<1>2. ASSUME NEW c \in Callers, SendStep(c) PROVE Filled' /\ QStep
  <2>1. ASSUME NEW m \in Messages, CopyIn(c, m) PROVE Filled' /\ QStep
    BY <2>1, CopyInRefines DEF QStep
  <2>2. CASE LinkLast(c)
    <3>1. /\ Filled' /\ TakenMsgs' = TakenMsgs /\ Len(Contents) < Cardinality(Slots)
          /\ content[slot[c]] \in Messages /\ Contents' = Append(Contents, content[slot[c]])
      BY <2>2, LinkRefines DEF LinkLast
    <3> QED BY <3>1 DEF QStep
  <2>3. CASE LinkFirst(c)
    <3>1. /\ Filled' /\ TakenMsgs' = TakenMsgs /\ Len(Contents) < Cardinality(Slots)
          /\ content[slot[c]] \in Messages /\ Contents' = <<content[slot[c]]>> \o Contents
      BY <2>3, LinkRefines DEF LinkFirst
    <3> QED BY <3>1 DEF QStep
  <2> QED BY <1>2, <2>1, <2>2, <2>3 DEF SendStep
<1>3. ASSUME NEW t \in Threads, Unlink(t), pc[t] \in {"idle", "waiting"}
      PROVE  Filled' /\ QStep
  BY <1>3, UnlinkRefines DEF QStep
<1>4. ASSUME NEW t \in Threads, Suspend(t) \/ GiveUp(t), pc[t] \in {"idle", "waiting"}
      PROVE  Filled' /\ QStep
  BY <1>4, QuietRefines DEF Suspend, GiveUp, QStep
<1>5. ASSUME NEW t \in Threads, RecvStep(t) PROVE Filled' /\ QStep
  <2>1. CASE Retry(t)
    BY <1>3, <1>4, <2>1 DEF Retry, Woken
  <2>2. CASE Fail(t)
    BY <2>2, QuietRefines DEF Fail, QStep
  <2>3. CASE CopyOut(t)
    BY <2>3, QuietRefines DEF CopyOut, QStep
  <2>4. CASE GiveBack(t)
    BY <2>4, QuietRefines DEF GiveBack, QStep
  <2> QED BY <1>5, <2>1, <2>2, <2>3, <2>4 DEF RecvStep
<1>6. ASSUME NEW t \in Threads, Expire(t) PROVE Filled' /\ QStep
  <2>1. /\ queue' = queue /\ content' = content /\ pc' = pc /\ slot' = slot /\ got' = got
    BY <1>6 DEF Expire
  <2>2. Filled'
    BY <2>1 DEF Filled
  <2> QED BY <2>1, <2>2, StutterRefines DEF QStep
<1>7. ASSUME NEW t \in Threads, Reset(t) PROVE Filled' /\ QStep
  <2>1. /\ queue' = <<>> /\ content' = content /\ pc' = pc /\ slot' = slot /\ got' = got
    BY <1>7 DEF Reset
  <2>2. DOMAIN queue' = {}
    BY <2>1
  <2>3. Filled' /\ TakenMsgs' = TakenMsgs
    BY <2>1, <2>2 DEF Filled, TakenMsgs
  <2>4. Contents' = <<>>
    BY <2>2 DEF Contents
  <2> QED BY <2>3, <2>4 DEF QStep
<1>8. ASSUME NEW t \in Threads, NEW limit \in Timeouts, Receive(t, limit)
      PROVE  Filled' /\ QStep
  BY <1>3, <1>4, <1>8 DEF Receive
<1>9. CASE UNCHANGED vars
  <2>1. /\ queue' = queue /\ content' = content /\ pc' = pc /\ slot' = slot /\ got' = got
    BY <1>9 DEF vars
  <2>2. Filled'
    BY <2>1 DEF Filled
  <2> QED BY <2>1, <2>2, StutterRefines DEF QStep
<1> QED BY <1>1, <1>2, <1>5, <1>6, <1>7, <1>8, <1>9 DEF Next

(* The queue of the kernel, with its slots, copies outside of critical     *)
(* sections, wake-ups, timeouts and resets, is a bounded queue: a message  *)
(* is sent, and received, in one step, once, and as it was sent.           *)
THEOREM QueueIsABoundedQueue == Spec => ImplementsQueue
<1>1. QStep => [Abstract!QNext]_(Abstract!qvars)
  <2> SUFFICES ASSUME QStep PROVE [Abstract!QNext]_(Abstract!qvars)
    OBVIOUS
  <2> USE DEF Contents, TakenMsgs
  <2>1. ASSUME NEW m \in Messages, Len(Contents) < Cardinality(Slots), TakenMsgs' = TakenMsgs,
               Contents' = Append(Contents, m)
        PROVE  Abstract!SendLast(m)
    BY <2>1 DEF Abstract!SendLast
  <2>2. ASSUME NEW m \in Messages, Len(Contents) < Cardinality(Slots), TakenMsgs' = TakenMsgs,
               Contents' = <<m>> \o Contents
        PROVE  Abstract!SendFirst(m)
    BY <2>2 DEF Abstract!SendFirst
  <2>3. ASSUME NEW t \in Threads, Contents # <<>>, Contents' = Tail(Contents),
               TakenMsgs' = [TakenMsgs EXCEPT ![t] = Head(Contents)]
        PROVE  Abstract!ReceiveFirst(t)
    BY <2>3 DEF Abstract!ReceiveFirst
  <2>4. ASSUME Contents' = <<>>, TakenMsgs' = TakenMsgs
        PROVE  Abstract!Empty
    BY <2>4 DEF Abstract!Empty
  <2>5. ASSUME Contents' = Contents, TakenMsgs' = TakenMsgs
        PROVE  UNCHANGED Abstract!qvars
    BY <2>5 DEF Abstract!qvars
  <2> HIDE DEF Contents, TakenMsgs
  <2> QED BY <2>1, <2>2, <2>3, <2>4, <2>5 DEF QStep, Abstract!QNext
<1>2. IInv /\ Filled /\ [Next]_vars => Filled' /\ [Abstract!QNext]_(Abstract!qvars)
  BY <1>1, NextRefines
<1>3. Init => Filled /\ Abstract!QInit
  BY InitRefines
<1>4. Spec => Abstract!QInit /\ [][Abstract!QNext]_(Abstract!qvars)
  BY <1>2, <1>3, Invariance, PTL DEF Spec
<1> QED BY <1>4 DEF ImplementsQueue, Abstract!QSpec
=============================================================================
