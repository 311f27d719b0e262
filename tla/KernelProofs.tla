---------------------------- MODULE KernelProofs ----------------------------
(***************************************************************************)
(* Proofs about Kernel for any number of threads and priorities, any range *)
(* of the clock and any waiting times below half of it.                    *)
(*                                                                         *)
(* The properties of Kernel hold because of what the states of a thread    *)
(* mean (Staged), so that every list operation of a call finds the thread  *)
(* on the list where the call believes it to be (Queued).  The operators   *)
(* of the model go from kernel to kernel, and so do the lemmas: the first  *)
(* part says for each C function which fields it changes, what it does to  *)
(* the lists and to the timers; the second that each call and each handler *)
(* preserves the invariant.                                                *)
(***************************************************************************)
EXTENDS Kernel, SeqLemmas

(* A list of waiting threads is in the order of their priorities.          *)
Ascending(list, priority) ==
  \A i, j \in DOMAIN list : i < j => priority[list[i]] <= priority[list[j]]

(* Every list of the kernel k has the threads outside of X that belong on  *)
(* it, if the calls the threads are in are c and dead is d.                *)
Members(k, c, d, X) ==
  /\ \A p \in Priorities :
       Lists(k.ready[p],
             {t \in Threads \ X : k.stat[t] = "ready" /\ k.priority[t] = p})
  /\ \A o \in Objects :
       Lists(k.waiters[o],
             {t \in Threads \ X : k.stat[t] = "suspend" /\ c[t] = o})
  /\ Lists(k.defunct, {t \in Threads \ X : k.stat[t] = "close" /\ t # d})
  /\ k.flag = "PRIO" => Ascending(k.waiters["mutex"], k.priority)

Grouped(k) == k.group = {p \in Priorities : k.ready[p] # <<>>}

Queued(k, c, d) == Members(k, c, d, {}) /\ Grouped(k)

Entries == [thread : Threads, at : 0 .. TickMod - 1]

(* The timers of k in order, each due in lo ticks or later, each of another *)
(* thread, which is suspended.                                             *)
Left(k, i) == (k.timers[i].at - k.tick) % TickMod

Timed(k, lo) ==
  /\ \A i \in DOMAIN k.timers : /\ Left(k, i) \in lo .. Half - 1
                                /\ k.stat[k.timers[i].thread] = "suspend"
  /\ \A i, j \in DOMAIN k.timers :
       i < j => /\ Left(k, i) <= Left(k, j)
                /\ k.timers[i].thread # k.timers[j].thread

(* Thread t waits for the object o, in its call; has come out of the wait. *)
Waits(k, c, t, o) == k.stat[t] = "suspend" /\ c[t] = o
Woken(k, c, t, o) == k.stat[t] = "ready" /\ c[t] = o

(* The invariant is a predicate of the whole state, given as values: the   *)
(* kernel k, where the threads are p, their calls c, the threads in the    *)
(* heap h, the dead thread d and the number f of its blocks.               *)
Typed(k, p, c, h, d, f) ==
  /\ k \in Kernels
  /\ p \in [Threads -> {"run", "sched", "back"}]
  /\ c \in [Threads -> Objects \union {"none", "sleep", "exit"}]
  /\ h \subseteq Threads
  /\ d \in Workers \union {Nobody}
  /\ f \in 0 .. 2

(* What the state of a thread says of the call it is in.                   *)
Stage(t, at, call_, stat, error) ==
  /\ at = "run" => call_ = "none"
  /\ call_ = "none" => stat \in {"ready", "init"} /\ error = "ok"
  /\ stat = "suspend" => call_ \in Objects \union {"sleep"} /\ error = "ok"
  /\ stat = "close" => call_ = "exit" /\ t \in Workers \ Booted
  /\ stat = "init" => call_ \in {"none", "exit"} /\ t \in Workers \ Booted
  /\ call_ = "exit" => stat \in {"close", "init"}

Staged(k, p, c) ==
  \A t \in Threads : Stage(t, p[t], c[t], k.stat[t], k.error[t])

(* The current thread can run unless it is on its way to rt_schedule, and  *)
(* it never is on that way, having blocked, with the scheduler locked.     *)
CurrentOK(k, p, c) ==
  /\ \/ k.stat[k.current] = "ready"
     \/ k.stat[k.current] \in {"suspend", "close"} /\ p[k.current] = "sched"
  /\ p[k.current] = "sched" /\ c[k.current] # "none" => k.lock_nest = 0

(* RunsHighest                                                             *)
Highest(k, p) ==
  \/ k.lock_nest > 0
  \/ p[k.current] = "sched"
  \/ k.late
  \/ k.current = Head(k.ready[Min(k.group)])

(* The mutex has an owner exactly if it is taken, who has not exited, will *)
(* get its own priority back, and does not wait for it; the other clauses  *)
(* are WokenOwns, InheritsPriority and PriorityRestored.                   *)
MutexOK(k, c) ==
  /\ k.value["mutex"] \in {0, 1}
  /\ k.owner = Nobody <=> k.value["mutex"] = 1
  /\ k.owner = Nobody => /\ k.hold = 0
                         /\ \A t \in Threads : ~ Waits(k, c, t, "mutex")
  /\ k.owner # Nobody => /\ k.stat[k.owner] \in {"ready", "suspend"}
                         /\ k.original_priority = init_priority[k.owner]
                         /\ k.hold >= 1
                         /\ ~ Waits(k, c, k.owner, "mutex")
  /\ \A t \in Threads :
       /\ Woken(k, c, t, "mutex") => (k.error[t] = "ok" <=> k.owner = t)
       /\ k.flag = "PRIO" /\ Waits(k, c, t, "mutex") =>
            k.priority[k.owner] <= k.priority[t]
       /\ k.priority[t] <= init_priority[t]
       /\ k.priority[t] # init_priority[t] => k.owner = t

(* The one unit of heap_sem is in the semaphore, with the thread in the    *)
(* heap, or on its way to the thread it was given to.  Who waits finds it  *)
(* taken; the idle thread uses the heap only for a dead thread.            *)
OnWay(k, c) == {t \in Threads : Woken(k, c, t, "heap") /\ k.error[t] = "ok"}

OneUnit(value, h, w) ==
  \/ value = 1 /\ h = {} /\ w = {}
  \/ value = 0 /\ w = {} /\ \E t \in Threads : h = {t}
  \/ value = 0 /\ h = {} /\ \E t \in Threads : w = {t}

HeapOK(k, p, c, h) ==
  /\ OneUnit(k.value["heap"], h, OnWay(k, c))
  /\ \A t \in Threads : Waits(k, c, t, "heap") => k.value["heap"] = 0
  /\ \A t \in h : p[t] = "run" /\ k.stat[t] = "ready"

IdleOK(k, c, h, d, f) ==
  /\ c[Idle] \in {"none", "heap"}
  /\ Idle \in h \/ c[Idle] = "heap" => f > 0
  /\ f = 0 <=> d = Nobody
  /\ d # Nobody => k.stat[d] = "close"

(* A sleeping thread has a timer.                                          *)
HasTimer(k, t) == \E i \in DOMAIN k.timers : k.timers[i].thread = t

Sleepers(k, c) == \A t \in Threads : Waits(k, c, t, "sleep") => HasTimer(k, t)

Ordered(k, p, c, d) ==
  /\ Queued(k, c, d) /\ Timed(k, 1) /\ Sleepers(k, c)
  /\ Staged(k, p, c) /\ CurrentOK(k, p, c) /\ Highest(k, p)

Good(k, p, c, h, d, f) ==
  /\ Typed(k, p, c, h, d, f) /\ Ordered(k, p, c, d)
  /\ MutexOK(k, c) /\ HeapOK(k, p, c, h) /\ IdleOK(k, c, h, d, f)

IInv == Good(kernel, pc, call, inHeap, dead, frees)

-----------------------------------------------------------------------------
(* Fields that the operations on lists leave alone.                        *)
SameRest(s, k) ==
  /\ s.error = k.error /\ s.remaining_tick = k.remaining_tick
  /\ s.lock_nest = k.lock_nest /\ s.tick = k.tick /\ s.flag = k.flag
  /\ s.value = k.value /\ s.owner = k.owner
  /\ s.original_priority = k.original_priority /\ s.hold = k.hold

SameQueues(s, k) ==
  /\ s.ready = k.ready /\ s.group = k.group
  /\ s.waiters = k.waiters /\ s.defunct = k.defunct

LEMMA SetStat ==
  ASSUME NEW k \in Kernels, NEW v \in [Threads -> {"init", "ready", "suspend", "close"}]
  PROVE  LET s == [k EXCEPT !.stat = v] IN
         /\ s \in Kernels /\ s.stat = v
         /\ s.priority = k.priority /\ s.timers = k.timers /\ s.current = k.current /\ s.late = k.late
         /\ SameQueues(s, k) /\ SameRest(s, k)
<1> DEFINE s == [k EXCEPT !.stat = v]
<1>1. s \in Kernels
  BY ZenonT(60) DEF Kernels
<1>2. /\ s.stat = v
      /\ s.priority = k.priority /\ s.timers = k.timers /\ s.current = k.current /\ s.late = k.late
  BY DEF Kernels
<1>3. SameQueues(s, k)
  BY DEF Kernels, SameQueues
<1>4. SameRest(s, k)
  BY DEF Kernels, SameRest
<1> QED BY <1>1, <1>2, <1>3, <1>4

LEMMA SetPriority ==
  ASSUME NEW k \in Kernels, NEW v \in [Threads -> Priorities]
  PROVE  LET s == [k EXCEPT !.priority = v] IN
         /\ s \in Kernels /\ s.priority = v
         /\ s.stat = k.stat /\ s.timers = k.timers /\ s.current = k.current /\ s.late = k.late
         /\ SameQueues(s, k) /\ SameRest(s, k)
<1> DEFINE s == [k EXCEPT !.priority = v]
<1>1. s \in Kernels
  BY ZenonT(60) DEF Kernels
<1>2. /\ s.priority = v
      /\ s.stat = k.stat /\ s.timers = k.timers /\ s.current = k.current /\ s.late = k.late
  BY DEF Kernels
<1>3. SameQueues(s, k)
  BY DEF Kernels, SameQueues
<1>4. SameRest(s, k)
  BY DEF Kernels, SameRest
<1> QED BY <1>1, <1>2, <1>3, <1>4

LEMMA SetTimers ==
  ASSUME NEW k \in Kernels, NEW v \in Seq([thread : Threads, at : 0 .. TickMod - 1])
  PROVE  LET s == [k EXCEPT !.timers = v] IN
         /\ s \in Kernels /\ s.timers = v
         /\ s.stat = k.stat /\ s.priority = k.priority /\ s.current = k.current /\ s.late = k.late
         /\ SameQueues(s, k) /\ SameRest(s, k)
<1> DEFINE s == [k EXCEPT !.timers = v]
<1>1. s \in Kernels
  BY ZenonT(60) DEF Kernels
<1>2. /\ s.timers = v
      /\ s.stat = k.stat /\ s.priority = k.priority /\ s.current = k.current /\ s.late = k.late
  BY DEF Kernels
<1>3. SameQueues(s, k)
  BY DEF Kernels, SameQueues
<1>4. SameRest(s, k)
  BY DEF Kernels, SameRest
<1> QED BY <1>1, <1>2, <1>3, <1>4

LEMMA ConstantsLemma ==
  /\ Idle \in Threads /\ Workers \subseteq Threads /\ Nobody \notin Threads
  /\ Priorities \subseteq Nat
  /\ init_priority \in [Threads -> Priorities]
BY ThreadsAssumption DEF Threads, Priorities

(* The fields of a kernel have their types.                                *)
LEMMA FieldsLemma ==
  ASSUME NEW k \in Kernels
  PROVE  /\ k.stat \in [Threads -> {"init", "ready", "suspend", "close"}]
         /\ k.priority \in [Threads -> Priorities]
         /\ k.error \in [Threads -> {"ok", "timeout"}]
         /\ k.remaining_tick \in [Threads -> 1 .. init_tick]
         /\ k.ready \in [Priorities -> Seq(Threads)]
         /\ k.current \in Threads /\ k.lock_nest \in 0 .. MaxNest
         /\ k.timers \in Seq(Entries) /\ k.tick \in 0 .. TickMod - 1
         /\ k.defunct \in Seq(Threads)
         /\ k.waiters \in [Objects -> Seq(Threads)]
         /\ k.value \in [Objects -> Nat] /\ k.flag \in {"FIFO", "PRIO"}
         /\ k.owner \in Workers \union {Nobody} /\ k.hold \in 0 .. MaxHold
         /\ k.original_priority \in Priorities \union {255} /\ k.late \in BOOLEAN
BY DEF Kernels, Entries

LEMMA EmptyLemma ==
  ASSUME NEW S, NEW s \in Seq(S)
  PROVE  s = <<>> <=> Range(s) = {}
<1>1. Len(s) \in Nat /\ DOMAIN s = 1..Len(s)
  OBVIOUS
<1>2. s = <<>> <=> Len(s) = 0
  BY EmptySeq
<1>3. Len(s) # 0 => s[1] \in Range(s)
  BY <1>1 DEF Range
<1>4. Len(s) = 0 => Range(s) = {}
  BY <1>1 DEF Range
<1> QED BY <1>2, <1>3, <1>4

LEMMA AscendingLemma ==
  ASSUME NEW priority, NEW r, NEW s, KeepsOrder(r, s), Ascending(s, priority)
  PROVE  Ascending(r, priority)
BY DEF KeepsOrder, Ascending

(* The first thread of the highest priority in the group is ready.         *)
LEMMA HighestLemma ==
  ASSUME NEW k \in Kernels, NEW c, NEW d, Queued(k, c, d), k.group # {}
  PROVE  LET h == Head(k.ready[Min(k.group)])
         IN  h \in Threads /\ k.stat[h] = "ready"
<1>1. k.group \subseteq Nat
  BY ConstantsLemma DEF Kernels
<1>2. PICK p : p = Min(k.group) /\ p \in k.group
  BY <1>1, MinLemma
<1>3. p \in Priorities /\ k.ready[p] \in Seq(Threads) /\ k.ready[p] # <<>>
  BY <1>2 DEF Kernels, Queued, Grouped
<1>4. PICK r : r = k.ready[p]
  OBVIOUS
<1>5. r[1] \in Threads /\ Head(r) = r[1] /\ 1 \in DOMAIN r
  BY <1>3, <1>4, RestLemma
<1>6. r[1] \in Range(r)
  BY <1>5 DEF Range
<1>7. Range(r) = {t \in Threads \ {} : k.stat[t] = "ready" /\ k.priority[t] = p}
  BY <1>3, <1>4 DEF Queued, Members, Lists
<1>8. k.stat[r[1]] = "ready"
  BY <1>6, <1>7
<1> QED BY <1>2, <1>4, <1>5, <1>8

LEMMA UnlinkFields ==
  ASSUME NEW k \in Kernels, NEW c, NEW d, NEW t \in Threads, Members(k, c, d, {})
  PROVE  LET s == Unlink(k, t) IN
         /\ s \in Kernels /\ SameRest(s, k)
         /\ s.stat = k.stat /\ s.priority = k.priority /\ s.group = k.group
         /\ s.timers = k.timers /\ s.current = k.current /\ s.late = k.late
         /\ s.ready = [p \in Priorities |-> RemoveFirst(k.ready[p], t)]
         /\ s.waiters = [o \in Objects |-> RemoveFirst(k.waiters[o], t)]
         /\ s.defunct = RemoveFirst(k.defunct, t)
<1> DEFINE s == Unlink(k, t)
<1>1. ASSUME NEW p \in Priorities PROVE RemoveFirst(k.ready[p], t) \in Seq(Threads)
  <2>1. k.ready[p] \in Seq(Threads) /\ IsInjective(k.ready[p])
    BY DEF Kernels, Members, Lists
  <2> QED BY <2>1, RemoveFirstLemma
<1>2. ASSUME NEW o \in Objects PROVE RemoveFirst(k.waiters[o], t) \in Seq(Threads)
  <2>1. k.waiters[o] \in Seq(Threads) /\ IsInjective(k.waiters[o])
    BY DEF Kernels, Members, Lists
  <2> QED BY <2>1, RemoveFirstLemma
<1>3. RemoveFirst(k.defunct, t) \in Seq(Threads)
  <2>1. k.defunct \in Seq(Threads) /\ IsInjective(k.defunct)
    BY DEF Kernels, Members, Lists
  <2> QED BY <2>1, RemoveFirstLemma
<1>4. /\ s.stat = k.stat /\ s.priority = k.priority /\ s.group = k.group
      /\ s.timers = k.timers /\ s.current = k.current /\ s.late = k.late
      /\ s.ready = [p \in Priorities |-> RemoveFirst(k.ready[p], t)]
      /\ s.waiters = [o \in Objects |-> RemoveFirst(k.waiters[o], t)]
      /\ s.defunct = RemoveFirst(k.defunct, t)
  BY DEF Kernels, Unlink
<1>5. SameRest(s, k)
  BY DEF Kernels, Unlink, SameRest
<1>6. s \in Kernels
  <2>1. [p \in Priorities |-> RemoveFirst(k.ready[p], t)] \in [Priorities -> Seq(Threads)]
    BY <1>1
  <2>2. [o \in Objects |-> RemoveFirst(k.waiters[o], t)] \in [Objects -> Seq(Threads)]
    BY <1>2
  <2> QED BY <2>1, <2>2, <1>3, ZenonT(60) DEF Kernels, Unlink
<1> QED BY <1>4, <1>5, <1>6

(* Off all lists: those that t was on have one thread less.                *)
LEMMA UnlinkLemma ==
  ASSUME NEW k \in Kernels, NEW c, NEW d, NEW t \in Threads, Members(k, c, d, {})
  PROVE  Members(Unlink(k, t), c, d, {t})
<1> DEFINE s == Unlink(k, t)
<1>0. /\ s.stat = k.stat /\ s.priority = k.priority /\ s.flag = k.flag
      /\ s.ready = [p \in Priorities |-> RemoveFirst(k.ready[p], t)]
      /\ s.waiters = [o \in Objects |-> RemoveFirst(k.waiters[o], t)]
      /\ s.defunct = RemoveFirst(k.defunct, t)
  BY UnlinkFields DEF SameRest
<1> HIDE DEF s
<1>1. ASSUME NEW S, NEW list \in Seq(Threads), Lists(list, S)
      PROVE  Lists(RemoveFirst(list, t), S \ {t})
  BY <1>1, RemoveFirstLemma DEF Lists
<1>2. ASSUME NEW p \in Priorities
      PROVE  Lists(s.ready[p],
               {u \in Threads \ {t} : s.stat[u] = "ready" /\ s.priority[u] = p})
  <2>0. k.ready[p] \in Seq(Threads)
    BY DEF Kernels
  <2>1. Lists(k.ready[p],
              {u \in Threads \ {} : k.stat[u] = "ready" /\ k.priority[u] = p})
    BY DEF Members
  <2>2. {u \in Threads \ {} : k.stat[u] = "ready" /\ k.priority[u] = p} \ {t}
          = {u \in Threads \ {t} : s.stat[u] = "ready" /\ s.priority[u] = p}
    BY <1>0
  <2>3. s.ready[p] = RemoveFirst(k.ready[p], t)
    BY <1>0
  <2> QED BY <1>1, <2>0, <2>1, <2>2, <2>3
<1>3. ASSUME NEW o \in Objects
      PROVE  Lists(s.waiters[o],
               {u \in Threads \ {t} : s.stat[u] = "suspend" /\ c[u] = o})
  <2>0. k.waiters[o] \in Seq(Threads)
    BY DEF Kernels
  <2>1. Lists(k.waiters[o], {u \in Threads \ {} : k.stat[u] = "suspend" /\ c[u] = o})
    BY DEF Members
  <2>2. {u \in Threads \ {} : k.stat[u] = "suspend" /\ c[u] = o} \ {t}
          = {u \in Threads \ {t} : s.stat[u] = "suspend" /\ c[u] = o}
    BY <1>0
  <2>3. s.waiters[o] = RemoveFirst(k.waiters[o], t)
    BY <1>0
  <2> QED BY <1>1, <2>0, <2>1, <2>2, <2>3
<1>4. Lists(s.defunct, {u \in Threads \ {t} : s.stat[u] = "close" /\ u # d})
  <2>0. k.defunct \in Seq(Threads)
    BY DEF Kernels
  <2>1. Lists(k.defunct, {u \in Threads \ {} : k.stat[u] = "close" /\ u # d})
    BY DEF Members
  <2>2. {u \in Threads \ {} : k.stat[u] = "close" /\ u # d} \ {t}
          = {u \in Threads \ {t} : s.stat[u] = "close" /\ u # d}
    BY <1>0
  <2> QED BY <1>0, <1>1, <2>0, <2>1, <2>2
<1>5. ASSUME s.flag = "PRIO" PROVE Ascending(s.waiters["mutex"], s.priority)
  <2>0. "mutex" \in Objects
    BY DEF Objects
  <2>1. Ascending(k.waiters["mutex"], k.priority)
    BY <1>0, <1>5 DEF Members
  <2>2. k.waiters["mutex"] \in Seq(Threads) /\ IsInjective(k.waiters["mutex"])
    BY <2>0 DEF Members, Lists, Kernels
  <2>3. KeepsOrder(RemoveFirst(k.waiters["mutex"], t), k.waiters["mutex"])
    BY <2>2, RemoveFirstLemma
  <2>4. s.waiters["mutex"] = RemoveFirst(k.waiters["mutex"], t)
    BY <1>0, <2>0
  <2> QED BY <1>0, <2>1, <2>3, <2>4, AscendingLemma
<1> QED BY <1>2, <1>3, <1>4, <1>5 DEF Members, s

LEMMA SameMembers ==
  ASSUME NEW k, NEW s, NEW c, NEW d, NEW X, Members(k, c, d, X),
         s.stat = k.stat, s.priority = k.priority, s.flag = k.flag,
         s.ready = k.ready, s.waiters = k.waiters, s.defunct = k.defunct
  PROVE  Members(s, c, d, X)
<1>1. ASSUME NEW p \in Priorities
      PROVE  Lists(s.ready[p], {t \in Threads \ X : s.stat[t] = "ready" /\ s.priority[t] = p})
  BY DEF Members
<1>2. ASSUME NEW o \in Objects
      PROVE  Lists(s.waiters[o], {t \in Threads \ X : s.stat[t] = "suspend" /\ c[t] = o})
  BY DEF Members
<1>3. Lists(s.defunct, {t \in Threads \ X : s.stat[t] = "close" /\ t # d})
  BY DEF Members
<1>4. s.flag = "PRIO" => Ascending(s.waiters["mutex"], s.priority)
  BY DEF Members
<1> QED BY <1>1, <1>2, <1>3, <1>4 DEF Members

LEMMA InsertThreadFields ==
  ASSUME NEW k \in Kernels, NEW t \in Threads
  PROVE  LET s == InsertThread(k, t)
             p == k.priority[t]
         IN
         /\ s \in Kernels /\ SameRest(s, k)
         /\ s.stat = [k.stat EXCEPT ![t] = "ready"]
         /\ s.priority = k.priority /\ s.timers = k.timers
         /\ s.current = k.current /\ s.late = k.late
         /\ s.waiters = k.waiters /\ s.defunct = k.defunct
         /\ s.ready = [k.ready EXCEPT ![p] = Append(k.ready[p], t)]
         /\ s.group = k.group \union {p}
<1> DEFINE s == InsertThread(k, t)
           p == k.priority[t]
<1>0. p \in Priorities /\ k.ready[p] \in Seq(Threads)
  BY DEF Kernels
<1>1. Append(k.ready[p], t) \in Seq(Threads)
  BY <1>0, AppendLemma
<1>2. /\ s.stat = [k.stat EXCEPT ![t] = "ready"]
      /\ s.priority = k.priority /\ s.timers = k.timers
      /\ s.current = k.current /\ s.late = k.late
      /\ s.waiters = k.waiters /\ s.defunct = k.defunct
      /\ s.ready = [k.ready EXCEPT ![p] = Append(k.ready[p], t)]
      /\ s.group = k.group \union {p}
  BY DEF Kernels, InsertThread
<1>3. SameRest(s, k)
  BY DEF Kernels, InsertThread, SameRest
<1>4. s \in Kernels
  <2>1. [k.stat EXCEPT ![t] = "ready"]
          \in [Threads -> {"init", "ready", "suspend", "close"}]
    BY DEF Kernels
  <2>2. [k.ready EXCEPT ![p] = Append(k.ready[p], t)] \in [Priorities -> Seq(Threads)]
    BY <1>0, <1>1 DEF Kernels
  <2>3. k.group \union {p} \in SUBSET Priorities
    BY <1>0 DEF Kernels
  <2> QED BY <2>1, <2>2, <2>3, ZenonT(60) DEF Kernels, InsertThread
<1> QED BY <1>2, <1>3, <1>4

(* To the end of the ready list of its priority: t was on no list.         *)
LEMMA InsertThreadLemma ==
  ASSUME NEW k \in Kernels, NEW c, NEW d, NEW t \in Threads,
         Members(k, c, d, {t}), Grouped(k)
  PROVE  Queued(InsertThread(k, t), c, d)
<1> DEFINE s == InsertThread(k, t)
<1>0. PICK p \in Priorities :
        /\ p = k.priority[t]
        /\ s.stat = [k.stat EXCEPT ![t] = "ready"]
        /\ s.priority = k.priority /\ s.flag = k.flag
        /\ s.waiters = k.waiters /\ s.defunct = k.defunct
        /\ s.ready = [k.ready EXCEPT ![p] = Append(k.ready[p], t)]
        /\ s.group = k.group \union {p}
  <2>1. k.priority[t] \in Priorities
    BY DEF Kernels
  <2>2. /\ s.stat = [k.stat EXCEPT ![t] = "ready"]
        /\ s.priority = k.priority /\ s.flag = k.flag
        /\ s.waiters = k.waiters /\ s.defunct = k.defunct
        /\ s.ready = [k.ready EXCEPT ![k.priority[t]] = Append(k.ready[k.priority[t]], t)]
        /\ s.group = k.group \union {k.priority[t]}
    BY InsertThreadFields DEF SameRest
  <2> HIDE DEF s
  <2> QED BY <2>1, <2>2
<1> HIDE DEF s
<1>1. /\ k.stat \in [Threads -> {"init", "ready", "suspend", "close"}]
      /\ k.ready \in [Priorities -> Seq(Threads)]
  BY DEF Kernels
<1>2. ASSUME NEW q \in Priorities
      PROVE  /\ Lists(s.ready[q], {u \in Threads \ {} :
                        s.stat[u] = "ready" /\ s.priority[u] = q})
             /\ s.ready[q] # <<>> <=> (k.ready[q] # <<>> \/ q = p)
  <2>1. PICK r \in Seq(Threads) : r = k.ready[q]
    BY <1>1
  <2>2. Lists(r, {u \in Threads \ {t} : k.stat[u] = "ready" /\ k.priority[u] = q})
    BY <2>1 DEF Members
  <2>3. CASE q = p
    <3>1. t \notin Range(r)
      BY <2>2 DEF Lists
    <3>2. {u \in Threads \ {} : s.stat[u] = "ready" /\ s.priority[u] = q}
            = {u \in Threads \ {t} : k.stat[u] = "ready" /\ k.priority[u] = q} \union {t}
      BY <1>0, <1>1, <2>3
    <3>3. s.ready[q] = Append(r, t)
      BY <1>0, <1>1, <2>1, <2>3
    <3>4. /\ Range(Append(r, t)) = Range(r) \union {t}
          /\ IsInjective(Append(r, t)) /\ Append(r, t) # <<>>
      BY <2>2, <3>1, AppendLemma DEF Lists
    <3> QED BY <2>2, <2>3, <3>2, <3>3, <3>4 DEF Lists
  <2>4. CASE q # p
    <3>1. {u \in Threads \ {} : s.stat[u] = "ready" /\ s.priority[u] = q}
            = {u \in Threads \ {t} : k.stat[u] = "ready" /\ k.priority[u] = q}
      BY <1>0, <1>1, <2>4
    <3>2. s.ready[q] = r
      BY <1>0, <1>1, <2>1, <2>4
    <3> QED BY <2>1, <2>2, <2>4, <3>1, <3>2
  <2> QED BY <2>3, <2>4
<1>3. ASSUME NEW o \in Objects
      PROVE  Lists(s.waiters[o],
               {u \in Threads \ {} : s.stat[u] = "suspend" /\ c[u] = o})
  <2>1. Lists(k.waiters[o], {u \in Threads \ {t} : k.stat[u] = "suspend" /\ c[u] = o})
    BY DEF Members
  <2>2. {u \in Threads \ {} : s.stat[u] = "suspend" /\ c[u] = o}
          = {u \in Threads \ {t} : k.stat[u] = "suspend" /\ c[u] = o}
    BY <1>0, <1>1
  <2> QED BY <1>0, <2>1, <2>2
<1>4. Lists(s.defunct, {u \in Threads \ {} : s.stat[u] = "close" /\ u # d})
  <2>1. Lists(k.defunct, {u \in Threads \ {t} : k.stat[u] = "close" /\ u # d})
    BY DEF Members
  <2>2. {u \in Threads \ {} : s.stat[u] = "close" /\ u # d}
          = {u \in Threads \ {t} : k.stat[u] = "close" /\ u # d}
    BY <1>0, <1>1
  <2> QED BY <1>0, <2>1, <2>2
<1>5. s.flag = "PRIO" => Ascending(s.waiters["mutex"], s.priority)
  BY <1>0 DEF Members
<1>6. Grouped(s)
  BY <1>0, <1>2 DEF Grouped
<1>7. Members(s, c, d, {})
  BY <1>2, <1>3, <1>4, <1>5 DEF Members
<1> QED BY <1>6, <1>7 DEF Queued, s

LEMMA RemoveThreadLemma ==
  ASSUME NEW k \in Kernels, NEW c, NEW d, NEW t \in Threads,
         Queued(k, c, d), k.stat[t] = "ready"
  PROVE  LET s == RemoveThread(k, t) IN
         /\ s \in Kernels /\ SameRest(s, k)
         /\ s.stat = k.stat /\ s.priority = k.priority /\ s.timers = k.timers
         /\ s.current = k.current /\ s.late = k.late
         /\ Members(s, c, d, {t}) /\ Grouped(s)
<1> DEFINE a == Unlink(k, t)
           p == k.priority[t]
           s == RemoveThread(k, t)
<1>0. Members(k, c, d, {}) /\ Grouped(k)
  BY DEF Queued
<1>1. /\ a \in Kernels /\ SameRest(a, k)
      /\ a.stat = k.stat /\ a.priority = k.priority /\ a.group = k.group
      /\ a.timers = k.timers /\ a.current = k.current /\ a.late = k.late
      /\ a.ready = [q \in Priorities |-> RemoveFirst(k.ready[q], t)]
      /\ Members(a, c, d, {t})
  BY <1>0, UnlinkFields, UnlinkLemma, ZenonT(60)
<1>2. PICK g \in SUBSET Priorities :
        /\ g = IF a.ready[p] = <<>> THEN a.group \ {p} ELSE a.group
        /\ s = [a EXCEPT !.group = g]
  <2>1. a.group \in SUBSET Priorities
    BY <1>1 DEF Kernels
  <2>2. s = [a EXCEPT !.group = IF a.ready[p] = <<>> THEN a.group \ {p} ELSE a.group]
    BY DEF RemoveThread
  <2> HIDE DEF a, s, p
  <2> QED BY <2>1, <2>2
<1> HIDE DEF a, s
<1>3. /\ s.stat = a.stat /\ s.priority = a.priority /\ s.timers = a.timers
      /\ s.current = a.current /\ s.late = a.late /\ s.ready = a.ready
      /\ s.waiters = a.waiters /\ s.defunct = a.defunct
      /\ s.group = g
  BY <1>1, <1>2 DEF Kernels
<1>4. SameRest(s, a)
  BY <1>1, <1>2 DEF Kernels, SameRest
<1>5. s \in Kernels
  <2>1. a \in Kernels /\ s = [a EXCEPT !.group = g]
    BY <1>1, <1>2
  <2> QED BY <2>1, ZenonT(60) DEF Kernels
<1>6. SameRest(s, k)
  BY <1>1, <1>4 DEF SameRest
<1>7. ASSUME NEW q \in Priorities, q # p PROVE a.ready[q] = <<>> <=> k.ready[q] = <<>>
  <2>1. /\ Range(k.ready[q]) = {u \in Threads \ {} : k.stat[u] = "ready" /\ k.priority[u] = q}
        /\ IsInjective(k.ready[q])
    BY <1>0 DEF Members, Lists
  <2>2. t \notin Range(k.ready[q])
    BY <1>7, <2>1
  <2>3. k.ready[q] \in Seq(Threads)
    BY DEF Kernels
  <2>4. /\ Range(RemoveFirst(k.ready[q], t)) = Range(k.ready[q])
        /\ RemoveFirst(k.ready[q], t) \in Seq(Threads)
    BY <2>1, <2>2, <2>3, RemoveFirstLemma
  <2>5. RemoveFirst(k.ready[q], t) = <<>> <=> k.ready[q] = <<>>
    BY <2>3, <2>4, EmptyLemma
  <2> QED BY <1>1, <2>5
<1>8. p \in Priorities /\ k.ready[p] # <<>>
  <2>1. p \in Priorities
    BY DEF Kernels
  <2>2. Range(k.ready[p]) = {u \in Threads \ {} : k.stat[u] = "ready" /\ k.priority[u] = p}
    BY <1>0, <2>1 DEF Members, Lists
  <2>3. t \in Range(k.ready[p])
    BY <2>2
  <2>4. k.ready[p] \in Seq(Threads)
    BY <2>1 DEF Kernels
  <2> QED BY <2>1, <2>3, <2>4, EmptyLemma
<1>9. Grouped(s)
  BY <1>0, <1>1, <1>2, <1>3, <1>7, <1>8 DEF Grouped
<1>10. Members(s, c, d, {t})
  <2>1. s.flag = a.flag
    BY <1>4 DEF SameRest
  <2> QED BY <1>1, <1>3, <2>1, SameMembers
<1> QED BY <1>1, <1>3, <1>5, <1>6, <1>9, <1>10 DEF s

(* rt_thread_control: a thread that does not wait for the mutex moves to   *)
(* the list of its new priority, if it is ready.                           *)
LEMMA ChangePriorityLemma ==
  ASSUME NEW k \in Kernels, NEW c, NEW d, NEW t \in Threads, NEW p \in Priorities,
         Queued(k, c, d),
         ~ (k.stat[t] = "suspend" /\ c[t] = "mutex")
  PROVE  LET s == ChangePriority(k, t, p) IN
         /\ s \in Kernels /\ SameRest(s, k)
         /\ s.stat = k.stat /\ s.priority = [k.priority EXCEPT ![t] = p]
         /\ s.timers = k.timers /\ s.current = k.current /\ s.late = k.late
         /\ Queued(s, c, d)
<1> DEFINE s == ChangePriority(k, t, p)
<1>0. /\ k.stat \in [Threads -> {"init", "ready", "suspend", "close"}]
      /\ k.priority \in [Threads -> Priorities]
      /\ [k.priority EXCEPT ![t] = p] \in [Threads -> Priorities]
  BY DEF Kernels
<1>1. CASE k.stat[t] = "ready"
  <2> DEFINE a == RemoveThread(k, t)
             b == [a EXCEPT !.priority[t] = p]
  <2>1. /\ a \in Kernels /\ SameRest(a, k)
        /\ a.stat = k.stat /\ a.priority = k.priority /\ a.timers = k.timers
        /\ a.current = k.current /\ a.late = k.late
        /\ Members(a, c, d, {t}) /\ Grouped(a)
    BY <1>1, RemoveThreadLemma
  <2>2. s = InsertThread(b, t)
    BY <1>1 DEF ChangePriority
  <2> HIDE DEF a
  <2>3. /\ b \in Kernels
        /\ b.stat = a.stat /\ b.priority = [a.priority EXCEPT ![t] = p]
        /\ b.timers = a.timers /\ b.current = a.current /\ b.late = a.late
        /\ b.ready = a.ready /\ b.group = a.group /\ b.waiters = a.waiters
        /\ b.defunct = a.defunct
        /\ SameRest(b, a)
    <3>1. [a.priority EXCEPT ![t] = p] \in [Threads -> Priorities]
      BY <1>0, <2>1
    <3>2. a \in Kernels
      BY <2>1
    <3> QED BY <3>1, <3>2, SetPriority DEF SameQueues
  <2>4. SameRest(b, a)
    BY <2>3
  <2>5. SameRest(b, k)
    BY <2>1, <2>4 DEF SameRest
  <2>6. b.priority = [k.priority EXCEPT ![t] = p] /\ b.stat = k.stat
    BY <2>1, <2>3
  <2> HIDE DEF b
  <2>7. Members(b, c, d, {t}) /\ Grouped(b)
    <3>1. \A q \in Priorities :
            {u \in Threads \ {t} : b.stat[u] = "ready" /\ b.priority[u] = q}
              = {u \in Threads \ {t} : a.stat[u] = "ready" /\ a.priority[u] = q}
      BY <1>0, <2>1, <2>6
    <3>2. ASSUME NEW q \in Priorities
          PROVE  Lists(b.ready[q],
                   {u \in Threads \ {t} : b.stat[u] = "ready" /\ b.priority[u] = q})
      <4>1. Lists(a.ready[q],
                  {u \in Threads \ {t} : a.stat[u] = "ready" /\ a.priority[u] = q})
        BY <2>1 DEF Members
      <4> QED BY <2>3, <3>1, <4>1
    <3>3. ASSUME NEW o \in Objects
          PROVE  Lists(b.waiters[o],
                   {u \in Threads \ {t} : b.stat[u] = "suspend" /\ c[u] = o})
      BY <2>1, <2>3 DEF Members
    <3>4. Lists(b.defunct, {u \in Threads \ {t} : b.stat[u] = "close" /\ u # d})
      BY <2>1, <2>3 DEF Members
    <3>5. ASSUME b.flag = "PRIO" PROVE Ascending(b.waiters["mutex"], b.priority)
      <4>1. a.flag = "PRIO" /\ "mutex" \in Objects
        BY <2>4, <3>5 DEF SameRest, Objects
      <4>2. Ascending(a.waiters["mutex"], a.priority)
        BY <2>1, <4>1 DEF Members
      <4>3. t \notin Range(a.waiters["mutex"])
        BY <2>1, <4>1 DEF Members, Lists
      <4>4. a.waiters["mutex"] \in Seq(Threads)
        BY <2>1, <4>1 DEF Kernels
      <4>5. PICK w \in Seq(Threads) : w = a.waiters["mutex"]
        BY <4>4
      <4>6. \A i \in DOMAIN w : w[i] \in Threads /\ w[i] # t
        BY <4>3, <4>5 DEF Range
      <4>7. \A i \in DOMAIN w : b.priority[w[i]] = a.priority[w[i]]
        BY <1>0, <2>1, <2>6, <4>6
      <4>8. Ascending(w, b.priority)
        BY <4>2, <4>5, <4>7 DEF Ascending
      <4> QED BY <2>3, <4>5, <4>8
    <3>6. Grouped(b)
      BY <2>1, <2>3 DEF Grouped
    <3> QED BY <3>2, <3>3, <3>4, <3>5, <3>6 DEF Members
  <2>8. PICK r : r = s
    OBVIOUS
  <2>9. /\ r \in Kernels /\ SameRest(r, b)
        /\ r.stat = [b.stat EXCEPT ![t] = "ready"]
        /\ r.priority = b.priority /\ r.timers = b.timers
        /\ r.current = b.current /\ r.late = b.late
    <3>1. b \in Kernels /\ r = InsertThread(b, t)
      BY <2>2, <2>3, <2>8
    <3> HIDE DEF s
    <3> QED BY <3>1, InsertThreadFields
  <2>10. Queued(r, c, d)
    BY <2>2, <2>3, <2>7, <2>8, InsertThreadLemma
  <2>11. r.stat = k.stat
    BY <1>0, <1>1, <2>6, <2>9
  <2>12. SameRest(r, k)
    BY <2>5, <2>9 DEF SameRest
  <2>13. /\ r.timers = k.timers /\ r.current = k.current /\ r.late = k.late
         /\ r.priority = [k.priority EXCEPT ![t] = p]
    BY <2>1, <2>3, <2>6, <2>9
  <2> HIDE DEF s
  <2>14. /\ s \in Kernels /\ SameRest(s, k)
         /\ s.stat = k.stat /\ s.priority = [k.priority EXCEPT ![t] = p]
         /\ s.timers = k.timers /\ s.current = k.current /\ s.late = k.late
         /\ Queued(s, c, d)
    BY <2>8, <2>9, <2>10, <2>11, <2>12, <2>13
  <2> QED BY <2>14 DEF s
<1>2. CASE k.stat[t] # "ready"
  <2>1. s = [k EXCEPT !.priority = [k.priority EXCEPT ![t] = p]]
    BY <1>2 DEF ChangePriority
  <2> HIDE DEF s
  <2>2. /\ s \in Kernels /\ SameRest(s, k)
        /\ s.stat = k.stat /\ s.priority = [k.priority EXCEPT ![t] = p]
        /\ s.timers = k.timers /\ s.current = k.current /\ s.late = k.late
        /\ s.ready = k.ready /\ s.group = k.group /\ s.waiters = k.waiters
        /\ s.defunct = k.defunct
    BY <1>0, <2>1, SetPriority DEF SameQueues
  <2>3. SameRest(s, k)
    BY <2>2
  <2>4. Members(k, c, d, {}) /\ Grouped(k)
    BY DEF Queued
  <2>5. ASSUME NEW q \in Priorities
        PROVE  Lists(s.ready[q],
                 {u \in Threads \ {} : s.stat[u] = "ready" /\ s.priority[u] = q})
    <3>1. Lists(k.ready[q],
                {u \in Threads \ {} : k.stat[u] = "ready" /\ k.priority[u] = q})
      BY <2>4 DEF Members
    <3>2. {u \in Threads \ {} : s.stat[u] = "ready" /\ s.priority[u] = q}
            = {u \in Threads \ {} : k.stat[u] = "ready" /\ k.priority[u] = q}
      BY <1>0, <1>2, <2>2
    <3> QED BY <2>2, <3>1, <3>2
  <2>6. ASSUME NEW o \in Objects
        PROVE  Lists(s.waiters[o],
                 {u \in Threads \ {} : s.stat[u] = "suspend" /\ c[u] = o})
    BY <2>2, <2>4 DEF Members
  <2>7. Lists(s.defunct, {u \in Threads \ {} : s.stat[u] = "close" /\ u # d})
    BY <2>2, <2>4 DEF Members
  <2>8. ASSUME s.flag = "PRIO" PROVE Ascending(s.waiters["mutex"], s.priority)
    <3>1. k.flag = "PRIO" /\ "mutex" \in Objects
      BY <2>3, <2>8 DEF SameRest, Objects
    <3>2. Ascending(k.waiters["mutex"], k.priority)
      BY <2>4, <3>1 DEF Members
    <3>3. t \notin Range(k.waiters["mutex"])
      BY <2>4, <3>1 DEF Members, Lists
    <3>4. k.waiters["mutex"] \in Seq(Threads)
      BY <3>1 DEF Kernels
    <3>5. PICK w \in Seq(Threads) : w = k.waiters["mutex"]
      BY <3>4
    <3>6. \A i \in DOMAIN w : w[i] \in Threads /\ w[i] # t
      BY <3>3, <3>5 DEF Range
    <3>7. \A i \in DOMAIN w : s.priority[w[i]] = k.priority[w[i]]
      BY <1>0, <2>2, <3>6
    <3>8. Ascending(w, s.priority)
      BY <3>2, <3>5, <3>7 DEF Ascending
    <3> QED BY <2>2, <3>5, <3>8
  <2>9. Grouped(s)
    BY <2>2, <2>4 DEF Grouped
  <2>10. Members(s, c, d, {})
    BY <2>5, <2>6, <2>7, <2>8 DEF Members
  <2>11. Queued(s, c, d)
    BY <2>9, <2>10 DEF Queued
  <2>12. /\ s \in Kernels /\ SameRest(s, k)
         /\ s.stat = k.stat /\ s.priority = [k.priority EXCEPT ![t] = p]
         /\ s.timers = k.timers /\ s.current = k.current /\ s.late = k.late
         /\ Queued(s, c, d)
    BY <2>2, <2>3, <2>11
  <2> QED BY <2>12 DEF s
<1> QED BY <1>1, <1>2

(* rt_thread_suspend of a ready thread: it is on no list then.             *)
LEMMA SuspendLemma ==
  ASSUME NEW k \in Kernels, NEW c, NEW d, NEW t \in Threads,
         Queued(k, c, d), k.stat[t] = "ready"
  PROVE  LET s == Suspend(k, t) IN
         /\ s \in Kernels /\ SameRest(s, k)
         /\ s.stat = [k.stat EXCEPT ![t] = "suspend"]
         /\ s.priority = k.priority
         /\ s.timers = k.timers /\ s.current = k.current /\ s.late = k.late
         /\ Members(s, c, d, {t}) /\ Grouped(s)
<1> DEFINE a == RemoveThread(k, t)
           s == Suspend(k, t)
<1>1. /\ a \in Kernels /\ SameRest(a, k)
      /\ a.stat = k.stat /\ a.priority = k.priority /\ a.timers = k.timers
      /\ a.current = k.current /\ a.late = k.late
      /\ Members(a, c, d, {t}) /\ Grouped(a)
  BY RemoveThreadLemma
<1>2. s = [a EXCEPT !.stat = [a.stat EXCEPT ![t] = "suspend"]]
  BY DEF Suspend
<1> HIDE DEF a, s
<1>3. [a.stat EXCEPT ![t] = "suspend"] \in [Threads -> {"init", "ready", "suspend", "close"}]
  BY <1>1 DEF Kernels
<1>4. /\ s \in Kernels /\ s.stat = [a.stat EXCEPT ![t] = "suspend"]
      /\ s.priority = a.priority /\ s.timers = a.timers
      /\ s.current = a.current /\ s.late = a.late
      /\ SameQueues(s, a) /\ SameRest(s, a)
  BY <1>1, <1>2, <1>3, SetStat
<1>5. SameRest(s, k) /\ s.stat = [k.stat EXCEPT ![t] = "suspend"]
  BY <1>1, <1>4 DEF SameRest
<1>6. Grouped(s)
  BY <1>1, <1>4 DEF Grouped, SameQueues
<1>7. ASSUME NEW u \in Threads \ {t} PROVE s.stat[u] = a.stat[u]
  BY <1>1, <1>4 DEF Kernels
<1>8. Members(s, c, d, {t})
  <2>1. ASSUME NEW q \in Priorities
        PROVE  Lists(s.ready[q],
                 {u \in Threads \ {t} : s.stat[u] = "ready" /\ s.priority[u] = q})
    <3>1. Lists(a.ready[q],
                {u \in Threads \ {t} : a.stat[u] = "ready" /\ a.priority[u] = q})
      BY <1>1 DEF Members
    <3>2. {u \in Threads \ {t} : s.stat[u] = "ready" /\ s.priority[u] = q}
            = {u \in Threads \ {t} : a.stat[u] = "ready" /\ a.priority[u] = q}
      BY <1>4, <1>7
    <3> QED BY <1>4, <3>1, <3>2 DEF SameQueues
  <2>2. ASSUME NEW o \in Objects
        PROVE  Lists(s.waiters[o],
                 {u \in Threads \ {t} : s.stat[u] = "suspend" /\ c[u] = o})
    <3>1. Lists(a.waiters[o],
                {u \in Threads \ {t} : a.stat[u] = "suspend" /\ c[u] = o})
      BY <1>1 DEF Members
    <3>2. {u \in Threads \ {t} : s.stat[u] = "suspend" /\ c[u] = o}
            = {u \in Threads \ {t} : a.stat[u] = "suspend" /\ c[u] = o}
      BY <1>7
    <3> QED BY <1>4, <3>1, <3>2 DEF SameQueues
  <2>3. Lists(s.defunct, {u \in Threads \ {t} : s.stat[u] = "close" /\ u # d})
    <3>1. Lists(a.defunct, {u \in Threads \ {t} : a.stat[u] = "close" /\ u # d})
      BY <1>1 DEF Members
    <3>2. {u \in Threads \ {t} : s.stat[u] = "close" /\ u # d}
            = {u \in Threads \ {t} : a.stat[u] = "close" /\ u # d}
      BY <1>7
    <3> QED BY <1>4, <3>1, <3>2 DEF SameQueues
  <2>4. s.flag = "PRIO" => Ascending(s.waiters["mutex"], s.priority)
    BY <1>1, <1>4 DEF Members, SameQueues, SameRest
  <2> QED BY <2>1, <2>2, <2>3, <2>4 DEF Members
<1>9. /\ s \in Kernels /\ SameRest(s, k)
      /\ s.stat = [k.stat EXCEPT ![t] = "suspend"]
      /\ s.priority = k.priority
      /\ s.timers = k.timers /\ s.current = k.current /\ s.late = k.late
      /\ Members(s, c, d, {t}) /\ Grouped(s)
  BY <1>1, <1>4, <1>5, <1>6, <1>8
<1> QED BY <1>9 DEF s

-----------------------------------------------------------------------------
(* The clock wraps: differences of ticks are taken modulo TickMod.         *)
LEMMA HalfLemma ==
  /\ TickMod \in Nat \ {0} /\ Half \in Nat /\ 2 * Half <= TickMod - 1
BY TicksAssumption DEF Half

LEMMA ModLemma ==
  ASSUME NEW M \in Nat \ {0}, NEW x \in Int, -M <= x, x < 2 * M
  PROVE  x % M = IF x < 0 THEN x + M ELSE IF x < M THEN x ELSE x - M
<1>1. CASE x < 0
  BY <1>1
<1>2. CASE x >= 0 /\ x < M
  BY <1>2
<1>3. CASE x >= M
  BY <1>3
<1> QED BY <1>1, <1>2, <1>3

(* A timer started for time ticks has time ticks left.                     *)
LEMMA StartedLemma ==
  ASSUME NEW now \in 0 .. TickMod - 1, NEW time \in 1 .. Half - 1
  PROVE  /\ (now + time) % TickMod \in 0 .. TickMod - 1
         /\ (((now + time) % TickMod) - now) % TickMod = time
<1> DEFINE at == (now + time) % TickMod
<1>1. TickMod \in Nat \ {0} /\ Half \in Nat /\ 2 * Half <= TickMod - 1
  BY HalfLemma
<1> HIDE DEF Half
<1>2. at = IF now + time < TickMod THEN now + time ELSE now + time - TickMod
  <2>1. PICK x \in Int : x = now + time
    OBVIOUS
  <2>2. -TickMod <= x /\ x < 2 * TickMod /\ ~ (x < 0)
    BY <1>1, <2>1
  <2>3. x % TickMod = IF x < 0 THEN x + TickMod
                      ELSE IF x < TickMod THEN x ELSE x - TickMod
    BY <1>1, <2>2, ModLemma
  <2>4. at = x % TickMod
    BY <2>1, Zenon
  <2> HIDE DEF at
  <2> QED BY <1>1, <2>1, <2>2, <2>3, <2>4
<1> HIDE DEF at
<1>3. at \in 0 .. TickMod - 1
  BY <1>1, <1>2
<1>4. (at - now) % TickMod = IF at - now < 0 THEN at - now + TickMod ELSE at - now
  <2>1. at - now \in Int /\ -TickMod <= at - now /\ at - now < TickMod
        /\ at - now < 2 * TickMod
    BY <1>1, <1>3
  <2> QED BY <1>1, <2>1, ModLemma
<1>5. (at - now) % TickMod = time
  BY <1>1, <1>2, <1>4
<1> QED BY <1>3, <1>5 DEF at

(* What is left of a time below half of the range.                         *)
LEMMA LeftLemma ==
  ASSUME NEW now \in 0 .. TickMod - 1, NEW at \in 0 .. TickMod - 1
  PROVE  (at - now) % TickMod = IF at < now THEN at - now + TickMod ELSE at - now
<1>1. TickMod \in Nat \ {0}
  BY HalfLemma
<1>2. /\ at - now \in Int /\ -TickMod <= at - now /\ at - now < TickMod
      /\ at - now < 2 * TickMod
  BY <1>1
<1>3. (at - now) % TickMod = IF at - now < 0 THEN at - now + TickMod ELSE at - now
  BY <1>1, <1>2, ModLemma
<1> QED BY <1>3

(* So the comparison of rt_timer_start orders the timers by what is left.  *)
LEMMA BeforeLemma ==
  ASSUME NEW now \in 0 .. TickMod - 1, NEW a \in 0 .. TickMod - 1,
         NEW b \in 0 .. TickMod - 1,
         (a - now) % TickMod \in 1 .. Half - 1,
         (b - now) % TickMod \in 1 .. Half - 1
  PROVE  Before(a, b) <=> (a - now) % TickMod < (b - now) % TickMod
<1>1. TickMod \in Nat \ {0} /\ Half \in Nat /\ 2 * Half <= TickMod - 1
  BY HalfLemma
<1>2. /\ (a - now) % TickMod = IF a < now THEN a - now + TickMod ELSE a - now
      /\ (b - now) % TickMod = IF b < now THEN b - now + TickMod ELSE b - now
      /\ (b - a) % TickMod = IF b < a THEN b - a + TickMod ELSE b - a
  BY LeftLemma
<1> DEFINE x == (a - now) % TickMod
           y == (b - now) % TickMod
           z == (b - a) % TickMod
<1>3. Before(a, b) <=> z \in 1 .. Half - 1
  BY DEF Before
<1>4. x \in 1 .. Half - 1 /\ y \in 1 .. Half - 1
  OBVIOUS
<1>5. /\ x = IF a < now THEN a - now + TickMod ELSE a - now
      /\ y = IF b < now THEN b - now + TickMod ELSE b - now
      /\ z = IF b < a THEN b - a + TickMod ELSE b - a
  BY <1>2
<1> HIDE DEF x, y, z, Half
<1>6. z \in 1 .. Half - 1 <=> x < y
  BY <1>1, <1>4, <1>5
<1> QED BY <1>3, <1>6 DEF x, y

(* And the next tick leaves one less of each.                              *)
LEMMA TickedLemma ==
  ASSUME NEW now \in 0 .. TickMod - 1, NEW at \in 0 .. TickMod - 1,
         (at - now) % TickMod \in 1 .. Half - 1
  PROVE  /\ (now + 1) % TickMod \in 0 .. TickMod - 1
         /\ (at - ((now + 1) % TickMod)) % TickMod = ((at - now) % TickMod) - 1
<1> DEFINE next == (now + 1) % TickMod
           x == (at - now) % TickMod
           y == (at - next) % TickMod
<1>1. TickMod \in Nat \ {0} /\ Half \in Nat /\ 2 * Half <= TickMod - 1
  BY HalfLemma
<1>2. next = IF now + 1 < TickMod THEN now + 1 ELSE now + 1 - TickMod
  <2>1. PICK z \in Int : z = now + 1
    OBVIOUS
  <2>2. -TickMod <= z /\ z < 2 * TickMod /\ ~ (z < 0)
    BY <1>1, <2>1
  <2>3. z % TickMod = IF z < 0 THEN z + TickMod
                      ELSE IF z < TickMod THEN z ELSE z - TickMod
    BY <1>1, <2>2, ModLemma
  <2>4. next = z % TickMod
    BY <2>1, Zenon
  <2> HIDE DEF next
  <2> QED BY <1>1, <2>1, <2>2, <2>3, <2>4
<1> HIDE DEF next
<1>3. next \in 0 .. TickMod - 1
  BY <1>1, <1>2
<1>4. /\ x = IF at < now THEN at - now + TickMod ELSE at - now
      /\ y = IF at < next THEN at - next + TickMod ELSE at - next
  BY <1>3, LeftLemma
<1>5. x \in 1 .. Half - 1
  OBVIOUS
<1> HIDE DEF x, y, Half
<1>6. y = x - 1
  BY <1>1, <1>2, <1>3, <1>4, <1>5
<1> QED BY <1>3, <1>6 DEF x, y, next

(* The test of rt_timer_check: due now, or not yet.                        *)
LEMMA DueLemma ==
  ASSUME NEW now \in 0 .. TickMod - 1, NEW at \in 0 .. TickMod - 1,
         (at - now) % TickMod \in 0 .. Half - 1
  PROVE  (now - at) % TickMod < Half <=> (at - now) % TickMod = 0
<1> DEFINE x == (at - now) % TickMod
           y == (now - at) % TickMod
<1>1. TickMod \in Nat \ {0} /\ Half \in Nat /\ 2 * Half <= TickMod - 1
  BY HalfLemma
<1>2. /\ x = IF at < now THEN at - now + TickMod ELSE at - now
      /\ y = IF now < at THEN now - at + TickMod ELSE now - at
  BY LeftLemma
<1>3. x \in 0 .. Half - 1
  OBVIOUS
<1> HIDE DEF x, y, Half
<1>4. y < Half <=> x = 0
  BY <1>1, <1>2, <1>3
<1> QED BY <1>4 DEF x, y

(* An entry inserted behind those that have less or as much left, before   *)
(* those that have more.                                                   *)
LEMMA InsertTimerLemma ==
  ASSUME NEW list \in Seq(Entries), NEW now \in 0 .. TickMod - 1, NEW e \in Entries,
         NEW i \in 1..(Len(list) + 1),
         (e.at - now) % TickMod \in 1 .. Half - 1,
         \A j \in DOMAIN list : (list[j].at - now) % TickMod \in 1 .. Half - 1,
         \A j, l \in DOMAIN list :
           j < l => (list[j].at - now) % TickMod <= (list[l].at - now) % TickMod,
         \A j \in DOMAIN list : j < i => ~ Before(e.at, list[j].at),
         i \in DOMAIN list => Before(e.at, list[i].at)
  PROVE  \A j, l \in DOMAIN InsertAt(list, i, e) :
           j < l => (InsertAt(list, i, e)[j].at - now) % TickMod
                      <= (InsertAt(list, i, e)[l].at - now) % TickMod
<1> DEFINE r == InsertAt(list, i, e)
           left(x) == (x.at - now) % TickMod
<1>1. /\ DOMAIN list = 1..Len(list) /\ Len(list) \in Nat
      /\ DOMAIN r = 1..(Len(list) + 1)
      /\ \A j \in 1..(Len(list) + 1) :
           /\ j < i => j \in DOMAIN list /\ r[j] = list[j]
           /\ j = i => r[j] = e
           /\ j > i => j - 1 \in DOMAIN list /\ r[j] = list[j - 1]
  BY InsertAtLemma
<1>2. left(e) \in 1 .. Half - 1 /\ Half \in Nat
  BY HalfLemma
<1>3. \A j \in DOMAIN list : left(list[j]) \in 1 .. Half - 1
  OBVIOUS
<1>4. \A j, l \in DOMAIN list : j < l => left(list[j]) <= left(list[l])
  OBVIOUS
<1>5. ASSUME NEW j \in DOMAIN list
      PROVE  Before(e.at, list[j].at) <=> left(e) < left(list[j])
  <2>0. list[j] \in Entries
    OBVIOUS
  <2>1. list[j].at \in 0 .. TickMod - 1 /\ e.at \in 0 .. TickMod - 1
    BY <2>0 DEF Entries
  <2> QED BY <2>1, BeforeLemma
<1> HIDE DEF r, left, Half
<1>6. \A j \in DOMAIN list : j < i => left(list[j]) <= left(e)
  BY <1>2, <1>3, <1>5
<1>7. ASSUME NEW j \in DOMAIN list, j >= i PROVE left(e) <= left(list[j])
  <2>1. i \in DOMAIN list
    BY <1>1, <1>7
  <2>2. left(e) < left(list[i])
    BY <1>5, <2>1
  <2>3. i = j \/ left(list[i]) <= left(list[j])
    BY <1>1, <1>4, <1>7, <2>1
  <2> QED BY <1>2, <1>3, <1>7, <2>1, <2>2, <2>3
<1>8. ASSUME NEW j \in DOMAIN r, NEW l \in DOMAIN r, j < l
      PROVE  left(r[j]) <= left(r[l])
  <2>0. j \in 1..(Len(list) + 1) /\ l \in 1..(Len(list) + 1)
    BY <1>1
  <2>1. CASE l < i
    BY <1>1, <1>4, <1>8, <2>0, <2>1
  <2>2. CASE l = i
    BY <1>1, <1>6, <1>8, <2>0, <2>2
  <2>3. CASE j < i /\ l > i
    <3>1. /\ j \in DOMAIN list /\ r[j] = list[j]
          /\ l - 1 \in DOMAIN list /\ r[l] = list[l - 1] /\ j < l - 1
      BY <1>1, <2>0, <2>3
    <3> QED BY <1>4, <3>1
  <2>4. CASE j = i
    <3>1. l - 1 \in DOMAIN list /\ r[l] = list[l - 1] /\ r[j] = e /\ l - 1 >= i
      BY <1>1, <1>8, <2>0, <2>4
    <3> QED BY <1>7, <3>1
  <2>5. CASE j > i
    <3>1. /\ j - 1 \in DOMAIN list /\ r[j] = list[j - 1]
          /\ l - 1 \in DOMAIN list /\ r[l] = list[l - 1] /\ j - 1 < l - 1
      BY <1>1, <1>8, <2>0, <2>5
    <3> QED BY <1>4, <3>1
  <2> QED BY <1>1, <1>8, <2>0, <2>1, <2>2, <2>3, <2>4, <2>5
<1>9. \A j, l \in DOMAIN r : j < l => left(r[j]) <= left(r[l])
  BY <1>8
<1> QED BY <1>9 DEF r, left

(* rt_timer_start of the timer of a thread that has just been suspended.   *)
LEMMA TimerStartLemma ==
  ASSUME NEW k \in Kernels, NEW t \in Threads, NEW time \in 1 .. Half - 1,
         Timed(k, 1), k.stat[t] = "suspend", ~ HasTimer(k, t)
  PROVE  LET s == TimerStart(k, t, time) IN
         /\ s \in Kernels /\ SameRest(s, k) /\ SameQueues(s, k)
         /\ s.stat = k.stat /\ s.priority = k.priority
         /\ s.current = k.current /\ s.late = k.late
         /\ Timed(s, 1)
         /\ \A u : HasTimer(s, u) <=> HasTimer(k, u) \/ u = t
<1> DEFINE s == TimerStart(k, t, time)
           at == (k.tick + time) % TickMod
           e == [thread |-> t, at |-> at]
           I == {i \in 1..Len(k.timers) : Before(at, k.timers[i].at)}
           later == IF I # {} THEN Min(I) ELSE 0
           place == IF later = 0 THEN Len(k.timers) + 1 ELSE later
<1>0. k.tick \in 0 .. TickMod - 1 /\ k.timers \in Seq(Entries)
  BY DEF Kernels, Entries
<1>1. at \in 0 .. TickMod - 1 /\ (at - k.tick) % TickMod = time
  BY <1>0, StartedLemma
<1>2. ~ \E x \in ToSet(k.timers) : x.thread = t
  BY DEF HasTimer, ToSet
<1>3. s = [k EXCEPT !.timers = InsertAt(k.timers, place, e)]
  BY <1>2 DEF TimerStart, SelectInSeq
<1>4. /\ DOMAIN k.timers = 1..Len(k.timers) /\ Len(k.timers) \in Nat
  BY <1>0
<1>5. /\ place \in 1..(Len(k.timers) + 1)
      /\ \A j \in DOMAIN k.timers : j < place => ~ Before(at, k.timers[j].at)
      /\ place \in DOMAIN k.timers => Before(at, k.timers[place].at)
  <2>1. CASE I = {}
    <3>1. place = Len(k.timers) + 1
      BY <2>1
    <3>2. \A j \in DOMAIN k.timers : ~ Before(at, k.timers[j].at)
      BY <1>4, <2>1
    <3> HIDE DEF place
    <3> QED BY <1>4, <3>1, <3>2
  <2>2. CASE I # {}
    <3>1. I \subseteq Nat
      BY <1>4
    <3>2. Min(I) \in I /\ \A m \in I : Min(I) <= m
      BY <2>2, <3>1, MinLemma
    <3>3. PICK m : m = Min(I) /\ m \in I /\ \A n \in I : m <= n
      BY <3>2
    <3>4. m \in 1..Len(k.timers) /\ Before(at, k.timers[m].at)
      BY <3>3
    <3>5. place = m
      BY <1>4, <2>2, <3>3, <3>4
    <3>6. ASSUME NEW j \in DOMAIN k.timers, j < m PROVE j \notin I
      <4>1. j \in Int /\ m \in Int /\ ~ (m <= j)
        BY <1>4, <3>4, <3>6
      <4> HIDE DEF I
      <4> QED BY <3>3, <4>1
    <3>7. \A j \in DOMAIN k.timers : j < m => ~ Before(at, k.timers[j].at)
      BY <1>4, <3>6
    <3> HIDE DEF place
    <3> QED BY <1>4, <3>4, <3>5, <3>7
  <2> QED BY <2>1, <2>2
<1>6. PICK i \in 1..(Len(k.timers) + 1) :
        /\ s = [k EXCEPT !.timers = InsertAt(k.timers, i, e)]
        /\ \A j \in DOMAIN k.timers : j < i => ~ Before(at, k.timers[j].at)
        /\ i \in DOMAIN k.timers => Before(at, k.timers[i].at)
  <2> HIDE DEF place, s, e, at
  <2> QED BY <1>3, <1>5
<1>7. PICK x \in Entries : x = e
  BY <1>1 DEF Entries
<1>8. x.thread = t /\ x.at = at
  BY <1>7
<1> HIDE DEF place, later, I, s, at, e
<1>9. PICK list \in Seq(Entries) : list = k.timers
  BY <1>0
<1>10. PICK now \in 0 .. TickMod - 1 : now = k.tick
  BY <1>0
<1>11. /\ \A j \in DOMAIN list : /\ (list[j].at - now) % TickMod \in 1 .. Half - 1
                                 /\ k.stat[list[j].thread] = "suspend"
                                 /\ list[j].thread # t
       /\ \A j, l \in DOMAIN list :
            j < l => /\ (list[j].at - now) % TickMod <= (list[l].at - now) % TickMod
                     /\ list[j].thread # list[l].thread
  BY <1>9, <1>10 DEF Timed, Left, HasTimer
<1> DEFINE r == InsertAt(list, i, x)
<1>12. /\ r \in Seq(Entries) /\ DOMAIN r = 1..(Len(list) + 1)
       /\ \A j \in 1..(Len(list) + 1) :
            /\ j < i => j \in DOMAIN list /\ r[j] = list[j]
            /\ j = i => r[j] = x
            /\ j > i => j - 1 \in DOMAIN list /\ r[j] = list[j - 1]
       /\ Range(r) = Range(list) \union {x}
  <2>1. i \in 1..(Len(list) + 1)
    BY <1>6, <1>9
  <2>2. r \in Seq(Entries) /\ Range(r) = Range(list) \union {x}
    BY <2>1, InsertAtLemma
  <2>3. /\ DOMAIN r = 1..(Len(list) + 1)
        /\ \A j \in 1..(Len(list) + 1) :
             /\ j < i => j \in DOMAIN list /\ r[j] = list[j]
             /\ j = i => r[j] = x
             /\ j > i => j - 1 \in DOMAIN list /\ r[j] = list[j - 1]
    BY <2>1, InsertAtLemma
  <2> HIDE DEF r
  <2> QED BY <2>2, <2>3
<1>13. \A j, l \in DOMAIN r :
         j < l => (r[j].at - now) % TickMod <= (r[l].at - now) % TickMod
  <2>1. (x.at - now) % TickMod \in 1 .. Half - 1
    BY <1>1, <1>8, <1>10
  <2>2. \A j \in DOMAIN list : j < i => ~ Before(x.at, list[j].at)
    BY <1>6, <1>8, <1>9
  <2>3. i \in DOMAIN list => Before(x.at, list[i].at)
    BY <1>6, <1>8, <1>9
  <2>4. i \in 1..(Len(list) + 1)
    BY <1>9
  <2> HIDE DEF Half
  <2> QED BY <1>11, <2>1, <2>2, <2>3, <2>4, InsertTimerLemma
<1> HIDE DEF r
<1>14. /\ s \in Kernels /\ SameRest(s, k) /\ SameQueues(s, k)
       /\ s.stat = k.stat /\ s.priority = k.priority
       /\ s.current = k.current /\ s.late = k.late
       /\ s.timers = r
  <2>1. s = [k EXCEPT !.timers = r]
    BY <1>6, <1>7, <1>9 DEF r
  <2>2. r \in Seq([thread : Threads, at : 0 .. TickMod - 1])
    BY <1>12 DEF Entries
  <2> QED BY <2>1, <2>2, SetTimers
<1>15. s.tick = now
  BY <1>10, <1>14 DEF SameRest
<1>16. ASSUME NEW j \in DOMAIN r
       PROVE  r[j] = x \/ \E l \in DOMAIN list : r[j] = list[l]
  <2>1. j \in 1..(Len(list) + 1) /\ (j < i \/ j = i \/ j > i)
    BY <1>12
  <2> QED BY <1>12, <2>1
<1>17. ASSUME NEW j \in DOMAIN r
       PROVE  /\ (r[j].at - now) % TickMod \in 1 .. Half - 1
              /\ s.stat[r[j].thread] = "suspend"
  <2>1. CASE r[j] = x
    BY <1>1, <1>8, <1>10, <1>14, <2>1
  <2>2. CASE \E l \in DOMAIN list : r[j] = list[l]
    BY <1>11, <1>14, <2>2
  <2> QED BY <1>16, <2>1, <2>2
<1>18. ASSUME NEW j \in DOMAIN r, NEW l \in DOMAIN r, j < l
       PROVE  r[j].thread # r[l].thread
  <2>0. /\ j \in 1..(Len(list) + 1) /\ l \in 1..(Len(list) + 1)
        /\ i \in Int /\ Len(list) \in Nat
    BY <1>9, <1>12
  <2>1. CASE l < i
    <3>1. j \in DOMAIN list /\ l \in DOMAIN list /\ r[j] = list[j] /\ r[l] = list[l]
      BY <1>12, <1>18, <2>0, <2>1
    <3> QED BY <1>11, <1>18, <3>1
  <2>2. CASE l = i
    <3>1. j \in DOMAIN list /\ r[j] = list[j] /\ r[l] = x
      BY <1>12, <1>18, <2>0, <2>2
    <3> QED BY <1>8, <1>11, <3>1
  <2>3. CASE j < i /\ l > i
    <3>1. /\ j \in DOMAIN list /\ r[j] = list[j]
          /\ l - 1 \in DOMAIN list /\ r[l] = list[l - 1] /\ j < l - 1
      BY <1>12, <2>0, <2>3
    <3> QED BY <1>11, <3>1
  <2>4. CASE j = i
    <3>1. l - 1 \in DOMAIN list /\ r[l] = list[l - 1] /\ r[j] = x
      BY <1>12, <1>18, <2>0, <2>4
    <3> QED BY <1>8, <1>11, <3>1
  <2>5. CASE j > i
    <3>1. /\ j - 1 \in DOMAIN list /\ r[j] = list[j - 1]
          /\ l - 1 \in DOMAIN list /\ r[l] = list[l - 1] /\ j - 1 < l - 1
      BY <1>12, <1>18, <2>0, <2>5
    <3> QED BY <1>11, <3>1
  <2> QED BY <1>18, <2>0, <2>1, <2>2, <2>3, <2>4, <2>5
<1>19. Timed(s, 1)
  BY <1>13, <1>14, <1>15, <1>17, <1>18 DEF Timed, Left
<1>20. ASSUME NEW u PROVE HasTimer(s, u) <=> HasTimer(k, u) \/ u = t
  <2>1. HasTimer(s, u) <=> \E y \in Range(r) : y.thread = u
    BY <1>14 DEF HasTimer, Range
  <2>2. HasTimer(k, u) <=> \E y \in Range(list) : y.thread = u
    BY <1>9 DEF HasTimer, Range
  <2> QED BY <1>8, <1>12, <2>1, <2>2
<1> QED BY <1>14, <1>19, <1>20 DEF s

(* A list of timers without one of them.                                   *)
LEMMA FewerTimersLemma ==
  ASSUME NEW k, NEW s, NEW lo, k.timers \in Seq(Entries), Timed(k, lo),
         NEW m \in DOMAIN k.timers, s.timers \in Seq(Entries),
         Range(s.timers) = Range(k.timers) \ {k.timers[m]},
         KeepsOrder(s.timers, k.timers),
         s.tick = k.tick, s.stat = k.stat
  PROVE  /\ Timed(s, lo)
         /\ ~ HasTimer(s, k.timers[m].thread)
         /\ \A u : u # k.timers[m].thread => (HasTimer(s, u) <=> HasTimer(k, u))
<1>1. /\ \A x \in Range(k.timers) : /\ (x.at - k.tick) % TickMod \in lo .. Half - 1
                                    /\ k.stat[x.thread] = "suspend"
      /\ \A i, j \in DOMAIN k.timers :
           i < j => /\ (k.timers[i].at - k.tick) % TickMod
                         <= (k.timers[j].at - k.tick) % TickMod
                    /\ k.timers[i].thread # k.timers[j].thread
  BY DEF Timed, Left, Range
<1>2. \A i \in DOMAIN s.timers : s.timers[i] \in Range(k.timers)
  BY DEF Range
<1>3. ASSUME NEW i \in DOMAIN s.timers
      PROVE  Left(s, i) \in lo .. Half - 1 /\ s.stat[s.timers[i].thread] = "suspend"
  BY <1>1, <1>2 DEF Left
<1>4. ASSUME NEW i \in DOMAIN s.timers, NEW j \in DOMAIN s.timers, i < j
      PROVE  Left(s, i) <= Left(s, j) /\ s.timers[i].thread # s.timers[j].thread
  <2>1. PICK a \in DOMAIN k.timers, b \in DOMAIN k.timers :
          a < b /\ k.timers[a] = s.timers[i] /\ k.timers[b] = s.timers[j]
    BY <1>4 DEF KeepsOrder
  <2> QED BY <1>1, <2>1 DEF Left
<1>5. Timed(s, lo)
  BY <1>3, <1>4 DEF Timed
<1>6. ASSUME NEW j \in DOMAIN k.timers, k.timers[j].thread = k.timers[m].thread
      PROVE  j = m
  <2>1. j \in Int /\ m \in Int
    OBVIOUS
  <2>2. ~ (j < m) /\ ~ (m < j)
    BY <1>1, <1>6
  <2> QED BY <2>1, <2>2
<1>7. ~ HasTimer(s, k.timers[m].thread)
  BY <1>2, <1>6 DEF HasTimer, Range
<1>8. ASSUME NEW u, u # k.timers[m].thread PROVE HasTimer(s, u) <=> HasTimer(k, u)
  <2>1. HasTimer(s, u) <=> \E y \in Range(s.timers) : y.thread = u
    BY DEF HasTimer, Range
  <2>2. HasTimer(k, u) <=> \E y \in Range(k.timers) : y.thread = u
    BY DEF HasTimer, Range
  <2> QED BY <1>8, <2>1, <2>2
<1> QED BY <1>5, <1>7, <1>8

LEMMA DistinctTimersLemma ==
  ASSUME NEW k, NEW lo, k.timers \in Seq(Entries), Timed(k, lo)
  PROVE  IsInjective(k.timers)
<1>1. ASSUME NEW i \in DOMAIN k.timers, NEW j \in DOMAIN k.timers,
             k.timers[i] = k.timers[j]
      PROVE  i = j
  <2>1. i \in Int /\ j \in Int
    OBVIOUS
  <2>2. ~ (i < j) /\ ~ (j < i)
    BY <1>1 DEF Timed
  <2> QED BY <2>1, <2>2
<1> QED BY <1>1 DEF IsInjective

(* rt_timer_stop                                                           *)
LEMMA TimerStopLemma ==
  ASSUME NEW k \in Kernels, NEW t \in Threads, NEW lo, Timed(k, lo)
  PROVE  LET s == TimerStop(k, t) IN
         /\ s \in Kernels /\ SameRest(s, k) /\ SameQueues(s, k)
         /\ s.stat = k.stat /\ s.priority = k.priority
         /\ s.current = k.current /\ s.late = k.late
         /\ Timed(s, lo) /\ ~ HasTimer(s, t)
         /\ \A u : u # t => (HasTimer(s, u) <=> HasTimer(k, u))
<1> DEFINE s == TimerStop(k, t)
           I == {i \in 1..Len(k.timers) : k.timers[i].thread = t}
<1>0. k.timers \in Seq(Entries)
  BY DEF Kernels, Entries
<1>1. DOMAIN k.timers = 1..Len(k.timers) /\ Len(k.timers) \in Nat
  BY <1>0
<1>2. CASE \E i \in 1..Len(k.timers) : k.timers[i].thread = t
  <2>1. I # {} /\ I \subseteq Nat
    BY <1>1, <1>2
  <2>2. s = [k EXCEPT !.timers = RemoveAt(k.timers, Min(I))]
    BY <1>2, <2>1 DEF TimerStop, RemoveFirstMatch, SelectInSeq
  <2>3. Min(I) \in I
    BY <2>1, MinLemma
  <2>4. Min(I) \in DOMAIN k.timers /\ k.timers[Min(I)].thread = t
    BY <1>1, <2>3
  <2>5. PICK m \in DOMAIN k.timers :
          k.timers[m].thread = t /\ s = [k EXCEPT !.timers = RemoveAt(k.timers, m)]
    BY <2>2, <2>4
  <2> DEFINE r == RemoveAt(k.timers, m)
  <2>6. /\ r \in Seq(Entries) /\ Range(r) = Range(k.timers) \ {k.timers[m]}
        /\ KeepsOrder(r, k.timers)
    BY <1>0, DistinctTimersLemma, RemoveAtLemma, RemoveAtOrder
  <2> HIDE DEF s, I, r
  <2>7. /\ s \in Kernels /\ SameRest(s, k) /\ SameQueues(s, k)
        /\ s.stat = k.stat /\ s.priority = k.priority
        /\ s.current = k.current /\ s.late = k.late
        /\ s.timers = r
    <3>1. s = [k EXCEPT !.timers = r]
      BY <2>5 DEF r
    <3>2. r \in Seq([thread : Threads, at : 0 .. TickMod - 1])
      BY <2>6 DEF Entries
    <3> QED BY <3>1, <3>2, SetTimers
  <2>8. s.tick = k.tick
    BY <2>7 DEF SameRest
  <2>9. /\ Timed(s, lo) /\ ~ HasTimer(s, t)
        /\ \A u : u # t => (HasTimer(s, u) <=> HasTimer(k, u))
    <3>1. /\ s.timers \in Seq(Entries)
          /\ Range(s.timers) = Range(k.timers) \ {k.timers[m]}
          /\ KeepsOrder(s.timers, k.timers)
          /\ s.tick = k.tick /\ s.stat = k.stat
      BY <2>6, <2>7, <2>8
    <3>2. /\ Timed(s, lo) /\ ~ HasTimer(s, k.timers[m].thread)
          /\ \A u : u # k.timers[m].thread => (HasTimer(s, u) <=> HasTimer(k, u))
      BY <1>0, <3>1, FewerTimersLemma
    <3> QED BY <2>5, <3>2
  <2>10. /\ s \in Kernels /\ SameRest(s, k) /\ SameQueues(s, k)
         /\ s.stat = k.stat /\ s.priority = k.priority
         /\ s.current = k.current /\ s.late = k.late
         /\ Timed(s, lo) /\ ~ HasTimer(s, t)
         /\ \A u : u # t => (HasTimer(s, u) <=> HasTimer(k, u))
    BY <2>7, <2>9
  <2> QED BY <2>10 DEF s
<1>3. CASE ~ \E i \in 1..Len(k.timers) : k.timers[i].thread = t
  <2>1. s = [k EXCEPT !.timers = k.timers]
    BY <1>3 DEF TimerStop, RemoveFirstMatch
  <2> HIDE DEF s
  <2>2. /\ s \in Kernels /\ SameRest(s, k) /\ SameQueues(s, k)
        /\ s.stat = k.stat /\ s.priority = k.priority
        /\ s.current = k.current /\ s.late = k.late
        /\ s.timers = k.timers
    <3>1. k.timers \in Seq([thread : Threads, at : 0 .. TickMod - 1])
      BY DEF Kernels
    <3> QED BY <2>1, <3>1, SetTimers
  <2>3. ~ HasTimer(k, t)
    BY <1>1, <1>3 DEF HasTimer
  <2>5. \A u : HasTimer(s, u) <=> HasTimer(k, u)
    BY <2>2 DEF HasTimer
  <2>6. Timed(s, lo)
    BY <2>2 DEF Timed, Left, SameRest
  <2>4. /\ s \in Kernels /\ SameRest(s, k) /\ SameQueues(s, k)
        /\ s.stat = k.stat /\ s.priority = k.priority
        /\ s.current = k.current /\ s.late = k.late
        /\ Timed(s, lo) /\ ~ HasTimer(s, t)
        /\ \A u : u # t => (HasTimer(s, u) <=> HasTimer(k, u))
    BY <2>2, <2>3, <2>5, <2>6
  <2> QED BY <2>4 DEF s
<1> QED BY <1>2, <1>3

-----------------------------------------------------------------------------
(* A thread that is not ready is on no ready list: the group stays right   *)
(* when it is unlinked.                                                    *)
LEMMA UnlinkGroupedLemma ==
  ASSUME NEW k \in Kernels, NEW c, NEW d, NEW t \in Threads,
         Queued(k, c, d), k.stat[t] # "ready"
  PROVE  Grouped(Unlink(k, t))
<1> DEFINE s == Unlink(k, t)
<1>0. Members(k, c, d, {}) /\ Grouped(k)
  BY DEF Queued
<1>1. /\ s.group = k.group
      /\ s.ready = [p \in Priorities |-> RemoveFirst(k.ready[p], t)]
  BY <1>0, UnlinkFields
<1> HIDE DEF s
<1>2. ASSUME NEW q \in Priorities PROVE s.ready[q] = <<>> <=> k.ready[q] = <<>>
  <2>1. /\ Range(k.ready[q]) = {u \in Threads \ {} : k.stat[u] = "ready" /\ k.priority[u] = q}
        /\ IsInjective(k.ready[q])
    BY <1>0 DEF Members, Lists
  <2>2. t \notin Range(k.ready[q])
    BY <2>1
  <2>3. k.ready[q] \in Seq(Threads)
    BY DEF Kernels
  <2>4. /\ Range(RemoveFirst(k.ready[q], t)) = Range(k.ready[q])
        /\ RemoveFirst(k.ready[q], t) \in Seq(Threads)
    BY <2>1, <2>2, <2>3, RemoveFirstLemma
  <2>5. RemoveFirst(k.ready[q], t) = <<>> <=> k.ready[q] = <<>>
    BY <2>3, <2>4, EmptyLemma
  <2> QED BY <1>1, <2>5
<1>3. Grouped(s)
  BY <1>0, <1>1, <1>2 DEF Grouped
<1> QED BY <1>3 DEF s

(* What a thread without a timer becomes does not matter to the timers.    *)
LEMMA TimedElsewhere ==
  ASSUME NEW k \in Kernels, NEW s, NEW lo, NEW t, NEW v, Timed(k, lo), ~ HasTimer(k, t),
         s.timers = k.timers, s.tick = k.tick, s.stat = [k.stat EXCEPT ![t] = v]
  PROVE  Timed(s, lo)
<1>1. k.stat \in [Threads -> {"init", "ready", "suspend", "close"}]
  BY DEF Kernels
<1>2. k.timers \in Seq(Entries)
  BY DEF Kernels, Entries
<1>3. ASSUME NEW i \in DOMAIN k.timers
      PROVE  Left(s, i) = Left(k, i) /\ s.stat[k.timers[i].thread] = k.stat[k.timers[i].thread]
  <2>1. Left(s, i) = Left(k, i)
    BY DEF Left
  <2>2. k.timers[i] \in Entries
    BY <1>2
  <2>3. k.timers[i].thread \in Threads /\ k.timers[i].thread # t
    BY <2>2 DEF HasTimer, Entries
  <2> QED BY <1>1, <2>1, <2>3
<1>4. ASSUME NEW i \in DOMAIN s.timers
      PROVE  Left(s, i) \in lo .. Half - 1 /\ s.stat[s.timers[i].thread] = "suspend"
  <2>1. i \in DOMAIN k.timers
    OBVIOUS
  <2>2. Left(k, i) \in lo .. Half - 1 /\ k.stat[k.timers[i].thread] = "suspend"
    BY <2>1 DEF Timed
  <2>3. s.timers[i] = k.timers[i]
    OBVIOUS
  <2>4. Left(s, i) = Left(k, i) /\ s.stat[k.timers[i].thread] = k.stat[k.timers[i].thread]
    BY <1>3, <2>1
  <2> QED BY <2>2, <2>3, <2>4
<1>5. ASSUME NEW i \in DOMAIN s.timers, NEW j \in DOMAIN s.timers, i < j
      PROVE  Left(s, i) <= Left(s, j) /\ s.timers[i].thread # s.timers[j].thread
  <2>1. i \in DOMAIN k.timers /\ j \in DOMAIN k.timers
    OBVIOUS
  <2>2. Left(k, i) <= Left(k, j) /\ k.timers[i].thread # k.timers[j].thread
    BY <1>5, <2>1 DEF Timed
  <2> QED BY <1>3, <2>1, <2>2
<1> QED BY <1>4, <1>5 DEF Timed

(* rt_thread_resume: off its wait list and its timer, onto its ready list. *)
LEMMA ResumeLemma ==
  ASSUME NEW k \in Kernels, NEW c, NEW d, NEW t \in Threads,
         Queued(k, c, d), Timed(k, 1), k.stat[t] = "suspend"
  PROVE  LET s == Resume(k, t) IN
         /\ s \in Kernels /\ SameRest(s, k)
         /\ s.stat = [k.stat EXCEPT ![t] = "ready"]
         /\ s.priority = k.priority /\ s.current = k.current /\ s.late = k.late
         /\ Queued(s, c, d) /\ Timed(s, 1)
         /\ \A u : u # t => (HasTimer(s, u) <=> HasTimer(k, u))
<1> DEFINE a == Unlink(k, t)
           b == TimerStop(a, t)
           s == InsertThread(b, t)
<1>1. s = Resume(k, t)
  BY DEF Resume
<1>2. /\ a \in Kernels /\ SameRest(a, k)
      /\ a.stat = k.stat /\ a.priority = k.priority /\ a.group = k.group
      /\ a.timers = k.timers /\ a.current = k.current /\ a.late = k.late
      /\ Members(a, c, d, {t})
  BY UnlinkFields, UnlinkLemma, ZenonT(60) DEF Queued
<1>3. Grouped(a)
  BY UnlinkGroupedLemma
<1> HIDE DEF a
<1>4. Timed(a, 1) /\ \A u : HasTimer(a, u) <=> HasTimer(k, u)
  BY <1>2 DEF Timed, Left, SameRest, HasTimer
<1>5. /\ b \in Kernels /\ SameRest(b, a) /\ SameQueues(b, a)
      /\ b.stat = a.stat /\ b.priority = a.priority
      /\ b.current = a.current /\ b.late = a.late
      /\ Timed(b, 1) /\ ~ HasTimer(b, t)
      /\ \A u : u # t => (HasTimer(b, u) <=> HasTimer(a, u))
  BY <1>2, <1>4, TimerStopLemma
<1>6. Members(b, c, d, {t}) /\ Grouped(b)
  <2>1. Members(b, c, d, {t})
    BY <1>2, <1>5, SameMembers DEF SameQueues, SameRest
  <2>2. Grouped(b)
    BY <1>3, <1>5 DEF Grouped, SameQueues
  <2> QED BY <2>1, <2>2
<1> HIDE DEF b
<1>7. /\ s \in Kernels /\ SameRest(s, b)
      /\ s.stat = [b.stat EXCEPT ![t] = "ready"]
      /\ s.priority = b.priority /\ s.timers = b.timers
      /\ s.current = b.current /\ s.late = b.late
  BY <1>5, InsertThreadFields
<1>8. Queued(s, c, d)
  BY <1>5, <1>6, InsertThreadLemma
<1> HIDE DEF s
<1>9. Timed(s, 1)
  <2>1. s.tick = b.tick
    BY <1>7 DEF SameRest
  <2>2. /\ b \in Kernels /\ Timed(b, 1) /\ ~ HasTimer(b, t)
        /\ s.timers = b.timers /\ s.stat = [b.stat EXCEPT ![t] = "ready"]
    BY <1>5, <1>7
  <2> QED BY <2>1, <2>2, TimedElsewhere
<1>10. SameRest(s, k)
  BY <1>2, <1>5, <1>7 DEF SameRest
<1>11. \A u : u # t => (HasTimer(s, u) <=> HasTimer(k, u))
  <2>1. s.timers = b.timers
    BY <1>7
  <2>2. \A u : HasTimer(s, u) <=> HasTimer(b, u)
    BY <2>1 DEF HasTimer
  <2>3. \A u : u # t => (HasTimer(b, u) <=> HasTimer(a, u))
    BY <1>5
  <2>4. \A u : HasTimer(a, u) <=> HasTimer(k, u)
    BY <1>4
  <2> QED BY <2>2, <2>3, <2>4
<1>12. s.stat = [k.stat EXCEPT ![t] = "ready"]
  BY <1>2, <1>5, <1>7
<1>13. s.priority = k.priority /\ s.current = k.current /\ s.late = k.late
  BY <1>2, <1>5, <1>7
<1>14. /\ s \in Kernels /\ SameRest(s, k)
       /\ s.stat = [k.stat EXCEPT ![t] = "ready"]
       /\ s.priority = k.priority /\ s.current = k.current /\ s.late = k.late
       /\ Queued(s, c, d) /\ Timed(s, 1)
       /\ \A u : u # t => (HasTimer(s, u) <=> HasTimer(k, u))
  BY <1>7, <1>8, <1>9, <1>10, <1>11, <1>12, <1>13
<1> QED BY <1>1, <1>14

(* A thread put behind those of its own priority, before those of lower.   *)
LEMMA InsertAscendingLemma ==
  ASSUME NEW priority \in [Threads -> Priorities], NEW list \in Seq(Threads),
         NEW t \in Threads, NEW i \in 1..(Len(list) + 1), Ascending(list, priority),
         \A j \in DOMAIN list : j < i => ~ (priority[t] < priority[list[j]]),
         i \in DOMAIN list => priority[t] < priority[list[i]]
  PROVE  Ascending(InsertAt(list, i, t), priority)
<1> DEFINE r == InsertAt(list, i, t)
<1>1. /\ DOMAIN list = 1..Len(list) /\ Len(list) \in Nat
      /\ DOMAIN r = 1..(Len(list) + 1)
      /\ \A j \in 1..(Len(list) + 1) :
           /\ j < i => j \in DOMAIN list /\ r[j] = list[j]
           /\ j = i => r[j] = t
           /\ j > i => j - 1 \in DOMAIN list /\ r[j] = list[j - 1]
  BY InsertAtLemma
<1>2. \A u \in Threads : priority[u] \in Nat
  BY ConstantsLemma
<1>3. \A j \in DOMAIN list : list[j] \in Threads
  OBVIOUS
<1>4. \A j, l \in DOMAIN list : j < l => priority[list[j]] <= priority[list[l]]
  BY DEF Ascending
<1> HIDE DEF r
<1>6. ASSUME NEW j \in DOMAIN list, j < i PROVE priority[list[j]] <= priority[t]
  <2>1. priority[list[j]] \in Nat /\ priority[t] \in Nat
    BY <1>2, <1>3
  <2>2. ~ (priority[t] < priority[list[j]])
    BY <1>6
  <2> QED BY <2>1, <2>2
<1>7. ASSUME NEW j \in DOMAIN list, j >= i PROVE priority[t] <= priority[list[j]]
  <2>1. i \in DOMAIN list
    BY <1>1, <1>7
  <2>2. priority[t] < priority[list[i]]
    BY <2>1
  <2>3. i = j \/ priority[list[i]] <= priority[list[j]]
    BY <1>1, <1>4, <1>7, <2>1
  <2>4. priority[list[j]] \in Nat /\ priority[t] \in Nat /\ priority[list[i]] \in Nat
    BY <1>2, <1>3, <2>1
  <2> QED BY <2>2, <2>3, <2>4
<1>8. ASSUME NEW j \in DOMAIN r, NEW l \in DOMAIN r, j < l
      PROVE  priority[r[j]] <= priority[r[l]]
  <2>0. j \in 1..(Len(list) + 1) /\ l \in 1..(Len(list) + 1)
    BY <1>1
  <2>1. CASE l < i
    <3>1. j \in DOMAIN list /\ l \in DOMAIN list /\ r[j] = list[j] /\ r[l] = list[l]
      BY <1>1, <1>8, <2>0, <2>1
    <3> QED BY <1>4, <1>8, <3>1
  <2>2. CASE l = i
    <3>1. j \in DOMAIN list /\ r[j] = list[j] /\ r[l] = t /\ j < i
      BY <1>1, <1>8, <2>0, <2>2
    <3> QED BY <1>6, <3>1
  <2>3. CASE j < i /\ l > i
    <3>1. /\ j \in DOMAIN list /\ r[j] = list[j]
          /\ l - 1 \in DOMAIN list /\ r[l] = list[l - 1] /\ j < l - 1
      BY <1>1, <2>0, <2>3
    <3> QED BY <1>4, <3>1
  <2>4. CASE j = i
    <3>1. l - 1 \in DOMAIN list /\ r[l] = list[l - 1] /\ r[j] = t /\ l - 1 >= i
      BY <1>1, <1>8, <2>0, <2>4
    <3> QED BY <1>7, <3>1
  <2>5. CASE j > i
    <3>1. /\ j - 1 \in DOMAIN list /\ r[j] = list[j - 1]
          /\ l - 1 \in DOMAIN list /\ r[l] = list[l - 1] /\ j - 1 < l - 1
      BY <1>1, <1>8, <2>0, <2>5
    <3> QED BY <1>4, <3>1
  <2> QED BY <1>1, <1>8, <2>0, <2>1, <2>2, <2>3, <2>4, <2>5
<1>9. Ascending(r, priority)
  BY <1>8 DEF Ascending
<1> QED BY <1>9 DEF r

(* The calls c2 are the calls c, but thread t waits for o; the kind of the *)
(* list of o, that of the mutex being its own.                             *)
Calls(c2, c, t, o) == c2[t] = o /\ \A u \in Threads : u # t => c2[u] = c[u]

Discipline(k, o, flag) == flag \in {"FIFO", "PRIO"} /\ (o = "mutex" => flag = k.flag)

(* rt_ipc_list_suspend: a ready thread onto the list of an object, that of *)
(* the mutex in the order of its kind.                                     *)
LEMMA SuspendOnLemma ==
  ASSUME NEW k \in Kernels, NEW c, NEW c2, NEW d, NEW t \in Threads, NEW o \in Objects,
         NEW flag, Discipline(k, o, flag),
         Queued(k, c, d), k.stat[t] = "ready",
         Calls(c2, c, t, o)
  PROVE  LET s == SuspendOn(k, t, o, flag) IN
         /\ s \in Kernels /\ SameRest(s, k)
         /\ s.stat = [k.stat EXCEPT ![t] = "suspend"]
         /\ s.priority = k.priority /\ s.timers = k.timers
         /\ s.current = k.current /\ s.late = k.late
         /\ Queued(s, c2, d)
<1> DEFINE a == Suspend(k, t)
           list == a.waiters[o]
           I == {i \in 1..Len(list) : a.priority[t] < a.priority[list[i]]}
           lower == IF I # {} THEN Min(I) ELSE 0
           place == IF flag = "FIFO" \/ lower = 0 THEN Len(list) + 1 ELSE lower
           s == SuspendOn(k, t, o, flag)
<1>0. /\ flag = "FIFO" \/ flag = "PRIO"
      /\ o = "mutex" => flag = k.flag
      /\ c2[t] = o /\ \A u \in Threads : u # t => c2[u] = c[u]
  BY DEF Calls, Discipline
<1>1. /\ a \in Kernels /\ SameRest(a, k)
      /\ a.stat = [k.stat EXCEPT ![t] = "suspend"]
      /\ a.priority = k.priority
      /\ a.timers = k.timers /\ a.current = k.current /\ a.late = k.late
      /\ Members(a, c, d, {t}) /\ Grouped(a)
  BY SuspendLemma
<1>2. s = [a EXCEPT !.waiters = [a.waiters EXCEPT ![o] = InsertAt(list, place, t)]]
  BY DEF SuspendOn, SelectInSeq
<1> HIDE DEF a, s
<1>3. list \in Seq(Threads) /\ a.waiters \in [Objects -> Seq(Threads)]
  BY <1>1 DEF Kernels
<1>4. DOMAIN list = 1..Len(list) /\ Len(list) \in Nat
  BY <1>3
<1>5. /\ place \in 1..(Len(list) + 1)
      /\ flag = "PRIO" =>
           /\ \A j \in DOMAIN list : j < place => ~ (a.priority[t] < a.priority[list[j]])
           /\ place \in DOMAIN list => a.priority[t] < a.priority[list[place]]
  <2>1. CASE flag = "FIFO"
    <3>1. place = Len(list) + 1
      BY <2>1
    <3> HIDE DEF place
    <3> QED BY <1>4, <2>1, <3>1
  <2>2. CASE flag = "PRIO" /\ I = {}
    <3>1. place = Len(list) + 1
      BY <2>2
    <3>2. \A j \in DOMAIN list : ~ (a.priority[t] < a.priority[list[j]])
      BY <1>4, <2>2
    <3> HIDE DEF place, list
    <3> QED BY <1>4, <3>1, <3>2
  <2>3. CASE flag = "PRIO" /\ I # {}
    <3>1. I \subseteq Nat
      BY <1>4
    <3>2. Min(I) \in I /\ \A m \in I : Min(I) <= m
      BY <2>3, <3>1, MinLemma
    <3>3. PICK m : m = Min(I) /\ m \in I /\ \A n \in I : m <= n
      BY <3>2
    <3>4. m \in 1..Len(list) /\ a.priority[t] < a.priority[list[m]]
      BY <3>3
    <3>5. place = m
      <4>1. flag # "FIFO" /\ lower = m
        BY <2>3, <3>3
      <4>2. m # 0
        BY <1>4, <3>4
      <4> HIDE DEF lower
      <4> QED BY <4>1, <4>2
    <3>6. ASSUME NEW j \in DOMAIN list, j < m
          PROVE  ~ (a.priority[t] < a.priority[list[j]])
      <4>1. j \in Int /\ m \in Int /\ ~ (m <= j)
        BY <1>4, <3>4, <3>6
      <4>2. j \notin I
        <5> HIDE DEF I
        <5> QED BY <3>3, <4>1
      <4> QED BY <1>4, <4>2
    <3> HIDE DEF place, list
    <3> QED BY <1>4, <3>4, <3>5, <3>6
  <2> QED BY <1>0, <2>1, <2>2, <2>3
<1>6. PICK l \in Seq(Threads) : l = list
  BY <1>3
<1>7. PICK i \in 1..(Len(l) + 1) :
        /\ s = [a EXCEPT !.waiters = [a.waiters EXCEPT ![o] = InsertAt(l, i, t)]]
        /\ flag = "PRIO" =>
             /\ \A j \in DOMAIN l : j < i => ~ (a.priority[t] < a.priority[l[j]])
             /\ i \in DOMAIN l => a.priority[t] < a.priority[l[i]]
  <2> HIDE DEF place
  <2> QED BY <1>2, <1>5, <1>6
<1> DEFINE r == InsertAt(l, i, t)
<1>8. l = a.waiters[o]
  BY <1>6
<1> HIDE DEF place, lower, I, list
<1>9. /\ r \in Seq(Threads) /\ Range(r) = Range(l) \union {t}
      /\ IsInjective(l) /\ t \notin Range(l) => IsInjective(r)
  BY InsertAtLemma
<1>10. /\ s \in Kernels /\ s.stat = a.stat /\ s.priority = a.priority
       /\ s.timers = a.timers /\ s.current = a.current /\ s.late = a.late
       /\ s.ready = a.ready /\ s.group = a.group /\ s.defunct = a.defunct
       /\ s.waiters = [a.waiters EXCEPT ![o] = r]
       /\ SameRest(s, a)
  <2> HIDE DEF r
  <2>1. PICK w \in [Objects -> Seq(Threads)] : w = [a.waiters EXCEPT ![o] = r]
    BY <1>3, <1>9
  <2>2. s = [a EXCEPT !.waiters = w]
    BY <1>7, <2>1 DEF r
  <2>3. a \in Kernels
    BY <1>1
  <2>4. s \in Kernels
    BY <2>2, <2>3, ZenonT(60) DEF Kernels
  <2>5. /\ s.stat = a.stat /\ s.priority = a.priority
        /\ s.timers = a.timers /\ s.current = a.current /\ s.late = a.late
        /\ s.ready = a.ready /\ s.group = a.group /\ s.defunct = a.defunct
        /\ s.waiters = w
    BY <2>2, <2>3 DEF Kernels
  <2>6. SameRest(s, a)
    BY <2>2, <2>3 DEF Kernels, SameRest
  <2> QED BY <2>1, <2>4, <2>5, <2>6
<1>11. /\ \A u \in Threads : u # t => s.stat[u] = a.stat[u]
       /\ s.stat[t] = "suspend"
  BY <1>1, <1>10 DEF Kernels
<1>12. Lists(l, {u \in Threads \ {t} : a.stat[u] = "suspend" /\ c[u] = o})
  BY <1>1, <1>8 DEF Members
<1>13. Lists(r, {u \in Threads \ {} : s.stat[u] = "suspend" /\ c2[u] = o})
  <2>1. t \notin Range(l) /\ IsInjective(l)
    BY <1>12 DEF Lists
  <2>2. {u \in Threads \ {} : s.stat[u] = "suspend" /\ c2[u] = o}
          = {u \in Threads \ {t} : a.stat[u] = "suspend" /\ c[u] = o} \union {t}
    BY <1>0, <1>11
  <2> HIDE DEF r
  <2> QED BY <1>9, <1>12, <2>1, <2>2 DEF Lists
<1>14. ASSUME NEW q \in Priorities
       PROVE  Lists(s.ready[q],
                {u \in Threads \ {} : s.stat[u] = "ready" /\ s.priority[u] = q})
  <2>1. Lists(a.ready[q],
              {u \in Threads \ {t} : a.stat[u] = "ready" /\ a.priority[u] = q})
    BY <1>1 DEF Members
  <2>2. {u \in Threads \ {} : s.stat[u] = "ready" /\ s.priority[u] = q}
          = {u \in Threads \ {t} : a.stat[u] = "ready" /\ a.priority[u] = q}
    BY <1>10, <1>11
  <2> QED BY <1>10, <2>1, <2>2
<1>15. ASSUME NEW p \in Objects
       PROVE  Lists(s.waiters[p],
                {u \in Threads \ {} : s.stat[u] = "suspend" /\ c2[u] = p})
  <2>1. CASE p = o
    BY <1>3, <1>10, <1>13, <2>1
  <2>2. CASE p # o
    <3>1. Lists(a.waiters[p],
                {u \in Threads \ {t} : a.stat[u] = "suspend" /\ c[u] = p})
      BY <1>1 DEF Members
    <3>2. {u \in Threads \ {} : s.stat[u] = "suspend" /\ c2[u] = p}
            = {u \in Threads \ {t} : a.stat[u] = "suspend" /\ c[u] = p}
      BY <1>0, <1>11, <2>2
    <3>3. s.waiters[p] = a.waiters[p]
      BY <1>3, <1>10, <2>2
    <3> QED BY <3>1, <3>2, <3>3
  <2> QED BY <2>1, <2>2
<1>16. Lists(s.defunct, {u \in Threads \ {} : s.stat[u] = "close" /\ u # d})
  <2>1. Lists(a.defunct, {u \in Threads \ {t} : a.stat[u] = "close" /\ u # d})
    BY <1>1 DEF Members
  <2>2. {u \in Threads \ {} : s.stat[u] = "close" /\ u # d}
          = {u \in Threads \ {t} : a.stat[u] = "close" /\ u # d}
    BY <1>11
  <2> QED BY <1>10, <2>1, <2>2
<1>17. ASSUME s.flag = "PRIO" PROVE Ascending(s.waiters["mutex"], s.priority)
  <2>1. a.flag = "PRIO" /\ k.flag = "PRIO"
    BY <1>1, <1>10, <1>17 DEF SameRest
  <2>2. Ascending(a.waiters["mutex"], a.priority)
    BY <1>1, <2>1 DEF Members
  <2>3. CASE o = "mutex"
    <3>1. /\ Ascending(l, a.priority)
          /\ \A j \in DOMAIN l : j < i => ~ (a.priority[t] < a.priority[l[j]])
          /\ i \in DOMAIN l => a.priority[t] < a.priority[l[i]]
      BY <1>0, <1>7, <1>8, <2>1, <2>2, <2>3
    <3>2. a.priority \in [Threads -> Priorities]
      BY <1>1 DEF Kernels
    <3>3. Ascending(r, a.priority)
      BY <3>1, <3>2, InsertAscendingLemma
    <3>4. s.waiters["mutex"] = r
      BY <1>3, <1>10, <2>3
    <3> QED BY <1>10, <3>3, <3>4
  <2>4. CASE o # "mutex"
    <3>1. s.waiters["mutex"] = a.waiters["mutex"]
      BY <1>3, <1>10, <2>4 DEF Objects
    <3> QED BY <1>10, <2>2, <3>1
  <2> QED BY <2>3, <2>4
<1>18. Queued(s, c2, d)
  <2>1. Grouped(s)
    BY <1>1, <1>10 DEF Grouped
  <2>2. Members(s, c2, d, {})
    BY <1>14, <1>15, <1>16, <1>17 DEF Members
  <2> QED BY <2>1, <2>2 DEF Queued
<1>19. SameRest(s, k)
  BY <1>1, <1>10 DEF SameRest
<1>20. /\ s \in Kernels /\ SameRest(s, k)
       /\ s.stat = [k.stat EXCEPT ![t] = "suspend"]
       /\ s.priority = k.priority /\ s.timers = k.timers
       /\ s.current = k.current /\ s.late = k.late
       /\ Queued(s, c2, d)
  BY <1>1, <1>10, <1>18, <1>19
<1> QED BY <1>20 DEF s

LEMMA NoTimerLemma ==
  ASSUME NEW k, NEW lo, NEW t, Timed(k, lo), k.stat[t] # "suspend"
  PROVE  ~ HasTimer(k, t)
<1> SUFFICES ASSUME NEW i \in DOMAIN k.timers, k.timers[i].thread = t
             PROVE  FALSE
  BY DEF HasTimer
<1>1. k.stat[k.timers[i].thread] = "suspend"
  BY DEF Timed
<1> QED BY <1>1

(* The wait of a call: on the object's list, and on the timer list.        *)
LEMMA WaitOnLemma ==
  ASSUME NEW k \in Kernels, NEW c, NEW c2, NEW d, NEW t \in Threads, NEW o \in Objects,
         NEW flag, Discipline(k, o, flag),
         NEW time \in (1 .. Half - 1) \union {Forever},
         Queued(k, c, d), Timed(k, 1), k.stat[t] = "ready",
         Calls(c2, c, t, o)
  PROVE  LET s == WaitOn(k, t, o, flag, time) IN
         /\ s \in Kernels /\ SameRest(s, k)
         /\ s.stat = [k.stat EXCEPT ![t] = "suspend"]
         /\ s.priority = k.priority /\ s.current = k.current /\ s.late = k.late
         /\ Queued(s, c2, d) /\ Timed(s, 1)
         /\ \A u : u # t => (HasTimer(s, u) <=> HasTimer(k, u))
<1> DEFINE a == SuspendOn(k, t, o, flag)
           b == TimerStart(a, t, time)
           s == WaitOn(k, t, o, flag, time)
<1>1. /\ a \in Kernels /\ SameRest(a, k)
      /\ a.stat = [k.stat EXCEPT ![t] = "suspend"]
      /\ a.priority = k.priority /\ a.timers = k.timers
      /\ a.current = k.current /\ a.late = k.late
      /\ Queued(a, c2, d)
  BY SuspendOnLemma
<1>2. s = IF time > 0 THEN b ELSE a
  BY DEF WaitOn
<1> HIDE DEF a
<1>3. ~ HasTimer(k, t)
  BY NoTimerLemma
<1>4. Timed(a, 1)
  <2>1. a.tick = k.tick
    BY <1>1 DEF SameRest
  <2>2. /\ k \in Kernels /\ Timed(k, 1) /\ ~ HasTimer(k, t)
        /\ a.timers = k.timers /\ a.stat = [k.stat EXCEPT ![t] = "suspend"]
    BY <1>1, <1>3
  <2> QED BY <2>1, <2>2, TimedElsewhere
<1>5. \A u : HasTimer(a, u) <=> HasTimer(k, u)
  BY <1>1 DEF HasTimer
<1>6. CASE time > 0
  <2>1. time \in 1 .. Half - 1
    BY <1>6 DEF Forever
  <2>2. a.stat[t] = "suspend"
    BY <1>1 DEF Kernels
  <2>3. /\ b \in Kernels /\ SameRest(b, a) /\ SameQueues(b, a)
        /\ b.stat = a.stat /\ b.priority = a.priority
        /\ b.current = a.current /\ b.late = a.late
        /\ Timed(b, 1)
        /\ \A u : HasTimer(b, u) <=> HasTimer(a, u) \/ u = t
    BY <1>1, <1>3, <1>4, <1>5, <2>1, <2>2, TimerStartLemma
  <2> HIDE DEF b
  <2>4. Queued(b, c2, d)
    <3>1. Members(a, c2, d, {}) /\ Grouped(a)
      BY <1>1 DEF Queued
    <3>2. Members(b, c2, d, {})
      BY <2>3, <3>1, SameMembers DEF SameQueues, SameRest
    <3>3. Grouped(b)
      BY <2>3, <3>1 DEF Grouped, SameQueues
    <3> QED BY <3>2, <3>3 DEF Queued
  <2>5. SameRest(b, k)
    BY <1>1, <2>3 DEF SameRest
  <2>6. \A u : u # t => (HasTimer(b, u) <=> HasTimer(k, u))
    BY <1>5, <2>3
  <2>7. s = b
    BY <1>2, <1>6
  <2> HIDE DEF s
  <2>8. /\ s \in Kernels /\ SameRest(s, k)
        /\ s.stat = [k.stat EXCEPT ![t] = "suspend"]
        /\ s.priority = k.priority /\ s.current = k.current /\ s.late = k.late
        /\ Queued(s, c2, d) /\ Timed(s, 1)
        /\ \A u : u # t => (HasTimer(s, u) <=> HasTimer(k, u))
    BY <1>1, <2>3, <2>4, <2>5, <2>6, <2>7
  <2> QED BY <2>8 DEF s
<1>7. CASE ~ (time > 0)
  <2>1. s = a
    BY <1>2, <1>7
  <2> HIDE DEF s
  <2>2. /\ s \in Kernels /\ SameRest(s, k)
        /\ s.stat = [k.stat EXCEPT ![t] = "suspend"]
        /\ s.priority = k.priority /\ s.current = k.current /\ s.late = k.late
        /\ Queued(s, c2, d) /\ Timed(s, 1)
        /\ \A u : u # t => (HasTimer(s, u) <=> HasTimer(k, u))
    BY <1>1, <1>4, <1>5, <2>1
  <2> QED BY <2>2 DEF s
<1> QED BY <1>6, <1>7

(* A kernel whose processor has gone, unless the scheduler is locked, to   *)
(* the first thread of the highest priority.                               *)
Scheduled(s, k) ==
  IF k.lock_nest = 0
  THEN /\ s.current = Head(s.ready[Min(s.group)]) /\ s.stat[s.current] = "ready"
       /\ s.late = FALSE
  ELSE s.current = k.current /\ s.late = k.late

LEMMA SetCurrent ==
  ASSUME NEW k \in Kernels, NEW t \in Threads
  PROVE  [k EXCEPT !.current = t, !.late = FALSE] \in Kernels
<1>1. [k EXCEPT !.current = t] \in Kernels
  BY ZenonT(60) DEF Kernels
<1>2. [[k EXCEPT !.current = t] EXCEPT !.late = FALSE] \in Kernels
  <2> DEFINE b == [k EXCEPT !.current = t]
  <2> HIDE DEF b
  <2>1. ASSUME b \in Kernels PROVE [b EXCEPT !.late = FALSE] \in Kernels
    BY <2>1, ZenonT(60) DEF Kernels
  <2> QED BY <1>1, <2>1 DEF b
<1> QED BY <1>2

LEMMA ScheduleLemma ==
  ASSUME NEW k \in Kernels, NEW c, NEW d, Queued(k, c, d), k.group # {}
  PROVE  LET s == Schedule(k) IN
         /\ s \in Kernels /\ SameRest(s, k) /\ SameQueues(s, k)
         /\ s.stat = k.stat /\ s.priority = k.priority /\ s.timers = k.timers
         /\ Queued(s, c, d) /\ Scheduled(s, k)
<1>1. PICK h \in Threads : h = Head(k.ready[Min(k.group)]) /\ k.stat[h] = "ready"
  BY HighestLemma
<1>2. CASE k.lock_nest = 0
  <2> DEFINE s == [k EXCEPT !.current = h, !.late = FALSE]
  <2>1. Schedule(k) = s
    BY <1>1, <1>2 DEF Schedule
  <2>2. /\ s \in Kernels /\ s.current = h /\ s.late = FALSE
        /\ s.stat = k.stat /\ s.priority = k.priority /\ s.timers = k.timers
    <3>1. /\ s.current = h /\ s.late = FALSE
          /\ s.stat = k.stat /\ s.priority = k.priority /\ s.timers = k.timers
      BY DEF Kernels
    <3>2. s \in Kernels
      BY <1>1, SetCurrent
    <3> QED BY <3>1, <3>2
  <2>3. SameRest(s, k)
    BY DEF Kernels, SameRest
  <2>4. SameQueues(s, k)
    BY DEF Kernels, SameQueues
  <2> HIDE DEF s
  <2>5. Queued(s, c, d)
    <3>1. Members(k, c, d, {}) /\ Grouped(k)
      BY DEF Queued
    <3>2. Members(s, c, d, {})
      BY <2>2, <2>3, <2>4, <3>1, SameMembers DEF SameQueues, SameRest
    <3>3. Grouped(s)
      BY <2>4, <3>1 DEF Grouped, SameQueues
    <3> QED BY <3>2, <3>3 DEF Queued
  <2>6. Scheduled(s, k)
    BY <1>1, <1>2, <2>2, <2>4 DEF Scheduled, SameQueues
  <2> QED BY <2>1, <2>2, <2>3, <2>4, <2>5, <2>6
<1>3. CASE k.lock_nest # 0
  <2>1. Schedule(k) = k
    BY <1>3 DEF Schedule
  <2>2. SameRest(k, k) /\ SameQueues(k, k) /\ Scheduled(k, k)
    BY <1>3 DEF SameRest, SameQueues, Scheduled
  <2> QED BY <2>1, <2>2
<1> QED BY <1>2, <1>3

(* What the expiry of timers may have made of k: some suspended threads    *)
(* have come back with a timeout.                                          *)
SameOthers(s, k) ==
  /\ s.remaining_tick = k.remaining_tick /\ s.lock_nest = k.lock_nest
  /\ s.tick = k.tick /\ s.flag = k.flag /\ s.value = k.value /\ s.owner = k.owner
  /\ s.original_priority = k.original_priority /\ s.hold = k.hold
  /\ s.priority = k.priority

TimedOut(s, k) ==
  /\ SameOthers(s, k)
  /\ \A u \in Threads :
       \/ /\ s.stat[u] = k.stat[u] /\ s.error[u] = k.error[u]
          /\ HasTimer(k, u) => HasTimer(s, u)
       \/ /\ k.stat[u] = "suspend" /\ s.stat[u] = "ready" /\ s.error[u] = "timeout"
  /\ \/ /\ SameQueues(s, k) /\ s.stat = k.stat
        /\ s.current = k.current /\ s.late = k.late
     \/ Scheduled(s, k)

LEMMA SetError ==
  ASSUME NEW k \in Kernels, NEW v \in [Threads -> {"ok", "timeout"}]
  PROVE  LET s == [k EXCEPT !.error = v] IN
         /\ s \in Kernels /\ s.error = v
         /\ s.stat = k.stat /\ s.timers = k.timers
         /\ s.current = k.current /\ s.late = k.late
         /\ SameQueues(s, k) /\ SameOthers(s, k)
<1> DEFINE s == [k EXCEPT !.error = v]
<1>1. s \in Kernels
  BY ZenonT(60) DEF Kernels
<1>2. /\ s.error = v /\ s.stat = k.stat /\ s.timers = k.timers
      /\ s.current = k.current /\ s.late = k.late
  BY DEF Kernels
<1>3. SameQueues(s, k)
  BY DEF Kernels, SameQueues
<1>4. SameOthers(s, k)
  BY DEF Kernels, SameOthers
<1> QED BY <1>1, <1>2, <1>3, <1>4

(* rt_thread_timeout of a suspended thread, whose timer is off the list.   *)
LEMMA TimeoutLemma ==
  ASSUME NEW k \in Kernels, NEW c, NEW d, NEW t \in Threads, NEW lo,
         Queued(k, c, d), Timed(k, lo), k.stat[t] = "suspend", ~ HasTimer(k, t)
  PROVE  LET s == Timeout(k, t) IN
         /\ s \in Kernels /\ Queued(s, c, d) /\ Timed(s, lo)
         /\ s.timers = k.timers /\ SameOthers(s, k)
         /\ s.stat = [k.stat EXCEPT ![t] = "ready"]
         /\ s.error = [k.error EXCEPT ![t] = "timeout"]
         /\ Scheduled(s, k)
<1> DEFINE e == [k EXCEPT !.error = [k.error EXCEPT ![t] = "timeout"]]
           a == Unlink(e, t)
           b == InsertThread(a, t)
           s == Schedule(b)
<1>0. s = Timeout(k, t)
  BY DEF Timeout
<1>1. /\ e \in Kernels /\ e.error = [k.error EXCEPT ![t] = "timeout"]
      /\ e.stat = k.stat /\ e.timers = k.timers
      /\ e.current = k.current /\ e.late = k.late
      /\ SameQueues(e, k) /\ SameOthers(e, k)
  <2>1. [k.error EXCEPT ![t] = "timeout"] \in [Threads -> {"ok", "timeout"}]
    BY DEF Kernels
  <2> QED BY <2>1, SetError
<1> HIDE DEF e
<1>2. Members(e, c, d, {}) /\ Grouped(e)
  <2>1. Members(k, c, d, {}) /\ Grouped(k)
    BY DEF Queued
  <2>2. Members(e, c, d, {})
    BY <1>1, <2>1, SameMembers DEF SameQueues, SameOthers
  <2>3. Grouped(e)
    BY <1>1, <2>1 DEF Grouped, SameQueues
  <2> QED BY <2>2, <2>3
<1>3. /\ a \in Kernels /\ SameRest(a, e)
      /\ a.stat = e.stat /\ a.priority = e.priority
      /\ a.timers = e.timers /\ a.current = e.current /\ a.late = e.late
      /\ Members(a, c, d, {t})
  <2>1. e \in Kernels /\ Members(e, c, d, {})
    BY <1>1, <1>2
  <2>2. Members(a, c, d, {t})
    BY <2>1, UnlinkLemma
  <2> QED BY <2>1, <2>2, UnlinkFields, ZenonT(60)
<1>4. Grouped(a)
  <2>1. e.stat[t] # "ready"
    BY <1>1
  <2> QED BY <1>1, <1>2, <2>1, UnlinkGroupedLemma DEF Queued
<1> HIDE DEF a
<1>5. /\ b \in Kernels /\ SameRest(b, a)
      /\ b.stat = [a.stat EXCEPT ![t] = "ready"]
      /\ b.priority = a.priority /\ b.timers = a.timers
      /\ b.current = a.current /\ b.late = a.late
      /\ b.group = a.group \union {a.priority[t]}
  BY <1>3, InsertThreadFields
<1>6. Queued(b, c, d)
  BY <1>3, <1>4, InsertThreadLemma
<1> HIDE DEF b
<1>7. b.group # {}
  BY <1>5
<1>8. /\ s \in Kernels /\ SameRest(s, b)
      /\ s.stat = b.stat /\ s.priority = b.priority /\ s.timers = b.timers
      /\ Queued(s, c, d) /\ Scheduled(s, b)
  BY <1>5, <1>6, <1>7, ScheduleLemma
<1> HIDE DEF s
<1>9. SameOthers(s, k)
  BY <1>1, <1>3, <1>5, <1>8 DEF SameRest, SameOthers
<1>10. s.error = [k.error EXCEPT ![t] = "timeout"]
  BY <1>1, <1>3, <1>5, <1>8 DEF SameRest
<1>11. s.stat = [k.stat EXCEPT ![t] = "ready"] /\ s.timers = k.timers
  BY <1>1, <1>3, <1>5, <1>8
<1>12. Timed(s, lo)
  <2>1. s.tick = k.tick
    BY <1>9 DEF SameOthers
  <2>2. /\ k \in Kernels /\ Timed(k, lo) /\ ~ HasTimer(k, t)
        /\ s.timers = k.timers /\ s.stat = [k.stat EXCEPT ![t] = "ready"]
    BY <1>11
  <2> QED BY <2>1, <2>2, TimedElsewhere
<1>13. Scheduled(s, k)
  <2>1. b.lock_nest = k.lock_nest /\ b.current = k.current /\ b.late = k.late
    BY <1>1, <1>3, <1>5 DEF SameRest, SameOthers
  <2> QED BY <1>8, <2>1 DEF Scheduled
<1>14. s \in Kernels /\ Queued(s, c, d)
  BY <1>8
<1>15. /\ s \in Kernels /\ Queued(s, c, d) /\ Timed(s, lo)
       /\ s.timers = k.timers /\ SameOthers(s, k)
       /\ s.stat = [k.stat EXCEPT ![t] = "ready"]
       /\ s.error = [k.error EXCEPT ![t] = "timeout"]
       /\ Scheduled(s, k)
  BY <1>9, <1>10, <1>11, <1>12, <1>13, <1>14
<1> QED BY <1>0, <1>15

(* Nothing is due exactly if every timer has time left.                    *)
LEMMA NotDueLemma ==
  ASSUME NEW k \in Kernels, Timed(k, 0),
         k.timers = <<>> \/ ~ ((k.tick - Head(k.timers).at) % TickMod < Half)
  PROVE  Timed(k, 1)
<1>0. k.timers \in Seq(Entries) /\ k.tick \in 0 .. TickMod - 1
  BY DEF Kernels, Entries
<1> DEFINE list == k.timers
<1>1. DOMAIN list = 1..Len(list) /\ Len(list) \in Nat
  BY <1>0
<1>2. SUFFICES ASSUME NEW i \in DOMAIN list
               PROVE  Left(k, i) \in 1 .. Half - 1
  BY DEF Timed
<1>3. list # <<>>
  BY <1>0, <1>1
<1>4. PICK x \in Entries : x = list[1] /\ Head(list) = x
  BY <1>0, <1>3, RestLemma
<1>5. 1 \in DOMAIN list /\ (i = 1 \/ 1 < i)
  BY <1>1
<1>6. /\ Left(k, 1) \in 0 .. Half - 1 /\ Left(k, i) \in 0 .. Half - 1
      /\ i # 1 => Left(k, 1) <= Left(k, i)
  BY <1>5 DEF Timed
<1>7. x.at \in 0 .. TickMod - 1 /\ Left(k, 1) = (x.at - k.tick) % TickMod
  BY <1>4 DEF Entries, Left
<1>8. ~ ((k.tick - x.at) % TickMod < Half)
  BY <1>3, <1>4
<1>9. Left(k, 1) # 0
  BY <1>0, <1>6, <1>7, <1>8, DueLemma
<1> HIDE DEF list
<1>10. PICK l, m : l = Left(k, 1) /\ m = Left(k, i)
  OBVIOUS
<1>11. l \in 0 .. Half - 1 /\ m \in 0 .. Half - 1 /\ l # 0 /\ (m = l \/ l <= m)
  BY <1>6, <1>9, <1>10
<1>12. m \in 1 .. Half - 1
  BY <1>11, HalfLemma
<1> QED BY <1>10, <1>12

LEMMA IdleCheckLemma ==
  ASSUME NEW k \in Kernels, Timed(k, 1)
  PROVE  Expire(k) = k
<1>1. k.timers \in Seq(Entries) /\ k.tick \in 0 .. TickMod - 1
  BY DEF Kernels, Entries
<1>2. CASE k.timers = <<>>
  BY <1>2 DEF Expire
<1>3. CASE k.timers # <<>>
  <2>1. PICK x \in Entries : x = k.timers[1] /\ Head(k.timers) = x /\ 1 \in DOMAIN k.timers
    BY <1>1, <1>3, RestLemma
  <2>2. x.at \in 0 .. TickMod - 1 /\ (x.at - k.tick) % TickMod \in 1 .. Half - 1
    BY <2>1 DEF Entries, Timed, Left
  <2>3. PICK l : l = (x.at - k.tick) % TickMod
    OBVIOUS
  <2>4. l \in 0 .. Half - 1 /\ l # 0
    BY <2>2, <2>3, HalfLemma
  <2>5. ~ ((k.tick - x.at) % TickMod < Half)
    BY <1>1, <2>2, <2>3, <2>4, DueLemma
  <2> QED BY <2>1, <2>5 DEF Expire
<1> QED BY <1>2, <1>3

(* The first timer of the list expires, if it is due.                      *)
LEMMA ExpireLemma ==
  ASSUME NEW k \in Kernels, NEW c, NEW d, Queued(k, c, d), Timed(k, 0)
  PROVE  LET s == Expire(k) IN
         /\ s \in Kernels /\ Queued(s, c, d) /\ Timed(s, 0) /\ TimedOut(s, k)
         /\ \/ s = k /\ Timed(k, 1)
            \/ Len(k.timers) > 0 /\ Len(s.timers) = Len(k.timers) - 1
<1> DEFINE due == k.timers # <<>> /\ (k.tick - Head(k.timers).at) % TickMod < Half
<1>1. CASE ~ due
  <2>1. Expire(k) = k
    BY <1>1 DEF Expire
  <2>2. Timed(k, 1)
    BY <1>1, NotDueLemma
  <2>3. TimedOut(k, k)
    BY DEF TimedOut, SameOthers, SameQueues
  <2> QED BY <2>1, <2>2, <2>3
<1>2. CASE due
  <2> DEFINE rest == Tail(k.timers)
             e == [k EXCEPT !.timers = rest]
             t == Head(k.timers).thread
             s == Timeout(e, t)
  <2>1. Expire(k) = s
    BY <1>2 DEF Expire
  <2>2. k.timers \in Seq(Entries) /\ k.timers # <<>>
    BY <1>2 DEF Kernels, Entries
  <2>3. /\ k.timers[1] \in Entries /\ t = k.timers[1].thread
        /\ rest \in Seq(Entries)
        /\ Len(k.timers) \in Nat \ {0} /\ Len(rest) = Len(k.timers) - 1
        /\ \A i \in 1..(Len(k.timers) - 1) : rest[i] = k.timers[i + 1]
    BY <2>2, RestLemma
  <2>4. Range(rest) = Range(k.timers) \ {k.timers[1]}
    <3>1. IsInjective(k.timers)
      BY <2>2, DistinctTimersLemma
    <3>2. Range(k.timers) = Range(rest) \union {k.timers[1]} /\ k.timers[1] \notin Range(rest)
      BY <2>2, <3>1, TailLemma
    <3> QED BY <3>2
  <2>5. KeepsOrder(rest, k.timers)
    <3>1. DOMAIN rest = 1..(Len(k.timers) - 1) /\ DOMAIN k.timers = 1..Len(k.timers)
      BY <2>2, <2>3
    <3> HIDE DEF rest
    <3>2. ASSUME NEW i \in DOMAIN rest, NEW j \in DOMAIN rest, i < j
          PROVE  \E m, n \in DOMAIN k.timers :
                   m < n /\ k.timers[m] = rest[i] /\ k.timers[n] = rest[j]
      <4>1. i + 1 \in DOMAIN k.timers /\ j + 1 \in DOMAIN k.timers /\ i + 1 < j + 1
        BY <2>3, <3>1, <3>2
      <4>2. k.timers[i + 1] = rest[i] /\ k.timers[j + 1] = rest[j]
        BY <2>3, <3>1
      <4> QED BY <4>1, <4>2
    <3> QED BY <3>2 DEF KeepsOrder
  <2> HIDE DEF rest, t
  <2>6. /\ e \in Kernels /\ e.timers = rest
        /\ e.stat = k.stat /\ e.priority = k.priority /\ e.current = k.current /\ e.late = k.late
        /\ SameQueues(e, k) /\ SameRest(e, k)
    <3>1. rest \in Seq([thread : Threads, at : 0 .. TickMod - 1])
      BY <2>3 DEF Entries
    <3> QED BY <3>1, SetTimers
  <2> HIDE DEF e
  <2>7. 1 \in DOMAIN k.timers /\ t \in Threads
    BY <2>2, <2>3 DEF Entries
  <2>8. /\ Timed(e, 0) /\ ~ HasTimer(e, t)
        /\ \A u : u # t => (HasTimer(e, u) <=> HasTimer(k, u))
    <3>1. e.timers \in Seq(Entries) /\ e.stat = k.stat
      BY <2>3, <2>6
    <3>2. e.tick = k.tick
      BY <2>6 DEF SameRest
    <3>3. Range(e.timers) = Range(k.timers) \ {k.timers[1]} /\ KeepsOrder(e.timers, k.timers)
      BY <2>4, <2>5, <2>6
    <3> QED BY <2>2, <2>3, <2>7, <3>1, <3>2, <3>3, FewerTimersLemma
  <2>9. Queued(e, c, d)
    <3>1. Members(k, c, d, {}) /\ Grouped(k)
      BY DEF Queued
    <3>2. Members(e, c, d, {})
      BY <2>6, <3>1, SameMembers DEF SameQueues, SameRest
    <3>3. Grouped(e)
      BY <2>6, <3>1 DEF Grouped, SameQueues
    <3> QED BY <3>2, <3>3 DEF Queued
  <2>10. e.stat[t] = "suspend" /\ k.stat[t] = "suspend"
    BY <2>3, <2>6, <2>7 DEF Timed
  <2>11. /\ s \in Kernels /\ Queued(s, c, d) /\ Timed(s, 0)
         /\ s.timers = e.timers /\ SameOthers(s, e)
         /\ s.stat = [e.stat EXCEPT ![t] = "ready"]
         /\ s.error = [e.error EXCEPT ![t] = "timeout"]
         /\ Scheduled(s, e)
    BY <2>6, <2>7, <2>8, <2>9, <2>10, TimeoutLemma
  <2> HIDE DEF s
  <2>12. TimedOut(s, k)
    <3>1. SameOthers(s, k)
      BY <2>6, <2>11 DEF SameOthers, SameRest
    <3>2. Scheduled(s, k)
      <4>1. e.lock_nest = k.lock_nest /\ e.current = k.current /\ e.late = k.late
        BY <2>6 DEF SameRest
      <4> QED BY <2>11, <4>1 DEF Scheduled
    <3>3. e.stat = k.stat /\ e.error = k.error
      BY <2>6 DEF SameRest
    <3>4. k.stat \in [Threads -> {"init", "ready", "suspend", "close"}]
          /\ k.error \in [Threads -> {"ok", "timeout"}]
      BY DEF Kernels
    <3>5. s.stat = [k.stat EXCEPT ![t] = "ready"] /\ s.error = [k.error EXCEPT ![t] = "timeout"]
      BY <2>11, <3>3
    <3>6. \A u : HasTimer(s, u) <=> HasTimer(e, u)
      BY <2>11 DEF HasTimer
    <3>7. ASSUME NEW u \in Threads
          PROVE  \/ /\ s.stat[u] = k.stat[u] /\ s.error[u] = k.error[u]
                    /\ HasTimer(k, u) => HasTimer(s, u)
                 \/ /\ k.stat[u] = "suspend" /\ s.stat[u] = "ready" /\ s.error[u] = "timeout"
      <4>1. CASE u = t
        BY <2>7, <2>10, <3>4, <3>5, <4>1
      <4>2. CASE u # t
        BY <2>8, <3>4, <3>5, <3>6, <4>2
      <4> QED BY <4>1, <4>2
    <3> QED BY <3>1, <3>2, <3>7 DEF TimedOut
  <2>13. Len(k.timers) > 0 /\ Len(s.timers) = Len(k.timers) - 1
    BY <2>3, <2>6, <2>11
  <2>14. /\ s \in Kernels /\ Queued(s, c, d) /\ Timed(s, 0) /\ TimedOut(s, k)
         /\ Len(k.timers) > 0 /\ Len(s.timers) = Len(k.timers) - 1
    BY <2>11, <2>12, <2>13
  <2> QED BY <2>1, <2>14
<1> QED BY <1>1, <1>2

LEMMA TimedOutTrans ==
  ASSUME NEW k, NEW b, NEW s, TimedOut(b, k), TimedOut(s, b)
  PROVE  TimedOut(s, k)
<1>1. SameOthers(s, k)
  BY DEF TimedOut, SameOthers
<1>2. ASSUME NEW u \in Threads
      PROVE  \/ /\ s.stat[u] = k.stat[u] /\ s.error[u] = k.error[u]
                /\ HasTimer(k, u) => HasTimer(s, u)
             \/ /\ k.stat[u] = "suspend" /\ s.stat[u] = "ready" /\ s.error[u] = "timeout"
  BY DEF TimedOut
<1>3. \/ /\ SameQueues(s, k) /\ s.stat = k.stat
         /\ s.current = k.current /\ s.late = k.late
      \/ Scheduled(s, k)
  <2>1. b.lock_nest = k.lock_nest
    BY DEF TimedOut, SameOthers
  <2>2. CASE SameQueues(s, b) /\ s.stat = b.stat /\ s.current = b.current /\ s.late = b.late
    BY <2>1, <2>2 DEF TimedOut, SameQueues, Scheduled
  <2>3. CASE Scheduled(s, b)
    BY <2>1, <2>3 DEF TimedOut, Scheduled
  <2> QED BY <2>2, <2>3 DEF TimedOut
<1> QED BY <1>1, <1>2, <1>3 DEF TimedOut

(* The loop of rt_timer_check, as the kernels after each timer.            *)
IsRun(f, k, n) == f = [i \in 0 .. n |-> IF i = 0 THEN k ELSE Expire(f[i - 1])]

LEMMA RunExists ==
  ASSUME NEW k, NEW n \in Nat
  PROVE  \E f : IsRun(f, k, n)
<1> DEFINE B == {m \in Nat : ~ \E f : IsRun(f, k, m)}
<1>1. ASSUME B # {} PROVE FALSE
  <2>1. PICK m \in B : \A j \in B : m <= j
    BY <1>1, LeastLemma
  <2>2. m \in Nat /\ ~ \E f : IsRun(f, k, m)
    OBVIOUS
  <2>3. m # 0
    <3> DEFINE f == [i \in 0 .. 0 |-> k]
    <3>1. IsRun(f, k, 0)
      BY DEF IsRun
    <3> QED BY <2>2, <3>1
  <2>4. m - 1 \in Nat /\ m - 1 \notin B
    BY <2>1, <2>2, <2>3
  <2>5. PICK g : IsRun(g, k, m - 1)
    BY <2>4
  <2> DEFINE f == [i \in 0 .. m |-> IF i = m THEN Expire(g[m - 1]) ELSE g[i]]
  <2>6. \A i \in 0 .. m : i # m => f[i] = g[i]
    OBVIOUS
  <2>7. ASSUME NEW i \in 0 .. m PROVE f[i] = IF i = 0 THEN k ELSE Expire(f[i - 1])
    <3>1. CASE i = m
      <4>1. f[i] = Expire(g[m - 1]) /\ i # 0
        BY <2>3, <3>1
      <4>2. m - 1 \in 0 .. m /\ m - 1 # m
        BY <2>4
      <4>3. f[i - 1] = g[m - 1]
        BY <2>6, <3>1, <4>2
      <4> HIDE DEF f
      <4> QED BY <4>1, <4>3
    <3>2. CASE i # m
      <4>1. i \in 0 .. m - 1 /\ f[i] = g[i]
        BY <2>4, <3>2
      <4>2. g[i] = IF i = 0 THEN k ELSE Expire(g[i - 1])
        BY <2>5, <4>1 DEF IsRun
      <4>3. i # 0 => i - 1 \in 0 .. m /\ i - 1 # m
        BY <4>1, <2>4
      <4>4. i # 0 => f[i - 1] = g[i - 1]
        BY <2>6, <4>3
      <4> HIDE DEF f
      <4> QED BY <4>1, <4>2, <4>4
    <3> QED BY <3>1, <3>2
  <2>8. f = [i \in 0 .. m |-> f[i]]
    OBVIOUS
  <2> HIDE DEF f
  <2>9. IsRun(f, k, m)
    BY <2>7, <2>8 DEF IsRun
  <2> QED BY <2>2, <2>9
<1> QED BY <1>1

(* rt_timer_check between two ticks of the clock: what is due expires, and *)
(* what is left is due in a tick or later.                                 *)
LEMMA TimerCheckLemma ==
  ASSUME NEW k \in Kernels, NEW c, NEW d, Queued(k, c, d), Timed(k, 0)
  PROVE  LET s == TimerCheck(k) IN
         s \in Kernels /\ Queued(s, c, d) /\ Timed(s, 1) /\ TimedOut(s, k)
<1> DEFINE n == Len(k.timers)
           f == CHOOSE after : IsRun(after, k, n)
<1>1. TimerCheck(k) = f[n]
  BY DEF TimerCheck, IsRun
<1>2. n \in Nat
  BY DEF Kernels
<1>3. IsRun(f, k, n)
  BY <1>2, RunExists
<1> HIDE DEF f
<1>4. f[0] = k /\ \A i \in 1 .. n : f[i] = Expire(f[i - 1])
  BY <1>2, <1>3 DEF IsRun
<1> DEFINE Ok(s) == s \in Kernels /\ Queued(s, c, d) /\ Timed(s, 0) /\ TimedOut(s, k)
           Inv(i) == Ok(f[i]) /\ (Timed(f[i], 1) \/ Len(f[i].timers) = n - i)
           B == {i \in 0 .. n : ~ Inv(i)}
<1>5. ASSUME B # {} PROVE FALSE
  <2>1. B \subseteq Nat
    BY <1>2
  <2>2. PICK m \in B : \A j \in B : m <= j
    BY <1>5, <2>1, LeastLemma
  <2>3. m \in 0 .. n /\ ~ Inv(m)
    OBVIOUS
  <2>4. m # 0
    <3>1. TimedOut(k, k)
      BY DEF TimedOut, SameOthers, SameQueues
    <3>2. Len(k.timers) = n - 0
      BY <1>2
    <3>3. Inv(0)
      BY <1>4, <3>1, <3>2
    <3> HIDE DEF Inv
    <3> QED BY <2>3, <3>3
  <2>5. m - 1 \in 0 .. n /\ m \in 1 .. n /\ m - 1 \notin B
    BY <1>2, <2>2, <2>3, <2>4
  <2>6. Inv(m - 1)
    BY <2>5
  <2>7. PICK b : b = f[m - 1] /\ f[m] = Expire(b)
    BY <1>4, <2>5
  <2>8. Ok(b) /\ (Timed(b, 1) \/ Len(b.timers) = n - (m - 1))
    BY <2>6, <2>7
  <2> DEFINE s == Expire(b)
  <2>9. /\ s \in Kernels /\ Queued(s, c, d) /\ Timed(s, 0) /\ TimedOut(s, b)
        /\ \/ s = b /\ Timed(b, 1)
           \/ Len(b.timers) > 0 /\ Len(s.timers) = Len(b.timers) - 1
    BY <2>8, ExpireLemma
  <2> HIDE DEF s
  <2>10. TimedOut(s, k)
    BY <2>8, <2>9, TimedOutTrans
  <2>11. Timed(s, 1) \/ Len(s.timers) = n - m
    <3>1. CASE s = b /\ Timed(b, 1)
      BY <3>1
    <3>2. CASE Len(b.timers) > 0 /\ Len(s.timers) = Len(b.timers) - 1
      <4>1. CASE Timed(b, 1)
        <5>1. s = b
          BY <4>1, IdleCheckLemma, <2>8 DEF s
        <5> QED BY <4>1, <5>1
      <4>2. CASE Len(b.timers) = n - (m - 1)
        <5>1. PICK l : l = Len(s.timers)
          OBVIOUS
        <5>2. l = n - (m - 1) - 1
          BY <3>2, <4>2, <5>1
        <5>3. l = n - m
          BY <1>2, <2>5, <5>2
        <5> QED BY <5>1, <5>3
      <4> QED BY <2>8, <4>1, <4>2
    <3> QED BY <2>9, <3>1, <3>2
  <2>12. Inv(m)
    BY <2>7, <2>9, <2>10, <2>11 DEF s
  <2> HIDE DEF Inv
  <2> QED BY <2>3, <2>12
<1>6. Inv(n)
  BY <1>2, <1>5
<1>7. PICK s : s = f[n]
  OBVIOUS
<1>8. Ok(s) /\ (Timed(s, 1) \/ Len(s.timers) = 0)
  <2>1. n - n = 0
    BY <1>2
  <2> QED BY <1>6, <1>7, <2>1
<1>9. Timed(s, 1)
  <2>1. CASE Len(s.timers) = 0
    <3>1. s.timers \in Seq(Entries)
      BY <1>8 DEF Kernels, Entries
    <3>2. DOMAIN s.timers = {}
      BY <2>1, <3>1
    <3> QED BY <3>2 DEF Timed
  <2> QED BY <1>8, <2>1
<1> QED BY <1>1, <1>7, <1>8, <1>9

-----------------------------------------------------------------------------
(* What holds of the lists and timers of a kernel holds of another with    *)
(* the same ones.                                                          *)
SameLists(s, k) ==
  /\ SameQueues(s, k) /\ s.stat = k.stat /\ s.priority = k.priority
  /\ s.timers = k.timers /\ s.tick = k.tick /\ s.flag = k.flag

LEMMA SameListsLemma ==
  ASSUME NEW k, NEW s, NEW c, NEW d, NEW lo, SameLists(s, k), Queued(k, c, d), Timed(k, lo)
  PROVE  /\ Queued(s, c, d) /\ Timed(s, lo)
         /\ \A u : HasTimer(s, u) <=> HasTimer(k, u)
<1>1. Members(k, c, d, {}) /\ Grouped(k)
  BY DEF Queued
<1>2. Members(s, c, d, {})
  BY <1>1, SameMembers DEF SameLists, SameQueues
<1>3. Grouped(s)
  BY <1>1 DEF Grouped, SameLists, SameQueues
<1>4. Timed(s, lo)
  BY DEF Timed, Left, SameLists
<1>5. \A u : HasTimer(s, u) <=> HasTimer(k, u)
  BY DEF HasTimer, SameLists
<1> QED BY <1>2, <1>3, <1>4, <1>5 DEF Queued

(* The call of a thread that does not wait is not seen in the lists.       *)
LEMMA CallsLemma ==
  ASSUME NEW k, NEW c, NEW e, NEW d, Queued(k, c, d),
         \A u \in Threads : k.stat[u] = "suspend" => e[u] = c[u]
  PROVE  Queued(k, e, d)
<1>1. ASSUME NEW o \in Objects
      PROVE  Lists(k.waiters[o], {u \in Threads \ {} : k.stat[u] = "suspend" /\ e[u] = o})
  <2>1. Lists(k.waiters[o], {u \in Threads \ {} : k.stat[u] = "suspend" /\ c[u] = o})
    BY DEF Queued, Members
  <2>2. {u \in Threads \ {} : k.stat[u] = "suspend" /\ e[u] = o}
          = {u \in Threads \ {} : k.stat[u] = "suspend" /\ c[u] = o}
    OBVIOUS
  <2> QED BY <2>1, <2>2
<1>2. /\ \A p \in Priorities :
           Lists(k.ready[p], {u \in Threads \ {} : k.stat[u] = "ready" /\ k.priority[u] = p})
      /\ Lists(k.defunct, {u \in Threads \ {} : k.stat[u] = "close" /\ u # d})
      /\ k.flag = "PRIO" => Ascending(k.waiters["mutex"], k.priority)
  BY DEF Queued, Members
<1>3. Members(k, e, d, {})
  BY <1>1, <1>2 DEF Members
<1> QED BY <1>3 DEF Queued

LEMMA ReadyGroup ==
  ASSUME NEW k \in Kernels, NEW c, NEW d, Queued(k, c, d), NEW t \in Threads,
         k.stat[t] = "ready"
  PROVE  k.group # {}
<1>1. PICK p \in Priorities : p = k.priority[t]
  BY DEF Kernels
<1>2. PICK r \in Seq(Threads) : r = k.ready[p]
  BY DEF Kernels
<1>3. Range(r) = {u \in Threads \ {} : k.stat[u] = "ready" /\ k.priority[u] = p}
  BY <1>2 DEF Queued, Members, Lists
<1>4. t \in Range(r)
  BY <1>1, <1>3
<1>5. r # <<>>
  BY <1>4, EmptyLemma
<1> QED BY <1>2, <1>5 DEF Queued, Grouped

(* The list of an object has the threads that wait for it, and its head is *)
(* one of them.                                                            *)
LEMMA WaitersLemma ==
  ASSUME NEW k \in Kernels, NEW c, NEW d, Queued(k, c, d), NEW o \in Objects
  PROVE  /\ Range(k.waiters[o]) = {t \in Threads : Waits(k, c, t, o)}
         /\ k.waiters[o] = <<>> <=> \A t \in Threads : ~ Waits(k, c, t, o)
         /\ k.waiters[o] # <<>> =>
              /\ Head(k.waiters[o]) \in Threads
              /\ Waits(k, c, Head(k.waiters[o]), o)
<1>1. PICK r \in Seq(Threads) : r = k.waiters[o]
  BY DEF Kernels
<1>2. Range(r) = {t \in Threads \ {} : k.stat[t] = "suspend" /\ c[t] = o}
  BY <1>1 DEF Queued, Members, Lists
<1>3. Range(r) = {t \in Threads : Waits(k, c, t, o)}
  BY <1>2 DEF Waits
<1>4. r = <<>> <=> Range(r) = {}
  BY EmptyLemma
<1>5. ASSUME r # <<>>
      PROVE  Head(r) \in Threads /\ Waits(k, c, Head(r), o)
  <2>1. Head(r) = r[1] /\ r[1] \in Threads /\ Len(r) \in Nat \ {0}
    BY <1>5, RestLemma
  <2>2. r[1] \in Range(r)
    BY <2>1 DEF Range
  <2> QED BY <1>3, <2>1, <2>2
<1> QED BY <1>1, <1>3, <1>4, <1>5

(* The thread that waits longest among those of the highest priority is    *)
(* the first on the list of a mutex that is in the order of priorities.    *)
LEMMA FirstWaiterLemma ==
  ASSUME NEW k \in Kernels, NEW c, NEW d, Queued(k, c, d), k.flag = "PRIO",
         k.waiters["mutex"] # <<>>, NEW t \in Threads, Waits(k, c, t, "mutex")
  PROVE  k.priority[Head(k.waiters["mutex"])] <= k.priority[t]
<1>0. "mutex" \in Objects
  BY DEF Objects
<1>1. PICK r \in Seq(Threads) : r = k.waiters["mutex"] /\ r # <<>>
  BY <1>0, FieldsLemma
<1>2. Ascending(r, k.priority)
  BY <1>1 DEF Queued, Members
<1>3. Head(r) = r[1] /\ r[1] \in Threads /\ Len(r) \in Nat \ {0} /\ DOMAIN r = 1..Len(r)
  BY <1>1, RestLemma
<1>4. t \in Range(r)
  BY <1>1, WaitersLemma DEF Objects
<1>5. PICK i \in DOMAIN r : r[i] = t
  BY <1>4 DEF Range
<1>6. i = 1 \/ 1 < i
  BY <1>3
<1>7. k.priority[t] \in Nat
  <2>1. k.priority \in [Threads -> Priorities]
    BY FieldsLemma
  <2>2. k.priority[t] \in Priorities
    BY <2>1
  <2> QED BY <2>2, ConstantsLemma
<1>8. CASE i = 1
  <2>1. k.priority[r[1]] = k.priority[t]
    BY <1>5, <1>8
  <2>2. k.priority[r[1]] <= k.priority[t]
    BY <1>7, <2>1
  <2> QED BY <1>1, <1>3, <2>2
<1>9. CASE 1 < i
  <2>1. 1 \in DOMAIN r
    BY <1>3
  <2>2. k.priority[r[1]] <= k.priority[r[i]]
    BY <1>2, <1>9, <2>1 DEF Ascending
  <2> QED BY <1>1, <1>3, <1>5, <2>2
<1> QED BY <1>6, <1>8, <1>9

(* There is a ready thread: if the idle thread waits for heap_sem, then    *)
(* the thread that has it, or was given it, is ready.                      *)
LEMMA ReadyLemma ==
  ASSUME NEW k, NEW p, NEW c, NEW h, NEW d, NEW f, Good(k, p, c, h, d, f)
  PROVE  k.group # {}
<1>1. k \in Kernels /\ Queued(k, c, d) /\ h \subseteq Threads
  BY DEF Good, Typed, Ordered
<1>2. Idle \in Threads /\ Idle \notin Workers
  BY ThreadsAssumption DEF Threads
<1>3. Stage(Idle, p[Idle], c[Idle], k.stat[Idle], k.error[Idle]) /\ c[Idle] \in {"none", "heap"}
  BY <1>2 DEF Good, Ordered, Staged, IdleOK
<1>4. k.stat[Idle] \in {"init", "ready", "suspend", "close"}
  BY <1>1, <1>2 DEF Kernels
<1>5. k.stat[Idle] = "ready" \/ Waits(k, c, Idle, "heap")
  BY <1>2, <1>3, <1>4 DEF Stage, Waits, Objects
<1>6. ASSUME Waits(k, c, Idle, "heap")
      PROVE  \E t \in Threads : k.stat[t] = "ready"
  <2>1. k.value["heap"] = 0
    BY <1>2, <1>6 DEF Good, HeapOK
  <2>2. \/ \E t \in Threads : h = {t}
        \/ \E t \in Threads : OnWay(k, c) = {t}
    BY <2>1 DEF Good, HeapOK, OneUnit
  <2>3. ASSUME NEW t \in Threads, h = {t} PROVE k.stat[t] = "ready"
    BY <2>3 DEF Good, HeapOK
  <2>4. ASSUME NEW t \in Threads, OnWay(k, c) = {t} PROVE k.stat[t] = "ready"
    BY <2>4 DEF OnWay, Woken
  <2> QED BY <2>2, <2>3, <2>4
<1>7. PICK t \in Threads : k.stat[t] = "ready"
  BY <1>2, <1>5, <1>6
<1> QED BY <1>1, <1>7, ReadyGroup

(* A step that neither takes nor gives the mutex: threads may come out of  *)
(* their wait with a timeout, and none begins to wait.                     *)
KeepsMutex(s, k, e, c) ==
  /\ s.flag = k.flag /\ s.value["mutex"] = k.value["mutex"] /\ s.owner = k.owner
  /\ s.original_priority = k.original_priority /\ s.priority = k.priority
  /\ s.hold = k.hold \/ (k.owner # Nobody /\ s.hold >= 1)
  /\ s.owner # Nobody => s.stat[s.owner] \in {"ready", "suspend"}
  /\ \A u \in Threads : Waits(s, e, u, "mutex") => Waits(k, c, u, "mutex")
  /\ \A u \in Threads : Woken(s, e, u, "mutex") =>
       \/ Woken(k, c, u, "mutex") /\ s.error[u] = k.error[u]
       \/ Waits(k, c, u, "mutex") /\ s.error[u] = "timeout"

LEMMA MutexSame ==
  ASSUME NEW k \in Kernels, NEW s \in Kernels, NEW c, NEW e, MutexOK(k, c),
         KeepsMutex(s, k, e, c)
  PROVE  MutexOK(s, e)
<1>0. /\ s.flag = k.flag /\ s.value["mutex"] = k.value["mutex"] /\ s.owner = k.owner
      /\ s.original_priority = k.original_priority /\ s.priority = k.priority
      /\ s.hold = k.hold \/ (k.owner # Nobody /\ s.hold >= 1)
      /\ s.owner # Nobody => s.stat[s.owner] \in {"ready", "suspend"}
      /\ \A u \in Threads : Waits(s, e, u, "mutex") => Waits(k, c, u, "mutex")
      /\ \A u \in Threads : Woken(s, e, u, "mutex") =>
           \/ Woken(k, c, u, "mutex") /\ s.error[u] = k.error[u]
           \/ Waits(k, c, u, "mutex") /\ s.error[u] = "timeout"
  BY DEF KeepsMutex
<1>1. s.owner # Nobody => s.owner \in Threads
  BY ConstantsLemma DEF Kernels
<1>2. /\ s.value["mutex"] \in {0, 1}
      /\ s.owner = Nobody <=> s.value["mutex"] = 1
  BY <1>0 DEF MutexOK
<1>3. s.owner = Nobody => /\ s.hold = 0
                          /\ \A t \in Threads : ~ Waits(s, e, t, "mutex")
  BY <1>0 DEF MutexOK
<1>4. s.owner # Nobody => /\ s.stat[s.owner] \in {"ready", "suspend"}
                          /\ s.original_priority = init_priority[s.owner]
                          /\ s.hold >= 1
                          /\ ~ Waits(s, e, s.owner, "mutex")
  BY <1>0, <1>1 DEF MutexOK
<1>5. ASSUME NEW t \in Threads, Woken(s, e, t, "mutex")
      PROVE  s.error[t] = "ok" <=> s.owner = t
  <2>1. CASE Woken(k, c, t, "mutex") /\ s.error[t] = k.error[t]
    BY <1>0, <2>1 DEF MutexOK
  <2>2. CASE Waits(k, c, t, "mutex") /\ s.error[t] = "timeout"
    <3>1. k.owner # t
      BY <2>2, ConstantsLemma DEF MutexOK
    <3> QED BY <1>0, <2>2, <3>1
  <2> QED BY <1>0, <1>5, <2>1, <2>2
<1>6. ASSUME NEW t \in Threads, s.flag = "PRIO", Waits(s, e, t, "mutex")
      PROVE  s.priority[s.owner] <= s.priority[t]
  BY <1>0, <1>6 DEF MutexOK
<1>7. ASSUME NEW t \in Threads
      PROVE  /\ s.priority[t] <= init_priority[t]
             /\ s.priority[t] # init_priority[t] => s.owner = t
  BY <1>0 DEF MutexOK
<1> QED BY <1>2, <1>3, <1>4, <1>5, <1>6, <1>7 DEF MutexOK

(* A step that neither takes nor gives heap_sem.                           *)
LEMMA HeapSame ==
  ASSUME NEW k, NEW s, NEW p, NEW q, NEW c, NEW e, NEW h, HeapOK(k, p, c, h),
         h \subseteq Threads,
         s.value["heap"] = k.value["heap"],
         \A u \in h : q[u] = "run" /\ s.stat[u] = "ready",
         \A u \in Threads : Waits(s, e, u, "heap") => Waits(k, c, u, "heap"),
         \A u \in Threads : Woken(s, e, u, "heap") /\ s.error[u] = "ok"
                              <=> Woken(k, c, u, "heap") /\ k.error[u] = "ok"
  PROVE  HeapOK(s, q, e, h)
<1>1. OnWay(s, e) = OnWay(k, c)
  BY DEF OnWay
<1>2. OneUnit(s.value["heap"], h, OnWay(s, e))
  BY <1>1 DEF HeapOK
<1>3. \A t \in Threads : Waits(s, e, t, "heap") => s.value["heap"] = 0
  BY DEF HeapOK
<1> QED BY <1>2, <1>3 DEF HeapOK

-----------------------------------------------------------------------------
(* The part of the invariant on lists, timers and the processor, for the   *)
(* kinds of step.                                                          *)

(* The running thread changes no list, and goes on or on to rt_schedule.   *)
LEMMA QuietLemma ==
  ASSUME NEW k \in Kernels, NEW s \in Kernels, NEW p, NEW q, NEW c, NEW e, NEW d,
         NEW t \in Threads, Ordered(k, p, c, d), k.current = t, p[t] = "run",
         SameLists(s, k), s.error = k.error, s.current = t, s.late = k.late,
         \A u \in Threads : e[u] = c[u] /\ (u # t => q[u] = p[u]),
         \/ q[t] = "sched"
         \/ q[t] = "run" /\ (s.lock_nest = k.lock_nest \/ s.lock_nest > 0)
  PROVE  Ordered(s, q, e, d)
<1>1. /\ Queued(s, c, d) /\ Timed(s, 1)
      /\ \A u : HasTimer(s, u) <=> HasTimer(k, u)
  BY SameListsLemma DEF Ordered
<1>2. Queued(s, e, d)
  BY <1>1, CallsLemma
<1>3. s.stat = k.stat
  BY DEF SameLists
<1>4. Sleepers(s, e)
  BY <1>1, <1>3 DEF Ordered, Sleepers, Waits
<1>5. Staged(s, q, e)
  <2>1. ASSUME NEW u \in Threads
        PROVE  Stage(u, q[u], e[u], s.stat[u], s.error[u])
    <3>1. Stage(u, p[u], c[u], k.stat[u], k.error[u])
      BY DEF Ordered, Staged
    <3>2. q[u] = p[u] \/ q[u] = "sched"
      OBVIOUS
    <3> QED BY <1>3, <3>1, <3>2 DEF Stage
  <2> QED BY <2>1 DEF Staged
<1>6. CurrentOK(s, q, e)
  <2>1. c[t] = "none"
    BY DEF Ordered, Staged, Stage
  <2>2. k.stat[t] = "ready"
    BY DEF Ordered, CurrentOK
  <2> QED BY <1>3, <2>1, <2>2 DEF CurrentOK
<1>7. Highest(s, q)
  <2>1. \/ k.lock_nest > 0 \/ k.late
        \/ k.current = Head(k.ready[Min(k.group)])
    BY DEF Ordered, Highest
  <2>2. s.ready = k.ready /\ s.group = k.group
    BY DEF SameLists, SameQueues
  <2> QED BY <2>1, <2>2 DEF Highest
<1> QED BY <1>1, <1>2, <1>4, <1>5, <1>6, <1>7 DEF Ordered

(* The running thread blocks in its call, and is to call rt_schedule.      *)
LEMMA BlockLemma ==
  ASSUME NEW k \in Kernels, NEW s \in Kernels, NEW p, NEW q, NEW c, NEW e, NEW d,
         NEW t \in Threads, Ordered(k, p, c, d), k.current = t,
         NEW o \in Objects \union {"sleep"},
         s.stat = [k.stat EXCEPT ![t] = "suspend"],
         s.error[t] = "ok", \A u \in Threads : u # t => s.error[u] = k.error[u],
         s.current = t, s.lock_nest = 0, q[t] = "sched", e[t] = o,
         \A u \in Threads : u # t => e[u] = c[u] /\ q[u] = p[u],
         Queued(s, e, d), Timed(s, 1),
         \A u : u # t => (HasTimer(s, u) <=> HasTimer(k, u)),
         o = "sleep" => HasTimer(s, t)
  PROVE  Ordered(s, q, e, d)
<1>1. k.stat \in [Threads -> {"init", "ready", "suspend", "close"}]
  BY FieldsLemma
<1>2. s.stat[t] = "suspend" /\ \A u \in Threads : u # t => s.stat[u] = k.stat[u]
  BY <1>1
<1>3. Sleepers(s, e)
  BY <1>2 DEF Ordered, Sleepers, Waits
<1>4. Staged(s, q, e)
  <2>1. ASSUME NEW u \in Threads
        PROVE  Stage(u, q[u], e[u], s.stat[u], s.error[u])
    <3>1. CASE u = t
      BY <1>2, <3>1 DEF Stage, Objects
    <3>2. CASE u # t
      <4>1. Stage(u, p[u], c[u], k.stat[u], k.error[u])
        BY DEF Ordered, Staged
      <4> QED BY <1>2, <3>2, <4>1
    <3> QED BY <3>1, <3>2
  <2> QED BY <2>1 DEF Staged
<1>5. CurrentOK(s, q, e)
  BY <1>2 DEF CurrentOK
<1>6. Highest(s, q)
  BY DEF Highest
<1> QED BY <1>3, <1>4, <1>5, <1>6 DEF Ordered

(* A suspended thread becomes ready.                                       *)
LEMMA WakeLemma ==
  ASSUME NEW k \in Kernels, NEW s \in Kernels, NEW p, NEW q, NEW c, NEW e, NEW d,
         NEW w \in Threads, Ordered(k, p, c, d),
         k.stat[w] = "suspend", s.stat = [k.stat EXCEPT ![w] = "ready"],
         s.error = k.error, Queued(s, c, d), Timed(s, 1),
         \A u : u # w => (HasTimer(s, u) <=> HasTimer(k, u)),
         \A u \in Threads : e[u] = c[u] /\ (q[u] = p[u] \/ (c[u] = "none" /\ q[u] = "sched"))
  PROVE  /\ Queued(s, e, d) /\ Sleepers(s, e) /\ Staged(s, q, e)
         /\ \A u \in Threads : k.stat[u] = "ready" => s.stat[u] = "ready"
<1>1. k.stat \in [Threads -> {"init", "ready", "suspend", "close"}]
  BY FieldsLemma
<1>2. s.stat[w] = "ready" /\ \A u \in Threads : u # w => s.stat[u] = k.stat[u]
  BY <1>1
<1>3. Sleepers(s, e)
  BY <1>2 DEF Ordered, Sleepers, Waits
<1>4. Staged(s, q, e)
  <2>1. ASSUME NEW u \in Threads
        PROVE  Stage(u, q[u], e[u], s.stat[u], s.error[u])
    <3>1. Stage(u, p[u], c[u], k.stat[u], k.error[u])
      BY DEF Ordered, Staged
    <3>2. CASE u = w
      BY <1>2, <3>1, <3>2 DEF Stage, Objects
    <3>3. CASE u # w
      BY <1>2, <3>1, <3>3 DEF Stage
    <3> QED BY <3>2, <3>3
  <2> QED BY <2>1 DEF Staged
<1>5. Queued(s, e, d)
  BY CallsLemma
<1> QED BY <1>2, <1>3, <1>4, <1>5

(* The running thread changes neither a list nor a semaphore.              *)
Quiet(s, k, q, p, t) ==
  /\ s \in Kernels /\ SameLists(s, k)
  /\ s.error = k.error /\ s.current = k.current /\ s.late = k.late
  /\ s.value = k.value /\ s.owner = k.owner /\ s.original_priority = k.original_priority
  /\ s.hold = k.hold \/ (k.owner # Nobody /\ s.hold >= 1)
  /\ q \in [Threads -> {"run", "sched", "back"}]
  /\ \A u \in Threads : u # t => q[u] = p[u]
  /\ \/ q[t] = "sched"
     \/ q[t] = "run" /\ (s.lock_nest = k.lock_nest \/ s.lock_nest > 0)

LEMMA QuietGood ==
  ASSUME NEW k, NEW s, NEW p, NEW q, NEW c, NEW h, NEW d, NEW f,
         NEW t \in Threads, Good(k, p, c, h, d, f), k.current = t, p[t] = "run", t \notin h,
         Quiet(s, k, q, p, t)
  PROVE  Good(s, q, c, h, d, f)
<1>0. /\ k \in Kernels /\ s \in Kernels /\ SameLists(s, k)
      /\ s.error = k.error /\ s.current = t /\ s.late = k.late
      /\ s.value = k.value /\ s.owner = k.owner
      /\ s.original_priority = k.original_priority
      /\ s.hold = k.hold \/ (k.owner # Nobody /\ s.hold >= 1)
      /\ q \in [Threads -> {"run", "sched", "back"}]
      /\ \A u \in Threads : u # t => q[u] = p[u]
      /\ \/ q[t] = "sched"
         \/ q[t] = "run" /\ (s.lock_nest = k.lock_nest \/ s.lock_nest > 0)
  BY DEF Quiet, Good, Typed
<1>1. Ordered(s, q, c, d)
  BY <1>0, QuietLemma DEF Good
<1>2. /\ s.stat = k.stat /\ s.flag = k.flag /\ s.priority = k.priority
  BY <1>0 DEF SameLists
<1>3. MutexOK(s, c)
  <2>1. s.owner # Nobody => s.stat[s.owner] \in {"ready", "suspend"}
    BY <1>0, <1>2 DEF Good, MutexOK
  <2>2. \A u \in Threads : /\ Waits(s, c, u, "mutex") => Waits(k, c, u, "mutex")
                           /\ Woken(s, c, u, "mutex") => Woken(k, c, u, "mutex")
    BY <1>2 DEF Waits, Woken
  <2>3. MutexOK(k, c)
    BY DEF Good
  <2>4. KeepsMutex(s, k, c, c)
    BY <1>0, <1>2, <2>1, <2>2 DEF KeepsMutex
  <2> QED BY <1>0, <2>3, <2>4, MutexSame
<1>4. HeapOK(s, q, c, h)
  <2>1. \A u \in h : q[u] = "run" /\ s.stat[u] = "ready"
    BY <1>0, <1>2 DEF Good, Typed, HeapOK
  <2>2. \A u \in Threads : /\ Waits(s, c, u, "heap") => Waits(k, c, u, "heap")
                           /\ Woken(s, c, u, "heap") <=> Woken(k, c, u, "heap")
    BY <1>2 DEF Waits, Woken
  <2>3. HeapOK(k, p, c, h) /\ h \subseteq Threads
    BY DEF Good, Typed
  <2> QED BY <1>0, <2>1, <2>2, <2>3, HeapSame
<1>5. IdleOK(s, c, h, d, f)
  BY <1>2 DEF Good, IdleOK
<1>6. Typed(s, q, c, h, d, f)
  BY <1>0 DEF Good, Typed
<1> QED BY <1>1, <1>3, <1>4, <1>5, <1>6 DEF Good

LEMMA SetLock ==
  ASSUME NEW k \in Kernels, NEW n \in 0 .. MaxNest
  PROVE  LET s == [k EXCEPT !.lock_nest = n] IN
         /\ s \in Kernels /\ s.lock_nest = n
         /\ SameLists(s, k) /\ s.error = k.error /\ s.current = k.current /\ s.late = k.late
         /\ s.value = k.value /\ s.owner = k.owner /\ s.hold = k.hold
         /\ s.original_priority = k.original_priority
<1> DEFINE s == [k EXCEPT !.lock_nest = n]
<1>1. s \in Kernels
  BY ZenonT(60) DEF Kernels
<1>2. /\ s.lock_nest = n
      /\ s.error = k.error /\ s.current = k.current /\ s.late = k.late
      /\ s.value = k.value /\ s.owner = k.owner /\ s.hold = k.hold
      /\ s.original_priority = k.original_priority
  BY DEF Kernels
<1>3. SameLists(s, k)
  BY DEF Kernels, SameLists, SameQueues
<1> QED BY <1>1, <1>2, <1>3

(* The thread in its own code.                                             *)
LEMMA RunningLemma ==
  ASSUME IInv, NEW t \in Threads, Running(t)
  PROVE  /\ kernel \in Kernels /\ Good(kernel, pc, call, inHeap, dead, frees)
         /\ kernel.current = t /\ pc[t] = "run"
         /\ call[t] = "none" /\ kernel.stat[t] = "ready" /\ kernel.error[t] = "ok"
<1>1. /\ kernel \in Kernels /\ Good(kernel, pc, call, inHeap, dead, frees)
      /\ kernel.current = t /\ pc[t] = "run"
  BY DEF IInv, Good, Typed, Running
<1>2. Staged(kernel, pc, call) /\ CurrentOK(kernel, pc, call)
  BY DEF IInv, Good, Ordered
<1>3. Stage(t, pc[t], call[t], kernel.stat[t], kernel.error[t])
  BY <1>2 DEF Staged
<1>4. call[t] = "none" /\ kernel.error[t] = "ok"
  BY <1>1, <1>3 DEF Stage
<1>5. kernel.stat[t] = "ready"
  BY <1>1, <1>2 DEF CurrentOK
<1> QED BY <1>1, <1>4, <1>5

LEMMA ToScheduleLemma ==
  ASSUME NEW p \in [Threads -> {"run", "sched", "back"}], NEW t \in Threads,
         NEW c \in [Threads -> Objects \union {"none", "sleep", "exit"}],
         NEW o \in Objects \union {"none", "sleep", "exit"}
  PROVE  LET q == [p EXCEPT ![t] = "sched"]
             e == [c EXCEPT ![t] = o]
         IN  /\ q \in [Threads -> {"run", "sched", "back"}]
             /\ q[t] = "sched" /\ \A u \in Threads : u # t => q[u] = p[u]
             /\ e \in [Threads -> Objects \union {"none", "sleep", "exit"}]
             /\ e[t] = o /\ \A u \in Threads : u # t => e[u] = c[u]
             /\ o = c[t] => e = c
OBVIOUS

LEMMA EnterCriticalInv ==
  ASSUME IInv, NEW t \in Threads, EnterCritical(t)
  PROVE  IInv'
<1>1. /\ Running(t) /\ t \notin inHeap /\ kernel.lock_nest < MaxNest
      /\ kernel' = [kernel EXCEPT !.lock_nest = kernel.lock_nest + 1]
      /\ pc' = pc /\ call' = call /\ inHeap' = inHeap /\ dead' = dead /\ frees' = frees
  BY DEF EnterCritical, Free, Done, Client
<1>2. /\ kernel \in Kernels /\ Good(kernel, pc, call, inHeap, dead, frees)
      /\ kernel.current = t /\ pc[t] = "run"
      /\ pc \in [Threads -> {"run", "sched", "back"}]
  BY <1>1, RunningLemma DEF Good, Typed
<1>3. kernel.lock_nest + 1 \in 0 .. MaxNest /\ kernel.lock_nest + 1 > 0
  BY <1>1, <1>2, FieldsLemma, BoundsAssumption
<1>4. /\ kernel' \in Kernels /\ kernel'.lock_nest > 0
      /\ SameLists(kernel', kernel) /\ kernel'.error = kernel.error
      /\ kernel'.current = kernel.current /\ kernel'.late = kernel.late
      /\ kernel'.value = kernel.value /\ kernel'.owner = kernel.owner
      /\ kernel'.hold = kernel.hold
      /\ kernel'.original_priority = kernel.original_priority
  BY <1>1, <1>2, <1>3, SetLock
<1>5. Quiet(kernel', kernel, pc, pc, t)
  BY <1>2, <1>4 DEF Quiet
<1>6. Good(kernel', pc, call, inHeap, dead, frees)
  BY <1>1, <1>2, <1>5, QuietGood
<1> QED BY <1>1, <1>6 DEF IInv

LEMMA ExitCriticalInv ==
  ASSUME IInv, NEW t \in Threads, ExitCritical(t)
  PROVE  IInv'
<1>1. /\ Running(t) /\ t \notin inHeap /\ kernel.lock_nest > 0
      /\ kernel' = [kernel EXCEPT !.lock_nest = kernel.lock_nest - 1]
      /\ inHeap' = inHeap /\ dead' = dead /\ frees' = frees
  BY DEF ExitCritical, Free, Client
<1>2. /\ kernel \in Kernels /\ Good(kernel, pc, call, inHeap, dead, frees)
      /\ kernel.current = t /\ pc[t] = "run" /\ call[t] = "none"
      /\ pc \in [Threads -> {"run", "sched", "back"}]
      /\ call \in [Threads -> Objects \union {"none", "sleep", "exit"}]
  BY <1>1, RunningLemma DEF Good, Typed
<1>3. kernel.lock_nest \in 0 .. MaxNest /\ kernel.lock_nest - 1 \in 0 .. MaxNest
  BY <1>1, <1>2, FieldsLemma, BoundsAssumption
<1>4. /\ kernel' \in Kernels /\ kernel'.lock_nest = kernel.lock_nest - 1
      /\ SameLists(kernel', kernel) /\ kernel'.error = kernel.error
      /\ kernel'.current = kernel.current /\ kernel'.late = kernel.late
      /\ kernel'.value = kernel.value /\ kernel'.owner = kernel.owner
      /\ kernel'.hold = kernel.hold
      /\ kernel'.original_priority = kernel.original_priority
  BY <1>1, <1>2, <1>3, SetLock
<1>5. CASE kernel.lock_nest = 1
  <2>1. pc' = [pc EXCEPT ![t] = "sched"] /\ call' = [call EXCEPT ![t] = "none"]
    BY <1>5 DEF ExitCritical, ToSchedule
  <2>2. /\ pc' \in [Threads -> {"run", "sched", "back"}] /\ pc'[t] = "sched"
        /\ \A u \in Threads : u # t => pc'[u] = pc[u]
        /\ call' = call
    BY <1>2, <2>1, ToScheduleLemma
  <2>3. Quiet(kernel', kernel, pc', pc, t)
    BY <1>4, <2>2 DEF Quiet
  <2>4. Good(kernel', pc', call, inHeap, dead, frees)
    BY <1>1, <1>2, <2>3, QuietGood
  <2> QED BY <1>1, <2>2, <2>4 DEF IInv
<1>6. CASE kernel.lock_nest # 1
  <2>1. pc' = pc /\ call' = call
    BY <1>6 DEF ExitCritical, Done
  <2>2. kernel'.lock_nest > 0
    BY <1>1, <1>3, <1>4, <1>6
  <2>3. Quiet(kernel', kernel, pc, pc, t)
    BY <1>2, <1>4, <2>2 DEF Quiet
  <2>4. Good(kernel', pc, call, inHeap, dead, frees)
    BY <1>1, <1>2, <2>3, QuietGood
  <2> QED BY <1>1, <2>1, <2>4 DEF IInv
<1> QED BY <1>5, <1>6

(* Nothing changes but a semaphore or the mutex.                           *)
Calm(s, k) ==
  /\ s \in Kernels /\ SameLists(s, k) /\ s.error = k.error
  /\ s.current = k.current /\ s.late = k.late /\ s.lock_nest = k.lock_nest

SameMutex(s, k) ==
  /\ s.value["mutex"] = k.value["mutex"] /\ s.owner = k.owner
  /\ s.original_priority = k.original_priority /\ s.hold = k.hold

LEMMA CalmLemma ==
  ASSUME NEW k, NEW s, NEW p, NEW c, NEW h, NEW d, NEW f,
         Good(k, p, c, h, d, f), Calm(s, k)
  PROVE  /\ Typed(s, p, c, h, d, f) /\ Ordered(s, p, c, d) /\ IdleOK(s, c, h, d, f)
         /\ SameMutex(s, k) => MutexOK(s, c)
         /\ s.value["heap"] = k.value["heap"] => HeapOK(s, p, c, h)
<1>1. /\ s \in Kernels /\ SameLists(s, k) /\ s.error = k.error
      /\ s.current = k.current /\ s.late = k.late /\ s.lock_nest = k.lock_nest
      /\ s.stat = k.stat /\ s.priority = k.priority /\ s.flag = k.flag
      /\ s.ready = k.ready /\ s.group = k.group
  BY DEF Calm, SameLists, SameQueues
<1>2. /\ Queued(s, c, d) /\ Timed(s, 1)
      /\ \A u : HasTimer(s, u) <=> HasTimer(k, u)
  <2>1. Queued(k, c, d) /\ Timed(k, 1)
    BY DEF Good, Ordered
  <2> QED BY <1>1, <2>1, SameListsLemma
<1>3. \A u, o : /\ Waits(s, c, u, o) <=> Waits(k, c, u, o)
                /\ Woken(s, c, u, o) <=> Woken(k, c, u, o)
  BY <1>1 DEF Waits, Woken
<1>4. Ordered(s, p, c, d)
  <2>1. Sleepers(s, c)
    BY <1>2, <1>3 DEF Good, Ordered, Sleepers
  <2>2. Staged(s, p, c)
    BY <1>1 DEF Good, Ordered, Staged
  <2>3. CurrentOK(s, p, c)
    BY <1>1 DEF Good, Ordered, CurrentOK
  <2>4. Highest(s, p)
    BY <1>1 DEF Good, Ordered, Highest
  <2> QED BY <1>2, <2>1, <2>2, <2>3, <2>4 DEF Ordered
<1>5. IdleOK(s, c, h, d, f)
  BY <1>1 DEF Good, IdleOK
<1>6. Typed(s, p, c, h, d, f)
  BY <1>1 DEF Good, Typed
<1>7. ASSUME SameMutex(s, k) PROVE MutexOK(s, c)
  <2>1. MutexOK(k, c)
    BY DEF Good
  <2> QED BY <1>1, <1>3, <1>7, <2>1 DEF MutexOK, SameMutex
<1>8. ASSUME s.value["heap"] = k.value["heap"] PROVE HeapOK(s, p, c, h)
  <2>1. OnWay(s, c) = OnWay(k, c)
    BY <1>1, <1>3 DEF OnWay
  <2>2. HeapOK(k, p, c, h)
    BY DEF Good
  <2> QED BY <1>1, <1>3, <1>8, <2>1, <2>2 DEF HeapOK
<1> QED BY <1>4, <1>5, <1>6, <1>7, <1>8

(* The thread t blocks, in its call for o.                                 *)
Blocks(s, k, q, p, e, c, t, o) ==
  /\ s \in Kernels /\ o \in Objects \union {"sleep"}
  /\ s.stat = [k.stat EXCEPT ![t] = "suspend"] /\ s.error = k.error
  /\ s.current = k.current /\ s.lock_nest = 0 /\ s.flag = k.flag
  /\ s.value = k.value /\ s.owner = k.owner
  /\ s.original_priority = k.original_priority /\ s.hold = k.hold
  /\ q = [p EXCEPT ![t] = "sched"] /\ e = [c EXCEPT ![t] = o]
  /\ \A u : u # t => (HasTimer(s, u) <=> HasTimer(k, u))
  /\ o = "sleep" => HasTimer(s, t)

LEMMA BlockGood ==
  ASSUME NEW k, NEW s, NEW p, NEW q, NEW c, NEW e, NEW h, NEW d, NEW f,
         NEW t \in Threads, NEW o,
         Good(k, p, c, h, d, f), k.current = t, p[t] = "run", t \notin h,
         Blocks(s, k, q, p, e, c, t, o), Queued(s, e, d), Timed(s, 1),
         o = "heap" => k.value["heap"] = 0,
         t = Idle => o = "heap" /\ f > 0
  PROVE  /\ Typed(s, q, e, h, d, f) /\ Ordered(s, q, e, d)
         /\ HeapOK(s, q, e, h) /\ IdleOK(s, e, h, d, f)
         /\ o # "mutex" /\ s.priority = k.priority => MutexOK(s, e)
<1>1. /\ s \in Kernels /\ o \in Objects \union {"sleep"}
      /\ s.stat = [k.stat EXCEPT ![t] = "suspend"] /\ s.error = k.error
      /\ s.current = t /\ s.lock_nest = 0 /\ s.flag = k.flag
      /\ s.value = k.value /\ s.owner = k.owner
      /\ s.original_priority = k.original_priority /\ s.hold = k.hold
      /\ \A u : u # t => (HasTimer(s, u) <=> HasTimer(k, u))
      /\ o = "sleep" => HasTimer(s, t)
  BY DEF Blocks
<1>2. /\ k \in Kernels /\ h \subseteq Threads
      /\ p \in [Threads -> {"run", "sched", "back"}]
      /\ c \in [Threads -> Objects \union {"none", "sleep", "exit"}]
      /\ Ordered(k, p, c, d)
  BY DEF Good, Typed
<1>3. /\ q \in [Threads -> {"run", "sched", "back"}]
      /\ q[t] = "sched" /\ \A u \in Threads : u # t => q[u] = p[u]
      /\ e \in [Threads -> Objects \union {"none", "sleep", "exit"}]
      /\ e[t] = o /\ \A u \in Threads : u # t => e[u] = c[u]
  <2>1. q = [p EXCEPT ![t] = "sched"] /\ e = [c EXCEPT ![t] = o]
    BY DEF Blocks
  <2>2. o \in Objects \union {"none", "sleep", "exit"}
    BY <1>1
  <2> QED BY <1>2, <2>1, <2>2, ToScheduleLemma
<1>4. c[t] = "none" /\ k.stat[t] = "ready" /\ k.error[t] = "ok"
  BY <1>2 DEF Ordered, Staged, Stage, CurrentOK
<1>5. s.stat[t] = "suspend" /\ \A u \in Threads : u # t => s.stat[u] = k.stat[u]
  BY <1>1, <1>2, FieldsLemma
<1>6. Ordered(s, q, e, d)
  <2>1. s.error[t] = "ok" /\ \A u \in Threads : u # t => s.error[u] = k.error[u]
    BY <1>1, <1>4
  <2> QED BY <1>1, <1>2, <1>3, <2>1, BlockLemma
<1>7. \A x : \A u \in Threads :
        /\ u # t => (Waits(s, e, u, x) <=> Waits(k, c, u, x))
        /\ Woken(s, e, u, x) => Woken(k, c, u, x)
        /\ u # t => (Woken(s, e, u, x) <=> Woken(k, c, u, x))
  BY <1>3, <1>5 DEF Waits, Woken
<1>8. HeapOK(s, q, e, h)
  <2>0. HeapOK(k, p, c, h)
    BY DEF Good
  <2>1. OnWay(s, e) = OnWay(k, c)
    <3>1. t \notin OnWay(s, e) /\ t \notin OnWay(k, c)
      BY <1>4, <1>5 DEF OnWay, Woken
    <3>2. \A u \in Threads : u # t => (u \in OnWay(s, e) <=> u \in OnWay(k, c))
      BY <1>1, <1>7 DEF OnWay
    <3>3. OnWay(s, e) \subseteq Threads /\ OnWay(k, c) \subseteq Threads
      BY DEF OnWay
    <3> QED BY <3>1, <3>2, <3>3
  <2>2. \A u \in Threads : Waits(s, e, u, "heap") => s.value["heap"] = 0
    <3>1. ASSUME NEW u \in Threads, Waits(s, e, u, "heap") PROVE s.value["heap"] = 0
      <4>1. CASE u = t
        BY <1>1, <1>3, <3>1, <4>1 DEF Waits
      <4>2. CASE u # t
        BY <1>1, <1>7, <2>0, <3>1, <4>2 DEF HeapOK
      <4> QED BY <4>1, <4>2
    <3> QED BY <3>1
  <2>3. \A u \in h : q[u] = "run" /\ s.stat[u] = "ready"
    BY <1>2, <1>3, <1>5, <2>0 DEF HeapOK
  <2> QED BY <1>1, <2>0, <2>1, <2>2, <2>3 DEF HeapOK
<1>9. IdleOK(s, e, h, d, f)
  <2>1. IdleOK(k, c, h, d, f) /\ Idle \in Threads
    BY ConstantsLemma DEF Good
  <2>2. d # Nobody => d \in Threads /\ d # t
    BY <1>4, <2>1, ConstantsLemma DEF Good, Typed, IdleOK
  <2> QED BY <1>3, <1>5, <2>1, <2>2 DEF IdleOK
<1>10. Typed(s, q, e, h, d, f)
  BY <1>1, <1>3 DEF Good, Typed
<1>11. ASSUME o # "mutex", s.priority = k.priority PROVE MutexOK(s, e)
  <2>1. \A u \in Threads : Waits(s, e, u, "mutex") => Waits(k, c, u, "mutex")
    <3>1. ~ Waits(s, e, t, "mutex")
      BY <1>3, <1>11 DEF Waits
    <3> QED BY <1>7, <3>1
  <2>2. MutexOK(k, c)
    BY DEF Good
  <2>3. s.owner # Nobody => s.stat[s.owner] \in {"ready", "suspend"}
    <3>1. s.owner # Nobody => s.owner \in Threads
      BY <1>1, FieldsLemma, ConstantsLemma
    <3> QED BY <1>1, <1>5, <2>2, <3>1 DEF MutexOK
  <2>4. \A u \in Threads : Woken(s, e, u, "mutex") =>
                             Woken(k, c, u, "mutex") /\ s.error[u] = k.error[u]
    BY <1>1, <1>7
  <2>5. KeepsMutex(s, k, e, c)
    BY <1>1, <1>11, <2>1, <2>3, <2>4 DEF KeepsMutex
  <2> QED BY <1>1, <1>2, <2>2, <2>5, MutexSame
<1> QED BY <1>6, <1>8, <1>9, <1>10, <1>11

-----------------------------------------------------------------------------
(* Assignments to the fields of the mutex and of a semaphore, and to error.*)
LEMMA SetValue ==
  ASSUME NEW k \in Kernels, NEW v \in [Objects -> Nat]
  PROVE  LET s == [k EXCEPT !.value = v] IN
         /\ Calm(s, k) /\ s.value = v
         /\ s.owner = k.owner /\ s.original_priority = k.original_priority /\ s.hold = k.hold
<1> DEFINE s == [k EXCEPT !.value = v]
<1>1. s \in Kernels
  BY ZenonT(60) DEF Kernels
<1>2. SameLists(s, k)
  BY DEF Kernels, SameLists, SameQueues
<1>3. /\ s.value = v /\ s.error = k.error
      /\ s.current = k.current /\ s.late = k.late /\ s.lock_nest = k.lock_nest
      /\ s.owner = k.owner /\ s.original_priority = k.original_priority /\ s.hold = k.hold
  BY DEF Kernels
<1> QED BY <1>1, <1>2, <1>3 DEF Calm

LEMMA SetHold ==
  ASSUME NEW k \in Kernels, NEW n \in 0 .. MaxHold
  PROVE  LET s == [k EXCEPT !.hold = n] IN
         /\ Calm(s, k) /\ s.hold = n
         /\ s.value = k.value /\ s.owner = k.owner
         /\ s.original_priority = k.original_priority
<1> DEFINE s == [k EXCEPT !.hold = n]
<1>1. s \in Kernels
  BY ZenonT(60) DEF Kernels
<1>2. SameLists(s, k)
  BY DEF Kernels, SameLists, SameQueues
<1>3. /\ s.hold = n /\ s.error = k.error
      /\ s.current = k.current /\ s.late = k.late /\ s.lock_nest = k.lock_nest
      /\ s.value = k.value /\ s.owner = k.owner
      /\ s.original_priority = k.original_priority
  BY DEF Kernels
<1> QED BY <1>1, <1>2, <1>3 DEF Calm

Owned(k, o, x, n) ==
  [k EXCEPT !.owner = o, !.original_priority = x, !.hold = n]

LEMMA SetOwner ==
  ASSUME NEW k \in Kernels, NEW o \in Workers \union {Nobody},
         NEW x \in Priorities \union {255}, NEW n \in 0 .. MaxHold
  PROVE  LET s == Owned(k, o, x, n) IN
         /\ Calm(s, k) /\ s.value = k.value
         /\ s.owner = o /\ s.original_priority = x /\ s.hold = n
<1> DEFINE s == Owned(k, o, x, n)
<1>1. s \in Kernels
  BY ZenonT(60) DEF Kernels, Owned
<1>2. SameLists(s, k)
  BY DEF Kernels, SameLists, SameQueues, Owned
<1>3. /\ s.value = k.value /\ s.error = k.error
      /\ s.current = k.current /\ s.late = k.late /\ s.lock_nest = k.lock_nest
      /\ s.owner = o /\ s.original_priority = x /\ s.hold = n
  BY DEF Kernels, Owned
<1> QED BY <1>1, <1>2, <1>3 DEF Calm

Units(v, o, x, n) ==
  /\ v \in [Objects -> Nat] /\ o \in Workers \union {Nobody}
  /\ x \in Priorities \union {255} /\ n \in 0 .. MaxHold

Assigned(k, v, o, x, n) ==
  [k EXCEPT !.value = v, !.owner = o, !.original_priority = x, !.hold = n]

LEMMA SetMutex ==
  ASSUME NEW k \in Kernels, NEW v, NEW o, NEW x, NEW n, Units(v, o, x, n)
  PROVE  LET s == Assigned(k, v, o, x, n) IN
         /\ Calm(s, k) /\ s.value = v
         /\ s.owner = o /\ s.original_priority = x /\ s.hold = n
<1> DEFINE s == Assigned(k, v, o, x, n)
<1>1. s \in Kernels
  BY ZenonT(60) DEF Kernels, Units, Assigned
<1>2. SameLists(s, k)
  BY DEF Kernels, SameLists, SameQueues, Assigned
<1>3. /\ s.value = v /\ s.error = k.error
      /\ s.current = k.current /\ s.late = k.late /\ s.lock_nest = k.lock_nest
      /\ s.owner = o /\ s.original_priority = x /\ s.hold = n
  BY DEF Kernels, Assigned
<1> QED BY <1>1, <1>2, <1>3 DEF Calm

(* thread->error = RT_EOK, of a thread that has no error.                  *)
LEMMA NoErrorLemma ==
  ASSUME NEW k, NEW p, NEW c, NEW h, NEW d, NEW f, Good(k, p, c, h, d, f),
         NEW t \in Threads, k.error[t] = "ok"
  PROVE  LET s == [k EXCEPT !.error[t] = "ok"] IN
         /\ s \in Kernels /\ Good(s, p, c, h, d, f) /\ Calm(s, k)
         /\ s.value = k.value /\ s.owner = k.owner
         /\ s.original_priority = k.original_priority /\ s.hold = k.hold
         /\ s.flag = k.flag /\ s.stat = k.stat /\ s.priority = k.priority
<1> DEFINE s == [k EXCEPT !.error[t] = "ok"]
<1>0. k \in Kernels
  BY DEF Good, Typed
<1>1. [k.error EXCEPT ![t] = "ok"] = k.error /\ k.error \in [Threads -> {"ok", "timeout"}]
  <2>1. k.error \in [Threads -> {"ok", "timeout"}]
    BY <1>0, FieldsLemma
  <2>2. [k.error EXCEPT ![t] = "ok"] = k.error
    BY <2>1
  <2> QED BY <2>1, <2>2
<1>2. s = [k EXCEPT !.error = [k.error EXCEPT ![t] = "ok"]]
  OBVIOUS
<1>3. /\ s \in Kernels /\ s.error = k.error /\ s.stat = k.stat /\ s.timers = k.timers
      /\ s.current = k.current /\ s.late = k.late
      /\ SameQueues(s, k) /\ SameOthers(s, k)
  BY <1>0, <1>1, <1>2, SetError
<1> HIDE DEF s
<1>4. Calm(s, k) /\ SameMutex(s, k) /\ s.value = k.value
  BY <1>3 DEF Calm, SameLists, SameOthers, SameMutex
<1>5. Good(s, p, c, h, d, f)
  BY <1>4, CalmLemma DEF Good
<1> QED BY <1>3, <1>4, <1>5 DEF s, SameOthers

-----------------------------------------------------------------------------
(* Every call and every handler preserves the invariant.                   *)

LEMMA HoldLemma ==
  ASSUME NEW k, NEW p, NEW c, NEW h, NEW d, NEW f, Good(k, p, c, h, d, f),
         k.owner # Nobody, NEW n \in 1 .. MaxHold
  PROVE  Good([k EXCEPT !.hold = n], p, c, h, d, f)
<1> DEFINE s == [k EXCEPT !.hold = n]
<1>1. k \in Kernels /\ MutexOK(k, c)
  BY DEF Good, Typed
<1>2. n \in 0 .. MaxHold /\ n >= 1
  BY BoundsAssumption
<1>3. Calm(s, k) /\ s.hold = n /\ s.value = k.value /\ s.owner = k.owner
      /\ s.original_priority = k.original_priority
  BY <1>1, <1>2, SetHold
<1> HIDE DEF s
<1>4. KeepsMutex(s, k, c, c)
  BY <1>1, <1>2, <1>3 DEF KeepsMutex, Calm, SameLists, Waits, Woken, MutexOK
<1>5. MutexOK(s, c)
  BY <1>1, <1>3, <1>4, MutexSame DEF Calm
<1>6. /\ Typed(s, p, c, h, d, f) /\ Ordered(s, p, c, d) /\ IdleOK(s, c, h, d, f)
      /\ HeapOK(s, p, c, h)
  BY <1>3, CalmLemma
<1> QED BY <1>5, <1>6 DEF Good, s

LEMMA TakeFree ==
  ASSUME NEW k, NEW p, NEW c, NEW h, NEW d, NEW f, Good(k, p, c, h, d, f),
         NEW t \in Workers, k.stat[t] = "ready", c[t] = "none", k.value["mutex"] > 0
  PROVE  Good([k EXCEPT !.value["mutex"] = @ - 1, !.owner = t,
                        !.original_priority = k.priority[t], !.hold = @ + 1],
              p, c, h, d, f)
<1> DEFINE v == [k.value EXCEPT !["mutex"] = k.value["mutex"] - 1]
           n == k.hold + 1
           x == k.priority[t]
           s == Assigned(k, v, t, x, n)
<1>1. k \in Kernels /\ MutexOK(k, c) /\ HeapOK(k, p, c, h) /\ t \in Threads
      /\ "mutex" \in Objects /\ "heap" \in Objects
  BY ConstantsLemma DEF Good, Typed, Objects
<1>2. k.value["mutex"] = 1 /\ k.owner = Nobody /\ k.hold = 0
      /\ \A u \in Threads : ~ Waits(k, c, u, "mutex")
  BY <1>1 DEF MutexOK
<1>3. n = 1 /\ n \in 0 .. MaxHold
  BY <1>2, BoundsAssumption
<1>4. x \in Priorities
  BY <1>1, FieldsLemma
<1>5. v \in [Objects -> Nat] /\ v["mutex"] = 0 /\ v["heap"] = k.value["heap"]
  BY <1>1, <1>2, FieldsLemma
<1> HIDE DEF v, n, x
<1>6. /\ Calm(s, k) /\ s.value = v
      /\ s.owner = t /\ s.original_priority = x /\ s.hold = n
  <2>1. Units(v, t, x, n)
    BY <1>3, <1>4, <1>5 DEF Units
  <2> QED BY <1>1, <2>1, SetMutex
<1> HIDE DEF s
<1>7. s.stat = k.stat /\ s.priority = k.priority /\ s.error = k.error /\ s.flag = k.flag
  BY <1>6 DEF Calm, SameLists
<1>8. t # Nobody
  BY <1>1, ConstantsLemma
<1>9. MutexOK(s, c)
  <2>1. s.value["mutex"] = 0 /\ s.hold >= 1
    BY <1>3, <1>5, <1>6
  <2>2. s.stat[t] \in {"ready", "suspend"} /\ ~ Waits(s, c, t, "mutex")
    BY <1>7 DEF Waits
  <2>3. s.original_priority = init_priority[t]
    BY <1>1, <1>2, <1>6, <1>8 DEF MutexOK, x
  <2>4. ASSUME NEW u \in Threads
        PROVE  /\ Woken(s, c, u, "mutex") => (s.error[u] = "ok" <=> s.owner = u)
               /\ ~ Waits(s, c, u, "mutex")
               /\ s.priority[u] <= init_priority[u]
               /\ s.priority[u] # init_priority[u] => s.owner = u
    <3>1. Woken(s, c, u, "mutex") => s.error[u] # "ok" /\ u # t
      <4>1. u # Nobody
        BY ConstantsLemma
      <4>2. Woken(s, c, u, "mutex") => Woken(k, c, u, "mutex") /\ u # t
        BY <1>7 DEF Woken
      <4> QED BY <1>1, <1>2, <1>7, <4>1, <4>2 DEF MutexOK
    <3>2. ~ Waits(s, c, u, "mutex")
      BY <1>2, <1>7 DEF Waits
    <3>3. s.priority[u] <= init_priority[u] /\ s.priority[u] = init_priority[u]
      <4>1. u # Nobody
        BY ConstantsLemma
      <4> QED BY <1>1, <1>2, <1>7, <4>1 DEF MutexOK
    <3> QED BY <1>6, <3>1, <3>2, <3>3
  <2> QED BY <1>6, <1>8, <2>1, <2>2, <2>3, <2>4 DEF MutexOK
<1>10. /\ Typed(s, p, c, h, d, f) /\ Ordered(s, p, c, d) /\ IdleOK(s, c, h, d, f)
       /\ HeapOK(s, p, c, h)
  BY <1>5, <1>6, CalmLemma
<1>11. Good(s, p, c, h, d, f)
  BY <1>9, <1>10 DEF Good
<1>12. s = [k EXCEPT !.value["mutex"] = @ - 1, !.owner = t,
                     !.original_priority = k.priority[t], !.hold = @ + 1]
  BY DEF s, Assigned, v, n, x
<1> QED BY <1>11, <1>12

LEMMA SameTimers ==
  ASSUME NEW k, NEW s, NEW lo, Timed(k, lo),
         s.timers = k.timers, s.tick = k.tick, s.stat = k.stat
  PROVE  Timed(s, lo) /\ \A u : HasTimer(s, u) <=> HasTimer(k, u)
<1>1. Timed(s, lo)
  BY DEF Timed, Left
<1>2. \A u : HasTimer(s, u) <=> HasTimer(k, u)
  BY DEF HasTimer
<1> QED BY <1>1, <1>2

(* The owner of the mutex, after the inheritance.                          *)
Raised(s, k, t) ==
  /\ s \in Kernels /\ SameRest(s, k) /\ s.stat = k.stat /\ s.timers = k.timers
  /\ s.current = k.current /\ s.late = k.late
  /\ s.priority[k.owner] <= k.priority[t]
  /\ s.priority[k.owner] <= k.priority[k.owner]
  /\ \A u \in Threads : u # k.owner => s.priority[u] = k.priority[u]

LEMMA BoostedLemma ==
  ASSUME NEW k \in Kernels, NEW c, NEW d, NEW t \in Threads,
         Queued(k, c, d), Timed(k, 1), k.owner \in Threads, ~ Waits(k, c, k.owner, "mutex")
  PROVE  LET s == Boosted(k, t)
         IN  Raised(s, k, t) /\ Queued(s, c, d) /\ Timed(s, 1)
<1> DEFINE s == Boosted(k, t)
<1>0. PICK o \in Threads : o = k.owner
  OBVIOUS
<1>1. k.priority \in [Threads -> Priorities]
  BY FieldsLemma
<1>2. k.priority[t] \in Priorities /\ k.priority[t] \in Nat /\ k.priority[o] \in Nat
  <2>1. k.priority[t] \in Priorities /\ k.priority[o] \in Priorities
    BY <1>1
  <2> QED BY <2>1, ConstantsLemma
<1>3. CASE k.priority[t] < k.priority[o]
  <2> DEFINE b == ChangePriority(k, o, k.priority[t])
  <2>1. s = b
    BY <1>0, <1>3 DEF Boosted
  <2>2. ~ (k.stat[o] = "suspend" /\ c[o] = "mutex")
    BY <1>0 DEF Waits
  <2>3. /\ b \in Kernels /\ SameRest(b, k)
        /\ b.stat = k.stat /\ b.priority = [k.priority EXCEPT ![o] = k.priority[t]]
        /\ b.timers = k.timers /\ b.current = k.current /\ b.late = k.late
        /\ Queued(b, c, d)
    BY <1>2, <2>2, ChangePriorityLemma
  <2> HIDE DEF b, s
  <2>4. /\ b.priority[o] = k.priority[t]
        /\ \A u \in Threads : u # o => b.priority[u] = k.priority[u]
    BY <1>1, <2>3
  <2>5. b.priority[o] <= k.priority[t] /\ b.priority[o] <= k.priority[o]
    BY <1>2, <1>3, <2>4
  <2>6. Timed(b, 1)
    <3>1. b.tick = k.tick
      BY <2>3 DEF SameRest
    <3> QED BY <2>3, <3>1, SameTimers
  <2>7. Raised(s, k, t)
    BY <1>0, <2>1, <2>3, <2>4, <2>5 DEF Raised
  <2>8. Queued(s, c, d) /\ Timed(s, 1)
    BY <2>1, <2>3, <2>6
  <2> QED BY <2>7, <2>8 DEF s
<1>4. CASE ~ (k.priority[t] < k.priority[o])
  <2>1. s = k
    BY <1>0, <1>4 DEF Boosted
  <2>2. k.priority[o] <= k.priority[t] /\ k.priority[o] <= k.priority[o]
    BY <1>2, <1>4
  <2> HIDE DEF s
  <2>3. SameRest(s, k)
    BY <2>1 DEF SameRest
  <2>4. Raised(s, k, t)
    BY <1>0, <2>1, <2>2, <2>3 DEF Raised
  <2> QED BY <2>1, <2>4 DEF s
<1> QED BY <1>3, <1>4

LEMMA TakeWait ==
  ASSUME NEW k, NEW p, NEW c, NEW h, NEW d, NEW f, NEW q, NEW e, Good(k, p, c, h, d, f),
         NEW t \in Workers, NEW time \in (1 .. Half - 1) \union {Forever},
         k.current = t, p[t] = "run", k.lock_nest = 0, t \notin h,
         k.owner # t, k.value["mutex"] = 0,
         q = [p EXCEPT ![t] = "sched"], e = [c EXCEPT ![t] = "mutex"]
  PROVE  Good(WaitOn(Boosted(k, t), t, "mutex", k.flag, time), q, e, h, d, f)
<1>1. /\ k \in Kernels /\ MutexOK(k, c) /\ t \in Threads /\ t # Idle
      /\ Ordered(k, p, c, d) /\ Queued(k, c, d) /\ Timed(k, 1)
      /\ c \in [Threads -> Objects \union {"none", "sleep", "exit"}]
      /\ "mutex" \in Objects
  BY ConstantsLemma, ThreadsAssumption DEF Good, Typed, Ordered, Objects
<1>2. k.owner # Nobody /\ k.owner \in Threads
  <2>1. k.owner # Nobody
    BY <1>1 DEF MutexOK
  <2> QED BY <1>1, <2>1, FieldsLemma, ConstantsLemma
<1>3. PICK o \in Threads : o = k.owner /\ ~ Waits(k, c, o, "mutex") /\ o # t
  BY <1>1, <1>2 DEF MutexOK
<1>4. c[t] = "none" /\ k.stat[t] = "ready" /\ k.error[t] = "ok"
  BY <1>1 DEF Ordered, Staged, Stage, CurrentOK
<1> DEFINE b == Boosted(k, t)
<1>5. /\ b \in Kernels /\ SameRest(b, k)
      /\ b.stat = k.stat /\ b.timers = k.timers
      /\ b.current = k.current /\ b.late = k.late
      /\ b.priority[k.owner] <= k.priority[t]
      /\ b.priority[k.owner] <= k.priority[k.owner]
      /\ \A u \in Threads : u # k.owner => b.priority[u] = k.priority[u]
      /\ Queued(b, c, d) /\ Timed(b, 1)
  <2>1. /\ k \in Kernels /\ t \in Threads /\ Queued(k, c, d) /\ Timed(k, 1)
        /\ k.owner \in Threads /\ ~ Waits(k, c, k.owner, "mutex")
    BY <1>1, <1>2, <1>3
  <2>2. Raised(b, k, t) /\ Queued(b, c, d) /\ Timed(b, 1)
    BY <2>1, BoostedLemma
  <2> QED BY <2>2 DEF Raised
<1> HIDE DEF b
<1>6. b.flag = k.flag /\ k.flag \in {"FIFO", "PRIO"}
  BY <1>1, <1>5, FieldsLemma DEF SameRest
<1>7. Discipline(b, "mutex", k.flag) /\ Calls(e, c, t, "mutex") /\ b.stat[t] = "ready"
  <2>1. e[t] = "mutex" /\ \A u \in Threads : u # t => e[u] = c[u]
    BY <1>1
  <2> QED BY <1>4, <1>5, <1>6, <2>1 DEF Discipline, Calls
<1> DEFINE s == WaitOn(b, t, "mutex", k.flag, time)
<1>8. /\ s \in Kernels /\ SameRest(s, b)
      /\ s.stat = [b.stat EXCEPT ![t] = "suspend"]
      /\ s.priority = b.priority /\ s.current = b.current /\ s.late = b.late
      /\ Queued(s, e, d) /\ Timed(s, 1)
      /\ \A u : u # t => (HasTimer(s, u) <=> HasTimer(b, u))
  BY <1>1, <1>5, <1>7, WaitOnLemma
<1> HIDE DEF s
<1>9. /\ s.error = k.error /\ s.flag = k.flag /\ s.value = k.value /\ s.owner = k.owner
      /\ s.original_priority = k.original_priority /\ s.hold = k.hold
      /\ s.lock_nest = 0
  BY <1>5, <1>8 DEF SameRest
<1>10. \A u : u # t => (HasTimer(s, u) <=> HasTimer(k, u))
  <2>1. \A u : HasTimer(b, u) <=> HasTimer(k, u)
    BY <1>5 DEF HasTimer
  <2> QED BY <1>8, <2>1
<1>11. Blocks(s, k, q, p, e, c, t, "mutex")
  BY <1>1, <1>5, <1>8, <1>9, <1>10 DEF Blocks
<1>12. /\ Typed(s, q, e, h, d, f) /\ Ordered(s, q, e, d)
       /\ HeapOK(s, q, e, h) /\ IdleOK(s, e, h, d, f)
  BY <1>1, <1>8, <1>11, BlockGood
<1>13. s.stat[t] = "suspend" /\ \A u \in Threads : u # t => s.stat[u] = k.stat[u]
  BY <1>1, <1>5, <1>8, FieldsLemma
<1>14. e[t] = "mutex" /\ \A u \in Threads : u # t => e[u] = c[u]
  BY <1>7 DEF Calls
<1>15. MutexOK(s, e)
  <2>1. /\ s.value["mutex"] = 0 /\ s.owner # Nobody /\ s.hold >= 1
        /\ s.stat[s.owner] \in {"ready", "suspend"}
        /\ s.original_priority = init_priority[s.owner]
    BY <1>1, <1>2, <1>3, <1>9, <1>13 DEF MutexOK
  <2>2. ~ Waits(s, e, s.owner, "mutex")
    BY <1>3, <1>9, <1>13, <1>14 DEF Waits
  <2>3. ASSUME NEW u \in Threads, Woken(s, e, u, "mutex")
        PROVE  s.error[u] = "ok" <=> s.owner = u
    <3>1. u # t
      BY <1>13, <2>3 DEF Woken
    <3>2. Woken(k, c, u, "mutex")
      BY <1>13, <1>14, <2>3, <3>1 DEF Woken
    <3> QED BY <1>1, <1>9, <3>2 DEF MutexOK
  <2>4. ASSUME NEW u \in Threads, s.flag = "PRIO", Waits(s, e, u, "mutex")
        PROVE  s.priority[s.owner] <= s.priority[u]
    <3>1. CASE u = t
      BY <1>3, <1>5, <1>8, <1>9, <3>1
    <3>2. CASE u # t
      <4>1. Waits(k, c, u, "mutex")
        BY <1>13, <1>14, <2>4, <3>2 DEF Waits
      <4>2. u # k.owner /\ k.priority[k.owner] <= k.priority[u]
        BY <1>1, <1>3, <1>9, <2>4, <4>1 DEF MutexOK
      <4>3. s.priority[u] = k.priority[u] /\ s.priority[s.owner] <= k.priority[k.owner]
        BY <1>5, <1>8, <1>9, <4>2
      <4>4. /\ s.priority[s.owner] \in Nat /\ k.priority[k.owner] \in Nat
            /\ k.priority[u] \in Nat
        <5>1. /\ s.priority[s.owner] \in Priorities /\ k.priority[k.owner] \in Priorities
              /\ k.priority[u] \in Priorities
          BY <1>1, <1>2, <1>8, <1>9, FieldsLemma
        <5> QED BY <5>1, ConstantsLemma
      <4> QED BY <4>2, <4>3, <4>4
    <3> QED BY <3>1, <3>2
  <2>5. ASSUME NEW u \in Threads
        PROVE  /\ s.priority[u] <= init_priority[u]
               /\ s.priority[u] # init_priority[u] => s.owner = u
    <3>1. /\ k.priority[u] <= init_priority[u]
          /\ k.priority[u] # init_priority[u] => k.owner = u
      BY <1>1 DEF MutexOK
    <3>2. CASE u = k.owner
      <4>1. s.priority[u] <= k.priority[u]
        BY <1>5, <1>8, <3>2
      <4>2. s.priority[u] \in Nat /\ k.priority[u] \in Nat /\ init_priority[u] \in Nat
        <5>1. s.priority[u] \in Priorities /\ k.priority[u] \in Priorities
          BY <1>1, <1>8, FieldsLemma
        <5> QED BY <5>1, ConstantsLemma
      <4>3. s.priority[u] <= init_priority[u]
        BY <3>1, <4>1, <4>2
      <4> QED BY <1>9, <3>2, <4>3
    <3>3. CASE u # k.owner
      BY <1>5, <1>8, <1>9, <3>1, <3>3
    <3> QED BY <3>2, <3>3
  <2>6. /\ s.value["mutex"] \in {0, 1}
        /\ s.owner = Nobody <=> s.value["mutex"] = 1
        /\ s.owner = Nobody => /\ s.hold = 0
                               /\ \A u \in Threads : ~ Waits(s, e, u, "mutex")
        /\ s.owner # Nobody => /\ s.stat[s.owner] \in {"ready", "suspend"}
                               /\ s.original_priority = init_priority[s.owner]
                               /\ s.hold >= 1
                               /\ ~ Waits(s, e, s.owner, "mutex")
    BY <2>1, <2>2
  <2> QED BY <2>3, <2>4, <2>5, <2>6 DEF MutexOK
<1> QED BY <1>12, <1>15 DEF Good, s, b

LEMMA TimesLemma ==
  ASSUME NEW x \in {"mutex", "rx", "sleep"}, NEW time \in Times[x]
  PROVE  /\ time \in (1 .. Half - 1) \union {Forever}
         /\ x = "sleep" => time \in 1 .. Half - 1
<1>1. Times[x] \subseteq (1 .. Half - 1) \union {Forever}
  BY TicksAssumption
<1>2. x = "sleep" => time # Forever
  BY TicksAssumption
<1> QED BY <1>1, <1>2

LEMMA MutexTakeInv ==
  ASSUME IInv, NEW t \in Threads, NEW time \in Times["mutex"], MutexTake(t, time)
  PROVE  IInv'
<1> DEFINE k == [kernel EXCEPT !.error[t] = "ok"]
<1>1. /\ Running(t) /\ t \notin inHeap /\ t \in Workers
      /\ inHeap' = inHeap /\ dead' = dead /\ frees' = frees
  BY DEF MutexTake, Free, Client
<1>2. /\ kernel \in Kernels /\ Good(kernel, pc, call, inHeap, dead, frees)
      /\ kernel.current = t /\ pc[t] = "run"
      /\ call[t] = "none" /\ kernel.stat[t] = "ready" /\ kernel.error[t] = "ok"
  BY <1>1, RunningLemma
<1>3. /\ k \in Kernels /\ Good(k, pc, call, inHeap, dead, frees) /\ Calm(k, kernel)
      /\ k.stat = kernel.stat
  BY <1>2, NoErrorLemma
<1>4. \/ /\ k.owner = t /\ k.hold < MaxHold
         /\ kernel' = [k EXCEPT !.hold = @ + 1]
         /\ pc' = pc /\ call' = call
      \/ /\ k.owner # t /\ k.value["mutex"] > 0
         /\ kernel' = [k EXCEPT !.value["mutex"] = @ - 1, !.owner = t,
                                !.original_priority = k.priority[t], !.hold = @ + 1]
         /\ pc' = pc /\ call' = call
      \/ /\ k.owner # t /\ k.value["mutex"] = 0 /\ kernel.lock_nest = 0
         /\ kernel' = WaitOn(Boosted(k, t), t, "mutex", k.flag, time)
         /\ pc' = [pc EXCEPT ![t] = "sched"] /\ call' = [call EXCEPT ![t] = "mutex"]
  BY DEF MutexTake, Done, ToSchedule, MayBlock
<1> HIDE DEF k
<1>5. k.stat[t] = "ready" /\ k.current = t /\ k.lock_nest = kernel.lock_nest /\ t # Nobody
  BY <1>2, <1>3, ConstantsLemma DEF Calm
<1>6. CASE /\ k.owner = t /\ k.hold < MaxHold
           /\ kernel' = [k EXCEPT !.hold = @ + 1]
           /\ pc' = pc /\ call' = call
  <2> DEFINE n == k.hold + 1
  <2>1. n \in 1 .. MaxHold
    BY <1>3, <1>6, FieldsLemma, BoundsAssumption
  <2>2. kernel' = [k EXCEPT !.hold = n]
    BY <1>6
  <2> HIDE DEF n
  <2>3. Good(kernel', pc, call, inHeap, dead, frees)
    BY <1>3, <1>5, <1>6, <2>1, <2>2, HoldLemma
  <2> QED BY <1>1, <1>6, <2>3 DEF IInv
<1>7. CASE /\ k.owner # t /\ k.value["mutex"] > 0
           /\ kernel' = [k EXCEPT !.value["mutex"] = @ - 1, !.owner = t,
                                  !.original_priority = k.priority[t], !.hold = @ + 1]
           /\ pc' = pc /\ call' = call
  <2>1. Good(kernel', pc, call, inHeap, dead, frees)
    BY <1>1, <1>2, <1>3, <1>5, <1>7, TakeFree
  <2> QED BY <1>1, <1>7, <2>1 DEF IInv
<1>8. CASE /\ k.owner # t /\ k.value["mutex"] = 0 /\ kernel.lock_nest = 0
           /\ kernel' = WaitOn(Boosted(k, t), t, "mutex", k.flag, time)
           /\ pc' = [pc EXCEPT ![t] = "sched"] /\ call' = [call EXCEPT ![t] = "mutex"]
  <2>1. time \in (1 .. Half - 1) \union {Forever}
    BY TimesLemma
  <2>2. Good(kernel', pc', call', inHeap, dead, frees)
    BY <1>1, <1>2, <1>3, <1>5, <1>8, <2>1, TakeWait
  <2> QED BY <1>1, <2>2 DEF IInv
<1> QED BY <1>4, <1>6, <1>7, <1>8

(* The owner of the mutex has its own priority back, as all others have.   *)
Returned(s, k) ==
  /\ s \in Kernels /\ SameRest(s, k) /\ s.stat = k.stat /\ s.timers = k.timers
  /\ s.current = k.current
  /\ \A u \in Threads : s.priority[u] = init_priority[u]
  /\ \/ s.late = TRUE
     \/ s.late = k.late /\ s.ready = k.ready /\ s.group = k.group

LEMMA SetLate ==
  ASSUME NEW k \in Kernels
  PROVE  LET s == [k EXCEPT !.late = TRUE] IN
         /\ s \in Kernels /\ SameLists(s, k) /\ SameRest(s, k)
         /\ s.current = k.current /\ s.late = TRUE
<1> DEFINE s == [k EXCEPT !.late = TRUE]
<1>1. s \in Kernels
  BY ZenonT(60) DEF Kernels
<1>2. SameLists(s, k)
  BY DEF Kernels, SameLists, SameQueues
<1>3. SameRest(s, k) /\ s.current = k.current /\ s.late = TRUE
  BY DEF Kernels, SameRest
<1> QED BY <1>1, <1>2, <1>3

LEMMA RestoredLemma ==
  ASSUME NEW k \in Kernels, NEW c, NEW d, Queued(k, c, d), Timed(k, 1),
         NEW t \in Threads, k.owner = t, k.stat[t] = "ready",
         k.original_priority = init_priority[t],
         \A u \in Threads : u # t => k.priority[u] = init_priority[u]
  PROVE  LET s == Restored(k)
         IN  Returned(s, k) /\ Queued(s, c, d) /\ Timed(s, 1)
<1> DEFINE s == Restored(k)
<1>1. CASE k.original_priority # k.priority[t]
  <2>0. PICK x \in Priorities : x = init_priority[t]
    BY ConstantsLemma
  <2> DEFINE b == ChangePriority(k, t, x)
  <2>1. s = [b EXCEPT !.late = TRUE]
    BY <1>1, <2>0 DEF Restored
  <2>2. /\ k \in Kernels /\ t \in Threads /\ x \in Priorities /\ Queued(k, c, d)
        /\ ~ (k.stat[t] = "suspend" /\ c[t] = "mutex")
    OBVIOUS
  <2>3. /\ b \in Kernels /\ SameRest(b, k)
        /\ b.stat = k.stat /\ b.priority = [k.priority EXCEPT ![t] = x]
        /\ b.timers = k.timers /\ b.current = k.current /\ b.late = k.late
        /\ Queued(b, c, d)
    BY ONLY <2>2, ChangePriorityLemma
  <2> HIDE DEF b, s
  <2>4. \A u \in Threads : b.priority[u] = init_priority[u]
    BY <2>0, <2>3, FieldsLemma
  <2>5. Timed(b, 1)
    <3>1. b.tick = k.tick
      BY <2>3 DEF SameRest
    <3> QED BY <2>3, <3>1, SameTimers
  <2>6. /\ s \in Kernels /\ SameLists(s, b) /\ SameRest(s, b)
        /\ s.current = b.current /\ s.late = TRUE
    BY <2>1, <2>3, SetLate
  <2>7. Returned(s, k)
    BY <2>3, <2>4, <2>6 DEF Returned, SameRest, SameLists
  <2>8. Queued(s, c, d) /\ Timed(s, 1)
    BY <2>3, <2>5, <2>6, SameListsLemma
  <2> QED BY <2>7, <2>8 DEF s
<1>2. CASE k.original_priority = k.priority[t]
  <2>1. s = k
    BY <1>2 DEF Restored
  <2> HIDE DEF s
  <2>2. Returned(s, k)
    BY <1>2, <2>1 DEF Returned, SameRest
  <2> QED BY <2>1, <2>2 DEF s
<1> QED BY <1>1, <1>2

(* The last release of the mutex, up to the handing over: who has it, with *)
(* which priorities, and whether rt_schedule is owed.                      *)
LEMMA LastReleaseLemma ==
  ASSUME NEW k, NEW p, NEW c, NEW h, NEW d, NEW f, Good(k, p, c, h, d, f),
         NEW t \in Threads, k.owner = t, k.stat[t] = "ready"
  PROVE  LET a == Restored([k EXCEPT !.hold = 0]) IN
         /\ a \in Kernels /\ Queued(a, c, d) /\ Timed(a, 1)
         /\ a.stat = k.stat /\ a.timers = k.timers /\ a.current = k.current
         /\ a.error = k.error /\ a.flag = k.flag /\ a.value = k.value
         /\ a.lock_nest = k.lock_nest
         /\ \A u \in Threads : a.priority[u] = init_priority[u]
         /\ \/ a.late = TRUE
            \/ a.late = k.late /\ a.ready = k.ready /\ a.group = k.group
<1> DEFINE b == [k EXCEPT !.hold = 0]
           a == Restored(b)
<1>1. k \in Kernels /\ MutexOK(k, c) /\ Queued(k, c, d) /\ Timed(k, 1)
  BY DEF Good, Typed, Ordered
<1>2. 0 \in 0 .. MaxHold
  BY BoundsAssumption
<1>3. /\ Calm(b, k) /\ b.value = k.value /\ b.owner = k.owner
      /\ b.original_priority = k.original_priority
  BY <1>1, <1>2, SetHold
<1> HIDE DEF b
<1>4. /\ b \in Kernels /\ b.stat = k.stat /\ b.timers = k.timers
      /\ b.current = k.current /\ b.late = k.late /\ b.ready = k.ready /\ b.group = k.group
      /\ b.error = k.error /\ b.flag = k.flag /\ b.lock_nest = k.lock_nest
      /\ b.priority = k.priority
  BY <1>3 DEF Calm, SameLists, SameQueues
<1>5. Queued(b, c, d) /\ Timed(b, 1)
  BY <1>1, <1>3, SameListsLemma DEF Calm
<1>6. /\ b.owner = t /\ b.stat[t] = "ready"
      /\ b.original_priority = init_priority[t]
      /\ \A u \in Threads : u # t => b.priority[u] = init_priority[u]
  BY <1>1, <1>3, <1>4, ConstantsLemma DEF MutexOK
<1>7. Returned(a, b) /\ Queued(a, c, d) /\ Timed(a, 1)
  BY <1>4, <1>5, <1>6, RestoredLemma
<1> HIDE DEF a
<1>8. /\ a \in Kernels
      /\ a.stat = k.stat /\ a.timers = k.timers /\ a.current = k.current
      /\ a.error = k.error /\ a.flag = k.flag /\ a.value = k.value
      /\ a.lock_nest = k.lock_nest
      /\ \A u \in Threads : a.priority[u] = init_priority[u]
  BY <1>3, <1>4, <1>7 DEF Returned, SameRest
<1>9. \/ a.late = TRUE
      \/ a.late = k.late /\ a.ready = k.ready /\ a.group = k.group
  BY <1>4, <1>7 DEF Returned
<1> QED BY <1>7, <1>8, <1>9 DEF a, b

LEMMA HandOverGood ==
  ASSUME NEW k, NEW p, NEW c, NEW h, NEW d, NEW f, NEW q, Good(k, p, c, h, d, f),
         NEW t \in Threads, k.owner = t, k.current = t, p[t] = "run", t \notin h,
         k.waiters["mutex"] # <<>>, q = [p EXCEPT ![t] = "sched"]
  PROVE  Good(HandOver(Restored([k EXCEPT !.hold = 0])), q, c, h, d, f)
<1>1. /\ k \in Kernels /\ MutexOK(k, c) /\ Ordered(k, p, c, d) /\ Queued(k, c, d)
      /\ IdleOK(k, c, h, d, f) /\ HeapOK(k, p, c, h) /\ h \subseteq Threads
      /\ "mutex" \in Objects /\ "heap" \in Objects
  BY DEF Good, Typed, Ordered, Objects
<1>2. c[t] = "none" /\ k.stat[t] = "ready" /\ k.error[t] = "ok"
  BY <1>1 DEF Ordered, Staged, Stage, CurrentOK
<1>3. /\ q \in [Threads -> {"run", "sched", "back"}]
      /\ q[t] = "sched" /\ \A u \in Threads : u # t => q[u] = p[u]
  BY DEF Good, Typed
<1> DEFINE a == Restored([k EXCEPT !.hold = 0])
<1>4. /\ a \in Kernels /\ Queued(a, c, d) /\ Timed(a, 1)
      /\ a.stat = k.stat /\ a.timers = k.timers /\ a.current = k.current
      /\ a.error = k.error /\ a.flag = k.flag /\ a.value = k.value
      /\ a.lock_nest = k.lock_nest
      /\ \A u \in Threads : a.priority[u] = init_priority[u]
  BY <1>2, LastReleaseLemma, ZenonT(60)
<1> HIDE DEF a
<1>5. PICK w : w = Head(a.waiters["mutex"])
  OBVIOUS
<1>6. w \in Workers /\ w \in Threads /\ w # t /\ Waits(k, c, w, "mutex") /\ a.waiters["mutex"] # <<>>
  <2>1. PICK u \in Threads : Waits(k, c, u, "mutex")
    BY <1>1, WaitersLemma
  <2>2. Waits(a, c, u, "mutex")
    BY <1>4, <2>1 DEF Waits
  <2>3. a.waiters["mutex"] # <<>> /\ w \in Threads /\ Waits(a, c, w, "mutex")
    BY <1>1, <1>4, <1>5, <2>2, WaitersLemma
  <2>4. Waits(k, c, w, "mutex")
    BY <1>4, <2>3 DEF Waits
  <2>5. w # Idle /\ w # t
    BY <1>1, <1>2, <2>4 DEF Waits, IdleOK
  <2> QED BY <2>3, <2>4, <2>5 DEF Threads
<1>0. PICK x, n : x = a.priority[w] /\ n = 1
  OBVIOUS
<1> DEFINE b == Owned(a, w, x, n)
           s == Resume(b, w)
<1>7. /\ Calm(b, a) /\ b.value = a.value
      /\ b.owner = w /\ b.original_priority = init_priority[w] /\ b.hold = 1
  <2>1. x \in Priorities /\ x = init_priority[w]
    BY <1>0, <1>4, <1>6, FieldsLemma
  <2>2. n \in 0 .. MaxHold
    BY <1>0, BoundsAssumption
  <2>3. /\ a \in Kernels /\ w \in Workers \union {Nobody}
        /\ x \in Priorities \union {255} /\ n \in 0 .. MaxHold
    BY <1>4, <1>6, <2>1, <2>2
  <2>4. Calm(b, a) /\ b.value = a.value /\ b.owner = w /\ b.original_priority = x /\ b.hold = n
    BY ONLY <2>3, SetOwner
  <2> HIDE DEF b
  <2> QED BY <1>0, <2>1, <2>4
<1>8. HandOver(a) = s
  BY <1>0, <1>5 DEF HandOver, Owned
<1> HIDE DEF b, s
<1>9. /\ b \in Kernels /\ b.stat = k.stat /\ b.timers = k.timers /\ b.current = k.current
      /\ b.error = k.error /\ b.flag = k.flag /\ b.value = k.value
      /\ b.lock_nest = k.lock_nest
      /\ \A u \in Threads : b.priority[u] = init_priority[u]
  BY <1>4, <1>7 DEF Calm, SameLists
<1>10. Queued(b, c, d) /\ Timed(b, 1)
  BY <1>4, <1>7, SameListsLemma DEF Calm
<1>11. /\ s \in Kernels /\ SameRest(s, b)
       /\ s.stat = [b.stat EXCEPT ![w] = "ready"]
       /\ s.priority = b.priority /\ s.current = b.current /\ s.late = b.late
       /\ Queued(s, c, d) /\ Timed(s, 1)
       /\ \A u : u # w => (HasTimer(s, u) <=> HasTimer(b, u))
  <2>1. b.stat[w] = "suspend"
    BY <1>6, <1>9 DEF Waits
  <2>2. /\ b \in Kernels /\ w \in Threads /\ Queued(b, c, d) /\ Timed(b, 1)
        /\ b.stat[w] = "suspend"
    BY <1>6, <1>9, <1>10, <2>1
  <2> QED BY ONLY <2>2, ResumeLemma DEF s
<1>12. /\ s.error = k.error /\ s.flag = k.flag /\ s.value = k.value /\ s.owner = w
       /\ s.original_priority = init_priority[w] /\ s.hold = 1 /\ s.lock_nest = k.lock_nest
       /\ s.current = t /\ \A u \in Threads : s.priority[u] = init_priority[u]
  BY <1>7, <1>9, <1>11 DEF SameRest
<1>13. s.stat[w] = "ready" /\ \A u \in Threads : u # w => s.stat[u] = k.stat[u]
  BY <1>1, <1>6, <1>9, <1>11, FieldsLemma
<1>14. /\ Queued(s, c, d) /\ Sleepers(s, c) /\ Staged(s, q, c)
  <2>0. \A u : HasTimer(b, u) <=> HasTimer(k, u)
    BY <1>9 DEF HasTimer
  <2>1. \A u : u # w => (HasTimer(s, u) <=> HasTimer(k, u))
    BY <1>11, <2>0
  <2>2. \A u \in Threads : c[u] = c[u] /\ (q[u] = p[u] \/ (c[u] = "none" /\ q[u] = "sched"))
    BY <1>2, <1>3
  <2>3. k.stat[w] = "suspend" /\ s.stat = [k.stat EXCEPT ![w] = "ready"]
    BY <1>6, <1>9, <1>11 DEF Waits
  <2>4. /\ k \in Kernels /\ s \in Kernels /\ w \in Threads /\ Ordered(k, p, c, d)
        /\ k.stat[w] = "suspend" /\ s.stat = [k.stat EXCEPT ![w] = "ready"]
        /\ s.error = k.error /\ Queued(s, c, d) /\ Timed(s, 1)
    BY <1>1, <1>6, <1>11, <1>12, <2>3
  <2> QED BY ONLY <2>1, <2>2, <2>4, WakeLemma
<1>15. Ordered(s, q, c, d)
  <2>1. s.stat[t] = "ready"
    BY <1>2, <1>6, <1>13
  <2>2. CurrentOK(s, q, c) /\ Highest(s, q)
    BY <1>2, <1>3, <1>12, <2>1 DEF CurrentOK, Highest
  <2> QED BY <1>11, <1>14, <2>2 DEF Ordered
<1>16. /\ \A u \in Threads :
            u # w => /\ Waits(s, c, u, "mutex") <=> Waits(k, c, u, "mutex")
                     /\ Waits(s, c, u, "heap") <=> Waits(k, c, u, "heap")
                     /\ Woken(s, c, u, "mutex") <=> Woken(k, c, u, "mutex")
                     /\ Woken(s, c, u, "heap") <=> Woken(k, c, u, "heap")
       /\ ~ Waits(s, c, w, "mutex") /\ ~ Waits(s, c, w, "heap")
  BY <1>6, <1>13 DEF Waits, Woken
<1>17. MutexOK(s, c)
  <2>1. s.value["mutex"] = 0 /\ w # Nobody /\ t # Nobody
    BY <1>1, <1>6, <1>12, ConstantsLemma DEF MutexOK
  <2>2. ASSUME NEW u \in Threads, Woken(s, c, u, "mutex")
        PROVE  s.error[u] = "ok" <=> s.owner = u
    <3>1. CASE u = w
      <4>1. k.error[w] = "ok"
        BY <1>1, <1>6 DEF Ordered, Staged, Stage, Waits
      <4> QED BY <1>12, <3>1, <4>1
    <3>2. CASE u # w
      <4>1. Woken(k, c, u, "mutex")
        BY <1>16, <2>2, <3>2
      <4>2. u # t
        BY <1>2, <4>1 DEF Woken
      <4>3. k.error[u] # "ok"
        BY <1>1, <4>1, <4>2 DEF MutexOK
      <4> QED BY <1>12, <3>2, <4>3
    <3> QED BY <3>1, <3>2
  <2>3. ASSUME NEW u \in Threads, s.flag = "PRIO", Waits(s, c, u, "mutex")
        PROVE  s.priority[s.owner] <= s.priority[u]
    <3>1. Waits(a, c, u, "mutex")
      BY <1>4, <1>16, <2>3 DEF Waits
    <3>2. a.priority[w] <= a.priority[u]
      BY <1>4, <1>5, <1>6, <1>12, <2>3, <3>1, FirstWaiterLemma
    <3> QED BY <1>4, <1>6, <1>12, <3>2
  <2>4. ASSUME NEW u \in Threads
        PROVE  s.priority[u] <= init_priority[u] /\ s.priority[u] = init_priority[u]
    <3>1. init_priority[u] \in Nat
      BY ConstantsLemma
    <3> QED BY <1>12, <3>1
  <2>5. ~ Waits(s, c, w, "mutex") /\ s.stat[w] = "ready"
    BY <1>13, <1>16
  <2> QED BY <1>12, <2>1, <2>2, <2>3, <2>4, <2>5 DEF MutexOK
<1>18. HeapOK(s, q, c, h)
  <2>1. \A u \in h : q[u] = "run" /\ s.stat[u] = "ready"
    BY <1>1, <1>3, <1>13 DEF HeapOK
  <2>2. \A u \in Threads : Waits(s, c, u, "heap") => Waits(k, c, u, "heap")
    BY <1>16
  <2>3. \A u \in Threads : Woken(s, c, u, "heap") /\ s.error[u] = "ok"
                             <=> Woken(k, c, u, "heap") /\ k.error[u] = "ok"
    <3>1. ~ Woken(s, c, w, "heap") /\ ~ Woken(k, c, w, "heap")
      BY <1>6 DEF Waits, Woken
    <3> QED BY <1>12, <1>16, <3>1
  <2>4. HeapOK(k, p, c, h) /\ h \subseteq Threads /\ s.value["heap"] = k.value["heap"]
    BY <1>1, <1>12
  <2> QED BY ONLY <2>1, <2>2, <2>3, <2>4, HeapSame
<1>19. IdleOK(s, c, h, d, f)
  <2>1. d # Nobody => d \in Threads /\ d # w
    BY <1>1, <1>6, ConstantsLemma DEF Good, Typed, IdleOK, Waits
  <2> QED BY <1>1, <1>13, <2>1 DEF IdleOK
<1>20. Typed(s, q, c, h, d, f)
  BY <1>3, <1>11 DEF Good, Typed
<1> QED BY <1>8, <1>15, <1>17, <1>18, <1>19, <1>20 DEF Good, a

LEMMA FreeMutexGood ==
  ASSUME NEW k, NEW p, NEW c, NEW h, NEW d, NEW f, Good(k, p, c, h, d, f),
         NEW t \in Threads, k.owner = t, k.current = t, p[t] = "run",
         k.waiters["mutex"] = <<>>
  PROVE  Good(FreeMutex(Restored([k EXCEPT !.hold = 0])), p, c, h, d, f)
<1>1. /\ k \in Kernels /\ MutexOK(k, c) /\ Ordered(k, p, c, d) /\ Queued(k, c, d)
      /\ IdleOK(k, c, h, d, f) /\ HeapOK(k, p, c, h) /\ h \subseteq Threads
      /\ "mutex" \in Objects /\ "heap" \in Objects
  BY DEF Good, Typed, Ordered, Objects
<1>2. c[t] = "none" /\ k.stat[t] = "ready" /\ k.error[t] = "ok"
  BY <1>1 DEF Ordered, Staged, Stage, CurrentOK
<1> DEFINE a == Restored([k EXCEPT !.hold = 0])
<1>3. /\ a \in Kernels /\ Queued(a, c, d) /\ Timed(a, 1)
      /\ a.stat = k.stat /\ a.timers = k.timers /\ a.current = k.current
      /\ a.error = k.error /\ a.flag = k.flag /\ a.value = k.value
      /\ a.lock_nest = k.lock_nest
      /\ \A u \in Threads : a.priority[u] = init_priority[u]
      /\ \/ a.late = TRUE
         \/ a.late = k.late /\ a.ready = k.ready /\ a.group = k.group
  BY <1>2, LastReleaseLemma
<1> HIDE DEF a
<1> DEFINE v == [a.value EXCEPT !["mutex"] = a.value["mutex"] + 1]
           s == Assigned(a, v, Nobody, 255, 0)
<1>4. v \in [Objects -> Nat] /\ v["mutex"] = 1 /\ v["heap"] = k.value["heap"]
  <2>1. k.value["mutex"] = 0
    BY <1>1, ConstantsLemma DEF MutexOK
  <2>2. a.value \in [Objects -> Nat] /\ a.value["mutex"] = 0
    BY <1>3, <2>1, FieldsLemma
  <2> QED BY <1>1, <1>3, <2>2
<1> HIDE DEF v
<1>5. /\ Calm(s, a) /\ s.value = v
      /\ s.owner = Nobody /\ s.original_priority = 255 /\ s.hold = 0
  <2>1. Units(v, Nobody, 255, 0)
    BY <1>4, BoundsAssumption DEF Units
  <2> QED BY <1>3, <2>1, SetMutex
<1>6. FreeMutex(a) = s
  BY DEF FreeMutex, Assigned, v
<1> HIDE DEF s
<1>7. /\ s \in Kernels /\ s.stat = k.stat /\ s.timers = k.timers /\ s.current = k.current
      /\ s.error = k.error /\ s.flag = k.flag /\ s.lock_nest = k.lock_nest
      /\ \A u \in Threads : s.priority[u] = init_priority[u]
      /\ \/ s.late = TRUE
         \/ s.late = k.late /\ s.ready = k.ready /\ s.group = k.group
  BY <1>3, <1>5 DEF Calm, SameLists, SameQueues
<1>8. Queued(s, c, d) /\ Timed(s, 1)
  BY <1>3, <1>5, SameListsLemma DEF Calm
<1>9. Ordered(s, p, c, d)
  <2>1. Sleepers(s, c)
    BY <1>1, <1>7 DEF Ordered, Sleepers, HasTimer, Waits
  <2>2. Staged(s, p, c) /\ CurrentOK(s, p, c)
    BY <1>1, <1>7 DEF Ordered, Staged, CurrentOK
  <2>3. Highest(s, p)
    BY <1>1, <1>7 DEF Ordered, Highest
  <2> QED BY <1>8, <2>1, <2>2, <2>3 DEF Ordered
<1>10. \A u \in Threads : /\ Waits(s, c, u, "mutex") <=> Waits(k, c, u, "mutex")
                          /\ Waits(s, c, u, "heap") <=> Waits(k, c, u, "heap")
                          /\ Woken(s, c, u, "mutex") <=> Woken(k, c, u, "mutex")
                          /\ Woken(s, c, u, "heap") <=> Woken(k, c, u, "heap")
  BY <1>7 DEF Waits, Woken
<1>11. MutexOK(s, c)
  <2>1. \A u \in Threads : ~ Waits(s, c, u, "mutex")
    BY <1>1, <1>10, WaitersLemma
  <2>2. ASSUME NEW u \in Threads, Woken(s, c, u, "mutex")
        PROVE  s.error[u] = "ok" <=> s.owner = u
    <3>1. Woken(k, c, u, "mutex") /\ u # t
      BY <1>2, <1>10, <2>2 DEF Woken
    <3>2. k.error[u] # "ok" /\ u # Nobody
      BY <1>1, <3>1, ConstantsLemma DEF MutexOK
    <3> QED BY <1>5, <1>7, <3>2
  <2>3. ASSUME NEW u \in Threads
        PROVE  s.priority[u] <= init_priority[u] /\ s.priority[u] = init_priority[u]
    <3>1. init_priority[u] \in Nat
      BY ConstantsLemma
    <3> QED BY <1>7, <3>1
  <2> QED BY <1>4, <1>5, <2>1, <2>2, <2>3 DEF MutexOK
<1>12. HeapOK(s, p, c, h)
  <2>1. \A u \in h : p[u] = "run" /\ s.stat[u] = "ready"
    BY <1>1, <1>7 DEF HeapOK
  <2>2. s.value["heap"] = k.value["heap"]
    BY <1>4, <1>5
  <2>3. \A u \in Threads : Woken(s, c, u, "heap") /\ s.error[u] = "ok"
                             <=> Woken(k, c, u, "heap") /\ k.error[u] = "ok"
    BY <1>7, <1>10
  <2>4. HeapOK(k, p, c, h) /\ h \subseteq Threads
    BY <1>1
  <2>5. \A u \in Threads : Waits(s, c, u, "heap") => Waits(k, c, u, "heap")
    BY <1>10
  <2> QED BY ONLY <2>1, <2>2, <2>3, <2>4, <2>5, HeapSame
<1>13. IdleOK(s, c, h, d, f)
  BY <1>1, <1>7 DEF IdleOK
<1>14. Typed(s, p, c, h, d, f)
  BY <1>7 DEF Good, Typed
<1> QED BY <1>6, <1>9, <1>11, <1>12, <1>13, <1>14 DEF Good, a

LEMMA MutexReleaseInv ==
  ASSUME IInv, NEW t \in Threads, MutexRelease(t)
  PROVE  IInv'
<1>1. /\ Running(t) /\ t \notin inHeap /\ kernel.owner = t
      /\ inHeap' = inHeap /\ dead' = dead /\ frees' = frees
  BY DEF MutexRelease, Free, Client
<1>2. /\ kernel \in Kernels /\ Good(kernel, pc, call, inHeap, dead, frees)
      /\ kernel.current = t /\ pc[t] = "run"
      /\ call[t] = "none" /\ kernel.stat[t] = "ready" /\ kernel.error[t] = "ok"
  BY <1>1, RunningLemma
<1>3. PICK n : n = kernel.hold - 1
  OBVIOUS
<1> DEFINE k == [kernel EXCEPT !.hold = n]
<1>4. n \in Int /\ n < MaxHold /\ kernel.owner # Nobody
  BY <1>1, <1>2, <1>3, FieldsLemma, ConstantsLemma, BoundsAssumption
<1>5. k.hold = n /\ k.waiters = kernel.waiters
  BY <1>2 DEF Kernels
<1>6. \/ n > 0 /\ kernel' = k /\ pc' = pc /\ call' = call
      \/ /\ n = 0 /\ kernel.waiters["mutex"] # <<>> /\ kernel' = HandOver(Restored(k))
         /\ pc' = [pc EXCEPT ![t] = "sched"] /\ call' = [call EXCEPT ![t] = "none"]
      \/ /\ n = 0 /\ kernel.waiters["mutex"] = <<>> /\ kernel' = FreeMutex(Restored(k))
         /\ pc' = pc /\ call' = call
  <2>1. [kernel EXCEPT !.hold = @ - 1] = k
    BY <1>3
  <2> HIDE DEF k
  <2> QED BY <1>5, <2>1 DEF MutexRelease, Done, ToSchedule
<1>7. CASE n > 0 /\ kernel' = k /\ pc' = pc /\ call' = call
  <2>1. n \in 1 .. MaxHold
    BY <1>4, <1>7, BoundsAssumption
  <2>2. Good(kernel', pc, call, inHeap, dead, frees)
    BY <1>2, <1>4, <1>7, <2>1, HoldLemma
  <2> QED BY <1>1, <1>7, <2>2 DEF IInv
<1>8. CASE /\ n = 0 /\ kernel.waiters["mutex"] # <<>> /\ kernel' = HandOver(Restored(k))
           /\ pc' = [pc EXCEPT ![t] = "sched"] /\ call' = [call EXCEPT ![t] = "none"]
  <2>1. call' = call
    BY <1>2, <1>8, ToScheduleLemma DEF Good, Typed
  <2>2. Good(kernel', pc', call, inHeap, dead, frees)
    BY <1>1, <1>2, <1>8, HandOverGood
  <2> QED BY <1>1, <2>1, <2>2 DEF IInv
<1>9. CASE /\ n = 0 /\ kernel.waiters["mutex"] = <<>> /\ kernel' = FreeMutex(Restored(k))
           /\ pc' = pc /\ call' = call
  <2>1. Good(kernel', pc, call, inHeap, dead, frees)
    BY <1>1, <1>2, <1>9, FreeMutexGood
  <2> QED BY <1>1, <1>9, <2>1 DEF IInv
<1> QED BY <1>6, <1>7, <1>8, <1>9

(* The first part of rt_sem_take, with and without a unit.                 *)
LEMMA UnitGood ==
  ASSUME NEW k, NEW p, NEW c, NEW h, NEW d, NEW f, NEW g, Good(k, p, c, h, d, f),
         NEW t \in Threads, k.current = t, p[t] = "run",
         NEW o \in {"heap", "rx"}, k.value[o] > 0,
         g = IF o = "heap" THEN h \union {t} ELSE h,
         t = Idle => f > 0
  PROVE  Good([k EXCEPT !.value[o] = @ - 1], p, c, g, d, f)
<1>1. /\ k \in Kernels /\ MutexOK(k, c) /\ Ordered(k, p, c, d)
      /\ IdleOK(k, c, h, d, f) /\ HeapOK(k, p, c, h) /\ h \subseteq Threads
      /\ o \in Objects /\ "mutex" \in Objects /\ "heap" \in Objects
  BY DEF Good, Typed, Ordered, Objects
<1>2. c[t] = "none" /\ k.stat[t] = "ready"
  BY <1>1 DEF Ordered, Staged, Stage, CurrentOK
<1> DEFINE v == [k.value EXCEPT ![o] = k.value[o] - 1]
           s == [k EXCEPT !.value = v]
<1>3. /\ v \in [Objects -> Nat] /\ v[o] = k.value[o] - 1
      /\ \A x \in Objects : x # o => v[x] = k.value[x]
  <2>1. k.value \in [Objects -> Nat] /\ k.value[o] - 1 \in Nat
    BY <1>1, FieldsLemma
  <2> QED BY <1>1, <2>1
<1>4. s = [k EXCEPT !.value[o] = @ - 1]
  OBVIOUS
<1> HIDE DEF v
<1>5. /\ Calm(s, k) /\ s.value = v
      /\ s.owner = k.owner /\ s.original_priority = k.original_priority /\ s.hold = k.hold
  BY <1>1, <1>3, SetValue
<1> HIDE DEF s
<1>6. SameMutex(s, k)
  BY <1>1, <1>3, <1>5 DEF SameMutex
<1>7. /\ Typed(s, p, c, h, d, f) /\ Ordered(s, p, c, d) /\ IdleOK(s, c, h, d, f)
      /\ MutexOK(s, c)
      /\ s.value["heap"] = k.value["heap"] => HeapOK(s, p, c, h)
  BY <1>5, <1>6, CalmLemma
<1>8. CASE o = "rx"
  <2>1. s.value["heap"] = k.value["heap"] /\ g = h
    BY <1>1, <1>3, <1>5, <1>8
  <2>2. Good(s, p, c, g, d, f)
    BY <1>7, <2>1 DEF Good
  <2> QED BY <1>4, <2>2
<1>9. CASE o = "heap"
  <2>1. g = h \union {t}
    BY <1>9
  <2>2. k.value["heap"] = 1 /\ h = {} /\ OnWay(k, c) = {}
    BY <1>1, <1>9 DEF HeapOK, OneUnit
  <2>3. s.value["heap"] = 0 /\ g = {t}
    BY <1>3, <1>5, <1>9, <2>1, <2>2
  <2>4. s.stat = k.stat /\ s.error = k.error
    BY <1>5 DEF Calm, SameLists
  <2>5. OnWay(s, c) = OnWay(k, c)
    BY <2>4 DEF OnWay, Woken
  <2>6. HeapOK(s, p, c, g)
    BY <1>2, <2>2, <2>3, <2>4, <2>5 DEF HeapOK, OneUnit
  <2>7. IdleOK(s, c, g, d, f)
    BY <1>7, <2>1 DEF IdleOK
  <2>8. Typed(s, p, c, g, d, f)
    BY <1>7, <2>1 DEF Typed
  <2>9. Good(s, p, c, g, d, f)
    BY <1>7, <2>6, <2>7, <2>8 DEF Good
  <2> QED BY <1>4, <2>9
<1> QED BY <1>8, <1>9

LEMMA SemWaitGood ==
  ASSUME NEW k, NEW p, NEW c, NEW h, NEW d, NEW f, NEW q, NEW e, Good(k, p, c, h, d, f),
         NEW t \in Threads, k.current = t, p[t] = "run", t \notin h, k.lock_nest = 0,
         NEW o \in {"heap", "rx"}, k.value[o] = 0,
         NEW time \in (1 .. Half - 1) \union {Forever},
         t = Idle => o = "heap" /\ f > 0,
         q = [p EXCEPT ![t] = "sched"], e = [c EXCEPT ![t] = o]
  PROVE  Good(WaitOn([k EXCEPT !.error[t] = "ok"], t, o, "FIFO", time), q, e, h, d, f)
<1>1. /\ k \in Kernels /\ Ordered(k, p, c, d) /\ o \in Objects
      /\ c \in [Threads -> Objects \union {"none", "sleep", "exit"}]
  BY DEF Good, Typed, Ordered, Objects
<1>2. c[t] = "none" /\ k.stat[t] = "ready" /\ k.error[t] = "ok"
  BY <1>1 DEF Ordered, Staged, Stage, CurrentOK
<1> DEFINE b == [k EXCEPT !.error[t] = "ok"]
           s == WaitOn(b, t, o, "FIFO", time)
<1>3. /\ b \in Kernels /\ Good(b, p, c, h, d, f) /\ Calm(b, k)
      /\ b.value = k.value /\ b.stat = k.stat
  BY <1>2, NoErrorLemma
<1> HIDE DEF b, s
<1>4. b.current = t /\ b.lock_nest = 0 /\ b.stat[t] = "ready"
  BY <1>2, <1>3 DEF Calm
<1>5. Calls(e, c, t, o)
  BY <1>1 DEF Calls
<1>6. Discipline(b, o, "FIFO")
  BY DEF Discipline
<1>7. /\ b \in Kernels /\ o \in Objects /\ time \in (1 .. Half - 1) \union {Forever}
      /\ Queued(b, c, d) /\ Timed(b, 1) /\ t \in Threads
  BY <1>1, <1>3 DEF Good, Ordered
<1>8. /\ s \in Kernels /\ SameRest(s, b)
      /\ s.stat = [b.stat EXCEPT ![t] = "suspend"]
      /\ s.priority = b.priority /\ s.current = b.current /\ s.late = b.late
      /\ Queued(s, e, d) /\ Timed(s, 1)
      /\ \A u : u # t => (HasTimer(s, u) <=> HasTimer(b, u))
  BY ONLY <1>4, <1>5, <1>6, <1>7, WaitOnLemma DEF s
<1>9. Blocks(s, b, q, p, e, c, t, o)
  BY <1>1, <1>4, <1>8 DEF Blocks, SameRest
<1>10. /\ Good(b, p, c, h, d, f) /\ b.current = t /\ p[t] = "run" /\ t \notin h
       /\ Blocks(s, b, q, p, e, c, t, o) /\ Queued(s, e, d) /\ Timed(s, 1)
       /\ o = "heap" => b.value["heap"] = 0
       /\ t = Idle => o = "heap" /\ f > 0
  BY <1>3, <1>4, <1>8, <1>9
<1>11. /\ Typed(s, q, e, h, d, f) /\ Ordered(s, q, e, d)
       /\ HeapOK(s, q, e, h) /\ IdleOK(s, e, h, d, f)
       /\ o # "mutex" /\ s.priority = b.priority => MutexOK(s, e)
  BY ONLY <1>7, <1>10, BlockGood
<1> QED BY <1>8, <1>11 DEF Good, b, s

LEMMA SemTakeInv ==
  ASSUME IInv, NEW t \in Threads, NEW o \in {"heap", "rx"},
         NEW time \in (1 .. Half - 1) \union {Forever}, SemTake(t, o, time),
         t = Idle => o = "heap" /\ frees > 0
  PROVE  IInv'
<1>1. /\ Running(t) /\ t \notin inHeap /\ kernel.lock_nest = 0
      /\ dead' = dead /\ frees' = frees
  BY DEF SemTake, MayBlock, Free
<1>2. /\ kernel \in Kernels /\ Good(kernel, pc, call, inHeap, dead, frees)
      /\ kernel.current = t /\ pc[t] = "run"
      /\ call[t] = "none" /\ kernel.stat[t] = "ready" /\ kernel.error[t] = "ok"
  BY <1>1, RunningLemma
<1>3. CASE /\ kernel.value[o] > 0
           /\ kernel' = [kernel EXCEPT !.value[o] = @ - 1]
           /\ inHeap' = IF o = "heap" THEN inHeap \union {t} ELSE inHeap
           /\ pc' = pc /\ call' = call
  <2>1. Good(kernel', pc, call, inHeap', dead, frees)
    BY <1>2, <1>3, UnitGood
  <2> QED BY <1>1, <1>3, <2>1 DEF IInv
<1>4. CASE /\ kernel.value[o] = 0
           /\ kernel' = WaitOn([kernel EXCEPT !.error[t] = "ok"], t, o, "FIFO", time)
           /\ pc' = [pc EXCEPT ![t] = "sched"] /\ call' = [call EXCEPT ![t] = o]
           /\ inHeap' = inHeap
  <2>1. Good(kernel', pc', call', inHeap, dead, frees)
    BY <1>1, <1>2, <1>4, SemWaitGood, ZenonT(60)
  <2> QED BY <1>1, <1>4, <2>1 DEF IInv
<1> QED BY <1>3, <1>4 DEF SemTake, Done, ToSchedule

LEMMA HeapTakeInv ==
  ASSUME IInv, NEW t \in Threads, HeapTake(t)
  PROVE  IInv'
<1>1. SemTake(t, "heap", Forever) /\ (t = Idle => frees > 0)
  BY DEF HeapTake
<1> QED BY <1>1, SemTakeInv

LEMMA RxTakeInv ==
  ASSUME IInv, NEW t \in Threads, NEW time \in Times["rx"], RxTake(t, time)
  PROVE  IInv'
<1>1. SemTake(t, "rx", time) /\ t # Idle
  BY ThreadsAssumption DEF RxTake
<1>2. time \in (1 .. Half - 1) \union {Forever}
  BY TimesLemma
<1> QED BY <1>1, <1>2, SemTakeInv

(* The release of a semaphore that the thread w waits for: w is ready.     *)
Given(s, k, c, o, w) ==
  /\ s \in Kernels /\ SameRest(s, k) /\ Waits(k, c, w, o)
  /\ s.stat[w] = "ready" /\ \A u \in Threads : u # w => s.stat[u] = k.stat[u]
  /\ s.priority = k.priority /\ s.current = k.current /\ s.late = k.late

GivenOK(s, p, c, h, d, f) ==
  /\ Queued(s, c, d) /\ Timed(s, 1) /\ Sleepers(s, c) /\ Staged(s, p, c)
  /\ MutexOK(s, c) /\ IdleOK(s, c, h, d, f)

LEMMA GivenLemma ==
  ASSUME NEW k, NEW p, NEW c, NEW h, NEW d, NEW f, Good(k, p, c, h, d, f),
         NEW o \in {"heap", "rx"}, k.waiters[o] # <<>>
  PROVE  \E w \in Threads : /\ Given(SemGive(k, o), k, c, o, w)
                            /\ GivenOK(SemGive(k, o), p, c, h, d, f)
<1>1. /\ k \in Kernels /\ MutexOK(k, c) /\ Ordered(k, p, c, d) /\ Queued(k, c, d)
      /\ Timed(k, 1) /\ IdleOK(k, c, h, d, f) /\ o \in Objects /\ o # "mutex"
      /\ "mutex" \in Objects /\ k.stat \in [Threads -> {"init", "ready", "suspend", "close"}]
  BY FieldsLemma DEF Good, Typed, Ordered, Objects
<1>2. PICK w : w = Head(k.waiters[o])
  OBVIOUS
<1>3. w \in Threads /\ Waits(k, c, w, o)
  BY <1>1, <1>2, WaitersLemma
<1> DEFINE s == Resume(k, w)
<1>4. SemGive(k, o) = s
  BY <1>2 DEF SemGive
<1>5. /\ s \in Kernels /\ SameRest(s, k)
      /\ s.stat = [k.stat EXCEPT ![w] = "ready"]
      /\ s.priority = k.priority /\ s.current = k.current /\ s.late = k.late
      /\ Queued(s, c, d) /\ Timed(s, 1)
      /\ \A u : u # w => (HasTimer(s, u) <=> HasTimer(k, u))
  <2>1. k \in Kernels /\ w \in Threads /\ Queued(k, c, d) /\ Timed(k, 1) /\ k.stat[w] = "suspend"
    BY <1>1, <1>3 DEF Waits
  <2> QED BY ONLY <2>1, ResumeLemma
<1> HIDE DEF s
<1>6. s.stat[w] = "ready" /\ \A u \in Threads : u # w => s.stat[u] = k.stat[u]
  BY <1>1, <1>3, <1>5
<1>7. Given(s, k, c, o, w)
  BY <1>3, <1>5, <1>6 DEF Given
<1>8. s.error = k.error /\ s.flag = k.flag /\ s.value = k.value /\ s.owner = k.owner
      /\ s.original_priority = k.original_priority /\ s.hold = k.hold
  BY <1>5 DEF SameRest
<1>9. Sleepers(s, c) /\ Staged(s, p, c)
  <2>1. /\ k \in Kernels /\ s \in Kernels /\ w \in Threads /\ Ordered(k, p, c, d)
        /\ k.stat[w] = "suspend" /\ s.stat = [k.stat EXCEPT ![w] = "ready"]
        /\ s.error = k.error /\ Queued(s, c, d) /\ Timed(s, 1)
        /\ \A u : u # w => (HasTimer(s, u) <=> HasTimer(k, u))
    BY <1>1, <1>3, <1>5, <1>8 DEF Waits
  <2>2. \A u \in Threads : c[u] = c[u] /\ (p[u] = p[u] \/ (c[u] = "none" /\ p[u] = "sched"))
    OBVIOUS
  <2> QED BY ONLY <2>1, <2>2, WakeLemma
<1>10. MutexOK(s, c)
  <2>1. c[w] # "mutex"
    BY <1>1, <1>3 DEF Waits
  <2>2. \A u \in Threads : Waits(s, c, u, "mutex") => Waits(k, c, u, "mutex")
    BY <1>6, <2>1 DEF Waits
  <2>3. \A u \in Threads : Woken(s, c, u, "mutex") =>
                             Woken(k, c, u, "mutex") /\ s.error[u] = k.error[u]
    BY <1>6, <1>8, <2>1 DEF Woken
  <2>4. s.owner # Nobody => s.stat[s.owner] \in {"ready", "suspend"}
    <3>1. s.owner # Nobody => s.owner \in Threads
      BY <1>5, FieldsLemma, ConstantsLemma
    <3> QED BY <1>1, <1>6, <1>8, <3>1 DEF MutexOK
  <2>5. KeepsMutex(s, k, c, c)
    BY <1>5, <1>8, <2>2, <2>3, <2>4 DEF KeepsMutex
  <2> QED BY <1>1, <1>5, <2>5, MutexSame
<1>11. IdleOK(s, c, h, d, f)
  <2>1. d # Nobody => d \in Threads /\ d # w
    BY <1>1, <1>3, ConstantsLemma DEF Good, Typed, IdleOK, Waits
  <2> QED BY <1>1, <1>6, <2>1 DEF IdleOK
<1>12. GivenOK(s, p, c, h, d, f)
  BY <1>5, <1>9, <1>10, <1>11 DEF GivenOK
<1> QED BY <1>3, <1>4, <1>7, <1>12

(* The release of a semaphore that nobody waits for.                       *)
LEMMA CountedLemma ==
  ASSUME NEW k \in Kernels, NEW o \in {"heap", "rx"}, k.waiters[o] = <<>>
  PROVE  LET s == SemGive(k, o) IN
         /\ Calm(s, k) /\ SameMutex(s, k) /\ s.value[o] = k.value[o] + 1
         /\ \A x \in Objects : x # o => s.value[x] = k.value[x]
<1> DEFINE v == [k.value EXCEPT ![o] = k.value[o] + 1]
           s == [k EXCEPT !.value = v]
<1>1. o \in Objects /\ "mutex" \in Objects /\ o # "mutex"
  BY DEF Objects
<1>2. /\ v \in [Objects -> Nat] /\ v[o] = k.value[o] + 1
      /\ \A x \in Objects : x # o => v[x] = k.value[x]
  <2>1. k.value \in [Objects -> Nat]
    BY FieldsLemma
  <2> QED BY <1>1, <2>1
<1>3. SemGive(k, o) = s
  BY DEF SemGive
<1> HIDE DEF v
<1>4. /\ Calm(s, k) /\ s.value = v
      /\ s.owner = k.owner /\ s.original_priority = k.original_priority /\ s.hold = k.hold
  BY <1>2, SetValue
<1> HIDE DEF s
<1> QED BY <1>1, <1>2, <1>3, <1>4 DEF SameMutex

(* rt_schedule has chosen the current thread, or the scheduler is locked.  *)
LEMMA ScheduledLemma ==
  ASSUME NEW k, NEW r, NEW p, NEW c, CurrentOK(k, p, c), Scheduled(r, k),
         r.lock_nest = k.lock_nest, k.lock_nest \in Nat,
         r.stat[k.current] \in {k.stat[k.current], "ready"}
  PROVE  CurrentOK(r, p, c) /\ Highest(r, p)
<1>1. CASE k.lock_nest = 0
  BY <1>1 DEF Scheduled, CurrentOK, Highest
<1>2. CASE k.lock_nest # 0
  <2>1. r.current = k.current /\ r.lock_nest > 0
    BY <1>2 DEF Scheduled
  <2> QED BY <2>1 DEF CurrentOK, Highest
<1> QED BY <1>1, <1>2

LEMMA RxReleaseInv ==
  ASSUME IInv, RxRelease
  PROVE  IInv'
<1> DEFINE k == kernel
<1>1. /\ k \in Kernels /\ Good(k, pc, call, inHeap, dead, frees)
      /\ Ordered(k, pc, call, dead) /\ HeapOK(k, pc, call, inHeap) /\ inHeap \subseteq Threads
      /\ "rx" \in Objects /\ "heap" \in Objects
  BY DEF IInv, Good, Typed, Objects
<1>2. /\ pc' = pc /\ call' = call /\ inHeap' = inHeap /\ dead' = dead /\ frees' = frees
      /\ kernel' = IF k.waiters["rx"] # <<>> THEN Schedule(SemGive(k, "rx"))
                                             ELSE SemGive(k, "rx")
  BY DEF RxRelease, Client
<1> HIDE DEF k
<1>3. CASE k.waiters["rx"] = <<>>
  <2> DEFINE s == SemGive(k, "rx")
  <2>1. Calm(s, k) /\ SameMutex(s, k) /\ s.value["heap"] = k.value["heap"]
    BY <1>1, <1>3, CountedLemma
  <2> HIDE DEF s
  <2>2. Good(s, pc, call, inHeap, dead, frees)
    BY <1>1, <2>1, CalmLemma DEF Good
  <2> QED BY <1>2, <1>3, <2>2 DEF IInv, s
<1>4. CASE k.waiters["rx"] # <<>>
  <2>0. PICK s : s = SemGive(k, "rx")
    OBVIOUS
  <2>1. PICK w \in Threads : /\ Given(s, k, call, "rx", w)
                             /\ GivenOK(s, pc, call, inHeap, dead, frees)
    BY <1>1, <1>4, <2>0, GivenLemma
  <2>2. /\ s \in Kernels /\ Queued(s, call, dead) /\ s.stat[w] = "ready"
        /\ s.group # {}
    BY <2>1, ReadyGroup DEF Given, GivenOK
  <2> DEFINE r == Schedule(s)
  <2>3. /\ r \in Kernels /\ SameRest(r, s) /\ SameQueues(r, s)
        /\ r.stat = s.stat /\ r.priority = s.priority /\ r.timers = s.timers
        /\ Queued(r, call, dead) /\ Scheduled(r, s)
    BY <2>2, ScheduleLemma
  <2>4. kernel' = r
    BY <1>2, <1>4, <2>0
  <2> HIDE DEF r
  <2>5. /\ r.error = k.error /\ r.flag = k.flag /\ r.value = k.value /\ r.owner = k.owner
        /\ r.original_priority = k.original_priority /\ r.hold = k.hold
        /\ r.tick = s.tick /\ r.lock_nest = k.lock_nest /\ s.lock_nest = k.lock_nest
        /\ r.error = s.error /\ r.owner = s.owner /\ r.hold = s.hold /\ r.value = s.value
        /\ r.flag = s.flag /\ r.original_priority = s.original_priority
    BY <2>1, <2>3 DEF SameRest, Given
  <2>6. Ordered(r, pc, call, dead)
    <3>1. Timed(r, 1) /\ \A u : HasTimer(r, u) <=> HasTimer(s, u)
      BY <2>1, <2>3, <2>5, SameTimers DEF GivenOK
    <3>2. Sleepers(r, call)
      <4>1. Sleepers(s, call)
        BY <2>1 DEF GivenOK
      <4> QED BY <2>3, <3>1, <4>1 DEF Sleepers, Waits
    <3>3. Staged(r, pc, call)
      BY <2>1, <2>3, <2>5 DEF GivenOK, Staged
    <3>4. CurrentOK(s, pc, call)
      <4>1. CurrentOK(k, pc, call) /\ k.current \in Threads
        BY <1>1, FieldsLemma DEF Ordered
      <4>2. s.current = k.current /\ s.stat[k.current] \in {k.stat[k.current], "ready"}
        BY <2>1, <4>1 DEF Given
      <4> QED BY <2>5, <4>1, <4>2 DEF CurrentOK
    <3>5. s.lock_nest \in Nat
      BY <2>2, FieldsLemma, BoundsAssumption
    <3>6. CurrentOK(r, pc, call) /\ Highest(r, pc)
      BY <2>3, <2>5, <3>4, <3>5, ScheduledLemma
    <3> QED BY <2>3, <3>1, <3>2, <3>3, <3>6 DEF Ordered
  <2>7. MutexOK(r, call)
    BY <2>1, <2>3, <2>5 DEF GivenOK, MutexOK, Waits, Woken
  <2>8. IdleOK(r, call, inHeap, dead, frees)
    BY <2>1, <2>3 DEF GivenOK, IdleOK
  <2>9. HeapOK(r, pc, call, inHeap)
    <3>1. r.stat[w] = "ready" /\ call[w] = "rx" /\ k.stat[w] = "suspend"
          /\ \A u \in Threads : u # w => r.stat[u] = k.stat[u]
      BY <2>1, <2>3 DEF Given, Waits
    <3>2. \A u \in inHeap : pc[u] = "run" /\ r.stat[u] = "ready"
      BY <1>1, <3>1 DEF HeapOK
    <3>3. \A u \in Threads : Waits(r, call, u, "heap") => Waits(k, call, u, "heap")
      BY <3>1 DEF Waits
    <3>4. \A u \in Threads : Woken(r, call, u, "heap") /\ r.error[u] = "ok"
                               <=> Woken(k, call, u, "heap") /\ k.error[u] = "ok"
      BY <2>5, <3>1 DEF Woken
    <3>5. HeapOK(k, pc, call, inHeap) /\ inHeap \subseteq Threads
          /\ r.value["heap"] = k.value["heap"]
      BY <1>1, <2>5
    <3> QED BY ONLY <3>2, <3>3, <3>4, <3>5, HeapSame
  <2>10. Typed(r, pc, call, inHeap, dead, frees)
    BY <1>1, <2>3 DEF Good, Typed
  <2> QED BY <1>2, <2>4, <2>6, <2>7, <2>8, <2>9, <2>10 DEF IInv, Good
<1> QED BY <1>3, <1>4

(* heap_sem goes back to the semaphore, or to the first that waits for it. *)
LEMMA GiveHeapGood ==
  ASSUME NEW k, NEW p, NEW c, NEW h, NEW d, NEW f, NEW q, Good(k, p, c, h, d, f),
         NEW t \in h, k.current = t,
         q = IF k.waiters["heap"] # <<>> THEN [p EXCEPT ![t] = "sched"] ELSE p
  PROVE  Good(SemGive(k, "heap"), q, c, h \ {t}, d, f)
<1>1. /\ k \in Kernels /\ Ordered(k, p, c, d) /\ Queued(k, c, d) /\ HeapOK(k, p, c, h)
      /\ IdleOK(k, c, h, d, f) /\ h \subseteq Threads /\ "heap" \in Objects /\ t \in Threads
      /\ p \in [Threads -> {"run", "sched", "back"}]
  BY DEF Good, Typed, Ordered, Objects
<1>2. p[t] = "run" /\ k.stat[t] = "ready" /\ c[t] = "none" /\ k.error[t] = "ok"
  BY <1>1 DEF HeapOK, Ordered, Staged, Stage
<1>3. k.value["heap"] = 0 /\ h = {t} /\ OnWay(k, c) = {}
  <2>1. h # {}
    OBVIOUS
  <2>2. k.value["heap"] = 0 /\ OnWay(k, c) = {} /\ \E u \in Threads : h = {u}
    BY <1>1, <2>1 DEF HeapOK, OneUnit
  <2> QED BY <2>2
<1>4. PICK s : s = SemGive(k, "heap")
  OBVIOUS
<1>5. CASE k.waiters["heap"] = <<>>
  <2>1. Calm(s, k) /\ SameMutex(s, k) /\ s.value["heap"] = 1
    BY <1>1, <1>3, <1>4, <1>5, CountedLemma
  <2>2. /\ Typed(s, p, c, h, d, f) /\ Ordered(s, p, c, d) /\ IdleOK(s, c, h, d, f)
        /\ MutexOK(s, c)
    BY <2>1, CalmLemma
  <2>3. s.stat = k.stat /\ s.error = k.error
    BY <2>1 DEF Calm, SameLists
  <2>4. OnWay(s, c) = {}
    BY <1>3, <2>3 DEF OnWay, Woken
  <2>5. \A u \in Threads : ~ Waits(s, c, u, "heap")
    <3>1. \A u \in Threads : ~ Waits(k, c, u, "heap")
      BY <1>1, <1>5, WaitersLemma
    <3> QED BY <2>3, <3>1 DEF Waits
  <2>6. HeapOK(s, p, c, h \ {t})
    BY <1>3, <2>1, <2>4, <2>5 DEF HeapOK, OneUnit
  <2>7. Typed(s, p, c, h \ {t}, d, f) /\ IdleOK(s, c, h \ {t}, d, f)
    BY <2>2 DEF Typed, IdleOK
  <2>8. q = p
    BY <1>5
  <2> QED BY <1>4, <2>2, <2>6, <2>7, <2>8 DEF Good
<1>6. CASE k.waiters["heap"] # <<>>
  <2>1. PICK w \in Threads : Given(s, k, c, "heap", w) /\ GivenOK(s, p, c, h, d, f)
    BY <1>4, <1>6, GivenLemma
  <2>2. /\ q \in [Threads -> {"run", "sched", "back"}]
        /\ q[t] = "sched" /\ \A u \in Threads : u # t => q[u] = p[u]
    BY <1>1, <1>6
  <2>3. /\ s.error = k.error /\ s.value = k.value /\ s.current = t
        /\ s.stat[w] = "ready" /\ k.stat[w] = "suspend" /\ c[w] = "heap"
        /\ \A u \in Threads : u # w => s.stat[u] = k.stat[u]
    BY <2>1 DEF Given, SameRest, Waits
  <2>4. w # t /\ k.error[w] = "ok"
    BY <1>1, <1>2, <2>3 DEF Ordered, Staged, Stage
  <2>5. Ordered(s, q, c, d)
    <3>1. Staged(s, p, c)
      BY <2>1 DEF GivenOK
    <3>2. Staged(s, q, c)
      BY <1>2, <2>2, <3>1 DEF Staged, Stage
    <3>3. CurrentOK(s, q, c) /\ Highest(s, q)
      BY <1>2, <2>2, <2>3, <2>4 DEF CurrentOK, Highest
    <3> QED BY <2>1, <3>2, <3>3 DEF Ordered, GivenOK
  <2>6. OnWay(s, c) = {w}
    <3>1. w \in OnWay(s, c)
      BY <2>3, <2>4 DEF OnWay, Woken
    <3>2. \A u \in Threads : u # w => u \notin OnWay(s, c)
      <4>1. \A u \in Threads : u # w => (u \in OnWay(s, c) <=> u \in OnWay(k, c))
        BY <2>3 DEF OnWay, Woken
      <4> QED BY <1>3, <4>1
    <3>3. OnWay(s, c) \subseteq Threads
      BY DEF OnWay
    <3> QED BY <3>1, <3>2, <3>3
  <2>7. h \ {t} = {} /\ s.value["heap"] = 0
    BY <1>3, <2>3
  <2>8. HeapOK(s, q, c, h \ {t})
    BY <2>6, <2>7 DEF HeapOK, OneUnit
  <2>9. IdleOK(s, c, h \ {t}, d, f)
    BY <2>1 DEF GivenOK, IdleOK
  <2>10. Typed(s, q, c, h \ {t}, d, f)
    BY <2>1, <2>2 DEF Good, Typed, Given
  <2> QED BY <1>4, <2>1, <2>5, <2>8, <2>9, <2>10 DEF Good, GivenOK
<1> QED BY <1>5, <1>6

(* The object of a dead thread is freed, and may be created again.         *)
LEMMA FreedGood ==
  ASSUME NEW k, NEW p, NEW c, NEW h, NEW d, NEW f, Good(k, p, c, h, d, f),
         d # Nobody, k.current = Idle, Idle \notin h, c[Idle] = "none"
  PROVE  Good([k EXCEPT !.stat[d] = "init"], p, c, h, Nobody, 0)
<1>1. /\ k \in Kernels /\ Ordered(k, p, c, d) /\ Queued(k, c, d) /\ HeapOK(k, p, c, h)
      /\ IdleOK(k, c, h, d, f) /\ h \subseteq Threads /\ MutexOK(k, c) /\ d \in Threads
      /\ Timed(k, 1) /\ k.stat[d] = "close"
      /\ k.stat \in [Threads -> {"init", "ready", "suspend", "close"}]
  BY ConstantsLemma, FieldsLemma DEF Good, Typed, Ordered, IdleOK
<1> DEFINE v == [k.stat EXCEPT ![d] = "init"]
           s == [k EXCEPT !.stat = v]
<1>2. /\ v \in [Threads -> {"init", "ready", "suspend", "close"}]
      /\ v[d] = "init" /\ \A u \in Threads : u # d => v[u] = k.stat[u]
  BY <1>1
<1>3. s = [k EXCEPT !.stat[d] = "init"]
  OBVIOUS
<1> HIDE DEF v
<1>4. /\ s \in Kernels /\ s.stat = v
      /\ s.priority = k.priority /\ s.timers = k.timers /\ s.current = k.current /\ s.late = k.late
      /\ SameQueues(s, k) /\ SameRest(s, k)
  BY <1>1, <1>2, SetStat
<1> HIDE DEF s
<1>5. /\ s.error = k.error /\ s.flag = k.flag /\ s.value = k.value /\ s.owner = k.owner
      /\ s.original_priority = k.original_priority /\ s.hold = k.hold
      /\ s.tick = k.tick /\ s.lock_nest = k.lock_nest
      /\ s.ready = k.ready /\ s.group = k.group
      /\ s.waiters = k.waiters /\ s.defunct = k.defunct
  BY <1>4 DEF SameRest, SameQueues
<1>6. s.stat[d] = "init" /\ \A u \in Threads : u # d => s.stat[u] = k.stat[u]
  BY <1>2, <1>4
<1>7. Queued(s, c, Nobody)
  <2>1. ASSUME NEW x \in Priorities
        PROVE  {t \in Threads \ {} : s.stat[t] = "ready" /\ s.priority[t] = x}
                 = {t \in Threads \ {} : k.stat[t] = "ready" /\ k.priority[t] = x}
    BY <1>1, <1>4, <1>6
  <2>2. ASSUME NEW o \in Objects
        PROVE  {t \in Threads \ {} : s.stat[t] = "suspend" /\ c[t] = o}
                 = {t \in Threads \ {} : k.stat[t] = "suspend" /\ c[t] = o}
    BY <1>1, <1>6
  <2>3. {t \in Threads \ {} : s.stat[t] = "close" /\ t # Nobody}
          = {t \in Threads \ {} : k.stat[t] = "close" /\ t # d}
    BY <1>6, ConstantsLemma
  <2>4. Members(k, c, d, {}) /\ Grouped(k)
    BY <1>1 DEF Queued
  <2>5. Members(s, c, Nobody, {})
    BY <1>4, <1>5, <2>1, <2>2, <2>3, <2>4 DEF Members
  <2> QED BY <1>5, <2>4, <2>5 DEF Queued, Grouped
<1>8. Timed(s, 1) /\ Sleepers(s, c)
  <2>1. ~ HasTimer(k, d)
    BY <1>1, NoTimerLemma
  <2>2. Timed(s, 1)
    BY <1>1, <1>4, <1>5, <2>1, TimedElsewhere DEF v
  <2>3. \A u : HasTimer(s, u) <=> HasTimer(k, u)
    BY <1>4 DEF HasTimer
  <2>4. \A u \in Threads : Waits(s, c, u, "sleep") => Waits(k, c, u, "sleep")
    BY <1>6 DEF Waits
  <2>5. Sleepers(k, c)
    BY <1>1 DEF Ordered
  <2> QED BY <2>2, <2>3, <2>4, <2>5 DEF Sleepers
<1>9. Staged(s, p, c)
  <2>1. ASSUME NEW u \in Threads PROVE Stage(u, p[u], c[u], s.stat[u], s.error[u])
    <3>1. Stage(u, p[u], c[u], k.stat[u], k.error[u])
      BY <1>1 DEF Ordered, Staged
    <3>2. CASE u = d
      BY <1>1, <1>5, <1>6, <3>1, <3>2 DEF Stage
    <3>3. CASE u # d
      BY <1>5, <1>6, <3>1, <3>3
    <3> QED BY <3>2, <3>3
  <2> QED BY <2>1 DEF Staged
<1>10. CurrentOK(s, p, c) /\ Highest(s, p)
  <2>1. d # Idle /\ Idle \in Threads
    BY ThreadsAssumption, ConstantsLemma DEF Good, Typed
  <2> QED BY <1>1, <1>4, <1>5, <1>6, <2>1 DEF Ordered, CurrentOK, Highest
<1>11. MutexOK(s, c)
  <2>1. k.owner # Nobody => k.owner \in Threads /\ k.owner # d
    BY <1>1, FieldsLemma, ConstantsLemma DEF MutexOK
  <2>2. \A u \in Threads : /\ Waits(s, c, u, "mutex") <=> Waits(k, c, u, "mutex")
                           /\ Woken(s, c, u, "mutex") <=> Woken(k, c, u, "mutex")
    BY <1>1, <1>6 DEF Waits, Woken
  <2> QED BY <1>1, <1>4, <1>5, <1>6, <2>1, <2>2 DEF MutexOK
<1>12. HeapOK(s, p, c, h)
  <2>1. \A u \in h : p[u] = "run" /\ s.stat[u] = "ready"
    BY <1>1, <1>6 DEF HeapOK
  <2>2. \A u \in Threads : Waits(s, c, u, "heap") => Waits(k, c, u, "heap")
    BY <1>6 DEF Waits
  <2>3. \A u \in Threads : Woken(s, c, u, "heap") /\ s.error[u] = "ok"
                             <=> Woken(k, c, u, "heap") /\ k.error[u] = "ok"
    BY <1>1, <1>5, <1>6 DEF Woken
  <2>4. HeapOK(k, p, c, h) /\ h \subseteq Threads /\ s.value["heap"] = k.value["heap"]
    BY <1>1, <1>5
  <2> QED BY ONLY <2>1, <2>2, <2>3, <2>4, HeapSame
<1>13. IdleOK(s, c, h, Nobody, 0)
  BY DEF IdleOK
<1>14. Typed(s, p, c, h, Nobody, 0)
  BY <1>4 DEF Good, Typed
<1> QED BY <1>3, <1>7, <1>8, <1>9, <1>10, <1>11, <1>12, <1>13, <1>14 DEF Good, Ordered

LEMMA HeapReleaseInv ==
  ASSUME IInv, NEW t \in Threads, HeapRelease(t)
  PROVE  IInv'
<1> DEFINE g == inHeap \ {t}
           s == SemGive(kernel, "heap")
           q == IF kernel.waiters["heap"] # <<>> THEN [pc EXCEPT ![t] = "sched"] ELSE pc
<1>1. Running(t) /\ t \in inHeap /\ inHeap' = g
  BY DEF HeapRelease
<1>2. /\ kernel \in Kernels /\ Good(kernel, pc, call, inHeap, dead, frees)
      /\ kernel.current = t /\ pc[t] = "run"
      /\ call[t] = "none" /\ kernel.stat[t] = "ready" /\ kernel.error[t] = "ok"
  BY <1>1, RunningLemma
<1>3. pc' = q /\ call' = call
  <2>1. [call EXCEPT ![t] = "none"] = call
    BY <1>2, ToScheduleLemma DEF Good, Typed
  <2> QED BY <2>1 DEF HeapRelease, ToSchedule, Done
<1>4. Good(s, q, call, g, dead, frees)
  BY <1>1, <1>2, GiveHeapGood
<1>5. CASE t # Idle
  <2>1. kernel' = s /\ dead' = dead /\ frees' = frees
    BY <1>5 DEF HeapRelease
  <2> QED BY <1>1, <1>3, <1>4, <2>1 DEF IInv
<1>6. CASE t = Idle /\ frees # 1
  <2>1. kernel' = s /\ dead' = dead /\ frees' = frees - 1
    BY <1>6 DEF HeapRelease
  <2>2. frees = 2 /\ dead # Nobody
    BY <1>1, <1>2, <1>6 DEF Good, Typed, IdleOK
  <2> HIDE DEF s, q, g
  <2>3. Good(s, q, call, g, dead, 1)
    BY <1>4, <2>2 DEF Good, Typed, IdleOK
  <2> QED BY <1>1, <1>3, <2>1, <2>2, <2>3 DEF IInv
<1>7. CASE t = Idle /\ frees = 1
  <2>1. kernel' = [s EXCEPT !.stat[dead] = "init"] /\ dead' = Nobody /\ frees' = 0
    BY <1>7 DEF HeapRelease
  <2>2. dead # Nobody /\ Idle \notin g /\ call[Idle] = "none"
    BY <1>2, <1>7 DEF Good, IdleOK
  <2>4. s.current = Idle
    <3>1. kernel.waiters["heap"] = <<>> => Calm(s, kernel)
      BY <1>2, CountedLemma
    <3>2. kernel.waiters["heap"] # <<>> => \E w \in Threads : Given(s, kernel, call, "heap", w)
      BY <1>2, GivenLemma
    <3> QED BY <1>2, <1>7, <3>1, <3>2 DEF Calm, Given
  <2> HIDE DEF s, q, g
  <2>3. Good(kernel', q, call, g, Nobody, 0)
    BY <1>4, <2>1, <2>2, <2>4, FreedGood
  <2> QED BY <1>1, <1>3, <2>1, <2>3 DEF IInv
<1> QED BY <1>5, <1>6, <1>7

(* A step that moves the processor or a list, and nothing of a thread.     *)
Moved(s, k) ==
  /\ s \in Kernels /\ SameRest(s, k)
  /\ s.stat = k.stat /\ s.priority = k.priority /\ s.timers = k.timers

LEMMA MovedGood ==
  ASSUME NEW k, NEW s, NEW p, NEW q, NEW c, NEW h, NEW d, NEW f, NEW b, NEW g,
         Good(k, p, c, h, d, f), Moved(s, k), Queued(s, c, b),
         Typed(s, q, c, h, b, g), IdleOK(s, c, h, b, g),
         \A u \in h : q[u] = "run", \A u \in Threads : q[u] = "run" => c[u] = "none",
         CurrentOK(s, q, c), Highest(s, q)
  PROVE  Good(s, q, c, h, b, g)
<1>1. /\ s.error = k.error /\ s.flag = k.flag /\ s.value = k.value /\ s.owner = k.owner
      /\ s.original_priority = k.original_priority /\ s.hold = k.hold
      /\ s.tick = k.tick /\ s.stat = k.stat /\ s.priority = k.priority
      /\ s.timers = k.timers
  BY DEF Moved, SameRest
<1>2. /\ MutexOK(k, c) /\ HeapOK(k, p, c, h) /\ Timed(k, 1) /\ Sleepers(k, c)
      /\ Staged(k, p, c) /\ h \subseteq Threads
  BY DEF Good, Ordered, Typed
<1>3. Timed(s, 1) /\ \A u : HasTimer(s, u) <=> HasTimer(k, u)
  BY <1>1, <1>2, SameTimers
<1>4. Sleepers(s, c)
  BY <1>1, <1>2, <1>3 DEF Sleepers, Waits
<1>5. Staged(s, q, c)
  BY <1>1, <1>2 DEF Staged, Stage
<1>6. MutexOK(s, c)
  BY <1>1, <1>2 DEF MutexOK, Waits, Woken
<1>7. HeapOK(s, q, c, h)
  <2>1. \A u \in h : q[u] = "run" /\ s.stat[u] = "ready"
    BY <1>1, <1>2 DEF HeapOK
  <2>2. \A u \in Threads : Waits(s, c, u, "heap") => Waits(k, c, u, "heap")
    BY <1>1 DEF Waits
  <2>3. \A u \in Threads : Woken(s, c, u, "heap") /\ s.error[u] = "ok"
                             <=> Woken(k, c, u, "heap") /\ k.error[u] = "ok"
    BY <1>1 DEF Woken
  <2>4. HeapOK(k, p, c, h) /\ h \subseteq Threads /\ s.value["heap"] = k.value["heap"]
    BY <1>1, <1>2
  <2> QED BY ONLY <2>1, <2>2, <2>3, <2>4, HeapSame
<1> QED BY <1>3, <1>4, <1>5, <1>6, <1>7 DEF Good, Ordered

LEMMA SetReady ==
  ASSUME NEW k \in Kernels, NEW v \in [Priorities -> Seq(Threads)]
  PROVE  LET s == [k EXCEPT !.ready = v] IN
         /\ Moved(s, k) /\ s.ready = v /\ s.current = k.current /\ s.late = k.late
         /\ s.group = k.group /\ s.waiters = k.waiters /\ s.defunct = k.defunct
<1> DEFINE s == [k EXCEPT !.ready = v]
<1>1. s \in Kernels
  BY DEF Kernels
<1>2. SameRest(s, k)
  BY DEF Kernels, SameRest
<1>3. /\ s.stat = k.stat /\ s.priority = k.priority /\ s.timers = k.timers
      /\ s.ready = v /\ s.current = k.current /\ s.late = k.late
      /\ s.group = k.group /\ s.waiters = k.waiters /\ s.defunct = k.defunct
  BY DEF Kernels
<1> QED BY <1>1, <1>2, <1>3 DEF Moved

(* The current thread goes to the end of its own list.                     *)
LEMMA RotateLemma ==
  ASSUME NEW k \in Kernels, NEW c, NEW d, Queued(k, c, d), k.stat[k.current] = "ready"
  PROVE  LET s == Rotate(k)
         IN  Moved(s, k) /\ Queued(s, c, d) /\ s.current = k.current /\ s.late = k.late
<1> DEFINE s == Rotate(k)
<1>1. PICK t \in Threads : t = k.current
  BY FieldsLemma
<1>2. PICK x \in Priorities : x = k.priority[t]
  BY FieldsLemma
<1>3. PICK list \in Seq(Threads) : list = k.ready[x]
  BY FieldsLemma
<1> DEFINE new == Append(RemoveFirst(list, t), t)
           v == [k.ready EXCEPT ![x] = new]
<1>4. Lists(list, {u \in Threads \ {} : k.stat[u] = "ready" /\ k.priority[u] = x})
  BY <1>2, <1>3 DEF Queued, Members
<1>5. t \in Range(list) /\ IsInjective(list)
  BY <1>1, <1>2, <1>4 DEF Lists
<1>6. /\ RemoveFirst(list, t) \in Seq(Threads)
      /\ Range(RemoveFirst(list, t)) = Range(list) \ {t}
      /\ IsInjective(RemoveFirst(list, t))
  BY <1>5, RemoveFirstLemma
<1>7. /\ new \in Seq(Threads) /\ new # <<>> /\ IsInjective(new)
      /\ Range(new) = (Range(list) \ {t}) \union {t}
  BY <1>6, AppendLemma
<1> HIDE DEF new
<1>8. Lists(new, {u \in Threads \ {} : k.stat[u] = "ready" /\ k.priority[u] = x})
  BY <1>4, <1>5, <1>7 DEF Lists
<1>9. list # <<>>
  BY <1>5, EmptyLemma
<1>10. /\ v \in [Priorities -> Seq(Threads)] /\ v[x] = new
       /\ \A y \in Priorities : y # x => v[y] = k.ready[y]
  <2>1. k.ready \in [Priorities -> Seq(Threads)]
    BY FieldsLemma
  <2> QED BY <1>7, <2>1
<1>11. s = [k EXCEPT !.ready = v]
  BY <1>1, <1>2, <1>3 DEF Rotate, new
<1> HIDE DEF v, s
<1>12. /\ Moved(s, k) /\ s.ready = v /\ s.current = k.current /\ s.late = k.late
       /\ s.group = k.group /\ s.waiters = k.waiters /\ s.defunct = k.defunct
  BY <1>10, <1>11, SetReady
<1>13. s.flag = k.flag /\ s.stat = k.stat /\ s.priority = k.priority
  BY <1>12 DEF Moved, SameRest
<1>14. Members(s, c, d, {})
  <2>1. ASSUME NEW y \in Priorities
        PROVE  Lists(s.ready[y],
                     {u \in Threads \ {} : s.stat[u] = "ready" /\ s.priority[u] = y})
    <3>0. Lists(k.ready[y],
                {u \in Threads \ {} : k.stat[u] = "ready" /\ k.priority[u] = y})
      BY DEF Queued, Members
    <3>1. Lists(s.ready[y],
                {u \in Threads \ {} : k.stat[u] = "ready" /\ k.priority[u] = y})
      <4>1. CASE y = x
        BY <1>8, <1>10, <1>12, <4>1
      <4>2. CASE y # x
        BY <1>10, <1>12, <3>0, <4>2
      <4> QED BY <4>1, <4>2
    <3> QED BY <1>13, <3>1
  <2>2. /\ \A o \in Objects :
             Lists(s.waiters[o],
                   {u \in Threads \ {} : s.stat[u] = "suspend" /\ c[u] = o})
        /\ Lists(s.defunct, {u \in Threads \ {} : s.stat[u] = "close" /\ u # d})
        /\ s.flag = "PRIO" => Ascending(s.waiters["mutex"], s.priority)
    BY <1>12, <1>13 DEF Queued, Members
  <2> QED BY <2>1, <2>2 DEF Members
<1>15. Grouped(s)
  <2>1. \A y \in Priorities : s.ready[y] # <<>> <=> k.ready[y] # <<>>
    BY <1>3, <1>7, <1>9, <1>10, <1>12
  <2>2. {y \in Priorities : s.ready[y] # <<>>} = {y \in Priorities : k.ready[y] # <<>>}
    BY <2>1
  <2> QED BY <1>12, <2>2 DEF Queued, Grouped
<1> QED BY <1>12, <1>14, <1>15 DEF Queued, s

LEMMA YieldInv ==
  ASSUME IInv, NEW t \in Threads, Yield(t)
  PROVE  IInv'
<1> DEFINE s == Rotate(kernel)
           q == [pc EXCEPT ![t] = "sched"]
<1>1. /\ Running(t) /\ t \notin inHeap /\ kernel' = s /\ pc' = q
      /\ call' = [call EXCEPT ![t] = "none"]
      /\ inHeap' = inHeap /\ dead' = dead /\ frees' = frees
  BY DEF Yield, Free, ToSchedule, Client
<1>2. /\ kernel \in Kernels /\ Good(kernel, pc, call, inHeap, dead, frees)
      /\ kernel.current = t /\ pc[t] = "run"
      /\ call[t] = "none" /\ kernel.stat[t] = "ready" /\ kernel.error[t] = "ok"
  BY <1>1, RunningLemma
<1>3. /\ q \in [Threads -> {"run", "sched", "back"}]
      /\ q[t] = "sched" /\ \A u \in Threads : u # t => q[u] = pc[u]
      /\ [call EXCEPT ![t] = "none"] = call
  BY <1>2, ToScheduleLemma DEF Good, Typed
<1>4. /\ Moved(s, kernel) /\ Queued(s, call, dead) /\ s.current = t
  BY <1>2, RotateLemma DEF Good, Ordered
<1> HIDE DEF s, q
<1>5. Typed(s, q, call, inHeap, dead, frees) /\ IdleOK(s, call, inHeap, dead, frees)
  BY <1>2, <1>3, <1>4 DEF Good, Typed, IdleOK, Moved
<1>6. /\ \A u \in inHeap : q[u] = "run"
      /\ \A u \in Threads : q[u] = "run" => call[u] = "none"
  BY <1>1, <1>2, <1>3 DEF Good, Typed, HeapOK, Ordered, Staged, Stage
<1>7. CurrentOK(s, q, call) /\ Highest(s, q)
  BY <1>2, <1>3, <1>4 DEF CurrentOK, Highest, Moved
<1>8. Good(s, q, call, inHeap, dead, frees)
  BY <1>2, <1>4, <1>5, <1>6, <1>7, MovedGood
<1> QED BY <1>1, <1>3, <1>8 DEF IInv

LEMMA DoScheduleInv ==
  ASSUME IInv, NEW t \in Threads, DoSchedule(t)
  PROVE  IInv'
<1> DEFINE s == Schedule(kernel)
           q == [pc EXCEPT ![t] = IF call[t] = "none" THEN "run" ELSE "back"]
<1>1. /\ kernel.current = t /\ pc[t] = "sched" /\ kernel' = s /\ pc' = q /\ call' = call
      /\ inHeap' = inHeap /\ dead' = dead /\ frees' = frees
  BY DEF DoSchedule, Client
<1>2. /\ kernel \in Kernels /\ Good(kernel, pc, call, inHeap, dead, frees)
      /\ Queued(kernel, call, dead) /\ CurrentOK(kernel, pc, call)
      /\ pc \in [Threads -> {"run", "sched", "back"}]
      /\ Staged(kernel, pc, call) /\ HeapOK(kernel, pc, call, inHeap)
      /\ inHeap \subseteq Threads
  BY DEF IInv, Good, Ordered, Typed
<1>3. kernel.group # {}
  BY <1>2, ReadyLemma
<1>4. /\ q \in [Threads -> {"run", "sched", "back"}]
      /\ q[t] = IF call[t] = "none" THEN "run" ELSE "back"
      /\ \A u \in Threads : u # t => q[u] = pc[u]
  BY <1>2
<1>5. /\ s \in Kernels /\ SameRest(s, kernel)
      /\ s.stat = kernel.stat /\ s.priority = kernel.priority /\ s.timers = kernel.timers
      /\ Queued(s, call, dead) /\ Scheduled(s, kernel)
  BY <1>2, <1>3, ScheduleLemma
<1> HIDE DEF s, q
<1>6. Moved(s, kernel) /\ s.lock_nest = kernel.lock_nest /\ kernel.lock_nest \in Nat
  BY <1>2, <1>5, FieldsLemma, BoundsAssumption DEF Moved, SameRest
<1>7. Typed(s, q, call, inHeap, dead, frees) /\ IdleOK(s, call, inHeap, dead, frees)
  BY <1>2, <1>4, <1>5 DEF Good, Typed, IdleOK
<1>8. /\ \A u \in inHeap : q[u] = "run"
      /\ \A u \in Threads : q[u] = "run" => call[u] = "none"
  BY <1>1, <1>2, <1>4 DEF HeapOK, Staged, Stage
<1>9. CurrentOK(s, q, call) /\ Highest(s, q)
  <2>1. CASE kernel.lock_nest = 0
    BY <1>5, <1>6, <2>1 DEF Scheduled, CurrentOK, Highest
  <2>2. CASE kernel.lock_nest # 0
    <3>1. s.current = t /\ s.lock_nest > 0
      BY <1>1, <1>5, <1>6, <2>2 DEF Scheduled
    <3>2. call[t] = "none" /\ q[t] = "run"
      BY <1>1, <1>2, <1>4, <2>2 DEF CurrentOK
    <3>3. kernel.stat[t] = "ready"
      BY <1>1, <1>2, <3>2 DEF CurrentOK, Staged, Stage
    <3> QED BY <1>5, <3>1, <3>2, <3>3 DEF CurrentOK, Highest
  <2> QED BY <2>1, <2>2
<1>10. Good(s, q, call, inHeap, dead, frees)
  BY <1>2, <1>5, <1>6, <1>7, <1>8, <1>9, MovedGood
<1> QED BY <1>1, <1>10 DEF IInv

LEMMA SetDefunct ==
  ASSUME NEW k \in Kernels, NEW v \in Seq(Threads)
  PROVE  LET s == [k EXCEPT !.defunct = v] IN
         /\ Moved(s, k) /\ s.defunct = v /\ s.current = k.current /\ s.late = k.late
         /\ s.ready = k.ready /\ s.group = k.group /\ s.waiters = k.waiters
<1> DEFINE s == [k EXCEPT !.defunct = v]
<1>1. s \in Kernels
  BY ZenonT(60) DEF Kernels
<1>2. SameRest(s, k)
  BY DEF Kernels, SameRest
<1>3. /\ s.stat = k.stat /\ s.priority = k.priority /\ s.timers = k.timers
      /\ s.defunct = v /\ s.current = k.current /\ s.late = k.late
      /\ s.ready = k.ready /\ s.group = k.group /\ s.waiters = k.waiters
  BY DEF Kernels
<1> QED BY <1>1, <1>2, <1>3 DEF Moved

LEMMA IdleExecuteInv ==
  ASSUME IInv, IdleExecute
  PROVE  IInv'
<1> DEFINE k == kernel
<1>1. /\ Running(Idle) /\ k.defunct # <<>> /\ frees = 0
      /\ dead' = Head(k.defunct) /\ frees' = 2
      /\ kernel' = [k EXCEPT !.defunct = Tail(k.defunct)]
      /\ inHeap' = inHeap /\ pc' = pc /\ call' = call
  BY DEF IdleExecute, Free, Done
<1>2. /\ k \in Kernels /\ Good(k, pc, call, inHeap, dead, frees) /\ Queued(k, call, dead)
      /\ k.defunct \in Seq(Threads) /\ IdleOK(k, call, inHeap, dead, frees)
      /\ Ordered(k, pc, call, dead)
  BY FieldsLemma DEF IInv, Good, Ordered, Typed
<1> HIDE DEF k
<1>3. dead = Nobody
  BY <1>1, <1>2 DEF IdleOK
<1>4. Lists(k.defunct, {u \in Threads \ {} : k.stat[u] = "close" /\ u # Nobody})
  BY <1>2, <1>3 DEF Queued, Members
<1>5. PICK t, rest : t = Head(k.defunct) /\ rest = Tail(k.defunct)
  OBVIOUS
<1>6. /\ t \in Threads /\ rest \in Seq(Threads)
      /\ Range(k.defunct) = Range(rest) \union {t}
      /\ IsInjective(k.defunct) => IsInjective(rest) /\ t \notin Range(rest)
  BY <1>1, <1>2, <1>5, TailLemma, RestLemma
<1>7. k.stat[t] = "close" /\ t # Nobody /\ t \in Workers
  <2>1. k.stat[t] = "close" /\ t # Nobody
    BY <1>4, <1>6 DEF Lists
  <2> QED BY <1>2, <1>6, <2>1 DEF Ordered, Staged, Stage
<1>8. PICK s : s = [k EXCEPT !.defunct = rest]
  OBVIOUS
<1>9. /\ Moved(s, k) /\ s.defunct = rest /\ s.current = k.current /\ s.late = k.late
      /\ s.ready = k.ready /\ s.group = k.group /\ s.waiters = k.waiters
  BY <1>2, <1>6, <1>8, SetDefunct
<1>10. s.flag = k.flag /\ s.stat = k.stat /\ s.priority = k.priority
       /\ s.lock_nest = k.lock_nest /\ s \in Kernels
  BY <1>9 DEF Moved, SameRest
<1>11. Queued(s, call, t)
  <2>1. Lists(rest, {u \in Threads \ {} : k.stat[u] = "close" /\ u # t})
    <3>1. Range(rest) = {u \in Threads \ {} : k.stat[u] = "close" /\ u # t}
      BY <1>4, <1>6, ConstantsLemma DEF Lists
    <3> QED BY <1>4, <1>6, <3>1 DEF Lists
  <2>2. Members(k, call, dead, {}) /\ Grouped(k)
    BY <1>2 DEF Queued
  <2>3. Members(s, call, t, {})
    BY <1>9, <1>10, <2>1, <2>2 DEF Members
  <2> QED BY <1>9, <2>2, <2>3 DEF Queued, Grouped
<1>12. Typed(s, pc, call, inHeap, t, 2)
  BY <1>2, <1>7, <1>10 DEF Good, Typed
<1>13. IdleOK(s, call, inHeap, t, 2)
  BY <1>2, <1>7, <1>10 DEF IdleOK
<1>14. /\ \A u \in inHeap : pc[u] = "run"
       /\ \A u \in Threads : pc[u] = "run" => call[u] = "none"
  BY <1>2 DEF Good, HeapOK, Ordered, Staged, Stage
<1>15. CurrentOK(s, pc, call) /\ Highest(s, pc)
  BY <1>2, <1>9, <1>10 DEF Ordered, CurrentOK, Highest
<1>16. Good(s, pc, call, inHeap, t, 2)
  BY <1>2, <1>9, <1>11, <1>12, <1>13, <1>14, <1>15, MovedGood
<1> QED BY <1>1, <1>5, <1>8, <1>16 DEF IInv

LEMMA ReturnInv ==
  ASSUME IInv, NEW t \in Threads, Return(t)
  PROVE  IInv'
<1> DEFINE k == kernel
           c == call
           h == inHeap
           v == [k.error EXCEPT ![t] = "ok"]
           s == [k EXCEPT !.error = v]
           q == [pc EXCEPT ![t] = "run"]
           e == [c EXCEPT ![t] = "none"]
           g == IF c[t] = "heap" /\ k.error[t] = "ok" THEN h \union {t} ELSE h
<1>1. /\ k.current = t /\ pc[t] = "back" /\ kernel' = s /\ inHeap' = g
      /\ pc' = q /\ call' = e /\ dead' = dead /\ frees' = frees
  BY DEF Return
<1>2. /\ k \in Kernels /\ Ordered(k, pc, c, dead) /\ Queued(k, c, dead) /\ Timed(k, 1)
      /\ Sleepers(k, c) /\ Staged(k, pc, c) /\ CurrentOK(k, pc, c) /\ Highest(k, pc)
      /\ MutexOK(k, c) /\ HeapOK(k, pc, c, h) /\ IdleOK(k, c, h, dead, frees)
      /\ Typed(k, pc, c, h, dead, frees) /\ h \subseteq Threads
  BY DEF IInv, Good, Ordered, Typed
<1> HIDE DEF k, c, h
<1>3. k.stat[t] = "ready" /\ t \notin h
  BY <1>1, <1>2 DEF CurrentOK, HeapOK
<1>4. /\ v \in [Threads -> {"ok", "timeout"}] /\ v[t] = "ok"
      /\ \A u \in Threads : u # t => v[u] = k.error[u]
  BY <1>2, FieldsLemma
<1>5. /\ q \in [Threads -> {"run", "sched", "back"}]
      /\ q[t] = "run" /\ \A u \in Threads : u # t => q[u] = pc[u]
      /\ e \in [Threads -> Objects \union {"none", "sleep", "exit"}]
      /\ e[t] = "none" /\ \A u \in Threads : u # t => e[u] = c[u]
  BY <1>2 DEF Typed
<1> HIDE DEF v, q, e
<1>6. /\ s \in Kernels /\ s.error = v
      /\ s.stat = k.stat /\ s.timers = k.timers
      /\ s.current = k.current /\ s.late = k.late
      /\ SameQueues(s, k) /\ SameOthers(s, k)
  BY <1>2, <1>4, SetError
<1> HIDE DEF s
<1>7. /\ s.flag = k.flag /\ s.value = k.value /\ s.owner = k.owner
      /\ s.original_priority = k.original_priority /\ s.hold = k.hold
      /\ s.tick = k.tick /\ s.lock_nest = k.lock_nest /\ s.priority = k.priority
      /\ s.ready = k.ready /\ s.group = k.group
  BY <1>6 DEF SameOthers, SameQueues
<1>8. Queued(s, e, dead) /\ Timed(s, 1) /\ Sleepers(s, e)
  <2>1. \A u \in Threads : k.stat[u] = "suspend" => e[u] = c[u]
    BY <1>3, <1>5
  <2>2. Queued(k, e, dead)
    BY <1>2, <2>1, CallsLemma
  <2>3. SameLists(s, k)
    BY <1>6, <1>7 DEF SameLists
  <2>4. Queued(s, e, dead) /\ Timed(s, 1) /\ \A u : HasTimer(s, u) <=> HasTimer(k, u)
    BY <1>2, <2>2, <2>3, SameListsLemma
  <2>5. Sleepers(s, e)
    BY <1>2, <1>3, <1>5, <1>6, <2>4 DEF Sleepers, Waits
  <2> QED BY <2>4, <2>5
<1>9. Staged(s, q, e)
  <2>1. ASSUME NEW u \in Threads PROVE Stage(u, q[u], e[u], s.stat[u], s.error[u])
    <3>1. Stage(u, pc[u], c[u], k.stat[u], k.error[u])
      BY <1>2 DEF Staged
    <3>2. CASE u = t
      BY <1>3, <1>4, <1>5, <1>6, <3>2 DEF Stage
    <3>3. CASE u # t
      BY <1>4, <1>5, <1>6, <3>1, <3>3
    <3> QED BY <3>2, <3>3
  <2> QED BY <2>1 DEF Staged
<1>10. CurrentOK(s, q, e) /\ Highest(s, q)
  BY <1>1, <1>2, <1>3, <1>5, <1>6, <1>7 DEF CurrentOK, Highest
<1>11. MutexOK(s, e)
  <2>1. \A u \in Threads : Waits(s, e, u, "mutex") => Waits(k, c, u, "mutex")
    BY <1>3, <1>5, <1>6 DEF Waits
  <2>2. \A u \in Threads : Woken(s, e, u, "mutex") =>
                             Woken(k, c, u, "mutex") /\ s.error[u] = k.error[u]
    BY <1>4, <1>5, <1>6 DEF Woken
  <2>3. s.owner # Nobody => s.stat[s.owner] \in {"ready", "suspend"}
    BY <1>2, <1>6, <1>7 DEF MutexOK
  <2>4. KeepsMutex(s, k, e, c)
    BY <1>7, <2>1, <2>2, <2>3 DEF KeepsMutex
  <2> QED BY <1>2, <1>6, <2>4, MutexSame
<1>12. \A u \in Threads : u # t => (u \in OnWay(s, e) <=> u \in OnWay(k, c))
  BY <1>4, <1>5, <1>6 DEF OnWay, Woken
<1>13. t \notin OnWay(s, e) /\ OnWay(s, e) \subseteq Threads /\ OnWay(k, c) \subseteq Threads
  BY <1>5 DEF OnWay, Woken
<1>14. \A u \in Threads : Waits(s, e, u, "heap") => s.value["heap"] = 0
  BY <1>2, <1>3, <1>5, <1>6, <1>7 DEF HeapOK, Waits
<1>15. CASE c[t] = "heap" /\ k.error[t] = "ok"
  <2>1. t \in OnWay(k, c)
    BY <1>3, <1>15 DEF OnWay, Woken
  <2>2. k.value["heap"] = 0 /\ h = {} /\ OnWay(k, c) = {t}
    BY <1>2, <2>1 DEF HeapOK, OneUnit
  <2>3. OnWay(s, e) = {} /\ g = {t}
    BY <1>12, <1>13, <1>15, <2>2
  <2>4. HeapOK(s, q, e, g)
    BY <1>3, <1>5, <1>6, <1>7, <1>14, <2>2, <2>3 DEF HeapOK, OneUnit
  <2>5. IdleOK(s, e, g, dead, frees)
    <3>1. e[Idle] \in {c[Idle], "none"} /\ (Idle \in g => c[Idle] = "heap")
      BY <1>5, <1>15, <2>3, ConstantsLemma
    <3> HIDE DEF g
    <3> QED BY <1>2, <1>6, <3>1 DEF IdleOK
  <2>6. Typed(s, q, e, g, dead, frees)
    BY <1>2, <1>5, <1>6, <2>3 DEF Typed
  <2> QED BY <1>1, <1>8, <1>9, <1>10, <1>11, <2>4, <2>5, <2>6 DEF IInv, Good, Ordered
<1>16. CASE ~ (c[t] = "heap" /\ k.error[t] = "ok")
  <2>1. t \notin OnWay(k, c) /\ g = h
    BY <1>16 DEF OnWay, Woken
  <2>2. OnWay(s, e) = OnWay(k, c)
    BY <1>12, <1>13, <2>1
  <2>3. \A u \in h : q[u] = "run" /\ s.stat[u] = "ready"
    BY <1>2, <1>3, <1>5, <1>6 DEF HeapOK
  <2>4. HeapOK(s, q, e, g)
    BY <1>2, <1>7, <1>14, <2>1, <2>2, <2>3 DEF HeapOK
  <2>5. IdleOK(s, e, g, dead, frees)
    <3>1. e[Idle] \in {c[Idle], "none"}
      BY <1>5, ConstantsLemma
    <3>2. IdleOK(s, e, h, dead, frees)
      BY <1>2, <1>6, <3>1 DEF IdleOK
    <3> QED BY <2>1, <3>2
  <2>6. Typed(s, q, e, g, dead, frees)
    BY <1>2, <1>5, <1>6, <2>1 DEF Typed
  <2> QED BY <1>1, <1>8, <1>9, <1>10, <1>11, <2>4, <2>5, <2>6 DEF IInv, Good, Ordered
<1> QED BY <1>15, <1>16

(* A thread that is on no list, and by its call and state belongs on none. *)
LEMMA OffListsLemma ==
  ASSUME NEW k \in Kernels, NEW c, NEW e, NEW d, NEW t \in Threads, Members(k, c, d, {t}),
         k.stat[t] = "suspend", e[t] \notin Objects,
         \A u \in Threads : u # t => e[u] = c[u]
  PROVE  Members(k, e, d, {})
<1>1. ASSUME NEW x \in Priorities
      PROVE  {u \in Threads \ {} : k.stat[u] = "ready" /\ k.priority[u] = x}
               = {u \in Threads \ {t} : k.stat[u] = "ready" /\ k.priority[u] = x}
  OBVIOUS
<1>2. ASSUME NEW o \in Objects
      PROVE  {u \in Threads \ {} : k.stat[u] = "suspend" /\ e[u] = o}
               = {u \in Threads \ {t} : k.stat[u] = "suspend" /\ c[u] = o}
  OBVIOUS
<1>3. {u \in Threads \ {} : k.stat[u] = "close" /\ u # d}
        = {u \in Threads \ {t} : k.stat[u] = "close" /\ u # d}
  OBVIOUS
<1> QED BY <1>1, <1>2, <1>3 DEF Members

LEMMA SleepInv ==
  ASSUME IInv, NEW t \in Threads, NEW time \in Times["sleep"], Sleep(t, time)
  PROVE  IInv'
<1> DEFINE k == kernel
           c == call
           a == Suspend(k, t)
           s == TimerStart(a, t, time)
           q == [pc EXCEPT ![t] = "sched"]
           e == [c EXCEPT ![t] = "sleep"]
<1>1. /\ Running(t) /\ t \notin inHeap /\ k.lock_nest = 0 /\ t \in Workers
      /\ kernel' = s /\ pc' = q /\ call' = e
      /\ inHeap' = inHeap /\ dead' = dead /\ frees' = frees
  BY DEF Sleep, MayBlock, Free, ToSchedule, Client
<1>2. /\ k \in Kernels /\ Good(k, pc, c, inHeap, dead, frees)
      /\ k.current = t /\ pc[t] = "run"
      /\ c[t] = "none" /\ k.stat[t] = "ready" /\ k.error[t] = "ok"
  BY <1>1, RunningLemma
<1>3. /\ e[t] = "sleep" /\ \A u \in Threads : u # t => e[u] = c[u]
  BY <1>2 DEF Good, Typed
<1>4. /\ Queued(k, c, dead) /\ Timed(k, 1)
      /\ k.stat \in [Threads -> {"init", "ready", "suspend", "close"}]
  BY <1>2, FieldsLemma DEF Good, Ordered
<1> HIDE DEF k, c, q, e
<1>5. ~ HasTimer(k, t)
  BY <1>2, <1>4, NoTimerLemma
<1>6. /\ a \in Kernels /\ SameRest(a, k)
      /\ a.stat = [k.stat EXCEPT ![t] = "suspend"]
      /\ a.priority = k.priority
      /\ a.timers = k.timers /\ a.current = k.current /\ a.late = k.late
      /\ Members(a, c, dead, {t}) /\ Grouped(a)
  BY <1>2, <1>4, SuspendLemma
<1> HIDE DEF a
<1>7. a.stat[t] = "suspend" /\ a.tick = k.tick
  BY <1>4, <1>6 DEF SameRest
<1>8. Timed(a, 1)
  BY <1>2, <1>4, <1>5, <1>6, <1>7, TimedElsewhere
<1>9. ~ HasTimer(a, t) /\ \A u : HasTimer(a, u) <=> HasTimer(k, u)
  BY <1>5, <1>6 DEF HasTimer
<1>10. time \in 1 .. Half - 1
  BY TimesLemma
<1>11. /\ s \in Kernels /\ SameRest(s, a) /\ SameQueues(s, a)
       /\ s.stat = a.stat /\ s.priority = a.priority
       /\ s.current = a.current /\ s.late = a.late
       /\ Timed(s, 1)
       /\ \A u : HasTimer(s, u) <=> HasTimer(a, u) \/ u = t
  BY <1>6, <1>7, <1>8, <1>9, <1>10, TimerStartLemma
<1> HIDE DEF s
<1>12. Queued(s, e, dead)
  <2>1. Members(s, c, dead, {t})
    BY <1>6, <1>11, SameMembers DEF SameQueues, SameRest
  <2>2. Members(s, e, dead, {})
    <3>1. s.stat[t] = "suspend" /\ e[t] \notin Objects
      BY <1>3, <1>7, <1>11 DEF Objects
    <3> QED BY <1>3, <1>11, <2>1, <3>1, OffListsLemma
  <2>3. Grouped(s)
    BY <1>6, <1>11 DEF Grouped, SameQueues
  <2> QED BY <2>2, <2>3 DEF Queued
<1>13. Blocks(s, k, q, pc, e, c, t, "sleep")
  <2>1. \A u : u # t => (HasTimer(s, u) <=> HasTimer(k, u))
    BY <1>9, <1>11
  <2>2. HasTimer(s, t)
    BY <1>11
  <2>3. /\ s.error = k.error /\ s.lock_nest = 0 /\ s.flag = k.flag
        /\ s.value = k.value /\ s.owner = k.owner
        /\ s.original_priority = k.original_priority /\ s.hold = k.hold
    BY <1>1, <1>6, <1>11 DEF SameRest
  <2> QED BY <1>6, <1>11, <2>1, <2>2, <2>3 DEF Blocks, q, e
<1>14. /\ Good(k, pc, c, inHeap, dead, frees) /\ k.current = t /\ pc[t] = "run"
       /\ t \notin inHeap /\ t \in Threads
       /\ Blocks(s, k, q, pc, e, c, t, "sleep") /\ Queued(s, e, dead) /\ Timed(s, 1)
       /\ ("sleep" = "heap" => k.value["heap"] = 0)
       /\ (t = Idle => "sleep" = "heap" /\ frees > 0)
  BY <1>1, <1>2, <1>11, <1>12, <1>13, ThreadsAssumption
<1>15. /\ Typed(s, q, e, inHeap, dead, frees) /\ Ordered(s, q, e, dead)
       /\ HeapOK(s, q, e, inHeap) /\ IdleOK(s, e, inHeap, dead, frees)
       /\ s.priority = k.priority => MutexOK(s, e)
  BY ONLY <1>14, BlockGood
<1> QED BY <1>1, <1>6, <1>11, <1>15 DEF IInv, Good

Closed(k, v, list) == [k EXCEPT !.stat = v, !.defunct = list]

LEMMA SetClosed ==
  ASSUME NEW k \in Kernels, NEW v \in [Threads -> {"init", "ready", "suspend", "close"}],
         NEW list \in Seq(Threads)
  PROVE  LET s == Closed(k, v, list) IN
         /\ s \in Kernels /\ SameRest(s, k) /\ s.stat = v /\ s.defunct = list
         /\ s.priority = k.priority /\ s.timers = k.timers
         /\ s.current = k.current /\ s.late = k.late
         /\ s.ready = k.ready /\ s.group = k.group /\ s.waiters = k.waiters
<1> DEFINE s == Closed(k, v, list)
<1>1. s \in Kernels
  BY ZenonT(60) DEF Kernels, Closed
<1>2. SameRest(s, k)
  BY DEF Kernels, SameRest, Closed
<1>3. /\ s.stat = v /\ s.defunct = list
      /\ s.priority = k.priority /\ s.timers = k.timers
      /\ s.current = k.current /\ s.late = k.late
      /\ s.ready = k.ready /\ s.group = k.group /\ s.waiters = k.waiters
  BY DEF Kernels, Closed
<1> QED BY <1>1, <1>2, <1>3

LEMMA ExitInv ==
  ASSUME IInv, NEW t \in Threads, Exit(t)
  PROVE  IInv'
<1> DEFINE k == kernel
           c == call
           a == RemoveThread(k, t)
           b == TimerStop(a, t)
           v == [b.stat EXCEPT ![t] = "close"]
           list == <<t>> \o b.defunct
           s == Closed(b, v, list)
           q == [pc EXCEPT ![t] = "sched"]
           e == [c EXCEPT ![t] = "exit"]
<1>1. /\ Running(t) /\ t \notin inHeap /\ k.lock_nest = 0 /\ t \in Workers \ Booted
      /\ k.owner # t
      /\ kernel' = s /\ pc' = q /\ call' = e
      /\ inHeap' = inHeap /\ dead' = dead /\ frees' = frees
  BY DEF Exit, MayBlock, Free, ToSchedule, Client, Closed
<1>2. /\ k \in Kernels /\ Good(k, pc, c, inHeap, dead, frees)
      /\ k.current = t /\ pc[t] = "run"
      /\ c[t] = "none" /\ k.stat[t] = "ready" /\ k.error[t] = "ok"
  BY <1>1, RunningLemma
<1>3. /\ q \in [Threads -> {"run", "sched", "back"}]
      /\ q[t] = "sched" /\ \A u \in Threads : u # t => q[u] = pc[u]
      /\ e \in [Threads -> Objects \union {"none", "sleep", "exit"}]
      /\ e[t] = "exit" /\ \A u \in Threads : u # t => e[u] = c[u]
  BY <1>2, ToScheduleLemma DEF Good, Typed
<1>4. /\ Queued(k, c, dead) /\ Timed(k, 1) /\ Sleepers(k, c) /\ Staged(k, pc, c)
      /\ MutexOK(k, c) /\ HeapOK(k, pc, c, inHeap) /\ IdleOK(k, c, inHeap, dead, frees)
      /\ inHeap \subseteq Threads
      /\ k.stat \in [Threads -> {"init", "ready", "suspend", "close"}]
  BY <1>2, FieldsLemma DEF Good, Ordered, Typed
<1> HIDE DEF k, c, q, e
<1>5. /\ a \in Kernels /\ SameRest(a, k)
      /\ a.stat = k.stat /\ a.priority = k.priority /\ a.timers = k.timers
      /\ a.current = k.current /\ a.late = k.late
      /\ Members(a, c, dead, {t}) /\ Grouped(a)
  BY <1>2, <1>4, RemoveThreadLemma
<1> HIDE DEF a
<1>6. Timed(a, 1) /\ \A u : HasTimer(a, u) <=> HasTimer(k, u)
  <2>1. a.tick = k.tick
    BY <1>5 DEF SameRest
  <2> QED BY <1>4, <1>5, <2>1, SameTimers
<1>7. /\ b \in Kernels /\ SameRest(b, a) /\ SameQueues(b, a)
      /\ b.stat = a.stat /\ b.priority = a.priority
      /\ b.current = a.current /\ b.late = a.late
      /\ Timed(b, 1) /\ ~ HasTimer(b, t)
      /\ \A u : u # t => (HasTimer(b, u) <=> HasTimer(a, u))
  BY <1>5, <1>6, TimerStopLemma
<1> HIDE DEF b
<1>8. Members(b, c, dead, {t}) /\ Grouped(b)
  <2>1. Members(b, c, dead, {t})
    BY <1>5, <1>7, SameMembers DEF SameQueues, SameRest
  <2>2. Grouped(b)
    BY <1>5, <1>7 DEF Grouped, SameQueues
  <2> QED BY <2>1, <2>2
<1>9. b.defunct \in Seq(Threads) /\ Lists(b.defunct, {u \in Threads \ {t} : b.stat[u] = "close" /\ u # dead})
  BY <1>7, <1>8, FieldsLemma DEF Members
<1>10. /\ list \in Seq(Threads) /\ Range(list) = Range(b.defunct) \union {t}
       /\ IsInjective(list)
  <2>1. IsInjective(b.defunct) /\ t \notin Range(b.defunct)
    BY <1>9 DEF Lists
  <2> QED BY <1>9, <2>1, ConsLemma
<1>11. /\ v \in [Threads -> {"init", "ready", "suspend", "close"}]
       /\ v[t] = "close" /\ \A u \in Threads : u # t => v[u] = k.stat[u]
  BY <1>4, <1>5, <1>7
<1>12. /\ s \in Kernels /\ SameRest(s, b) /\ s.stat = v /\ s.defunct = list
       /\ s.priority = b.priority /\ s.timers = b.timers
       /\ s.current = b.current /\ s.late = b.late
       /\ s.ready = b.ready /\ s.group = b.group /\ s.waiters = b.waiters
  <2> HIDE DEF v, list
  <2> QED BY <1>7, <1>10, <1>11, SetClosed
<1> HIDE DEF s
<1>13. s.stat[t] = "close" /\ \A u \in Threads : u # t => s.stat[u] = k.stat[u]
  BY <1>11, <1>12
<1>14. /\ s.error = k.error /\ s.flag = k.flag /\ s.value = k.value /\ s.owner = k.owner
       /\ s.original_priority = k.original_priority /\ s.hold = k.hold
       /\ s.tick = b.tick /\ s.lock_nest = 0 /\ s.priority = k.priority /\ s.current = t
       /\ s.flag = b.flag
  BY <1>1, <1>2, <1>5, <1>7, <1>12 DEF SameRest
<1>15. dead # t /\ (dead # Nobody => dead \in Threads)
  BY <1>2, <1>4, ConstantsLemma DEF Good, Typed, IdleOK
<1>16. Queued(s, e, dead)
  <2>1. ASSUME NEW x \in Priorities
        PROVE  {u \in Threads \ {} : s.stat[u] = "ready" /\ s.priority[u] = x}
                 = {u \in Threads \ {t} : b.stat[u] = "ready" /\ b.priority[u] = x}
    BY <1>5, <1>7, <1>12, <1>13
  <2>2. ASSUME NEW o \in Objects
        PROVE  {u \in Threads \ {} : s.stat[u] = "suspend" /\ e[u] = o}
                 = {u \in Threads \ {t} : b.stat[u] = "suspend" /\ c[u] = o}
    BY <1>3, <1>5, <1>7, <1>13
  <2>3. Lists(s.defunct, {u \in Threads \ {} : s.stat[u] = "close" /\ u # dead})
    <3>1. {u \in Threads \ {} : s.stat[u] = "close" /\ u # dead}
            = {u \in Threads \ {t} : b.stat[u] = "close" /\ u # dead} \union {t}
      BY <1>5, <1>7, <1>13, <1>15
    <3>2. Range(b.defunct) = {u \in Threads \ {t} : b.stat[u] = "close" /\ u # dead}
      BY <1>9 DEF Lists
    <3>3. Range(s.defunct) = {u \in Threads \ {} : s.stat[u] = "close" /\ u # dead}
      BY <1>10, <1>12, <3>1, <3>2
    <3> QED BY <1>10, <1>12, <3>3 DEF Lists
  <2>4. Members(s, e, dead, {})
    BY <1>8, <1>12, <1>14, <2>1, <2>2, <2>3 DEF Members
  <2> QED BY <1>8, <1>12, <2>4 DEF Queued, Grouped
<1>17. Timed(s, 1) /\ Sleepers(s, e)
  <2>1. s.stat = [b.stat EXCEPT ![t] = "close"]
    BY <1>12
  <2>2. Timed(s, 1)
    <3>1. /\ b \in Kernels /\ Timed(b, 1) /\ ~ HasTimer(b, t)
          /\ s.timers = b.timers /\ s.tick = b.tick
          /\ s.stat = [b.stat EXCEPT ![t] = "close"]
      BY <1>7, <1>12, <1>14, <2>1
    <3> QED BY ONLY <3>1, TimedElsewhere
  <2>3. \A u : HasTimer(s, u) <=> HasTimer(b, u)
    BY <1>12 DEF HasTimer
  <2>4. \A u \in Threads : Waits(s, e, u, "sleep") => u # t /\ Waits(k, c, u, "sleep")
    BY <1>3, <1>13 DEF Waits
  <2> QED BY <1>4, <1>6, <1>7, <2>2, <2>3, <2>4 DEF Sleepers
<1>18. Staged(s, q, e)
  <2>1. ASSUME NEW u \in Threads PROVE Stage(u, q[u], e[u], s.stat[u], s.error[u])
    <3>1. Stage(u, pc[u], c[u], k.stat[u], k.error[u])
      BY <1>4 DEF Staged
    <3>2. CASE u = t
      BY <1>1, <1>3, <1>13, <3>2 DEF Stage
    <3>3. CASE u # t
      BY <1>3, <1>13, <1>14, <3>1, <3>3
    <3> QED BY <3>2, <3>3
  <2> QED BY <2>1 DEF Staged
<1>19. CurrentOK(s, q, e) /\ Highest(s, q)
  BY <1>3, <1>13, <1>14 DEF CurrentOK, Highest
<1>20. MutexOK(s, e)
  <2>1. \A u \in Threads : Waits(s, e, u, "mutex") => Waits(k, c, u, "mutex")
    BY <1>3, <1>13 DEF Waits
  <2>2. \A u \in Threads : Woken(s, e, u, "mutex") =>
                             Woken(k, c, u, "mutex") /\ s.error[u] = k.error[u]
    BY <1>3, <1>13, <1>14 DEF Woken
  <2>3. s.owner # Nobody => s.stat[s.owner] \in {"ready", "suspend"}
    <3>1. s.owner # Nobody => s.owner \in Threads
      BY <1>12, FieldsLemma, ConstantsLemma
    <3> QED BY <1>1, <1>4, <1>13, <1>14, <3>1 DEF MutexOK
  <2>4. KeepsMutex(s, k, e, c)
    BY <1>14, <2>1, <2>2, <2>3 DEF KeepsMutex
  <2> QED BY <1>2, <1>4, <1>12, <2>4, MutexSame
<1>21. HeapOK(s, q, e, inHeap)
  <2>1. \A u \in inHeap : q[u] = "run" /\ s.stat[u] = "ready"
    BY <1>1, <1>3, <1>4, <1>13 DEF HeapOK
  <2>2. \A u \in Threads : Waits(s, e, u, "heap") => Waits(k, c, u, "heap")
    BY <1>3, <1>13 DEF Waits
  <2>3. \A u \in Threads : Woken(s, e, u, "heap") /\ s.error[u] = "ok"
                             <=> Woken(k, c, u, "heap") /\ k.error[u] = "ok"
    BY <1>2, <1>3, <1>13, <1>14 DEF Woken
  <2>4. HeapOK(k, pc, c, inHeap) /\ inHeap \subseteq Threads /\ s.value["heap"] = k.value["heap"]
    BY <1>4, <1>14
  <2> QED BY ONLY <2>1, <2>2, <2>3, <2>4, HeapSame
<1>22. IdleOK(s, e, inHeap, dead, frees)
  <2>1. e[Idle] = c[Idle]
    BY <1>1, <1>3, ConstantsLemma, ThreadsAssumption
  <2> QED BY <1>4, <1>13, <1>15, <2>1 DEF IdleOK
<1>23. Typed(s, q, e, inHeap, dead, frees)
  BY <1>2, <1>3, <1>12 DEF Good, Typed
<1> QED BY <1>1, <1>16, <1>17, <1>18, <1>19, <1>20, <1>21, <1>22, <1>23 DEF IInv, Good, Ordered

Created(k, stat, priority, remaining, error) ==
  [k EXCEPT !.stat = stat, !.priority = priority, !.remaining_tick = remaining,
            !.error = error]

Records(stat, priority, remaining, error) ==
  /\ stat \in [Threads -> {"init", "ready", "suspend", "close"}]
  /\ priority \in [Threads -> Priorities]
  /\ remaining \in [Threads -> 1 .. init_tick]
  /\ error \in [Threads -> {"ok", "timeout"}]

LEMMA SetThread ==
  ASSUME NEW k \in Kernels, NEW stat, NEW priority, NEW remaining, NEW error,
         Records(stat, priority, remaining, error)
  PROVE  LET s == Created(k, stat, priority, remaining, error) IN
         /\ s \in Kernels /\ s.stat = stat /\ s.priority = priority /\ s.error = error
         /\ SameQueues(s, k) /\ s.timers = k.timers /\ s.current = k.current
         /\ s.late = k.late /\ s.tick = k.tick /\ s.lock_nest = k.lock_nest
         /\ s.flag = k.flag /\ s.value = k.value /\ s.owner = k.owner
         /\ s.original_priority = k.original_priority /\ s.hold = k.hold
<1> DEFINE s == Created(k, stat, priority, remaining, error)
<1>1. s \in Kernels
  BY ZenonT(60) DEF Kernels, Created, Records
<1>2. SameQueues(s, k)
  BY DEF Kernels, SameQueues, Created
<1>3. /\ s.stat = stat /\ s.priority = priority /\ s.error = error
      /\ s.timers = k.timers /\ s.current = k.current
      /\ s.late = k.late /\ s.tick = k.tick /\ s.lock_nest = k.lock_nest
      /\ s.flag = k.flag /\ s.value = k.value /\ s.owner = k.owner
      /\ s.original_priority = k.original_priority /\ s.hold = k.hold
  BY DEF Kernels, Created
<1> QED BY <1>1, <1>2, <1>3

LEMMA StartupInv ==
  ASSUME IInv, NEW t \in Threads, NEW n \in Workers \ Booted, Startup(t, n)
  PROVE  IInv'
<1> DEFINE k == kernel
           c == call
           stat == [k.stat EXCEPT ![n] = "suspend"]
           priority == [k.priority EXCEPT ![n] = init_priority[n]]
           remaining == [k.remaining_tick EXCEPT ![n] = init_tick]
           error == [k.error EXCEPT ![n] = "ok"]
           a == Created(k, stat, priority, remaining, error)
           s == Resume(a, n)
           q == [pc EXCEPT ![t] = "sched", ![n] = "run"]
           e == [c EXCEPT ![t] = "none", ![n] = "none"]
<1>1. /\ Running(t) /\ t \notin inHeap /\ k.stat[n] = "init"
      /\ kernel' = s /\ pc' = q /\ call' = e
      /\ inHeap' = inHeap /\ dead' = dead /\ frees' = frees
  BY DEF Startup, Free, Client, Created
<1>2. /\ k \in Kernels /\ Good(k, pc, c, inHeap, dead, frees)
      /\ k.current = t /\ pc[t] = "run"
      /\ c[t] = "none" /\ k.stat[t] = "ready" /\ k.error[t] = "ok"
  BY <1>1, RunningLemma
<1>3. /\ Queued(k, c, dead) /\ Timed(k, 1) /\ Sleepers(k, c) /\ Staged(k, pc, c)
      /\ MutexOK(k, c) /\ HeapOK(k, pc, c, inHeap) /\ IdleOK(k, c, inHeap, dead, frees)
      /\ inHeap \subseteq Threads /\ n \in Threads /\ n # t
  BY <1>1, <1>2, ConstantsLemma DEF Good, Ordered, Typed
<1>4. /\ q \in [Threads -> {"run", "sched", "back"}]
      /\ q[t] = "sched" /\ q[n] = "run" /\ \A u \in Threads : u # t /\ u # n => q[u] = pc[u]
      /\ e \in [Threads -> Objects \union {"none", "sleep", "exit"}]
      /\ e[t] = "none" /\ e[n] = "none" /\ \A u \in Threads : u # t /\ u # n => e[u] = c[u]
  BY <1>2, <1>3 DEF Good, Typed
<1>5. c[n] \in {"none", "exit"}
  BY <1>1, <1>3 DEF Staged, Stage
<1> HIDE DEF k, c, q, e
<1>6. k.priority[n] = init_priority[n]
  <2>1. k.owner # n
    BY <1>1, <1>3, ConstantsLemma DEF MutexOK
  <2> QED BY <1>3, <2>1 DEF MutexOK
<1>7. /\ Records(stat, priority, remaining, error)
      /\ stat[n] = "suspend" /\ \A u \in Threads : u # n => stat[u] = k.stat[u]
      /\ priority = k.priority
      /\ error[n] = "ok" /\ \A u \in Threads : u # n => error[u] = k.error[u]
  <2>1. /\ k.stat \in [Threads -> {"init", "ready", "suspend", "close"}]
        /\ k.priority \in [Threads -> Priorities]
        /\ k.error \in [Threads -> {"ok", "timeout"}]
        /\ k.remaining_tick \in [Threads -> 1 .. init_tick]
    BY <1>2, FieldsLemma
  <2>2. remaining \in [Threads -> 1 .. init_tick]
    <3>1. init_tick \in 1 .. init_tick
      BY TicksAssumption
    <3> QED BY <2>1, <3>1
  <2>3. priority = k.priority
    BY <1>6, <2>1
  <2>4. stat \in [Threads -> {"init", "ready", "suspend", "close"}]
        /\ error \in [Threads -> {"ok", "timeout"}]
    BY <2>1
  <2>5. Records(stat, priority, remaining, error)
    <3> HIDE DEF stat, priority, remaining, error
    <3> QED BY <2>1, <2>2, <2>3, <2>4 DEF Records
  <2> QED BY <1>3, <2>1, <2>3, <2>5
<1> HIDE DEF priority, remaining, error
<1>8. /\ a \in Kernels /\ a.stat = stat /\ a.priority = k.priority /\ a.error = error
      /\ SameQueues(a, k) /\ a.timers = k.timers /\ a.current = k.current
      /\ a.late = k.late /\ a.tick = k.tick /\ a.lock_nest = k.lock_nest
      /\ a.flag = k.flag /\ a.value = k.value /\ a.owner = k.owner
      /\ a.original_priority = k.original_priority /\ a.hold = k.hold
  <2> HIDE DEF stat
  <2> QED BY <1>2, <1>7, SetThread
<1> HIDE DEF a
<1>9. Queued(a, c, dead)
  <2>1. ASSUME NEW x \in Priorities
        PROVE  {u \in Threads \ {} : a.stat[u] = "ready" /\ a.priority[u] = x}
                 = {u \in Threads \ {} : k.stat[u] = "ready" /\ k.priority[u] = x}
    BY <1>1, <1>7, <1>8
  <2>2. ASSUME NEW o \in Objects
        PROVE  {u \in Threads \ {} : a.stat[u] = "suspend" /\ c[u] = o}
                 = {u \in Threads \ {} : k.stat[u] = "suspend" /\ c[u] = o}
    BY <1>1, <1>5, <1>7, <1>8 DEF Objects
  <2>3. {u \in Threads \ {} : a.stat[u] = "close" /\ u # dead}
          = {u \in Threads \ {} : k.stat[u] = "close" /\ u # dead}
    BY <1>1, <1>7, <1>8
  <2>4. Members(a, c, dead, {})
    BY <1>3, <1>8, <2>1, <2>2, <2>3 DEF Queued, Members, SameQueues
  <2> QED BY <1>3, <1>8, <2>4 DEF Queued, Grouped, SameQueues
<1>10. Timed(a, 1) /\ \A u : HasTimer(a, u) <=> HasTimer(k, u)
  <2>1. ~ HasTimer(k, n)
    BY <1>1, <1>3, NoTimerLemma
  <2>2. /\ k \in Kernels /\ Timed(k, 1) /\ ~ HasTimer(k, n)
        /\ a.timers = k.timers /\ a.tick = k.tick
        /\ a.stat = [k.stat EXCEPT ![n] = "suspend"]
    BY <1>2, <1>3, <1>8, <2>1
  <2>3. Timed(a, 1)
    BY ONLY <2>2, TimedElsewhere
  <2>4. \A u : HasTimer(a, u) <=> HasTimer(k, u)
    BY <1>8 DEF HasTimer
  <2> QED BY <2>3, <2>4
<1> HIDE DEF stat
<1>11. /\ s \in Kernels /\ SameRest(s, a)
       /\ s.stat = [a.stat EXCEPT ![n] = "ready"]
       /\ s.priority = a.priority /\ s.current = a.current /\ s.late = a.late
       /\ Queued(s, c, dead) /\ Timed(s, 1)
       /\ \A u : u # n => (HasTimer(s, u) <=> HasTimer(a, u))
  <2>1. /\ a \in Kernels /\ Queued(a, c, dead) /\ Timed(a, 1) /\ n \in Threads
        /\ a.stat[n] = "suspend"
    BY <1>3, <1>7, <1>8, <1>9, <1>10
  <2> QED BY ONLY <2>1, ResumeLemma
<1> HIDE DEF s
<1>12. s.stat[n] = "ready" /\ \A u \in Threads : u # n => s.stat[u] = k.stat[u]
  <2>1. a.stat \in [Threads -> {"init", "ready", "suspend", "close"}]
    BY <1>8, FieldsLemma
  <2> QED BY <1>3, <1>7, <1>8, <1>11, <2>1
<1>13. /\ s.error[n] = "ok" /\ \A u \in Threads : u # n => s.error[u] = k.error[u]
       /\ s.flag = k.flag /\ s.value = k.value /\ s.owner = k.owner
       /\ s.original_priority = k.original_priority /\ s.hold = k.hold
       /\ s.priority = k.priority /\ s.current = t
  BY <1>2, <1>7, <1>8, <1>11 DEF SameRest
<1>14. Queued(s, e, dead) /\ Sleepers(s, e)
  <2>1. \A u \in Threads : s.stat[u] = "suspend" => e[u] = c[u] /\ u # n
    BY <1>2, <1>3, <1>4, <1>12
  <2>2. Queued(s, e, dead)
    BY <1>11, <2>1, CallsLemma
  <2>3. \A u \in Threads : Waits(s, e, u, "sleep") => u # n /\ Waits(k, c, u, "sleep")
    BY <1>12, <2>1 DEF Waits
  <2> QED BY <1>3, <1>10, <1>11, <2>2, <2>3 DEF Sleepers
<1>15. Staged(s, q, e)
  <2>1. ASSUME NEW u \in Threads PROVE Stage(u, q[u], e[u], s.stat[u], s.error[u])
    <3>1. Stage(u, pc[u], c[u], k.stat[u], k.error[u])
      BY <1>3 DEF Staged
    <3>2. CASE u = n
      BY <1>4, <1>12, <1>13, <3>2 DEF Stage
    <3>3. CASE u = t
      BY <1>2, <1>3, <1>4, <1>12, <1>13, <3>3 DEF Stage
    <3>4. CASE u # n /\ u # t
      BY <1>4, <1>12, <1>13, <3>1, <3>4
    <3> QED BY <3>2, <3>3, <3>4
  <2> QED BY <2>1 DEF Staged
<1>16. CurrentOK(s, q, e) /\ Highest(s, q)
  <2>1. s.stat[t] = "ready"
    BY <1>2, <1>3, <1>12
  <2> QED BY <1>4, <1>13, <2>1 DEF CurrentOK, Highest
<1>17. MutexOK(s, e)
  <2>1. \A u \in Threads : Waits(s, e, u, "mutex") => Waits(k, c, u, "mutex")
    BY <1>4, <1>12 DEF Waits
  <2>2. \A u \in Threads : Woken(s, e, u, "mutex") =>
                             Woken(k, c, u, "mutex") /\ s.error[u] = k.error[u]
    BY <1>4, <1>12, <1>13 DEF Woken
  <2>3. s.owner # Nobody => s.stat[s.owner] \in {"ready", "suspend"}
    <3>1. s.owner # Nobody => s.owner \in Threads
      BY <1>11, FieldsLemma, ConstantsLemma
    <3> QED BY <1>3, <1>12, <1>13, <3>1 DEF MutexOK
  <2>4. KeepsMutex(s, k, e, c)
    BY <1>13, <2>1, <2>2, <2>3 DEF KeepsMutex
  <2> QED BY <1>2, <1>3, <1>11, <2>4, MutexSame
<1>18. HeapOK(s, q, e, inHeap)
  <2>0. n \notin inHeap
    BY <1>1, <1>3 DEF HeapOK
  <2>1. \A u \in inHeap : q[u] = "run" /\ s.stat[u] = "ready"
    BY <1>1, <1>3, <1>4, <1>12, <2>0 DEF HeapOK
  <2>2. \A u \in Threads : Waits(s, e, u, "heap") => Waits(k, c, u, "heap")
    BY <1>4, <1>12 DEF Waits
  <2>3. \A u \in Threads : Woken(s, e, u, "heap") /\ s.error[u] = "ok"
                             <=> Woken(k, c, u, "heap") /\ k.error[u] = "ok"
    BY <1>2, <1>4, <1>5, <1>12, <1>13 DEF Woken
  <2>4. HeapOK(k, pc, c, inHeap) /\ inHeap \subseteq Threads /\ s.value["heap"] = k.value["heap"]
    BY <1>3, <1>13
  <2> QED BY ONLY <2>1, <2>2, <2>3, <2>4, HeapSame
<1>19. IdleOK(s, e, inHeap, dead, frees)
  <2>1. e[Idle] \in {c[Idle], "none"}
    BY <1>4, ConstantsLemma
  <2>2. dead # Nobody => dead \in Threads /\ dead # n
    BY <1>1, <1>2, <1>3, ConstantsLemma DEF Good, Typed, IdleOK
  <2> QED BY <1>3, <1>12, <2>1, <2>2 DEF IdleOK
<1>20. Typed(s, q, e, inHeap, dead, frees)
  BY <1>2, <1>4, <1>11 DEF Good, Typed
<1> QED BY <1>1, <1>11, <1>14, <1>15, <1>16, <1>17, <1>18, <1>19, <1>20 DEF IInv, Good, Ordered

(* The tick: the clock and the slice have counted, the current thread may  *)
(* have lost the processor to the next of its priority.                    *)
Sliced(b, k) ==
  /\ b \in Kernels
  /\ b.stat = k.stat /\ b.error = k.error /\ b.priority = k.priority
  /\ b.timers = k.timers /\ b.lock_nest = k.lock_nest /\ b.flag = k.flag
  /\ b.value = k.value /\ b.owner = k.owner
  /\ b.original_priority = k.original_priority /\ b.hold = k.hold

(* The timers that are due wake their threads.                             *)
LEMMA TimedOutGood ==
  ASSUME NEW k, NEW b, NEW s \in Kernels, NEW p, NEW c, NEW h, NEW d, NEW f,
         Good(k, p, c, h, d, f), Sliced(b, k), CurrentOK(b, p, c), Highest(b, p),
         Queued(s, c, d), Timed(s, 1), TimedOut(s, b)
  PROVE  Good(s, p, c, h, d, f)
<1>1. /\ k \in Kernels /\ MutexOK(k, c) /\ HeapOK(k, p, c, h) /\ IdleOK(k, c, h, d, f)
      /\ Sleepers(k, c) /\ Staged(k, p, c) /\ h \subseteq Threads
      /\ d \in Workers \union {Nobody}
      /\ Typed(k, p, c, h, d, f)
  BY DEF Good, Ordered, Typed
<1>2. /\ b.stat = k.stat /\ b.error = k.error /\ b.priority = k.priority
      /\ b.timers = k.timers /\ b.lock_nest = k.lock_nest /\ b \in Kernels
  BY DEF Sliced
<1>3. /\ s.flag = k.flag /\ s.value = k.value /\ s.owner = k.owner
      /\ s.original_priority = k.original_priority /\ s.hold = k.hold
      /\ s.priority = k.priority /\ s.lock_nest = b.lock_nest
  BY DEF Sliced, TimedOut, SameOthers
<1>4. \A u : HasTimer(b, u) <=> HasTimer(k, u)
  BY <1>2 DEF HasTimer
<1>5. ASSUME NEW u \in Threads
      PROVE  \/ /\ s.stat[u] = k.stat[u] /\ s.error[u] = k.error[u]
                /\ HasTimer(k, u) => HasTimer(s, u)
             \/ k.stat[u] = "suspend" /\ s.stat[u] = "ready" /\ s.error[u] = "timeout"
  <2>1. \/ /\ s.stat[u] = b.stat[u] /\ s.error[u] = b.error[u]
           /\ HasTimer(b, u) => HasTimer(s, u)
        \/ b.stat[u] = "suspend" /\ s.stat[u] = "ready" /\ s.error[u] = "timeout"
    BY DEF TimedOut
  <2> QED BY <1>2, <1>4, <2>1
<1>6. Sleepers(s, c)
  <2>1. ASSUME NEW u \in Threads, Waits(s, c, u, "sleep") PROVE HasTimer(s, u)
    <3>1. s.stat[u] = "suspend" /\ c[u] = "sleep"
      BY <2>1 DEF Waits
    <3>2. k.stat[u] = "suspend" /\ (HasTimer(k, u) => HasTimer(s, u))
      BY <1>5, <3>1
    <3>3. HasTimer(k, u)
      BY <1>1, <3>1, <3>2 DEF Sleepers, Waits
    <3> QED BY <3>2, <3>3
  <2> QED BY <2>1 DEF Sleepers
<1>7. Staged(s, p, c)
  <2>1. ASSUME NEW u \in Threads PROVE Stage(u, p[u], c[u], s.stat[u], s.error[u])
    <3>1. Stage(u, p[u], c[u], k.stat[u], k.error[u])
      BY <1>1 DEF Staged
    <3>2. \/ s.stat[u] = k.stat[u] /\ s.error[u] = k.error[u]
          \/ k.stat[u] = "suspend" /\ s.stat[u] = "ready" /\ s.error[u] = "timeout"
      BY <1>5
    <3> QED BY <3>1, <3>2 DEF Stage, Objects
  <2> QED BY <2>1 DEF Staged
<1>8. CurrentOK(s, p, c) /\ Highest(s, p)
  <2>1. CASE SameQueues(s, b) /\ s.stat = b.stat /\ s.current = b.current /\ s.late = b.late
    BY <1>3, <2>1 DEF CurrentOK, Highest, SameQueues
  <2>2. CASE Scheduled(s, b)
    <3>1. b.current \in Threads /\ b.lock_nest \in Nat
      BY <1>2, FieldsLemma, BoundsAssumption
    <3>2. s.stat[b.current] \in {b.stat[b.current], "ready"}
      BY <1>2, <1>5, <3>1
    <3> QED BY ONLY <1>3, <2>2, <3>1, <3>2, CurrentOK(b, p, c), ScheduledLemma
  <2> QED BY <2>1, <2>2 DEF TimedOut
<1>9. MutexOK(s, c)
  <2>1. \A u \in Threads : Waits(s, c, u, "mutex") => Waits(k, c, u, "mutex")
    BY <1>5 DEF Waits
  <2>2. \A u \in Threads : Woken(s, c, u, "mutex") =>
          \/ Woken(k, c, u, "mutex") /\ s.error[u] = k.error[u]
          \/ Waits(k, c, u, "mutex") /\ s.error[u] = "timeout"
    BY <1>5 DEF Woken, Waits
  <2>3. s.owner # Nobody => s.stat[s.owner] \in {"ready", "suspend"}
    <3>1. s.owner # Nobody => s.owner \in Threads
      BY <1>1, <1>3, FieldsLemma, ConstantsLemma
    <3> QED BY <1>1, <1>3, <1>5, <3>1 DEF MutexOK
  <2>4. KeepsMutex(s, k, c, c)
    BY <1>3, <2>1, <2>2, <2>3 DEF KeepsMutex
  <2> QED BY <1>1, <2>4, MutexSame
<1>10. HeapOK(s, p, c, h)
  <2>1. \A u \in h : p[u] = "run" /\ s.stat[u] = "ready"
    BY <1>1, <1>5 DEF HeapOK
  <2>2. \A u \in Threads : Waits(s, c, u, "heap") => Waits(k, c, u, "heap")
    BY <1>5 DEF Waits
  <2>3. \A u \in Threads : Woken(s, c, u, "heap") /\ s.error[u] = "ok"
                             <=> Woken(k, c, u, "heap") /\ k.error[u] = "ok"
    BY <1>5 DEF Woken
  <2>4. HeapOK(k, p, c, h) /\ h \subseteq Threads /\ s.value["heap"] = k.value["heap"]
    BY <1>1, <1>3
  <2> QED BY ONLY <2>1, <2>2, <2>3, <2>4, HeapSame
<1>11. IdleOK(s, c, h, d, f)
  <2>1. d # Nobody => d \in Threads
    BY <1>1, ConstantsLemma
  <2>2. d # Nobody => s.stat[d] = "close"
    BY <1>1, <1>5, <2>1 DEF IdleOK
  <2> QED BY <1>1, <2>2 DEF IdleOK
<1>12. Typed(s, p, c, h, d, f)
  BY <1>1 DEF Typed
<1> QED BY <1>6, <1>7, <1>8, <1>9, <1>10, <1>11, <1>12 DEF Good, Ordered

CountedDown(k, now, v) == [k EXCEPT !.tick = now, !.remaining_tick = v]

LEMMA SetClock ==
  ASSUME NEW k \in Kernels, NEW now \in 0 .. TickMod - 1,
         NEW v \in [Threads -> 1 .. init_tick]
  PROVE  LET s == CountedDown(k, now, v) IN
         /\ Sliced(s, k) /\ s.tick = now
         /\ SameQueues(s, k) /\ s.current = k.current /\ s.late = k.late
<1> DEFINE s == CountedDown(k, now, v)
<1>1. s \in Kernels
  BY ZenonT(60) DEF Kernels, CountedDown
<1>2. /\ s.stat = k.stat /\ s.error = k.error /\ s.priority = k.priority
      /\ s.timers = k.timers /\ s.lock_nest = k.lock_nest /\ s.flag = k.flag
  BY DEF Kernels, CountedDown
<1>3. /\ s.value = k.value /\ s.owner = k.owner
      /\ s.original_priority = k.original_priority /\ s.hold = k.hold
      /\ s.tick = now /\ s.current = k.current /\ s.late = k.late
  BY DEF Kernels, CountedDown
<1>4. SameQueues(s, k)
  BY DEF Kernels, CountedDown, SameQueues
<1> QED BY <1>1, <1>2, <1>3, <1>4 DEF Sliced

(* The slice of t after a tick.                                            *)
LEMMA SliceLemma ==
  ASSUME NEW k \in Kernels, NEW t \in Threads
  PROVE  [k.remaining_tick EXCEPT ![t] = IF @ = 1 THEN init_tick ELSE @ - 1]
           \in [Threads -> 1 .. init_tick]
<1>1. k.remaining_tick \in [Threads -> 1 .. init_tick]
  BY FieldsLemma
<1>2. PICK r \in 1 .. init_tick : r = k.remaining_tick[t]
  BY <1>1
<1>3. (IF r = 1 THEN init_tick ELSE r - 1) \in 1 .. init_tick
  BY TicksAssumption
<1> QED BY <1>1, <1>2, <1>3

(* After a tick each timer has one tick less to go.                        *)
LEMMA CountedTimed ==
  ASSUME NEW k \in Kernels, NEW s, Timed(k, 1), s.timers = k.timers, s.stat = k.stat,
         s.tick = (k.tick + 1) % TickMod
  PROVE  s.tick \in 0 .. TickMod - 1 /\ Timed(s, 0)
<1>1. k.tick \in 0 .. TickMod - 1 /\ TickMod \in Nat \ {0} /\ k.timers \in Seq(Entries)
  BY FieldsLemma, TicksAssumption
<1>2. s.tick \in 0 .. TickMod - 1
  <2>1. PICK n \in Int : n = k.tick
    BY <1>1
  <2>2. TickMod \in Int /\ TickMod > 0
    BY <1>1
  <2>3. (n + 1) % TickMod \in 0 .. TickMod - 1
    BY <2>2
  <2> QED BY <2>1, <2>3
<1>3. Half \in Int
  BY <1>1 DEF Half
<1>4. ASSUME NEW i \in DOMAIN k.timers
      PROVE  /\ Left(s, i) = Left(k, i) - 1 /\ Left(k, i) \in 1 .. Half - 1
             /\ k.stat[k.timers[i].thread] = "suspend"
  <2>1. Left(k, i) \in 1 .. Half - 1 /\ k.stat[k.timers[i].thread] = "suspend"
    BY DEF Timed
  <2>2. k.timers[i] \in Entries
    BY <1>1
  <2>3. k.timers[i].at \in 0 .. TickMod - 1
    BY <2>2 DEF Entries
  <2>4. (k.timers[i].at - ((k.tick + 1) % TickMod)) % TickMod
          = ((k.timers[i].at - k.tick) % TickMod) - 1
    BY <1>1, <2>1, <2>3, TickedLemma DEF Left
  <2> QED BY <2>1, <2>4 DEF Left
<1>5. \A i \in DOMAIN s.timers : /\ Left(s, i) \in 0 .. Half - 1
                                 /\ s.stat[s.timers[i].thread] = "suspend"
  BY <1>3, <1>4
<1>6. \A i, j \in DOMAIN s.timers :
        i < j => /\ Left(s, i) <= Left(s, j)
                 /\ s.timers[i].thread # s.timers[j].thread
  <2>1. ASSUME NEW i \in DOMAIN k.timers, NEW j \in DOMAIN k.timers, i < j
        PROVE  Left(k, i) <= Left(k, j) /\ k.timers[i].thread # k.timers[j].thread
    BY <2>1 DEF Timed
  <2>2. ASSUME NEW i \in DOMAIN k.timers, NEW j \in DOMAIN k.timers, i < j
        PROVE  Left(s, i) <= Left(s, j)
    <3>1. PICK a \in Int : a = Left(k, i)
      BY <1>3, <1>4
    <3>2. PICK b \in Int : b = Left(k, j)
      BY <1>3, <1>4
    <3>3. a <= b /\ Left(s, i) = a - 1 /\ Left(s, j) = b - 1
      BY <1>4, <2>1, <2>2, <3>1, <3>2
    <3> QED BY <3>3
  <2> QED BY <2>1, <2>2
<1> QED BY <1>2, <1>5, <1>6 DEF Timed

LEMMA TickInv ==
  ASSUME IInv, Tick
  PROVE  IInv'
<1>1. PICK k : k = kernel
  OBVIOUS
<1>2. /\ k \in Kernels /\ Good(k, pc, call, inHeap, dead, frees)
      /\ Queued(k, call, dead) /\ Timed(k, 1)
      /\ CurrentOK(k, pc, call) /\ Highest(k, pc)
  BY <1>1 DEF IInv, Good, Typed, Ordered
<1>3. PICK t \in Threads : t = k.current
  BY <1>2, FieldsLemma
<1> DEFINE now == (k.tick + 1) % TickMod
           v   == [k.remaining_tick EXCEPT ![t] = IF @ = 1 THEN init_tick ELSE @ - 1]
           b   == CountedDown(k, now, v)
           r   == IF k.remaining_tick[t] = 1 /\ CanYield(b) THEN Schedule(Rotate(b)) ELSE b
<1>4. /\ pc' = pc /\ call' = call /\ inHeap' = inHeap /\ dead' = dead /\ frees' = frees
      /\ kernel' = TimerCheck(r)
  <2>1. kernel' = TickIncrease(k)
    BY <1>1 DEF Tick
  <2>2. TickIncrease(k) = TimerCheck(r)
    BY <1>2, <1>3 DEF TickIncrease, CountedDown, Kernels
  <2> QED BY <2>1, <2>2 DEF Tick, Client
<1>5. v \in [Threads -> 1 .. init_tick]
  BY <1>2, <1>3, SliceLemma
<1>6. now \in 0 .. TickMod - 1
  <2>1. PICK n \in Int : n = k.tick
    BY <1>2, FieldsLemma, TicksAssumption
  <2>2. TickMod \in Int /\ TickMod > 0
    BY TicksAssumption
  <2>3. (n + 1) % TickMod \in 0 .. TickMod - 1
    BY <2>2
  <2> QED BY <2>1, <2>3
<1>7. /\ Sliced(b, k) /\ b.tick = now
      /\ SameQueues(b, k) /\ b.current = k.current /\ b.late = k.late
  <2> HIDE DEF now, v
  <2> QED BY <1>2, <1>5, <1>6, SetClock
<1>8. /\ b \in Kernels /\ b.stat = k.stat /\ b.timers = k.timers /\ b.priority = k.priority
      /\ b.flag = k.flag /\ b.lock_nest = k.lock_nest
  BY <1>7 DEF Sliced
<1> HIDE DEF b
<1>9. Timed(b, 0)
  BY <1>2, <1>7, <1>8, CountedTimed
<1>10. Queued(b, call, dead)
  <2>1. /\ b.ready = k.ready /\ b.group = k.group
        /\ b.waiters = k.waiters /\ b.defunct = k.defunct
    BY <1>7 DEF SameQueues
  <2>2. Members(k, call, dead, {}) /\ Grouped(k)
    BY <1>2 DEF Queued
  <2>3. Members(b, call, dead, {})
    BY ONLY <1>8, <2>1, <2>2 DEF Members
  <2>4. Grouped(b)
    BY ONLY <2>1, <2>2 DEF Grouped
  <2> QED BY <2>3, <2>4 DEF Queued
<1>11. CurrentOK(b, pc, call) /\ Highest(b, pc)
  BY <1>2, <1>7, <1>8 DEF CurrentOK, Highest, SameQueues
<1>12. /\ r \in Kernels /\ Sliced(r, k) /\ Queued(r, call, dead) /\ Timed(r, 0)
       /\ CurrentOK(r, pc, call) /\ Highest(r, pc)
  <2>1. CASE ~ (k.remaining_tick[t] = 1 /\ CanYield(b))
    BY <1>7, <1>8, <1>9, <1>10, <1>11, <2>1
  <2>2. CASE k.remaining_tick[t] = 1 /\ CanYield(b)
    <3>1. b.stat[b.current] = "ready" /\ b.current \in Threads
      BY <1>8, <2>2, FieldsLemma DEF CanYield
    <3>2. PICK m : m = Rotate(b)
      OBVIOUS
    <3>3. Moved(m, b) /\ Queued(m, call, dead) /\ m.current = b.current /\ m.late = b.late
      BY <1>8, <1>10, <3>1, <3>2, RotateLemma
    <3>4. /\ m \in Kernels /\ SameRest(m, b) /\ m.stat = b.stat
          /\ m.priority = b.priority /\ m.timers = b.timers
      BY <3>3 DEF Moved
    <3>5. m.group # {}
      BY <3>1, <3>3, <3>4, ReadyGroup
    <3>6. r = Schedule(m)
      BY <2>2, <3>2
    <3>7. /\ r \in Kernels /\ SameRest(r, m) /\ SameQueues(r, m)
          /\ r.stat = m.stat /\ r.priority = m.priority /\ r.timers = m.timers
          /\ Queued(r, call, dead) /\ Scheduled(r, m)
      BY <3>3, <3>4, <3>5, <3>6, ScheduleLemma
    <3> HIDE DEF r
    <3>8. Sliced(r, k)
      BY <1>7, <3>4, <3>7 DEF Sliced, SameRest
    <3>9. Timed(r, 0)
      <4>1. r.timers = b.timers /\ r.stat = b.stat /\ r.tick = b.tick
        BY <3>4, <3>7 DEF SameRest
      <4> QED BY <1>9, <4>1, SameTimers
    <3>10. CurrentOK(r, pc, call) /\ Highest(r, pc)
      <4>1. CurrentOK(m, pc, call)
        BY <1>11, <3>3, <3>4 DEF CurrentOK, SameRest
      <4>2. r.lock_nest = m.lock_nest /\ m.lock_nest \in Nat
        BY <3>4, <3>7, FieldsLemma, BoundsAssumption DEF SameRest
      <4>3. r.stat[m.current] \in {m.stat[m.current], "ready"}
        BY <3>7
      <4> QED BY ONLY <3>7, <4>1, <4>2, <4>3, ScheduledLemma
    <3> QED BY <3>7, <3>8, <3>9, <3>10
  <2> QED BY <2>1, <2>2
<1> HIDE DEF r
<1>13. PICK s : s = TimerCheck(r)
  OBVIOUS
<1>14. s \in Kernels /\ Queued(s, call, dead) /\ Timed(s, 1) /\ TimedOut(s, r)
  BY <1>12, <1>13, TimerCheckLemma
<1>15. Good(s, pc, call, inHeap, dead, frees)
  BY ONLY <1>2, <1>12, <1>14, TimedOutGood
<1> QED BY <1>4, <1>13, <1>15 DEF IInv

(* The list of a finite set.                                               *)
LEMMA SetToSeqLemma ==
  ASSUME NEW S, IsFiniteSet(S)
  PROVE  SetToSeq(S) \in Seq(S) /\ Lists(SetToSeq(S), S)
<1>1. PICK n \in Nat : n = Cardinality(S)
  BY FS_CardinalityType
<1>2. ExistsBijection(1 .. n, S)
  BY <1>1, FS_CardinalityType
<1>3. PICK g : g \in Bijection(1 .. n, S)
  BY <1>2 DEF ExistsBijection
<1>4. g \in [1 .. n -> S] /\ IsInjective(g)
  BY <1>3 DEF Bijection, Injection
<1>5. PICK f : f = SetToSeq(S)
  OBVIOUS
<1>6. f \in [1 .. n -> S] /\ IsInjective(f)
  BY <1>1, <1>4, <1>5 DEF SetToSeq
<1>7. f \in Injection(1 .. n, S)
  BY <1>6 DEF Injection
<1>8. Cardinality(1 .. n) = n
  BY FS_Interval
<1>9. f \in Surjection(1 .. n, S)
  BY <1>1, <1>7, <1>8, FS_Injection
<1>10. Range(f) = S
  <2>1. DOMAIN f = 1 .. n /\ \A x \in 1 .. n : f[x] \in S
    BY <1>6
  <2>2. \A y \in S : \E x \in 1 .. n : f[x] = y
    BY <1>9 DEF Surjection
  <2> QED BY <2>1, <2>2 DEF Range
<1>11. f \in Seq(S)
  BY <1>6
<1> QED BY <1>5, <1>6, <1>10, <1>11 DEF Lists

LEMMA EmptyListLemma ==
  ASSUME NEW S, S = {}
  PROVE  Lists(<<>>, S)
<1>1. Range(<<>>) = {} /\ IsInjective(<<>>)
  BY DEF Range, IsInjective
<1> QED BY <1>1 DEF Lists

LEMMA InitInv ==
  ASSUME Init
  PROVE  IInv
<1> DEFINE up == Booted \union {Idle}
           on(x) == SetToSeq({t \in up : init_priority[t] = x})
           groups == {init_priority[t] : t \in up}
           list == [x \in Priorities |-> on(x)]
           first == Head(on(Min(groups)))
<1>1. /\ IsFiniteSet(up) /\ up \subseteq Threads /\ Idle \in up
      /\ \A t \in Threads \ up : t \in Workers \ Booted
  <2>1. IsFiniteSet(Booted) /\ IsFiniteSet({Idle})
    BY ThreadsAssumption, FS_Subset, FS_Singleton
  <2>2. IsFiniteSet(up)
    BY <2>1, FS_Union
  <2> QED BY <2>2, ThreadsAssumption DEF Threads
<1>2. ASSUME NEW x \in Priorities
      PROVE  /\ on(x) \in Seq(Threads)
             /\ Lists(on(x), {t \in up : init_priority[t] = x})
  <2>1. PICK S : S = {t \in up : init_priority[t] = x}
    OBVIOUS
  <2>2. IsFiniteSet(S) /\ S \subseteq Threads
    BY <1>1, <2>1, FS_Subset
  <2>3. SetToSeq(S) \in Seq(S) /\ Lists(SetToSeq(S), S)
    BY <2>2, SetToSeqLemma
  <2>4. SetToSeq(S) \in Seq(Threads)
    BY <2>2, <2>3
  <2> QED BY <2>1, <2>3, <2>4
<1>3. groups \subseteq Priorities /\ groups # {} /\ Priorities \subseteq Nat
  BY <1>1, ConstantsLemma DEF Priorities
<1>4. /\ list \in [Priorities -> Seq(Threads)]
      /\ \A x \in Priorities : Lists(list[x], {t \in up : init_priority[t] = x})
  <2> HIDE DEF on
  <2> QED BY <1>2
<1> HIDE DEF list
<1>5. groups = {x \in Priorities : list[x] # <<>>}
  <2>1. ASSUME NEW x \in Priorities
        PROVE  x \in groups <=> list[x] # <<>>
    <3>1. list[x] # <<>> <=> Range(list[x]) # {}
      BY <1>4, EmptyLemma
    <3>2. Range(list[x]) = {t \in up : init_priority[t] = x}
      BY <1>4 DEF Lists
    <3> QED BY <3>1, <3>2
  <2> HIDE DEF groups
  <2> QED BY <1>3, <2>1
<1>6. first \in Threads /\ first \in up /\ first = Head(list[Min(groups)])
  <2>1. PICK x : x = Min(groups) /\ x \in groups
    BY <1>3, MinLemma
  <2>2. x \in Priorities /\ list[x] # <<>> /\ list[x] \in Seq(Threads) /\ list[x] = on(x)
    BY <1>3, <1>4, <1>5, <2>1 DEF list
  <2>3. PICK r : r = list[x]
    OBVIOUS
  <2>4. r[1] \in Threads /\ Head(r) = r[1] /\ 1 \in DOMAIN r
    BY <2>2, <2>3, RestLemma
  <2>5. r[1] \in Range(r)
    BY <2>4 DEF Range
  <2>6. r[1] \in up
    BY <1>4, <2>2, <2>3, <2>5 DEF Lists
  <2> QED BY <2>1, <2>2, <2>3, <2>4, <2>6
<1> DEFINE stat == [t \in Threads |-> IF t \in up THEN "ready" ELSE "init"]
           value == [o \in Objects |-> IF o = "rx" THEN 0 ELSE 1]
<1>7. PICK flag \in {"FIFO", "PRIO"} :
        kernel = [stat |-> stat, priority |-> init_priority,
                  error |-> [t \in Threads |-> "ok"],
                  remaining_tick |-> [t \in Threads |-> init_tick],
                  ready |-> list, group |-> groups, current |-> first,
                  lock_nest |-> 0, tick |-> 0, timers |-> <<>>, defunct |-> <<>>,
                  waiters |-> [o \in Objects |-> <<>>], value |-> value,
                  flag |-> flag, owner |-> Nobody, original_priority |-> 255,
                  hold |-> 0, late |-> FALSE]
  BY DEF Init, list
<1>8. /\ pc = [t \in Threads |-> "run"] /\ call = [t \in Threads |-> "none"]
      /\ inHeap = {} /\ dead = Nobody /\ frees = 0
  BY DEF Init
<1>9. /\ stat \in [Threads -> {"init", "ready", "suspend", "close"}]
      /\ value \in [Objects -> Nat]
      /\ [t \in Threads |-> "ok"] \in [Threads -> {"ok", "timeout"}]
      /\ [t \in Threads |-> init_tick] \in [Threads -> 1 .. init_tick]
      /\ [o \in Objects |-> <<>>] \in [Objects -> Seq(Threads)]
  BY TicksAssumption
<1>10. /\ \A t \in Threads : stat[t] = IF t \in up THEN "ready" ELSE "init"
       /\ value["heap"] = 1 /\ value["mutex"] = 1
  BY DEF Objects
<1> HIDE DEF first, groups, stat, value, up
<1>11. /\ kernel.stat = stat /\ kernel.priority = init_priority
       /\ kernel.error = [t \in Threads |-> "ok"]
       /\ kernel.ready = list /\ kernel.group = groups /\ kernel.current = first
       /\ kernel.lock_nest = 0 /\ kernel.timers = <<>> /\ kernel.defunct = <<>>
       /\ kernel.waiters = [o \in Objects |-> <<>>] /\ kernel.value = value
       /\ kernel.owner = Nobody /\ kernel.hold = 0
  BY <1>7
<1>12. kernel \in Kernels
  <2>1. 0 \in 0 .. MaxNest /\ 0 \in 0 .. MaxHold /\ 0 \in 0 .. TickMod - 1
    BY BoundsAssumption, TicksAssumption
  <2>2. init_priority \in [Threads -> Priorities] /\ groups \subseteq Priorities
    BY <1>3, ConstantsLemma
  <2>3. first \in Threads /\ list \in [Priorities -> Seq(Threads)]
    BY <1>4, <1>6
  <2>4. <<>> \in Seq([thread : Threads, at : 0 .. TickMod - 1]) /\ <<>> \in Seq(Threads)
    OBVIOUS
  <2> QED BY <1>7, <1>9, <2>1, <2>2, <2>3, <2>4 DEF Kernels
<1>13. Typed(kernel, pc, call, inHeap, dead, frees)
  BY <1>8, <1>12 DEF Typed
<1>14. Members(kernel, call, dead, {})
  <2>1. ASSUME NEW x \in Priorities
        PROVE  Lists(kernel.ready[x],
                 {t \in Threads \ {} : kernel.stat[t] = "ready" /\ kernel.priority[t] = x})
    <3>1. {t \in Threads \ {} : kernel.stat[t] = "ready" /\ kernel.priority[t] = x}
            = {t \in up : init_priority[t] = x}
      BY <1>1, <1>10, <1>11
    <3> QED BY <1>4, <1>11, <3>1
  <2>2. ASSUME NEW o \in Objects
        PROVE  Lists(kernel.waiters[o],
                 {t \in Threads \ {} : kernel.stat[t] = "suspend" /\ call[t] = o})
    <3>1. {t \in Threads \ {} : kernel.stat[t] = "suspend" /\ call[t] = o} = {}
      BY <1>10, <1>11
    <3> QED BY <1>11, <3>1, EmptyListLemma
  <2>3. Lists(kernel.defunct,
              {t \in Threads \ {} : kernel.stat[t] = "close" /\ t # dead})
    <3>1. {t \in Threads \ {} : kernel.stat[t] = "close" /\ t # dead} = {}
      BY <1>10, <1>11
    <3> QED BY <1>11, <3>1, EmptyListLemma
  <2>4. Ascending(kernel.waiters["mutex"], kernel.priority)
    <3>1. kernel.waiters["mutex"] = <<>>
      BY <1>11 DEF Objects
    <3>2. DOMAIN <<>> = {}
      OBVIOUS
    <3> QED BY <3>1, <3>2 DEF Ascending
  <2> QED BY <2>1, <2>2, <2>3, <2>4 DEF Members
<1>15. Queued(kernel, call, dead)
  BY <1>5, <1>11, <1>14 DEF Queued, Grouped
<1>16. Timed(kernel, 1) /\ Sleepers(kernel, call)
  <2>1. DOMAIN kernel.timers = {}
    BY <1>11
  <2> QED BY <1>10, <1>11, <2>1 DEF Timed, Sleepers, Waits
<1>17. Staged(kernel, pc, call)
  BY <1>1, <1>8, <1>10, <1>11 DEF Staged, Stage
<1>18. CurrentOK(kernel, pc, call) /\ Highest(kernel, pc)
  BY <1>6, <1>8, <1>10, <1>11 DEF CurrentOK, Highest
<1>19. MutexOK(kernel, call)
  <2>1. \A t \in Threads : init_priority[t] <= init_priority[t]
    BY ThreadsAssumption
  <2> QED BY <1>8, <1>10, <1>11, <2>1 DEF MutexOK, Waits, Woken
<1>20. HeapOK(kernel, pc, call, inHeap)
  BY <1>8, <1>10, <1>11 DEF HeapOK, OneUnit, OnWay, Waits, Woken
<1>21. IdleOK(kernel, call, inHeap, dead, frees)
  BY <1>8, ConstantsLemma DEF IdleOK
<1> QED BY <1>13, <1>15, <1>16, <1>17, <1>18, <1>19, <1>20, <1>21 DEF IInv, Good, Ordered

LEMMA NextInv ==
  ASSUME IInv, [Next]_vars
  PROVE  IInv'
<1>1. CASE UNCHANGED vars
  BY <1>1 DEF vars, IInv
<1>2. ASSUME NEW t \in Threads,
             NEW time \in Times["mutex"], MutexTake(t, time) PROVE IInv'
  BY <1>2, MutexTakeInv
<1>3. ASSUME NEW t \in Threads, MutexRelease(t) PROVE IInv'
  BY <1>3, MutexReleaseInv
<1>4. ASSUME NEW t \in Threads, HeapTake(t) PROVE IInv'
  BY <1>4, HeapTakeInv
<1>5. ASSUME NEW t \in Threads, HeapRelease(t) PROVE IInv'
  BY <1>5, HeapReleaseInv
<1>6. ASSUME NEW t \in Threads,
             NEW time \in Times["rx"], RxTake(t, time) PROVE IInv'
  BY <1>6, RxTakeInv
<1>7. ASSUME NEW t \in Threads,
             NEW time \in Times["sleep"], Sleep(t, time) PROVE IInv'
  BY <1>7, SleepInv
<1>8. ASSUME NEW t \in Threads, Yield(t) PROVE IInv'
  BY <1>8, YieldInv
<1>9. ASSUME NEW t \in Threads, EnterCritical(t) PROVE IInv'
  BY <1>9, EnterCriticalInv
<1>10. ASSUME NEW t \in Threads, ExitCritical(t) PROVE IInv'
  BY <1>10, ExitCriticalInv
<1>11. ASSUME NEW t \in Threads,
              NEW n \in Workers \ Booted, Startup(t, n) PROVE IInv'
  BY <1>11, StartupInv
<1>12. ASSUME NEW t \in Threads, Exit(t) PROVE IInv'
  BY <1>12, ExitInv
<1>13. ASSUME NEW t \in Threads, DoSchedule(t) PROVE IInv'
  BY <1>13, DoScheduleInv
<1>14. ASSUME NEW t \in Threads, Return(t) PROVE IInv'
  BY <1>14, ReturnInv
<1>15. CASE IdleExecute
  BY <1>15, IdleExecuteInv
<1>16. CASE Tick
  BY <1>16, TickInv
<1>17. CASE RxRelease
  BY <1>17, RxReleaseInv
<1> QED
  BY ONLY [Next]_vars, <1>1, <1>2, <1>3, <1>4, <1>5, <1>6, <1>7, <1>8, <1>9, <1>10,
          <1>11, <1>12, <1>13, <1>14, <1>15, <1>16, <1>17 DEF Next

-----------------------------------------------------------------------------
(* Whatever calls the threads make and whenever the handlers run, the      *)
(* lists, the timers, the mutex and heap_sem fit the states of the threads *)
(* and the calls they are in.                                              *)
THEOREM KernelInvariant == Spec => []IInv
<1>1. Init => IInv
  BY InitInv
<1>2. IInv /\ [Next]_vars => IInv'
  BY NextInv
<1> QED BY <1>1, <1>2, PTL DEF Spec

(* No call of the kernel and no handler takes a field out of its type: the *)
(* lock nest, the holds of the mutex, the slices and the tick stay in      *)
(* their bounds.                                                           *)
THEOREM TypeCorrect == Spec => []TypeOK
<1>1. IInv => TypeOK
  BY DEF IInv, Good, Typed, TypeOK
<1> QED BY <1>1, KernelInvariant, PTL

(* The node of each thread is on exactly the list its state says, and the  *)
(* bits of rt_thread_ready_priority_group are those of the lists that are  *)
(* not empty.                                                              *)
THEOREM NodesOnTheirLists == Spec => []ListsAgree
<1>1. ASSUME IInv PROVE ListsAgree
  <2>1. Members(kernel, call, dead, {}) /\ Grouped(kernel)
    BY <1>1 DEF IInv, Good, Ordered, Queued
  <2>2. ASSUME NEW p \in Priorities
        PROVE  Lists(kernel.ready[p],
                 {t \in Threads : kernel.stat[t] = "ready" /\ kernel.priority[t] = p})
    <3>1. {t \in Threads \ {} : kernel.stat[t] = "ready" /\ kernel.priority[t] = p}
            = {t \in Threads : kernel.stat[t] = "ready" /\ kernel.priority[t] = p}
      OBVIOUS
    <3> QED BY <2>1, <3>1 DEF Members
  <2>3. ASSUME NEW o \in Objects
        PROVE  Lists(kernel.waiters[o],
                 {t \in Threads : kernel.stat[t] = "suspend" /\ call[t] = o})
    <3>1. {t \in Threads \ {} : kernel.stat[t] = "suspend" /\ call[t] = o}
            = {t \in Threads : kernel.stat[t] = "suspend" /\ call[t] = o}
      OBVIOUS
    <3> QED BY <2>1, <3>1 DEF Members
  <2>4. Lists(kernel.defunct, {t \in Threads : kernel.stat[t] = "close"} \ {dead})
    <3>1. {t \in Threads \ {} : kernel.stat[t] = "close" /\ t # dead}
            = {t \in Threads : kernel.stat[t] = "close"} \ {dead}
      OBVIOUS
    <3> QED BY <2>1, <3>1 DEF Members
  <2> QED BY <2>1, <2>2, <2>3, <2>4 DEF ListsAgree, Grouped
<1> QED BY <1>1, KernelInvariant, PTL

(* rt_schedule gives the processor to the first thread of the highest      *)
(* ready priority, and no call and no handler leaves it with another, but  *)
(* for the calls that are about to schedule.                               *)
THEOREM HighestRuns == Spec => []RunsHighest
<1>1. IInv => RunsHighest
  BY DEF IInv, Good, Ordered, Highest, RunsHighest
<1> QED BY <1>1, KernelInvariant, PTL

(* rt_schedule always finds a thread, also while the idle thread waits for *)
(* heap_sem to free a thread that exited.                                  *)
THEOREM GroupNeverEmpty == Spec => []SomeoneReady
<1>1. IInv => SomeoneReady
  BY ReadyLemma DEF IInv, SomeoneReady
<1> QED BY <1>1, KernelInvariant, PTL

(* A waiter of the mutex wakes as its owner exactly if its wait ended      *)
(* without an error, and a free mutex has no waiters and no holds.         *)
THEOREM WokenIsOwner == Spec => []WokenOwns
<1>1. ASSUME IInv PROVE WokenOwns
  <2>1. /\ MutexOK(kernel, call) /\ kernel \in Kernels /\ Queued(kernel, call, dead)
        /\ "mutex" \in Objects
    BY <1>1 DEF IInv, Good, Typed, Ordered, Objects
  <2>2. \A t \in Threads :
          call[t] = "mutex" /\ kernel.stat[t] = "ready" =>
            (kernel.error[t] = "ok" <=> kernel.owner = t)
    BY <2>1 DEF MutexOK, Woken
  <2>3. kernel.owner = Nobody <=> kernel.value["mutex"] = 1
    BY <2>1 DEF MutexOK
  <2>4. kernel.owner = Nobody => kernel.waiters["mutex"] = <<>> /\ kernel.hold = 0
    BY <2>1, WaitersLemma DEF MutexOK
  <2> QED BY <2>2, <2>3, <2>4 DEF WokenOwns
<1> QED BY <1>1, KernelInvariant, PTL

(* The one unit of heap_sem is neither lost nor doubled between            *)
(* rt_sem_release and the waiter it wakes: one thread at a time is in the  *)
(* heap.                                                                   *)
THEOREM OneInTheHeap == Spec => []HeapExclusive
<1>1. ASSUME IInv PROVE HeapExclusive
  <2> DEFINE woken == {t \in Threads : /\ call[t] = "heap" /\ kernel.error[t] = "ok"
                                       /\ kernel.stat[t] = "ready"}
  <2>1. woken = OnWay(kernel, call)
    BY DEF OnWay, Woken
  <2>2. OneUnit(kernel.value["heap"], inHeap, woken)
    BY <1>1, <2>1 DEF IInv, Good, HeapOK
  <2>3. Cardinality({}) = 0 /\ \A t \in Threads : Cardinality({t}) = 1
    BY FS_EmptySet, FS_Singleton
  <2> HIDE DEF woken
  <2>4. kernel.value["heap"] + Cardinality(inHeap) + Cardinality(woken) = 1
    <3>1. CASE kernel.value["heap"] = 1 /\ inHeap = {} /\ woken = {}
      BY <2>3, <3>1
    <3>2. CASE kernel.value["heap"] = 0 /\ woken = {} /\ \E t \in Threads : inHeap = {t}
      BY <2>3, <3>2
    <3>3. CASE kernel.value["heap"] = 0 /\ inHeap = {} /\ \E t \in Threads : woken = {t}
      BY <2>3, <3>3
    <3> QED BY <2>2, <3>1, <3>2, <3>3 DEF OneUnit
  <2> QED BY <2>4 DEF HeapExclusive, woken
<1> QED BY <1>1, KernelInvariant, PTL

(* A mutex of the kind PRIO lends its owner the priority of its highest    *)
(* waiter for as long as that thread waits.                                *)
THEOREM OwnerInherits == Spec => []InheritsPriority
<1>1. ASSUME IInv PROVE InheritsPriority
  <2>1. /\ MutexOK(kernel, call) /\ kernel \in Kernels /\ Queued(kernel, call, dead)
        /\ "mutex" \in Objects
    BY <1>1 DEF IInv, Good, Typed, Ordered, Objects
  <2>2. ToSet(kernel.waiters["mutex"]) = Range(kernel.waiters["mutex"])
    BY DEF ToSet, Range
  <2>3. Range(kernel.waiters["mutex"]) = {t \in Threads : Waits(kernel, call, t, "mutex")}
    BY <2>1, WaitersLemma
  <2> QED BY <2>1, <2>2, <2>3 DEF InheritsPriority, MutexOK
<1> QED BY <1>1, KernelInvariant, PTL

(* The priority that the owner of the mutex was lent is taken back with    *)
(* the mutex, whatever became of the thread that lent it.                  *)
THEOREM PriorityComesBack == Spec => []PriorityRestored
<1>1. IInv => PriorityRestored
  BY DEF IInv, Good, MutexOK, PriorityRestored
<1> QED BY <1>1, KernelInvariant, PTL

(* The list of timers stays in order of expiry across the wrap of rt_tick, *)
(* every timer that is due has fired before the tick handler returns, and  *)
(* rt_thread_timeout only ever meets a suspended thread.                   *)
THEOREM TimersFireOnTime == Spec => []TimersOnTime
<1>1. ASSUME IInv PROVE TimersOnTime
  <2>1. /\ kernel \in Kernels /\ Timed(kernel, 1) /\ Sleepers(kernel, call)
    BY <1>1 DEF IInv, Good, Typed, Ordered
  <2>2. kernel.timers \in Seq(Entries)
    BY <2>1, FieldsLemma
  <2>3. ASSUME NEW i \in DOMAIN kernel.timers
        PROVE  /\ (kernel.timers[i].at - kernel.tick) % TickMod \in 1 .. Half - 1
               /\ i > 1 => (kernel.timers[i - 1].at - kernel.tick) % TickMod
                             <= (kernel.timers[i].at - kernel.tick) % TickMod
               /\ kernel.stat[kernel.timers[i].thread] = "suspend"
    <3>1. Left(kernel, i) \in 1 .. Half - 1 /\ kernel.stat[kernel.timers[i].thread] = "suspend"
      BY <2>1 DEF Timed
    <3>2. ASSUME i > 1 PROVE Left(kernel, i - 1) <= Left(kernel, i)
      <4>1. i \in Nat /\ i - 1 \in DOMAIN kernel.timers /\ i - 1 < i
        BY <2>2, <3>2
      <4> QED BY <2>1, <4>1 DEF Timed
    <3> QED BY <3>1, <3>2 DEF Left
  <2>4. ASSUME NEW t \in Threads, kernel.stat[t] = "suspend" /\ call[t] = "sleep"
        PROVE  t \in {x.thread : x \in ToSet(kernel.timers)}
    <3>1. PICK i \in DOMAIN kernel.timers : kernel.timers[i].thread = t
      BY <2>1, <2>4 DEF Sleepers, Waits, HasTimer
    <3>2. kernel.timers[i] \in ToSet(kernel.timers)
      BY DEF ToSet
    <3> QED BY <3>1, <3>2
  <2> QED BY <2>3, <2>4 DEF TimersOnTime
<1> QED BY <1>1, KernelInvariant, PTL
=============================================================================
