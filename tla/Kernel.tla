------------------------------- MODULE Kernel -------------------------------
(***************************************************************************)
(* The scheduler, the thread timers, the semaphores and the mutex of the   *)
(* RT-Thread kernel (src/src/scheduler.c, thread.c, timer.c, clock.c,      *)
(* idle.c, ipc.c), run by a few threads and by two interrupt handlers: the *)
(* clock tick, and one that releases a semaphore.                          *)
(*                                                                         *)
(* The kernel's memory is one record, and each C function an operator from *)
(* kernel to kernel, so that an action is the composition the code makes.  *)
(* A call is cut where the code enables interrupts: the part of it up to   *)
(* rt_schedule is one step, rt_schedule another, and what the thread does  *)
(* when it runs again a third.  Handlers may run between any two steps.    *)
(*                                                                         *)
(* The threads are disciplined as those of the program are: a thread does  *)
(* not block inside a critical section, does not exit or wait for ever     *)
(* with the mutex, does not use the heap with it, and does nothing else    *)
(* between the rt_sem_take and the rt_sem_release of heap_sem inside       *)
(* rt_malloc and rt_free.                                                  *)
(***************************************************************************)
EXTENDS Integers, FiniteSets, FiniteSetsExt, SequencesExt

CONSTANTS Workers,       \* the threads other than the idle thread
          Idle,          \* the idle thread
          init_priority, \* thread->init_priority of each, 0 the highest
          Booted,        \* the workers the application starts at boot
          Nobody,        \* no thread: RT_NULL
          init_tick,     \* thread->init_tick: the time slice
          TickMod,       \* RT_TICK_MAX + 1
          Times,         \* the waiting times used in each kind of call
          Uses,          \* the calls each worker makes
          MaxHold,       \* bound on the nested takes of the mutex
          MaxNest,       \* bound on rt_scheduler_lock_nest
          MaxSem         \* bound on the value of the handler's semaphore

Threads    == Workers \union {Idle}
Priorities == {init_priority[t] : t \in Threads}
Objects    == {"mutex", "heap", "rx"}
Half       == (TickMod - 1) \div 2        \* RT_TICK_MAX / 2
Forever    == -1                          \* RT_WAITING_FOREVER

ASSUME ThreadsAssumption ==
       /\ IsFiniteSet(Workers) /\ Idle \notin Workers
       /\ Nobody \notin Threads
       /\ Booted \subseteq Workers
       /\ init_priority \in [Threads -> Nat]
       /\ \A t \in Workers : init_priority[t] < init_priority[Idle]

ASSUME BoundsAssumption ==
       MaxHold \in Nat \ {0} /\ MaxNest \in Nat /\ MaxSem \in Nat

(* RT_ASSERT(timer->init_tick < RT_TICK_MAX / 2) of rt_timer_start.        *)
ASSUME TicksAssumption ==
       /\ TickMod \in Nat \ {0} /\ init_tick \in Nat \ {0}
       /\ Times \in [{"mutex", "rx", "sleep"} ->
                       SUBSET (1 .. Half - 1 \union {Forever})]
       /\ Forever \notin Times["sleep"]

VARIABLES kernel,  \* the kernel's memory, a record
          pc,      \* where each thread is: in its own code, before
                   \* rt_schedule, or back from it
          call,    \* the call each thread is in
          inHeap,  \* the threads between the take and the release of heap_sem
          dead,    \* the thread whose memory the idle thread is freeing
          frees    \* how many blocks of it are not freed yet
vars == <<kernel, pc, call, inHeap, dead, frees>>

-----------------------------------------------------------------------------
(* The functions of the kernel.  A list of the code that threads are on is *)
(* a sequence; kernel.group is rt_thread_ready_priority_group.             *)

(* rt_list_remove(&thread->tlist): off whatever list it is on.             *)
Unlink(k, t) ==
  [k EXCEPT !.ready   = [p \in Priorities |-> RemoveFirst(@[p], t)],
            !.waiters = [o \in Objects |-> RemoveFirst(@[o], t)],
            !.defunct = RemoveFirst(@, t)]

(* rt_schedule.  The field late is history: a release has put the caller's *)
(* priority back and rt_schedule has not run since.                        *)
Schedule(k) ==
  IF k.lock_nest = 0
  THEN [k EXCEPT !.current = Head(k.ready[Min(k.group)]), !.late = FALSE]
  ELSE k

InsertThread(k, t) ==
  [k EXCEPT !.stat[t] = "ready",
            !.ready[k.priority[t]] = Append(@, t),
            !.group = @ \union {k.priority[t]}]

(* Mutant: the bit of an emptied list stays set.                           *)
RemoveThreadNoMask(k, t) == Unlink(k, t)

RemoveThread(k, t) ==
  LET off == Unlink(k, t)
      p   == k.priority[t]
  IN  [off EXCEPT !.group = IF off.ready[p] = <<>> THEN @ \ {p} ELSE @]

ChangePriority(k, t, p) ==
  IF k.stat[t] = "ready"
  THEN InsertThread([RemoveThread(k, t) EXCEPT !.priority[t] = p], t)
  ELSE [k EXCEPT !.priority[t] = p]

Suspend(k, t) ==
  IF k.stat[t] = "ready"
  THEN [RemoveThread(k, t) EXCEPT !.stat[t] = "suspend"]
  ELSE k

(* Mutant: the wrap of the clock is forgotten.                             *)
BeforeNoWrap(a, b) == a < b

(* a is before b on the clock, which wraps.                                *)
Before(a, b) == (b - a) % TickMod \in 1 .. Half - 1

(* Behind the timers due at the same tick, before those due later.         *)
TimerStart(k, t, time) ==
  LET at    == (k.tick + time) % TickMod
      later == SelectInSeq(k.timers, LAMBDA x : Before(at, x.at))
      i     == IF later = 0 THEN Len(k.timers) + 1 ELSE later
  IN  IF \E x \in ToSet(k.timers) : x.thread = t
      THEN k
      ELSE [k EXCEPT !.timers = InsertAt(@, i, [thread |-> t, at |-> at])]

TimerStop(k, t) ==
  [k EXCEPT !.timers = RemoveFirstMatch(@, LAMBDA x : x.thread = t)]

(* Mutant: the timer of a thread that is woken runs on.                    *)
ResumeKeepsTimer(k, t) ==
  IF k.stat[t] = "suspend" THEN InsertThread(Unlink(k, t), t) ELSE k

Resume(k, t) ==
  IF k.stat[t] = "suspend"
  THEN InsertThread(TimerStop(Unlink(k, t), t), t)
  ELSE k

(* rt_thread_timeout *)
Timeout(k, t) ==
  Schedule(InsertThread(Unlink([k EXCEPT !.error[t] = "timeout"], t), t))

(* The first timer, if it is due.                                          *)
Expire(k) ==
  IF k.timers # <<>> /\ (k.tick - Head(k.timers).at) % TickMod < Half
  THEN Timeout([k EXCEPT !.timers = Tail(@)], Head(k.timers).thread)
  ELSE k

(* The timers at the head of the list that are due, one after the other.   *)
TimerCheck(k) ==
  LET after[i \in 0 .. Len(k.timers)] ==
        IF i = 0 THEN k ELSE Expire(after[i - 1])
  IN  after[Len(k.timers)]

(* rt_thread_yield up to rt_schedule: to the end of the thread's own list. *)
CanYield(k) == /\ k.stat[k.current] = "ready"
               /\ Len(k.ready[k.priority[k.current]]) > 1

Rotate(k) ==
  LET t == k.current
  IN  [k EXCEPT !.ready[k.priority[t]] = Append(RemoveFirst(@, t), t)]

(* Mutant: the time slice is not reloaded.                                 *)
TickIncreaseNoReload(k) ==
  TimerCheck([k EXCEPT !.tick = (@ + 1) % TickMod,
                       !.remaining_tick[k.current] = @ - 1])

TickIncrease(k) ==
  LET t       == k.current
      counted == [k EXCEPT !.tick = (@ + 1) % TickMod,
                           !.remaining_tick[t] = IF @ = 1 THEN init_tick
                                                          ELSE @ - 1]
      sliced  == IF k.remaining_tick[t] = 1 /\ CanYield(counted)
                 THEN Schedule(Rotate(counted))
                 ELSE counted
  IN  TimerCheck(sliced)

(* rt_ipc_list_suspend *)
SuspendOn(k, t, o, flag) ==
  LET s     == Suspend(k, t)
      list  == s.waiters[o]
      lower == SelectInSeq(list, LAMBDA w : s.priority[t] < s.priority[w])
      i     == IF flag = "FIFO" \/ lower = 0 THEN Len(list) + 1 ELSE lower
  IN  [s EXCEPT !.waiters[o] = InsertAt(@, i, t)]

(* The waiting part of rt_sem_take and rt_mutex_take.                      *)
WaitOn(k, t, o, flag, time) ==
  LET s == SuspendOn(k, t, o, flag)
  IN  IF time > 0 THEN TimerStart(s, t, time) ELSE s

(* Mutant: a release that finds nobody waiting is lost.                    *)
SemGiveLost(k, s) ==
  IF k.waiters[s] # <<>> THEN Resume(k, Head(k.waiters[s])) ELSE k

(* Mutant: the unit handed to a waiter is also put into the semaphore.     *)
SemGiveTwice(k, s) ==
  LET more == [k EXCEPT !.value[s] = @ + 1]
  IN  IF k.waiters[s] # <<>> THEN Resume(more, Head(k.waiters[s])) ELSE more

(* rt_sem_release up to rt_schedule.                                       *)
SemGive(k, s) ==
  IF k.waiters[s] # <<>>
  THEN Resume(k, Head(k.waiters[s]))
  ELSE [k EXCEPT !.value[s] = @ + 1]

(* Mutant: the waiter's priority is compared the wrong way round.          *)
BoostedReversed(k, t) ==
  IF k.priority[t] > k.priority[k.owner]
  THEN ChangePriority(k, k.owner, k.priority[t])
  ELSE k

(* The wait of t raises the owner of the mutex to the priority of t.       *)
Boosted(k, t) ==
  IF k.priority[t] < k.priority[k.owner]
  THEN ChangePriority(k, k.owner, k.priority[t])
  ELSE k

(* Mutant: the owner keeps what it inherited.                              *)
RestoredNever(k) == k

(* The owner goes back to the priority it took the mutex with.             *)
Restored(k) ==
  IF k.original_priority # k.priority[k.owner]
  THEN [ChangePriority(k, k.owner, k.original_priority) EXCEPT !.late = TRUE]
  ELSE k

(* The mutex to its first waiter, the owner's hold having come to 0.       *)
HandOver(k) ==
  LET w == Head(k.waiters["mutex"])
  IN  Resume([k EXCEPT !.owner = w,
                       !.original_priority = k.priority[w],
                       !.hold = 1], w)

FreeMutex(k) ==
  [k EXCEPT !.value["mutex"] = @ + 1, !.owner = Nobody,
            !.original_priority = 255, !.hold = 0]

-----------------------------------------------------------------------------
(* The machine after startup: the booted workers and the idle thread are   *)
(* ready, rt_system_scheduler_start has switched to the highest.  The      *)
(* mutex may be of either kind.                                            *)
Init ==
  /\ \E flag \in {"FIFO", "PRIO"} :
       LET up    == Booted \union {Idle}
           on(p) == SetToSeq({t \in up : init_priority[t] = p})
       IN
       kernel = [stat |-> [t \in Threads |->
                                IF t \in up THEN "ready" ELSE "init"],
                    priority |-> init_priority,
                    error    |-> [t \in Threads |-> "ok"],
                    remaining_tick |-> [t \in Threads |-> init_tick],
                    ready    |-> [p \in Priorities |-> on(p)],
                    group    |-> {init_priority[t] : t \in up},
                    current  |-> Head(on(Min({init_priority[t] : t \in up}))),
                    lock_nest |-> 0,
                    tick     |-> 0,
                    timers   |-> <<>>,
                    defunct  |-> <<>>,
                    waiters  |-> [o \in Objects |-> <<>>],
                    value    |-> [o \in Objects |-> IF o = "rx" THEN 0 ELSE 1],
                    flag     |-> flag,
                    owner    |-> Nobody,
                    original_priority |-> 255,
                    hold     |-> 0,
                    late     |-> FALSE]
  /\ pc = [t \in Threads |-> "run"]
  /\ call = [t \in Threads |-> "none"]
  /\ inHeap = {}
  /\ dead = Nobody
  /\ frees = 0

(* The current thread is in its own code, where it may call the kernel.    *)
Running(t)  == kernel.current = t /\ pc[t] = "run"
Free(t)     == Running(t) /\ t \notin inHeap
MayBlock(t) == Free(t) /\ kernel.lock_nest = 0

(* The call c of t has come to its rt_schedule, or has none to make.       *)
ToSchedule(t, c) == pc' = [pc EXCEPT ![t] = "sched"]
                    /\ call' = [call EXCEPT ![t] = c]
Done == UNCHANGED <<pc, call>>
Client == <<inHeap, dead, frees>>

MutexTake(t, time) ==
  LET k == [kernel EXCEPT !.error[t] = "ok"] IN
  /\ Free(t) /\ t \in Workers /\ "mutex" \in Uses[t]
  /\ UNCHANGED Client
  /\ \/ /\ k.owner = t /\ k.hold < MaxHold
        /\ kernel' = [k EXCEPT !.hold = @ + 1]
        /\ Done
     \/ /\ k.owner # t /\ k.value["mutex"] > 0
        /\ kernel' = [k EXCEPT !.value["mutex"] = @ - 1, !.owner = t,
                               !.original_priority = k.priority[t],
                               !.hold = @ + 1]
        /\ Done
     \/ /\ k.owner # t /\ k.value["mutex"] = 0 /\ MayBlock(t)
        /\ kernel' = WaitOn(Boosted(k, t), t, "mutex", k.flag, time)
        /\ ToSchedule(t, "mutex")

MutexRelease(t) ==
  LET k == [kernel EXCEPT !.hold = @ - 1] IN
  /\ Free(t) /\ kernel.owner = t
  /\ UNCHANGED Client
  /\ \/ /\ k.hold > 0
        /\ kernel' = k
        /\ Done
     \/ /\ k.hold = 0 /\ k.waiters["mutex"] # <<>>
        /\ kernel' = HandOver(Restored(k))
        /\ ToSchedule(t, "none")
     \/ /\ k.hold = 0 /\ k.waiters["mutex"] = <<>>
        /\ kernel' = FreeMutex(Restored(k))
        /\ Done

SemTake(t, s, time) ==
  /\ MayBlock(t) /\ UNCHANGED <<dead, frees>>
  /\ \/ /\ kernel.value[s] > 0
        /\ kernel' = [kernel EXCEPT !.value[s] = @ - 1]
        /\ inHeap' = IF s = "heap" THEN inHeap \union {t} ELSE inHeap
        /\ Done
     \/ /\ kernel.value[s] = 0
        /\ kernel' = WaitOn([kernel EXCEPT !.error[t] = "ok"], t, s, "FIFO", time)
        /\ ToSchedule(t, s)
        /\ UNCHANGED inHeap

(* rt_malloc and rt_free take heap_sem for ever; the idle thread calls     *)
(* rt_free for the stack, then for the object, of a thread that exited.    *)
HeapTake(t) ==
  /\ IF t = Idle THEN frees > 0 ELSE "heap" \in Uses[t] /\ kernel.owner # t
  /\ SemTake(t, "heap", Forever)

HeapRelease(t) ==
  /\ Running(t) /\ t \in inHeap
  /\ inHeap' = inHeap \ {t}
  /\ IF t = Idle
     THEN /\ frees' = frees - 1
          /\ dead' = IF frees = 1 THEN Nobody ELSE dead
          /\ kernel' = LET k == SemGive(kernel, "heap")
                       IN  IF frees = 1 THEN [k EXCEPT !.stat[dead] = "init"]
                                        ELSE k
     ELSE /\ UNCHANGED <<dead, frees>>
          /\ kernel' = SemGive(kernel, "heap")
  /\ IF kernel.waiters["heap"] # <<>> THEN ToSchedule(t, "none") ELSE Done

RxTake(t, time) ==
  /\ t \in Workers /\ "rx" \in Uses[t] /\ (time = Forever => kernel.owner # t)
  /\ SemTake(t, "rx", time)

Sleep(t, time) ==
  /\ MayBlock(t) /\ t \in Workers /\ "sleep" \in Uses[t]
  /\ kernel' = TimerStart(Suspend(kernel, t), t, time)
  /\ ToSchedule(t, "sleep")
  /\ UNCHANGED Client

Yield(t) ==
  /\ Free(t) /\ CanYield(kernel)
  /\ kernel' = Rotate(kernel)
  /\ ToSchedule(t, "none")
  /\ UNCHANGED Client

EnterCritical(t) ==
  /\ Free(t) /\ t \in Workers /\ "critical" \in Uses[t] /\ kernel.lock_nest < MaxNest
  /\ kernel' = [kernel EXCEPT !.lock_nest = @ + 1]
  /\ Done /\ UNCHANGED Client

ExitCritical(t) ==
  /\ Free(t) /\ kernel.lock_nest > 0
  /\ kernel' = [kernel EXCEPT !.lock_nest = @ - 1]
  /\ IF kernel.lock_nest = 1 THEN ToSchedule(t, "none") ELSE Done
  /\ UNCHANGED Client

(* rt_thread_create, whose allocations are heap calls of its own, and      *)
(* rt_thread_startup, by thread t of thread n.                             *)
Startup(t, n) ==
  /\ Free(t) /\ t \in Workers
  /\ kernel.stat[n] = "init"
  /\ kernel' = Resume([kernel EXCEPT !.stat[n] = "suspend",
                                     !.priority[n] = init_priority[n],
                                     !.remaining_tick[n] = init_tick,
                                     !.error[n] = "ok"], n)
  /\ pc' = [pc EXCEPT ![t] = "sched", ![n] = "run"]
  /\ call' = [call EXCEPT ![t] = "none", ![n] = "none"]
  /\ UNCHANGED Client

(* The entry function of a created thread returns, to rt_thread_exit.      *)
Exit(t) ==
  /\ MayBlock(t) /\ t \in Workers \ Booted /\ kernel.owner # t
  /\ kernel' = LET k == TimerStop(RemoveThread(kernel, t), t)
               IN  [k EXCEPT !.stat[t] = "close", !.defunct = <<t>> \o @]
  /\ ToSchedule(t, "exit")
  /\ UNCHANGED Client

(* rt_thread_idle_excute takes a dead thread off rt_thread_defunct, and    *)
(* goes on to free its stack and its object.                               *)
IdleExecute ==
  /\ Free(Idle) /\ kernel.defunct # <<>> /\ frees = 0
  /\ dead' = Head(kernel.defunct) /\ frees' = 2
  /\ kernel' = [kernel EXCEPT !.defunct = Tail(@)]
  /\ UNCHANGED inHeap /\ Done

(* rt_schedule, as the last part of the call t is in.                      *)
DoSchedule(t) ==
  /\ kernel.current = t /\ pc[t] = "sched"
  /\ kernel' = Schedule(kernel)
  /\ pc' = [pc EXCEPT ![t] = IF call[t] = "none" THEN "run" ELSE "back"]
  /\ UNCHANGED <<call, Client>>

(* rt_schedule has returned to t: it runs again.                           *)
Return(t) ==
  /\ kernel.current = t /\ pc[t] = "back"
  /\ kernel' = [kernel EXCEPT !.error[t] = "ok"]
  /\ inHeap' = IF call[t] = "heap" /\ kernel.error[t] = "ok"
               THEN inHeap \union {t} ELSE inHeap
  /\ pc' = [pc EXCEPT ![t] = "run"]
  /\ call' = [call EXCEPT ![t] = "none"]
  /\ UNCHANGED <<dead, frees>>

(* SysTick_Handler *)
Tick ==
  /\ kernel' = TickIncrease(kernel)
  /\ UNCHANGED <<pc, call, Client>>

(* Mutant: the handler does not call rt_schedule.                          *)
RxReleaseNoSchedule ==
  /\ kernel.value["rx"] < MaxSem
  /\ kernel' = SemGive(kernel, "rx")
  /\ UNCHANGED <<pc, call, Client>>

(* An interrupt handler releases its semaphore, and the handler's own      *)
(* rt_schedule runs before any thread does.                                *)
RxRelease ==
  /\ kernel.value["rx"] < MaxSem
  /\ kernel' = IF kernel.waiters["rx"] # <<>>
               THEN Schedule(SemGive(kernel, "rx"))
               ELSE SemGive(kernel, "rx")
  /\ UNCHANGED <<pc, call, Client>>

Next ==
  \/ \E t \in Threads :
        \/ \E time \in Times["mutex"] : MutexTake(t, time)
        \/ MutexRelease(t)
        \/ HeapTake(t) \/ HeapRelease(t)
        \/ \E time \in Times["rx"] : RxTake(t, time)
        \/ \E time \in Times["sleep"] : Sleep(t, time)
        \/ Yield(t) \/ EnterCritical(t) \/ ExitCritical(t)
        \/ \E n \in Workers \ Booted : Startup(t, n)
        \/ Exit(t)
        \/ DoSchedule(t) \/ Return(t)
  \/ IdleExecute
  \/ Tick \/ RxRelease

Spec == Init /\ [][Next]_vars

(* The clock ticks; the kernel's own code comes to its end; a critical     *)
(* section ends; the owner of the mutex, if it gets the processor again    *)
(* and again, in the end gives the mutex back.  No thread ever has to      *)
(* block or to yield.  These are WF(Tick), WF(DoSchedule or Return),       *)
(* WF(ExitCritical) and SF(the last MutexRelease), written with what the   *)
(* action changes instead of ENABLED.                                      *)
FairSpec ==
  /\ Spec
  /\ []<><<kernel'.tick # kernel.tick>>_vars
  /\ []<>(pc[kernel.current] = "run")
  /\ []<>(kernel.lock_nest = 0)
  /\ \/ <>[](kernel.owner = Nobody \/ ~Running(kernel.owner))
     \/ []<><<kernel'.owner # kernel.owner>>_vars

-----------------------------------------------------------------------------
Kernels ==
  [stat      : [Threads -> {"init", "ready", "suspend", "close"}],
   priority  : [Threads -> Priorities],
   error     : [Threads -> {"ok", "timeout"}],
   remaining_tick : [Threads -> 1 .. init_tick],
   ready     : [Priorities -> Seq(Threads)],
   group     : SUBSET Priorities,
   current   : Threads,
   lock_nest : 0 .. MaxNest,
   tick      : 0 .. TickMod - 1,
   timers    : Seq([thread : Threads, at : 0 .. TickMod - 1]),
   defunct   : Seq(Threads),
   waiters   : [Objects -> Seq(Threads)],
   value     : [Objects -> Nat],
   flag      : {"FIFO", "PRIO"},
   owner     : Workers \union {Nobody},
   original_priority : Priorities \union {255},
   hold      : 0 .. MaxHold,
   late      : BOOLEAN]

(* Type correctness: every field of the kernel, and where the threads are. *)
TypeOK ==
  /\ kernel \in Kernels
  /\ pc \in [Threads -> {"run", "sched", "back"}]
  /\ call \in [Threads -> Objects \union {"none", "sleep", "exit"}]
  /\ inHeap \subseteq Threads
  /\ dead \in Workers \union {Nobody}
  /\ frees \in 0 .. 2

(* A list has each thread of S once, and no other.                         *)
Lists(list, S) == Range(list) = S /\ IsInjective(list)

(* The one list node of a thread is on the list its state says: the ready  *)
(* list of its priority, the list of the object its call waits for, or the *)
(* list of dead threads; and a bit of rt_thread_ready_priority_group is    *)
(* set exactly when its list has a thread, which is what rt_schedule       *)
(* trusts when it takes the head of that list.                             *)
ListsAgree ==
  /\ kernel.group = {p \in Priorities : kernel.ready[p] # <<>>}
  /\ \A p \in Priorities :
       Lists(kernel.ready[p],
             {t \in Threads : kernel.stat[t] = "ready" /\ kernel.priority[t] = p})
  /\ \A o \in Objects :
       Lists(kernel.waiters[o],
             {t \in Threads : kernel.stat[t] = "suspend" /\ call[t] = o})
  /\ Lists(kernel.defunct, {t \in Threads : kernel.stat[t] = "close"} \ {dead})

(* The processor belongs to the first thread of the highest ready          *)
(* priority, whenever the current thread is not about to call rt_schedule  *)
(* and the scheduler is not locked.  One case is left out: rt_mutex_release *)
(* may put its caller's priority back without a call of rt_schedule.       *)
RunsHighest ==
  \/ kernel.lock_nest > 0
  \/ pc[kernel.current] = "sched"
  \/ kernel.late
  \/ kernel.current = Head(kernel.ready[Min(kernel.group)])

(* There is always a ready thread, though the idle thread itself may wait  *)
(* for heap_sem when it frees a dead thread: rt_schedule never finds an    *)
(* empty group, for which __rt_ffs(0) - 1 would index the table at -1.     *)
SomeoneReady == kernel.group # {}

(* A thread that comes out of its wait for the mutex without an error is   *)
(* its owner, and with a timeout is not, whatever the order in which the   *)
(* release, its own timer and its way to rt_schedule came; the mutex is    *)
(* never free while a thread waits for it.                                 *)
WokenOwns ==
  /\ \A t \in Threads :
       call[t] = "mutex" /\ kernel.stat[t] = "ready" =>
         (kernel.error[t] = "ok" <=> kernel.owner = t)
  /\ kernel.owner = Nobody <=> kernel.value["mutex"] = 1
  /\ kernel.owner = Nobody => kernel.waiters["mutex"] = <<>> /\ kernel.hold = 0

(* heap_sem lets one thread at a time into the heap, and is handed over    *)
(* without being lost: its one unit is in the semaphore, with the thread   *)
(* in the heap, or with a thread that was woken with it.                   *)
HeapExclusive ==
  LET woken == {t \in Threads : /\ call[t] = "heap" /\ kernel.error[t] = "ok"
                                /\ kernel.stat[t] = "ready"}
  IN  kernel.value["heap"] + Cardinality(inHeap) + Cardinality(woken) = 1

(* The owner of a mutex made with RT_IPC_FLAG_PRIO runs at a priority no   *)
(* lower than that of any thread that waits for it.                        *)
InheritsPriority ==
  kernel.flag = "PRIO" =>
    \A t \in ToSet(kernel.waiters["mutex"]) :
      kernel.priority[kernel.owner] <= kernel.priority[t]

(* Only the owner of the mutex may run at another priority than its own,   *)
(* and a higher one: an inherited priority is given back, also when the    *)
(* waiter it came from has given up.                                       *)
PriorityRestored ==
  \A t \in Threads :
    /\ kernel.priority[t] <= init_priority[t]
    /\ kernel.priority[t] # init_priority[t] => kernel.owner = t

(* Between two ticks no timer is overdue and none is further than the      *)
(* longest wait, also across the wrap of rt_tick; the list is in order of  *)
(* expiry; a timer runs only for a suspended thread, as the assertion in   *)
(* rt_thread_timeout wants, and a sleeping thread has one.                 *)
TimersOnTime ==
  LET timers   == kernel.timers
      left(x)  == (x.at - kernel.tick) % TickMod
      running  == {x.thread : x \in ToSet(timers)}
  IN
  /\ \A i \in DOMAIN timers :
       /\ left(timers[i]) \in 1 .. Half - 1
       /\ i > 1 => left(timers[i - 1]) <= left(timers[i])
       /\ kernel.stat[timers[i].thread] = "suspend"
  /\ \A t \in Threads :
       kernel.stat[t] = "suspend" /\ call[t] = "sleep" => t \in running

(* A thread of the highest priority that waits for the mutex without a     *)
(* timeout gets it, even if a thread of a priority between its own and the *)
(* owner's never lets go of the processor: what inheritance is for.        *)
WaiterGetsMutex ==
  \A t \in {u \in Workers : \A v \in Threads \ {u} :
              init_priority[u] < init_priority[v]} :
    /\ kernel.flag = "PRIO"
    /\ t \in ToSet(kernel.waiters["mutex"])
    /\ \A x \in ToSet(kernel.timers) : x.thread # t
    ~> kernel.owner = t
=============================================================================
