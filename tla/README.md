# cashware: a verification development

cashware is the firmware of a keyboard made of two microcontrollers. The
*slave* (`src/slave2`, an STM32F103) scans the key matrix and is the USB
keyboard and USB disk that the host sees. The *master* (an STM32F407 with the
RT-Thread kernel: `src/src`, `src/MDK`, `src/applications`, `src/APP`,
`src/drivers`) decides what each key does: remapped keys, hotkeys, typed
strings, Lua scripts. Every key report travels slave → master → slave → host
over a serial line; the files the master reads (its configuration, scripts)
lie on a flash chip of the slave, and every sector travels over the same line.

What a user expects of it: what is pressed and released arrives at the host,
nothing stays pressed, nothing is typed that was not meant, and the keyboard
does not die. The modules here state and check that, piece by piece, as
properties of what the code does.

## 1. The parts of the system

| part | state it keeps | operations | who talks to it |
|---|---|---|---|
| message queue (`src/src/ipc.c`) | slots of a pool, free list, linked list, counter, wait list | `rt_mq_send`, `urgent`, `recv`, `control` | every thread and the USART interrupt |
| mailbox, mutex, semaphore, event (`ipc.c`) | ring of words; value, hold, owner, original priority; bit set | send, receive, take, release | downlink, password thread, heap |
| scheduler, threads, timers (`scheduler.c`, `thread.c`, `timer.c`, `clock.c`, `idle.c`) | ready table and its bitmap, scheduler lock; thread states, priorities, slices; sorted timer list; defunct threads | `rt_schedule`, suspend, resume, yield, sleep, startup, exit, tick, clean-up by the idle thread | the kernel itself, the tick handler |
| heap (`mem.c`) | chain of used and free blocks, lowest free | `rt_malloc`, `rt_free` | downlink, thread creation |
| downlink (`MDK/commu.c`) | a struct per call, a mailbox, a mutex per call | `common_commu_send`, thread `commu_send` | key_sm, disk reads |
| uplink (`MDK/commu.c`, `slave2/USER/commu_mcu.c`) | the receiver's state, count, length and buffer; two queues | `commu_send` (slave), `commu_recv_handle`, thread `commu` | USART interrupt, slave main loop and interrupt |
| slave main loop (`slave2/USER/test.c`, `keyboard.c`, `hw_config.c`) | matrix image, last report, `keyboard_flag`, `buf_key`, `EP1BUSY`, packet memory | `keyboard_scan`, `keyborad_process`, `Joystick_Send` | USART and USB interrupts, host |
| hotkeys (`APP/app_interface.c`, `pwd.c`) | `hotkey_flag`, `hotkey_value`, `buf_out`, `mb_app`, list of hotkeys | `key_handle`, `press_string`, `pwd_start`, `reset_system` | threads app, key_sm, password thread, Lua |
| Lua glue (`APP/lua_app.c`) | the Lua state, `lua_flag` | bindings, the Lua thread | app (`mq_lua`), `press_string_pure` |
| configuration (`key_remap.c`, `ahk_analyser.c`, `inifile.c`) | key change table, list of hotkeys | parsing at start-up | hotkeys |
| slave mass storage (`slave2/USB/CONFIG`, `W25Q16.C`) | CBW and CSW, `Bot_State`, `TransferState`, static offsets, lengths and counts, one block buffer shared by READ and WRITE, the state of two endpoints | SCSI commands packet by packet, stalls, resets | host; SPI flash, which the USART interrupt reads for the master |
| drivers, display, speech, USB host stack, FatFs, Lua, finsh, peripheral libraries | | | vendored, or input and output only |

Hard behaviour: threads of different priorities preempting each other inside
kernel calls; interrupt handlers that send to queues and that overwrite
buffers a loop is reading; bounded queues whose overflow is ignored; pointers
to stack buffers that cross threads; a release of a key that must not be lost;
flags that are cleared before or after the work they announce; a serial
protocol without checksums or escapes; a hotkey protocol that spans several
reports; a reset of one of the two processors.

`PROJECT.json` lists every component with its status, and the hazards at their
lines with the properties that watch them.

## 2. Modules

Each module models one part; the lines behind each definition are in `map`.

**MessageQueue** (abstract: **BoundedQueue**). The queue of the kernel, cut at
every place where the code enables interrupts: a send is TakeFree, CopyIn,
Link; a receive is Unlink, CopyOut, GiveBack, or Suspend and, woken up, Retry;
Expire is the thread timer, Reset is `rt_mq_control`. Threads are preempted at
any cut, a handler runs without being preempted by threads (`Runs`). The pool is
a set of slots. `ImplementsQueue` says that all this is a bounded queue of
messages (`BoundedQueue`: a message appears at an end in one step, and leaves
from the head in one step), with `contents` mapped to the contents of the
linked slots and `taken` to the message in the receiver's hands; a receiver
whose slot were reused before its copy was done would break it.

**CommuSend**. How the master sends a frame: a client fills a heap struct with
the address of its own buffer, posts it, takes a mutex *meant* to make it
wait, frees struct and mutex, and returns; the thread `commu_send`, of lower
priority, reads them afterwards. One action per kernel call, heap blocks that
keep their contents when they are freed, and a payload that crosses in two
parts. While the program starts up the client is the thread that reads the
disk, a number of sectors at a time; after that it is key_sm. Other threads use
the same heap: app, which runs before `commu_send` does, when `pwd_start`
(`pwd.c:34`-39) creates a mailbox and a thread (`AppAllocates`); the password
thread, Lua and the idle thread when `commu_send` waits too (`UseHeapBelow`).
`others` remembers that this happened with a frame on its way. A block of theirs
is no struct: `commu_send` then reads a garbage length, buffer and mutex, sends
garbage, and may not come back (`GetsLost`).

**FrameReceiver**, **Uplink**. The byte-by-byte receiver that master and slave
share, with the capped index and the two cells behind the buffer; and the path
from the slave's two senders (main loop, interrupt handler) over the wire, the
receiver and `mq_commu_recv` to the thread that hands reports and sectors over.

**SlaveLoop**. The slave's main loop step by step: scan row by row, report to
the master, rounds of polling `keyboard_flag`, the wait for EP1BUSY,
`Joystick_Send` with its read and write of byte 0 and the copy into packet
memory in three parts. Interrupts (a report from the master, the host taking a
report, a reset of the USB bus) happen between any two steps. `BusReset` is what
`Joystick_Reset` does to the two endpoints; `cut` remembers that a reset took a
report away which waited for the host.

**HotKeys**. `key_handle` as a whole, with the four kinds of actions a hotkey
has (type a string, start the password thread, post a message, reset), the
forwarding through `mq_key_sm`, and the password thread against it. The
thread app finishes a report before the password thread, of lower priority,
runs on; key_sm, of higher priority, may run between any two sends.

**Kernel**. What blocks and wakes the threads: the ready table with the bitmap
that says which lists are empty, the scheduler lock, the list of thread timers
on a clock that wraps, round-robin slices, a mutex with priority inheritance
(of either kind, FIFO or PRIO), a semaphore that a handler releases
(`finsh_rx_ind`) and the semaphore of the heap; creation and exit of a thread,
and the idle thread that frees it. The functions of the kernel are operators
from the kernel's state (one record, `kernel`) to its next one, named as in C, and an
action is what a thread runs with interrupts off: a call up to its
`rt_schedule`, `DoSchedule`, and `Return` with what the woken thread does next.
Ticks and the handler come between any two. Left out: `thread->error` outside
of a call; mutexes held two at a time (the program nests none); slices longer
than `init_tick` ticks. The PRIO mutex is the kernel's, the FIFO one what
`commu.c:179` creates. A FIFO mutex does not raise its new owner to the
priority of those who still wait, so `InheritsPriority` and `WaiterGetsMutex`
are about PRIO. `late` marks the one place where the kernel lets a thread run
that is not the highest: `rt_mutex_release` gives a boosted priority back and,
with nobody left waiting, returns without `rt_schedule`. It takes a waiter that
timed out; the program always waits for ever.

**MassStorage**. The USB disk: the handlers of the two bulk endpoints and the
functions they call, as operators from the device's memory to its next state;
the host as a client that keeps to the bulk-only protocol (command, data,
status, clearing of stalls); the flash as one cell per packet of 64 bytes. A
handler that works on the flash takes two steps, and the USART interrupt, of
priority 0 against 1 (`hw_config.c:88`), may use the chip in between: the bytes
read, or any cells of the chip, are then `Garbage`. A page program whose address
bytes are interrupted goes to another page. `PowerLoss` in the middle of a rewrite loses
any part of the erase sector, and the host forgets (`Unknown`) what a broken
WRITE has done. `Settled` drops values that are overwritten before they are
read. Lengths wrap at `LenMod`; offsets wrap at the size of the disk (the chip
has 96 blocks more, reached only after a broken transfer).

**MessageQueueProofs**, **CommuSendProofs**, **UplinkProofs**,
**SlaveLoopProofs**, **HotKeysProofs**, **KernelProofs** and
**MassStorageProofs** hold the theorems of the module in their name, over facts on sequences and least numbers
from **SeqLemmas**; the **MC...** modules and the .cfg files hold the small instances.

The modules meet at their interfaces: CommuSend and Uplink carry the reports
that HotKeys consumes and produces, SlaveLoop's `ReportArrives` is the last
byte of CommuSend's frame, and its `SendChange` is Uplink's `SendKeys`.

## 3. What the runs check

| run | bounds | shows |
|---|---|---|
| `message_queue` | 2 threads, 1 handler, 2 slots, 2 messages | `SlotsConserved`: a slot is in one place. `NoLostWakeup`: while a thread sleeps every queued message has a thread woken for it. `ImplementsQueue`: refinement. `MessageReachesWaiter`: liveness |
| `commu_send` | 2 reports, 3 sectors, reads of 1 and 2 sectors, mailbox of 2, 3 blocks | `ReadsAskedSector`: a read gets the first sector it asked for. `LastReportWins`, `ReportReachesWire`: the wire ends with the last report, in spite of freed structs, overwritten buffers and dropped posts, unless another thread uses the heap with a frame on its way |
| `uplink` | bytes of two bits, data of 2 and 4 bytes, buffer of 7, queue of 1, one cut | `UncutPackagesAreFrames`, `HandedIsSent`: framing is exact, with head bytes inside the data too. `Resync`: the receiver recovers from a cut |
| `slave_loop` | 2 rows of a key each, 1 of them a modifier, a report of one key being full, 8 reports | `PendingIsStable`; `LastReportWins` as long as reports have no modifiers; `ReportReachesHost`, `MatrixIsReported` if moreover no reset of the bus takes a waiting report away |
| `kernel` | 3 threads and idle, 3 objects, clock of 8 ticks, slices of 1 tick | `ListsAgree`: bitmap, ready lists, thread states, wait lists and timers tell the same. `RunsHighest`; `SomeoneReady`: `rt_schedule` always finds a thread. `WokenOwns`: a wait ends as owner or with an error. `HeapExclusive`. `InheritsPriority`, `PriorityRestored`. `TimersOnTime`: due when they should, across the wrap. `WaiterGetsMutex`: liveness |
| `mass_storage` | 2 blocks of 2 packets in one sector, commands of 1 and 2 blocks, 2 contents, one disturbance, reset or power loss | `DiskIsWhatHostWrote`, `ReadsAreRight`: cells hold, and reads deliver, what was last reported written, except where a disturbance shows. `OneAnswer`: a true status for each command. `CommandsEnd`: liveness |
| `hotkeys` | 2 modifiers (swapped by the key change table), 2 keys, 4 hotkeys, queue of 1 | `NothingStuck`, `ReleasedMeansReset`, `HotKeysAreHidden`, `HotKeyFires`, `OnePassword`, `KeysAreReleased` |

Why these bounds are enough to meet the interesting cases: two threads and a
handler are a sender, a receiver and an overtaker; two slots are a full pool
and one reused while the other is copied. A mailbox of two overflows when a third
report comes, three sectors tell an answer that is one or two requests late. Of
three blocks other threads hold at most one, which is enough to get the one that
a queued struct has left.
Bytes of two bits let every byte of a frame be a head byte, data of four bytes
makes both length bytes matter, and a queue of one drops packages. One row per
key lets a scan see two moments; a report full with one key covers `goto end`.
A queue of one report loses reports of a typed string. Three threads of different priorities and one mutex are what priority
inversion needs; the middle one also exits, so the idle thread frees memory beside
the highest; waits of 1 and 2 ticks on a clock of 8 keep the order of timers and
their wrap apart. Commands of two blocks cross from block to block, and one
from block 1 passes the end of the disk; after the one trouble further commands
follow, which meet what it left. PollRounds (1) is the
smallest number of rounds between two scans; the theorems are for any.

Five more runs show where the code differs from its comments:

- `commu_send_mutex`: the sender releases a mutex it does not own, against
  `ipc.c:795`. So the client never waits and frees the struct too early. The
  run `commu_send` shows when this goes unnoticed: the calls of the clients
  alone get the same blocks again in the same order and write the same fields,
  and the newest report is what the buffer has. It does not when app starts a
  password thread while a freed struct is queued: the report of Ctrl+Alt, say,
  that precedes the hotkey's. `LastReportWins` and `ReportReachesWire` say so by
  their condition `~others`, and TLC violates both without it.
- `uplink_preempted`: a reply sent inside the slave's interrupt handler cuts
  into a report, against the package format of `commu.c:254`.
- `slave_loop_mouse`: byte 0 of `buf_key`, which says keyboard or mouse, is
  overwritten with the modifiers. A report that arrives between the clearing of
  `keyboard_flag` and `Joystick_Send` is processed twice, the second time as
  the mouse's, and EP1BUSY stays set: the keyboard is dead from the next
  report on.
  That is the condition on modifiers in `slave_loop`. It needs another: when the bus is reset with a
  report waiting for the host, endpoint 1 goes to NAK (`usb_prop.c:179`) and
  EP1BUSY stays set, which only `EP1_IN_Callback` clears (`usb_istr.c:171`-174).
  The loop then waits at `usb_process.c:20` for ever from the next report on, and
  scans the matrix no more. `ReportReachesHost` and `MatrixIsReported` exclude
  this by `NoReportCut`, and TLC violates both without it; the safety properties
  hold over any resets.
- `mass_storage_reset`: the resets of the USB disk set `Bot_State`
  (`usb_prop.c:230`: "set the Bot state machine to the IDLE state") but not
  `TransferState` and the counts behind it. After a reset in the middle of a READ,
  the next WRITE goes on with the offset of an earlier one - 0 after power-up,
  the first block of the file system. `mass_storage` holds with resets between
  transfers only (`AnyReset` is FALSE). The class request works only for a host
  that names interface 0 (`usb_prop.c:349`); the disk is interface 2
  (`usb_desc.c:150`), and a host that names that is refused, which changes
  nothing, and goes on to reset the bus. The finding stands through
  `Joystick_Reset` alone. The run may stop (no deadlock check): a class
  request does not enable ENDP4 again when it finds it busy.
- `hotkeys_pwd`: a key handled between `rt_mb_delete` and `mb_app=0` is sent to
  a deleted mailbox.

The comment at `commu.c:255` names the head MASTER_RECV ('S') for the packages the
master receives, while its code waits for MASTER_SEND ('R'), which is what the
slave sends; the models follow the code.

### Fairness

MessageQueue: the steps inside a call are weakly fair (the kernel runs ready
threads, a handler runs to its end); that calls are made is not assumed.
CommuSend: weak fairness of the clients' steps, the delay and the disk read,
strong fairness of the sender, which runs whenever the clients are blocked; key
reports are rare beside the bytes of the wire. Uplink: the wire transmits. SlaveLoop: the
main loop runs between interrupts, and the host polls endpoint 1, as USB
requires of it every 10 ms, and again once it has configured the device after a
reset; a host that stays suspended is not modelled. HotKeys: app and key_sm run. Kernel: ticks
come, threads return to their own code and leave critical sections, and whoever
owns the mutex releases it if it goes on running; written as []<> of what the
steps change, which TLC evaluates much faster than ENABLED. MassStorage: pending interrupts
are served, and a host that has begun a command goes on with it. Users, scripts and
new reports are never assumed fair.

### Deadlock

All runs but `mass_storage_reset` check deadlock: none of these parts ever has
nothing left to do.

## 4. What is proved

With TLAPS, for all values of the constants under the named assumptions. Every
theorem about a safety property has the same form: an inductive invariant
holds initially (`InitInv`), each action preserves it (a lemma per action),
and it implies the property. The invariants were checked by TLC before they
were proved. What each needs beyond the property is the argument why the code is right:

- `MessageQueueProofs`: `TypeCorrect`, `SlotsAreConserved`, `WakeupsAreKept`
  (from `PoolAssumption`, `CallersAssumption`: finitely many slots and threads).
  The inductive invariant `IInv` joins the type invariant and the two
  properties with `EntryCounts` (the counter is the number of linked slots) and
  `WaitersWait` (who is on the wait list is inside its call, once, with no
  error). Neither property is inductive without them: a wake-up removes the
  head of the wait list, and only because nobody is on it twice does that add a
  thread to `WokenThreads`; and only because the counter is right does an empty
  queue mean that no message is left without a waker.
  `QueueIsABoundedQueue` is the refinement of `BoundedQueue`, a lemma per
  action: it needs `Filled` (every slot that is linked, about to be linked or
  about to be copied out holds a message), and `RoomLemma`: whoever has a slot
  of the pool in hand has room to link it, since the slots are `Capacity` in number and
  those linked are others (a pigeonhole argument).
- `CommuSendProofs`: `TypesHold`, `LastReportIsConveyed`, `ReadsGetTheirSector`
  (from `CommuSendAssumption`: the mailbox holds one post at least; it holds
  ten, `application.c:420`). The invariant says when freed structs do no harm:
  while the blocks of the other threads stay, the heap gives every call the same
  two, the first free one and the next, so each address in the mailbox is that
  second block (`SlotsOK`), which names the buffer of the client whose turn it is
  (`HeapOK`, `SenderOK`); a disk read is alone from command to answer, so that no
  other thread gets to allocate before its struct is read (`DiskOK`); and a
  post that a full mailbox drops leaves an earlier one that will be sent from
  the newer buffer (`KeyOK`). `LastReportIsConveyed` has the condition `~others`;
  the other two hold for any use of the heap.
- `UplinkProofs`: `TypeCorrect`, `PackagesArriveWhole`, `HandedWasSent`. The
  invariant `Framing` (while no reply has cut into a report) ties the
  receiver's state, count, length and buffer to the position in the frame on
  the wire: head bytes inside the data cannot disturb it. `UplinkAssumption`
  asks that types are bytes and differ, that a package fits the buffer, and
  that its length fits the two bytes that carry it.
- `SlaveLoopProofs`: `TypeCorrect`; `PendingReportsAreStable`, from the
  invariant `BusyGuards` (EP1BUSY is set while the endpoint is enabled, and
  inside `Joystick_Send` it is set and the endpoint is not yet enabled); and
  `LastReportIsKept`, from `CopiedOrFlagged` (what has been copied so far is
  up to date, or the flag is set again), which is inductive along behaviours
  whose reports have no modifiers - the very condition that the run
  `slave_loop_mouse` shows to be needed. All three hold over resets of the bus.
- `HotKeysProofs` (from `HotKeysAssumption`: a finite keyboard whose keys are
  numbered, with 0 for none, and an admissible list of hotkeys): `TypesHold`,
  `PasswordsDoNotOverlap`, `ReleaseResetsFlag`, `NoKeyStuck`, `CombinationsAreHidden`,
  `HotKeysFire`. `PwdOK` relates `mb_app` to the mailboxes alive; `FlagOK`
  says that a set flag names a key and that a reset clears it; `BlankLast` says that when the user has let go the last report
  on its way, in `out` or in `mq_key_sm` or at the host, is the blank one;
  `AllHidden` says of every report between `key_handle` and the host that it is
  no hotkey's combination. Two theorems have a hypothesis on the list of
  hotkeys, which TLC checks of the list it runs with (`CapsAssumption`):
  `NoStringIsHotKey` (a string that types a hotkey's combination shows it to
  the host, as the code does) and `ResetsStandAlone` (no combination is both a
  reset's and another hotkey's: a reset that comes first in the list leaves the
  other unexecuted). `InOrderLemma` is an induction on the number of keys: a finite set
  of keys has an ascending enumeration.
- `MassStorageProofs` (from `SizesAssumption`): `TypesHold`,
  `HostGetsItsAnswer`, `DiskKeepsWrites`, `ReadsGetTheirPackets`. `Invariance`
  says that host and device are always in one of seven stages of a command:
  `Free`, `Asked`, `Reading`, `LastPacket`, `Writing`, `Answered`, `Refused`.
  In a transfer, the statics of `Read_Memory` and `Write_Memory`, which the
  code keeps in bytes left, offsets on the disk, offsets in the block and
  counts, are all functions of the number t of packets moved (`ReadStatics`,
  `WriteStatics`), and t = q * Packets + r places that packet in block q of the
  command (`Held`, `Kept`); before and after a transfer all of them are 0
  (`Rest`). That is what makes `W_Length % Mass_Block_Size = 0` the end of a block, and the
  block at `W_Offset - Mass_Block_Size` the right one, also behind the last
  block of the disk where `W_Offset` wraps. The theorems assume `AnyReset = FALSE`: with it
  `DiskKeepsWrites` is false, as `mass_storage_reset` shows. Disturbances
  by the serial interrupt, resets between transfers and power losses at any
  moment, any number of them, are covered.

- `KernelProofs` (from `ThreadsAssumption`, `BoundsAssumption`,
  `TicksAssumption`: the idle thread is below all others, slices are at least a
  tick, every waiting time is below half of the clock's range, as
  `rt_timer_start` asserts): `TypeCorrect`, `NodesOnTheirLists`, `HighestRuns`,
  `GroupNeverEmpty`, `WokenIsOwner`, `OneInTheHeap`, `OwnerInherits`,
  `PriorityComesBack`, `TimersFireOnTime`, all from `KernelInvariant`, for any
  number of threads and priorities. The invariant `IInv` is a predicate `Good` of the
  kernel and of where the threads are, given as values, so that it can be said of the
  kernel between two C functions of one call. Its parts: `Staged`, what the state of a thread says of
  its call (a suspended thread is in a call that blocks, and no error is set
  before something wakes it); `Queued`, every list has exactly the threads that
  belong on it, once, the waiters of a PRIO mutex in order of priority, and the bitmap is
  right; `Timed`, what is left of each timer, modulo the clock, is at least 1
  and below half, in order, one per thread, and the thread is suspended;
  `Sleepers`; `CurrentOK`, the current thread is ready or on its way to
  `rt_schedule` with the scheduler unlocked; `Highest`; `MutexOK`, which adds to
  the properties that an owner has not exited, will be given its own priority
  back (`original_priority` is its `init_priority`, the program nesting no two mutexes) and is not
  among those who wait; `HeapOK`, where the unit of heap_sem is, and that who waits for it
  finds it taken; `IdleOK`, the idle thread uses the heap only while it has
  a dead thread to free. None of the nine properties is inductive without the others'
  parts: a wake-up is right because the head of a wait list is suspended in
  that very call (`Queued`, `Staged`), its timer must be gone or not yet due
  (`Timed`), and `SomeoneReady` needs that whoever has the unit of heap_sem
  is ready (`ReadyLemma`: an idle thread that waits has a holder that runs). The operators
  have a lemma each (`UnlinkLemma`, `InsertThreadLemma`, `RemoveThreadLemma`,
  `ChangePriorityLemma`, `SuspendOnLemma`, `TimerStartLemma`, `ResumeLemma`,
  `ScheduleLemma`, `TimerCheckLemma`, ...), the actions are composed of those.
  `BeforeLemma` and `TickedLemma` are the arithmetic of the clock:
  two timers within half of the range are compared right
  across the wrap, and a tick takes one from what is left.

Only model-checked: liveness (TLAPS 1.4.5 proves none under fairness:
`MessageReachesWaiter`, `ReportReachesWire`, `Resync`, `ReportReachesHost`,
`MatrixIsReported`, `KeysAreReleased`, `CommandsEnd`, `WaiterGetsMutex`). Every other
property of a passing run is a theorem. The bound `MaxSem` of RxRelease, `MaxHold` and
`MaxNest` are parameters, so the theorems hold for any of them.

## 5. What is not modelled, and why

Vendored code (FatFs, Lua, finsh, the peripheral and USB libraries); drivers
that only move bytes to registers; the mouse gestures and window control, whose
source of events, the USB host thread, is not started; macros, which no hotkey
starts; memory layout (the writes one cell past `buf` in `key_handle` and before
`key_cap_free`, and the four-byte store of `getkbchar`, are listed as hazards
without a property). Queue delete and detach are never called. Of the kernel:
`rt_thread_delete`, detach and control of semaphores and mutexes, soft timers,
events and memory pools (used only by the DMA transmit path of `drivers/serial.c`),
which the program's own threads do not call; a hardware wait inside a critical section
(`lua_app.c:40`). Of the USB disk: the content of answers and sense data; READ
and WRITE of no blocks (the length would underflow; hosts do not send them);
FORMAT UNIT, which is never answered (`usb_scsi.c:344`); a class reset that is
refused (it changes nothing); a CBW whose
direction or length contradicts its command; enumeration before
`Mass_Block_Count` is set (`test.c:52`-57 run 500 ms after `USB_Init`); the
sector that the master gets when it reads during a write. A data packet that
comes between the handlers of the two endpoints would overwrite a command
not yet copied; a packet takes 46 µs on the bus and the model excludes it. Of the uplink:
the line that `commu_mcu.c:74` prints to the same USART before the sector's
frame; a receiver between frames skips it, and inside a cut report it only
lengthens the cut. The models of the master assume `ini.Debug.keyboard`, without which nothing is forwarded.

A known limit of the code, which the models show only in part: reads of several
sectors. FatFs asks for them for what it reads in whole sectors, 1024 bytes and
more at once (`ff.c:2603`), and the comment of `MMC_disk_read` allows it ("1..128",
`diskio.c:93`), but the slave sends 512 bytes whatever the number
(`commu_mcu.c:76`) and the master takes one message (`diskio.c:42`): only the first
sector arrives. `CommuSend` says so (`Filled`, `Answers`), and
`ReadsAskedSector` is about that first sector. The slave moreover reads all the
sectors asked for into the 600 bytes of `buf_send` (`commu_mcu.c:75`), over the
variables behind it and, from five sectors on, the stack of its own handler. In
CommuSend this means that an answer may not come; what else it does to
the slave, in the models Uplink, SlaveLoop and MassStorage, is not modelled.

## 6. Plan

Order: what every key passes through first, then what it rests on.

1. Done: MessageQueue with BoundedQueue; CommuSend; FrameReceiver and Uplink;
   SlaveLoop; HotKeys; Kernel; MassStorage; the safety proofs of all of them.
2. Next, as models: the heap (blocks partition the arena, `lfree` is the lowest
   free block, neighbouring free blocks are merged; refinement of "a set of
   disjoint blocks"); the Lua thread beside the thread app; the downlink with
   lost bytes, composed of FrameReceiver and CommuSend's frames.
3. Next, as proofs: action properties of Kernel that follow from `Good` (a
   thread leaves a wait list only by a release, its timer or a hand-over), and
   the invariants of the new models.

## 7. Running

    tlc -config MCMessageQueue.cfg MCMessageQueue      # likewise the others
    tlapm MessageQueueProofs.tla                       # likewise the others

A definition marked "Mutant" in a comment is a plausible wrong version of the
definition after it; `PROJECT.json` pairs each with the property that it breaks.
