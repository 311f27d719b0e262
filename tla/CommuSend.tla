----------------------------- MODULE CommuSend -----------------------------
(***************************************************************************)
(* How the master puts frames on the wire (src/MDK/commu.c).  A client     *)
(* calls common_commu_send with a buffer on its own stack: the call        *)
(* allocates a mutex and a struct commu_st, posts the address of the       *)
(* struct in mb_commu_send, takes the mutex, frees both blocks and         *)
(* returns.  The thread commu_send reads the struct and the buffer when    *)
(* it gets to run, and releases the mutex after the last byte.             *)
(*                                                                         *)
(* Clients: while the program starts up, the thread that reads the disk    *)
(* (init, then app), which waits in rt_mq_recv for its sector after the    *)
(* call; when it is done, key_sm, which forwards key reports.  All have    *)
(* priority over commu_send, which runs only while they are blocked.       *)
(*                                                                         *)
(* The heap (src/src/mem.c) is a row of equal blocks, handed out from the  *)
(* lowest free address; a freed block keeps its contents until it is       *)
(* handed out again.  Other threads use it too: app, whose priority is     *)
(* between the clients' and commu_send's, when it starts a password        *)
(* thread; and, of lower priority, that thread, Lua and the idle thread.   *)
(* A payload crosses in two parts, so that a buffer may change under the   *)
(* sender.                                                                 *)
(***************************************************************************)
EXTENDS Integers, Sequences, FiniteSetsExt

CONSTANTS Reports,     \* the key reports
          Sectors,     \* the sector addresses
          Counts,      \* the numbers of sectors that FatFs asks for at once
          MbSize,      \* the size of mb_commu_send
          AnswerSize,  \* the number of messages of mq_flash_read
          NBlocks,     \* the number of heap blocks, all but 2 for others
          Garbage      \* what lies behind a pointer that is not one

Clients  == {"key_sm", "disk"}
ASSUME CommuSendAssumption == /\ MbSize \in Nat \ {0} /\ AnswerSize \in Nat /\ NBlocks \in Nat
                              /\ Counts \subseteq Nat \ {0}
                              /\ Garbage \notin Clients
Blocks   == 1..NBlocks
Requests == [sector : Sectors, count : Counts]
Payloads == Reports \union Requests

VARIABLES pc,       \* where each client is in its loop
          stack,    \* the buffer each client passes
          mutex,    \* its local variable mutex
          st2send,  \* its local variable st2send
          used,     \* the allocated heap blocks
          heap,     \* what was last written to each block
          others,   \* other threads have used it with a frame on its way
          mailbox,  \* mb_commu_send
          spc,      \* where the thread commu_send is
          cur,      \* its commu_send_st
          buf,      \* its buf: whose buffer, or garbage
          sent,     \* the parts of the current frame already on the wire
          last,     \* the last complete frame on the wire
          answers,  \* mq_flash_read and the sectors on their way to it
          read      \* the sectors that the last read put in its buffer
cvars == <<pc, stack, mutex, st2send>>
hvars == <<used, heap, others>>
svars == <<spc, cur, buf, sent, last>>
dvars == <<answers, read>>
vars  == <<cvars, hvars, mailbox, svars, dvars>>

Structs == [kind : {"struct"}, buf : Clients, mutex : Blocks]
Mutexes == [kind : {"mutex"}, owner : Clients \union {"nobody", "commu_send"}]
Other   == [kind |-> "other"]
NoBlock == 0

TypeOK ==
  /\ pc \in [Clients -> {"idle", "delay", "create", "malloc", "post", "take",
                         "free", "delete", "await", "done"}]
  /\ stack \in [Clients -> Payloads \union {Garbage}]
  /\ mutex \in [Clients -> Blocks \union {NoBlock}]
  /\ st2send \in [Clients -> Blocks \union {NoBlock}]
  /\ used \in SUBSET Blocks
  /\ heap \in [Blocks -> Structs \union Mutexes \union {Other, [kind |-> "blank"]}]
  /\ others \in BOOLEAN
  /\ mailbox \in Seq(Blocks) /\ Len(mailbox) <= MbSize
  /\ spc \in {"idle", "struct", "bytes", "release", "lost"}
  /\ cur \in Blocks \union {NoBlock}
  /\ buf \in Clients \union {Garbage}
  /\ sent \in Seq(Payloads \union {Garbage}) /\ Len(sent) <= 2
  /\ last \in Seq(Payloads \union {Garbage}) /\ Len(last) \in {0, 2}
  /\ answers \in Seq(Sectors \union {Garbage}) /\ Len(answers) <= AnswerSize
  /\ read \in Seq(Sectors \union {Garbage})

Init == /\ pc = [c \in Clients |-> "idle"]
        /\ stack = [c \in Clients |-> Garbage]
        /\ mutex = [c \in Clients |-> NoBlock]
        /\ st2send = [c \in Clients |-> NoBlock]
        /\ used = {}
        /\ heap = [b \in Blocks |-> [kind |-> "blank"]] /\ others = FALSE
        /\ mailbox = <<>>
        /\ spc = "idle" /\ cur = NoBlock /\ buf = Garbage
        /\ sent = <<>> /\ last = <<>>
        /\ answers = <<>> /\ read = <<>>

(* Preemption: other threads run while every client waits: for something   *)
(* to do, or, wherever it calls rt_malloc or rt_free, for heap_sem.        *)
ClientsWait == \A c \in Clients : pc[c] \notin {"post", "take"}

(* A client has begun a call, or the sender has not finished with it.      *)
InCall(c) == pc[c] \in {"malloc", "post", "take", "free", "delete"}
OnItsWay  == mailbox # <<>> \/ spc # "idle" \/ \E c \in Clients : InCall(c)

(* rt_malloc and rt_free.                                                  *)
LowestFree == Min(Blocks \ used)
Allocate(content) == /\ Blocks \ used # {}
                     /\ used' = used \union {LowestFree}
                     /\ heap' = [heap EXCEPT ![LowestFree] = content]
                     /\ UNCHANGED others

Free(b) == used' = used \ {b} /\ UNCHANGED <<heap, others>>
-----------------------------------------------------------------------------
(* The clients' loops: where a call of common_commu_send begins.           *)

(* rt_thread_entry_key_sm: the report overwrites the thread's one buffer.  *)
(* A report that the program presses by itself waits 10 ticks first.       *)
TakeReport(r) ==
  /\ pc["disk"] = "done" /\ pc["key_sm"] = "idle"
  /\ stack' = [stack EXCEPT !["key_sm"] = r]
  /\ \E next \in {"create", "delay"} : pc' = [pc EXCEPT !["key_sm"] = next]
  /\ others' = (others /\ OnItsWay)
  /\ UNCHANGED <<mutex, st2send, used, heap, mailbox, svars, dvars>>

DelayEnds ==
  /\ pc["key_sm"] = "delay"
  /\ pc' = [pc EXCEPT !["key_sm"] = "create"]
  /\ UNCHANGED <<stack, mutex, st2send, hvars, mailbox, svars, dvars>>

(* MMC_disk_read builds its command on the stack ...                       *)
AskSector(request) ==
  /\ pc["disk"] = "idle"
  /\ stack' = [stack EXCEPT !["disk"] = request]
  /\ pc' = [pc EXCEPT !["disk"] = "create"]
  /\ UNCHANGED <<mutex, st2send, hvars, mailbox, svars, dvars>>

(* What the buffer of the read holds then: one message of 512 bytes, how-  *)
(* ever many sectors were asked for; the rest of it is as it was.          *)
Filled(answer) ==
  [i \in 1..stack["disk"].count |-> IF i = 1 THEN answer ELSE Garbage]

(* Mutant: the sector is copied but stays in the queue.                    *)
PeekSector ==
  /\ pc["disk"] = "await"
  /\ answers # <<>>
  /\ read' = Filled(Head(answers))
  /\ pc' = [pc EXCEPT !["disk"] = "idle"]
  /\ UNCHANGED <<answers, stack, mutex, st2send, hvars, mailbox, svars>>

(* ... and takes the first sector that mq_flash_read holds.  The frame of  *)
(* MMC_disk_read then leaves the stack, and the buffer with it.            *)
GetSector ==
  /\ pc["disk"] = "await"
  /\ answers # <<>>
  /\ read' = Filled(Head(answers))
  /\ answers' = Tail(answers)
  /\ pc' = [pc EXCEPT !["disk"] = "idle"]
  /\ \E p \in {stack["disk"], Garbage} : stack' = [stack EXCEPT !["disk"] = p]
  /\ UNCHANGED <<mutex, st2send, hvars, mailbox, svars>>

(* The start-up is over: app waits for key reports, and key_sm gets some;  *)
(* the frames of the start-up and their buffers are gone.                  *)
StartUpEnds ==
  /\ pc["disk"] = "idle"
  /\ pc' = [pc EXCEPT !["disk"] = "done"]
  /\ stack' = [stack EXCEPT !["disk"] = Garbage]
  /\ read' = <<>>
  /\ UNCHANGED <<mutex, st2send, hvars, mailbox, svars, answers>>
-----------------------------------------------------------------------------
(* The other threads that use the heap.  Their blocks have other sizes, so *)
(* that any free block may be the first that fits.                         *)
OthersBlocks == {b \in used : heap[b] = Other}

OthersAllocate == \E b \in Blocks \ used :
                    /\ Cardinality(OthersBlocks) < NBlocks - 2
                    /\ used' = used \union {b}
                    /\ heap' = [heap EXCEPT ![b] = Other]
OthersFree == \E b \in OthersBlocks : used' = used \ {b} /\ UNCHANGED heap

(* pwd_start: app, which runs before the sender does, creates a mailbox    *)
(* and a thread.                                                           *)
AppAllocates ==
  /\ pc["disk"] = "done" /\ ClientsWait
  /\ OthersAllocate
  /\ others' = (others \/ OnItsWay)
  /\ UNCHANGED <<cvars, mailbox, svars, dvars>>

(* What runs only while the sender waits too: the password thread, Lua and *)
(* the idle thread; and during start-up the thread of the disk client.     *)
UseHeapBelow ==
  /\ ClientsWait /\ spc = "idle" /\ mailbox = <<>>
  /\ OthersAllocate \/ OthersFree
  /\ others' = (others \/ OnItsWay)
  /\ UNCHANGED <<cvars, mailbox, svars, dvars>>
-----------------------------------------------------------------------------
(* common_commu_send, one action per kernel call.                          *)
Goto(c, from, to) == pc[c] = from /\ pc' = [pc EXCEPT ![c] = to]

CreateMutex(c) ==
  /\ Goto(c, "create", "malloc")
  /\ Allocate([kind |-> "mutex", owner |-> "nobody"])
  /\ mutex' = [mutex EXCEPT ![c] = LowestFree]
  /\ UNCHANGED <<stack, st2send, mailbox, svars, dvars>>

FillStruct(c) ==
  /\ Goto(c, "malloc", "post")
  /\ Allocate([kind |-> "struct", buf |-> c, mutex |-> mutex[c]])
  /\ st2send' = [st2send EXCEPT ![c] = LowestFree]
  /\ UNCHANGED <<stack, mutex, mailbox, svars, dvars>>

(* Mutant: a full mailbox is not noticed.                                  *)
PostMailUnchecked(c) ==
  /\ Goto(c, "post", "take")
  /\ mailbox' = Append(mailbox, st2send[c])
  /\ UNCHANGED <<stack, mutex, st2send, hvars, svars, dvars>>

(* Mutant: a report is not posted while another is being sent.             *)
PostMailWhenIdle(c) ==
  /\ Goto(c, "post", "take")
  /\ mailbox' = IF spc = "idle" /\ Len(mailbox) < MbSize
                 THEN Append(mailbox, st2send[c]) ELSE mailbox
  /\ UNCHANGED <<stack, mutex, st2send, hvars, svars, dvars>>

(* rt_mb_send does not wait, and its result is not looked at.              *)
PostMail(c) ==
  /\ Goto(c, "post", "take")
  /\ mailbox' = IF Len(mailbox) < MbSize THEN Append(mailbox, st2send[c]) ELSE mailbox
  /\ UNCHANGED <<stack, mutex, st2send, hvars, svars, dvars>>

(* A new mutex has value 1: taking it does not wait.                       *)
TakeMutex(c) ==
  /\ Goto(c, "take", "free")
  /\ heap[mutex[c]].owner = "nobody"
  /\ heap' = [heap EXCEPT ![mutex[c]].owner = c]
  /\ UNCHANGED <<stack, mutex, st2send, used, others, mailbox, svars, dvars>>

FreeStruct(c) ==
  /\ Goto(c, "free", "delete")
  /\ Free(st2send[c])
  /\ st2send' = [st2send EXCEPT ![c] = NoBlock]
  /\ UNCHANGED <<stack, mutex, mailbox, svars, dvars>>

DeleteMutex(c) ==
  /\ Goto(c, "delete", IF c = "disk" THEN "await" ELSE "idle")
  /\ Free(mutex[c])
  /\ mutex' = [mutex EXCEPT ![c] = NoBlock]
  /\ UNCHANGED <<stack, st2send, mailbox, svars, dvars>>
-----------------------------------------------------------------------------
(* rt_thread_entry_commu_send.                                             *)
GotoS(from, to) == ClientsWait /\ spc = from /\ spc' = to

(* rt_mb_recv, and the head byte.                                          *)
ReceiveMail ==
  /\ GotoS("idle", "struct")
  /\ mailbox # <<>>
  /\ cur' = Head(mailbox)
  /\ mailbox' = Tail(mailbox)
  /\ UNCHANGED <<cvars, hvars, buf, sent, last, dvars>>

(* A block that holds a struct no more gives a garbage length, buffer and  *)
(* mutex: the sender may not come back from using them.                    *)
GetsLost(from) == GotoS(from, "lost") /\ heap[cur].kind # "struct"

(* The fields are read from the struct, whatever its block holds now, and  *)
(* the header bytes sent.                                                  *)
ReadStruct ==
  /\ GotoS("struct", "bytes") \/ GetsLost("struct")
  /\ buf' = IF heap[cur].kind = "struct" THEN heap[cur].buf ELSE Garbage
  /\ UNCHANGED <<cvars, hvars, mailbox, cur, sent, last, dvars>>

(* The bytes of the buffer, as it is when each is sent.                    *)
SendPart ==
  /\ GotoS("bytes", IF Len(sent) = 1 THEN "release" ELSE "bytes")
  /\ sent' = Append(sent, IF buf = Garbage THEN Garbage ELSE stack[buf])
  /\ UNCHANGED <<cvars, hvars, mailbox, cur, buf, last, dvars>>

(* The slave answers a read command with the sector it names, whatever     *)
(* their number; a sector that finds mq_flash_read full is dropped.  A     *)
(* number above 1 makes SPI_Flash_Read write past the 600 bytes of         *)
(* buf_send, and from 5 on over the handler's stack: no answer may come.   *)
Answer(frame) ==
  IF buf = "disk" /\ Len(answers) < AnswerSize
  THEN Append(answers, IF frame[1] = frame[2] THEN frame[1].sector ELSE Garbage)
  ELSE answers

Answers(frame) ==
  IF buf = "disk" /\ frame[1] = frame[2] /\ frame[1].count > 1
  THEN {Answer(frame), answers} ELSE {Answer(frame)}

(* The last byte is out: the mutex that the struct now names is released.  *)
(* Its owner being another thread, rt_mutex_release returns -RT_ERROR.     *)
(* The locals of the loop leave their scope.                               *)
ReleaseMutex ==
  /\ GotoS("release", "idle") \/ GetsLost("release")
  /\ last' = sent
  /\ answers' \in Answers(sent)
  /\ cur' = NoBlock /\ buf' = Garbage /\ sent' = <<>>
  /\ UNCHANGED <<cvars, hvars, mailbox, read>>

CallStep(c) == \/ CreateMutex(c) \/ FillStruct(c) \/ PostMail(c)
               \/ TakeMutex(c) \/ FreeStruct(c) \/ DeleteMutex(c)
SenderStep == ReceiveMail \/ ReadStruct \/ SendPart \/ ReleaseMutex

Next == \/ \E r \in Reports : TakeReport(r)
        \/ DelayEnds
        \/ \E request \in Requests : AskSector(request)
        \/ GetSector
        \/ StartUpEnds
        \/ AppAllocates \/ UseHeapBelow
        \/ \E c \in Clients : CallStep(c)
        \/ SenderStep

Spec == Init /\ [][Next]_vars

(* The kernel runs the ready thread of the highest priority; a delay ends. *)
(* New reports and new reads are up to the user and the program; the       *)
(* sender gets to run between them, whatever their number: key reports are *)
(* rare beside the bytes of the wire.                                      *)
FairSpec == /\ Spec
            /\ \A c \in Clients : WF_vars(CallStep(c))
            /\ WF_vars(DelayEnds) /\ WF_vars(GetSector)
            /\ SF_vars(SenderStep)
-----------------------------------------------------------------------------
(***************************************************************************)
(* Properties                                                              *)
(***************************************************************************)

(* Between reports, the state of the keyboard that the wire has conveyed   *)
(* is the last one: though the sender reads a freed struct and a buffer    *)
(* that may have changed, no key stays pressed or released by mistake once *)
(* the sender has caught up.  That is so as long as other threads leave    *)
(* the heap alone while frames are on their way: else a freed struct may   *)
(* be overwritten before it is read, and its frame is garbage.             *)
LastReportWins ==
  /\ pc["key_sm"] = "idle"
  /\ mailbox = <<>> /\ spc = "idle"
  /\ stack["key_sm"] # Garbage
  /\ ~others
  => last = <<stack["key_sm"], stack["key_sm"]>>

(* A report that the user's keys leave in place reaches the wire, under    *)
(* the same condition.                                                     *)
ReportReachesWire ==
  \A r \in Reports :
    <>[](stack["key_sm"] = r /\ ~others) => <>[](last = <<r, r>>)


(* The parameters of disk_read: buff receives the sector at that address,  *)
(* whatever other threads do with the heap, and however many sectors this  *)
(* read or an earlier one asks for.  The sectors after the first are never *)
(* received.                                                               *)
ReadsAskedSector ==
  [][GetSector => /\ read'[1] = stack["disk"].sector
                  /\ answers' = <<>>]_vars
=============================================================================
