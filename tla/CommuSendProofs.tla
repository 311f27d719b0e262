-------------------------- MODULE CommuSendProofs --------------------------
(***************************************************************************)
(* Theorems about CommuSend, for any reports, sectors, numbers of sectors, *)
(* mailbox, queue and heap: the sender reads structs that are already      *)
(* freed and buffers that may have changed, and yet no read goes wrong,    *)
(* and no report as long as other threads leave the heap alone.            *)
(*                                                                         *)
(* The argument.  While the heap's other blocks stay, it gives every call  *)
(* the same two: the mutex the first free one, the struct the second.  So  *)
(* every address in the mailbox is that second block, which holds what the *)
(* current client last wrote there and keeps it after the free: freed or   *)
(* not, it names that client's buffer.  The clients take turns only when   *)
(* nothing is on its way.  While the disk is read other threads allocate,  *)
(* but not between the post and the answer.                                *)
(***************************************************************************)
EXTENDS CommuSend, SeqLemmas

(* The client whose turn it is.                                            *)
Caller == IF pc["disk"] = "done" THEN "key_sm" ELSE "disk"
NewMutex == [kind |-> "mutex", owner |-> "nobody"]

Turns == /\ stack["disk"] \in Requests \union {Garbage}
         /\ pc["disk"] \notin {"idle", "done"} => stack["disk"] \in Requests
         /\ pc["disk"] # "delay" /\ pc["key_sm"] \notin {"await", "done"}
         /\ pc["disk"] # "done" => pc["key_sm"] = "idle" /\ stack["key_sm"] = Garbage

(* What a call has got so far.                                             *)
HasMutex(c)  == InCall(c)
HasStruct(c) == pc[c] \in {"post", "take", "free"}
HeapOK ==
  /\ HasMutex(Caller) => /\ mutex[Caller] \in used
                         /\ heap[mutex[Caller]] \in Mutexes
  /\ HasStruct(Caller) => /\ st2send[Caller] \in used
                          /\ heap[st2send[Caller]] \in Structs
                          /\ heap[st2send[Caller]].buf = Caller
  /\ \A b \in used : \/ heap[b] = Other
                     \/ HasMutex(Caller) /\ b = mutex[Caller]
                     \/ HasStruct(Caller) /\ b = st2send[Caller]

(* The blocks whose addresses are on their way to the sender, or its own.  *)
Pending == {mailbox[i] : i \in DOMAIN mailbox} \union {b \in {cur} : spc \notin {"idle", "lost"}}

(* A key report goes through the same two blocks as the one before.        *)
First  == Min(Blocks \ OthersBlocks)
Second == Min(Blocks \ (OthersBlocks \union {First}))
SlotsOK ==
  pc["disk"] = "done" /\ ~others =>
    /\ Pending \subseteq {Second} \ {First}
    /\ HasMutex("key_sm") => mutex["key_sm"] = First
    /\ HasStruct("key_sm") => st2send["key_sm"] = Second

(* What the sender works on.  A block that other threads have got holds no *)
(* struct, but one that holds a struct holds the current client's.         *)
Undisturbed == pc["disk"] # "done" \/ ~others
SenderOK ==
  /\ \A b \in Pending : /\ b \in Blocks
                        /\ heap[b].kind = "struct" => heap[b].buf = Caller
                        /\ Undisturbed => heap[b].kind = "struct"
  /\ spc \in {"bytes", "release"} => /\ buf \in {Caller, Garbage}
                                     /\ Undisturbed => buf = Caller
  /\ Undisturbed => spc # "lost"
  /\ spc \in {"idle", "struct"} => sent = <<>>
  /\ spc = "bytes" => Len(sent) <= 1
  /\ spc = "release" => Len(sent) = 2

Fresh(c) == spc \in {"bytes", "release"} => \A i \in DOMAIN sent : sent[i] = stack[c]

(* A disk read is alone: from its command to its answer there is one       *)
(* frame, and between two reads nothing.                                   *)
DiskOK ==
  pc["disk"] # "done" =>
    /\ pc["disk"] \in {"idle", "create", "malloc", "post"} => mailbox = <<>>
    /\ pc["disk"] \in {"idle", "create", "malloc", "post", "take"} => spc = "idle" /\ answers = <<>>
    /\ mailbox # <<>> => spc = "idle" /\ Len(mailbox) = 1 /\ answers = <<>>
    /\ spc # "idle" => answers = <<>>
    /\ pc["disk"] = "take" => Pending \subseteq {st2send["disk"]}
    /\ Fresh("disk")
    /\ answers # <<>> => answers = <<stack["disk"].sector>>

(* A report is followed by a post, unless the mailbox is full: then too    *)
(* there is a post left, and its frame is sent from the buffer as it is    *)
(* now.                                                                    *)
KeyOK ==
  /\ pc["disk"] = "done" /\ stack["key_sm"] # Garbage /\ ~others
  /\ pc["key_sm"] \in {"take", "free", "delete", "idle"} /\ mailbox = <<>>
  => /\ Fresh("key_sm")
     /\ spc = "idle" => last = <<stack["key_sm"], stack["key_sm"]>>

Inv == TypeOK /\ Turns /\ HeapOK /\ SlotsOK /\ SenderOK /\ DiskOK /\ KeyOK

(* What a block holds tells whose it is.                                   *)
LEMMA KindLemma ==
  /\ Other.kind = "other"
  /\ \A x \in Mutexes : x.kind = "mutex"
  /\ \A x \in Structs : x.kind = "struct" /\ x.buf \in Clients
  /\ \A x \in Mutexes \union Structs : x # Other
<1>1. /\ \A x \in Mutexes : x.kind = "mutex"
      /\ \A x \in Structs : x.kind = "struct" /\ x.buf \in Clients
      /\ Other.kind = "other"
  BY DEF Mutexes, Structs, Other
<1> QED BY <1>1

LEMMA InitInv == Init => Inv
<1> SUFFICES ASSUME Init PROVE Inv
  OBVIOUS
<1>1. /\ \A S : <<>> \in Seq(S)
      /\ Len(<<>>) = 0 /\ DOMAIN <<>> = {}
  OBVIOUS
<1>2. TypeOK
  <2>1. heap \in [Blocks -> Structs \union Mutexes \union {Other, [kind |-> "blank"]}]
    <3> DEFINE blank == [kind |-> "blank"]
    <3>1. heap = [b \in Blocks |-> blank]
      BY DEF Init
    <3> HIDE DEF blank
    <3>2. heap \in [Blocks -> Structs \union Mutexes \union {Other, blank}]
      BY <3>1
    <3> QED BY <3>2 DEF blank
  <2>2. /\ Len(mailbox) = 0 /\ Len(sent) = 0 /\ Len(last) = 0 /\ Len(answers) = 0
        /\ mailbox \in Seq(Blocks) /\ sent \in Seq(Payloads \union {Garbage})
        /\ last \in Seq(Payloads \union {Garbage})
        /\ answers \in Seq(Sectors \union {Garbage}) /\ read \in Seq(Sectors \union {Garbage})
    BY <1>1 DEF Init
  <2>3. /\ pc \in [Clients -> {"idle", "delay", "create", "malloc", "post", "take",
                               "free", "delete", "await", "done"}]
        /\ stack \in [Clients -> Payloads \union {Garbage}]
        /\ mutex \in [Clients -> Blocks \union {NoBlock}]
        /\ st2send \in [Clients -> Blocks \union {NoBlock}]
    BY DEF Init
  <2>4. /\ used \in SUBSET Blocks /\ others \in BOOLEAN /\ spc = "idle"
        /\ cur = NoBlock /\ buf = Garbage
    BY DEF Init
  <2> QED BY <2>1, <2>2, <2>3, <2>4, CommuSendAssumption DEF TypeOK
<1>3. Caller = "disk" /\ pc["disk"] = "idle" /\ pc["key_sm"] = "idle" /\ stack["key_sm"] = Garbage
      /\ stack["disk"] = Garbage
  BY DEF Init, Caller, Clients
<1>4. Turns /\ HeapOK /\ SlotsOK
  BY <1>3 DEF Init, Turns, HeapOK, SlotsOK, HasMutex, HasStruct, InCall
<1>5. Pending = {}
  BY <1>1 DEF Init, Pending
<1>6. SenderOK /\ DiskOK /\ KeyOK
  BY <1>1, <1>3, <1>5 DEF Init, SenderOK, DiskOK, KeyOK, Fresh
<1> QED BY <1>2, <1>4, <1>6 DEF Inv
-----------------------------------------------------------------------------
(* The clients' loops: outside of a call.                                  *)
LEMMA TakeReportInv ==
  ASSUME Inv, NEW r \in Reports, TakeReport(r)
  PROVE  Inv'
<1> USE DEF Inv
<1>1. /\ pc["disk"] = "done" /\ pc["key_sm"] = "idle"
      /\ stack' = [stack EXCEPT !["key_sm"] = r]
      /\ \E next \in {"create", "delay"} : pc' = [pc EXCEPT !["key_sm"] = next]
      /\ others' = (others /\ OnItsWay)
      /\ UNCHANGED <<mutex, st2send, used, heap, mailbox, spc, cur, buf, sent, last, answers, read>>
  BY DEF TakeReport, svars, dvars
<1>2. TypeOK'
  BY <1>1 DEF TypeOK, Clients, Payloads
<1>3. /\ pc'["disk"] = "done" /\ pc'["key_sm"] \in {"create", "delay"} /\ stack'["disk"] = stack["disk"]
      /\ Caller = "key_sm" /\ Caller' = "key_sm" /\ Pending' = Pending
  BY <1>1 DEF TypeOK, Clients, Caller, Pending
<1>4. Turns'
  BY <1>3 DEF Turns
<1>5. HeapOK'
  BY <1>1, <1>3 DEF HeapOK, HasMutex, HasStruct, InCall
<1>6. ASSUME ~ others', others PROVE Pending = {} /\ spc = "idle"
  <2>1. mailbox = <<>> /\ spc = "idle"
    BY <1>1, <1>6 DEF OnItsWay
  <2>2. DOMAIN mailbox = {}
    BY <2>1
  <2> QED BY <2>1, <2>2 DEF Pending
<1>7. SlotsOK'
  BY <1>1, <1>3, <1>6 DEF SlotsOK, HasMutex, HasStruct, InCall, First, Second, OthersBlocks
<1>8. SenderOK'
  BY <1>1, <1>3, <1>6 DEF SenderOK, Undisturbed
<1>9. DiskOK' /\ KeyOK'
  BY <1>1, <1>3 DEF DiskOK, KeyOK
<1> QED BY <1>2, <1>4, <1>5, <1>7, <1>8, <1>9

LEMMA LoopInv ==
  ASSUME Inv, \/ DelayEnds
              \/ \E request \in Requests : AskSector(request)
              \/ StartUpEnds
  PROVE  Inv'
<1> USE DEF Inv
<1>1. CASE DelayEnds
  <2>1. /\ pc["key_sm"] = "delay" /\ pc' = [pc EXCEPT !["key_sm"] = "create"]
        /\ UNCHANGED <<stack, mutex, st2send, used, heap, others, mailbox, spc, cur, buf, sent, last, answers, read>>
    BY <1>1 DEF DelayEnds, hvars, svars, dvars
  <2>2. TypeOK'
    BY <2>1 DEF TypeOK, Clients
  <2>3. /\ pc["disk"] = "done" /\ pc'["disk"] = "done" /\ pc'["key_sm"] = "create"
        /\ Caller = "key_sm" /\ Caller' = "key_sm" /\ Pending' = Pending
    BY <2>1 DEF TypeOK, Turns, Clients, Caller, Pending
  <2>4. Turns' /\ HeapOK'
    BY <2>1, <2>3 DEF Turns, HeapOK, HasMutex, HasStruct, InCall
  <2>5. SlotsOK' /\ SenderOK'
    BY <2>1, <2>3 DEF SlotsOK, HasMutex, HasStruct, InCall, First, Second, OthersBlocks, SenderOK, Undisturbed
  <2>6. DiskOK' /\ KeyOK'
    BY <2>1, <2>3 DEF DiskOK, KeyOK
  <2> QED BY <2>2, <2>4, <2>5, <2>6
<1>2. ASSUME NEW request \in Requests, AskSector(request) PROVE Inv'
  <2>1. /\ pc["disk"] = "idle" /\ stack' = [stack EXCEPT !["disk"] = request]
        /\ pc' = [pc EXCEPT !["disk"] = "create"]
        /\ UNCHANGED <<mutex, st2send, used, heap, others, mailbox, spc, cur, buf, sent, last, answers, read>>
    BY <1>2 DEF AskSector, hvars, svars, dvars
  <2>2. TypeOK'
    BY <2>1 DEF TypeOK, Clients, Payloads
  <2>3. /\ pc'["disk"] = "create" /\ pc'["key_sm"] = pc["key_sm"]
        /\ stack'["key_sm"] = stack["key_sm"] /\ stack'["disk"] = request
        /\ Caller = "disk" /\ Caller' = "disk" /\ Pending' = Pending
    BY <2>1 DEF TypeOK, Clients, Caller, Pending
  <2>4. Turns' /\ HeapOK'
    BY <2>1, <2>3 DEF Turns, HeapOK, HasMutex, HasStruct, InCall
  <2>5. SlotsOK' /\ SenderOK'
    BY <2>1, <2>3 DEF SlotsOK, SenderOK, Undisturbed
  <2>6. DiskOK' /\ KeyOK'
    BY <2>1, <2>3 DEF DiskOK, KeyOK, Fresh
  <2> QED BY <2>2, <2>4, <2>5, <2>6
<1>3. CASE StartUpEnds
  <2>1. /\ pc["disk"] = "idle" /\ pc' = [pc EXCEPT !["disk"] = "done"]
        /\ stack' = [stack EXCEPT !["disk"] = Garbage] /\ read' = <<>>
        /\ UNCHANGED <<mutex, st2send, used, heap, others, mailbox, spc, cur, buf, sent, last, answers>>
    BY <1>3 DEF StartUpEnds, hvars, svars
  <2>2. <<>> \in Seq(Sectors \union {Garbage})
    OBVIOUS
  <2>3. TypeOK'
    BY <2>1, <2>2 DEF TypeOK, Clients
  <2>4. /\ pc'["disk"] = "done" /\ pc["key_sm"] = "idle" /\ pc'["key_sm"] = "idle"
        /\ stack["key_sm"] = Garbage /\ stack'["key_sm"] = Garbage /\ stack'["disk"] = Garbage
        /\ mailbox = <<>> /\ spc = "idle"
        /\ Caller = "disk" /\ Caller' = "key_sm"
    BY <2>1 DEF TypeOK, Turns, DiskOK, Clients, Caller
  <2>5. DOMAIN mailbox = {}
    BY <2>4
  <2>6. Pending' = {}
    BY <2>1, <2>4, <2>5 DEF Pending
  <2>7. Turns' /\ HeapOK'
    BY <2>1, <2>4 DEF Turns, HeapOK, HasMutex, HasStruct, InCall
  <2>8. SlotsOK' /\ SenderOK'
    BY <2>1, <2>4, <2>6 DEF SlotsOK, HasMutex, HasStruct, InCall, SenderOK
  <2>9. DiskOK' /\ KeyOK'
    BY <2>1, <2>4 DEF DiskOK, KeyOK
  <2> QED BY <2>3, <2>7, <2>8, <2>9
<1> QED BY <1>1, <1>2, <1>3

(* Taking the sector: the answer to the one command that was sent.         *)
LEMMA GetSectorInv ==
  ASSUME Inv, GetSector
  PROVE  Inv' /\ read'[1] = stack["disk"].sector /\ answers' = <<>>
<1> USE DEF Inv
<1>1. /\ pc["disk"] = "await" /\ answers # <<>>
      /\ read' = Filled(Head(answers)) /\ answers' = Tail(answers)
      /\ pc' = [pc EXCEPT !["disk"] = "idle"]
      /\ \E p \in {stack["disk"], Garbage} : stack' = [stack EXCEPT !["disk"] = p]
      /\ UNCHANGED <<mutex, st2send, used, heap, others, mailbox, spc, cur, buf, sent, last>>
  BY DEF GetSector, hvars, svars
<1>2. answers = <<stack["disk"].sector>> /\ mailbox = <<>> /\ spc = "idle"
  BY <1>1 DEF DiskOK
<1>3. /\ stack["disk"] \in Requests
      /\ stack["disk"].sector \in Sectors /\ stack["disk"].count \in Nat \ {0}
  BY <1>1, CommuSendAssumption DEF Turns, Requests
<1>4. Head(answers) = stack["disk"].sector /\ answers' = <<>>
  BY <1>1, <1>2
<1>5. read'[1] = stack["disk"].sector /\ read' \in Seq(Sectors \union {Garbage})
  <2> DEFINE n == stack["disk"].count
  <2>1. read' = [i \in 1..n |-> IF i = 1 THEN stack["disk"].sector ELSE Garbage]
    BY <1>1, <1>4 DEF Filled
  <2>2. n \in Nat \ {0}
    BY <1>3
  <2> HIDE DEF n
  <2>3. 1 \in 1..n /\ \A i \in 1..n : (IF i = 1 THEN stack["disk"].sector ELSE Garbage) \in Sectors \union {Garbage}
    BY <1>3, <2>2
  <2> QED BY <2>1, <2>2, <2>3
<1>6. /\ stack' \in [Clients -> Payloads \union {Garbage}]
      /\ stack'["disk"] \in Requests \union {Garbage}
      /\ stack'["key_sm"] = stack["key_sm"]
  BY <1>1, <1>3 DEF TypeOK, Turns, Clients
<1>7. <<>> \in Seq(Sectors \union {Garbage}) /\ Len(<<>>) = 0
  OBVIOUS
<1>8. TypeOK'
  BY <1>1, <1>4, <1>5, <1>6, <1>7, CommuSendAssumption DEF TypeOK, Clients
<1>9. /\ pc'["disk"] = "idle" /\ pc'["key_sm"] = pc["key_sm"]
      /\ Caller = "disk" /\ Caller' = "disk" /\ Pending' = Pending
  BY <1>1 DEF TypeOK, Clients, Caller, Pending
<1>10. Turns' /\ HeapOK'
  BY <1>1, <1>6, <1>9 DEF Turns, HeapOK, HasMutex, HasStruct, InCall
<1>11. SlotsOK' /\ SenderOK'
  BY <1>1, <1>2, <1>9 DEF SlotsOK, SenderOK, Undisturbed
<1>12. DiskOK' /\ KeyOK'
  BY <1>1, <1>2, <1>4, <1>9 DEF DiskOK, KeyOK, Fresh
<1> QED BY <1>4, <1>5, <1>8, <1>10, <1>11, <1>12
-----------------------------------------------------------------------------
(* The other threads: a block that one of them gets is none of the         *)
(* caller's; and either nothing is on its way, or others is set.           *)
LEMMA OthersInv ==
  ASSUME Inv, AppAllocates \/ UseHeapBelow
  PROVE  Inv'
<1> USE DEF Inv
<1>1. /\ OthersAllocate \/ OthersFree
      /\ others' = (others \/ OnItsWay)
      /\ pc["disk"] = "done" \/ (mailbox = <<>> /\ spc = "idle")
      /\ UNCHANGED <<pc, stack, mutex, st2send, mailbox, spc, cur, buf, sent, last, answers, read>>
  BY DEF AppAllocates, UseHeapBelow, cvars, svars, dvars
<1>2. Caller' = Caller /\ Pending' = Pending /\ Turns'
  BY <1>1 DEF Caller, Pending, Turns
<1>3. PICK b \in Blocks :
        \/ b \notin used /\ used' = used \union {b} /\ heap' = [heap EXCEPT ![b] = Other]
        \/ b \in used /\ heap[b] = Other /\ used' = used \ {b} /\ heap' = heap
  BY <1>1 DEF OthersAllocate, OthersFree, OthersBlocks, TypeOK
<1>4. TypeOK'
  <2>1. Other \in Structs \union Mutexes \union {Other, [kind |-> "blank"]}
    OBVIOUS
  <2>2. heap' \in [Blocks -> Structs \union Mutexes \union {Other, [kind |-> "blank"]}]
    BY <1>3, <2>1 DEF TypeOK
  <2>3. used' \in SUBSET Blocks /\ others' \in BOOLEAN
    BY <1>1, <1>3 DEF TypeOK, OnItsWay
  <2> QED BY <1>1, <2>2, <2>3 DEF TypeOK
<1>5. /\ \A x \in used \ {b} : heap'[x] = heap[x] /\ x \in used'
      /\ \A x \in used' : (x = b /\ heap'[x] = Other) \/ (x \in used /\ heap'[x] = heap[x])
      /\ \A x \in Blocks : heap'[x] = heap[x] \/ heap'[x] = Other
  BY <1>3 DEF TypeOK
<1>6. HeapOK'
  <2>1. ASSUME HasMutex(Caller) PROVE mutex[Caller] \in used \ {b}
    BY <1>3, <2>1, KindLemma DEF HeapOK
  <2>2. ASSUME HasStruct(Caller) PROVE st2send[Caller] \in used \ {b}
    BY <1>3, <2>2, KindLemma DEF HeapOK
  <2>3. HasMutex(Caller)' = HasMutex(Caller) /\ HasStruct(Caller)' = HasStruct(Caller)
    BY <1>1, <1>2 DEF HasMutex, HasStruct, InCall
  <2> QED BY <1>1, <1>2, <1>5, <2>1, <2>2, <2>3 DEF HeapOK
<1>7. ASSUME ~ OnItsWay \/ (mailbox = <<>> /\ spc = "idle") PROVE Pending = {} /\ spc = "idle"
  <2>1. mailbox = <<>> /\ spc = "idle"
    BY <1>7 DEF OnItsWay
  <2>2. DOMAIN mailbox = {}
    BY <2>1
  <2> QED BY <2>1, <2>2 DEF Pending
<1>8. SlotsOK'
  <2> SUFFICES ASSUME pc["disk"] = "done", ~ others' PROVE SlotsOK'
    BY <1>1 DEF SlotsOK
  <2>1. ~ OnItsWay
    BY <1>1
  <2>2. Pending = {} /\ ~ InCall("key_sm")
    BY <1>7, <2>1 DEF OnItsWay, Clients
  <2>3. ~ HasMutex("key_sm")' /\ ~ HasStruct("key_sm")'
    BY <1>1, <2>2 DEF HasMutex, HasStruct, InCall
  <2> QED BY <1>2, <2>2, <2>3 DEF SlotsOK
<1>9. SenderOK'
  <2>1. Undisturbed' => Pending = {} /\ spc = "idle"
    <3>1. ~ others' => ~ OnItsWay
      BY <1>1
    <3>2. Undisturbed' => ~ OnItsWay \/ (mailbox = <<>> /\ spc = "idle")
      BY <1>1, <3>1, Zenon DEF Undisturbed
    <3> QED BY <1>7, <3>2
  <2>2. \A x \in Pending : heap'[x].kind = "struct" => heap'[x] = heap[x]
    BY <1>5, KindLemma DEF SenderOK
  <2> QED BY <1>1, <1>2, <2>1, <2>2 DEF SenderOK
<1>10. DiskOK' /\ KeyOK'
  BY <1>1, <1>2 DEF DiskOK, KeyOK, Fresh
<1> QED BY <1>2, <1>4, <1>6, <1>8, <1>9, <1>10
-----------------------------------------------------------------------------
(* common_commu_send.                                                      *)

LEMMA LowestLemma ==
  ASSUME Blocks \ used # {}
  PROVE  LowestFree \in Blocks \ used
<1>1. Blocks \ used \subseteq Nat
  BY CommuSendAssumption DEF Blocks
<1> QED BY <1>1, MinLemma DEF LowestFree

(* Only the client whose turn it is is in a call.                          *)
LEMMA TurnLemma ==
  ASSUME Inv, NEW c \in Clients,
         pc[c] \in {"create", "malloc", "post", "take", "free", "delete"},
         NEW to \in {"malloc", "post", "take", "free", "delete", IF c = "disk" THEN "await" ELSE "idle"},
         pc' = [pc EXCEPT ![c] = to]
  PROVE  /\ c = Caller /\ Caller' = Caller /\ pc'[c] = to
         /\ stack' = stack => Turns'
         /\ pc' \in [Clients -> {"idle", "delay", "create", "malloc", "post", "take",
                                 "free", "delete", "await", "done"}]
         /\ pc["disk"] = "done" <=> c = "key_sm"
         /\ pc'["disk"] = "done" <=> c = "key_sm"
<1>1. /\ pc["disk"] = "done" => pc'["disk"] = "done"
      /\ c = "key_sm" => pc["disk"] = "done" /\ pc'["key_sm"] = to
      /\ c = "disk" => pc["disk"] # "done" /\ pc'["disk"] = to
  BY DEF Inv, TypeOK, Turns, Clients
<1>2. c = Caller /\ Caller' = Caller /\ pc'[c] = to
  BY <1>1 DEF Caller, Clients
<1>3. stack' = stack => Turns'
  BY DEF Inv, Turns, TypeOK, Clients
<1>4. pc' \in [Clients -> {"idle", "delay", "create", "malloc", "post", "take",
                          "free", "delete", "await", "done"}]
  BY DEF Inv, TypeOK, Clients
<1> QED BY <1>1, <1>2, <1>3, <1>4 DEF Clients

(* A step that gives or takes no block of others leaves both slots where   *)
(* they are.                                                               *)
LEMMA SlotLemma ==
  ASSUME \A b : (b \in used' /\ heap'[b] = Other) <=> (b \in used /\ heap[b] = Other)
  PROVE  OthersBlocks' = OthersBlocks /\ First' = First /\ Second' = Second
<1>1. OthersBlocks' = OthersBlocks
  BY DEF OthersBlocks
<1>2. First' = First
  BY <1>1 DEF First
<1> QED BY <1>1, <1>2 DEF Second

LEMMA CreateMutexInv ==
  ASSUME Inv, NEW c \in Clients, CreateMutex(c)
  PROVE  Inv'
<1> USE DEF Inv
<1>1. /\ pc[c] = "create" /\ pc' = [pc EXCEPT ![c] = "malloc"]
      /\ Blocks \ used # {} /\ used' = used \union {LowestFree}
      /\ heap' = [heap EXCEPT ![LowestFree] = NewMutex]
      /\ mutex' = [mutex EXCEPT ![c] = LowestFree]
      /\ UNCHANGED <<stack, st2send, others, mailbox, spc, cur, buf, sent, last, answers, read>>
  BY DEF CreateMutex, Goto, Allocate, NewMutex, svars, dvars
<1>2. /\ c = Caller /\ Caller' = Caller /\ pc'[c] = "malloc" /\ Turns' /\ Pending' = Pending
      /\ pc["disk"] = "done" <=> c = "key_sm"
      /\ pc'["disk"] = "done" <=> c = "key_sm"
  <2>1. Pending' = Pending
    BY <1>1 DEF Pending
  <2> QED BY <1>1, <2>1, TurnLemma
<1>3. PICK n \in Blocks \ used : n = LowestFree
  BY <1>1, LowestLemma
<1>4. /\ used' = used \union {n} /\ heap' = [heap EXCEPT ![n] = NewMutex]
      /\ mutex' = [mutex EXCEPT ![c] = n]
  BY <1>1, <1>3
<1>5. NewMutex \in Mutexes
  BY DEF NewMutex, Mutexes
<1>6. TypeOK'
  BY <1>1, <1>2, <1>4, <1>5, TurnLemma DEF TypeOK
<1>7. /\ heap'[n] = NewMutex /\ mutex'[c] = n
      /\ \A b \in Blocks : b # n => heap'[b] = heap[b]
  BY <1>4 DEF TypeOK
<1>8. \A b \in used : heap[b] = Other
  BY <1>1, <1>2 DEF HeapOK, HasMutex, HasStruct, InCall
<1>9. HeapOK'
  BY <1>1, <1>2, <1>3, <1>4, <1>5, <1>7, <1>8, <1>6 DEF HeapOK, HasMutex, HasStruct, InCall, TypeOK
<1>10. OthersBlocks' = OthersBlocks /\ First' = First /\ Second' = Second
  <2>1. ASSUME NEW b PROVE (b \in used' /\ heap'[b] = Other) <=> (b \in used /\ heap[b] = Other)
    BY <1>3, <1>4, <1>5, <1>7, KindLemma DEF TypeOK
  <2> QED BY <2>1, SlotLemma
<1>11. n = First
  <2>1. OthersBlocks = used
    BY <1>8 DEF OthersBlocks
  <2> QED BY <1>3, <2>1 DEF First, LowestFree
<1>12. SlotsOK'
  BY <1>1, <1>2, <1>7, <1>10, <1>11 DEF SlotsOK, HasMutex, HasStruct, InCall
<1>13. SenderOK'
  <2>1. ASSUME pc["disk"] # "done" PROVE Pending = {}
    <3>1. mailbox = <<>> /\ spc = "idle"
      BY <1>1, <1>2, <2>1 DEF DiskOK, Clients
    <3>2. DOMAIN mailbox = {}
      BY <3>1
    <3> QED BY <3>1, <3>2 DEF Pending
  <2>2. Undisturbed' = Undisturbed
    BY <1>1, <1>2 DEF Undisturbed
  <2>3. ASSUME Undisturbed PROVE n \notin Pending
    BY <1>11, <2>1, <2>3 DEF SlotsOK, Undisturbed
  <2>4. heap'[n].kind # "struct"
    BY <1>5, <1>7, KindLemma
  <2> QED BY <1>1, <1>2, <1>7, <2>2, <2>3, <2>4 DEF SenderOK
<1>14. DiskOK' /\ KeyOK'
  BY <1>1, <1>2 DEF DiskOK, KeyOK, Fresh, Clients
<1> QED BY <1>2, <1>6, <1>9, <1>12, <1>13, <1>14

LEMMA FillStructInv ==
  ASSUME Inv, NEW c \in Clients, FillStruct(c)
  PROVE  Inv'
<1> USE DEF Inv
<1> DEFINE new == [kind |-> "struct", buf |-> c, mutex |-> mutex[c]]
<1>1. /\ pc[c] = "malloc" /\ pc' = [pc EXCEPT ![c] = "post"]
      /\ Blocks \ used # {} /\ used' = used \union {LowestFree}
      /\ heap' = [heap EXCEPT ![LowestFree] = new]
      /\ st2send' = [st2send EXCEPT ![c] = LowestFree]
      /\ UNCHANGED <<stack, mutex, others, mailbox, spc, cur, buf, sent, last, answers, read>>
  BY DEF FillStruct, Goto, Allocate, svars, dvars
<1>2. /\ c = Caller /\ Caller' = Caller /\ pc'[c] = "post" /\ Turns' /\ Pending' = Pending
      /\ pc["disk"] = "done" <=> c = "key_sm"
      /\ pc'["disk"] = "done" <=> c = "key_sm"
  <2>1. Pending' = Pending
    BY <1>1 DEF Pending
  <2> QED BY <1>1, <2>1, TurnLemma
<1>3. /\ mutex[c] \in used /\ heap[mutex[c]] \in Mutexes
      /\ \A b \in used : heap[b] = Other \/ b = mutex[c]
  BY <1>1, <1>2 DEF HeapOK, HasMutex, HasStruct, InCall
<1>4. PICK n \in Blocks \ used : n = LowestFree
  BY <1>1, LowestLemma
<1>5. /\ used' = used \union {n} /\ heap' = [heap EXCEPT ![n] = new]
      /\ st2send' = [st2send EXCEPT ![c] = n]
  BY <1>1, <1>4
<1>6. new \in Structs /\ new.buf = c /\ new.kind = "struct"
  BY <1>3 DEF Structs, TypeOK
<1> HIDE DEF new
<1>7. TypeOK'
  BY <1>1, <1>2, <1>5, <1>6, TurnLemma DEF TypeOK
<1>8. /\ heap'[n] = new /\ st2send'[c] = n
      /\ \A b \in Blocks : b # n => heap'[b] = heap[b]
  BY <1>5 DEF TypeOK
<1>9. HeapOK'
  <2>1. HasMutex(c)' /\ HasStruct(c)'
    BY <1>2 DEF HasMutex, HasStruct, InCall
  <2>2. mutex'[c] = mutex[c] /\ mutex[c] # n /\ mutex[c] \in Blocks /\ heap'[mutex[c]] = heap[mutex[c]]
    BY <1>1, <1>3, <1>8 DEF TypeOK
  <2>3. \A b \in used' : heap'[b] = Other \/ b = mutex[c] \/ b = n
    BY <1>3, <1>5, <1>8 DEF TypeOK
  <2> QED BY <1>2, <1>3, <1>5, <1>6, <1>8, <2>1, <2>2, <2>3 DEF HeapOK
<1>10. OthersBlocks' = OthersBlocks /\ First' = First /\ Second' = Second
  <2>1. ASSUME NEW b PROVE (b \in used' /\ heap'[b] = Other) <=> (b \in used /\ heap[b] = Other)
    BY <1>4, <1>5, <1>6, <1>8, KindLemma DEF TypeOK
  <2> QED BY <2>1, SlotLemma
<1>11. ASSUME pc["disk"] = "done", ~ others PROVE n = Second /\ mutex[c] = First
  <2>1. mutex[c] = First
    BY <1>1, <1>2, <1>11 DEF SlotsOK, HasMutex, InCall
  <2>2. used = OthersBlocks \union {First}
    BY <1>3, <2>1 DEF OthersBlocks
  <2> QED BY <1>4, <2>1, <2>2 DEF Second, LowestFree
<1>12. SlotsOK'
  BY <1>1, <1>2, <1>8, <1>10, <1>11 DEF SlotsOK, HasMutex, HasStruct, InCall
<1>13. SenderOK'
  <2>1. Undisturbed' = Undisturbed
    BY <1>1, <1>2 DEF Undisturbed
  <2> QED BY <1>1, <1>2, <1>6, <1>8, <2>1 DEF SenderOK
<1>14. DiskOK' /\ KeyOK'
  BY <1>1, <1>2 DEF DiskOK, KeyOK, Fresh, Clients
<1> QED BY <1>2, <1>7, <1>9, <1>12, <1>13, <1>14

LEMMA PostMailInv ==
  ASSUME Inv, NEW c \in Clients, PostMail(c)
  PROVE  Inv'
<1> USE DEF Inv
<1>1. /\ pc[c] = "post" /\ pc' = [pc EXCEPT ![c] = "take"]
      /\ mailbox' = IF Len(mailbox) < MbSize THEN Append(mailbox, st2send[c]) ELSE mailbox
      /\ UNCHANGED <<stack, mutex, st2send, used, heap, others, spc, cur, buf, sent, last, answers, read>>
  BY DEF PostMail, Goto, hvars, svars, dvars
<1>2. /\ c = Caller /\ Caller' = Caller /\ pc'[c] = "take" /\ Turns'
      /\ pc["disk"] = "done" <=> c = "key_sm"
      /\ pc'["disk"] = "done" <=> c = "key_sm"
  BY <1>1, TurnLemma
<1>3. /\ mutex[c] \in used /\ heap[mutex[c]] \in Mutexes
      /\ st2send[c] \in used /\ st2send[c] \in Blocks
      /\ heap[st2send[c]] \in Structs /\ heap[st2send[c]].buf = c
  BY <1>1, <1>2 DEF HeapOK, HasMutex, HasStruct, InCall, TypeOK
<1>4. /\ mailbox' \in Seq(Blocks) /\ Len(mailbox') <= MbSize
      /\ mailbox' # <<>>
      /\ \A i \in DOMAIN mailbox' : (i \in DOMAIN mailbox /\ mailbox'[i] = mailbox[i]) \/ mailbox'[i] = st2send[c]
      /\ mailbox = <<>> => Len(mailbox') = 1
  <2>1. mailbox \in Seq(Blocks) /\ Len(mailbox) \in Nat /\ Len(mailbox) <= MbSize
    BY DEF TypeOK
  <2>2. CASE Len(mailbox) < MbSize
    <3>1. mailbox' = Append(mailbox, st2send[c])
      BY <1>1, <2>2
    <3>2. /\ mailbox' \in Seq(Blocks) /\ Len(mailbox') = Len(mailbox) + 1 /\ mailbox' # <<>>
          /\ \A i \in 1..Len(mailbox) : mailbox'[i] = mailbox[i]
          /\ mailbox'[Len(mailbox) + 1] = st2send[c]
          /\ DOMAIN mailbox' = 1..(Len(mailbox) + 1) /\ DOMAIN mailbox = 1..Len(mailbox)
      BY <1>3, <2>1, <3>1
    <3> QED BY <2>1, <2>2, <3>2, CommuSendAssumption
  <2>3. CASE ~ (Len(mailbox) < MbSize)
    <3>1. mailbox' = mailbox /\ mailbox # <<>>
      BY <1>1, <2>1, <2>3, CommuSendAssumption
    <3> QED BY <2>1, <3>1
  <2> QED BY <2>2, <2>3
<1>5. Pending' \subseteq Pending \union {st2send[c]}
  BY <1>1, <1>4 DEF Pending
<1>6. TypeOK'
  BY <1>1, <1>4, TurnLemma DEF TypeOK
<1>7. HeapOK'
  BY <1>1, <1>2 DEF HeapOK, HasMutex, HasStruct, InCall
<1>8. OthersBlocks' = OthersBlocks /\ First' = First /\ Second' = Second
  BY <1>1, SlotLemma
<1>9. SlotsOK'
  <2>1. mutex[c] # st2send[c]
    BY <1>3, KindLemma
  <2>2. HasMutex(c) /\ HasStruct(c) /\ HasMutex(c)' /\ HasStruct(c)'
    BY <1>1, <1>2 DEF HasMutex, HasStruct, InCall
  <2> QED BY <1>1, <1>2, <1>5, <1>8, <2>1, <2>2 DEF SlotsOK
<1>10. SenderOK'
  <2>1. Undisturbed' = Undisturbed
    BY <1>1, <1>2 DEF Undisturbed
  <2>2. heap[st2send[c]].kind = "struct"
    BY <1>3, KindLemma
  <2> QED BY <1>1, <1>2, <1>3, <1>5, <2>1, <2>2 DEF SenderOK
<1>11. DiskOK'
  <2> SUFFICES ASSUME pc'["disk"] # "done" PROVE DiskOK'
    BY DEF DiskOK
  <2>1. c = "disk" /\ mailbox = <<>> /\ spc = "idle" /\ answers = <<>>
    BY <1>1, <1>2 DEF DiskOK, Clients
  <2>2. Pending = {}
    BY <2>1 DEF Pending
  <2>3. Fresh("disk")'
    BY <1>1, <2>1 DEF Fresh
  <2> QED BY <1>1, <1>2, <1>4, <1>5, <2>1, <2>2, <2>3 DEF DiskOK
<1>12. KeyOK'
  BY <1>4 DEF KeyOK
<1> QED BY <1>2, <1>6, <1>7, <1>9, <1>10, <1>11, <1>12

LEMMA TakeMutexInv ==
  ASSUME Inv, NEW c \in Clients, TakeMutex(c)
  PROVE  Inv'
<1> USE DEF Inv
<1>1. /\ pc[c] = "take" /\ pc' = [pc EXCEPT ![c] = "free"]
      /\ heap' = [heap EXCEPT ![mutex[c]].owner = c]
      /\ UNCHANGED <<stack, mutex, st2send, used, others, mailbox, spc, cur, buf, sent, last, answers, read>>
  BY DEF TakeMutex, Goto, svars, dvars
<1>2. /\ c = Caller /\ Caller' = Caller /\ pc'[c] = "free" /\ Turns' /\ Pending' = Pending
      /\ pc["disk"] = "done" <=> c = "key_sm"
      /\ pc'["disk"] = "done" <=> c = "key_sm"
  <2>1. Pending' = Pending
    BY <1>1 DEF Pending
  <2> QED BY <1>1, <2>1, TurnLemma
<1>3. /\ mutex[c] \in used /\ mutex[c] \in Blocks /\ heap[mutex[c]] \in Mutexes
      /\ st2send[c] \in used /\ st2send[c] \in Blocks
      /\ heap[st2send[c]] \in Structs /\ heap[st2send[c]].buf = c
      /\ \A b \in used : heap[b] = Other \/ b = mutex[c] \/ b = st2send[c]
  BY <1>1, <1>2 DEF HeapOK, HasMutex, HasStruct, InCall, TypeOK
<1> DEFINE taken == [heap[mutex[c]] EXCEPT !.owner = c]
<1>4. taken \in Mutexes
  BY <1>3 DEF Mutexes
<1>5. heap' = [heap EXCEPT ![mutex[c]] = taken]
  BY <1>1
<1> HIDE DEF taken
<1>6. /\ heap'[mutex[c]] = taken
      /\ \A b \in Blocks : b # mutex[c] => heap'[b] = heap[b]
  BY <1>3, <1>5 DEF TypeOK
<1>7. mutex[c] # st2send[c]
  BY <1>3, KindLemma
<1>8. TypeOK'
  <2>1. heap' \in [Blocks -> Structs \union Mutexes \union {Other, [kind |-> "blank"]}]
    BY <1>4, <1>5 DEF TypeOK
  <2> QED BY <1>1, <2>1, TurnLemma DEF TypeOK
<1>9. HeapOK'
  <2>1. HasMutex(c)' /\ HasStruct(c)'
    BY <1>2 DEF HasMutex, HasStruct, InCall
  <2>2. heap'[st2send[c]] = heap[st2send[c]]
    BY <1>3, <1>6, <1>7
  <2>3. \A b \in used : heap'[b] = Other \/ b = mutex[c] \/ b = st2send[c]
    BY <1>3, <1>6 DEF TypeOK
  <2> QED BY <1>1, <1>2, <1>3, <1>4, <1>6, <2>1, <2>2, <2>3 DEF HeapOK
<1>10. OthersBlocks' = OthersBlocks /\ First' = First /\ Second' = Second
  <2>1. ASSUME NEW b PROVE (b \in used' /\ heap'[b] = Other) <=> (b \in used /\ heap[b] = Other)
    BY <1>1, <1>3, <1>4, <1>6, KindLemma DEF TypeOK
  <2> QED BY <2>1, SlotLemma
<1>11. SlotsOK'
  <2>1. HasMutex(c) /\ HasStruct(c)
    BY <1>1 DEF HasMutex, HasStruct, InCall
  <2> QED BY <1>1, <1>2, <1>10, <2>1 DEF SlotsOK
<1>12. SenderOK'
  <2>1. Undisturbed' = Undisturbed
    BY <1>1, <1>2 DEF Undisturbed
  <2>2. ASSUME Undisturbed PROVE mutex[c] \notin Pending
    <3>1. CASE c = "disk"
      BY <1>1, <1>2, <1>7, <3>1 DEF DiskOK
    <3>2. CASE c = "key_sm"
      <4>1. mutex[c] = First
        BY <1>1, <1>2, <2>2, <3>2 DEF SlotsOK, HasMutex, InCall, Undisturbed
      <4> QED BY <1>2, <2>2, <3>2, <4>1 DEF SlotsOK, Undisturbed
    <3> QED BY <3>1, <3>2 DEF Clients
  <2>3. heap'[mutex[c]].kind # "struct"
    BY <1>4, <1>6, KindLemma
  <2> QED BY <1>1, <1>2, <1>6, <2>1, <2>2, <2>3 DEF SenderOK
<1>13. DiskOK' /\ KeyOK'
  BY <1>1, <1>2 DEF DiskOK, KeyOK, Fresh, Clients
<1> QED BY <1>2, <1>8, <1>9, <1>11, <1>12, <1>13

(* Freed or not, a block keeps its contents: what is on its way stays.     *)
LEMMA FreeInv ==
  ASSUME Inv, NEW c \in Clients, FreeStruct(c) \/ DeleteMutex(c)
  PROVE  Inv'
<1> USE DEF Inv
<1> DEFINE to == IF pc[c] = "free" THEN "delete" ELSE IF c = "disk" THEN "await" ELSE "idle"
           freed == IF pc[c] = "free" THEN st2send[c] ELSE mutex[c]
<1>1. /\ pc[c] \in {"free", "delete"} /\ pc' = [pc EXCEPT ![c] = to]
      /\ used' = used \ {freed}
      /\ st2send' \in {st2send, [st2send EXCEPT ![c] = NoBlock]}
      /\ mutex' \in {mutex, [mutex EXCEPT ![c] = NoBlock]}
      /\ pc[c] = "free" => mutex' = mutex
      /\ UNCHANGED <<stack, heap, others, mailbox, spc, cur, buf, sent, last, answers, read>>
  BY DEF FreeStruct, DeleteMutex, Goto, Free, svars, dvars
<1>2. to \in {"delete", IF c = "disk" THEN "await" ELSE "idle"}
  OBVIOUS
<1>3. /\ c = Caller /\ Caller' = Caller /\ pc'[c] = to /\ Turns' /\ Pending' = Pending
      /\ pc["disk"] = "done" <=> c = "key_sm"
      /\ pc'["disk"] = "done" <=> c = "key_sm"
  <2>1. Pending' = Pending
    BY <1>1 DEF Pending
  <2> QED BY <1>1, <1>2, <2>1, TurnLemma
<1>4. /\ mutex[c] \in used /\ heap[mutex[c]] \in Mutexes
      /\ pc[c] = "free" => st2send[c] \in used /\ heap[st2send[c]] \in Structs
      /\ \A b \in used : heap[b] = Other \/ b = mutex[c] \/ (pc[c] = "free" /\ b = st2send[c])
  BY <1>1, <1>3 DEF HeapOK, HasMutex, HasStruct, InCall
<1>5. heap[freed] # Other
  BY <1>4, KindLemma
<1>6. pc[c] = "free" => mutex[c] # st2send[c]
  BY <1>4, KindLemma
<1>7. TypeOK'
  BY <1>1, <1>2, TurnLemma DEF TypeOK
<1>8. HeapOK'
  <2>1. ~ HasStruct(c)' /\ (HasMutex(c)' <=> pc[c] = "free")
    BY <1>1, <1>3 DEF HasMutex, HasStruct, InCall
  <2> QED BY <1>1, <1>3, <1>4, <1>6, <2>1 DEF HeapOK
<1>9. OthersBlocks' = OthersBlocks /\ First' = First /\ Second' = Second
  <2>1. \A b : (b \in used' /\ heap'[b] = Other) <=> (b \in used /\ heap[b] = Other)
    BY <1>1, <1>5
  <2> QED BY <2>1, SlotLemma
<1>10. SlotsOK'
  <2>1. HasMutex(c) /\ ~ HasStruct(c)' /\ (HasMutex(c)' <=> pc[c] = "free")
    BY <1>1, <1>3 DEF HasMutex, HasStruct, InCall
  <2> QED BY <1>1, <1>3, <1>9, <2>1 DEF SlotsOK
<1>11. SenderOK'
  <2>1. Undisturbed' = Undisturbed
    BY <1>1, <1>3 DEF Undisturbed
  <2> QED BY <1>1, <1>3, <2>1 DEF SenderOK
<1>12. Fresh("disk")' = Fresh("disk") /\ Fresh("key_sm")' = Fresh("key_sm")
  BY <1>1 DEF Fresh
<1>13. DiskOK'
  BY <1>1, <1>3, <1>12 DEF DiskOK, Clients
<1>14. KeyOK'
  BY <1>1, <1>3, <1>12 DEF KeyOK, Clients
<1> QED BY <1>3, <1>7, <1>8, <1>10, <1>11, <1>13, <1>14
-----------------------------------------------------------------------------
(* The thread commu_send: while it runs, no client posts or takes.         *)
SenderWorks ==
  /\ ClientsWait
  /\ UNCHANGED <<pc, stack, mutex, st2send, used, heap, others, read>>

(* What the clients have and see stays.                                    *)
LEMMA SenderKeeps ==
  ASSUME Inv, SenderWorks
  PROVE  /\ pc["disk"] \notin {"post", "take"} /\ pc["key_sm"] \notin {"post", "take"}
         /\ Caller' = Caller /\ Undisturbed' = Undisturbed
         /\ Turns' /\ HeapOK'
         /\ Pending' \subseteq Pending => SlotsOK'
<1> USE DEF Inv, SenderWorks
<1>1. pc["disk"] \notin {"post", "take"} /\ pc["key_sm"] \notin {"post", "take"}
  BY DEF ClientsWait, Clients
<1>2. Caller' = Caller /\ Undisturbed' = Undisturbed /\ Turns'
  BY DEF Caller, Undisturbed, Turns
<1>3. HeapOK'
  BY <1>2 DEF HeapOK, HasMutex, HasStruct, InCall
<1>4. OthersBlocks' = OthersBlocks /\ First' = First /\ Second' = Second
  BY SlotLemma
<1>5. Pending' \subseteq Pending => SlotsOK'
  BY <1>4 DEF SlotsOK, HasMutex, HasStruct, InCall
<1> QED BY <1>1, <1>2, <1>3, <1>5

LEMMA ReceiveMailInv ==
  ASSUME Inv, ReceiveMail
  PROVE  Inv'
<1> USE DEF Inv
<1>1. /\ SenderWorks
      /\ spc = "idle" /\ spc' = "struct" /\ mailbox # <<>>
      /\ cur' = Head(mailbox) /\ mailbox' = Tail(mailbox)
      /\ UNCHANGED <<buf, sent, last, answers>>
  BY DEF ReceiveMail, GotoS, SenderWorks, cvars, hvars, dvars
<1>2. /\ Len(mailbox) \in Nat \ {0} /\ cur' = mailbox[1] /\ mailbox[1] \in Blocks
      /\ mailbox' \in Seq(Blocks) /\ Len(mailbox') = Len(mailbox) - 1
      /\ \A i \in 1..(Len(mailbox) - 1) : mailbox'[i] = mailbox[i + 1]
      /\ mailbox' = <<>> <=> Len(mailbox) = 1
  BY <1>1, RestLemma DEF TypeOK
<1>3. TypeOK'
  BY <1>1, <1>2, CommuSendAssumption DEF TypeOK, SenderWorks
<1>4. Pending' \subseteq Pending
  <2>1. DOMAIN mailbox = 1..Len(mailbox) /\ DOMAIN mailbox' = 1..(Len(mailbox) - 1)
    BY <1>2 DEF TypeOK
  <2>2. 1 \in DOMAIN mailbox /\ \A i \in DOMAIN mailbox' : i + 1 \in DOMAIN mailbox
    BY <1>2, <2>1
  <2> QED BY <1>2, <2>1, <2>2 DEF Pending
<1>5. /\ pc["disk"] \notin {"post", "take"}
      /\ Caller' = Caller /\ Undisturbed' = Undisturbed
      /\ Turns' /\ HeapOK' /\ SlotsOK'
  BY <1>1, <1>4, SenderKeeps
<1>6. SenderOK'
  BY <1>1, <1>4, <1>5 DEF SenderOK, SenderWorks
<1>7. DiskOK'
  BY <1>1, <1>2, <1>5 DEF DiskOK, Fresh, SenderWorks
<1>8. KeyOK'
  BY <1>1 DEF KeyOK, Fresh
<1> QED BY <1>3, <1>5, <1>6, <1>7, <1>8

LEMMA ReadStructInv ==
  ASSUME Inv, ReadStruct
  PROVE  Inv'
<1> USE DEF Inv
<1>1. /\ SenderWorks
      /\ spc = "struct" /\ (spc' = "bytes" \/ (spc' = "lost" /\ heap[cur].kind # "struct"))
      /\ buf' = IF heap[cur].kind = "struct" THEN heap[cur].buf ELSE Garbage
      /\ UNCHANGED <<mailbox, cur, sent, last, answers>>
  BY DEF ReadStruct, GetsLost, GotoS, SenderWorks, cvars, hvars, dvars
<1>2. Pending' \subseteq Pending /\ cur \in Pending
  BY <1>1 DEF Pending
<1>3. /\ pc["disk"] \notin {"post", "take"} /\ pc["key_sm"] \notin {"post", "take"}
      /\ Caller' = Caller /\ Undisturbed' = Undisturbed
      /\ Turns' /\ HeapOK' /\ SlotsOK'
  BY <1>1, <1>2, SenderKeeps
<1>4. /\ heap[cur].kind = "struct" => heap[cur].buf = Caller
      /\ Undisturbed => heap[cur].kind = "struct"
  BY <1>2 DEF SenderOK
<1>5. /\ buf' \in {Caller, Garbage} /\ Caller \in Clients
      /\ Undisturbed => buf' = Caller /\ spc' = "bytes"
  BY <1>1, <1>4 DEF Caller, Clients
<1>6. TypeOK'
  BY <1>1, <1>5 DEF TypeOK, SenderWorks
<1>7. sent = <<>> /\ Len(sent) = 0 /\ DOMAIN sent = {}
  BY <1>1 DEF SenderOK
<1>8. SenderOK'
  BY <1>1, <1>2, <1>3, <1>5, <1>7 DEF SenderOK, SenderWorks
<1>9. DiskOK' /\ KeyOK'
  BY <1>1, <1>2, <1>3, <1>7 DEF DiskOK, KeyOK, Fresh, SenderWorks
<1> QED BY <1>3, <1>6, <1>8, <1>9

LEMMA SendPartInv ==
  ASSUME Inv, SendPart
  PROVE  Inv'
<1> USE DEF Inv
<1> DEFINE part == IF buf = Garbage THEN Garbage ELSE stack[buf]
<1>1. /\ SenderWorks
      /\ spc = "bytes" /\ spc' = IF Len(sent) = 1 THEN "release" ELSE "bytes"
      /\ sent' = Append(sent, part)
      /\ UNCHANGED <<mailbox, cur, buf, last, answers>>
  BY DEF SendPart, GotoS, SenderWorks, cvars, hvars, dvars
<1>2. /\ buf \in {Caller, Garbage} /\ (Undisturbed => buf = Caller)
      /\ Caller \in Clients /\ stack[Caller] \in Payloads \union {Garbage}
  BY <1>1 DEF SenderOK, Caller, Clients, TypeOK
<1>3. part \in Payloads \union {Garbage} /\ (Undisturbed => part = stack[Caller])
  BY <1>2, CommuSendAssumption
<1> HIDE DEF part
<1>4. /\ sent \in Seq(Payloads \union {Garbage}) /\ Len(sent) \in {0, 1}
  <2>1. sent \in Seq(Payloads \union {Garbage}) /\ Len(sent) <= 1
    BY <1>1 DEF SenderOK, TypeOK
  <2>2. \A n \in Nat : n <= 1 => n \in {0, 1}
    OBVIOUS
  <2>3. Len(sent) \in Nat
    BY <2>1
  <2> QED BY <2>1, <2>2, <2>3, Zenon
<1>5. /\ sent' \in Seq(Payloads \union {Garbage}) /\ Len(sent') = Len(sent) + 1
      /\ DOMAIN sent = 1..Len(sent) /\ DOMAIN sent' = 1..(Len(sent) + 1)
      /\ \A i \in 1..Len(sent) : sent'[i] = sent[i]
      /\ sent'[Len(sent) + 1] = part
  BY <1>1, <1>3, <1>4
<1>6. spc' \in {"bytes", "release"} /\ (Len(sent') = 2 <=> spc' = "release") /\ Len(sent') \in {1, 2}
  BY <1>1, <1>4, <1>5
<1>7. Pending' \subseteq Pending
  BY <1>1 DEF Pending
<1>8. /\ pc["disk"] \notin {"post", "take"} /\ pc["key_sm"] \notin {"post", "take"}
      /\ Caller' = Caller /\ Undisturbed' = Undisturbed
      /\ Turns' /\ HeapOK' /\ SlotsOK'
  BY <1>1, <1>7, SenderKeeps
<1>9. ASSUME Fresh(Caller), Undisturbed PROVE Fresh(Caller)'
  <2>1. sent'[Len(sent) + 1] = stack[Caller]
    BY <1>3, <1>5, <1>9
  <2>2. \A i \in 1..Len(sent) : sent'[i] = stack[Caller]
    BY <1>1, <1>5, <1>9 DEF Fresh
  <2>3. \A i \in 1..(Len(sent) + 1) : i \in 1..Len(sent) \/ i = Len(sent) + 1
    BY <1>4
  <2>4. \A i \in DOMAIN sent' : sent'[i] = stack[Caller]
    BY <1>5, <2>1, <2>2, <2>3
  <2> QED BY <1>1, <1>8, <2>4 DEF Fresh, SenderWorks
<1>10. TypeOK'
  BY <1>1, <1>5, <1>6 DEF TypeOK, SenderWorks
<1>11. SenderOK'
  BY <1>1, <1>2, <1>6, <1>7, <1>8 DEF SenderOK, SenderWorks
<1>12. DiskOK'
  BY <1>1, <1>6, <1>7, <1>8, <1>9 DEF DiskOK, Caller, Undisturbed, SenderWorks
<1>13. KeyOK'
  BY <1>1, <1>6, <1>8, <1>9 DEF KeyOK, Caller, Undisturbed, SenderWorks
<1> QED BY <1>8, <1>10, <1>11, <1>12, <1>13

LEMMA ReleaseMutexInv ==
  ASSUME Inv, ReleaseMutex
  PROVE  Inv'
<1> USE DEF Inv
<1>1. /\ SenderWorks
      /\ spc = "release" /\ (spc' = "idle" \/ (spc' = "lost" /\ heap[cur].kind # "struct"))
      /\ last' = sent /\ answers' \in Answers(sent)
      /\ cur' = NoBlock /\ buf' = Garbage /\ sent' = <<>>
      /\ UNCHANGED <<mailbox>>
  BY DEF ReleaseMutex, GetsLost, GotoS, SenderWorks, cvars, hvars
<1>2. Pending' \subseteq Pending /\ cur \in Pending
  BY <1>1 DEF Pending
<1>3. /\ pc["disk"] \notin {"post", "take"} /\ pc["key_sm"] \notin {"post", "take"}
      /\ Caller' = Caller /\ Undisturbed' = Undisturbed
      /\ Turns' /\ HeapOK' /\ SlotsOK'
  BY <1>1, <1>2, SenderKeeps
<1>4. /\ buf \in {Caller, Garbage} /\ (Undisturbed => buf = Caller)
      /\ sent \in Seq(Payloads \union {Garbage}) /\ Len(sent) = 2
      /\ 1 \in DOMAIN sent /\ 2 \in DOMAIN sent
      /\ Undisturbed => heap[cur].kind = "struct"
  BY <1>1, <1>2 DEF SenderOK, TypeOK
<1>5. Undisturbed => spc' = "idle"
  BY <1>1, <1>4
<1>6. ASSUME Fresh(Caller)
      PROVE  sent[1] = stack[Caller] /\ sent[2] = stack[Caller] /\ sent = <<stack[Caller], stack[Caller]>>
  <2>1. sent[1] = stack[Caller] /\ sent[2] = stack[Caller]
    BY <1>1, <1>4, <1>6 DEF Fresh
  <2>2. /\ <<sent[1], sent[2]>> \in Seq(Payloads \union {Garbage})
        /\ Len(<<sent[1], sent[2]>>) = 2
        /\ <<sent[1], sent[2]>>[1] = sent[1] /\ <<sent[1], sent[2]>>[2] = sent[2]
    BY <1>4
  <2>3. sent = <<sent[1], sent[2]>>
    BY <1>4, <2>2, SeqEqual
  <2> QED BY <2>1, <2>3
<1>7. /\ pc["disk"] = "done" => answers' = answers
      /\ pc["disk"] # "done" =>
           /\ answers = <<>> /\ stack["disk"] \in Requests
           /\ answers' = <<>> \/ (answers' = <<stack["disk"].sector>> /\ Len(answers') <= AnswerSize)
  <2>1. CASE pc["disk"] = "done"
    <3>1. buf # "disk"
      BY <1>4, <2>1, CommuSendAssumption DEF Caller, Clients
    <3> QED BY <1>1, <2>1, <3>1 DEF Answers, Answer
  <2>2. CASE pc["disk"] # "done"
    <3>1. answers = <<>> /\ Fresh("disk") /\ Caller = "disk" /\ stack["disk"] \in Requests
      BY <1>1, <2>2 DEF DiskOK, Caller, Turns
    <3>2. sent[1] = stack["disk"] /\ sent[2] = stack["disk"]
      BY <1>6, <3>1
    <3>3. /\ Len(<<>>) = 0 /\ Append(<<>>, stack["disk"].sector) = <<stack["disk"].sector>>
          /\ Len(<<stack["disk"].sector>>) = 1
      OBVIOUS
    <3>4. Answer(sent) \in {<<>>, <<stack["disk"].sector>>} /\ Len(Answer(sent)) <= AnswerSize
      BY <3>1, <3>2, <3>3, CommuSendAssumption DEF Answer
    <3>5. answers' \in {Answer(sent), answers}
      BY <1>1 DEF Answers
    <3> QED BY <2>2, <3>1, <3>3, <3>4, <3>5
  <2> QED BY <2>1, <2>2
<1>8. answers' \in Seq(Sectors \union {Garbage}) /\ Len(answers') <= AnswerSize
  <2>1. CASE pc["disk"] = "done" \/ answers' = <<>>
    BY <1>7, <2>1, CommuSendAssumption DEF TypeOK
  <2>2. CASE /\ answers' = <<stack["disk"].sector>> /\ Len(answers') <= AnswerSize
             /\ stack["disk"] \in Requests
    <3>1. stack["disk"].sector \in Sectors
      BY <2>2 DEF Requests
    <3> QED BY <2>2, <3>1
  <2> QED BY <1>7, <2>1, <2>2
<1>9. TypeOK'
  <2>1. <<>> \in Seq(Payloads \union {Garbage}) /\ Len(<<>>) = 0
    OBVIOUS
  <2> QED BY <1>1, <1>4, <1>8, <2>1 DEF TypeOK, SenderWorks
<1>10. SenderOK'
  BY <1>1, <1>2, <1>3, <1>5 DEF SenderOK, SenderWorks
<1>11. DiskOK'
  <2> SUFFICES ASSUME pc["disk"] # "done" PROVE DiskOK'
    BY <1>1 DEF DiskOK, SenderWorks
  <2>1. mailbox = <<>> /\ pc["disk"] \in {"free", "delete", "await"}
    BY <1>1, <1>3 DEF DiskOK, TypeOK, Turns, Clients
  <2>2. spc' = "idle"
    BY <1>5 DEF Undisturbed
  <2> QED BY <1>1, <1>7, <2>1, <2>2 DEF DiskOK, Fresh, SenderWorks
<1>12. KeyOK'
  BY <1>1, <1>3, <1>5, <1>6 DEF KeyOK, Caller, Fresh, Undisturbed, SenderWorks
<1> QED BY <1>3, <1>9, <1>10, <1>11, <1>12
-----------------------------------------------------------------------------
LEMMA NextInv == Inv /\ [Next]_vars => Inv'
<1> SUFFICES ASSUME Inv, [Next]_vars PROVE Inv'
  OBVIOUS
<1>1. CASE UNCHANGED vars
  <2>1. UNCHANGED <<pc, stack, mutex, st2send, used, heap, others, mailbox, spc, cur, buf, sent, last, answers, read>>
    BY <1>1 DEF vars, cvars, hvars, svars, dvars
  <2>2. Caller' = Caller /\ Pending' = Pending /\ TypeOK' /\ Turns' /\ KeyOK'
    BY <2>1 DEF Caller, Pending, Inv, TypeOK, Turns, KeyOK, Fresh
  <2>3. HeapOK' /\ SenderOK' /\ DiskOK'
    BY <2>1, <2>2 DEF Inv, HeapOK, HasMutex, HasStruct, InCall, SenderOK, Undisturbed, DiskOK, Fresh
  <2>4. SlotsOK'
    BY <2>1, <2>2 DEF Inv, SlotsOK, HasMutex, HasStruct, InCall, First, Second, OthersBlocks
  <2> QED BY <2>2, <2>3, <2>4 DEF Inv
<1> QED BY <1>1, TakeReportInv, LoopInv, GetSectorInv, OthersInv, CreateMutexInv, FillStructInv,
           PostMailInv, TakeMutexInv, FreeInv, ReceiveMailInv, ReadStructInv, SendPartInv,
           ReleaseMutexInv DEF Next, CallStep, SenderStep

THEOREM Invariance == Spec => []Inv
BY InitInv, NextInv, PTL DEF Spec

(* Types: the mailbox holds addresses of heap blocks, the sender never     *)
(* reads a block that is not one, a frame has its two parts, and what      *)
(* comes back is a sector; whatever other threads do with the heap.        *)
THEOREM TypesHold == Spec => []TypeOK
<1>1. Inv => TypeOK
  BY DEF Inv
<1> QED BY <1>1, Invariance, PTL

(* Between reports, and with nothing left to send, the last frame on the   *)
(* wire is the last report, unless other threads have used the heap with a *)
(* frame on its way: through freed structs, an overwritten buffer and      *)
(* posts that a full mailbox dropped.                                      *)
THEOREM LastReportIsConveyed == Spec => []LastReportWins
<1>1. Inv => LastReportWins
  BY DEF Inv, KeyOK, LastReportWins, TypeOK, Turns
<1> QED BY <1>1, Invariance, PTL

(* Every disk read takes the first of the sectors that it asked for,       *)
(* whatever other threads do with the heap and however many sectors it     *)
(* asks for, and leaves no answer to an earlier request behind.            *)
THEOREM ReadsGetTheirSector == Spec => ReadsAskedSector
<1>1. Inv /\ [Next]_vars => [GetSector => /\ read'[1] = stack["disk"].sector
                                          /\ answers' = <<>>]_vars
  BY GetSectorInv
<1>2. Spec => [][GetSector => /\ read'[1] = stack["disk"].sector
                              /\ answers' = <<>>]_vars
  BY <1>1, Invariance, PTL DEF Spec
<1> QED BY <1>2 DEF ReadsAskedSector
=============================================================================
