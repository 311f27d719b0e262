------------------------------- MODULE Uplink -------------------------------
(***************************************************************************)
(* From the slave to the master.  On the slave (slave2/USER/commu_mcu.c)   *)
(* commu_send is called from two places: the main loop sends the reports   *)
(* of the key matrix, and the USART interrupt handler, on the last byte of *)
(* a read command, sends a sector of the flash.  Nothing keeps the handler *)
(* from starting between two bytes of a report.  On the master             *)
(* commu_recv_handle reassembles packages from the bytes and the thread    *)
(* commu hands them to mq_key_ms or mq_flash_read.                         *)
(***************************************************************************)
EXTENDS FrameReceiver, SequencesExt

CONSTANTS KeyType, FlashType,  \* KEYBOARD_MS and FLASH_READ_DATA
          KeyLen, FlashLen,    \* 8 and 512
          Reports, Sectors,    \* the data of a key report, of a sector
          QueueSize,           \* the number of messages of mq_commu_recv
          MaxPreemptions       \* how often a reply may cut into a report

ASSUME UplinkAssumption ==
       /\ {KeyType, FlashType} \subseteq Bytes
       /\ Reports \subseteq [1..KeyLen -> Bytes]
       /\ Sectors \subseteq [1..FlashLen -> Bytes]
       /\ {KeyLen, FlashLen} \subseteq 1..(BufSize - 3)
       /\ {KeyLen, FlashLen} \subseteq 0..(Radix * Radix - 1)
       /\ KeyType # FlashType
       /\ QueueSize \in Nat /\ MaxPreemptions \in Nat

VARIABLES main,     \* the bytes the main loop has yet to send of its frame
          isr,      \* the bytes the handler has yet to send
          sending,  \* the frames begun and not finished, innermost first
          recvq,    \* mq_commu_recv
          handed,   \* what the thread commu handed over last, and to which queue
          preempted \* how often a reply has cut into a report
vars == <<rvars, main, isr, sending, recvq, handed, preempted>>

Frames  == [type : {KeyType}, data : Reports] \union [type : {FlashType}, data : Sectors]
Encode(f) == <<HeadByte, Len(f.data) \div Radix, Len(f.data) % Radix, f.type>> \o f.data

TypeOK == /\ ReceiverTypeOK
          /\ main \in Seq(Bytes) /\ isr \in Seq(Bytes)
          /\ sending \in Seq(Frames)
          /\ Len(sending) = (IF main # <<>> THEN 1 ELSE 0) + (IF isr # <<>> THEN 1 ELSE 0)
          /\ recvq \in Seq([type : Bytes, data : Seq(Bytes)]) /\ Len(recvq) <= QueueSize
          /\ preempted \in 0..MaxPreemptions

Init == /\ ReceiverInit
        /\ main = <<>> /\ isr = <<>> /\ sending = <<>>
        /\ recvq = <<>> /\ handed = <<"nobody", <<>>>>
        /\ preempted = 0

(* keyboard_send_commu, called by keyboard_scan when the report changes.   *)
SendKeys ==
  /\ main = <<>> /\ isr = <<>>
  /\ \E d \in Reports : LET f == [type |-> KeyType, data |-> d] IN
       main' = Encode(f) /\ sending' = <<f>>
  /\ UNCHANGED <<rvars, isr, recvq, handed, preempted>>

(* commu_recv on FLASH_READ_CMD, inside the USART interrupt.  What its     *)
(* printf sends first, a receiver between frames skips, and one that is    *)
(* cut takes for more of the cut.                                          *)
SendSector ==
  /\ isr = <<>>
  /\ main # <<>> => preempted < MaxPreemptions
  /\ preempted' = IF main # <<>> THEN preempted + 1 ELSE preempted
  /\ \E d \in Sectors : LET f == [type |-> FlashType, data |-> d] IN
       isr' = Encode(f) /\ sending' = <<f>> \o sending
  /\ UNCHANGED <<rvars, main, recvq, handed>>

(* Mutant: a package is linked into a full queue.                          *)
EnqueueAlways == recvq' = IF Completes /\ len + 3 <= BufSize
                          THEN Append(recvq, [type |-> PackageType, data |-> PackageData])
                          ELSE recvq

(* rt_mq_send(mq_commu_recv, recv_buf, len + 3): a package longer than a   *)
(* message is refused, one that finds the queue full is dropped.           *)
Enqueue == recvq' = IF Completes /\ len + 3 <= BufSize /\ Len(recvq) < QueueSize
                    THEN Append(recvq, [type |-> PackageType, data |-> PackageData])
                    ELSE recvq

(* A byte crosses the wire: usart_putchar here, USART2_IRQHandler there.   *)
(* Bytes of the handler go first.                                          *)
PutChar ==
  /\ isr \o main # <<>>
  /\ ReceiveByte(Head(isr \o main))
  /\ Enqueue
  /\ IF isr # <<>> THEN isr' = Tail(isr) /\ UNCHANGED main
                   ELSE main' = Tail(main) /\ UNCHANGED isr
  /\ sending' = IF Len(IF isr # <<>> THEN isr ELSE main) = 1 THEN Tail(sending) ELSE sending
  /\ UNCHANGED <<handed, preempted>>

(* The first n bytes of a message.  Past the end of the package they are   *)
(* whatever the slot held before: Radix, which is no byte, stands for them.*)
Copy(data, n) == [i \in 1..n |-> IF i <= Len(data) THEN data[i] ELSE Radix]

(* rt_thread_entry_commu.  It copies a fixed number of bytes, whatever the *)
(* length of the package.                                                  *)
Dispatch ==
  /\ recvq # <<>>
  /\ recvq' = Tail(recvq)
  /\ LET p == recvq[1] IN
       handed' = CASE p.type = KeyType   -> <<"mq_key_ms", Copy(p.data, KeyLen)>>
                   [] p.type = FlashType -> <<"mq_flash_read", Copy(p.data, FlashLen)>>
                   [] OTHER              -> handed
  /\ UNCHANGED <<rvars, main, isr, sending, preempted>>

Next == SendKeys \/ SendSector \/ PutChar \/ Dispatch

Spec == Init /\ [][Next]_vars

(* Neither the main loop nor the handler stops in the middle of a frame:   *)
(* usart_putchar only waits for the wire.                                  *)
FairSpec == Spec /\ WF_vars(PutChar)

-----------------------------------------------------------------------------
(* The bytes left of the innermost frame.                                  *)
Rest == IF isr # <<>> THEN isr ELSE main

(* The master completes a package exactly when the slave sends the last    *)
(* byte of a frame, and the package has the type and the data of that      *)
(* frame, whatever bytes the data is made of (a head byte included).       *)
FrameStep == /\ rstate = "RECVING" /\ rstate' = "WAIT" <=> Len(sending') < Len(sending)
             /\ rstate = "RECVING" /\ rstate' = "WAIT" =>
                  /\ Len(Rest) = 1
                  /\ [type |-> PackageType, data |-> PackageData] = sending[1]

(* As long as no reply has cut into a report, packages are frames.         *)
UncutPackagesAreFrames == [][preempted = 0 => FrameStep]_vars

(* The package format that the comment above commu_recv_handle gives holds *)
(* of what the slave sends.                                                *)
PackagesAreFrames == [][FrameStep]_vars

(* The thread commu hands over only what the slave sent: its fixed copy    *)
(* lengths never add bytes that the package did not have, and each queue   *)
(* gets its own kind of data - until a reply has cut into a report.        *)
HandedIsSent == preempted = 0 =>
                  /\ handed[1] = "mq_key_ms" => handed[2] \in Reports
                  /\ handed[1] = "mq_flash_read" => handed[2] \in Sectors

(* Between two frames the receiver waits for a head.                       *)
Aligned == sending = <<>> => rstate = "WAIT"

(* A reply that cut into a report does not deafen the master for ever: if  *)
(* the slave keeps sending and is not cut any more, the receiver finds the *)
(* frame boundaries again.  (Once the data has no head bytes: a head byte  *)
(* inside the data can be taken for a start again and again.)              *)
Headless(f) == HeadByte \notin Range(f.data)
Resync == /\ []<>(sending # <<>>)
          /\ <>[](\A i \in DOMAIN sending : Headless(sending[i]))
          => <>[]Aligned
=============================================================================
