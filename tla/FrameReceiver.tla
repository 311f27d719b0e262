--------------------------- MODULE FrameReceiver ---------------------------
(***************************************************************************)
(* The byte-by-byte receiver commu_recv_handle.  The master (MDK/commu.c)  *)
(* and the slave (slave2/USER/commu_mcu.c) run the same code on the bytes  *)
(* of their USART interrupt; they differ in the head byte they wait for    *)
(* and in what they do with a complete package.                            *)
(*                                                                         *)
(* A package is: the head, two bytes of length, a type, the data.  A byte  *)
(* is a number below Radix (256 in the code), the buffer has BufSize cells *)
(* (600).  The code caps its index with cnt > BufSize + 1, so that the two *)
(* cells after the buffer may be written: they are cells of rbuf here, and *)
(* nothing reads them as part of the package.                              *)
(***************************************************************************)
EXTENDS Integers, Sequences

CONSTANTS HeadByte, \* the head byte this receiver waits for
          Radix,    \* the number of values of a byte
          BufSize   \* RECV_BUF_SIZE

ASSUME ReceiverAssumption == /\ Radix \in Nat \ {0} /\ BufSize \in Nat \ {0}
                             /\ HeadByte \in 0..(Radix - 1)

Bytes == 0..(Radix - 1)
Cells == 0..(BufSize + 1)

VARIABLES rstate,  \* commu_state
          cnt,     \* the number of bytes since the head
          len,     \* the announced length
          rbuf     \* recv_buf, with the two cells after it
rvars == <<rstate, cnt, len, rbuf>>

ReceiverTypeOK == /\ rstate \in {"WAIT", "RECVING"}
                  /\ cnt \in Nat
                  /\ len \in 0..(Radix * Radix - 1)
                  /\ rbuf \in [Cells -> Bytes]

ReceiverInit == /\ rstate = "WAIT"
                /\ cnt = 0 /\ len = 0
                /\ rbuf = [i \in Cells |-> 0]

Position == IF cnt > BufSize + 1 THEN BufSize - 1 ELSE cnt

(* Mutant: the package ends one byte early.                                *)
LastByteEarly == cnt >= 2 /\ cnt >= len + 1

(* The next byte is the last of the package being received.                *)
LastByte == cnt >= 2 /\ cnt >= len + 2

(* Mutant: bytes before a head start a package too.                        *)
SkipOrStartAny(b) == /\ rstate' = "RECVING" /\ cnt' = 0 /\ len' = 0
                     /\ UNCHANGED rbuf

(* Waiting for a head.                                                     *)
SkipOrStart(b) ==
  IF b = HeadByte THEN /\ rstate' = "RECVING" /\ cnt' = 0 /\ len' = 0
                       /\ UNCHANGED rbuf
                  ELSE UNCHANGED rvars

(* Inside a package.                                                       *)
Store(b) ==
  /\ rbuf' = [rbuf EXCEPT ![Position] = b]
  /\ len' = CASE cnt = 0 -> b * Radix
              [] cnt = 1 -> len + b
              [] OTHER   -> len
  /\ rstate' = IF LastByte THEN "WAIT" ELSE "RECVING"
  /\ cnt' = cnt + 1

ReceiveByte(b) == \/ rstate = "WAIT" /\ SkipOrStart(b)
                  \/ rstate = "RECVING" /\ Store(b)

(* This byte completes a package, which is then handed over: its type and  *)
(* its data.                                                               *)
Completes   == rstate = "RECVING" /\ LastByte
PackageType == rbuf'[2]
PackageData == [i \in 1..len |-> rbuf'[i + 2]]
=============================================================================
