---------------------------- MODULE UplinkProofs ----------------------------
(***************************************************************************)
(* Theorems about Uplink and the receiver it is composed with, for any     *)
(* bytes, buffer, reports and sectors.                                     *)
(***************************************************************************)
EXTENDS Uplink, SeqLemmas

(* How far the receiver has come with the frame f of which the bytes rest  *)
(* are still to be sent: it has counted the bytes since the head, has as   *)
(* much of the length as has come, and holds every byte in its cell.       *)
InStep(f, rest) ==
  LET e == Encode(f)
      n == Len(e) - Len(rest)
  IN  /\ n \in 0..(Len(e) - 1)
      /\ \A i \in 1..Len(rest) : rest[i] = e[n + i]
      /\ n = 0 => rstate = "WAIT"
      /\ n > 0 => rstate = "RECVING" /\ cnt = n - 1
      /\ n = 1 => len = 0
      /\ n = 2 => len = e[2] * Radix
      /\ n > 2 => len = Len(f.data)
      /\ \A j \in 2..n : rbuf[j - 2] = e[j]

(* As long as no reply has cut into a report, one frame at most is on its  *)
(* way, the receiver is in step with it, and what is queued is frames.     *)
Framing ==
  preempted = 0 =>
    /\ main = <<>> \/ isr = <<>>
    /\ sending = <<>> => rstate = "WAIT"
    /\ sending # <<>> => InStep(sending[1], Rest)
    /\ \A i \in DOMAIN recvq : recvq[i] \in Frames

(* The first byte of a length leaves room for the second.                  *)
HalfLength == rstate = "RECVING" /\ cnt = 1 => len <= (Radix - 1) * Radix

-----------------------------------------------------------------------------
(* The bytes of a package.                                                 *)

LEMMA FrameLemma ==
  ASSUME NEW f \in Frames
  PROVE  /\ f.type \in Bytes /\ f.data \in Seq(Bytes)
         /\ Len(f.data) \in 1..(BufSize - 3) /\ Len(f.data) < Radix * Radix
         /\ f = [type |-> f.type, data |-> f.data]
<1> USE UplinkAssumption, ReceiverAssumption DEF Bytes
<1>1. CASE f \in [type : {KeyType}, data : Reports]
  <2>1. f.data \in [1..KeyLen -> Bytes] /\ KeyLen \in Nat
    BY <1>1
  <2>2. f.data \in Seq(Bytes) /\ Len(f.data) = KeyLen
    BY <2>1
  <2> QED
    BY <1>1, <2>2
<1>2. CASE f \in [type : {FlashType}, data : Sectors]
  <2>1. f.data \in [1..FlashLen -> Bytes] /\ FlashLen \in Nat
    BY <1>2
  <2>2. f.data \in Seq(Bytes) /\ Len(f.data) = FlashLen
    BY <2>1
  <2> QED
    BY <1>2, <2>2
<1> QED
  BY <1>1, <1>2 DEF Frames

(* The two bytes of a length.                                              *)
LEMMA LengthLemma ==
  ASSUME NEW n \in Nat, n < Radix * Radix
  PROVE  /\ n \div Radix \in Bytes /\ n % Radix \in Bytes
         /\ (n \div Radix) * Radix + (n % Radix) = n
<1> DEFINE q == n \div Radix
           r == n % Radix
<1>1. q \in Int /\ r \in 0..(Radix - 1) /\ n = Radix * q + r
  BY ReceiverAssumption
<1> HIDE DEF q, r
<1>2. q < Radix
  <2>1. ASSUME q >= Radix PROVE FALSE
    <3>1. Radix * q >= Radix * Radix
      BY <2>1, <1>1, ReceiverAssumption
    <3> QED
      BY <3>1, <1>1, ReceiverAssumption
  <2> QED
    BY <2>1, <1>1, ReceiverAssumption
<1>3. q >= 0
  <2>1. ASSUME q <= -1 PROVE FALSE
    <3>1. Radix * q <= -Radix
      BY <2>1, <1>1, ReceiverAssumption
    <3> QED
      BY <3>1, <1>1, ReceiverAssumption
  <2> QED
    BY <2>1, <1>1, ReceiverAssumption
<1>4. q * Radix + r = n
  <2>1. q * Radix = Radix * q
    BY <1>1, ReceiverAssumption
  <2> QED
    BY <2>1, <1>1
<1>5. q \in Bytes /\ r \in Bytes
  BY <1>1, <1>2, <1>3, ReceiverAssumption DEF Bytes
<1> QED
  BY <1>4, <1>5 DEF q, r

LEMMA EncodeLemma ==
  ASSUME NEW f \in Frames
  PROVE  /\ Encode(f) \in Seq(Bytes)
         /\ Len(Encode(f)) = Len(f.data) + 4
         /\ Encode(f)[1] = HeadByte /\ Encode(f)[4] = f.type
         /\ Encode(f)[2] * Radix + Encode(f)[3] = Len(f.data)
         /\ \A i \in 1..Len(f.data) : Encode(f)[i + 4] = f.data[i]
<1>1. /\ f.type \in Bytes /\ f.data \in Seq(Bytes)
      /\ Len(f.data) \in Nat /\ Len(f.data) < Radix * Radix
  BY FrameLemma
<1> DEFINE L == Len(f.data)
           hi == L \div Radix
           lo == L % Radix
           head == <<HeadByte, hi, lo, f.type>>
<1>2. hi \in Bytes /\ lo \in Bytes /\ hi * Radix + lo = L
  <2>1. L \in Nat /\ L < Radix * Radix
    BY <1>1
  <2> HIDE DEF L
  <2> QED
    BY <2>1, LengthLemma
<1>3. HeadByte \in Bytes
  BY ReceiverAssumption DEF Bytes
<1>4. Encode(f) = head \o f.data
  BY DEF Encode
<1> HIDE DEF hi, lo
<1>5. head \in Seq(Bytes) /\ Len(head) = 4
  BY <1>1, <1>2, <1>3
<1>6. /\ head \o f.data \in Seq(Bytes)
      /\ Len(head \o f.data) = 4 + Len(f.data)
      /\ \A i \in 1..(4 + Len(f.data)) :
           (head \o f.data)[i] = IF i <= 4 THEN head[i] ELSE f.data[i - 4]
  BY <1>1, <1>5, ConcatProperties
<1>7. \A i \in 1..Len(f.data) : (head \o f.data)[i + 4] = f.data[i]
  BY <1>1, <1>6
<1> QED
  BY <1>1, <1>2, <1>4, <1>6, <1>7
-----------------------------------------------------------------------------
(* Type correctness.                                                       *)

LEMMA ReceiverTypes ==
  ASSUME ReceiverTypeOK, HalfLength, NEW b \in Bytes, ReceiveByte(b)
  PROVE  ReceiverTypeOK' /\ HalfLength'
<1> USE ReceiverAssumption DEF ReceiverTypeOK, HalfLength
<1>1. CASE SkipOrStart(b)
  <2>1. 0 \in 0..(Radix * Radix - 1)
    <3>1. Radix * Radix >= 1
      OBVIOUS
    <3>2. Radix * Radix \in Int
      OBVIOUS
    <3> QED
      BY <3>1, <3>2
  <2> QED
    BY <1>1, <2>1 DEF SkipOrStart, rvars
<1>2. CASE rstate = "RECVING" /\ Store(b)
  <2>1. rbuf' \in [Cells -> Bytes]
    BY <1>2 DEF Store
  <2>2. b \in Int /\ 0 <= b /\ b <= Radix - 1
    BY DEF Bytes
  <2>3. b * Radix \in Int /\ 0 <= b * Radix /\ b * Radix <= (Radix - 1) * Radix
    BY <2>2
  <2>4. (Radix - 1) * Radix + (Radix - 1) = Radix * Radix - 1
    OBVIOUS
  <2>5. (Radix - 1) * Radix \in Int /\ Radix * Radix \in Int
    OBVIOUS
  <2>6. len' \in 0..(Radix * Radix - 1)
    <3>1. CASE cnt = 0
      BY <3>1, <1>2, <2>2, <2>3, <2>4, <2>5 DEF Store
    <3>2. CASE cnt = 1
      BY <3>2, <1>2, <2>2, <2>4, <2>5 DEF Store
    <3>3. CASE cnt \notin {0, 1}
      BY <3>3, <1>2 DEF Store
    <3> QED
      BY <3>1, <3>2, <3>3
  <2>7. cnt' \in Nat /\ rstate' \in {"WAIT", "RECVING"}
    BY <1>2 DEF Store
  <2>8. HalfLength'
    BY <1>2, <2>3 DEF Store
  <2> QED
    BY <2>1, <2>6, <2>7, <2>8
<1> QED
  BY <1>1, <1>2 DEF ReceiveByte

(* A byte on the wire is the first of what is left of the innermost frame. *)
LEMMA WireLemma ==
  ASSUME TypeOK, PutChar
  PROVE  /\ Rest \in Seq(Bytes) /\ Rest # <<>>
         /\ Rest[1] \in Bytes /\ ReceiveByte(Rest[1])
         /\ \/ isr # <<>> /\ Rest = isr /\ isr' = Tail(isr) /\ main' = main
            \/ isr = <<>> /\ Rest = main /\ main' = Tail(main) /\ isr' = isr
         /\ sending # <<>>
         /\ sending' = IF Len(Rest) = 1 THEN Tail(sending) ELSE sending
<1>1. isr \in Seq(Bytes) /\ main \in Seq(Bytes)
  BY DEF TypeOK
<1>2. isr # <<>> \/ (isr = <<>> /\ main # <<>>)
  BY <1>1 DEF PutChar
<1>3. Rest \in Seq(Bytes) /\ Rest # <<>>
  BY <1>1, <1>2 DEF Rest
<1>4. Head(isr \o main) = Rest[1]
  BY <1>1, <1>2 DEF Rest
<1>5. Rest[1] \in Bytes
  BY <1>3
<1>6. sending # <<>>
  BY <1>1, <1>2 DEF TypeOK
<1> QED
  BY <1>2, <1>3, <1>4, <1>5, <1>6 DEF PutChar, Rest

LEMMA QueueTypes ==
  ASSUME TypeOK, PutChar, ReceiverTypeOK'
  PROVE  /\ recvq' \in Seq([type : Bytes, data : Seq(Bytes)])
         /\ Len(recvq') <= QueueSize
<1> DEFINE Packages == [type : Bytes, data : Seq(Bytes)]
           p == [type |-> PackageType, data |-> PackageData]
<1>1. recvq \in Seq(Packages) /\ Len(recvq) <= QueueSize
  BY DEF TypeOK
<1>2. ASSUME len + 3 <= BufSize PROVE p \in Packages
  <2>1. rbuf' \in [0..(BufSize + 1) -> Bytes] /\ len \in Nat
    BY ReceiverAssumption DEF ReceiverTypeOK, TypeOK, Cells
  <2>2. PackageType \in Bytes
    BY <2>1, ReceiverAssumption DEF PackageType
  <2>3. \A i \in 1..len : rbuf'[i + 2] \in Bytes
    BY <1>2, <2>1, ReceiverAssumption
  <2>4. PackageData \in Seq(Bytes)
    BY <2>1, <2>3 DEF PackageData
  <2> QED
    BY <2>2, <2>4
<1>3. CASE Completes /\ len + 3 <= BufSize /\ Len(recvq) < QueueSize
  <2>1. recvq' = Append(recvq, p)
    BY <1>3 DEF PutChar, Enqueue
  <2> HIDE DEF p, Packages
  <2> QED
    BY <2>1, <1>1, <1>2, <1>3, UplinkAssumption DEF Packages
<1>4. CASE ~(Completes /\ len + 3 <= BufSize /\ Len(recvq) < QueueSize)
  BY <1>1, <1>4 DEF PutChar, Enqueue
<1> QED
  BY <1>3, <1>4

(* Every variable of the two ends keeps its type, also when a reply has    *)
(* cut into a report and the receiver takes any byte for any part of a     *)
(* package: a length never gets out of its 16 bits, and what is stored     *)
(* stays within the buffer and the two cells after it.                     *)
Types == TypeOK /\ HalfLength

LEMMA TypesKept == Types /\ [Next]_vars => Types'
<1> SUFFICES ASSUME TypeOK, HalfLength, [Next]_vars PROVE TypeOK' /\ HalfLength'
  BY DEF Types
<1>1. CASE SendKeys
  <2>1. PICK d \in Reports : LET f == [type |-> KeyType, data |-> d]
                             IN  main' = Encode(f) /\ sending' = <<f>>
    BY <1>1 DEF SendKeys
  <2> DEFINE f == [type |-> KeyType, data |-> d]
  <2>2. f \in Frames
    BY UplinkAssumption DEF Frames
  <2>3. main' \in Seq(Bytes) /\ main' # <<>> /\ sending' = <<f>>
    <3>1. f.data = d
      OBVIOUS
    <3> HIDE DEF f
    <3> QED
      BY <2>1, <2>2, <3>1, EncodeLemma, FrameLemma DEF f
  <2> HIDE DEF f
  <2> QED
    BY <1>1, <2>2, <2>3 DEF SendKeys, TypeOK, HalfLength, ReceiverTypeOK, rvars
<1>2. CASE SendSector
  <2>1. PICK d \in Sectors : LET f == [type |-> FlashType, data |-> d]
                             IN  isr' = Encode(f) /\ sending' = <<f>> \o sending
    BY <1>2 DEF SendSector
  <2> DEFINE f == [type |-> FlashType, data |-> d]
  <2>2. f \in Frames
    BY DEF Frames
  <2>3. isr' \in Seq(Bytes) /\ isr' # <<>> /\ sending' = <<f>> \o sending
    <3>1. f.data = d
      OBVIOUS
    <3> HIDE DEF f
    <3> QED
      BY <2>1, <2>2, <3>1, EncodeLemma, FrameLemma DEF f
  <2> HIDE DEF f
  <2>4. sending' \in Seq(Frames) /\ Len(sending') = Len(sending) + 1
    BY <2>2, <2>3 DEF TypeOK
  <2>5. preempted' \in 0..MaxPreemptions
    BY <1>2, UplinkAssumption DEF SendSector, TypeOK
  <2> QED
    BY <1>2, <2>3, <2>4, <2>5 DEF SendSector, TypeOK, HalfLength, ReceiverTypeOK, rvars
<1>3. CASE PutChar
  <2>1. ReceiverTypeOK' /\ HalfLength'
    BY <1>3, WireLemma, ReceiverTypes DEF TypeOK
  <2>2. recvq' \in Seq([type : Bytes, data : Seq(Bytes)]) /\ Len(recvq') <= QueueSize
    BY <1>3, <2>1, QueueTypes
  <2>3. /\ \/ isr # <<>> /\ Rest = isr /\ isr' = Tail(isr) /\ main' = main
           \/ isr = <<>> /\ Rest = main /\ main' = Tail(main) /\ isr' = isr
        /\ Rest # <<>> /\ sending # <<>>
        /\ sending' = IF Len(Rest) = 1 THEN Tail(sending) ELSE sending
    BY <1>3, WireLemma
  <2>4. /\ sending \in Seq(Frames) /\ main \in Seq(Bytes) /\ isr \in Seq(Bytes)
        /\ Len(sending) = (IF main # <<>> THEN 1 ELSE 0) + (IF isr # <<>> THEN 1 ELSE 0)
    BY DEF TypeOK
  <2>5. /\ main' \in Seq(Bytes) /\ isr' \in Seq(Bytes)
        /\ isr # <<>> => (isr' = <<>> <=> Len(Rest) = 1) /\ main' = main
        /\ isr = <<>> => (main' = <<>> <=> Len(Rest) = 1) /\ isr' = isr /\ main # <<>>
    <3>1. CASE isr # <<>>
      <4>1. Tail(isr) \in Seq(Bytes) /\ (Tail(isr) = <<>> <=> Len(isr) = 1)
        BY <2>4, <3>1, RestLemma
      <4> QED
        BY <2>3, <2>4, <3>1, <4>1
    <3>2. CASE isr = <<>>
      <4>1. Tail(main) \in Seq(Bytes) /\ (Tail(main) = <<>> <=> Len(main) = 1)
        BY <2>3, <2>4, <3>2, RestLemma
      <4> QED
        BY <2>3, <2>4, <3>2, <4>1
    <3> QED
      BY <3>1, <3>2
  <2>6. sending' \in Seq(Frames) /\ Len(sending') = Len(sending) - (IF Len(Rest) = 1 THEN 1 ELSE 0)
    BY <2>3, <2>4
  <2>7. Len(sending') = (IF main' # <<>> THEN 1 ELSE 0) + (IF isr' # <<>> THEN 1 ELSE 0)
    BY <2>4, <2>5, <2>6
  <2>8. preempted' \in 0..MaxPreemptions
    BY <1>3 DEF PutChar, TypeOK
  <2> QED
    BY <2>1, <2>2, <2>5, <2>6, <2>7, <2>8 DEF TypeOK
<1>4. CASE Dispatch
  <2>1. recvq' = Tail(recvq) /\ recvq # <<>>
    BY <1>4 DEF Dispatch
  <2>2. /\ recvq' \in Seq([type : Bytes, data : Seq(Bytes)])
        /\ Len(recvq') <= QueueSize
    BY <2>1, RestLemma, UplinkAssumption DEF TypeOK
  <2> QED
    BY <1>4, <2>2 DEF Dispatch, TypeOK, HalfLength, ReceiverTypeOK, rvars
<1>5. CASE UNCHANGED vars
  BY <1>5 DEF vars, TypeOK, HalfLength, ReceiverTypeOK, rvars
<1> QED
  BY <1>1, <1>2, <1>3, <1>4, <1>5 DEF Next

THEOREM TypeCorrect == Spec => []TypeOK
<1>1. Init => Types
  <2> SUFFICES ASSUME Init PROVE Types
    OBVIOUS
  <2>1. ReceiverTypeOK
    <3>1. 0 \in Bytes
      BY ReceiverAssumption DEF Bytes
    <3>2. Radix * Radix \in Int /\ Radix * Radix >= 1
      BY ReceiverAssumption
    <3> QED
      BY <3>1, <3>2 DEF Init, ReceiverInit, ReceiverTypeOK
  <2>2. HalfLength
    BY DEF Init, ReceiverInit, HalfLength
  <2> QED
    BY <2>1, <2>2, UplinkAssumption DEF Init, TypeOK, Types
<1>2. Types => TypeOK
  BY DEF Types
<1> QED
  BY <1>1, <1>2, TypesKept, PTL DEF Spec
-----------------------------------------------------------------------------
(* Framing.                                                                *)

(* The facts about the frame under way that every step below needs.        *)
LEMMA UnderWay ==
  ASSUME TypeOK, Framing, preempted = 0, PutChar
  PROVE  LET f == sending[1]
             e == Encode(f)
             n == Len(e) - Len(Rest)
         IN  /\ f \in Frames /\ sending = <<f>>
             /\ Len(Rest) \in Nat \ {0} /\ n \in 0..(Len(e) - 1)
             /\ Rest[1] = e[n + 1] /\ ReceiveByte(e[n + 1])
             /\ InStep(f, Rest)
             /\ Len(Rest) # 1 => Rest' = Tail(Rest) /\ sending' = sending
             /\ Len(Rest) = 1 => sending' = <<>>
<1> DEFINE f == sending[1]
           e == Encode(f)
           n == Len(e) - Len(Rest)
<1>1. /\ Rest \in Seq(Bytes) /\ Rest # <<>>
      /\ ReceiveByte(Rest[1]) /\ sending # <<>>
      /\ \/ isr # <<>> /\ Rest = isr /\ isr' = Tail(isr) /\ main' = main
         \/ isr = <<>> /\ Rest = main /\ main' = Tail(main) /\ isr' = isr
      /\ sending' = IF Len(Rest) = 1 THEN Tail(sending) ELSE sending
  BY WireLemma
<1>2. sending \in Seq(Frames) /\ Len(sending) <= 1
  BY DEF TypeOK, Framing
<1>3. f \in Frames /\ sending = <<f>> /\ Tail(sending) = <<>>
  BY <1>1, <1>2, SingleLemma
<1>4. InStep(f, Rest) /\ n \in 0..(Len(e) - 1)
      /\ \A i \in 1..Len(Rest) : Rest[i] = e[n + i]
  BY <1>1 DEF Framing, InStep
<1>5. Len(Rest) \in Nat \ {0}
  BY <1>1, RestLemma
<1>6. Rest[1] = e[n + 1]
  BY <1>4, <1>5
<1>7. ASSUME Len(Rest) # 1 PROVE Rest' = Tail(Rest)
  <2>1. Tail(Rest) # <<>>
    BY <1>1, <1>7, RestLemma
  <2> QED
    BY <1>1, <2>1 DEF Rest
<1> QED
  BY <1>1, <1>3, <1>4, <1>5, <1>6, <1>7

(* A byte that is not the last of its frame.                               *)
LEMMA InnerByte ==
  ASSUME TypeOK, Framing, preempted = 0, PutChar, Len(Rest) # 1
  PROVE  /\ ~Completes /\ rstate' = "RECVING"
         /\ sending' = sending /\ InStep(sending[1], Rest)'
<1> DEFINE f == sending[1]
           e == Encode(f)
           n == Len(e) - Len(Rest)
           r == Tail(Rest)
<1>1. /\ f \in Frames /\ Len(Rest) \in Nat \ {0} /\ n \in 0..(Len(e) - 1)
      /\ ReceiveByte(e[n + 1]) /\ Rest' = r /\ sending' = sending
  BY UnderWay
<1>2. /\ \A i \in 1..Len(Rest) : Rest[i] = e[n + i]
      /\ n = 0 => rstate = "WAIT"
      /\ n > 0 => rstate = "RECVING" /\ cnt = n - 1
      /\ n = 1 => len = 0
      /\ n = 2 => len = e[2] * Radix
      /\ n > 2 => len = Len(f.data)
      /\ \A j \in 2..n : rbuf[j - 2] = e[j]
  BY UnderWay DEF InStep
<1>3. /\ e \in Seq(Bytes) /\ Len(e) = Len(f.data) + 4 /\ e[1] = HeadByte
      /\ e[2] * Radix + e[3] = Len(f.data)
      /\ Len(f.data) \in 1..(BufSize - 3)
  BY <1>1, FrameLemma, EncodeLemma
<1>4. /\ Len(r) = Len(Rest) - 1
      /\ \A i \in 1..(Len(Rest) - 1) : r[i] = Rest[i + 1]
  BY WireLemma, RestLemma
<1>5. n + 1 = Len(e) - Len(r) /\ n + 1 \in 0..(Len(e) - 1)
  <2>1. /\ n = Len(e) - Len(Rest) /\ Len(e) \in Nat /\ Len(r) = Len(Rest) - 1
        /\ Len(Rest) \in Nat \ {0, 1}
    BY <1>1, <1>3, <1>4
  <2> HIDE DEF n, e, r
  <2> QED
    BY <2>1, <1>1
<1>6. \A i \in 1..Len(r) : r[i] = e[n + 1 + i]
  <2> SUFFICES ASSUME NEW i \in 1..Len(r) PROVE r[i] = e[n + 1 + i]
    OBVIOUS
  <2>1. i \in 1..(Len(Rest) - 1) /\ i + 1 \in 1..Len(Rest) /\ n + (i + 1) = n + 1 + i
    BY <1>1, <1>4
  <2> QED
    BY <1>2, <1>4, <2>1
<1> HIDE DEF f, e, r, n
<1>7. CASE n = 0
  <2>1. rstate' = "RECVING" /\ cnt' = 0 /\ len' = 0 /\ rbuf' = rbuf /\ ~Completes
    BY <1>1, <1>2, <1>3, <1>7 DEF ReceiveByte, SkipOrStart, Completes
  <2> QED
    BY <1>1, <1>5, <1>6, <1>7, <2>1 DEF InStep, f, e, r
<1>8. CASE n > 0
  <2>1. rstate = "RECVING" /\ cnt = n - 1 /\ Store(e[n + 1])
    BY <1>1, <1>2, <1>8 DEF ReceiveByte
  <2>2. n < Len(e) - 1 /\ n \in Nat
    BY <1>1, <1>3, <1>4, <1>5
  <2>3. ~LastByte
    BY <1>2, <1>3, <1>8, <2>1, <2>2 DEF LastByte
  <2>4. Position = n - 1 /\ n - 1 \in Cells
    BY <1>3, <1>8, <2>1, <2>2, ReceiverAssumption DEF Position, Cells
  <2>5. rbuf' = [rbuf EXCEPT ![n - 1] = e[n + 1]] /\ rbuf \in [Cells -> Bytes]
    BY <2>1, <2>4 DEF Store, TypeOK, ReceiverTypeOK
  <2>6. ASSUME NEW j \in 2..(n + 1) PROVE rbuf'[j - 2] = e[j]
    <3>1. CASE j = n + 1
      <4>1. j - 2 = n - 1
        BY <1>1, <3>1
      <4> QED
        BY <2>4, <2>5, <3>1, <4>1
    <3>2. CASE j # n + 1
      <4>1. j \in 2..n /\ j - 2 # n - 1 /\ j - 2 \in Cells
        BY <1>8, <2>2, <2>4, <3>2, ReceiverAssumption DEF Cells
      <4> QED
        BY <1>2, <2>5, <4>1
    <3> QED
      BY <3>1, <3>2
  <2>7. rstate' = "RECVING" /\ cnt' = n /\ ~Completes
    BY <2>1, <2>2, <2>3 DEF Store, Completes
  <2>8. n = 1 => len' = e[2] * Radix
    BY <2>1 DEF Store
  <2>9. n = 2 => len' = Len(f.data)
    BY <1>2, <1>3, <2>1 DEF Store
  <2>10. n > 2 => len' = Len(f.data)
    BY <1>2, <2>1, <2>2 DEF Store
  <2>11. /\ n + 1 > 0 /\ n + 1 # 1 /\ cnt' = (n + 1) - 1
         /\ n + 1 = 2 => len' = e[2] * Radix
         /\ n + 1 > 2 => len' = Len(f.data)
    BY <1>8, <2>2, <2>7, <2>8, <2>9, <2>10
  <2>12. sending'[1] = f /\ Encode(sending'[1]) = e
    BY <1>1 DEF f, e
  <2> DEFINE k == n + 1
  <2>13. k = Len(e) - Len(Rest') /\ k \in 0..(Len(e) - 1)
    BY <1>1, <1>5
  <2>14. InStep(sending[1], Rest)'
    <3> HIDE DEF k
    <3>1. \A i \in 1..Len(Rest') : Rest'[i] = e[k + i]
      BY <1>1, <1>6 DEF k
    <3>2. /\ k > 0 /\ k # 1 /\ cnt' = k - 1
          /\ k = 2 => len' = e[2] * Radix
          /\ k > 2 => len' = Len(f.data)
          /\ \A j \in 2..k : rbuf'[j - 2] = e[j]
      BY <2>6, <2>11 DEF k
    <3> QED
      BY <2>7, <2>12, <2>13, <3>1, <3>2 DEF InStep
  <2> QED
    BY <1>1, <2>7, <2>14
<1> QED
  BY <1>1, <1>3, <1>7, <1>8

(* The last byte of a frame completes a package, and that is the frame.    *)
LEMMA FinalByte ==
  ASSUME TypeOK, Framing, preempted = 0, PutChar, Len(Rest) = 1
  PROVE  /\ Completes /\ rstate' = "WAIT" /\ sending' = <<>>
         /\ sending # <<>> /\ sending[1] \in Frames
         /\ [type |-> PackageType, data |-> PackageData] = sending[1]
<1> DEFINE f == sending[1]
           e == Encode(f)
           n == Len(e) - Len(Rest)
<1>1. /\ f \in Frames /\ sending # <<>> /\ n \in 0..(Len(e) - 1)
      /\ ReceiveByte(e[n + 1]) /\ sending' = <<>>
  BY UnderWay, WireLemma
<1>2. /\ n > 0 => rstate = "RECVING" /\ cnt = n - 1
      /\ n > 2 => len = Len(f.data)
      /\ \A j \in 2..n : rbuf[j - 2] = e[j]
  BY UnderWay DEF InStep
<1>3. /\ f.data \in Seq(Bytes) /\ Len(f.data) \in 1..(BufSize - 3)
      /\ f = [type |-> f.type, data |-> f.data]
      /\ Len(e) = Len(f.data) + 4 /\ e[4] = f.type
      /\ \A i \in 1..Len(f.data) : e[i + 4] = f.data[i]
  BY <1>1, FrameLemma, EncodeLemma
<1> DEFINE L == Len(f.data)
<1>4. n = L + 3 /\ L \in Nat \ {0}
  BY <1>3
<1>5. rstate = "RECVING" /\ cnt = L + 2 /\ len = L /\ Store(e[L + 4])
  <2> HIDE DEF f, e, n, L
  <2>1. n > 2 /\ n + 1 = L + 4 /\ n - 1 = L + 2
    BY <1>4
  <2> QED
    BY <1>1, <1>2, <2>1 DEF ReceiveByte, L
<1>6. Completes /\ rstate' = "WAIT"
  BY <1>4, <1>5 DEF Store, LastByte, Completes
<1>7. \A j \in 2..(L + 4) : rbuf'[j - 2] = e[j]
  <2> SUFFICES ASSUME NEW j \in 2..(L + 4) PROVE rbuf'[j - 2] = e[j]
    OBVIOUS
  <2>1. rbuf \in [0..(BufSize + 1) -> Bytes] /\ L <= BufSize - 3 /\ BufSize \in Nat
    BY <1>3, ReceiverAssumption DEF TypeOK, ReceiverTypeOK, Cells
  <2> HIDE DEF f, e, n, L
  <2>2. Position = L + 2
    BY <1>4, <1>5, <2>1 DEF Position
  <2>3. rbuf' = [rbuf EXCEPT ![L + 2] = e[L + 4]]
    BY <1>5, <2>2 DEF Store
  <2>4. CASE j = L + 4
    BY <1>4, <2>1, <2>3, <2>4
  <2>5. CASE j # L + 4
    <3>1. j \in 2..n /\ j - 2 # L + 2 /\ j - 2 \in 0..(BufSize + 1)
      BY <1>4, <2>1, <2>5
    <3> QED
      BY <1>2, <2>1, <2>3, <3>1
  <2> QED
    BY <2>4, <2>5
<1>8. PackageType = f.type
  BY <1>3, <1>4, <1>7 DEF PackageType
<1>9. PackageData = f.data
  <2>1. f.data = [i \in 1..L |-> f.data[i]]
    BY <1>3
  <2>2. ASSUME NEW i \in 1..L PROVE rbuf'[i + 2] = f.data[i]
    <3>1. i + 4 \in 2..(L + 4) /\ (i + 4) - 2 = i + 2
      BY <1>4
    <3>2. rbuf'[i + 2] = e[i + 4]
      BY <1>7, <3>1
    <3> QED
      BY <1>3, <3>2
  <2>3. [i \in 1..L |-> rbuf'[i + 2]] = [i \in 1..L |-> f.data[i]]
    BY <2>2
  <2> QED
    BY <1>5, <2>1, <2>3 DEF PackageData
<1> QED
  BY <1>1, <1>3, <1>6, <1>8, <1>9

(* A frame that begins when the line is free.                              *)
LEMMA Begins ==
  ASSUME NEW f \in Frames, rstate' = "WAIT", sending' = <<f>>, Rest' = Encode(f)
  PROVE  InStep(sending[1], Rest)'
<1>1. Encode(f) \in Seq(Bytes) /\ Len(Encode(f)) \in Nat \ {0}
  BY EncodeLemma, FrameLemma
<1> DEFINE e == Encode(f)
<1>2. sending'[1] = f /\ Encode(sending'[1]) = e
  OBVIOUS
<1> HIDE DEF e
<1> DEFINE n == 0
<1>3. Rest' = e /\ e \in Seq(Bytes) /\ Len(e) \in Nat \ {0} /\ 0 = Len(e) - Len(Rest')
  BY <1>1 DEF e
<1>4. \A i \in 1..Len(Rest') : Rest'[i] = e[0 + i]
  BY <1>3
<1> QED
  BY <1>2, <1>3, <1>4 DEF InStep

LEMMA FramingKept == TypeOK /\ Framing /\ [Next]_vars => Framing'
<1> SUFFICES ASSUME TypeOK, Framing, [Next]_vars, preempted' = 0 PROVE Framing'
  BY DEF Framing
<1>0. preempted = 0
  BY DEF Next, SendKeys, SendSector, PutChar, Dispatch, vars, TypeOK
<1>1. /\ main = <<>> \/ isr = <<>>
      /\ sending = <<>> => rstate = "WAIT"
      /\ sending # <<>> => InStep(sending[1], Rest)
      /\ \A i \in DOMAIN recvq : recvq[i] \in Frames
  BY <1>0 DEF Framing
<1>2. main = <<>> /\ isr = <<>> => sending = <<>>
  BY EmptySeq DEF TypeOK
<1>3. CASE SendKeys
  <2>1. PICK d \in Reports : LET f == [type |-> KeyType, data |-> d]
                             IN  main' = Encode(f) /\ sending' = <<f>>
    BY <1>3 DEF SendKeys
  <2> DEFINE f == [type |-> KeyType, data |-> d]
  <2>2. f \in Frames
    BY UplinkAssumption DEF Frames
  <2>3. main' = Encode(f) /\ sending' = <<f>>
    BY <2>1
  <2> HIDE DEF f
  <2>4. isr' = <<>> /\ rstate' = "WAIT" /\ recvq' = recvq
    BY <1>1, <1>2, <1>3 DEF SendKeys, rvars
  <2>5. Rest' = Encode(f)
    BY <2>3, <2>4 DEF Rest
  <2>6. InStep(sending[1], Rest)'
    BY <2>2, <2>3, <2>4, <2>5, Begins
  <2> QED
    BY <1>1, <2>3, <2>4, <2>6 DEF Framing
<1>4. CASE SendSector
  <2>1. PICK d \in Sectors : LET f == [type |-> FlashType, data |-> d]
                             IN  isr' = Encode(f) /\ sending' = <<f>> \o sending
    BY <1>4 DEF SendSector
  <2> DEFINE f == [type |-> FlashType, data |-> d]
  <2>2. f \in Frames
    BY UplinkAssumption DEF Frames
  <2>3. isr' = Encode(f) /\ sending' = <<f>> \o sending
    BY <2>1
  <2> HIDE DEF f
  <2>4. main = <<>>
    BY <1>0, <1>4 DEF SendSector
  <2>5. main' = <<>> /\ rstate' = "WAIT" /\ recvq' = recvq /\ sending = <<>>
    BY <1>1, <1>2, <1>4, <2>4 DEF SendSector, rvars
  <2>6. sending' = <<f>> /\ isr' # <<>>
    BY <2>2, <2>3, <2>5, EncodeLemma, FrameLemma
  <2>7. Rest' = Encode(f)
    BY <2>3, <2>6 DEF Rest
  <2>8. InStep(sending[1], Rest)'
    BY <2>2, <2>5, <2>6, <2>7, Begins
  <2> QED
    BY <1>1, <2>5, <2>6, <2>8 DEF Framing
<1>5. CASE PutChar
  <2>1. main' = <<>> \/ isr' = <<>>
    <3>1. isr = <<>> => isr' = <<>>
      BY <1>5, WireLemma
    <3>2. isr # <<>> => main' = main
      BY <1>5, WireLemma
    <3> QED
      BY <1>1, <3>1, <3>2
  <2>2. /\ sending' = <<>> => rstate' = "WAIT"
        /\ sending' # <<>> => InStep(sending[1], Rest)'
    <3>1. CASE Len(Rest) = 1
      BY <1>0, <1>5, <3>1, FinalByte
    <3>2. CASE Len(Rest) # 1
      <4>1. sending # <<>>
        BY <1>5, WireLemma
      <4> QED
        BY <1>0, <1>5, <3>2, <4>1, InnerByte
    <3> QED
      BY <3>1, <3>2
  <2>3. \A i \in DOMAIN recvq' : recvq'[i] \in Frames
    <3> DEFINE p == [type |-> PackageType, data |-> PackageData]
    <3>1. Completes => p \in Frames
      BY <1>0, <1>5, FinalByte, InnerByte
    <3>2. recvq' = recvq \/ (Completes /\ recvq' = Append(recvq, p))
      BY <1>5 DEF PutChar, Enqueue
    <3>3. recvq \in Seq([type : Bytes, data : Seq(Bytes)])
      BY DEF TypeOK
    <3> HIDE DEF p
    <3>4. CASE recvq' = Append(recvq, p)
      <4>1. \A i \in 1..Len(recvq') : recvq'[i] \in Frames
        BY <1>1, <3>1, <3>2, <3>3, <3>4
      <4> QED
        BY <3>3, <3>4, <4>1
    <3> QED
      BY <1>1, <3>2, <3>4
  <2> QED
    BY <2>1, <2>2, <2>3 DEF Framing
<1>6. CASE Dispatch
  <2>1. /\ recvq # <<>> /\ recvq' = Tail(recvq)
        /\ UNCHANGED <<rvars, main, isr, sending, preempted>>
    BY <1>6 DEF Dispatch
  <2>2. recvq \in Seq([type : Bytes, data : Seq(Bytes)])
    BY DEF TypeOK
  <2>3. \A i \in DOMAIN recvq' : recvq'[i] \in Frames
    <3>1. /\ Len(recvq) \in Nat \ {0} /\ DOMAIN recvq' = 1..(Len(recvq) - 1)
          /\ \A i \in 1..(Len(recvq) - 1) : recvq'[i] = recvq[i + 1]
          /\ DOMAIN recvq = 1..Len(recvq)
      BY <2>1, <2>2, RestLemma
    <3> QED
      BY <1>1, <3>1
  <2> QED
    BY <1>1, <2>1, <2>3 DEF Framing, InStep, Rest, rvars
<1>7. CASE UNCHANGED vars
  BY <1>1, <1>7 DEF Framing, InStep, Rest, rvars, vars
<1> QED
  BY <1>3, <1>4, <1>5, <1>6, <1>7 DEF Next

LEMMA FramingHolds == Spec => [](TypeOK /\ Framing)
<1>1. Init => Framing
  BY DEF Init, ReceiverInit, Framing
<1> QED
  BY <1>1, TypeCorrect, FramingKept, PTL DEF Spec

(* While no reply has cut into a report, every frame of the slave arrives  *)
(* as one package, with its type and its data, at its last byte, and no    *)
(* package arrives otherwise: for any bytes in the data, the head byte     *)
(* among them.                                                             *)
THEOREM PackagesArriveWhole == Spec => UncutPackagesAreFrames
<1>1. TypeOK /\ Framing /\ [Next]_vars => [preempted = 0 => FrameStep]_vars
  <2> SUFFICES ASSUME TypeOK, Framing, [Next]_vars, preempted = 0 PROVE FrameStep \/ UNCHANGED vars
    OBVIOUS
  <2>1. CASE SendKeys
    <3>1. rstate' = rstate /\ sending = <<>>
      BY <2>1, EmptySeq DEF SendKeys, rvars, TypeOK
    <3>2. \E f : sending' = <<f>>
      BY <2>1 DEF SendKeys
    <3>3. Len(sending) = 0 /\ Len(sending') = 1
      BY <3>1, <3>2
    <3> QED
      BY <3>1, <3>3 DEF FrameStep
  <2>2. CASE SendSector
    <3>1. PICK d \in Sectors : sending' = <<[type |-> FlashType, data |-> d]>> \o sending
      BY <2>2 DEF SendSector
    <3>2. [type |-> FlashType, data |-> d] \in Frames /\ sending \in Seq(Frames)
      BY UplinkAssumption DEF Frames, TypeOK
    <3>3. Len(sending') = Len(sending) + 1 /\ Len(sending) \in Nat
      BY <3>1, <3>2, ConsLemma
    <3> QED
      BY <2>2, <3>3 DEF SendSector, FrameStep, rvars
  <2>3. CASE PutChar
    <3>1. CASE Len(Rest) = 1
      <4>1. /\ Completes /\ rstate' = "WAIT" /\ sending' = <<>> /\ sending # <<>>
            /\ [type |-> PackageType, data |-> PackageData] = sending[1]
        BY <2>3, <3>1, FinalByte
      <4>2. Len(sending') < Len(sending)
        BY <4>1, EmptySeq DEF TypeOK
      <4> QED
        BY <3>1, <4>1, <4>2 DEF FrameStep, Completes
    <3>2. CASE Len(Rest) # 1
      <4>1. rstate' = "RECVING" /\ sending' = sending
        BY <2>3, <3>2, InnerByte
      <4>2. ~(Len(sending') < Len(sending))
        BY <4>1 DEF TypeOK
      <4> QED
        BY <4>1, <4>2 DEF FrameStep
    <3> QED
      BY <3>1, <3>2
  <2>4. CASE Dispatch
    <3>1. rstate' = rstate /\ sending' = sending
      BY <2>4 DEF Dispatch, rvars
    <3>2. ~(Len(sending') < Len(sending))
      BY <3>1 DEF TypeOK
    <3> QED
      BY <3>1, <3>2 DEF FrameStep
  <2> QED
    BY <2>1, <2>2, <2>3, <2>4 DEF Next
<1> QED
  BY <1>1, FramingHolds, PTL DEF Spec, UncutPackagesAreFrames

(* The copies of the thread commu, of a fixed length, are the data of the  *)
(* package and nothing else, since no report and no sector is shorter or   *)
(* longer than its kind.                                                   *)
LEMMA CopyLemma ==
  ASSUME NEW n \in Nat, NEW d \in [1..n -> Bytes]
  PROVE  Copy(d, n) = d
<1>1. Len(d) = n
  OBVIOUS
<1>2. Copy(d, n) = [i \in 1..n |-> d[i]]
  BY <1>1 DEF Copy
<1> QED
  BY <1>2

(* What the thread commu hands to a queue is data of the kind that queue   *)
(* is for, and was sent - until a reply has cut into a report.             *)
THEOREM HandedWasSent == Spec => []HandedIsSent
<1>1. Init => HandedIsSent
  BY DEF Init, HandedIsSent
<1>2. TypeOK /\ Framing /\ HandedIsSent /\ [Next]_vars => HandedIsSent'
  <2> SUFFICES ASSUME TypeOK, Framing, HandedIsSent, [Next]_vars, preempted' = 0
               PROVE  HandedIsSent'
    BY DEF HandedIsSent
  <2>0. preempted = 0
    BY DEF Next, SendKeys, SendSector, PutChar, Dispatch, vars, TypeOK
  <2>1. CASE Dispatch
    <3> DEFINE p == recvq[1]
    <3>1. recvq \in Seq([type : Bytes, data : Seq(Bytes)]) /\ recvq # <<>>
      BY <2>1 DEF Dispatch, TypeOK
    <3>2. 1 \in DOMAIN recvq
      BY <3>1, RestLemma
    <3>3. p \in Frames
      BY <2>0, <3>2 DEF Framing
    <3>4. KeyLen \in Nat /\ FlashLen \in Nat
      BY UplinkAssumption
    <3>5. handed' = CASE p.type = KeyType   -> <<"mq_key_ms", Copy(p.data, KeyLen)>>
                      [] p.type = FlashType -> <<"mq_flash_read", Copy(p.data, FlashLen)>>
                      [] OTHER              -> handed
      BY <2>1 DEF Dispatch
    <3> HIDE DEF p
    <3>6. CASE p \in [type : {KeyType}, data : Reports]
      <4>1. p.type = KeyType /\ p.data \in Reports /\ Copy(p.data, KeyLen) = p.data
        BY <3>4, <3>6, CopyLemma, UplinkAssumption
      <4>2. handed' = <<"mq_key_ms", p.data>>
        BY <3>5, <4>1, UplinkAssumption
      <4> QED
        BY <4>1, <4>2 DEF HandedIsSent
    <3>7. CASE p \in [type : {FlashType}, data : Sectors]
      <4>1. p.type = FlashType /\ p.data \in Sectors /\ Copy(p.data, FlashLen) = p.data
        BY <3>4, <3>7, CopyLemma, UplinkAssumption
      <4>2. handed' = <<"mq_flash_read", p.data>>
        BY <3>5, <4>1, UplinkAssumption
      <4> QED
        BY <4>1, <4>2 DEF HandedIsSent
    <3> QED
      BY <3>3, <3>6, <3>7 DEF Frames
  <2>2. CASE ~Dispatch
    <3>1. handed' = handed
      BY <2>2 DEF Next, SendKeys, SendSector, PutChar, vars
    <3> QED
      BY <2>0, <3>1 DEF HandedIsSent
  <2> QED
    BY <2>1, <2>2
<1> QED
  BY <1>1, <1>2, FramingHolds, PTL DEF Spec
=============================================================================
