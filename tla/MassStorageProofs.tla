------------------------- MODULE MassStorageProofs -------------------------
(***************************************************************************)
(* Theorems about MassStorage, for every disk, block size and command      *)
(* length, as long as no reset finds a transfer under way (AnyReset is     *)
(* FALSE; with it the run mass_storage_reset shows what goes wrong).       *)
(*                                                                         *)
(* The argument.  Host and device go through a command together: each of   *)
(* its stages says where both are, what is in the endpoints, and, in a     *)
(* transfer of several packets, how the statics of Read_Memory and         *)
(* Write_Memory, which count in packets, blocks and bytes left, all follow *)
(* from the number of packets moved so far.                                *)
(***************************************************************************)
EXTENDS MassStorage, SeqLemmas

(* The memory of the device is a record of these fields.                   *)
Shape(d) ==
  d \in [cbw : {d.cbw}, signature : {d.signature}, residue : {d.residue},
         Bot_State : {d.Bot_State}, TransferState : {d.TransferState},
         Offset : {d.Offset}, Length : {d.Length},
         W_Offset : {d.W_Offset}, W_Length : {d.W_Length},
         Block_Read_count : {d.Block_Read_count}, Block_offset : {d.Block_offset},
         Counter : {d.Counter}, Data_Buffer : {d.Data_Buffer},
         in  : [status : {d.in.status}, packet : {d.in.packet}],
         out : [status : {d.out.status}, packet : {d.out.packet}]]

Hosts == [st : {"idle", "in", "out", "status"}, op : Ops, lba : BlockIds, n : 0 .. MaxLen,
          tag : {0, 1}, got : Nat, sent : Seq(Data)]

DevTypes(d) ==
  /\ Shape(d) /\ d.signature = TRUE
  /\ d.Data_Buffer \in [0 .. Packets - 1 -> Contents]
  /\ {d.in.status, d.out.status} \subseteq Statuses

Types ==
  /\ DevTypes(dev)
  /\ events \subseteq {"in", "out"}
  /\ flash \in [Cells -> Data \union {Garbage}]
  /\ access \in {"none", "read", "write"} /\ spoilt \in BOOLEAN
  /\ access = "read" => Reads
  /\ access = "write" => Writes
  /\ access # "none" => events # {}
  /\ troubles \in 0 .. MaxTroubles
  /\ host \in Hosts
  /\ disk \in [Cells -> Data \union {Unknown}]

(* No transfer is under way.                                               *)
Rest(d) == /\ d.TransferState = "IDLE" /\ d.Offset = 0 /\ d.Length = 0 /\ d.W_Offset = 0 /\ d.W_Length = 0
           /\ d.Block_Read_count = 0 /\ d.Block_offset = 0 /\ d.Counter = 0

N == DataLength(host.op, host.n)
TheCbw == Cbw(host.op, host.lba, host.n, host.tag)
Fits == host.op \in {"read", "write"} /\ host.n \in 1 .. MaxLen /\ host.lba + host.n <= Blocks

CellOK(c, v) == disk[c] = Unknown \/ v \in {disk[c], Garbage}

(* The host has no command; the device may still have to notice that its   *)
(* CSW was taken.                                                          *)
Free == /\ host.st = "idle" /\ host.op = "test" /\ host.got = 0 /\ host.sent = <<>>
        /\ Rest(dev) /\ access = "none" /\ dev.in.status = "NAK"
        /\ \/ events = {} /\ dev.Bot_State = "IDLE" /\ dev.out.status = "VALID"
           \/ events = {"in"} /\ dev.Bot_State \in {"CSW_Send", "ERROR"}

(* The device has yet to look at the command.                              *)
Asked == /\ host.n \in 1 .. MaxLen /\ host.got = 0 /\ host.sent = <<>>
         /\ host.st = CASE host.op = "write"  -> "out"
                        [] host.op \in {"read", "inquiry"} -> "in"
                        [] OTHER         -> "status"
         /\ host.op \in {"read", "write"} \/ (host.lba = 0 /\ host.n = 1)
         /\ Rest(dev) /\ dev.in.status = "NAK" /\ dev.out.status # "STALL"
         /\ dev.out.packet = TheCbw
         /\ \/ events = {"out"} /\ dev.Bot_State = "IDLE"
            \/ events = {"in", "out"} /\ dev.Bot_State \in {"CSW_Send", "ERROR"}

(* The statics of Read_Memory when t packets are prepared.                 *)
ReadStatics(d, t) ==
  /\ d.TransferState = "ONGOING" /\ d.Length = N - t /\ d.residue = N - t
  /\ d.Offset = host.lba * Packets + t
  /\ d.Block_offset \in 1 .. Packets
  /\ d.Block_Read_count = Packets - d.Block_offset
  /\ d.W_Offset = 0 /\ d.W_Length = 0 /\ d.Counter = 0

(* The last of them is the packet Block_offset - 1 of the block q of the   *)
(* command, and the rest of that block is in the buffer.                   *)
Held(d, t, q) ==
  /\ t = q * Packets + d.Block_offset
  /\ \A j \in d.Block_offset .. Packets - 1 : CellOK(<<host.lba + q, j>>, d.Data_Buffer[j])
  /\ d.in.status = "VALID" => CellOK(<<host.lba + q, d.Block_offset - 1>>, d.in.packet.v)

(* A READ with more to come.                                               *)
Reading ==
  LET t == IF dev.in.status = "VALID" THEN host.got + 1 ELSE host.got
  IN  /\ host.st = "in" /\ host.op = "read" /\ Fits /\ host.sent = <<>>
      /\ dev.Bot_State = "DATA_IN" /\ dev.cbw = TheCbw
      /\ \/ dev.in.status = "VALID" /\ events = {} /\ dev.in.packet.kind = "data"
         \/ dev.in.status = "NAK" /\ events = {"in"}
      /\ t \in 1 .. N - 1 /\ ReadStatics(dev, t)
      /\ \E q \in 0 .. host.n - 1 : Held(dev, t, q)

(* The last packet of data of a READ, or the only one of an answer.        *)
LastPacket ==
  /\ host.op \in {"read", "inquiry"} /\ host.sent = <<>> /\ host.n \in 1 .. MaxLen
  /\ dev.Bot_State = "DATA_IN_LAST" /\ Rest(dev) /\ access = "none"
  /\ dev.cbw = TheCbw /\ dev.residue = 0
  /\ \/ /\ host.st = "in" /\ host.got + 1 = N
        /\ dev.in.status = "VALID" /\ events = {} /\ dev.in.packet.kind = "data"
        /\ host.op = "read" =>
             Fits /\ CellOK(<<host.lba + host.n - 1, Packets - 1>>, dev.in.packet.v)
     \/ /\ host.st = "status" /\ host.got = N
        /\ dev.in.status = "NAK" /\ events = {"in"}

(* Block k of a WRITE is on the flash.                                     *)
Stored(k) == \A j \in 0 .. Packets - 1 :
               flash[<<host.lba + k, j>>] \in {host.sent[k * Packets + j + 1], Garbage}

(* The statics of Write_Memory when t packets are taken.                   *)
WriteStatics(d, t) ==
  /\ d.residue = N - t
  /\ d.Offset = 0 /\ d.Length = 0 /\ d.Block_Read_count = 0 /\ d.Block_offset = 0
  /\ IF t = 0 THEN d.TransferState = "IDLE" /\ d.W_Offset = 0 /\ d.W_Length = 0
     ELSE /\ d.TransferState = "ONGOING"
          /\ d.W_Offset = host.lba * Packets + t /\ d.W_Length = N - t
  /\ d.Counter \in 0 .. Packets - 1

(* Counter of them, of the block q, are in the buffer.                     *)
Kept(d, t, q) ==
  /\ t = q * Packets + d.Counter
  /\ \A j \in 0 .. d.Counter - 1 : d.Data_Buffer[j] = host.sent[q * Packets + j + 1]

(* A WRITE: t packets have been taken.                                     *)
Writing ==
  LET t == IF events = {} THEN host.got ELSE host.got - 1
  IN  /\ host.op = "write" /\ Fits /\ Len(host.sent) = host.got
      /\ dev.Bot_State = "DATA_OUT" /\ dev.cbw = TheCbw /\ dev.in.status = "NAK"
      /\ \/ events = {} /\ dev.out.status = "VALID" /\ host.st = "out"
         \/ /\ events = {"out"} /\ dev.out.status = "NAK"
            /\ host.got >= 1 /\ dev.out.packet = DataPacket(host.sent[host.got])
            /\ host.st = IF host.got = N THEN "status" ELSE "out"
      /\ t \in 0 .. N - 1 /\ WriteStatics(dev, t)
      /\ \E q \in 0 .. host.n - 1 : Kept(dev, t, q) /\ \A k \in 0 .. q - 1 : Stored(k)

(* The host is to take the status of a command that is done ...            *)
Answered ==
  /\ host.st = "status" /\ host.op \notin {"invalid", "bad"} /\ host.got = N
  /\ dev.Bot_State = "CSW_Send" /\ Rest(dev) /\ events = {}
  /\ dev.in.status = "VALID"
  /\ dev.in.packet = [kind |-> "csw", tag |-> host.tag, status |-> "PASSED", residue |-> 0]
  /\ dev.residue = 0
  /\ host.op = "write" => Fits /\ Len(host.sent) = N /\ \A k \in 0 .. host.n - 1 : Stored(k)

(* ... or refused: it lies behind stalled endpoints.                       *)
Refused ==
  /\ host.st \in {"in", "out", "status"} /\ host.got = 0 /\ host.sent = <<>> /\ host.n \in 1 .. MaxLen
  /\ dev.Bot_State = "ERROR" /\ Rest(dev) /\ events = {}
  /\ dev.in.status \in {"STALL", "VALID"}
  /\ dev.in.packet = [kind |-> "csw", tag |-> host.tag, status |-> "FAILED", residue |-> N]
  /\ dev.residue = N
  /\ host.st = "in" => dev.in.status = "STALL"
  /\ host.st = "out" => dev.in.status = "STALL" /\ dev.out.status = "STALL"

DiskOK == \A c \in Cells : \/ CellOK(c, flash[c])
                           \/ host.op = "write" /\ host.got > 0 /\ c \in CommandCells

Stages == Free \/ Asked \/ Reading \/ LastPacket \/ Writing \/ Answered \/ Refused
ResidueOK == dev.residue \in 0 .. MaxLen * Packets

Inv == Types /\ ResidueOK /\ Stages /\ DiskOK
-----------------------------------------------------------------------------
(* Division by the size of a block or of the disk.                         *)
LEMMA MulLemma ==
  ASSUME NEW P \in Nat \ {0}, NEW m \in Int
  PROVE  /\ m * P \in Int
         /\ m >= 1 => m * P >= P
         /\ m <= -1 => m * P <= -P
         /\ m >= 0 => m * P >= 0
OBVIOUS

LEMMA DivDef ==
  ASSUME NEW P \in Nat \ {0}, NEW x \in Int
  PROVE  x \div P \in Int /\ x % P \in 0 .. P - 1 /\ x = (x \div P) * P + (x % P)
OBVIOUS

LEMMA DivLemma ==
  ASSUME NEW P \in Nat \ {0}, NEW q \in Int, NEW r \in 0 .. P - 1
  PROVE  (q * P + r) \div P = q /\ (q * P + r) % P = r
<1> DEFINE x == q * P + r
           d == x \div P
           s == x % P
           e == d - q
<1>1. x \in Int
  OBVIOUS
<1>2. d \in Int /\ s \in 0 .. P - 1 /\ x = d * P + s
  BY <1>1, DivDef
<1> HIDE DEF d, s
<1>3. e * P = r - s
  <2>1. q * P \in Int /\ d * P \in Int /\ q * P + r = d * P + s
    BY <1>2
  <2>2. e * P = d * P - q * P
    BY <1>2
  <2> QED BY <2>1, <2>2, <1>2
<1> HIDE DEF x
<1>4. e \in Int
  BY <1>2
<1> HIDE DEF e
<1>5. r - s < P /\ r - s > -P
  BY <1>2
<1>6. ~ (e >= 1) /\ ~ (e <= -1)
  BY <1>3, <1>4, <1>5, MulLemma
<1>7. e = 0
  BY <1>4, <1>6
<1>8. d = q /\ r = s
  <2>1. d = q
    BY <1>2, <1>7 DEF e
  <2>2. q * P \in Int /\ q * P + r = q * P + s
    BY <1>2, <2>1 DEF x
  <2> QED BY <2>1, <2>2, <1>2
<1> QED BY <1>8 DEF d, s, x

(* No length underflows.                                                   *)
LEMMA ModLemma ==
  ASSUME NEW m \in Nat \ {0}, NEW x \in 0 .. m - 1
  PROVE  x % m = x
<1>1. 0 * m + x = x
  OBVIOUS
<1> QED BY <1>1, DivLemma

-----------------------------------------------------------------------------
(* The functions of the device, field by field.                            *)
Fields == {"cbw", "signature", "residue", "Bot_State", "TransferState", "Offset", "Length",
           "W_Offset", "W_Length", "Block_Read_count", "Block_offset", "Counter", "Data_Buffer",
           "in", "out"}
Changes(d, e, fields) == Shape(e) /\ \A f \in Fields \ fields : e[f] = d[f]

LEMMA SettledLemma ==
  ASSUME NEW d, Shape(d), AnyReset = FALSE
  PROVE  LET e == Settled(d) IN
         /\ Changes(d, e, {"in", "Data_Buffer", "W_Offset", "cbw", "residue"})
         /\ e.in.status = d.in.status
         /\ e.in.packet = IF d.in.status = "NAK" THEN NoPacket ELSE d.in.packet
         /\ e.W_Offset = IF d.TransferState = "IDLE" THEN 0 ELSE d.W_Offset
         /\ e.Data_Buffer = IF d.Block_Read_count = 0 /\ d.Counter = 0 THEN Boot.Data_Buffer
                            ELSE d.Data_Buffer
         /\ e.cbw = IF d.Bot_State = "IDLE" THEN NoPacket ELSE d.cbw
         /\ e.residue = IF d.Bot_State = "IDLE" THEN 0 ELSE d.residue
<1> DEFINE i == IF d.in.status = "NAK" THEN [d EXCEPT !.in.packet = NoPacket] ELSE d
           b == IF d.Block_Read_count = 0 /\ d.Counter = 0
                THEN [i EXCEPT !.Data_Buffer = Boot.Data_Buffer] ELSE i
           o == IF d.TransferState = "IDLE" /\ ~AnyReset
                THEN [b EXCEPT !.W_Offset = 0] ELSE b
           e == IF d.Bot_State = "IDLE" THEN [o EXCEPT !.cbw = NoPacket, !.residue = 0] ELSE o
<1>0. e = Settled(d)
  BY DEF Settled
<1>1. /\ Changes(d, i, {"in"})
      /\ i.in.packet = IF d.in.status = "NAK" THEN NoPacket ELSE d.in.packet
      /\ i.in.status = d.in.status
  BY DEF Shape, Changes, Fields
<1> HIDE DEF i
<1>2. /\ Changes(i, b, {"Data_Buffer"})
      /\ b.Data_Buffer = IF d.Block_Read_count = 0 /\ d.Counter = 0 THEN Boot.Data_Buffer ELSE i.Data_Buffer
  BY <1>1 DEF Shape, Changes, Fields
<1> HIDE DEF b
<1>3. /\ Changes(b, o, {"W_Offset"})
      /\ o.W_Offset = IF d.TransferState = "IDLE" THEN 0 ELSE b.W_Offset
  BY <1>2 DEF Shape, Changes, Fields
<1> HIDE DEF o
<1>4. /\ Changes(o, e, {"cbw", "residue"})
      /\ e.cbw = IF d.Bot_State = "IDLE" THEN NoPacket ELSE o.cbw
      /\ e.residue = IF d.Bot_State = "IDLE" THEN 0 ELSE o.residue
  BY <1>3 DEF Shape, Changes, Fields
<1> HIDE DEF e
<1> QED BY <1>0, <1>1, <1>2, <1>3, <1>4 DEF Changes, Fields

(* The CSW, sent at once or behind a stalled endpoint.                     *)
LEMMA CswLemma ==
  ASSUME NEW d, Shape(d), NEW status
  PROVE  LET e == Set_CSW(d, status, TRUE)
             f == Set_CSW(d, status, FALSE)
             csw == [kind |-> "csw", tag |-> d.cbw.tag, status |-> status, residue |-> d.residue]
         IN  /\ Changes(d, e, {"in", "Bot_State"}) /\ Changes(d, f, {"in", "Bot_State"})
             /\ e.in.status = "VALID" /\ e.in.packet = csw /\ e.Bot_State = "CSW_Send"
             /\ f.in.status = d.in.status /\ f.in.packet = csw /\ f.Bot_State = "ERROR"
BY DEF Set_CSW, SetIn, Shape, Changes, Fields

LEMMA SetOutLemma ==
  ASSUME NEW d, Shape(d), NEW status
  PROVE  /\ Changes(d, SetOut(d, status), {"out"})
         /\ SetOut(d, status).out.status = status /\ SetOut(d, status).out.packet = d.out.packet
BY DEF SetOut, Shape, Changes, Fields

LEMMA SetInLemma ==
  ASSUME NEW d, Shape(d), NEW status
  PROVE  /\ Changes(d, SetIn(d, status), {"in"})
         /\ SetIn(d, status).in.status = status /\ SetIn(d, status).in.packet = d.in.packet
BY DEF SetIn, Shape, Changes, Fields

LEMMA FailLemma ==
  ASSUME NEW d, Shape(d), NEW dir \in {"IN", "BOTH"}, NEW status
  PROVE  LET e == Fail(d, dir, status)
         IN  /\ Changes(d, e, {"in", "out", "Bot_State"})
             /\ e.in.status = "STALL" /\ e.Bot_State = "ERROR"
             /\ e.in.packet = [kind |-> "csw", tag |-> d.cbw.tag, status |-> status, residue |-> d.residue]
             /\ e.out.packet = d.out.packet
             /\ e.out.status = IF dir = "IN" THEN d.out.status ELSE "STALL"
<1> DEFINE i == SetIn(d, "STALL")
           a == IF dir = "BOTH" THEN SetOut(i, "STALL") ELSE i
<1>1. /\ Changes(d, i, {"in"}) /\ i.in.status = "STALL"
  BY SetInLemma
<1> HIDE DEF i
<1>2. /\ Changes(i, a, {"out"}) /\ a.out.packet = i.out.packet
      /\ a.out.status = IF dir = "IN" THEN i.out.status ELSE "STALL"
  BY <1>1, SetOutLemma DEF Changes
<1>3. Fail(d, dir, status) = Set_CSW(a, status, FALSE)
  <2>1. CASE dir = "IN"
    BY <2>1 DEF Fail, Bot_Abort, i
  <2>2. CASE dir = "BOTH"
    BY <2>2 DEF Fail, Bot_Abort, i
  <2> QED BY <2>1, <2>2
<1> HIDE DEF a
<1>4. Shape(a)
  BY <1>2 DEF Changes
<1>5. LET e == Set_CSW(a, status, FALSE)
      IN  /\ Changes(a, e, {"in", "Bot_State"}) /\ e.in.status = a.in.status /\ e.Bot_State = "ERROR"
          /\ e.in.packet = [kind |-> "csw", tag |-> a.cbw.tag, status |-> status, residue |-> a.residue]
  BY <1>4 DEF Set_CSW, Shape, Changes, Fields
<1> QED BY <1>1, <1>2, <1>3, <1>5 DEF Changes, Fields

(* A READ begins, or goes on where the statics say.                        *)
LEMMA StartedLemma ==
  ASSUME NEW d, Shape(d), d.TransferState \in {"IDLE", "ONGOING"},
         NEW off \in {"Offset", "W_Offset"}, NEW len \in {"Length", "W_Length"}
  PROVE  LET e == Started(d, off, len)
         IN  /\ Changes(d, e, {off, len, "TransferState"}) /\ e.TransferState = "ONGOING"
             /\ e[off] = IF d.TransferState = "IDLE" THEN d.cbw.lba * Packets ELSE d[off]
             /\ e[len] = IF d.TransferState = "IDLE" THEN d.cbw.n * Packets ELSE d[len]
BY DEF Started, Shape, Changes, Fields

LEMMA SentLemma ==
  ASSUME NEW d, Shape(d), d.TransferState \in {"IDLE", "ONGOING"}, NEW content
  PROVE  LET s == Started(d, "Offset", "Length")
             load == d.Block_Read_count = 0
             at == IF load THEN 0 ELSE d.Block_offset
             e == PacketSent(d, content)
         IN  /\ Changes(d, e, {"in", "Data_Buffer", "Block_Read_count", "Block_offset", "Offset",
                               "Length", "residue", "TransferState"})
             /\ e.TransferState = "ONGOING" /\ e.in.status = "VALID"
             /\ e.Data_Buffer = IF load THEN content ELSE d.Data_Buffer
             /\ e.in.packet = DataPacket(e.Data_Buffer[at])
             /\ e.Block_Read_count = IF load THEN Packets - 1 ELSE d.Block_Read_count - 1
             /\ e.Block_offset = at + 1
             /\ e.Offset = (s.Offset + 1) % (Blocks * Packets)
             /\ e.Length = (s.Length - 1) % LenMod
             /\ e.residue = (d.residue - 1) % LenMod
<1> DEFINE s == Started(d, "Offset", "Length")
           load == s.Block_Read_count = 0
           buf  == IF load THEN content ELSE s.Data_Buffer
           at   == IF load THEN 0 ELSE s.Block_offset
           v    == SetIn(s, "VALID")
           e    == [v EXCEPT !.in.packet = DataPacket(buf[at]),
                      !.Data_Buffer = buf,
                      !.Block_Read_count = (IF load THEN Packets ELSE @) - 1,
                      !.Block_offset = at + 1,
                      !.Offset = (@ + 1) % (Blocks * Packets),
                      !.Length = (@ - 1) % LenMod,
                      !.residue = (@ - 1) % LenMod]
<1>1. Changes(d, s, {"Offset", "Length", "TransferState"}) /\ s.TransferState = "ONGOING"
  BY StartedLemma DEF Changes
<1>2. e = PacketSent(d, content)
  BY DEF PacketSent
<1> HIDE DEF s
<1>3. Changes(s, v, {"in"}) /\ v.in.status = "VALID"
  BY <1>1, SetInLemma DEF Changes
<1> HIDE DEF v
<1>4. /\ Changes(v, e, {"in", "Data_Buffer", "Block_Read_count", "Block_offset", "Offset",
                        "Length", "residue"})
      /\ e.in.status = v.in.status /\ e.in.packet = DataPacket(buf[at]) /\ e.Data_Buffer = buf
      /\ e.Block_Read_count = (IF load THEN Packets ELSE v.Block_Read_count) - 1
      /\ e.Block_offset = at + 1 /\ e.Offset = (v.Offset + 1) % (Blocks * Packets)
      /\ e.Length = (v.Length - 1) % LenMod /\ e.residue = (v.residue - 1) % LenMod
  BY <1>3 DEF Shape, Changes, Fields
<1> HIDE DEF e
<1>5. /\ s.Block_Read_count = d.Block_Read_count /\ s.Data_Buffer = d.Data_Buffer
      /\ s.Block_offset = d.Block_offset /\ s.residue = d.residue
  BY <1>1 DEF Changes, Fields
<1>6. /\ v.Block_Read_count = s.Block_Read_count /\ v.Offset = s.Offset /\ v.Length = s.Length
      /\ v.residue = s.residue /\ v.TransferState = s.TransferState
  BY <1>3 DEF Changes, Fields
<1>7. e.TransferState = v.TransferState
  BY <1>4 DEF Changes, Fields
<1>8. Changes(d, e, {"in", "Data_Buffer", "Block_Read_count", "Block_offset", "Offset",
                     "Length", "residue", "TransferState"})
  BY <1>1, <1>3, <1>4 DEF Changes, Fields
<1> QED BY <1>1, <1>2, <1>3, <1>4, <1>5, <1>6, <1>7, <1>8 DEF s

LEMMA ReadLemma ==
  ASSUME NEW d, Shape(d), d.TransferState \in {"IDLE", "ONGOING"}, NEW content
  PROVE  LET s == PacketSent(d, content)
             e == Read_Memory(d, content)
         IN  /\ s.Length # 0 => e = s
             /\ s.Length = 0 =>
                  /\ Changes(s, e, {"Block_Read_count", "Block_offset", "Offset", "Bot_State", "TransferState"})
                  /\ e.Block_Read_count = 0 /\ e.Block_offset = 0 /\ e.Offset = 0
                  /\ e.Bot_State = "DATA_IN_LAST" /\ e.TransferState = "IDLE"
<1> DEFINE s == PacketSent(d, content)
<1>1. Shape(s)
  BY SentLemma DEF Changes
<1>2. Read_Memory(d, content) =
      IF s.Length = 0
      THEN [s EXCEPT !.Block_Read_count = 0, !.Block_offset = 0, !.Offset = 0,
                     !.Bot_State = "DATA_IN_LAST", !.TransferState = "IDLE"]
      ELSE s
  BY DEF Read_Memory
<1> HIDE DEF s
<1> QED BY <1>1, <1>2 DEF Shape, Changes, Fields, s

LEMMA TakenLemma ==
  ASSUME NEW d, Shape(d), d.TransferState \in {"IDLE", "ONGOING"}
  PROVE  LET s == Started(d, "W_Offset", "W_Length")
             e == Taken(d)
         IN  /\ Changes(d, e, {"Data_Buffer", "Counter", "W_Offset", "W_Length", "TransferState"})
             /\ e.TransferState = "ONGOING"
             /\ e.Data_Buffer = [d.Data_Buffer EXCEPT ![d.Counter] = d.out.packet.v]
             /\ e.Counter = d.Counter + 1
             /\ e.W_Offset = (s.W_Offset + 1) % (Blocks * Packets)
             /\ e.W_Length = (s.W_Length - 1) % LenMod
<1> DEFINE s == Started(d, "W_Offset", "W_Length")
           e == [s EXCEPT !.Data_Buffer = [@ EXCEPT ![s.Counter] = d.out.packet.v],
                          !.Counter = @ + 1,
                          !.W_Offset = (@ + 1) % (Blocks * Packets),
                          !.W_Length = (@ - 1) % LenMod]
<1>1. Changes(d, s, {"W_Offset", "W_Length", "TransferState"}) /\ s.TransferState = "ONGOING"
  BY StartedLemma DEF Changes
<1>2. e = Taken(d)
  BY DEF Taken
<1> HIDE DEF s
<1>3. /\ Changes(s, e, {"Data_Buffer", "Counter", "W_Offset", "W_Length"})
      /\ e.Data_Buffer = [s.Data_Buffer EXCEPT ![s.Counter] = d.out.packet.v]
      /\ e.Counter = s.Counter + 1
      /\ e.W_Offset = (s.W_Offset + 1) % (Blocks * Packets)
      /\ e.W_Length = (s.W_Length - 1) % LenMod
  BY <1>1 DEF Shape, Changes, Fields
<1> HIDE DEF e
<1>4. s.Data_Buffer = d.Data_Buffer /\ s.Counter = d.Counter /\ e.TransferState = s.TransferState
  BY <1>1, <1>3 DEF Changes, Fields
<1>5. Changes(d, e, {"Data_Buffer", "Counter", "W_Offset", "W_Length", "TransferState"})
  BY <1>1, <1>3 DEF Changes, Fields
<1> QED BY <1>1, <1>2, <1>3, <1>4, <1>5 DEF s

LEMMA StoredLemma ==
  ASSUME NEW d, Shape(d), d.TransferState \in {"IDLE", "ONGOING"}
  PROVE  LET t == Taken(d)
             e == PacketStored(d)
         IN  /\ Changes(t, e, {"out", "residue", "Counter"})
             /\ e.out.status = "VALID" /\ e.out.packet = t.out.packet
             /\ e.residue = (t.residue - 1) % LenMod
             /\ e.Counter = IF BlockIsFull(d) THEN 0 ELSE t.Counter
<1> DEFINE t == Taken(d)
           v == SetOut(t, "VALID")
           e == [v EXCEPT !.residue = (@ - 1) % LenMod,
                          !.Counter = IF BlockIsFull(d) THEN 0 ELSE @]
<1>1. Shape(t)
  BY TakenLemma DEF Changes
<1>2. e = PacketStored(d)
  BY DEF PacketStored
<1> HIDE DEF t
<1>3. Changes(t, v, {"out"}) /\ v.out.status = "VALID" /\ v.out.packet = t.out.packet
  BY <1>1, SetOutLemma
<1> HIDE DEF v
<1>4. /\ Changes(v, e, {"residue", "Counter"})
      /\ e.residue = (v.residue - 1) % LenMod
      /\ e.Counter = IF BlockIsFull(d) THEN 0 ELSE v.Counter
  BY <1>3 DEF Shape, Changes, Fields
<1> HIDE DEF e
<1> QED BY <1>2, <1>3, <1>4 DEF Changes, Fields, t

LEMMA WriteLemma ==
  ASSUME NEW d, Shape(d), d.TransferState \in {"IDLE", "ONGOING"}
  PROVE  LET s == PacketStored(d)
             e == Write_Memory(d)
         IN  /\ s.W_Length # 0 => e = s
             /\ s.W_Length = 0 =>
                  /\ Changes(s, e, {"in", "Bot_State", "Counter", "TransferState"})
                  /\ e.in.status = "VALID" /\ e.Bot_State = "CSW_Send"
                  /\ e.in.packet = [kind |-> "csw", tag |-> s.cbw.tag, status |-> "PASSED",
                                    residue |-> s.residue]
                  /\ e.Counter = 0 /\ e.TransferState = "IDLE"
<1> DEFINE s == PacketStored(d)
           c == Set_CSW(s, "PASSED", TRUE)
<1>1. Shape(s)
  BY StoredLemma DEF Changes
<1>2. Write_Memory(d) =
      IF s.W_Length = 0 THEN [c EXCEPT !.Counter = 0, !.TransferState = "IDLE"] ELSE s
  BY DEF Write_Memory
<1> HIDE DEF s
<1>3. /\ Changes(s, c, {"in", "Bot_State"}) /\ c.in.status = "VALID" /\ c.Bot_State = "CSW_Send"
      /\ c.in.packet = [kind |-> "csw", tag |-> s.cbw.tag, status |-> "PASSED", residue |-> s.residue]
  BY <1>1 DEF Set_CSW, SetIn, Shape, Changes, Fields
<1> HIDE DEF c
<1>4. s.W_Length # 0 => Write_Memory(d) = s
  BY <1>2
<1>5. ASSUME s.W_Length = 0
      PROVE  LET e == [c EXCEPT !.Counter = 0, !.TransferState = "IDLE"]
             IN  /\ Changes(c, e, {"Counter", "TransferState"})
                 /\ e.Counter = 0 /\ e.TransferState = "IDLE"
  BY <1>3 DEF Shape, Changes, Fields
<1> QED BY <1>2, <1>3, <1>4, <1>5 DEF Changes, Fields, s

-----------------------------------------------------------------------------
(* The offsets and lengths of a command that fits on the disk.             *)
LEMMA BoundsLemma ==
  ASSUME NEW P \in Nat \ {0}, NEW B \in Nat, NEW lba \in Nat, NEW M \in Nat, NEW n \in 1 .. M,
         lba + n <= B
  PROVE  /\ n * P \in Nat /\ lba * P \in Nat /\ M * P \in Nat /\ B * P \in Nat
         /\ P <= n * P /\ n * P <= M * P /\ lba * P + n * P <= B * P
<1>1. n * P \in Int /\ lba * P \in Int /\ M * P \in Int /\ B * P \in Int
  OBVIOUS
<1>2. n * P >= P /\ n * P >= 0 /\ lba * P >= 0 /\ (M - n) * P >= 0 /\ (B - (lba + n)) * P >= 0
  BY MulLemma
<1>3. (M - n) * P = M * P - n * P /\ (B - (lba + n)) * P = B * P - (lba * P + n * P)
  OBVIOUS
<1> QED BY <1>1, <1>2, <1>3

(* Where packet q * P + r of n blocks of P packets lies.                   *)
LEMMA PlaceLemma ==
  ASSUME NEW P \in Nat \ {0}, NEW n \in Nat, NEW q \in Int, NEW r \in 0 .. P - 1,
         q * P + r >= 0, q * P + r < n * P
  PROVE  /\ q \in 0 .. n - 1
         /\ q * P + r + 1 = n * P => q = n - 1 /\ r = P - 1
         /\ q < n - 1 => q * P + r + 1 < n * P
<1>1. q * P \in Int /\ n * P \in Int
  OBVIOUS
<1>2. (n - q) * P = n * P - q * P /\ (n - 1 - q) * P = n * P - q * P - P
  OBVIOUS
<1>3. q >= 0
  BY <1>1, MulLemma
<1>4. q < n
  BY <1>1, <1>2, MulLemma
<1>5. q < n - 1 => n * P - q * P - P >= P
  <2> HAVE q < n - 1
  <2>1. n - 1 - q \in Int /\ n - 1 - q >= 1
    OBVIOUS
  <2> QED BY <2>1, <1>2, MulLemma
<1>6. q = n - 1 => n * P - q * P - P = 0
  <2> HAVE q = n - 1
  <2>1. (n - 1 - q) * P = 0 * P
    OBVIOUS
  <2> QED BY <2>1, <1>2
<1> QED BY <1>1, <1>3, <1>4, <1>5, <1>6

LEMMA Sizes ==
  /\ Blocks \in Nat \ {0} /\ Packets \in Nat \ {0} /\ MaxLen \in Nat \ {0}
  /\ MaxLen * Packets \in Nat /\ LenMod \in Nat \ {0} /\ LenMod > MaxLen * Packets
  /\ 1 <= MaxLen * Packets
  /\ Blocks * Packets \in Nat \ {0}
<1>1. Blocks \in Nat \ {0} /\ Packets \in Nat \ {0} /\ MaxLen \in Nat \ {0} /\ LenMod \in Nat
      /\ LenMod > MaxLen * Packets
  BY SizesAssumption
<1>2. MaxLen * Packets \in Int /\ MaxLen * Packets >= Packets
      /\ Blocks * Packets \in Int /\ Blocks * Packets >= Packets
  BY <1>1, MulLemma
<1> QED BY <1>1, <1>2

(* The length of the command of the host.                                  *)
LEMMA LengthLemma ==
  ASSUME host \in Hosts, host.n \in 1 .. MaxLen
  PROVE  /\ N \in 0 .. MaxLen * Packets
         /\ host.op \in {"read", "write"} => N = host.n * Packets /\ N >= 1
         /\ host.op = "inquiry" => N = 1
         /\ host.op \in {"test", "invalid", "bad"} => N = 0
         /\ host.op \in {"read", "write", "inquiry", "test", "invalid", "bad"}
<1>1. host.op \in {"read", "write", "inquiry", "test", "invalid", "bad"}
  BY DEF Hosts, Ops
<1>2. host.n * Packets \in Nat /\ host.n * Packets >= Packets /\ host.n * Packets <= MaxLen * Packets
  <2>1. 0 + host.n <= MaxLen
    OBVIOUS
  <2> QED BY <2>1, Sizes, BoundsLemma
<1>3. CASE host.op \in {"read", "write"}
  <2>1. N = host.n * Packets
    BY <1>3 DEF N, DataLength
  <2> QED BY <1>1, <1>2, <1>3, <2>1, Sizes
<1>4. CASE host.op = "inquiry"
  <2>1. N = 1
    BY <1>4 DEF N, DataLength
  <2> QED BY <1>1, <1>4, <2>1, Sizes
<1>5. CASE host.op \in {"test", "invalid", "bad"}
  <2>1. N = 0
    BY <1>5 DEF N, DataLength
  <2> QED BY <1>1, <1>5, <2>1, Sizes
<1> QED BY <1>1, <1>3, <1>4, <1>5

(* Of a READ or WRITE that fits, before its last packet.                   *)
LEMMA FitsLemma ==
  ASSUME host \in Hosts, Fits, NEW t \in Nat, t < N
  PROVE  /\ N = host.n * Packets /\ N \in 1 .. MaxLen * Packets
         /\ host.lba \in Nat /\ host.lba * Packets \in Nat
         /\ host.lba * Packets + N <= Blocks * Packets
         /\ (N - t - 1) % LenMod = N - t - 1
         /\ t + 1 < N => (host.lba * Packets + t + 1) % (Blocks * Packets) = host.lba * Packets + t + 1
<1>1. host.n \in 1 .. MaxLen /\ host.lba \in Nat /\ host.lba + host.n <= Blocks
  BY Sizes DEF Fits, Hosts, BlockIds
<1>2. N = host.n * Packets /\ N >= 1
  BY <1>1, LengthLemma DEF Fits
<1>3. /\ host.n * Packets \in Nat /\ host.lba * Packets \in Nat /\ MaxLen * Packets \in Nat
      /\ host.n * Packets <= MaxLen * Packets /\ host.lba * Packets + host.n * Packets <= Blocks * Packets
  BY <1>1, Sizes, BoundsLemma
<1>4. N \in 1 .. MaxLen * Packets /\ host.lba * Packets + N <= Blocks * Packets
  BY <1>2, <1>3
<1> HIDE DEF N
<1>5. N - t - 1 \in 0 .. LenMod - 1
  BY <1>4, Sizes
<1>6. (N - t - 1) % LenMod = N - t - 1
  BY <1>5, Sizes, ModLemma
<1>7. ASSUME t + 1 < N
      PROVE  (host.lba * Packets + t + 1) % (Blocks * Packets) = host.lba * Packets + t + 1
  <2>1. host.lba * Packets + t + 1 \in 0 .. Blocks * Packets - 1
    BY <1>3, <1>4, <1>7, Sizes
  <2> QED BY <2>1, Sizes, ModLemma
<1> QED BY <1>1, <1>2, <1>3, <1>4, <1>6, <1>7

LEMMA SuccLemma ==
  ASSUME NEW n \in Int, NEW t \in Int, NEW P \in Int, NEW at \in Int, at >= 0, at < P
  PROVE  n - t - 1 = n - (t + 1) /\ at + 1 \in 1 .. P /\ P - at - 1 = P - (at + 1)
OBVIOUS

(* Read_Memory prepares packet at of block q of the command.               *)
LEMMA ReadStep ==
  ASSUME host \in Hosts, Fits, host.op = "read",
         NEW d, Shape(d), d.cbw = TheCbw, d.Bot_State = "DATA_IN",
         NEW content, NEW t \in 0 .. N - 1, NEW q \in Int, NEW at \in 0 .. Packets - 1,
         t = q * Packets + at, d.residue = N - t,
         d.W_Offset = 0, d.W_Length = 0, d.Counter = 0,
         \/ d.TransferState = "IDLE" /\ t = 0
         \/ /\ d.TransferState = "ONGOING"
            /\ d.Offset = host.lba * Packets + t /\ d.Length = N - t,
         IF d.Block_Read_count = 0 THEN at = 0
         ELSE at = d.Block_offset /\ d.Block_Read_count = Packets - at,
         \A j \in at .. Packets - 1 :
           CellOK(<<host.lba + q, j>>, (IF d.Block_Read_count = 0 THEN content ELSE d.Data_Buffer)[j])
  PROVE  LET e == Read_Memory(d, content)
         IN  /\ Changes(d, e, {"in", "Data_Buffer", "Block_Read_count", "Block_offset", "Offset",
                               "Length", "residue", "TransferState", "Bot_State"})
             /\ e.in.status = "VALID" /\ e.in.packet.kind = "data"
             /\ e.Data_Buffer = IF d.Block_Read_count = 0 THEN content ELSE d.Data_Buffer
             /\ q \in 0 .. host.n - 1
             /\ IF t + 1 < N
                THEN e.Bot_State = "DATA_IN" /\ ReadStatics(e, t + 1) /\ Held(e, t + 1, q)
                ELSE /\ e.Bot_State = "DATA_IN_LAST" /\ Rest(e) /\ e.residue = 0
                     /\ CellOK(<<host.lba + host.n - 1, Packets - 1>>, e.in.packet.v)
<1> DEFINE b == Started(d, "Offset", "Length")
           s == PacketSent(d, content)
           e == Read_Memory(d, content)
           buf == IF d.Block_Read_count = 0 THEN content ELSE d.Data_Buffer
<1>1. t \in Nat /\ t < N
  BY FitsLemma, LengthLemma DEF Fits
<1>2. /\ N = host.n * Packets /\ N \in Nat /\ host.lba \in Nat /\ host.n \in Nat /\ host.lba * Packets \in Nat
      /\ (N - t - 1) % LenMod = N - t - 1 /\ Packets \in Nat \ {0}
      /\ t + 1 < N => (host.lba * Packets + t + 1) % (Blocks * Packets) = host.lba * Packets + t + 1
  BY <1>1, FitsLemma, Sizes DEF Fits
<1>3. q \in 0 .. host.n - 1 /\ (t + 1 = N => q = host.n - 1 /\ at = Packets - 1)
  <2>1. q * Packets + at >= 0 /\ q * Packets + at < host.n * Packets
    BY <1>1, <1>2
  <2> QED BY <2>1, <1>1, <1>2, PlaceLemma
<1>4. b.Offset = host.lba * Packets + t /\ b.Length = N - t
  <2>1. CASE d.TransferState = "IDLE"
    <3>1. b.Offset = d.cbw.lba * Packets /\ b.Length = d.cbw.n * Packets
      BY <2>1, StartedLemma
    <3>2. d.cbw.lba = host.lba /\ d.cbw.n = host.n
      BY DEF TheCbw, Cbw
    <3> QED BY <3>1, <3>2, <2>1, <1>2
  <2>2. CASE d.TransferState = "ONGOING"
    BY <2>2, StartedLemma
  <2> QED BY <2>1, <2>2
<1>5. /\ Changes(d, s, {"in", "Data_Buffer", "Block_Read_count", "Block_offset", "Offset",
                        "Length", "residue", "TransferState"})
      /\ s.TransferState = "ONGOING" /\ s.in.status = "VALID" /\ s.Data_Buffer = buf
      /\ s.in.packet = DataPacket(buf[at])
      /\ s.Block_Read_count = Packets - at - 1 /\ s.Block_offset = at + 1
      /\ s.Offset = (b.Offset + 1) % (Blocks * Packets)
      /\ s.Length = (b.Length - 1) % LenMod /\ s.residue = (d.residue - 1) % LenMod
  <2>1. d.TransferState \in {"IDLE", "ONGOING"}
    OBVIOUS
  <2>2. (IF d.Block_Read_count = 0 THEN 0 ELSE d.Block_offset) = at
    OBVIOUS
  <2>3. (IF d.Block_Read_count = 0 THEN Packets - 1 ELSE d.Block_Read_count - 1) = Packets - at - 1
    BY <1>2
  <2> QED BY <2>1, <2>2, <2>3, SentLemma
<1>0. \A j \in at .. Packets - 1 : CellOK(<<host.lba + q, j>>, buf[j])
  OBVIOUS
<1>B. /\ s.Data_Buffer = IF d.Block_Read_count = 0 THEN content ELSE d.Data_Buffer
      /\ s.Data_Buffer = buf
  BY <1>5
<1> HIDE DEF b, buf
<1>6. /\ s.Length = N - t - 1 /\ s.residue = N - t - 1
      /\ s.in.packet.v = buf[at] /\ s.in.packet.kind = "data"
      /\ t + 1 < N => s.Offset = host.lba * Packets + (t + 1)
  BY <1>1, <1>2, <1>4, <1>5 DEF DataPacket
<1>7. CellOK(<<host.lba + q, at>>, s.in.packet.v)
  <2>1. at \in at .. Packets - 1
    BY <1>2
  <2>2. CellOK(<<host.lba + q, at>>, buf[at])
    BY <1>0, <2>1
  <2> QED BY <1>6, <2>2
<1>8. /\ s.Length # 0 => e = s
      /\ s.Length = 0 =>
           /\ Changes(s, e, {"Block_Read_count", "Block_offset", "Offset", "Bot_State", "TransferState"})
           /\ e.Block_Read_count = 0 /\ e.Block_offset = 0 /\ e.Offset = 0
           /\ e.Bot_State = "DATA_IN_LAST" /\ e.TransferState = "IDLE"
  <2>1. d.TransferState \in {"IDLE", "ONGOING"}
    OBVIOUS
  <2> QED BY <2>1, ReadLemma
<1> HIDE DEF s, e
<1>9. Changes(d, e, {"in", "Data_Buffer", "Block_Read_count", "Block_offset", "Offset",
                     "Length", "residue", "TransferState", "Bot_State"})
      /\ e.in = s.in /\ e.Data_Buffer = s.Data_Buffer /\ e.residue = s.residue /\ e.Length = s.Length
  BY <1>5, <1>8 DEF Changes, Fields
<1>10. s.W_Offset = 0 /\ s.W_Length = 0 /\ s.Counter = 0 /\ s.Bot_State = "DATA_IN"
  BY <1>5 DEF Changes, Fields
<1>11. ASSUME t + 1 < N
       PROVE  e.Bot_State = "DATA_IN" /\ ReadStatics(e, t + 1) /\ Held(e, t + 1, q)
  <2>1. e = s
    BY <1>1, <1>2, <1>6, <1>8, <1>11
  <2>2. ReadStatics(s, t + 1)
    <3>1. N - t - 1 = N - (t + 1) /\ at + 1 \in 1 .. Packets /\ Packets - at - 1 = Packets - (at + 1)
      <4>1. N \in Int /\ t \in Int /\ at \in Int /\ Packets \in Int /\ at >= 0 /\ at < Packets
        BY <1>1, <1>2
      <4> QED BY <4>1, SuccLemma
    <3>2. s.Length = N - (t + 1) /\ s.residue = N - (t + 1)
      BY <1>6, <3>1
    <3>3. s.Block_offset \in 1 .. Packets /\ s.Block_Read_count = Packets - s.Block_offset
      BY <1>5, <3>1
    <3> QED BY <1>5, <1>6, <1>10, <1>11, <3>2, <3>3 DEF ReadStatics
  <2>3. t + 1 = q * Packets + (at + 1) /\ at + 1 - 1 = at
    <3>1. q * Packets \in Int /\ at \in Int
      BY <1>2
    <3> QED BY <3>1
  <2>4. \A j \in at + 1 .. Packets - 1 : CellOK(<<host.lba + q, j>>, buf[j])
    <3>1. at + 1 .. Packets - 1 \subseteq at .. Packets - 1
      BY <1>2
    <3> QED BY <1>0, <3>1
  <2>5. Held(s, t + 1, q)
    BY <1>5, <1>B, <1>7, <2>3, <2>4 DEF Held
  <2> QED BY <1>10, <2>1, <2>2, <2>5
<1>12. ASSUME ~ (t + 1 < N)
       PROVE  /\ e.Bot_State = "DATA_IN_LAST" /\ Rest(e) /\ e.residue = 0
              /\ CellOK(<<host.lba + host.n - 1, Packets - 1>>, e.in.packet.v)
  <2>1. t + 1 = N /\ s.Length = 0 /\ s.residue = 0
    BY <1>1, <1>2, <1>6, <1>12
  <2>2. q = host.n - 1 /\ at = Packets - 1 /\ host.lba + host.n - 1 = host.lba + q
    BY <2>1, <1>2, <1>3
  <2>3. e.W_Offset = 0 /\ e.W_Length = 0 /\ e.Counter = 0
    BY <1>8, <1>10, <2>1 DEF Changes, Fields
  <2>4. Rest(e)
    BY <1>8, <1>9, <2>1, <2>3 DEF Rest
  <2> QED BY <1>7, <1>8, <1>9, <2>1, <2>2, <2>4
<1> QED BY <1>3, <1>5, <1>B, <1>6, <1>9, <1>11, <1>12 DEF e

(* The chip ignores the bits of an offset beyond it, and the offset of     *)
(* Write_Memory is one block ahead, or 0 behind the last block.            *)
LEMMA BlockAtLemma ==
  ASSUME NEW b \in BlockIds
  PROVE  /\ BlockAt(b * Packets) = b
         /\ BlockAt((((b + 1) * Packets) % (Blocks * Packets)) - Packets) = b
<1>1. /\ Blocks \in Nat \ {0} /\ Packets \in Nat \ {0} /\ Blocks * Packets \in Nat \ {0}
      /\ b \in 0 .. Blocks - 1
  BY Sizes DEF BlockIds
<1>2. b % Blocks = b
  BY <1>1, ModLemma
<1>3. ASSUME NEW k \in Int
      PROVE  (k * Packets) \div Packets = k
  <2>1. (k * Packets + 0) \div Packets = k
    <3>1. 0 \in 0 .. Packets - 1
      BY <1>1
    <3> QED BY <1>1, <3>1, DivLemma
  <2>2. k * Packets + 0 = k * Packets
    BY <1>1
  <2> QED BY <2>1, <2>2
<1>4. (b + 1) * Packets - Packets = b * Packets /\ 0 - Packets = (-1) * Packets
  BY <1>1
<1>5. CASE b + 1 < Blocks
  <2>1. (b + 1) * Packets \in 0 .. Blocks * Packets - 1
    <3>1. (Blocks - (b + 1)) * Packets >= Packets /\ (b + 1) * Packets >= 0
      BY <1>1, <1>5, MulLemma
    <3>2. (Blocks - (b + 1)) * Packets = Blocks * Packets - (b + 1) * Packets
      BY <1>1
    <3>3. (b + 1) * Packets \in Int
      BY <1>1
    <3> QED BY <1>1, <3>1, <3>2, <3>3
  <2>2. ((b + 1) * Packets) % (Blocks * Packets) = (b + 1) * Packets
    BY <1>1, <2>1, ModLemma
  <2> QED BY <1>1, <1>2, <1>3, <1>4, <2>2 DEF BlockAt
<1>6. CASE b + 1 = Blocks
  <2>1. (1 * (Blocks * Packets) + 0) % (Blocks * Packets) = 0
    <3>1. 0 \in 0 .. Blocks * Packets - 1
      BY <1>1
    <3> QED BY <1>1, <3>1, DivLemma
  <2>2. 1 * (Blocks * Packets) + 0 = (b + 1) * Packets
    BY <1>1, <1>6
  <2>3. (((b + 1) * Packets) % (Blocks * Packets)) - Packets = (-1) * Packets
    BY <2>1, <2>2, <1>4
  <2>4. ((-1) * Packets) \div Packets = -1
    BY <1>3
  <2>5. (-1) % Blocks = b
    <3>1. ((-1) * Blocks + b) % Blocks = b
      BY <1>1, DivLemma
    <3>2. (-1) * Blocks + b = -1
      BY <1>1, <1>6
    <3> QED BY <3>1, <3>2
  <2> QED BY <1>1, <1>2, <1>3, <2>3, <2>4, <2>5 DEF BlockAt
<1> QED BY <1>1, <1>5, <1>6

(* Packet t of a command of n blocks is packet r of its block q.           *)
LEMMA CountLemma ==
  ASSUME NEW P \in Nat \ {0}, NEW n \in Nat, NEW q \in Int, NEW r \in 0 .. P - 1, NEW t \in Nat,
         NEW lba \in Nat, t = q * P + r, t < n * P
  PROVE  /\ q \in 0 .. n - 1
         /\ t + 1 = n * P => q = n - 1 /\ r = P - 1
         /\ q < n - 1 => t + 1 < n * P
         /\ (n * P - t - 1) % P = 0 <=> r = P - 1
         /\ r = P - 1 => t + 1 = (q + 1) * P /\ lba * P + t + 1 = (lba + q + 1) * P
<1>1. q * P \in Int /\ n * P \in Int /\ lba * P \in Int
  OBVIOUS
<1>2. /\ q \in 0 .. n - 1
      /\ q * P + r + 1 = n * P => q = n - 1 /\ r = P - 1
      /\ q < n - 1 => q * P + r + 1 < n * P
  BY PlaceLemma
<1>3. (n * P - t - 1) % P = P - 1 - r
  <2> DEFINE m == n - 1 - q
             x == P - 1 - r
  <2>1. m \in Int /\ x \in 0 .. P - 1
    OBVIOUS
  <2>2. m * P = n * P - P - q * P
    OBVIOUS
  <2>3. m * P + x = n * P - t - 1
    <3>1. m * P \in Int
      BY <2>1
    <3> HIDE DEF m
    <3> QED BY <2>2, <3>1, <1>1
  <2> HIDE DEF m, x
  <2>4. (m * P + x) % P = x
    BY <2>1, DivLemma
  <2> QED BY <2>3, <2>4 DEF x
<1>4. (lba + q + 1) * P = lba * P + q * P + P /\ (q + 1) * P = q * P + P
  OBVIOUS
<1>5. P - 1 - r = 0 <=> r = P - 1
  OBVIOUS
<1> QED BY <1>1, <1>2, <1>3, <1>4, <1>5

LEMMA PacketLemma ==
  ASSUME host \in Hosts, Fits, NEW q \in Int, NEW r \in 0 .. Packets - 1, NEW t \in Nat,
         t = q * Packets + r, t < N
  PROVE  /\ q \in 0 .. host.n - 1 /\ host.lba + q \in BlockIds
         /\ t + 1 = N => q = host.n - 1 /\ r = Packets - 1
         /\ q < host.n - 1 => t + 1 < N
         /\ (N - t - 1) % Packets = 0 <=> r = Packets - 1
         /\ r = Packets - 1 => /\ t + 1 = (q + 1) * Packets
                               /\ host.lba * Packets + t + 1 = (host.lba + q + 1) * Packets
<1>1. N = host.n * Packets /\ host.lba \in Nat
  BY FitsLemma
<1>2. host.n \in Nat /\ Packets \in Nat \ {0} /\ Blocks \in Nat /\ host.lba + host.n <= Blocks
  <2>1. host.n \in 1 .. MaxLen /\ host.lba + host.n <= Blocks
    BY DEF Fits
  <2> QED BY <2>1, Sizes
<1> DEFINE n == host.n
           lba == host.lba
<1>3. n \in Nat /\ lba \in Nat /\ t < n * Packets
  BY <1>1, <1>2
<1> HIDE DEF n, lba
<1>4. /\ q \in 0 .. n - 1
      /\ t + 1 = n * Packets => q = n - 1 /\ r = Packets - 1
      /\ q < n - 1 => t + 1 < n * Packets
      /\ (n * Packets - t - 1) % Packets = 0 <=> r = Packets - 1
      /\ r = Packets - 1 => t + 1 = (q + 1) * Packets /\ lba * Packets + t + 1 = (lba + q + 1) * Packets
  BY <1>2, <1>3, CountLemma
<1>5. lba + q \in BlockIds
  BY <1>2, <1>3, <1>4 DEF BlockIds, n, lba
<1> QED BY <1>1, <1>4, <1>5 DEF n, lba

(* Write_Memory takes packet Counter of block q of the command.            *)
LEMMA TakeStep ==
  ASSUME host \in Hosts, Fits, host.op = "write",
         NEW d, Shape(d), d.cbw = TheCbw, NEW t \in 0 .. N - 1, NEW q \in Int,
         WriteStatics(d, t), Kept(d, t, q), d.out.packet.v = host.sent[t + 1],
         d.Data_Buffer \in [0 .. Packets - 1 -> Contents]
  PROVE  LET s == Taken(d)
         IN  /\ q \in 0 .. host.n - 1 /\ host.lba + q \in BlockIds
             /\ Changes(d, s, {"Data_Buffer", "Counter", "W_Offset", "W_Length", "TransferState"})
             /\ s.TransferState = "ONGOING" /\ s.Counter = d.Counter + 1
             /\ s.W_Length = N - t - 1
             /\ t + 1 < N => s.W_Offset = host.lba * Packets + (t + 1)
             /\ t + 1 = N => d.Counter = Packets - 1 /\ q = host.n - 1
             /\ BlockIsFull(d) <=> d.Counter = Packets - 1
             /\ d.Counter = Packets - 1 => BlockAt(s.W_Offset - Packets) = host.lba + q
             /\ q < host.n - 1 => t + 1 < N
             /\ s.Data_Buffer = [d.Data_Buffer EXCEPT ![d.Counter] = host.sent[t + 1]]
             /\ \A j \in 0 .. d.Counter : s.Data_Buffer[j] = host.sent[q * Packets + j + 1]
<1> DEFINE b == Started(d, "W_Offset", "W_Length")
           s == Taken(d)
<1>1. t \in Nat /\ t < N
  BY FitsLemma, LengthLemma DEF Fits
<1>2. /\ N = host.n * Packets /\ N \in Nat /\ host.lba \in Nat /\ host.n \in Nat /\ host.lba * Packets \in Nat
      /\ (N - t - 1) % LenMod = N - t - 1 /\ Packets \in Nat \ {0} /\ Blocks \in Nat
      /\ t + 1 < N => (host.lba * Packets + t + 1) % (Blocks * Packets) = host.lba * Packets + t + 1
  <2>1. /\ N = host.n * Packets /\ N \in 1 .. MaxLen * Packets /\ host.lba \in Nat /\ host.lba * Packets \in Nat
        /\ (N - t - 1) % LenMod = N - t - 1
        /\ t + 1 < N => (host.lba * Packets + t + 1) % (Blocks * Packets) = host.lba * Packets + t + 1
    BY <1>1, FitsLemma
  <2>2. host.n \in 1 .. MaxLen /\ Packets \in Nat \ {0} /\ Blocks \in Nat /\ MaxLen \in Nat
    BY Sizes DEF Fits
  <2>3. N \in Nat
    BY <2>1
  <2>4. host.n \in Nat
    BY <2>2
  <2> QED BY <2>1, <2>2, <2>3, <2>4
<1>3. d.Counter \in 0 .. Packets - 1 /\ t = q * Packets + d.Counter
  BY DEF WriteStatics, Kept
<1>4. /\ q \in 0 .. host.n - 1
      /\ t + 1 = N => q = host.n - 1 /\ d.Counter = Packets - 1
      /\ q < host.n - 1 => t + 1 < N
      /\ (N - t - 1) % Packets = 0 <=> d.Counter = Packets - 1
      /\ d.Counter = Packets - 1 => host.lba * Packets + t + 1 = (host.lba + q + 1) * Packets
  BY <1>1, <1>3, PacketLemma
<1>5. host.lba + q \in BlockIds
  BY <1>1, <1>3, PacketLemma
<1>6. b.W_Offset = host.lba * Packets + t /\ b.W_Length = N - t /\ d.TransferState \in {"IDLE", "ONGOING"}
  <2>1. CASE t = 0
    <3>1. d.TransferState = "IDLE"
      BY <2>1 DEF WriteStatics
    <3>2. b.W_Offset = d.cbw.lba * Packets /\ b.W_Length = d.cbw.n * Packets
      BY <3>1, StartedLemma
    <3>3. d.cbw.lba = host.lba /\ d.cbw.n = host.n
      BY DEF TheCbw, Cbw
    <3>4. host.lba * Packets = host.lba * Packets + t /\ N = N - t
      <4>1. N \in Int /\ host.lba * Packets \in Int
        BY <1>2
      <4> QED BY <4>1, <2>1
    <3>5. host.n * Packets = N
      BY <1>2
    <3> QED BY <3>1, <3>2, <3>3, <3>4, <3>5
  <2>2. CASE t # 0
    <3>1. d.TransferState = "ONGOING" /\ d.W_Offset = host.lba * Packets + t /\ d.W_Length = N - t
      BY <2>2 DEF WriteStatics
    <3> QED BY <3>1, StartedLemma
  <2> QED BY <2>1, <2>2
<1>7. /\ Changes(d, s, {"Data_Buffer", "Counter", "W_Offset", "W_Length", "TransferState"})
      /\ s.TransferState = "ONGOING"
      /\ s.Data_Buffer = [d.Data_Buffer EXCEPT ![d.Counter] = host.sent[t + 1]]
      /\ s.Counter = d.Counter + 1
      /\ s.W_Offset = (b.W_Offset + 1) % (Blocks * Packets)
      /\ s.W_Length = (b.W_Length - 1) % LenMod
  BY <1>6, TakenLemma
<1> HIDE DEF b
<1>8. BlockIsFull(d) <=> s.W_Length % Packets = 0
  BY DEF BlockIsFull
<1> HIDE DEF s
<1>9. s.W_Length = N - t - 1 /\ (t + 1 < N => s.W_Offset = host.lba * Packets + (t + 1))
  <2>1. b.W_Length - 1 = N - t - 1 /\ b.W_Offset + 1 = host.lba * Packets + t + 1
        /\ host.lba * Packets + t + 1 = host.lba * Packets + (t + 1)
    <3>1. N \in Int /\ t \in Int /\ host.lba * Packets \in Int
      BY <1>1, <1>2
    <3> QED BY <3>1, <1>6
  <2> QED BY <2>1, <1>2, <1>7
<1>11. BlockIsFull(d) <=> d.Counter = Packets - 1
  BY <1>4, <1>8, <1>9
<1>12. ASSUME d.Counter = Packets - 1
       PROVE  BlockAt(s.W_Offset - Packets) = host.lba + q
  <2>1. b.W_Offset + 1 = (host.lba + q + 1) * Packets
    <3>1. b.W_Offset = host.lba * Packets + t
      BY <1>6
    <3>2. host.lba * Packets + t + 1 = (host.lba + q + 1) * Packets
      BY <1>4, <1>12
    <3> QED BY <3>1, <3>2
  <2>2. s.W_Offset = ((host.lba + q + 1) * Packets) % (Blocks * Packets)
    BY <1>7, <2>1
  <2> QED BY <1>5, <2>2, BlockAtLemma
<1>13. ASSUME NEW j \in 0 .. d.Counter
       PROVE  s.Data_Buffer[j] = host.sent[q * Packets + j + 1]
  <2>1. CASE j = d.Counter
    <3>1. s.Data_Buffer[j] = host.sent[t + 1]
      BY <1>3, <1>7, <2>1
    <3> QED BY <3>1, <2>1, <1>3
  <2>2. CASE j # d.Counter
    <3>1. j \in 0 .. d.Counter - 1 /\ j \in 0 .. Packets - 1
      <4>1. d.Counter \in Int /\ Packets \in Int /\ d.Counter < Packets /\ j \in Int /\ j >= 0 /\ j <= d.Counter
        BY <1>2, <1>3
      <4> QED BY <4>1, <2>2
    <3>2. s.Data_Buffer[j] = d.Data_Buffer[j]
      BY <3>1, <1>7, <2>2
    <3> QED BY <3>1, <3>2 DEF Kept
  <2> QED BY <2>1, <2>2
<1> QED BY <1>4, <1>5, <1>7, <1>9, <1>11, <1>12, <1>13 DEF s

-----------------------------------------------------------------------------
(* The handler, stage by stage.  m is the memory before what nobody reads  *)
(* is forgotten.                                                           *)
Made(content) == IF Ep = "in" THEN Mass_Storage_In(dev, content) ELSE Mass_Storage_Out(dev, content)

LEMMA HandlerLemma ==
  ASSUME AnyReset = FALSE, NEW content, DevTypes(Made(content))
  PROVE  LET m == Made(content)
             e == Handler(content)
         IN  /\ DevTypes(e) /\ Changes(m, e, {"in", "out", "Data_Buffer", "W_Offset", "cbw", "residue"})
             /\ e.in.status = m.in.status /\ (m.in.status # "NAK" => e.in.packet = m.in.packet)
             /\ e.out.status = m.out.status /\ (Ep = "in" => e.out.packet = m.out.packet)
             /\ e.W_Offset = IF m.TransferState = "IDLE" THEN 0 ELSE m.W_Offset
             /\ m.Block_Read_count # 0 \/ m.Counter # 0 => e.Data_Buffer = m.Data_Buffer
             /\ m.Bot_State # "IDLE" => e.cbw = m.cbw /\ e.residue = m.residue
             /\ m.Bot_State = "IDLE" => e.residue = 0
<1> DEFINE m == Made(content)
           o == IF Ep = "in" THEN m ELSE [m EXCEPT !.out.packet = NoPacket]
           e == Settled(o)
<1>1. e = Handler(content)
  BY DEF Handler, Made
<1>2. DevTypes(m)
  OBVIOUS
<1> HIDE DEF m
<1>3. /\ Changes(m, o, {"out"}) /\ o.out.status = m.out.status /\ (Ep = "in" => o = m)
  BY <1>2 DEF DevTypes, Shape, Changes, Fields
<1> HIDE DEF o
<1>4. /\ Changes(o, e, {"in", "Data_Buffer", "W_Offset", "cbw", "residue"})
      /\ e.in.status = o.in.status
      /\ e.in.packet = IF o.in.status = "NAK" THEN NoPacket ELSE o.in.packet
      /\ e.W_Offset = IF o.TransferState = "IDLE" THEN 0 ELSE o.W_Offset
      /\ e.Data_Buffer = IF o.Block_Read_count = 0 /\ o.Counter = 0 THEN Boot.Data_Buffer
                         ELSE o.Data_Buffer
      /\ e.cbw = IF o.Bot_State = "IDLE" THEN NoPacket ELSE o.cbw
      /\ e.residue = IF o.Bot_State = "IDLE" THEN 0 ELSE o.residue
  BY <1>3, SettledLemma DEF Changes
<1> HIDE DEF e
<1>5. Changes(m, e, {"in", "out", "Data_Buffer", "W_Offset", "cbw", "residue"})
  BY <1>3, <1>4 DEF Changes, Fields
<1>6. /\ o.in = m.in /\ o.TransferState = m.TransferState /\ o.W_Offset = m.W_Offset
      /\ o.Block_Read_count = m.Block_Read_count /\ o.Counter = m.Counter /\ o.Data_Buffer = m.Data_Buffer
      /\ o.Bot_State = m.Bot_State /\ o.cbw = m.cbw /\ o.residue = m.residue /\ o.signature = m.signature
  BY <1>3 DEF Changes, Fields
<1>7. e.out = o.out /\ e.signature = m.signature
  BY <1>4, <1>6 DEF Changes, Fields
<1>8. Boot.Data_Buffer \in [0 .. Packets - 1 -> Contents]
  BY DEF Boot, Contents
<1>9. e.Data_Buffer \in [0 .. Packets - 1 -> Contents]
  BY <1>2, <1>4, <1>6, <1>8 DEF DevTypes
<1>10. DevTypes(e)
  BY <1>2, <1>3, <1>4, <1>6, <1>7, <1>9 DEF DevTypes, Changes
<1> QED BY <1>1, <1>3, <1>4, <1>5, <1>6, <1>7, <1>10 DEF m

(* The end of a transfer, but for the offset of the last WRITE.            *)
AtRest(d) == /\ d.TransferState = "IDLE" /\ d.Offset = 0 /\ d.Length = 0 /\ d.W_Length = 0
             /\ d.Block_Read_count = 0 /\ d.Block_offset = 0 /\ d.Counter = 0

LEMMA RestLemmaOfHandler ==
  ASSUME AnyReset = FALSE, NEW content, DevTypes(Made(content)), AtRest(Made(content))
  PROVE  Rest(Handler(content))
<1> DEFINE m == Made(content)
           e == Handler(content)
<1>1. /\ Changes(m, e, {"in", "out", "Data_Buffer", "W_Offset", "cbw", "residue"})
      /\ e.W_Offset = IF m.TransferState = "IDLE" THEN 0 ELSE m.W_Offset
  BY HandlerLemma
<1>2. AtRest(m)
  OBVIOUS
<1> HIDE DEF m, e
<1>3. Rest(e)
  BY <1>1, <1>2 DEF AtRest, Rest, Changes, Fields
<1> QED BY <1>3 DEF e

(* The transfer of a CSW is noticed.                                       *)
LEMMA CswTaken ==
  ASSUME AnyReset = FALSE, NEW content, DevTypes(dev), Rest(dev), "in" \in events,
         dev.in.status = "NAK", dev.Bot_State \in {"CSW_Send", "ERROR"}
  PROVE  LET e == Handler(content)
         IN  /\ DevTypes(e) /\ Rest(e) /\ e.in.status = "NAK" /\ e.out.status = "VALID"
             /\ e.out.packet = dev.out.packet /\ e.Bot_State = "IDLE" /\ e.residue = 0
<1> DEFINE i == [dev EXCEPT !.Bot_State = "IDLE"]
           m == SetOut(i, "VALID")
           e == Handler(content)
<1>1. Ep = "in"
  BY DEF Ep
<1>2. Made(content) = m
  BY <1>1 DEF Made, Mass_Storage_In
<1>3. Changes(dev, i, {"Bot_State"}) /\ i.Bot_State = "IDLE"
  BY DEF DevTypes, Shape, Changes, Fields
<1> HIDE DEF i
<1>4. Changes(i, m, {"out"}) /\ m.out.status = "VALID" /\ m.out.packet = i.out.packet
  BY <1>3, SetOutLemma DEF Changes
<1> HIDE DEF m
<1>5. /\ Changes(dev, m, {"Bot_State", "out"}) /\ m.out.packet = dev.out.packet /\ m.Bot_State = "IDLE"
      /\ m.in = dev.in
  BY <1>3, <1>4 DEF Changes, Fields
<1>6. DevTypes(m) /\ AtRest(m)
  BY <1>4, <1>5 DEF Changes, Fields, DevTypes, Statuses, Rest, AtRest
<1>7. /\ DevTypes(e) /\ Changes(m, e, {"in", "out", "Data_Buffer", "W_Offset", "cbw", "residue"})
      /\ e.in.status = m.in.status /\ e.out.status = m.out.status /\ e.out.packet = m.out.packet
      /\ e.residue = 0 /\ Rest(e)
  BY <1>1, <1>2, <1>5, <1>6, HandlerLemma, RestLemmaOfHandler
<1>8. e.Bot_State = m.Bot_State
  BY <1>7 DEF Changes, Fields
<1> QED BY <1>4, <1>5, <1>7, <1>8

(* The device takes the command in.                                        *)
Received == [dev EXCEPT !.cbw = dev.out.packet,
                        !.residue = DataLength(dev.out.packet.op, dev.out.packet.n),
                        !.signature = TRUE]

LEMMA ReceivedLemma ==
  ASSUME host \in Hosts, DevTypes(dev), Asked
  PROVE  /\ Changes(dev, Received, {"cbw", "residue", "signature"}) /\ DevTypes(Received)
         /\ Received.cbw = TheCbw /\ Received.residue = N /\ Rest(Received)
         /\ Received.in.status = "NAK" /\ Received.out = dev.out
         /\ Received.Bot_State = dev.Bot_State
         /\ dev.out.packet.kind = "cbw" /\ dev.out.packet.op = host.op
         /\ OutOfRange(Received) <=> ~ (host.lba + host.n <= Blocks)
<1> DEFINE c == Received
<1>1. /\ dev.out.packet = TheCbw /\ Rest(dev) /\ dev.in.status = "NAK"
  BY DEF Asked
<1>2. /\ TheCbw.kind = "cbw" /\ TheCbw.op = host.op /\ TheCbw.n = host.n /\ TheCbw.lba = host.lba
  BY DEF TheCbw, Cbw
<1>3. N = DataLength(host.op, host.n)
  BY DEF N
<1>4. /\ Changes(dev, c, {"cbw", "residue", "signature"}) /\ c.cbw = TheCbw /\ c.residue = N
      /\ c.signature = TRUE
  BY <1>1, <1>2, <1>3 DEF Received, DevTypes, Shape, Changes, Fields
<1> HIDE DEF c
<1>5. /\ c.in = dev.in /\ c.out = dev.out /\ c.Bot_State = dev.Bot_State /\ c.Data_Buffer = dev.Data_Buffer
      /\ Rest(c)
  BY <1>1, <1>4 DEF Changes, Fields, Rest
<1>6. DevTypes(c)
  BY <1>4, <1>5 DEF DevTypes, Changes
<1>7. OutOfRange(c) <=> ~ (host.lba + host.n <= Blocks)
  <2>1. host.lba \in Int /\ host.n \in Int /\ Blocks \in Int
    BY Sizes DEF Hosts, BlockIds
  <2>2. OutOfRange(c) <=> host.lba + host.n > Blocks
    BY <1>2, <1>4 DEF OutOfRange
  <2> QED BY <2>1, <2>2
<1> QED BY <1>1, <1>2, <1>4, <1>5, <1>6, <1>7 DEF c

(* It refuses the command.                                                 *)
LEMMA RefusesLemma ==
  ASSUME AnyReset = FALSE, host \in Hosts, DevTypes(dev), Asked, NEW content,
         NEW dir \in {"IN", "BOTH"}, Made(content) = Fail(Received, dir, "FAILED"),
         dir = "IN" => host.op # "write",
         dev' = Handler(content), events' = {}, host' = host
  PROVE  DevTypes(dev)' /\ dev'.residue = N /\ Refused'
<1> DEFINE c == Received
           m == Made(content)
           e == Handler(content)
<1>1. /\ DevTypes(c) /\ c.cbw = TheCbw /\ c.residue = N /\ Rest(c) /\ Shape(c)
  BY ReceivedLemma DEF DevTypes
<1>2. m = Fail(c, dir, "FAILED")
  OBVIOUS
<1> HIDE DEF c, m
<1>3. /\ Changes(c, m, {"in", "out", "Bot_State"})
      /\ m.in.status = "STALL" /\ m.Bot_State = "ERROR"
      /\ m.in.packet = [kind |-> "csw", tag |-> c.cbw.tag, status |-> "FAILED", residue |-> c.residue]
      /\ m.out.status = IF dir = "IN" THEN c.out.status ELSE "STALL"
  BY <1>1, <1>2, FailLemma
<1>4. AtRest(m) /\ DevTypes(m) /\ m.residue = N
  BY <1>1, <1>3 DEF Changes, Fields, DevTypes, Statuses, Rest, AtRest
<1>5. /\ DevTypes(e) /\ e.in.status = "STALL" /\ e.in.packet = m.in.packet /\ e.out.status = m.out.status
      /\ e.residue = N /\ Rest(e) /\ Changes(m, e, {"in", "out", "Data_Buffer", "W_Offset", "cbw", "residue"})
  BY <1>3, <1>4, HandlerLemma, RestLemmaOfHandler DEF m
<1>6. e.Bot_State = "ERROR"
  BY <1>3, <1>5 DEF Changes, Fields
<1>7. e.in.packet = [kind |-> "csw", tag |-> host.tag, status |-> "FAILED", residue |-> N]
  BY <1>1, <1>3, <1>5 DEF TheCbw, Cbw
<1>8. dir = "BOTH" => e.out.status = "STALL"
  BY <1>3, <1>5
<1> HIDE DEF e
<1>9. dev' = e
  BY DEF e
<1>10. N' = N
  BY DEF N
<1>11. DevTypes(dev)' /\ Rest(dev)'
  BY <1>5, <1>9 DEF DevTypes, Rest, Shape
<1>12. /\ host.st = "out" => host.op = "write"
       /\ host.st \in {"in", "out", "status"} /\ host.got = 0 /\ host.sent = <<>> /\ host.n \in 1 .. MaxLen
  BY DEF Asked
<1>13. Refused'
  BY <1>5, <1>6, <1>7, <1>8, <1>9, <1>10, <1>11, <1>12 DEF Refused
<1> QED BY <1>5, <1>9, <1>11, <1>13

(* A packet of a READ is prepared.                                         *)
LEMMA ReadHandled ==
  ASSUME AnyReset = FALSE, host \in Hosts, Fits, host.op = "read", host.st = "in", host.sent = <<>>,
         NEW d, DevTypes(d), d.cbw = TheCbw, d.Bot_State = "DATA_IN", NEW content,
         host.got \in 0 .. N - 1, NEW q \in Int, NEW at \in 0 .. Packets - 1,
         host.got = q * Packets + at, d.residue = N - host.got,
         d.W_Offset = 0, d.W_Length = 0, d.Counter = 0,
         \/ d.TransferState = "IDLE" /\ host.got = 0
         \/ /\ d.TransferState = "ONGOING"
            /\ d.Offset = host.lba * Packets + host.got /\ d.Length = N - host.got,
         IF d.Block_Read_count = 0 THEN at = 0
         ELSE at = d.Block_offset /\ d.Block_Read_count = Packets - at,
         \A j \in at .. Packets - 1 :
           CellOK(<<host.lba + q, j>>, (IF d.Block_Read_count = 0 THEN content ELSE d.Data_Buffer)[j]),
         d.Block_Read_count = 0 => content \in [0 .. Packets - 1 -> Contents],
         Made(content) = Read_Memory(d, content),
         dev' = Handler(content), events' = {}, host' = host, disk' = disk, access' = "none"
  PROVE  DevTypes(dev)' /\ dev'.residue \in 0 .. N /\ (Reading' \/ LastPacket')
<1> DEFINE m == Made(content)
           e == Handler(content)
           t == host.got
<1>1. /\ Changes(d, m, {"in", "Data_Buffer", "Block_Read_count", "Block_offset", "Offset",
                        "Length", "residue", "TransferState", "Bot_State"})
      /\ m.in.status = "VALID" /\ m.in.packet.kind = "data"
      /\ m.Data_Buffer = IF d.Block_Read_count = 0 THEN content ELSE d.Data_Buffer
      /\ q \in 0 .. host.n - 1
      /\ IF t + 1 < N
         THEN m.Bot_State = "DATA_IN" /\ ReadStatics(m, t + 1) /\ Held(m, t + 1, q)
         ELSE /\ m.Bot_State = "DATA_IN_LAST" /\ Rest(m) /\ m.residue = 0
              /\ CellOK(<<host.lba + host.n - 1, Packets - 1>>, m.in.packet.v)
  <2>1. Shape(d)
    BY DEF DevTypes
  <2>2. Made(content) = Read_Memory(d, content)
    OBVIOUS
  <2> QED BY <2>1, <2>2, ReadStep
<1> HIDE DEF m
<1>2. DevTypes(m) /\ m.cbw = TheCbw
  BY <1>1 DEF DevTypes, Changes, Fields, Statuses
<1>3. m.Bot_State # "IDLE"
  BY <1>1
<1>4. /\ DevTypes(e) /\ Changes(m, e, {"in", "out", "Data_Buffer", "W_Offset", "cbw", "residue"})
      /\ e.in.status = "VALID" /\ e.in.packet = m.in.packet
      /\ e.W_Offset = IF m.TransferState = "IDLE" THEN 0 ELSE m.W_Offset
      /\ m.Block_Read_count # 0 \/ m.Counter # 0 => e.Data_Buffer = m.Data_Buffer
      /\ e.cbw = m.cbw /\ e.residue = m.residue
  BY <1>1, <1>2, <1>3, HandlerLemma DEF m
<1> HIDE DEF e
<1>5. /\ e.Bot_State = m.Bot_State /\ e.TransferState = m.TransferState /\ e.Offset = m.Offset
      /\ e.Length = m.Length /\ e.W_Length = m.W_Length /\ e.Block_Read_count = m.Block_Read_count
      /\ e.Block_offset = m.Block_offset /\ e.Counter = m.Counter
  BY <1>4 DEF Changes, Fields
<1>6. dev' = e
  BY DEF e
<1>7. N' = N /\ Fits' = Fits /\ TheCbw' = TheCbw
  BY DEF N, Fits, TheCbw
<1>8. DevTypes(dev)'
  BY <1>4, <1>6 DEF DevTypes, Shape
<1>9. t \in Nat /\ N \in Nat /\ t + 1 <= N
  BY FitsLemma, LengthLemma DEF Fits
<1>10. host.n \in 1 .. MaxLen
  BY DEF Fits
<1>11. CASE t + 1 < N
  <2>1. ReadStatics(e, t + 1)
    BY <1>1, <1>4, <1>5, <1>11 DEF ReadStatics
  <2>2. Held(e, t + 1, q)
    <3>1. m.Block_offset \in 1 .. Packets /\ m.Block_Read_count = Packets - m.Block_offset /\ Packets \in Nat
      BY <1>1, <1>11, Sizes DEF ReadStatics
    <3>2. CASE m.Block_Read_count = 0
      <4>1. e.Block_offset .. Packets - 1 = {}
        BY <1>5, <3>1, <3>2
      <4> QED BY <1>1, <1>4, <1>5, <1>11, <4>1 DEF Held
    <3>3. CASE m.Block_Read_count # 0
      BY <1>1, <1>4, <1>5, <1>11, <3>3 DEF Held
    <3> QED BY <3>2, <3>3
  <2>3. t + 1 \in 1 .. N - 1
    BY <1>9, <1>11
  <2>4. ReadStatics(dev, t + 1)' /\ Held(dev, t + 1, q)'
    BY <1>6, <1>7, <2>1, <2>2 DEF ReadStatics, Held, CellOK
  <2>5. Reading'
    BY <1>1, <1>2, <1>4, <1>5, <1>6, <1>7, <1>11, <2>3, <2>4 DEF Reading
  <2>6. e.residue \in 0 .. N
    BY <1>9, <1>11, <2>1 DEF ReadStatics
  <2> QED BY <1>6, <1>8, <2>5, <2>6
<1>12. CASE ~ (t + 1 < N)
  <2>1. t + 1 = N
    BY <1>9, <1>12
  <2>2. Rest(e)
    BY <1>1, <1>4, <1>5, <1>12 DEF Rest
  <2>3. Rest(dev)' /\ CellOK(<<host.lba + host.n - 1, Packets - 1>>, dev.in.packet.v)'
    BY <1>1, <1>4, <1>6, <1>12, <2>2 DEF Rest, CellOK
  <2>4. LastPacket'
    BY <1>1, <1>2, <1>4, <1>5, <1>6, <1>7, <1>10, <1>12, <2>1, <2>3 DEF LastPacket
  <2>5. e.residue \in 0 .. N
    BY <1>1, <1>4, <1>9, <1>12
  <2> QED BY <1>6, <1>8, <2>4, <2>5
<1> QED BY <1>11, <1>12

(* The command is decoded, and the answer to it begins.                    *)
LEMMA AskedHandled ==
  ASSUME AnyReset = FALSE, host \in Hosts, DevTypes(dev), Asked, events = {"out"}, NEW content,
         host.op = "read" /\ Fits => /\ content \in [0 .. Packets - 1 -> Contents]
                                     /\ \A j \in 0 .. Packets - 1 : CellOK(<<host.lba, j>>, content[j]),
         dev' = Handler(content), events' = {}, host' = host, disk' = disk, access' = "none"
  PROVE  DevTypes(dev)' /\ dev'.residue \in 0 .. N /\ Stages'
<1> DEFINE c == Received
           m == Made(content)
           e == Handler(content)
<1>1. /\ Changes(dev, c, {"cbw", "residue", "signature"}) /\ DevTypes(c)
      /\ c.cbw = TheCbw /\ c.residue = N /\ Rest(c) /\ c.in.status = "NAK" /\ c.out = dev.out
      /\ c.Bot_State = dev.Bot_State /\ Shape(c)
      /\ dev.out.packet.kind = "cbw" /\ dev.out.packet.op = host.op
      /\ OutOfRange(c) <=> ~ (host.lba + host.n <= Blocks)
  BY ReceivedLemma DEF DevTypes
<1>2. /\ dev.Bot_State = "IDLE" /\ host.n \in 1 .. MaxLen /\ host.got = 0 /\ host.sent = <<>>
      /\ host.st = CASE host.op = "write"  -> "out"
                     [] host.op \in {"read", "inquiry"} -> "in"
                     [] OTHER         -> "status"
  BY DEF Asked
<1>3. /\ N \in 0 .. MaxLen * Packets
      /\ host.op \in {"read", "write"} => N >= 1
      /\ host.op = "inquiry" => N = 1
      /\ host.op \in {"test", "invalid", "bad"} => N = 0
      /\ host.op \in {"read", "write", "inquiry", "test", "invalid", "bad"}
      /\ N \in Nat
  BY <1>2, LengthLemma, Sizes
<1>4. Ep = "out"
  BY DEF Ep
<1>5. m = CBW_Decode(dev, content)
  BY <1>2, <1>4 DEF Made, Mass_Storage_Out
<1>6. /\ host.op = "read" => m = SCSI_Read10_Cmd(c, content)
      /\ host.op = "write" => m = SCSI_Write10_Cmd(c)
      /\ host.op = "inquiry" => m = Transfer_Data_Request(c)
      /\ host.op = "test" => m = Set_CSW(c, "PASSED", TRUE)
      /\ host.op = "invalid" => m = Fail(c, "IN", "FAILED")
      /\ host.op = "bad" => m = Fail(c, "BOTH", "FAILED")
  BY <1>1, <1>5 DEF CBW_Decode, Received, SCSI_Invalid_Cmd
<1>7. host.op \in {"read", "write"} => (Fits <=> ~ OutOfRange(c))
  BY <1>1, <1>2 DEF Fits
<1>8. N' = N /\ Fits' = Fits /\ TheCbw' = TheCbw /\ dev' = e
  BY DEF N, Fits, TheCbw
<1>9. ASSUME NEW dir \in {"IN", "BOTH"}, m = Fail(c, dir, "FAILED"), dir = "IN" => host.op # "write"
      PROVE  DevTypes(dev)' /\ dev'.residue \in 0 .. N /\ Stages'
  <2>1. Made(content) = Fail(Received, dir, "FAILED")
    BY <1>9
  <2>2. DevTypes(dev)' /\ dev'.residue = N /\ Refused'
    BY <1>9, <2>1, RefusesLemma
  <2> QED BY <2>2, <1>3 DEF Stages
<1>10. ASSUME DevTypes(m), m.Bot_State # "IDLE"
       PROVE  /\ DevTypes(e) /\ Changes(m, e, {"in", "out", "Data_Buffer", "W_Offset", "cbw", "residue"})
              /\ e.in.status = m.in.status /\ (m.in.status # "NAK" => e.in.packet = m.in.packet)
              /\ e.out.status = m.out.status /\ (AtRest(m) => Rest(e))
              /\ e.cbw = m.cbw /\ e.residue = m.residue /\ e.Bot_State = m.Bot_State
  <2>1. /\ DevTypes(e) /\ Changes(m, e, {"in", "out", "Data_Buffer", "W_Offset", "cbw", "residue"})
        /\ e.in.status = m.in.status /\ (m.in.status # "NAK" => e.in.packet = m.in.packet)
        /\ e.out.status = m.out.status /\ (AtRest(m) => Rest(e))
        /\ e.cbw = m.cbw /\ e.residue = m.residue
    BY <1>10, HandlerLemma, RestLemmaOfHandler
  <2> HIDE DEF m, e
  <2>2. e.Bot_State = m.Bot_State
    BY <2>1 DEF Changes, Fields
  <2> QED BY <2>1, <2>2
<1>11. CASE host.op = "read"
  <2>1. CASE OutOfRange(c)
    BY <1>6, <1>9, <1>11, <2>1 DEF SCSI_Read10_Cmd
  <2>2. CASE ~ OutOfRange(c)
    <3> DEFINE d == [c EXCEPT !.Bot_State = "DATA_IN"]
    <3>1. Fits
      BY <1>7, <1>11, <2>2
    <3>2. Made(content) = Read_Memory(d, content)
      BY <1>6, <1>11, <2>2 DEF SCSI_Read10_Cmd
    <3> HIDE DEF m, e, c
    <3>3. Changes(c, d, {"Bot_State"}) /\ d.Bot_State = "DATA_IN"
      BY <1>1 DEF Shape, Changes, Fields
    <3> HIDE DEF d
    <3>4. DevTypes(d) /\ d.cbw = TheCbw /\ d.residue = N /\ Rest(d)
      BY <1>1, <3>3 DEF Changes, Fields, DevTypes, Rest
    <3>5. /\ d.W_Offset = 0 /\ d.W_Length = 0 /\ d.Counter = 0 /\ d.TransferState = "IDLE"
          /\ d.Block_Read_count = 0
      BY <3>4 DEF Rest
    <3>6. host.got \in 0 .. N - 1 /\ 0 \in 0 .. Packets - 1 /\ host.got = 0 * Packets + 0
          /\ N - host.got = N /\ 0 \in Int /\ host.lba + 0 = host.lba
      BY <1>2, <1>3, <1>11, Sizes DEF Hosts, BlockIds
    <3>7. \A j \in 0 .. Packets - 1 :
            CellOK(<<host.lba + 0, j>>, (IF d.Block_Read_count = 0 THEN content ELSE d.Data_Buffer)[j])
      BY <1>11, <3>1, <3>5, <3>6
    <3>8. host.st = "in" /\ host.sent = <<>>
      BY <1>2, <1>11
    <3>9. DevTypes(dev)' /\ dev'.residue \in 0 .. N /\ (Reading' \/ LastPacket')
      BY <1>2, <1>11, <3>1, <3>2, <3>3, <3>4, <3>5, <3>6, <3>7, <3>8, ReadHandled
    <3> QED BY <3>9 DEF Stages
  <2> QED BY <2>1, <2>2
<1>12. CASE host.op = "write"
  <2>1. CASE OutOfRange(c)
    BY <1>6, <1>9, <1>12, <2>1 DEF SCSI_Write10_Cmd
  <2>2. CASE ~ OutOfRange(c)
    <3> DEFINE d == [c EXCEPT !.Bot_State = "DATA_OUT"]
    <3>1. Fits
      BY <1>7, <1>12, <2>2
    <3>2. m = SetOut(d, "VALID")
      BY <1>6, <1>12, <2>2 DEF SCSI_Write10_Cmd
    <3> HIDE DEF m, e, c
    <3>3. Changes(c, d, {"Bot_State"}) /\ d.Bot_State = "DATA_OUT"
      BY <1>1 DEF Shape, Changes, Fields
    <3> HIDE DEF d
    <3>4. Changes(d, m, {"out"}) /\ m.out.status = "VALID"
      BY <3>2, <3>3, SetOutLemma DEF Changes
    <3>5. DevTypes(m) /\ m.cbw = TheCbw /\ m.residue = N /\ AtRest(m) /\ m.Bot_State = "DATA_OUT"
          /\ m.in.status = "NAK"
      BY <1>1, <3>3, <3>4 DEF Changes, Fields, DevTypes, Rest, AtRest, Statuses
    <3>6. /\ DevTypes(e) /\ e.in.status = "NAK" /\ e.out.status = "VALID" /\ Rest(e) /\ e.cbw = TheCbw
          /\ e.residue = N /\ e.Bot_State = "DATA_OUT"
      BY <1>10, <3>4, <3>5
    <3>7. DevTypes(dev)'
      BY <3>6, <1>8 DEF DevTypes, Shape
    <3>8. WriteStatics(dev, 0)' /\ N \in Int
      BY <1>3, <1>8, <3>6, Sizes DEF WriteStatics, Rest
    <3>9. Kept(dev, 0, 0)' /\ 0 \in 0 .. host.n - 1
      BY <1>2, <1>8, <3>6, Sizes DEF Kept, Rest
    <3>10. 0 \in 0 .. N - 1 /\ Len(host.sent) = 0
      BY <1>2, <1>3, <1>12
    <3>11. \A k \in 0 .. 0 - 1 : Stored(k)'
      OBVIOUS
    <3>12. Writing'
      BY <1>2, <1>8, <1>12, <3>1, <3>6, <3>8, <3>9, <3>10, <3>11 DEF Writing
    <3> QED BY <1>3, <1>8, <3>6, <3>7, <3>12 DEF Stages
  <2> QED BY <2>1, <2>2
<1>13. CASE host.op = "inquiry"
  <2> DEFINE i == SetIn(c, "VALID")
             w == [i EXCEPT !.in.packet = DataPacket("info"), !.Bot_State = "DATA_IN_LAST",
                            !.residue = (@ - 1) % LenMod]
  <2>1. m = w
    BY <1>6, <1>13 DEF Transfer_Data_Request
  <2> HIDE DEF m, e, c
  <2>2. Changes(c, i, {"in"}) /\ i.in.status = "VALID"
    BY <1>1, SetInLemma DEF Changes
  <2> HIDE DEF i
  <2>3. /\ Changes(i, w, {"in", "Bot_State", "residue"}) /\ w.in.status = "VALID"
        /\ w.in.packet = DataPacket("info") /\ w.Bot_State = "DATA_IN_LAST"
        /\ w.residue = (i.residue - 1) % LenMod
    BY <2>2 DEF Shape, Changes, Fields
  <2> HIDE DEF w
  <2>4. i.residue = 1
    BY <1>1, <1>3, <1>13, <2>2 DEF Changes, Fields
  <2>5. w.residue = 0
    <3>1. 0 % LenMod = 0
      BY Sizes, ModLemma
    <3> QED BY <2>3, <2>4, <3>1
  <2>6. DevTypes(m) /\ m.cbw = TheCbw /\ AtRest(m)
    BY <1>1, <2>1, <2>2, <2>3 DEF Changes, Fields, DevTypes, Rest, AtRest, Statuses
  <2>7. /\ DevTypes(e) /\ e.in.status = "VALID" /\ e.in.packet = DataPacket("info") /\ Rest(e) /\ e.cbw = TheCbw
        /\ e.residue = 0 /\ e.Bot_State = "DATA_IN_LAST"
    BY <1>10, <2>1, <2>3, <2>5, <2>6
  <2>8. DevTypes(dev)' /\ Rest(dev)'
    BY <2>7, <1>8 DEF DevTypes, Shape, Rest
  <2>9. e.in.packet.kind = "data"
    BY <2>7 DEF DataPacket
  <2>10. LastPacket'
    BY <1>2, <1>3, <1>8, <1>13, <2>7, <2>8, <2>9 DEF LastPacket
  <2> QED BY <1>3, <1>8, <2>7, <2>8, <2>10 DEF Stages
<1>14. CASE host.op = "test"
  <2>1. m = Set_CSW(c, "PASSED", TRUE)
    BY <1>6, <1>14
  <2> HIDE DEF m, e, c
  <2>2. /\ Changes(c, m, {"in", "Bot_State"}) /\ m.in.status = "VALID" /\ m.Bot_State = "CSW_Send"
        /\ m.in.packet = [kind |-> "csw", tag |-> c.cbw.tag, status |-> "PASSED", residue |-> c.residue]
    BY <1>1, <2>1 DEF Set_CSW, SetIn, Shape, Changes, Fields
  <2>3. DevTypes(m) /\ m.residue = N /\ AtRest(m) /\ N = 0
    BY <1>1, <1>3, <1>14, <2>2 DEF Changes, Fields, DevTypes, Rest, AtRest, Statuses
  <2>4. /\ DevTypes(e) /\ e.in.status = "VALID" /\ e.in.packet = m.in.packet /\ Rest(e)
        /\ e.residue = 0 /\ e.Bot_State = "CSW_Send"
    BY <1>10, <2>2, <2>3
  <2>5. e.in.packet = [kind |-> "csw", tag |-> host.tag, status |-> "PASSED", residue |-> 0]
    BY <1>1, <2>2, <2>3, <2>4 DEF TheCbw, Cbw
  <2>6. DevTypes(dev)' /\ Rest(dev)'
    BY <2>4, <1>8 DEF DevTypes, Shape, Rest
  <2>7. Answered'
    BY <1>2, <1>8, <1>14, <2>3, <2>4, <2>5, <2>6 DEF Answered
  <2> QED BY <1>3, <1>8, <2>4, <2>6, <2>7 DEF Stages
<1>15. CASE host.op = "invalid"
  BY <1>6, <1>9, <1>15
<1>16. CASE host.op = "bad"
  BY <1>6, <1>9, <1>16
<1> QED BY <1>3, <1>11, <1>12, <1>13, <1>14, <1>15, <1>16

(* The next packet of a READ, of the block in the buffer or of the next.   *)
LEMMA ReadingHandled ==
  ASSUME AnyReset = FALSE, host \in Hosts, DevTypes(dev), Reading, events = {"in"}, NEW content,
         dev.Block_Read_count = 0 =>
           \A b \in BlockIds : dev.Offset = b * Packets =>
             /\ content \in [0 .. Packets - 1 -> Contents]
             /\ \A j \in 0 .. Packets - 1 : CellOK(<<b, j>>, content[j]),
         dev' = Handler(content), events' = {}, host' = host, disk' = disk, access' = "none"
  PROVE  DevTypes(dev)' /\ dev'.residue \in 0 .. N /\ Stages'
<1> DEFINE t == host.got
<1>1. /\ host.st = "in" /\ host.op = "read" /\ Fits /\ host.sent = <<>>
      /\ dev.Bot_State = "DATA_IN" /\ dev.cbw = TheCbw /\ dev.in.status = "NAK"
      /\ t \in 1 .. N - 1 /\ ReadStatics(dev, t)
      /\ \E q \in 0 .. host.n - 1 : Held(dev, t, q)
  BY DEF Reading
<1>2. PICK p \in 0 .. host.n - 1 : Held(dev, t, p)
  BY <1>1
<1>3. Made(content) = Read_Memory(dev, content)
  <2>1. Ep = "in"
    BY DEF Ep
  <2> QED BY <1>1, <2>1 DEF Made, Mass_Storage_In
<1>4. /\ dev.TransferState = "ONGOING" /\ dev.Length = N - t /\ dev.residue = N - t
      /\ dev.Offset = host.lba * Packets + t
      /\ dev.Block_offset \in 1 .. Packets
      /\ dev.Block_Read_count = Packets - dev.Block_offset
      /\ dev.W_Offset = 0 /\ dev.W_Length = 0 /\ dev.Counter = 0
  BY <1>1 DEF ReadStatics
<1>5. /\ t \in Nat /\ t < N /\ N \in Nat /\ Packets \in Nat \ {0} /\ host.n \in Nat
      /\ t \in 0 .. N - 1 /\ host.lba \in Nat
  <2>1. host.n \in 1 .. MaxLen /\ N \in 0 .. MaxLen * Packets
    BY <1>1, LengthLemma DEF Fits
  <2> QED BY <1>1, <2>1, Sizes DEF Hosts, BlockIds
<1>6. t = p * Packets + dev.Block_offset
  BY <1>2 DEF Held
<1>7. CASE dev.Block_Read_count = 0
  <2>1. dev.Block_offset = Packets
    BY <1>4, <1>5, <1>7
  <2> DEFINE q == p + 1
  <2>2. q \in Int /\ t = q * Packets + 0 /\ 0 \in 0 .. Packets - 1
    BY <1>2, <1>5, <1>6, <2>1
  <2> HIDE DEF q
  <2>3. q \in 0 .. host.n - 1 /\ host.lba + q \in BlockIds
    BY <1>1, <1>5, <2>2, PacketLemma
  <2>4. dev.Offset = (host.lba + q) * Packets
    <3>1. (host.lba + q) * Packets = host.lba * Packets + q * Packets
      BY <1>5, <2>2
    <3>2. q * Packets \in Int
      BY <1>5, <2>2
    <3> QED BY <1>4, <2>2, <3>1, <3>2
  <2>5. \A j \in 0 .. Packets - 1 : CellOK(<<host.lba + q, j>>, content[j])
    BY <1>7, <2>3, <2>4
  <2>6. content \in [0 .. Packets - 1 -> Contents]
    BY <1>7, <2>3, <2>4
  <2>7. \A j \in 0 .. Packets - 1 :
          CellOK(<<host.lba + q, j>>, (IF dev.Block_Read_count = 0 THEN content ELSE dev.Data_Buffer)[j])
    BY <1>7, <2>5
  <2>8. DevTypes(dev)' /\ dev'.residue \in 0 .. N /\ (Reading' \/ LastPacket')
    BY <1>1, <1>3, <1>4, <1>5, <1>7, <2>2, <2>6, <2>7, ReadHandled
  <2> QED BY <2>8 DEF Stages
<1>8. CASE dev.Block_Read_count # 0
  <2>1. dev.Block_offset \in 0 .. Packets - 1
    BY <1>4, <1>5, <1>8
  <2>2. \A j \in dev.Block_offset .. Packets - 1 :
          CellOK(<<host.lba + p, j>>, (IF dev.Block_Read_count = 0 THEN content ELSE dev.Data_Buffer)[j])
    BY <1>2, <1>8 DEF Held
  <2>3. p \in Int
    BY <1>2
  <2>4. DevTypes(dev)' /\ dev'.residue \in 0 .. N /\ (Reading' \/ LastPacket')
    BY <1>1, <1>3, <1>4, <1>5, <1>6, <1>8, <2>1, <2>2, <2>3, ReadHandled
  <2> QED BY <2>4 DEF Stages
<1> QED BY <1>7, <1>8

(* All data is taken, and the CSW follows.                                 *)
LEMMA LastHandled ==
  ASSUME AnyReset = FALSE, host \in Hosts, DevTypes(dev), LastPacket, events = {"in"}, NEW content,
         dev' = Handler(content), events' = {}, host' = host
  PROVE  DevTypes(dev)' /\ dev'.residue = 0 /\ Answered'
<1> DEFINE w == Set_CSW(dev, "PASSED", TRUE)
           m == SetOut(w, "VALID")
           e == Handler(content)
<1>1. /\ host.op \in {"read", "inquiry"} /\ dev.Bot_State = "DATA_IN_LAST" /\ Rest(dev)
      /\ dev.cbw = TheCbw /\ dev.residue = 0 /\ host.st = "status" /\ host.got = N
  BY DEF LastPacket
<1>2. Made(content) = m
  <2>1. Ep = "in"
    BY DEF Ep
  <2> QED BY <1>1, <2>1 DEF Made, Mass_Storage_In
<1>3. /\ Changes(dev, w, {"in", "Bot_State"}) /\ w.in.status = "VALID" /\ w.Bot_State = "CSW_Send"
      /\ w.in.packet = [kind |-> "csw", tag |-> dev.cbw.tag, status |-> "PASSED", residue |-> dev.residue]
  BY DEF DevTypes, Set_CSW, SetIn, Shape, Changes, Fields
<1> HIDE DEF w
<1>4. Changes(w, m, {"out"}) /\ m.out.status = "VALID"
  BY <1>3, SetOutLemma DEF Changes
<1> HIDE DEF m
<1>5. /\ DevTypes(m) /\ m.residue = 0 /\ AtRest(m) /\ m.Bot_State = "CSW_Send" /\ m.in = w.in
  BY <1>1, <1>3, <1>4 DEF Changes, Fields, DevTypes, Rest, AtRest, Statuses
<1>6. /\ DevTypes(e) /\ Changes(m, e, {"in", "out", "Data_Buffer", "W_Offset", "cbw", "residue"})
      /\ e.in.status = "VALID" /\ e.in.packet = w.in.packet /\ Rest(e) /\ e.residue = 0
  BY <1>2, <1>3, <1>5, HandlerLemma, RestLemmaOfHandler
<1> HIDE DEF e
<1>7. e.Bot_State = "CSW_Send"
  BY <1>5, <1>6 DEF Changes, Fields
<1>8. e.in.packet = [kind |-> "csw", tag |-> host.tag, status |-> "PASSED", residue |-> 0]
  BY <1>1, <1>3, <1>6 DEF TheCbw, Cbw
<1>9. dev' = e /\ N' = N
  BY DEF e, N
<1>10. DevTypes(dev)' /\ Rest(dev)'
  BY <1>6, <1>9 DEF DevTypes, Shape, Rest
<1>11. Answered'
  BY <1>1, <1>6, <1>7, <1>8, <1>9, <1>10 DEF Answered
<1> QED BY <1>6, <1>9, <1>10, <1>11

(* Block q of the command is written, and the others stay.                 *)
LEMMA BlockStored ==
  ASSUME host \in Hosts, Fits, NEW q \in 0 .. host.n - 1,
         \A c \in Cells :
           \/ flash'[c] = Garbage
           \/ flash'[c] = IF c[1] = host.lba + q THEN Taken(dev).Data_Buffer[c[2]] ELSE flash[c],
         \A k \in 0 .. q - 1 : Stored(k),
         \A j \in 0 .. Packets - 1 : Taken(dev).Data_Buffer[j] = host.sent[q * Packets + j + 1]
  PROVE  \A k \in 0 .. q : \A j \in 0 .. Packets - 1 :
           flash'[<<host.lba + k, j>>] \in {host.sent[k * Packets + j + 1], Garbage}
<1> SUFFICES ASSUME NEW k \in 0 .. q, NEW j \in 0 .. Packets - 1
             PROVE  flash'[<<host.lba + k, j>>] \in {host.sent[k * Packets + j + 1], Garbage}
  OBVIOUS
<1>1. host.lba \in Int /\ host.lba + k \in BlockIds /\ host.lba + q \in BlockIds
  <2>1. host.n \in Int /\ host.lba \in Nat /\ Blocks \in Int /\ host.lba + host.n <= Blocks
    BY Sizes DEF Fits, Hosts, BlockIds
  <2> QED BY <2>1 DEF BlockIds
<1> DEFINE c == <<host.lba + k, j>>
<1>2. c \in Cells /\ c[1] = host.lba + k /\ c[2] = j
  BY <1>1 DEF Cells
<1>3. \/ flash'[c] = Garbage
      \/ flash'[c] = IF c[1] = host.lba + q THEN Taken(dev).Data_Buffer[c[2]] ELSE flash[c]
  BY <1>2
<1> HIDE DEF c
<1>4. CASE flash'[c] = Garbage
  BY <1>4 DEF c
<1>5. CASE k = q /\ flash'[c] # Garbage
  <2>1. flash'[c] = Taken(dev).Data_Buffer[j]
    BY <1>2, <1>3, <1>5
  <2> QED BY <2>1, <1>5 DEF c
<1>6. CASE k # q /\ flash'[c] # Garbage
  <2>1. host.lba + k # host.lba + q /\ k \in 0 .. q - 1
    BY <1>1, <1>6
  <2>2. flash'[c] = flash[c]
    BY <1>2, <1>3, <1>6, <2>1
  <2>3. flash[<<host.lba + k, j>>] \in {host.sent[k * Packets + j + 1], Garbage}
    BY <2>1 DEF Stored
  <2> QED BY <2>2, <2>3 DEF c
<1> QED BY <1>4, <1>5, <1>6

(* A packet of a WRITE is taken, and a block that is full is written.      *)
LEMMA WritingHandled ==
  ASSUME AnyReset = FALSE, host \in Hosts, DevTypes(dev), Writing, events = {"out"}, NEW content, NEW G,
         flash' = IF BlockIsFull(dev)
                  THEN LET s == Taken(dev)
                           b == BlockAt(s.W_Offset - Packets)
                       IN  [c \in Cells |-> IF c \in G THEN Garbage
                                            ELSE IF c[1] = b THEN s.Data_Buffer[c[2]] ELSE flash[c]]
                  ELSE flash,
         dev' = Handler(content), events' = {}, host' = host
  PROVE  DevTypes(dev)' /\ dev'.residue \in 0 .. N /\ Stages'
<1> DEFINE s == Taken(dev)
           p == PacketStored(dev)
           m == Made(content)
           e == Handler(content)
<1>0. PICK t \in Int : t = host.got - 1
  BY DEF Hosts
<1>1. /\ host.op = "write" /\ Fits /\ Len(host.sent) = host.got /\ host.sent \in Seq(Data) /\ host.got \in Nat
      /\ dev.Bot_State = "DATA_OUT" /\ dev.cbw = TheCbw /\ dev.in.status = "NAK"
      /\ dev.out.status = "NAK" /\ host.got >= 1 /\ dev.out.packet = DataPacket(host.sent[host.got])
      /\ host.st = (IF host.got = N THEN "status" ELSE "out")
      /\ t \in 0 .. N - 1 /\ WriteStatics(dev, t)
      /\ \E q \in 0 .. host.n - 1 : Kept(dev, t, q) /\ \A k \in 0 .. q - 1 : Stored(k)
  BY <1>0 DEF Writing, Hosts
<1>2. PICK q \in 0 .. host.n - 1 : Kept(dev, t, q) /\ \A k \in 0 .. q - 1 : Stored(k)
  BY <1>1
<1>3. /\ N \in Nat /\ t \in Nat /\ t < N /\ t + 1 = host.got /\ Packets \in Nat \ {0} /\ host.n \in Nat
      /\ (N - t - 1) % LenMod = N - t - 1 /\ q \in Int
  <2>1. host.n \in 1 .. MaxLen /\ N \in 0 .. MaxLen * Packets
    BY <1>1, LengthLemma DEF Fits
  <2>2. N \in Nat /\ host.n \in Nat /\ Packets \in Nat \ {0}
    BY <2>1, Sizes
  <2>3. t \in Nat /\ t < N /\ t + 1 = host.got
    BY <1>0, <1>1, <2>2
  <2>4. (N - t - 1) % LenMod = N - t - 1
    BY <1>1, <2>3, FitsLemma
  <2> QED BY <1>2, <2>2, <2>3, <2>4
<1>4. dev.out.packet.v = host.sent[t + 1] /\ host.sent[t + 1] \in Contents
  <2>1. host.sent[host.got] \in Data
    <3>1. host.got \in 1 .. Len(host.sent)
      BY <1>1
    <3> QED BY <1>1, <3>1
  <2>2. dev.out.packet.v = host.sent[host.got] /\ Data \subseteq Contents
    BY <1>1 DEF DataPacket, Contents
  <2>3. t + 1 = host.got
    BY <1>3
  <2> QED BY <2>1, <2>2, <2>3
<1>5. /\ host.lba + q \in BlockIds
      /\ Changes(dev, s, {"Data_Buffer", "Counter", "W_Offset", "W_Length", "TransferState"})
      /\ s.TransferState = "ONGOING" /\ s.Counter = dev.Counter + 1
      /\ s.W_Length = N - t - 1
      /\ t + 1 < N => s.W_Offset = host.lba * Packets + (t + 1)
      /\ t + 1 = N => dev.Counter = Packets - 1 /\ q = host.n - 1
      /\ BlockIsFull(dev) <=> dev.Counter = Packets - 1
      /\ dev.Counter = Packets - 1 => BlockAt(s.W_Offset - Packets) = host.lba + q
      /\ q < host.n - 1 => t + 1 < N
      /\ s.Data_Buffer = [dev.Data_Buffer EXCEPT ![dev.Counter] = host.sent[t + 1]]
      /\ \A j \in 0 .. dev.Counter : s.Data_Buffer[j] = host.sent[q * Packets + j + 1]
  <2>1. Shape(dev) /\ dev.Data_Buffer \in [0 .. Packets - 1 -> Contents]
    BY DEF DevTypes
  <2>2. Kept(dev, t, q) /\ t \in 0 .. N - 1 /\ WriteStatics(dev, t)
    BY <1>1, <1>2
  <2>3. host.op = "write" /\ Fits /\ dev.cbw = TheCbw /\ q \in Int /\ dev.out.packet.v = host.sent[t + 1]
    BY <1>1, <1>3, <1>4
  <2> QED BY <2>1, <2>2, <2>3, TakeStep
<1>6. /\ dev.residue = N - t
      /\ dev.Offset = 0 /\ dev.Length = 0 /\ dev.Block_Read_count = 0 /\ dev.Block_offset = 0
      /\ dev.Counter \in 0 .. Packets - 1 /\ dev.TransferState \in {"IDLE", "ONGOING"} /\ Shape(dev)
      /\ t = q * Packets + dev.Counter
  BY <1>1, <1>2 DEF WriteStatics, Kept, DevTypes
<1>7. /\ Changes(s, p, {"out", "residue", "Counter"})
      /\ p.out.status = "VALID"
      /\ p.residue = (s.residue - 1) % LenMod
      /\ p.Counter = IF BlockIsFull(dev) THEN 0 ELSE s.Counter
  BY <1>6, StoredLemma
<1>8. /\ p.W_Length # 0 => m = p
      /\ p.W_Length = 0 =>
           /\ Changes(p, m, {"in", "Bot_State", "Counter", "TransferState"})
           /\ m.in.status = "VALID" /\ m.Bot_State = "CSW_Send"
           /\ m.in.packet = [kind |-> "csw", tag |-> p.cbw.tag, status |-> "PASSED", residue |-> p.residue]
           /\ m.Counter = 0 /\ m.TransferState = "IDLE"
  <2>1. Ep = "out"
    BY DEF Ep
  <2>2. m = Write_Memory(dev)
    BY <1>1, <2>1 DEF Made, Mass_Storage_Out
  <2> HIDE DEF m
  <2> QED BY <1>6, <2>2, WriteLemma
<1>9. flash' = IF BlockIsFull(dev)
               THEN [c \in Cells |-> IF c \in G THEN Garbage
                                     ELSE IF c[1] = BlockAt(s.W_Offset - Packets) THEN s.Data_Buffer[c[2]]
                                     ELSE flash[c]]
               ELSE flash
  OBVIOUS
<1>10. dev' = e /\ N' = N /\ Fits' = Fits /\ TheCbw' = TheCbw
  BY DEF N, Fits, TheCbw
<1> HIDE DEF s, p
<1>11. /\ p.W_Length = N - t - 1 /\ p.W_Offset = s.W_Offset /\ p.TransferState = "ONGOING"
       /\ p.residue = N - t - 1 /\ p.cbw = TheCbw /\ p.in = dev.in /\ p.Bot_State = "DATA_OUT"
       /\ p.Offset = 0 /\ p.Length = 0 /\ p.Block_Read_count = 0 /\ p.Block_offset = 0
       /\ p.Data_Buffer = s.Data_Buffer /\ p.signature = dev.signature
  <2>1. /\ s.residue = N - t /\ s.cbw = TheCbw /\ s.in = dev.in /\ s.Bot_State = "DATA_OUT"
        /\ s.Offset = 0 /\ s.Length = 0 /\ s.Block_Read_count = 0 /\ s.Block_offset = 0
        /\ s.signature = dev.signature
    <3>1. /\ s.residue = dev.residue /\ s.cbw = dev.cbw /\ s.in = dev.in /\ s.Bot_State = dev.Bot_State
          /\ s.Offset = dev.Offset /\ s.Length = dev.Length /\ s.Block_Read_count = dev.Block_Read_count
          /\ s.Block_offset = dev.Block_offset /\ s.signature = dev.signature
      BY <1>5 DEF Changes, Fields
    <3> QED BY <1>1, <1>6, <3>1
  <2>2. /\ p.W_Length = s.W_Length /\ p.W_Offset = s.W_Offset /\ p.TransferState = s.TransferState
        /\ p.cbw = s.cbw /\ p.in = s.in /\ p.Bot_State = s.Bot_State
        /\ p.Offset = s.Offset /\ p.Length = s.Length /\ p.Block_Read_count = s.Block_Read_count
        /\ p.Block_offset = s.Block_offset /\ p.Data_Buffer = s.Data_Buffer /\ p.signature = s.signature
    BY <1>7 DEF Changes, Fields
  <2>3. p.residue = N - t - 1
    BY <1>3, <1>7, <2>1
  <2> QED BY <1>5, <2>1, <2>2, <2>3
<1>12. dev.Counter < Packets - 1 => p.Counter = dev.Counter + 1
  BY <1>3, <1>5, <1>6, <1>7
<1>13. dev.Counter = Packets - 1 => p.Counter = 0
  BY <1>5, <1>7
<1>14. DevTypes(p)
  <2>1. p.Data_Buffer \in [0 .. Packets - 1 -> Contents]
    <3> DEFINE B == dev.Data_Buffer
               x == host.sent[t + 1]
               i == dev.Counter
    <3>1. B \in [0 .. Packets - 1 -> Contents]
      BY DEF DevTypes
    <3>2. p.Data_Buffer = [B EXCEPT ![i] = x] /\ x \in Contents
      BY <1>4, <1>5, <1>11
    <3> HIDE DEF B, x, i
    <3> QED BY <3>1, <3>2
  <2> QED BY <1>7, <1>11, <2>1 DEF DevTypes, Changes, Statuses
<1>15. ASSUME dev.Counter = Packets - 1
       PROVE  \A k \in 0 .. q : Stored(k)'
  <2>1. \A j \in 0 .. Packets - 1 : s.Data_Buffer[j] = host.sent[q * Packets + j + 1]
    BY <1>5, <1>15
  <2>2. \A c \in Cells :
          \/ flash'[c] = Garbage
          \/ flash'[c] = IF c[1] = host.lba + q THEN s.Data_Buffer[c[2]] ELSE flash[c]
    BY <1>5, <1>9, <1>15
  <2>3. Fits /\ q \in 0 .. host.n - 1 /\ \A k \in 0 .. q - 1 : Stored(k)
    BY <1>1, <1>2
  <2>4. \A k \in 0 .. q : \A j \in 0 .. Packets - 1 :
          flash'[<<host.lba + k, j>>] \in {host.sent[k * Packets + j + 1], Garbage}
    BY <2>1, <2>2, <2>3, BlockStored DEF s
  <2> QED BY <2>4 DEF Stored
<1>16. ASSUME dev.Counter # Packets - 1
       PROVE  \A k \in 0 .. q - 1 : Stored(k)'
  BY <1>2, <1>5, <1>9, <1>16 DEF Stored
<1>17. CASE t + 1 < N
  <2>1. m = p
    BY <1>3, <1>8, <1>11, <1>17
  <2> HIDE DEF m
  <2>2. /\ DevTypes(e) /\ Changes(p, e, {"in", "out", "Data_Buffer", "W_Offset", "cbw", "residue"})
        /\ e.in.status = "NAK" /\ e.out.status = "VALID" /\ e.W_Offset = p.W_Offset
        /\ (p.Counter # 0 => e.Data_Buffer = p.Data_Buffer)
        /\ e.cbw = p.cbw /\ e.residue = p.residue
    BY <1>1, <1>7, <1>11, <1>14, <2>1, HandlerLemma DEF m
  <2> HIDE DEF e
  <2>3. /\ e.Bot_State = "DATA_OUT" /\ e.TransferState = "ONGOING" /\ e.W_Length = N - t - 1
        /\ e.Offset = 0 /\ e.Length = 0 /\ e.Block_Read_count = 0 /\ e.Block_offset = 0
        /\ e.Counter = p.Counter
    BY <1>11, <2>2 DEF Changes, Fields
  <2>4. p.Counter \in 0 .. Packets - 1
    <3>1. CASE dev.Counter = Packets - 1
      BY <1>3, <1>13, <3>1
    <3>2. CASE dev.Counter # Packets - 1
      <4>1. dev.Counter \in 0 .. Packets - 1 /\ Packets \in Nat
        BY <1>3, <1>6
      <4>2. dev.Counter < Packets - 1 /\ dev.Counter + 1 \in 0 .. Packets - 1
        BY <3>2, <4>1
      <4> QED BY <1>12, <4>2
    <3> QED BY <3>1, <3>2
  <2>5. N - t - 1 = N - (t + 1) /\ t + 1 # 0 /\ t + 1 \in 0 .. N - 1
    BY <1>3, <1>17
  <2>6. WriteStatics(dev, t + 1)'
    <3>1. e.residue = N - (t + 1) /\ e.W_Length = N - (t + 1)
          /\ e.W_Offset = host.lba * Packets + (t + 1) /\ e.Counter \in 0 .. Packets - 1
      BY <1>5, <1>11, <1>17, <2>2, <2>3, <2>4, <2>5
    <3> QED BY <1>10, <2>3, <2>5, <3>1 DEF WriteStatics
  <2>7. \E r \in 0 .. host.n - 1 : Kept(dev, t + 1, r)' /\ \A k \in 0 .. r - 1 : Stored(k)'
    <3>1. CASE dev.Counter = Packets - 1
      <4> DEFINE r == q + 1
      <4>1. t + 1 = r * Packets + 0
        <5>1. r * Packets = q * Packets + Packets /\ q * Packets \in Int
          BY <1>3
        <5> QED BY <5>1, <1>3, <1>6, <3>1
      <4>2. r \in Int /\ 0 \in 0 .. Packets - 1 /\ t + 1 \in Nat
        BY <1>3
      <4> HIDE DEF r
      <4>3. r \in 0 .. host.n - 1
        BY <1>1, <1>17, <4>1, <4>2, PacketLemma
      <4>4. e.Counter = 0
        BY <1>13, <2>3, <3>1
      <4>5. Kept(dev, t + 1, r)'
        BY <1>10, <4>1, <4>4 DEF Kept
      <4>6. \A k \in 0 .. r - 1 : Stored(k)'
        BY <1>3, <1>15, <3>1 DEF r
      <4> QED BY <4>3, <4>5, <4>6
    <3>2. CASE dev.Counter # Packets - 1
      <4>1. e.Counter = dev.Counter + 1 /\ e.Counter # 0 /\ dev.Counter \in Int
        <5>1. dev.Counter \in 0 .. Packets - 1 /\ Packets \in Nat
          BY <1>3, <1>6
        <5>2. dev.Counter < Packets - 1 /\ dev.Counter + 1 # 0 /\ dev.Counter \in Int
          BY <3>2, <5>1
        <5> QED BY <1>12, <2>3, <5>2
      <4>2. t + 1 = q * Packets + e.Counter
        <5>1. q * Packets \in Int
          BY <1>3
        <5> QED BY <1>6, <4>1, <5>1
      <4>3. \A j \in 0 .. e.Counter - 1 : e.Data_Buffer[j] = host.sent[q * Packets + j + 1]
        <5>1. e.Counter - 1 = dev.Counter /\ e.Data_Buffer = s.Data_Buffer
          BY <1>11, <2>2, <2>3, <4>1
        <5> QED BY <1>5, <5>1
      <4>4. Kept(dev, t + 1, q)'
        BY <1>10, <4>2, <4>3 DEF Kept
      <4> QED BY <1>2, <1>16, <3>2, <4>4
    <3> QED BY <3>1, <3>2
  <2>8. host.st = "out" /\ host.got = t + 1
    BY <1>1, <1>3, <1>17
  <2>9. Writing'
    BY <1>1, <1>10, <1>11, <2>2, <2>3, <2>5, <2>6, <2>7, <2>8 DEF Writing
  <2>10. DevTypes(dev)' /\ e.residue \in 0 .. N
    BY <1>3, <1>10, <1>11, <2>2, <2>5 DEF DevTypes, Shape
  <2> QED BY <1>10, <2>9, <2>10 DEF Stages
<1>18. CASE ~ (t + 1 < N)
  <2>1. t + 1 = N /\ p.W_Length = 0 /\ p.residue = 0
    BY <1>3, <1>11, <1>18
  <2>2. /\ Changes(p, m, {"in", "Bot_State", "Counter", "TransferState"})
        /\ m.in.status = "VALID" /\ m.Bot_State = "CSW_Send"
        /\ m.in.packet = [kind |-> "csw", tag |-> host.tag, status |-> "PASSED", residue |-> 0]
        /\ m.Counter = 0 /\ m.TransferState = "IDLE"
    <3>1. TheCbw.tag = host.tag
      BY DEF TheCbw, Cbw
    <3> QED BY <1>8, <1>11, <2>1, <3>1
  <2> HIDE DEF m
  <2>3. AtRest(m) /\ DevTypes(m) /\ m.residue = 0
    BY <1>11, <1>14, <2>1, <2>2 DEF Changes, Fields, AtRest, DevTypes, Statuses
  <2>4. /\ DevTypes(e) /\ Changes(m, e, {"in", "out", "Data_Buffer", "W_Offset", "cbw", "residue"})
        /\ e.in.status = "VALID" /\ e.in.packet = m.in.packet
        /\ e.residue = 0 /\ Rest(e)
    BY <2>2, <2>3, HandlerLemma, RestLemmaOfHandler DEF m
  <2> HIDE DEF e
  <2>5. e.Bot_State = "CSW_Send"
    BY <2>2, <2>4 DEF Changes, Fields
  <2>6. DevTypes(dev)' /\ Rest(dev)'
    BY <1>10, <2>4 DEF DevTypes, Shape, Rest
  <2>7. host.got = N /\ host.st = "status"
    BY <1>1, <1>3, <2>1
  <2>8. \A k \in 0 .. host.n - 1 : Stored(k)'
    BY <1>5, <1>15, <2>1
  <2>9. Answered'
    BY <1>1, <1>10, <2>2, <2>4, <2>5, <2>6, <2>7, <2>8 DEF Answered
  <2> QED BY <1>3, <1>10, <2>4, <2>6, <2>9 DEF Stages
<1> QED BY <1>17, <1>18

(* The block that is written is one of the command, and holds its data.    *)
LEMMA FullBlock ==
  ASSUME host \in Hosts, DevTypes(dev), Writing, events = {"out"}, BlockIsFull(dev)
  PROVE  /\ host.op = "write" /\ host.got > 0
         /\ \E q \in 0 .. host.n - 1 : BlockAt(Taken(dev).W_Offset - Packets) = host.lba + q
         /\ \A j \in 0 .. Packets - 1 : Taken(dev).Data_Buffer[j] \in Data
<1> DEFINE s == Taken(dev)
<1>1. PICK t \in Int : t = host.got - 1
  BY DEF Hosts
<1>2. /\ host.op = "write" /\ Fits /\ Len(host.sent) = host.got /\ host.sent \in Seq(Data)
      /\ dev.cbw = TheCbw /\ host.got \in Nat /\ host.got >= 1
      /\ dev.out.packet = DataPacket(host.sent[host.got])
      /\ t \in 0 .. N - 1 /\ WriteStatics(dev, t)
      /\ \E q \in 0 .. host.n - 1 : Kept(dev, t, q)
  BY <1>1 DEF Writing, Hosts
<1>3. PICK q \in 0 .. host.n - 1 : Kept(dev, t, q)
  BY <1>2
<1>4. q \in Nat /\ Packets \in Nat \ {0} /\ t + 1 = host.got
  <2>1. host.n \in Int
    BY <1>2, Sizes DEF Fits
  <2> QED BY <1>1, <1>2, <1>3, <2>1, Sizes
<1>5. dev.out.packet.v = host.sent[t + 1]
  <2>1. dev.out.packet.v = host.sent[host.got]
    BY <1>2 DEF DataPacket
  <2> QED BY <1>4, <2>1
<1>6. /\ BlockIsFull(dev) <=> dev.Counter = Packets - 1
      /\ dev.Counter = Packets - 1 => BlockAt(s.W_Offset - Packets) = host.lba + q
      /\ \A j \in 0 .. dev.Counter : s.Data_Buffer[j] = host.sent[q * Packets + j + 1]
  <2>1. Shape(dev) /\ dev.Data_Buffer \in [0 .. Packets - 1 -> Contents] /\ q \in Int
    BY <1>4 DEF DevTypes
  <2>2. /\ host.op = "write" /\ Fits /\ dev.cbw = TheCbw /\ t \in 0 .. N - 1 /\ WriteStatics(dev, t)
        /\ Kept(dev, t, q) /\ dev.out.packet.v = host.sent[t + 1] /\ host \in Hosts
    BY <1>2, <1>3, <1>5
  <2>3. /\ host.lba + q \in BlockIds
        /\ Changes(dev, s, {"Data_Buffer", "Counter", "W_Offset", "W_Length", "TransferState"})
        /\ s.TransferState = "ONGOING" /\ s.Counter = dev.Counter + 1
        /\ s.W_Length = N - t - 1
        /\ t + 1 < N => s.W_Offset = host.lba * Packets + (t + 1)
        /\ t + 1 = N => dev.Counter = Packets - 1 /\ q = host.n - 1
        /\ BlockIsFull(dev) <=> dev.Counter = Packets - 1
        /\ dev.Counter = Packets - 1 => BlockAt(s.W_Offset - Packets) = host.lba + q
        /\ q < host.n - 1 => t + 1 < N
        /\ s.Data_Buffer = [dev.Data_Buffer EXCEPT ![dev.Counter] = host.sent[t + 1]]
        /\ \A j \in 0 .. dev.Counter : s.Data_Buffer[j] = host.sent[q * Packets + j + 1]
    BY <2>1, <2>2, TakeStep
  <2> QED BY <2>3
<1> HIDE DEF s
<1>7. dev.Counter = Packets - 1 /\ t = q * Packets + dev.Counter
  BY <1>3, <1>6 DEF Kept
<1>8. ASSUME NEW j \in 0 .. Packets - 1
      PROVE  s.Data_Buffer[j] \in Data
  <2>1. s.Data_Buffer[j] = host.sent[q * Packets + j + 1]
    BY <1>6, <1>7
  <2>2. q * Packets \in Nat
    BY <1>4
  <2>3. q * Packets + j + 1 \in 1 .. host.got
    BY <1>4, <1>7, <2>2
  <2> QED BY <1>2, <2>1, <2>3
<1> QED BY <1>2, <1>3, <1>6, <1>7, <1>8 DEF s

(* The content that MAL_Read gives is that of the block, but for what a    *)
(* disturbance has spoilt.                                                 *)
GivesBlock(content) ==
  /\ content = [j \in 0 .. Packets - 1 |-> content[j]]
  /\ \A j \in 0 .. Packets - 1 :
       content[j] \in {flash[<<BlockAt(Started(Decoded, "Offset", "Length").Offset), j>>], Garbage}

LEMMA GivesCellOK ==
  ASSUME flash \in [Cells -> Data \union {Garbage}], DiskOK, host.op # "write", NEW content, GivesBlock(content),
         NEW b \in BlockIds, Started(Decoded, "Offset", "Length").Offset = b * Packets
  PROVE  /\ content \in [0 .. Packets - 1 -> Contents]
         /\ \A j \in 0 .. Packets - 1 : CellOK(<<b, j>>, content[j])
<1>1. BlockAt(Started(Decoded, "Offset", "Length").Offset) = b
  BY BlockAtLemma
<1>2. ASSUME NEW j \in 0 .. Packets - 1
      PROVE  CellOK(<<b, j>>, content[j]) /\ content[j] \in Contents
  <2>1. <<b, j>> \in Cells
    BY DEF Cells
  <2>2. CellOK(<<b, j>>, flash[<<b, j>>])
    BY <2>1 DEF DiskOK
  <2>3. content[j] \in {flash[<<b, j>>], Garbage}
    BY <1>1 DEF GivesBlock
  <2>4. flash[<<b, j>>] \in Contents /\ Garbage \in Contents
    BY <2>1 DEF Contents
  <2> QED BY <2>2, <2>3, <2>4 DEF CellOK
<1>3. content = [j \in 0 .. Packets - 1 |-> content[j]]
  BY DEF GivesBlock
<1> QED BY <1>2, <1>3

(* The handler, with what it reads and writes on the flash.                *)
Written(G) == [c \in Cells |-> IF c \in G THEN Garbage
                               ELSE IF c[1] = BlockAt(Taken(dev).W_Offset - Packets)
                                    THEN Taken(dev).Data_Buffer[c[2]] ELSE flash[c]]

LEMMA HandlerStep ==
  ASSUME AnyReset = FALSE, Inv, events # {}, NEW content, NEW G,
         Reads => GivesBlock(content),
         flash' = IF Writes THEN Written(G) ELSE flash,
         dev' = Handler(content), events' = events \ {Ep}, host' = host, disk' = disk, access' = "none"
  PROVE  DevTypes(dev)' /\ ResidueOK' /\ Stages'
<1>1. /\ host \in Hosts /\ DevTypes(dev) /\ DiskOK /\ Stages
      /\ flash \in [Cells -> Data \union {Garbage}]
  BY DEF Inv, Types
<1>2. ASSUME host.n \in 1 .. MaxLen, dev'.residue \in 0 .. N
      PROVE  ResidueOK'
  <2>1. N \in 0 .. MaxLen * Packets
    BY <1>1, <1>2, LengthLemma
  <2> QED BY <1>2, <2>1, Sizes DEF ResidueOK
<1>3. dev'.residue = 0 => ResidueOK'
  BY Sizes DEF ResidueOK
<1>4. CASE Free
  <2>1. /\ Rest(dev) /\ dev.in.status = "NAK" /\ events = {"in"} /\ dev.Bot_State \in {"CSW_Send", "ERROR"}
        /\ host.st = "idle" /\ host.op = "test" /\ host.got = 0 /\ host.sent = <<>>
    BY <1>4 DEF Free
  <2>2. events' = {}
    BY <2>1 DEF Ep
  <2> DEFINE e == Handler(content)
  <2>3. /\ DevTypes(e) /\ Rest(e) /\ e.in.status = "NAK" /\ e.out.status = "VALID"
        /\ e.Bot_State = "IDLE" /\ e.residue = 0
    BY <1>1, <2>1, CswTaken
  <2> HIDE DEF e
  <2>4. dev' = e
    BY DEF e
  <2>5. DevTypes(dev)' /\ Rest(dev)' /\ ResidueOK'
    BY <2>3, <2>4, Sizes DEF DevTypes, Shape, Rest, ResidueOK
  <2>6. Free'
    BY <2>1, <2>2, <2>3, <2>4, <2>5 DEF Free
  <2> QED BY <2>5, <2>6 DEF Stages
<1>5. CASE Asked /\ events = {"in", "out"}
  <2>1. /\ Rest(dev) /\ dev.in.status = "NAK" /\ dev.Bot_State \in {"CSW_Send", "ERROR"}
        /\ dev.out.packet = TheCbw /\ "in" \in events
    BY <1>5 DEF Asked
  <2>2. events' = {"out"}
    BY <1>5 DEF Ep
  <2> DEFINE e == Handler(content)
  <2>3. /\ DevTypes(e) /\ Rest(e) /\ e.in.status = "NAK" /\ e.out.status = "VALID"
        /\ e.Bot_State = "IDLE" /\ e.residue = 0 /\ e.out.packet = TheCbw
    BY <1>1, <2>1, CswTaken
  <2> HIDE DEF e
  <2>4. dev' = e /\ TheCbw' = TheCbw
    BY DEF e, TheCbw
  <2>5. DevTypes(dev)' /\ Rest(dev)' /\ ResidueOK'
    BY <2>3, <2>4, Sizes DEF DevTypes, Shape, Rest, ResidueOK
  <2>6. Asked'
    BY <1>5, <2>2, <2>3, <2>4, <2>5 DEF Asked
  <2> QED BY <2>5, <2>6 DEF Stages
<1>6. CASE Asked /\ events = {"out"}
  <2>1. Ep = "out" /\ events' = {}
    BY <1>6 DEF Ep
  <2>2. /\ dev.out.packet = TheCbw /\ dev.Bot_State = "IDLE" /\ Rest(dev) /\ host.n \in 1 .. MaxLen
    BY <1>6 DEF Asked
  <2>3. ASSUME host.op = "read", Fits
        PROVE  /\ content \in [0 .. Packets - 1 -> Contents]
               /\ \A j \in 0 .. Packets - 1 : CellOK(<<host.lba, j>>, content[j])
    <3>1. /\ Changes(dev, Decoded, {"cbw"}) /\ Decoded.cbw = TheCbw
      BY <1>1, <2>2 DEF Decoded, DevTypes, Shape, Changes, Fields
    <3>2. TheCbw.kind = "cbw" /\ TheCbw.op = host.op /\ TheCbw.lba = host.lba /\ TheCbw.n = host.n
      BY DEF TheCbw, Cbw
    <3>3. host.lba \in BlockIds /\ ~ OutOfRange(Decoded)
      <4>1. host.lba \in BlockIds /\ host.n \in Int /\ Blocks \in Int /\ host.lba + host.n <= Blocks
        BY <1>1, <2>3, Sizes DEF Fits, Hosts
      <4> QED BY <3>1, <3>2, <4>1 DEF OutOfRange, BlockIds
    <3>4. Reads
      BY <2>1, <2>2, <2>3, <3>1, <3>2, <3>3 DEF Reads, Rest
    <3>5. Started(Decoded, "Offset", "Length").Offset = host.lba * Packets
      <4>1. Decoded.TransferState = "IDLE" /\ Shape(Decoded)
        BY <2>2, <3>1 DEF Rest, Changes, Fields
      <4> QED BY <3>1, <3>2, <4>1, StartedLemma
    <3>6. host.op # "write" /\ GivesBlock(content)
      BY <2>3, <3>4
    <3> QED BY <1>1, <3>3, <3>5, <3>6, GivesCellOK
  <2>4. DevTypes(dev)' /\ dev'.residue \in 0 .. N /\ Stages'
    BY <1>1, <1>6, <2>1, <2>3, AskedHandled
  <2> QED BY <1>2, <2>2, <2>4
<1>7. CASE Reading /\ events # {}
  <2>1. events = {"in"} /\ dev.in.status = "NAK" /\ dev.Bot_State = "DATA_IN" /\ host.op = "read" /\ Fits
        /\ dev.TransferState = "ONGOING"
    BY <1>7 DEF Reading, ReadStatics
  <2>2. Ep = "in" /\ events' = {} /\ host.n \in 1 .. MaxLen
    BY <2>1 DEF Ep, Fits
  <2>3. ASSUME dev.Block_Read_count = 0
        PROVE  \A b \in BlockIds : dev.Offset = b * Packets =>
                 /\ content \in [0 .. Packets - 1 -> Contents]
                 /\ \A j \in 0 .. Packets - 1 : CellOK(<<b, j>>, content[j])
    <3>1. Reads
      BY <2>1, <2>2, <2>3 DEF Reads
    <3>2. GivesBlock(content) /\ host.op # "write"
      BY <2>1, <3>1
    <3>3. Started(Decoded, "Offset", "Length").Offset = dev.Offset
      BY <2>1 DEF Decoded, Started
    <3> QED BY <1>1, <3>2, <3>3, GivesCellOK
  <2>4. DevTypes(dev)' /\ dev'.residue \in 0 .. N /\ Stages'
    BY <1>1, <1>7, <2>1, <2>2, <2>3, ReadingHandled
  <2> QED BY <1>2, <2>2, <2>4
<1>8. CASE LastPacket /\ events # {}
  <2>1. events = {"in"} /\ host.n \in 1 .. MaxLen
    BY <1>8 DEF LastPacket
  <2>2. events' = {}
    BY <2>1 DEF Ep
  <2>3. DevTypes(dev)' /\ dev'.residue = 0 /\ Answered'
    BY <1>1, <1>8, <2>1, <2>2, LastHandled
  <2> QED BY <1>3, <2>1, <2>3 DEF Stages
<1>9. CASE Writing /\ events # {}
  <2>1. events = {"out"} /\ dev.Bot_State = "DATA_OUT" /\ host.n \in 1 .. MaxLen
    BY <1>9 DEF Writing, Fits
  <2>2. Ep = "out" /\ events' = {} /\ (Writes <=> BlockIsFull(dev))
    BY <2>1 DEF Ep, Writes
  <2>3. flash' = IF BlockIsFull(dev) THEN Written(G) ELSE flash
    BY <2>2
  <2>4. DevTypes(dev)' /\ dev'.residue \in 0 .. N /\ Stages'
    BY <1>1, <1>9, <2>1, <2>2, <2>3, WritingHandled DEF Written
  <2> QED BY <1>2, <2>1, <2>4
<1>10. ~ (Answered \/ Refused)
  BY DEF Answered, Refused
<1>11. Asked => events = {"out"} \/ events = {"in", "out"}
  BY DEF Asked
<1> QED BY <1>1, <1>4, <1>5, <1>6, <1>7, <1>8, <1>9, <1>10, <1>11 DEF Stages

LEMMA FlashStep ==
  ASSUME Inv, events # {}, NEW G, flash' = IF Writes THEN Written(G) ELSE flash,
         host' = host, disk' = disk
  PROVE  flash' \in [Cells -> Data \union {Garbage}] /\ DiskOK'
<1>1. /\ host \in Hosts /\ DevTypes(dev) /\ DiskOK /\ Stages
      /\ flash \in [Cells -> Data \union {Garbage}]
  BY DEF Inv, Types
<1>2. CASE ~ Writes
  <2>1. flash' = flash
    BY <1>2
  <2>2. DiskOK'
    BY <1>1, <2>1 DEF DiskOK, CellOK, CommandCells
  <2> QED BY <1>1, <2>1, <2>2
<1>3. CASE Writes
  <2>1. dev.Bot_State = "DATA_OUT" /\ BlockIsFull(dev)
    BY <1>3 DEF Writes
  <2>2. Writing
    BY <1>1, <2>1 DEF Stages, Free, Asked, Reading, LastPacket, Answered, Refused
  <2>3. events = {"out"}
    BY <2>2 DEF Writing
  <2> DEFINE b == BlockAt(Taken(dev).W_Offset - Packets)
             buf == Taken(dev).Data_Buffer
  <2>4. /\ host.op = "write" /\ host.got > 0
        /\ \E q \in 0 .. host.n - 1 : b = host.lba + q
        /\ \A j \in 0 .. Packets - 1 : buf[j] \in Data
    BY <1>1, <2>1, <2>2, <2>3, FullBlock
  <2> HIDE DEF b, buf
  <2>5. flash' = [c \in Cells |-> IF c \in G THEN Garbage ELSE IF c[1] = b THEN buf[c[2]] ELSE flash[c]]
    BY <1>3 DEF Written, b, buf
  <2>6. ASSUME NEW c \in Cells
        PROVE  c[2] \in 0 .. Packets - 1 /\ (c[1] = b => c \in CommandCells)
    BY <2>4 DEF Cells, CommandCells
  <2>7. ASSUME NEW c \in Cells
        PROVE  flash'[c] \in Data \union {Garbage}
    BY <1>1, <2>4, <2>5, <2>6
  <2>8. flash' \in [Cells -> Data \union {Garbage}]
    BY <2>5, <2>7
  <2>9. ASSUME NEW c \in Cells
        PROVE  CellOK(c, flash[c])' \/ (host.op = "write" /\ host.got > 0 /\ c \in CommandCells)
    <3>1. CASE c \in G
      BY <2>5, <3>1 DEF CellOK
    <3>2. CASE c \notin G /\ c[1] = b
      BY <2>4, <2>6, <3>2
    <3>3. CASE c \notin G /\ c[1] # b
      <4>1. flash'[c] = flash[c]
        BY <2>5, <3>3
      <4>2. CellOK(c, flash[c]) \/ (host.op = "write" /\ host.got > 0 /\ c \in CommandCells)
        BY <1>1 DEF DiskOK
      <4> QED BY <4>1, <4>2 DEF CellOK
    <3> QED BY <3>1, <3>2, <3>3
  <2>10. DiskOK'
    BY <2>9 DEF DiskOK, CellOK, CommandCells
  <2> QED BY <2>8, <2>10
<1> QED BY <1>2, <1>3

-----------------------------------------------------------------------------
(* Every step keeps the invariant.                                         *)
LEMMA HandleInv ==
  ASSUME AnyReset = FALSE, Inv, Handle
  PROVE  Inv'
<1>1. /\ events # {} /\ access = "none" /\ ~Reads /\ ~Writes
      /\ dev' = Handler(Boot.Data_Buffer) /\ events' = events \ {Ep}
      /\ flash' = flash /\ access' = access /\ spoilt' = spoilt /\ host' = host /\ disk' = disk
      /\ troubles' = troubles
  BY DEF Handle
<1>2. flash' = IF Writes THEN Written({}) ELSE flash
  BY <1>1
<1>3. DevTypes(dev)' /\ ResidueOK' /\ Stages'
  BY <1>1, <1>2, HandlerStep
<1>4. flash' \in [Cells -> Data \union {Garbage}] /\ DiskOK'
  BY <1>1, <1>2, FlashStep
<1>5. Types'
  <2>1. Types
    BY DEF Inv
  <2> QED BY <1>1, <1>3, <1>4, <2>1 DEF Types, Hosts, BlockIds, Cells
<1> QED BY <1>3, <1>4, <1>5 DEF Inv

LEMMA AccessInv ==
  ASSUME AnyReset = FALSE, Inv, Access
  PROVE  Inv'
<1>1. /\ events # {} /\ access = "none" /\ (Reads \/ Writes)
      /\ access' = IF Reads THEN "read" ELSE "write"
      /\ dev' = dev /\ events' = events /\ flash' = flash /\ spoilt' = spoilt /\ host' = host
      /\ disk' = disk /\ troubles' = troubles
  BY DEF Access
<1>2. (Reads <=> Reads') /\ (Writes <=> Writes')
  BY <1>1 DEF Reads, Writes, Ep, Decoded, OutOfRange, BlockIsFull, Taken, Started
<1>3. Types' /\ ResidueOK' /\ DiskOK'
  BY <1>1, <1>2 DEF Inv, Types, DevTypes, Shape, ResidueOK, DiskOK, CellOK, CommandCells
<1>4. ~ Free /\ ~ LastPacket /\ ~ Answered /\ ~ Refused
  <2>1. dev.Bot_State \in {"DATA_IN", "IDLE", "DATA_OUT"} /\ (dev.Bot_State = "IDLE" => Ep = "out")
    BY <1>1 DEF Reads, Writes
  <2> QED BY <1>1, <2>1 DEF Free, LastPacket, Answered, Refused, Ep
<1>5. Asked \/ Reading \/ Writing
  BY <1>4 DEF Inv, Stages
<1>6. N' = N /\ TheCbw' = TheCbw /\ Fits' = Fits
  BY <1>1 DEF N, TheCbw, Fits
<1>7. Asked => Asked'
  BY <1>1, <1>6 DEF Asked, Rest
<1>8. Reading => Reading'
  BY <1>1, <1>6 DEF Reading, ReadStatics, Held, CellOK
<1>9. Writing => Writing'
  BY <1>1, <1>6 DEF Writing, WriteStatics, Kept, Stored
<1> QED BY <1>3, <1>5, <1>7, <1>8, <1>9 DEF Inv, Stages

LEMMA ReadBlockInv ==
  ASSUME AnyReset = FALSE, Inv, ReadBlock
  PROVE  Inv'
<1> DEFINE b == BlockAt(Started(Decoded, "Offset", "Length").Offset)
<1>1. PICK G \in SUBSET (0 .. Packets - 1) :
        dev' = Handler([i \in 0 .. Packets - 1 |-> IF i \in G THEN Garbage ELSE flash[b, i]])
  BY DEF ReadBlock
<1>2. /\ access = "read" /\ events' = events \ {Ep} /\ access' = "none" /\ spoilt' = FALSE
      /\ flash' = flash /\ host' = host /\ disk' = disk /\ troubles' = troubles
  BY DEF ReadBlock, Done
<1>3. events # {} /\ Reads /\ Types
  BY <1>2 DEF Inv, Types
<1>4. ~ Writes
  BY <1>3 DEF Reads, Writes
<1> DEFINE content == [i \in 0 .. Packets - 1 |-> IF i \in G THEN Garbage ELSE flash[b, i]]
<1>5. GivesBlock(content)
  BY DEF GivesBlock
<1>6. dev' = Handler(content)
  BY <1>1
<1>7. flash' = IF Writes THEN Written({}) ELSE flash
  BY <1>2, <1>4
<1> HIDE DEF content
<1>8. DevTypes(dev)' /\ ResidueOK' /\ Stages'
  BY <1>2, <1>3, <1>5, <1>6, <1>7, HandlerStep
<1>9. flash' \in [Cells -> Data \union {Garbage}] /\ DiskOK'
  BY <1>2, <1>3, <1>7, FlashStep
<1>10. Types'
  BY <1>2, <1>3, <1>8, <1>9 DEF Types, Hosts, BlockIds, Cells
<1> QED BY <1>8, <1>9, <1>10 DEF Inv

LEMMA WriteBlockInv ==
  ASSUME AnyReset = FALSE, Inv, WriteBlock
  PROVE  Inv'
<1>1. PICK G \in SUBSET Cells : flash' = Written(G)
  BY DEF WriteBlock, Written
<1>2. /\ access = "write" /\ events' = events \ {Ep} /\ access' = "none" /\ spoilt' = FALSE
      /\ dev' = Handler(Boot.Data_Buffer) /\ host' = host /\ disk' = disk /\ troubles' = troubles
  BY DEF WriteBlock, Done
<1>3. events # {} /\ Writes /\ Types
  BY <1>2 DEF Inv, Types
<1>4. ~ Reads
  BY <1>3 DEF Reads, Writes
<1>5. flash' = IF Writes THEN Written(G) ELSE flash
  BY <1>1, <1>3
<1>6. DevTypes(dev)' /\ ResidueOK' /\ Stages'
  BY <1>2, <1>3, <1>4, <1>5, HandlerStep
<1>7. flash' \in [Cells -> Data \union {Garbage}] /\ DiskOK'
  BY <1>2, <1>3, <1>5, FlashStep
<1>8. Types'
  BY <1>2, <1>3, <1>6, <1>7 DEF Types, Hosts, BlockIds, Cells
<1> QED BY <1>6, <1>7, <1>8 DEF Inv

LEMMA FlashReadInv ==
  ASSUME Inv, FlashRead
  PROVE  Inv'
<1>1. /\ access # "none" /\ spoilt' = TRUE /\ troubles' \in 0 .. MaxTroubles
      /\ dev' = dev /\ events' = events /\ flash' = flash /\ access' = access /\ host' = host /\ disk' = disk
  <2>1. troubles \in 0 .. MaxTroubles /\ MaxTroubles \in Nat
    BY SizesAssumption DEF Inv, Types
  <2> QED BY <2>1 DEF FlashRead, Trouble
<1>2. (Reads <=> Reads') /\ (Writes <=> Writes')
  BY <1>1 DEF Reads, Writes, Ep, Decoded, OutOfRange, BlockIsFull, Taken, Started
<1>3. Types' /\ ResidueOK' /\ DiskOK'
  BY <1>1, <1>2 DEF Inv, Types, DevTypes, Shape, ResidueOK, DiskOK, CellOK, CommandCells
<1>4. N' = N /\ TheCbw' = TheCbw /\ Fits' = Fits
  BY <1>1 DEF N, TheCbw, Fits
<1>5. /\ Free => Free'
      /\ Asked => Asked'
      /\ LastPacket => LastPacket'
      /\ Refused => Refused'
  BY <1>1, <1>4 DEF Free, Asked, LastPacket, Refused, Rest, CellOK
<1>6. Reading => Reading'
  BY <1>1, <1>4 DEF Reading, ReadStatics, Held, CellOK
<1>7. Writing => Writing'
  BY <1>1, <1>4 DEF Writing, WriteStatics, Kept, Stored
<1>8. Answered => Answered'
  BY <1>1, <1>4 DEF Answered, Rest, Stored
<1> QED BY <1>3, <1>5, <1>6, <1>7, <1>8 DEF Inv, Stages

LEMMA BootLemma ==
  DevTypes(Boot) /\ Rest(Boot) /\ Boot.in.status = "NAK" /\ Boot.out.status = "VALID"
  /\ Boot.Bot_State = "IDLE" /\ Boot.residue = 0
<1>1. Shape(Boot)
  BY DEF Shape, Boot
<1>2. Boot.Data_Buffer \in [0 .. Packets - 1 -> Contents]
  BY DEF Boot, Contents
<1>3. /\ Boot.in.status = "NAK" /\ Boot.out.status = "VALID" /\ Boot.signature = TRUE
      /\ Boot.Bot_State = "IDLE" /\ Boot.residue = 0 /\ Rest(Boot)
  BY DEF Boot, Rest
<1> QED BY <1>1, <1>2, <1>3 DEF DevTypes, Statuses

LEMMA IdleLemma ==
  ASSUME host \in Hosts
  PROVE  /\ Idle(0) \in Hosts /\ Idle(1 - host.tag) \in Hosts
         /\ \A tag \in {0, 1} : /\ Idle(tag).st = "idle" /\ Idle(tag).op = "test"
                                /\ Idle(tag).got = 0 /\ Idle(tag).sent = <<>>
<1>1. 0 \in BlockIds /\ 0 \in 0 .. MaxLen /\ <<>> \in Seq(Data) /\ 0 \in Nat /\ "test" \in Ops
  BY Sizes DEF BlockIds, Ops
<1>2. 1 - host.tag \in {0, 1}
  BY DEF Hosts
<1>3. \A tag \in {0, 1} : Idle(tag) \in Hosts
  BY <1>1 DEF Idle, Hosts
<1> QED BY <1>2, <1>3 DEF Idle

LEMMA SendCBWInv ==
  ASSUME Inv, SendCBW
  PROVE  Inv'
<1>1. PICK op \in Ops, lba \in BlockIds, n \in 1 .. MaxLen :
        /\ op \in {"read", "write"} \/ (lba = 0 /\ n = 1)
        /\ dev' = [dev EXCEPT !.out = [status |-> "NAK", packet |-> Cbw(op, lba, n, host.tag)]]
        /\ host' = [host EXCEPT !.op = op, !.lba = lba, !.n = n,
                                !.st = CASE op = "write"  -> "out"
                                         [] op \in {"read", "inquiry"} -> "in"
                                         [] OTHER         -> "status"]
  BY DEF SendCBW
<1>2. /\ host.st = "idle" /\ dev.out.status = "VALID" /\ events' = events \union {"out"}
      /\ flash' = flash /\ access' = access /\ spoilt' = spoilt /\ disk' = disk /\ troubles' = troubles
  BY DEF SendCBW
<1>3. Types /\ DevTypes(dev) /\ host \in Hosts /\ DiskOK /\ ResidueOK
  BY DEF Inv, Types
<1>4. Free
  BY <1>2 DEF Inv, Stages, Asked, Reading, LastPacket, Writing, Answered, Refused
<1> DEFINE st == CASE op = "write"  -> "out"
                   [] op \in {"read", "inquiry"} -> "in"
                   [] OTHER         -> "status"
<1>5. st \in {"in", "out", "status"}
  OBVIOUS
<1>6. /\ host'.op = op /\ host'.lba = lba /\ host'.n = n /\ host'.st = st /\ host'.tag = host.tag
      /\ host'.got = 0 /\ host'.sent = <<>> /\ host' \in Hosts
  <2> DEFINE h == [host EXCEPT !.op = op, !.lba = lba, !.n = n, !.st = st]
  <2>1. host' = h
    BY <1>1
  <2>2. n \in 0 .. MaxLen /\ host.got = 0 /\ host.sent = <<>> /\ st \in {"idle", "in", "out", "status"}
    BY <1>4, <1>5 DEF Free
  <2> HIDE DEF st
  <2>3. h \in Hosts
    BY <1>3, <2>2 DEF Hosts
  <2>4. h.op = op /\ h.lba = lba /\ h.n = n /\ h.st = st /\ h.tag = host.tag /\ h.got = host.got
        /\ h.sent = host.sent
    BY <1>3 DEF Hosts
  <2> HIDE DEF h
  <2> QED BY <2>1, <2>2, <2>3, <2>4
<1>7. /\ Changes(dev, dev', {"out"}) /\ dev'.out.status = "NAK"
      /\ dev'.out.packet = Cbw(op, lba, n, host.tag)
  BY <1>1, <1>3 DEF DevTypes, Shape, Changes, Fields
<1>8. /\ dev'.in = dev.in /\ dev'.Bot_State = dev.Bot_State /\ dev'.residue = dev.residue
      /\ dev'.signature = dev.signature /\ dev'.Data_Buffer = dev.Data_Buffer /\ Rest(dev)'
      /\ Shape(dev)'
  BY <1>4, <1>7 DEF Changes, Fields, Rest, Free, Shape
<1>9. DevTypes(dev)'
  BY <1>3, <1>7, <1>8 DEF DevTypes, Statuses
<1>10. dev'.out.packet = TheCbw'
  BY <1>6, <1>7 DEF TheCbw
<1>11. Asked'
  <2>1. \/ events = {} /\ dev.Bot_State = "IDLE"
        \/ events = {"in"} /\ dev.Bot_State \in {"CSW_Send", "ERROR"}
    <3> HIDE DEF st
    <3> QED BY <1>4 DEF Free
  <2>2. \/ events' = {"out"} /\ dev'.Bot_State = "IDLE"
        \/ events' = {"in", "out"} /\ dev'.Bot_State \in {"CSW_Send", "ERROR"}
    BY <1>2, <1>8, <2>1
  <2>3. dev'.in.status = "NAK" /\ dev'.out.status # "STALL"
    BY <1>4, <1>7, <1>8 DEF Free
  <2> QED BY <1>1, <1>6, <1>8, <1>10, <2>2, <2>3 DEF Asked
<1>12. Types'
  <2>1. access' = "none" /\ events' \subseteq {"in", "out"} /\ events' # {}
    BY <1>2, <1>3, <1>4 DEF Free, Types
  <2> QED BY <1>2, <1>3, <1>6, <1>9, <2>1 DEF Types, Hosts, BlockIds, Cells
<1>13. DiskOK' /\ ResidueOK'
  <2>1. \A c \in Cells : CellOK(c, flash[c])
    BY <1>3, <1>4 DEF DiskOK, Free
  <2> QED BY <1>2, <1>3, <1>8, <2>1 DEF DiskOK, CellOK, ResidueOK
<1> QED BY <1>11, <1>12, <1>13 DEF Inv, Stages

LEMMA SendDataInv ==
  ASSUME Inv, SendData
  PROVE  Inv'
<1>1. PICK v \in Data :
        /\ dev' = [dev EXCEPT !.out = [status |-> "NAK", packet |-> DataPacket(v)]]
        /\ host' = [host EXCEPT !.sent = Append(@, v), !.got = @ + 1,
                      !.st = IF host.got + 1 = host.n * Packets THEN "status" ELSE @]
  BY DEF SendData
<1>2. /\ host.st = "out" /\ dev.out.status = "VALID" /\ events = {} /\ events' = {"out"}
      /\ flash' = flash /\ access' = access /\ spoilt' = spoilt /\ disk' = disk /\ troubles' = troubles
  BY DEF SendData
<1>3. /\ Types /\ DevTypes(dev) /\ host \in Hosts /\ DiskOK /\ ResidueOK
      /\ host.got \in Nat /\ host.sent \in Seq(Data) /\ host.lba \in BlockIds /\ host.n \in 0 .. MaxLen
  BY DEF Inv, Types, Hosts
<1>4. Writing
  BY <1>2 DEF Inv, Stages, Free, Asked, Reading, LastPacket, Answered, Refused
<1>5. /\ host.op = "write" /\ Fits /\ Len(host.sent) = host.got
      /\ dev.Bot_State = "DATA_OUT" /\ dev.cbw = TheCbw /\ dev.in.status = "NAK"
      /\ host.got \in 0 .. N - 1 /\ WriteStatics(dev, host.got)
      /\ \E q \in 0 .. host.n - 1 : Kept(dev, host.got, q) /\ \A k \in 0 .. q - 1 : Stored(k)
  BY <1>2, <1>4 DEF Writing
<1>6. N = host.n * Packets /\ N \in Nat /\ host.n \in Nat
  <2>1. host.n \in 1 .. MaxLen
    BY <1>5 DEF Fits
  <2> QED BY <1>3, <1>5, <2>1, LengthLemma, Sizes
<1> DEFINE st == IF host.got + 1 = host.n * Packets THEN "status" ELSE "out"
           sent == Append(host.sent, v)
<1>7. /\ host'.st = st /\ host'.sent = sent /\ host'.got = host.got + 1 /\ host'.op = host.op
      /\ host'.lba = host.lba /\ host'.n = host.n /\ host'.tag = host.tag /\ host' \in Hosts
  <2> DEFINE h == [host EXCEPT !.sent = sent, !.got = host.got + 1, !.st = st]
  <2>1. host' = h
    BY <1>1, <1>2, <1>3 DEF Hosts
  <2>2. sent \in Seq(Data) /\ host.got + 1 \in Nat /\ st \in {"idle", "in", "out", "status"}
    BY <1>1, <1>3
  <2> HIDE DEF st, sent
  <2>3. h \in Hosts
    BY <1>3, <2>2 DEF Hosts
  <2>4. h.op = host.op /\ h.lba = host.lba /\ h.n = host.n /\ h.st = st /\ h.tag = host.tag
        /\ h.got = host.got + 1 /\ h.sent = sent
    BY <1>3 DEF Hosts
  <2> HIDE DEF h
  <2> QED BY <2>1, <2>3, <2>4
<1>8. /\ Len(sent) = host.got + 1 /\ sent[host.got + 1] = v
      /\ \A i \in 1 .. host.got : sent[i] = host.sent[i]
  BY <1>1, <1>3, <1>5
<1> HIDE DEF sent
<1>9. /\ Changes(dev, dev', {"out"}) /\ dev'.out.status = "NAK"
      /\ dev'.out.packet = DataPacket(v)
  BY <1>1, <1>3 DEF DevTypes, Shape, Changes, Fields
<1>10. /\ dev'.in = dev.in /\ dev'.Bot_State = dev.Bot_State /\ dev'.residue = dev.residue
       /\ dev'.signature = dev.signature /\ dev'.Data_Buffer = dev.Data_Buffer /\ dev'.cbw = dev.cbw
       /\ dev'.TransferState = dev.TransferState /\ dev'.Offset = dev.Offset /\ dev'.Length = dev.Length
       /\ dev'.W_Offset = dev.W_Offset /\ dev'.W_Length = dev.W_Length /\ dev'.Counter = dev.Counter
       /\ dev'.Block_Read_count = dev.Block_Read_count /\ dev'.Block_offset = dev.Block_offset
       /\ Shape(dev)'
  BY <1>9 DEF Changes, Fields, Shape
<1>11. DevTypes(dev)'
  BY <1>3, <1>9, <1>10 DEF DevTypes, Statuses
<1>12. N' = N /\ TheCbw' = TheCbw /\ Fits' = Fits
  BY <1>7 DEF N, TheCbw, Fits
<1>14. PICK t \in Nat : t = host.got
  BY <1>3
<1>15. WriteStatics(dev, t)'
  BY <1>5, <1>7, <1>10, <1>12, <1>14 DEF WriteStatics
<1>16. \E q \in 0 .. host.n - 1 : Kept(dev, t, q)' /\ \A k \in 0 .. q - 1 : Stored(k)'
  <2>1. PICK q \in 0 .. host.n - 1 : Kept(dev, t, q) /\ \A k \in 0 .. q - 1 : Stored(k)
    BY <1>5, <1>14
  <2>2. q \in Nat /\ Packets \in Nat \ {0} /\ q * Packets \in Nat /\ dev.Counter \in Nat
        /\ t = q * Packets + dev.Counter
    <3>1. q \in Nat /\ Packets \in Nat \ {0}
      BY <1>6, <2>1, Sizes
    <3>2. dev.Counter \in 0 .. Packets - 1 /\ t = q * Packets + dev.Counter
      BY <1>5, <2>1 DEF WriteStatics, Kept
    <3>3. q * Packets \in Nat
      BY <3>1, MulLemma
    <3> QED BY <3>1, <3>2, <3>3
  <2>3. ASSUME NEW j \in 0 .. dev.Counter - 1
        PROVE  dev.Data_Buffer[j] = sent[q * Packets + j + 1]
    <3>1. q * Packets + j + 1 \in 1 .. host.got
      BY <1>14, <2>2
    <3> QED BY <1>8, <2>1, <3>1 DEF Kept
  <2>4. Kept(dev, t, q)'
    BY <1>7, <1>10, <2>2, <2>3 DEF Kept
  <2>5. ASSUME NEW k \in 0 .. q - 1
        PROVE  Stored(k)'
    <3>1. ASSUME NEW j \in 0 .. Packets - 1
          PROVE  k * Packets + j + 1 \in 1 .. host.got
      <4>1. (q - 1 - k) * Packets = q * Packets - Packets - k * Packets /\ q - 1 - k \in Int
            /\ q - 1 - k >= 0 /\ k * Packets \in Nat
        BY <2>2
      <4>2. (q - 1 - k) * Packets >= 0
        BY <2>2, <4>1, MulLemma
      <4> QED BY <1>14, <2>2, <4>1, <4>2
    <3>2. Stored(k)
      BY <2>1
    <3> QED BY <1>2, <1>7, <1>8, <3>1, <3>2 DEF Stored
  <2> QED BY <2>1, <2>4, <2>5
<1>17. Writing'
  <2>1. t \in 0 .. N - 1 /\ host'.got - 1 = t /\ host'.got >= 1 /\ host'.st = IF host'.got = N THEN "status" ELSE "out"
    BY <1>5, <1>6, <1>7, <1>14
  <2>2. dev'.out.packet = DataPacket(host'.sent[host'.got]) /\ Len(host'.sent) = host'.got
    BY <1>7, <1>8, <1>9
  <2> HIDE DEF st
  <2> QED BY <1>2, <1>5, <1>7, <1>9, <1>10, <1>12, <1>15, <1>16, <2>1, <2>2 DEF Writing
<1>18. Types'
  <2>1. access' = "none"
    BY <1>2, <1>3 DEF Types
  <2> QED BY <1>2, <1>3, <1>7, <1>11, <2>1 DEF Types, Cells, BlockIds
<1>19. DiskOK' /\ ResidueOK'
  <2>1. host'.got > 0 /\ CommandCells' = CommandCells
    BY <1>3, <1>7 DEF CommandCells
  <2> QED BY <1>2, <1>3, <1>5, <1>7, <1>10, <2>1 DEF DiskOK, CellOK, ResidueOK
<1> QED BY <1>17, <1>18, <1>19 DEF Inv, Stages

LEMMA TakeDataInv ==
  ASSUME Inv, TakeData
  PROVE  Inv'
<1>1. /\ host.st = "in" /\ dev.in.status = "VALID" /\ dev' = [dev EXCEPT !.in = Boot.in]
      /\ host' = [host EXCEPT !.got = @ + 1,
                    !.st = IF host.got + 1 = DataLength(host.op, host.n) THEN "status" ELSE @]
      /\ events' = events \union {"in"}
      /\ flash' = flash /\ access' = access /\ spoilt' = spoilt /\ disk' = disk /\ troubles' = troubles
  BY DEF TakeData
<1>2. /\ Types /\ DevTypes(dev) /\ host \in Hosts /\ DiskOK /\ ResidueOK /\ host.got \in Nat
  BY DEF Inv, Types, Hosts
<1>3. Reading \/ LastPacket
  BY <1>1 DEF Inv, Stages, Free, Asked, Writing, Answered, Refused
<1>4. events = {} /\ host.op \in {"read", "inquiry"} /\ host.sent = <<>>
  BY <1>1, <1>3 DEF Reading, LastPacket
<1> DEFINE st == IF host.got + 1 = N THEN "status" ELSE "in"
<1>5. /\ host'.st = st /\ host'.got = host.got + 1 /\ host'.op = host.op /\ host'.sent = host.sent
      /\ host'.lba = host.lba /\ host'.n = host.n /\ host'.tag = host.tag /\ host' \in Hosts
  <2> DEFINE h == [host EXCEPT !.got = host.got + 1, !.st = st]
  <2>1. host' = h
    BY <1>1, <1>2 DEF Hosts, N
  <2>2. host.got + 1 \in Nat /\ st \in {"idle", "in", "out", "status"}
    BY <1>2
  <2> HIDE DEF st
  <2>3. h \in Hosts
    BY <1>2, <2>2 DEF Hosts
  <2>4. h.op = host.op /\ h.lba = host.lba /\ h.n = host.n /\ h.st = st /\ h.tag = host.tag
        /\ h.got = host.got + 1 /\ h.sent = host.sent
    BY <1>2 DEF Hosts
  <2> HIDE DEF h
  <2> QED BY <2>1, <2>3, <2>4
<1>6. /\ Changes(dev, dev', {"in"}) /\ dev'.in.status = "NAK"
  BY <1>1, <1>2 DEF DevTypes, Shape, Changes, Fields, Boot
<1>7. /\ dev'.out = dev.out /\ dev'.Bot_State = dev.Bot_State /\ dev'.residue = dev.residue
      /\ dev'.signature = dev.signature /\ dev'.Data_Buffer = dev.Data_Buffer /\ dev'.cbw = dev.cbw
      /\ dev'.TransferState = dev.TransferState /\ dev'.Offset = dev.Offset /\ dev'.Length = dev.Length
      /\ dev'.W_Offset = dev.W_Offset /\ dev'.W_Length = dev.W_Length /\ dev'.Counter = dev.Counter
      /\ dev'.Block_Read_count = dev.Block_Read_count /\ dev'.Block_offset = dev.Block_offset
      /\ Shape(dev)'
  BY <1>6 DEF Changes, Fields, Shape
<1>8. DevTypes(dev)'
  BY <1>2, <1>6, <1>7 DEF DevTypes, Statuses
<1>9. N' = N /\ TheCbw' = TheCbw /\ Fits' = Fits
  BY <1>5 DEF N, TheCbw, Fits
<1>10. events' = {"in"}
  BY <1>1, <1>4
<1>11. ASSUME Reading
       PROVE  Stages'
  <2>1. PICK t \in Nat : t = host.got + 1
    BY <1>2
  <2>2. /\ host.op = "read" /\ Fits /\ dev.Bot_State = "DATA_IN" /\ dev.cbw = TheCbw
        /\ t \in 1 .. N - 1 /\ ReadStatics(dev, t)
        /\ \E q \in 0 .. host.n - 1 : Held(dev, t, q)
    BY <1>1, <1>11, <2>1 DEF Reading
  <2>3. N \in Int
    <3>1. host.n \in 1 .. MaxLen
      BY <2>2 DEF Fits
    <3> QED BY <1>2, <3>1, LengthLemma, Sizes
  <2>4. host'.st = "in" /\ host'.got = t
    BY <1>5, <2>1, <2>2, <2>3
  <2>5. ReadStatics(dev, t)'
    BY <1>5, <1>7, <1>9, <2>2 DEF ReadStatics
  <2>6. \E q \in 0 .. host.n - 1 : Held(dev, t, q)'
    BY <1>1, <1>5, <1>6, <1>7, <2>2 DEF Held, CellOK
  <2> HIDE DEF st
  <2>7. Reading'
    BY <1>4, <1>5, <1>6, <1>7, <1>9, <1>10, <2>2, <2>4, <2>5, <2>6 DEF Reading
  <2> QED BY <2>7 DEF Stages
<1>12. ASSUME LastPacket
       PROVE  Stages'
  <2>1. host.got + 1 = N /\ access = "none"
    BY <1>1, <1>12 DEF LastPacket
  <2>2. host'.st = "status" /\ host'.got = N
    BY <1>5, <2>1
  <2>3. Rest(dev)'
    BY <1>7, <1>12 DEF LastPacket, Rest
  <2> HIDE DEF st
  <2>4. LastPacket'
    BY <1>1, <1>5, <1>6, <1>7, <1>9, <1>10, <1>12, <2>1, <2>2, <2>3 DEF LastPacket
  <2> QED BY <2>4 DEF Stages
<1>13. Types'
  <2>1. access' = "none"
    BY <1>1, <1>2, <1>4 DEF Types
  <2> QED BY <1>1, <1>2, <1>5, <1>8, <1>10, <2>1 DEF Types, Cells, BlockIds
<1>14. DiskOK' /\ ResidueOK'
  <2>1. \A c \in Cells : CellOK(c, flash[c])
    BY <1>2, <1>4 DEF DiskOK
  <2> QED BY <1>1, <1>2, <1>7, <2>1 DEF DiskOK, CellOK, ResidueOK
<1> QED BY <1>3, <1>11, <1>12, <1>13, <1>14 DEF Inv

LEMMA ClearHaltInv ==
  ASSUME Inv, NEW ep \in {"in", "out"}, ClearHalt(ep)
  PROVE  Inv'
<1>1. /\ dev[ep].status = "STALL" /\ access = "none"
      /\ host.st \in (IF ep = "in" THEN {"in", "status"} ELSE {"out"})
      /\ dev' = ClearFeature(dev, ep) /\ host' = [host EXCEPT !.st = "status"]
      /\ events' = events /\ flash' = flash /\ access' = access /\ spoilt' = spoilt /\ disk' = disk
      /\ troubles' = troubles
  BY DEF ClearHalt
<1>2. /\ Types /\ DevTypes(dev) /\ host \in Hosts /\ DiskOK /\ ResidueOK
  BY DEF Inv, Types
<1>3. Refused
  <2>1. CASE ep = "in"
    <3>1. dev.in.status = "STALL"
      BY <1>1, <2>1
    <3> QED BY <3>1 DEF Inv, Stages, Free, Asked, Reading, LastPacket, Writing, Answered
  <2>2. CASE ep = "out"
    <3>1. dev.out.status = "STALL" /\ host.st = "out"
      BY <1>1, <2>2
    <3> QED BY <3>1 DEF Inv, Stages, Free, Asked, Reading, LastPacket, Writing, Answered
  <2> QED BY <2>1, <2>2
<1>4. /\ host'.st = "status" /\ host'.got = host.got /\ host'.op = host.op /\ host'.sent = host.sent
      /\ host'.lba = host.lba /\ host'.n = host.n /\ host'.tag = host.tag /\ host' \in Hosts
  BY <1>1, <1>2 DEF Hosts
<1>5. dev' = [dev EXCEPT ![ep].status = "VALID"]
  BY <1>1, <1>2 DEF ClearFeature, DevTypes
<1>6. /\ Changes(dev, dev', {"in", "out"})
      /\ dev'.in.packet = dev.in.packet
      /\ dev'.in.status = IF ep = "in" THEN "VALID" ELSE dev.in.status
      /\ dev'.out.status = IF ep = "out" THEN "VALID" ELSE dev.out.status
  <2>1. CASE ep = "in"
    BY <1>2, <1>5, <2>1 DEF DevTypes, Shape, Changes, Fields
  <2>2. CASE ep = "out"
    BY <1>2, <1>5, <2>2 DEF DevTypes, Shape, Changes, Fields
  <2> QED BY <2>1, <2>2
<1>7. /\ dev'.Bot_State = dev.Bot_State /\ dev'.residue = dev.residue /\ Shape(dev)'
      /\ dev'.signature = dev.signature /\ dev'.Data_Buffer = dev.Data_Buffer /\ Rest(dev)'
  BY <1>3, <1>6 DEF Changes, Fields, Refused, Rest, Shape
<1>8. DevTypes(dev)'
  BY <1>2, <1>6, <1>7 DEF DevTypes, Statuses
<1>9. N' = N
  BY <1>4 DEF N
<1>10. Refused'
  BY <1>1, <1>3, <1>4, <1>6, <1>7, <1>9 DEF Refused
<1>11. Types'
  BY <1>1, <1>2, <1>4, <1>8 DEF Types, Cells, BlockIds
<1>12. DiskOK' /\ ResidueOK'
  <2>1. CommandCells' = CommandCells
    BY <1>4 DEF CommandCells
  <2> QED BY <1>1, <1>2, <1>4, <1>7, <2>1 DEF DiskOK, CellOK, ResidueOK
<1> QED BY <1>10, <1>11, <1>12 DEF Inv, Stages

LEMMA TakeCSWInv ==
  ASSUME Inv, TakeCSW
  PROVE  Inv'
<1>1. /\ host.st = "status" /\ dev.in.status = "VALID" /\ dev' = [dev EXCEPT !.in = Boot.in]
      /\ host' = Idle(1 - host.tag)
      /\ disk' = CASE dev.in.packet.status = "PHASE_ERROR" -> Forgotten
                   [] dev.in.packet.status = "PASSED" /\ host.op = "write" ->
                        [c \in Cells |->
                          IF c \in CommandCells
                          THEN host.sent[(c[1] - host.lba) * Packets + c[2] + 1]
                          ELSE disk[c]]
                   [] OTHER -> disk
      /\ events' = events \union {"in"}
      /\ flash' = flash /\ access' = access /\ spoilt' = spoilt /\ troubles' = troubles
  BY DEF TakeCSW
<1>2. /\ Types /\ DevTypes(dev) /\ host \in Hosts /\ DiskOK /\ ResidueOK
      /\ disk \in [Cells -> Data \union {Unknown}] /\ host.sent \in Seq(Data) /\ host.lba \in BlockIds
      /\ 1 - host.tag \in {0, 1}
  BY DEF Inv, Types, Hosts
<1>3. Answered \/ Refused
  BY <1>1 DEF Inv, Stages, Free, Asked, Reading, LastPacket, Writing
<1>4. /\ events = {} /\ Rest(dev) /\ dev.Bot_State \in {"CSW_Send", "ERROR"}
  BY <1>3 DEF Answered, Refused
<1>5. /\ host'.st = "idle" /\ host'.op = "test" /\ host'.got = 0 /\ host'.sent = <<>> /\ host' \in Hosts
  BY <1>1, <1>2, IdleLemma
<1>6. /\ Changes(dev, dev', {"in"}) /\ dev'.in.status = "NAK"
  BY <1>1, <1>2 DEF DevTypes, Shape, Changes, Fields, Boot
<1>7. /\ dev'.out = dev.out /\ dev'.Bot_State = dev.Bot_State /\ dev'.residue = dev.residue
      /\ dev'.signature = dev.signature /\ dev'.Data_Buffer = dev.Data_Buffer /\ Rest(dev)'
      /\ Shape(dev)'
  BY <1>4, <1>6 DEF Changes, Fields, Rest, Shape
<1>8. DevTypes(dev)'
  BY <1>2, <1>6, <1>7 DEF DevTypes, Statuses
<1>9. access' = "none" /\ events' = {"in"}
  BY <1>1, <1>2, <1>4 DEF Types
<1>10. Free'
  BY <1>4, <1>5, <1>6, <1>7, <1>9 DEF Free
<1>11. disk' \in [Cells -> Data \union {Unknown}] /\ \A c \in Cells : CellOK(c, flash[c])'
  <2>1. CASE Answered /\ host.op = "write"
    <3>1. /\ dev.in.packet.status = "PASSED" /\ Fits /\ Len(host.sent) = N
          /\ \A k \in 0 .. host.n - 1 : Stored(k)
      BY <2>1 DEF Answered
    <3>2. N = host.n * Packets /\ host.n \in Nat /\ host.lba \in Nat /\ Packets \in Nat \ {0}
      <4>1. host.n \in 1 .. MaxLen
        BY <3>1 DEF Fits
      <4> QED BY <1>2, <2>1, <4>1, LengthLemma, Sizes DEF BlockIds
    <3>3. disk' = [c \in Cells |->
                    IF c \in CommandCells
                    THEN host.sent[(c[1] - host.lba) * Packets + c[2] + 1] ELSE disk[c]]
      BY <1>1, <2>1, <3>1
    <3>4. ASSUME NEW c \in Cells, c \in CommandCells
          PROVE  /\ host.sent[(c[1] - host.lba) * Packets + c[2] + 1] \in Data
                 /\ flash[c] \in {host.sent[(c[1] - host.lba) * Packets + c[2] + 1], Garbage}
      <4>1. PICK k \in 0 .. host.n - 1, j \in 0 .. Packets - 1 : c = <<host.lba + k, j>>
        BY <3>4 DEF CommandCells
      <4>2. c[1] - host.lba = k /\ c[2] = j /\ k \in Nat
        BY <3>2, <4>1
      <4>3. flash[c] \in {host.sent[k * Packets + j + 1], Garbage}
        BY <3>1, <4>1 DEF Stored
      <4>4. k * Packets + j + 1 \in 1 .. Len(host.sent)
        <5>1. (host.n - 1 - k) * Packets = host.n * Packets - Packets - k * Packets
              /\ host.n - 1 - k \in Int /\ host.n - 1 - k >= 0 /\ k * Packets \in Nat
          BY <3>2, <4>2
        <5>2. (host.n - 1 - k) * Packets >= 0 /\ host.n * Packets \in Int
          BY <3>2, <5>1, MulLemma
        <5>3. /\ Len(host.sent) = host.n * Packets /\ host.n * Packets \in Int
              /\ k * Packets \in Int /\ k * Packets >= 0 /\ Packets \in Int
              /\ j \in Int /\ 0 <= j /\ j <= Packets - 1
              /\ host.n * Packets - Packets - k * Packets >= 0
          BY <3>1, <3>2, <5>1, <5>2
        <5> QED BY <5>3
      <4>5. host.sent[k * Packets + j + 1] \in Data
        BY <1>2, <4>4
      <4> QED BY <4>2, <4>3, <4>5
    <3>5. ASSUME NEW c \in Cells
          PROVE  disk'[c] \in Data \union {Unknown} /\ CellOK(c, flash[c])'
      <4>1. CASE c \in CommandCells
        BY <1>1, <3>3, <3>4, <4>1 DEF CellOK
      <4>2. CASE c \notin CommandCells
        <5>1. disk'[c] = disk[c]
          BY <3>3, <4>2
        <5>2. CellOK(c, flash[c])
          BY <1>2, <4>2 DEF DiskOK
        <5> QED BY <1>1, <1>2, <5>1, <5>2 DEF CellOK
      <4> QED BY <4>1, <4>2
    <3> QED BY <3>3, <3>5
  <2>2. CASE Refused \/ host.op # "write"
    <3>1. dev.in.packet.status \in {"PASSED", "FAILED"} /\ (Refused => dev.in.packet.status = "FAILED")
      BY <1>3 DEF Answered, Refused
    <3>2. disk' = disk
      BY <1>1, <2>2, <3>1
    <3>3. \A c \in Cells : CellOK(c, flash[c])
      BY <1>2, <2>2 DEF DiskOK, Refused, Hosts
    <3> QED BY <1>1, <1>2, <3>2, <3>3 DEF CellOK
  <2> QED BY <1>3, <2>1, <2>2
<1>12. Types'
  BY <1>1, <1>2, <1>5, <1>8, <1>9, <1>11 DEF Types, Cells, BlockIds
<1>13. DiskOK' /\ ResidueOK'
  BY <1>2, <1>7, <1>11 DEF DiskOK, ResidueOK
<1> QED BY <1>10, <1>12, <1>13 DEF Inv, Stages

-----------------------------------------------------------------------------
(* Resets and power losses: the host forgets what its WRITE would have     *)
(* overwritten, and what else it knows is still there.                     *)
LEMMA ForgottenLemma ==
  ASSUME Inv
  PROVE  /\ Forgotten \in [Cells -> Data \union {Unknown}]
         /\ \A c \in Cells : Forgotten[c] = Unknown \/ flash[c] \in {Forgotten[c], Garbage}
<1>1. disk \in [Cells -> Data \union {Unknown}] /\ DiskOK
  BY DEF Inv, Types
<1> QED BY <1>1 DEF Forgotten, DiskOK, CellOK

LEMMA ResetRest ==
  ASSUME Inv, events = {}, dev.TransferState = "IDLE"
  PROVE  Rest(dev) /\ (dev.in.status = "NAK" => dev.out.status = "VALID")
<1>1. CASE Free \/ LastPacket \/ Answered \/ Refused
  BY <1>1 DEF Free, LastPacket, Answered, Refused
<1>2. CASE Asked \/ Reading
  BY <1>2 DEF Asked, Reading, ReadStatics
<1>3. CASE Writing
  <2>1. PICK t \in 0 .. N - 1 :
          /\ WriteStatics(dev, t) /\ \E q \in 0 .. host.n - 1 : Kept(dev, t, q)
          /\ dev.out.status = "VALID" /\ Fits
    BY <1>3 DEF Writing
  <2>2. PICK q \in 0 .. host.n - 1 : t = q * Packets + dev.Counter
    BY <2>1 DEF Kept
  <2>3. t = 0
    BY <2>1 DEF WriteStatics
  <2>4. dev.Counter = 0
    <3>1. q * Packets \in Int /\ q * Packets >= 0
      BY Sizes, MulLemma, <2>1, <2>2 DEF Fits
    <3>2. dev.Counter \in Int /\ dev.Counter >= 0
      BY <2>1, Sizes DEF WriteStatics
    <3>3. q * Packets + dev.Counter = 0
      BY <2>2, <2>3
    <3> QED BY <3>1, <3>2, <3>3
  <2> QED BY <2>1, <2>3, <2>4 DEF WriteStatics, Rest
<1> QED BY <1>1, <1>2, <1>3 DEF Inv, Stages

LEMMA ResetInv ==
  ASSUME AnyReset = FALSE, Inv, Reset
  PROVE  Inv'
<1>1. /\ events = {} /\ access = "none" /\ dev.TransferState = "IDLE"
      /\ dev' = Joystick_Reset \/ (dev.in.status = "NAK" /\ dev' = MASS_STORAGE_RESET)
      /\ host' = Idle(1 - host.tag) /\ disk' = Forgotten
      /\ events' = events /\ flash' = flash /\ access' = access /\ spoilt' = spoilt
      /\ troubles' \in 0 .. MaxTroubles
  <2>1. troubles \in 0 .. MaxTroubles /\ MaxTroubles \in Nat
    BY SizesAssumption DEF Inv, Types
  <2> QED BY <2>1 DEF Reset, Trouble
<1>2. Types /\ DevTypes(dev) /\ Shape(dev) /\ host \in Hosts /\ ResidueOK
  BY DEF Inv, Types, DevTypes
<1>3. Rest(dev) /\ (dev.in.status = "NAK" => dev.out.status = "VALID")
  BY <1>1, ResetRest
<1>4. /\ Changes(dev, dev', {"in", "out", "Bot_State", "signature"})
      /\ dev'.in.status = "NAK" /\ dev'.out.status = "VALID" /\ dev'.Bot_State = "IDLE"
      /\ dev'.signature = TRUE
  <2>1. CASE dev' = Joystick_Reset
    BY <1>2, <2>1 DEF Joystick_Reset, Shape, Changes, Fields
  <2>2. CASE dev.in.status = "NAK" /\ dev' = MASS_STORAGE_RESET
    <3> DEFINE d == [dev EXCEPT !.Bot_State = "IDLE", !.signature = TRUE]
    <3>1. /\ Changes(dev, d, {"Bot_State", "signature"})
          /\ d.Bot_State = "IDLE" /\ d.signature = TRUE
      BY <1>2 DEF Shape, Changes, Fields
    <3>2. MASS_STORAGE_RESET = ClearFeature(ClearFeature(d, "in"), "out")
      BY DEF MASS_STORAGE_RESET
    <3> HIDE DEF d
    <3>3. d.in = dev.in /\ d.out = dev.out
      BY <3>1 DEF Changes, Fields
    <3>4. d["in"].status = "NAK" /\ d["out"].status = "VALID"
      BY <1>3, <2>2, <3>3
    <3>5. ClearFeature(d, "in") = d /\ ClearFeature(d, "out") = d
      BY <3>1, <3>4 DEF ClearFeature
    <3>6. dev' = d
      BY <2>2, <3>2, <3>5
    <3> QED BY <1>3, <2>2, <3>1, <3>3, <3>6 DEF Changes, Fields
  <2> QED BY <1>1, <2>1, <2>2
<1>5. /\ dev'.residue = dev.residue /\ dev'.Data_Buffer = dev.Data_Buffer /\ Rest(dev)'
      /\ Shape(dev)'
  BY <1>3, <1>4 DEF Changes, Fields, Rest, Shape
<1>6. /\ host'.st = "idle" /\ host'.op = "test" /\ host'.got = 0 /\ host'.sent = <<>> /\ host' \in Hosts
  <2>1. 1 - host.tag \in {0, 1}
    BY <1>2 DEF Hosts
  <2> QED BY <1>1, <1>2, <2>1, IdleLemma
<1>7. DevTypes(dev)'
  BY <1>2, <1>4, <1>5 DEF DevTypes, Statuses
<1>8. Free'
  BY <1>1, <1>4, <1>5, <1>6 DEF Free
<1>9. Types'
  BY <1>1, <1>2, <1>6, <1>7, ForgottenLemma DEF Types, Cells, BlockIds
<1>10. DiskOK' /\ ResidueOK'
  BY <1>1, <1>2, <1>5, ForgottenLemma DEF DiskOK, ResidueOK, CellOK, Cells, BlockIds
<1> QED BY <1>8, <1>9, <1>10 DEF Inv, Stages

LEMMA PowerLossInv ==
  ASSUME Inv, PowerLoss
  PROVE  Inv'
<1>1. /\ dev' = Boot /\ events' = {} /\ access' = "none" /\ spoilt' = FALSE
      /\ host' = Idle(1 - host.tag) /\ disk' = Forgotten /\ troubles' \in 0 .. MaxTroubles
  <2>1. troubles \in 0 .. MaxTroubles /\ MaxTroubles \in Nat
    BY SizesAssumption DEF Inv, Types
  <2> QED BY <2>1 DEF PowerLoss, Trouble
<1>2. host \in Hosts /\ flash \in [Cells -> Data \union {Garbage}]
  BY DEF Inv, Types
<1>3. /\ flash' \in [Cells -> Data \union {Garbage}]
      /\ \A c \in Cells : flash'[c] \in {flash[c], Garbage}
  <2>1. PICK G \in SUBSET Cells : flash' = [c \in Cells |-> IF c \in G THEN Garbage ELSE flash[c]]
    BY DEF PowerLoss
  <2> QED BY <1>2, <2>1
<1>4. /\ host'.st = "idle" /\ host'.op = "test" /\ host'.got = 0 /\ host'.sent = <<>> /\ host' \in Hosts
  <2>1. 1 - host.tag \in {0, 1}
    BY <1>2 DEF Hosts
  <2> QED BY <1>1, <1>2, <2>1, IdleLemma
<1>5. /\ DevTypes(dev)' /\ Rest(dev)' /\ dev'.in.status = "NAK" /\ dev'.out.status = "VALID"
      /\ dev'.Bot_State = "IDLE" /\ dev'.residue = 0
  <2>1. DevTypes(Boot) /\ Rest(Boot)
    BY BootLemma
  <2>2. DevTypes(dev)' /\ Rest(dev)'
    BY <1>1, <2>1 DEF DevTypes, Rest, Shape
  <2> QED BY <1>1, <2>2, BootLemma
<1>6. Free'
  BY <1>1, <1>4, <1>5 DEF Free
<1>7. Types'
  BY <1>1, <1>3, <1>4, <1>5, ForgottenLemma DEF Types, Cells, BlockIds
<1>8. DiskOK'
  BY <1>1, <1>3, ForgottenLemma DEF DiskOK, CellOK, Cells, BlockIds
<1>9. ResidueOK'
  <2>1. 0 \in 0 .. MaxLen * Packets
    BY Sizes
  <2> QED BY <1>5, <2>1 DEF ResidueOK
<1> QED BY <1>6, <1>7, <1>8, <1>9 DEF Inv, Stages

LEMMA InitInv ==
  ASSUME Init
  PROVE  Inv
<1>1. /\ dev = Boot /\ events = {} /\ flash \in [Cells -> Data] /\ disk = flash
      /\ access = "none" /\ spoilt = FALSE /\ host = Idle(0) /\ troubles = 0
  BY DEF Init
<1>2. /\ host \in Hosts /\ host.st = "idle" /\ host.op = "test" /\ host.got = 0 /\ host.sent = <<>>
  <2>1. 0 \in BlockIds /\ 0 \in 0 .. MaxLen /\ <<>> \in Seq(Data) /\ 0 \in Nat /\ "test" \in Ops
    BY Sizes DEF BlockIds, Ops
  <2> QED BY <1>1, <2>1 DEF Idle, Hosts
<1>3. /\ DevTypes(dev) /\ Rest(dev) /\ dev.in.status = "NAK" /\ dev.out.status = "VALID"
      /\ dev.Bot_State = "IDLE" /\ dev.residue = 0
  BY <1>1, BootLemma
<1>4. Free
  BY <1>1, <1>2, <1>3 DEF Free
<1>5. 0 \in 0 .. MaxTroubles /\ 0 \in 0 .. MaxLen * Packets
  BY Sizes, SizesAssumption
<1>6. Types /\ DiskOK /\ ResidueOK
  BY <1>1, <1>2, <1>3, <1>5 DEF Types, DiskOK, CellOK, ResidueOK
<1> QED BY <1>4, <1>6 DEF Inv, Stages

LEMMA StutterInv ==
  ASSUME Inv, UNCHANGED vars
  PROVE  Inv'
<1>1. /\ dev' = dev /\ events' = events /\ flash' = flash /\ access' = access /\ spoilt' = spoilt
      /\ host' = host /\ disk' = disk /\ troubles' = troubles
  BY DEF vars
<1>2. (Reads <=> Reads') /\ (Writes <=> Writes')
  BY <1>1 DEF Reads, Writes, Ep, Decoded, OutOfRange, BlockIsFull, Taken, Started
<1>3. Types' /\ ResidueOK' /\ DiskOK'
  BY <1>1, <1>2 DEF Inv, Types, DevTypes, Shape, ResidueOK, DiskOK, CellOK, CommandCells
<1>4. N' = N /\ TheCbw' = TheCbw /\ Fits' = Fits
  BY <1>1 DEF N, TheCbw, Fits
<1>5. /\ Free => Free'
      /\ Asked => Asked'
      /\ LastPacket => LastPacket'
      /\ Refused => Refused'
  BY <1>1, <1>4 DEF Free, Asked, LastPacket, Refused, Rest, CellOK
<1>6. Reading => Reading'
  BY <1>1, <1>4 DEF Reading, ReadStatics, Held, CellOK
<1>7. Writing => Writing'
  BY <1>1, <1>4 DEF Writing, WriteStatics, Kept, Stored
<1>8. Answered => Answered'
  BY <1>1, <1>4 DEF Answered, Rest, Stored
<1> QED BY <1>3, <1>5, <1>6, <1>7, <1>8 DEF Inv, Stages

-----------------------------------------------------------------------------
(* The inductive invariant: at any moment the command is in one of the     *)
(* seven stages, whatever commands, disturbances, idle resets and power    *)
(* losses there were before.                                               *)
THEOREM Invariance ==
  ASSUME AnyReset = FALSE
  PROVE  Spec => []Inv
<1>1. Inv /\ [Next]_vars => Inv'
  <2> SUFFICES ASSUME Inv, [Next]_vars PROVE Inv'
    OBVIOUS
  <2>1. CASE Device
    BY <2>1, HandleInv, AccessInv, ReadBlockInv, WriteBlockInv DEF Device
  <2>2. CASE Host
    BY <2>2, SendDataInv, TakeDataInv, TakeCSWInv, ClearHaltInv DEF Host
  <2>3. CASE SendCBW \/ FlashRead \/ Reset \/ PowerLoss
    BY <2>3, SendCBWInv, FlashReadInv, ResetInv, PowerLossInv
  <2>4. CASE UNCHANGED vars
    BY <2>4, StutterInv
  <2> QED BY <2>1, <2>2, <2>3, <2>4 DEF Next
<1>2. Init => Inv
  BY InitInv
<1> QED BY <1>1, <1>2, PTL DEF Spec

(* Types: no length or count of Read_Memory and Write_Memory underflows,   *)
(* no offset of theirs leaves the disk, no index the block buffer.         *)
THEOREM TypesHold ==
  ASSUME AnyReset = FALSE
  PROVE  Spec => []TypeOK
<1>1. Inv => TypeOK
  <2> SUFFICES ASSUME Inv PROVE TypeOK
    OBVIOUS
  <2>1. /\ Types /\ DevTypes(dev) /\ ResidueOK /\ host \in Hosts
    BY DEF Inv, Types
  <2>2. {0, Packets} \subseteq 0 .. Packets /\ 0 \in 0 .. MaxLen * Packets /\ 0 \in 0 .. Blocks * Packets - 1
        /\ Packets \in Nat /\ MaxLen * Packets \in Nat /\ Blocks * Packets \in Nat
    BY Sizes
  <2> DEFINE Counts ==
        /\ dev.Bot_State \in {"IDLE", "DATA_OUT", "DATA_IN", "DATA_IN_LAST", "CSW_Send", "ERROR"}
        /\ dev.TransferState \in {"IDLE", "ONGOING"}
        /\ {dev.Length, dev.W_Length} \subseteq 0 .. MaxLen * Packets
        /\ {dev.Offset, dev.W_Offset} \subseteq 0 .. Blocks * Packets - 1
        /\ {dev.Block_Read_count, dev.Block_offset, dev.Counter} \subseteq 0 .. Packets
  <2>3. ASSUME NEW t \in Nat, t < N, Fits
        PROVE  N - t \in 0 .. MaxLen * Packets /\ host.lba * Packets + t \in 0 .. Blocks * Packets - 1
    <3>1. N \in 1 .. MaxLen * Packets /\ host.lba * Packets \in Nat
          /\ host.lba * Packets + N <= Blocks * Packets
      BY <2>1, <2>3, FitsLemma
    <3> HIDE DEF N
    <3> QED BY <2>2, <2>3, <3>1
  <2>4. ASSUME Free \/ Asked \/ LastPacket \/ Answered \/ Refused
        PROVE  Counts
    <3>1. Rest(dev) /\ dev.Bot_State \in {"IDLE", "DATA_IN_LAST", "CSW_Send", "ERROR"}
      BY <2>4 DEF Free, Asked, LastPacket, Answered, Refused
    <3> QED BY <2>2, <3>1 DEF Rest
  <2>5. ASSUME Reading
        PROVE  Counts
    <3>1. PICK t \in 1 .. N - 1 : ReadStatics(dev, t) /\ dev.Bot_State = "DATA_IN" /\ Fits
      BY <2>5 DEF Reading
    <3>2. N \in Int
      BY <2>1, <3>1, LengthLemma, Sizes DEF Fits
    <3>3. t \in Nat /\ t < N
      BY <3>2
    <3>4. N - t \in 0 .. MaxLen * Packets /\ host.lba * Packets + t \in 0 .. Blocks * Packets - 1
      BY <2>3, <3>1, <3>3
    <3>5. dev.Block_offset \in 0 .. Packets /\ Packets - dev.Block_offset \in 0 .. Packets
      BY <2>2, <3>1 DEF ReadStatics
    <3> QED BY <2>2, <3>1, <3>4, <3>5 DEF ReadStatics
  <2>6. ASSUME Writing
        PROVE  Counts
    <3>1. PICK t \in 0 .. N - 1 : WriteStatics(dev, t) /\ dev.Bot_State = "DATA_OUT" /\ Fits
      BY <2>6 DEF Writing
    <3>2. N \in Int
      BY <2>1, <3>1, LengthLemma, Sizes DEF Fits
    <3>3. t \in Nat /\ t < N
      BY <3>2
    <3>4. N - t \in 0 .. MaxLen * Packets /\ host.lba * Packets + t \in 0 .. Blocks * Packets - 1
      BY <2>3, <3>1, <3>3
    <3>5. dev.Counter \in 0 .. Packets
      BY <2>2, <3>1 DEF WriteStatics
    <3> QED BY <2>2, <3>1, <3>4, <3>5 DEF WriteStatics
  <2>7. Counts
    BY <2>4, <2>5, <2>6 DEF Inv, Stages
  <2> QED BY <2>1, <2>7 DEF TypeOK, Types, DevTypes, ResidueOK, Hosts
<1> QED BY <1>1, Invariance, PTL

(* The host finds in the endpoint what it waits for.                       *)
THEOREM HostGetsItsAnswer ==
  ASSUME AnyReset = FALSE
  PROVE  Spec => []OneAnswer
<1>1. Inv => OneAnswer
  <2> SUFFICES ASSUME Inv, dev.in.status = "VALID" PROVE OneAnswer
    BY DEF OneAnswer
  <2>1. Reading \/ LastPacket \/ Answered \/ Refused
    BY DEF Inv, Stages, Free, Asked, Writing
  <2>2. CASE Reading
    BY <2>2 DEF Reading, OneAnswer
  <2>3. CASE LastPacket
    BY <2>3 DEF LastPacket, OneAnswer
  <2>4. CASE Answered
    BY <2>4 DEF Answered, OneAnswer, N
  <2>5. CASE Refused
    <3>1. host.st = "status"
      BY <2>5 DEF Refused
    <3> QED BY <2>5, <3>1 DEF Refused, OneAnswer, N
  <2> QED BY <2>1, <2>2, <2>3, <2>4, <2>5
<1> QED BY <1>1, Invariance, PTL

(* What a WRITE that was reported done has put on the disk stays there     *)
(* until the next WRITE to that place, or a disturbance spoils it.         *)
THEOREM DiskKeepsWrites ==
  ASSUME AnyReset = FALSE
  PROVE  Spec => []DiskIsWhatHostWrote
<1>1. Inv => DiskIsWhatHostWrote
  BY DEF Inv, DiskOK, CellOK, DiskIsWhatHostWrote
<1> QED BY <1>1, Invariance, PTL

(* A READ hands over the packet that it was asked for.                     *)
THEOREM ReadsGetTheirPackets ==
  ASSUME AnyReset = FALSE
  PROVE  Spec => []ReadsAreRight
<1>1. Inv => ReadsAreRight
  <2> SUFFICES ASSUME Inv, host.st = "in", host.op = "read", dev.in.status = "VALID"
               PROVE  LET c == <<host.lba + host.got \div Packets, host.got % Packets>>
                      IN  /\ dev.in.packet.kind = "data"
                          /\ disk[c] = Unknown \/ dev.in.packet.v \in {disk[c], Garbage}
    BY DEF ReadsAreRight
  <2>1. Reading \/ LastPacket
    BY DEF Inv, Stages, Free, Asked, Writing, Answered, Refused
  <2>2. Packets \in Nat \ {0} /\ host \in Hosts /\ host.lba \in Nat /\ host.got \in Nat
    BY Sizes DEF Inv, Types, Hosts, BlockIds
  <2>3. \E q \in Int, r \in 0 .. Packets - 1 :
          /\ host.got = q * Packets + r
          /\ CellOK(<<host.lba + q, r>>, dev.in.packet.v)
    <3>1. CASE Reading
      <4>1. PICK q \in 0 .. host.n - 1 : Held(dev, host.got + 1, q)
        BY <3>1 DEF Reading
      <4>2. dev.Block_offset \in 1 .. Packets
        BY <3>1 DEF Reading, ReadStatics
      <4>3. host.got + 1 = q * Packets + dev.Block_offset
            /\ CellOK(<<host.lba + q, dev.Block_offset - 1>>, dev.in.packet.v)
        BY <4>1 DEF Held
      <4>4. q \in Int /\ dev.Block_offset - 1 \in 0 .. Packets - 1
        BY <2>2, <3>1, <4>2, Sizes DEF Reading, Fits
      <4>5. host.got = q * Packets + (dev.Block_offset - 1)
        <5>1. q * Packets \in Int /\ dev.Block_offset \in Int
          BY <2>2, <4>2, <4>4
        <5> QED BY <2>2, <4>3, <5>1
      <4> QED BY <4>3, <4>4, <4>5
    <3>2. CASE LastPacket
      <4>1. /\ host.got + 1 = N /\ Fits
            /\ CellOK(<<host.lba + host.n - 1, Packets - 1>>, dev.in.packet.v)
        BY <3>2 DEF LastPacket
      <4>2. host.n \in 1 .. MaxLen
        BY <4>1 DEF Fits
      <4>3. host.n \in Nat /\ N = host.n * Packets
        BY <2>2, <4>2, LengthLemma, Sizes
      <4>4. host.got = (host.n - 1) * Packets + (Packets - 1)
        <5>1. (host.n - 1) * Packets = host.n * Packets - Packets /\ host.n * Packets \in Int
          BY <2>2, <4>3
        <5>2. host.got + 1 = host.n * Packets
          BY <4>1, <4>3
        <5> QED BY <2>2, <5>1, <5>2
      <4>5. host.n - 1 \in Int /\ Packets - 1 \in 0 .. Packets - 1
            /\ host.lba + host.n - 1 = host.lba + (host.n - 1)
        BY <2>2, <4>3
      <4> QED BY <4>1, <4>4, <4>5
    <3> QED BY <2>1, <3>1, <3>2
  <2>4. PICK q \in Int, r \in 0 .. Packets - 1 :
          /\ host.got = q * Packets + r
          /\ CellOK(<<host.lba + q, r>>, dev.in.packet.v)
    BY <2>3
  <2>5. host.got \div Packets = q /\ host.got % Packets = r
    BY <2>2, <2>4, DivLemma
  <2>6. dev.in.packet.kind = "data"
    BY <2>1 DEF Reading, LastPacket
  <2> QED BY <2>4, <2>5, <2>6 DEF CellOK
<1> QED BY <1>1, Invariance, PTL
=============================================================================
