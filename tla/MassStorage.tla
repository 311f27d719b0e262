---------------------------- MODULE MassStorage ----------------------------
(***************************************************************************)
(* The USB disk of the slave (src/slave2/USB/CONFIG: usb_bot.c, usb_scsi.c,*)
(* memory.c, mass_mal.c, usb_prop.c): bulk-only transport over two         *)
(* endpoints, IN (ENDP3) and OUT (ENDP4), to a host that reads and writes  *)
(* blocks, and the SPI flash behind it.                                    *)
(*                                                                         *)
(* The device runs in the USB interrupt handler: a packet that the host    *)
(* sends or takes is an event, handled later.  A handler that works on the *)
(* flash takes two steps, since the interrupt of the serial line, of a     *)
(* higher priority, may come in between and use the same chip.             *)
(*                                                                         *)
(* A block is a sequence of packets of 64 bytes, and a packet one value.   *)
(* Lengths and offsets count packets; the 32 bits of a length are LenMod.  *)
(***************************************************************************)
EXTENDS Integers, Sequences

CONSTANTS Blocks,    \* Mass_Block_Count: the blocks of the disk
          Packets,   \* Mass_Block_Size / BULK_MAX_PACKET_SIZE
          SectorLen, \* the blocks of an erase sector of the flash
          MaxLen,    \* bound on the blocks of a command
          LenMod,    \* 2^32 / BULK_MAX_PACKET_SIZE
          Data,      \* what a packet of the host may hold
          Garbage,   \* what a disturbed transfer leaves
          Unknown,   \* the host does not know the content
          MaxTroubles, \* bound on the disturbances, resets and power losses
          AnyReset   \* a reset may find a transfer under way

ASSUME SizesAssumption ==
       /\ {Blocks, Packets, SectorLen, MaxLen} \subseteq Nat \ {0}
       /\ MaxTroubles \in Nat
       /\ LenMod \in Nat /\ LenMod % Packets = 0 /\ LenMod > MaxLen * Packets
       /\ AnyReset \in BOOLEAN
       /\ {Garbage, Unknown} \intersect Data = {} /\ Garbage # Unknown

BlockIds == 0 .. Blocks - 1
Cells    == BlockIds \X (0 .. Packets - 1)
Sector(b) == {c \in BlockIds : c \div SectorLen = b \div SectorLen}

VARIABLES dev,     \* the device's memory and its two endpoints, a record
          events,  \* the endpoints whose transfer is not handled yet
          flash,   \* the content of the chip
          access,  \* the flash operation the handler is in
          spoilt,  \* the serial interrupt has used the chip during it
          host,    \* the command the host is in, a record
          disk,    \* what the host knows the blocks to hold
          troubles \* the disturbances, resets and power losses so far
vars == <<dev, events, flash, access, spoilt, host, disk, troubles>>

(* These are what MaxTroubles bounds.                                      *)
Trouble == troubles < MaxTroubles /\ troubles' = troubles + 1

(* The commands, by how they move data: "inquiry" stands for all that      *)
(* answer with a packet, "test" for those with a status alone, "invalid"   *)
(* for those it only refuses, "bad" for those it does not know.            *)
Ops == {"read", "write", "inquiry", "test", "invalid", "bad"}
Cbw(op, lba, n, tag) == [kind |-> "cbw", op |-> op, lba |-> lba, n |-> n,
                         tag |-> tag]
DataPacket(v) == [kind |-> "data", v |-> v]
NoPacket == [kind |-> "none"]

(* The packets of data that a command asks for: CBW.dDataLength.           *)
DataLength(op, n) == CASE op \in {"read", "write"} -> n * Packets
                       [] op = "inquiry"           -> 1
                       [] OTHER                    -> 0

-----------------------------------------------------------------------------
(* The functions of the device, from its record d to its record after.     *)

(* SetEPTxStatus and SetEPRxStatus.                                        *)
SetIn(d, status)  == [d EXCEPT !.in.status = status]
SetOut(d, status) == [d EXCEPT !.out.status = status]

Bot_Abort(d, dir) ==
  LET i == IF dir # "OUT" THEN SetIn(d, "STALL") ELSE d
  IN  IF dir # "IN" THEN SetOut(i, "STALL") ELSE i

(* The CSW is written to the buffer of the endpoint either way, and sent   *)
(* at once only with the permission.                                       *)
Set_CSW(d, status, send) ==
  LET w == [d EXCEPT !.in.packet = [kind |-> "csw", tag |-> d.cbw.tag,
                                    status |-> status,
                                    residue |-> d.residue],
                     !.Bot_State = IF send THEN "CSW_Send" ELSE "ERROR"]
  IN  IF send THEN SetIn(w, "VALID") ELSE w

Fail(d, dir, status) == Set_CSW(Bot_Abort(d, dir), status, FALSE)

(* Transfer_Data_Request, with the answer to an INQUIRY.                   *)
Transfer_Data_Request(d) ==
  [SetIn(d, "VALID") EXCEPT !.in.packet = DataPacket("info"),
                            !.Bot_State = "DATA_IN_LAST",
                            !.residue = (@ - 1) % LenMod]

(* What a transfer starts with, if none is under way.                      *)
Started(d, off, len) ==
  IF d.TransferState = "IDLE"
  THEN [d EXCEPT ![off] = d.cbw.lba * Packets, ![len] = d.cbw.n * Packets,
                 !.TransferState = "ONGOING"]
  ELSE d

(* The block at an offset: the chip ignores the address bits beyond it.    *)
BlockAt(offset) == (offset \div Packets) % Blocks

(* The next packet of a READ; content is what MAL_Read gives, if a new     *)
(* block begins.                                                           *)
PacketSent(d, content) ==
  LET s    == Started(d, "Offset", "Length")
      load == s.Block_Read_count = 0
      buf  == IF load THEN content ELSE s.Data_Buffer
      at   == IF load THEN 0 ELSE s.Block_offset
  IN  [SetIn(s, "VALID") EXCEPT
         !.in.packet = DataPacket(buf[at]),
         !.Data_Buffer = buf,
         !.Block_Read_count = (IF load THEN Packets ELSE @) - 1,
         !.Block_offset = at + 1,
         !.Offset = (@ + 1) % (Blocks * Packets),
         !.Length = (@ - 1) % LenMod,
         !.residue = (@ - 1) % LenMod]

(* Mutant: a READ that is done leaves TransferState ongoing.               *)
Read_MemoryNoIdle(d, content) ==
  LET s == PacketSent(d, content)
  IN  IF s.Length = 0 THEN [s EXCEPT !.Offset = 0, !.Bot_State = "DATA_IN_LAST"]
                      ELSE s

Read_Memory(d, content) ==
  LET s == PacketSent(d, content)
  IN  IF s.Length = 0
      THEN [s EXCEPT !.Block_Read_count = 0, !.Block_offset = 0, !.Offset = 0,
                     !.Bot_State = "DATA_IN_LAST", !.TransferState = "IDLE"]
      ELSE s

(* The packet that has come joins the block in Data_Buffer.                *)
Taken(d) ==
  LET s == Started(d, "W_Offset", "W_Length")
  IN  [s EXCEPT !.Data_Buffer = [@ EXCEPT ![s.Counter] = d.out.packet.v],
                !.Counter = @ + 1,
                !.W_Offset = (@ + 1) % (Blocks * Packets),
                !.W_Length = (@ - 1) % LenMod]

(* MAL_Write is called for a whole block.                                  *)
BlockIsFull(d) == Taken(d).W_Length % Packets = 0

(* Mutant: the next block goes behind the last one in the buffer.          *)
PacketStoredNoRewind(d) ==
  [SetOut(Taken(d), "VALID") EXCEPT !.residue = (@ - 1) % LenMod]

PacketStored(d) ==
  [SetOut(Taken(d), "VALID") EXCEPT !.residue = (@ - 1) % LenMod,
                                    !.Counter = IF BlockIsFull(d) THEN 0 ELSE @]

(* Mutant: a WRITE that is done leaves TransferState ongoing.              *)
Write_MemoryNoIdle(d) ==
  LET s == PacketStored(d)
  IN  IF s.W_Length = 0 THEN Set_CSW(s, "PASSED", TRUE) ELSE s

Write_Memory(d) ==
  LET s == PacketStored(d)
  IN  IF s.W_Length = 0
      THEN [Set_CSW(s, "PASSED", TRUE) EXCEPT !.Counter = 0,
                                              !.TransferState = "IDLE"]
      ELSE s

(* SCSI_Address_Management: beyond the end of the disk.                    *)
OutOfRange(d) == d.cbw.lba + d.cbw.n > Blocks

(* SCSI_Read10_Cmd and SCSI_Write10_Cmd of a new command.                  *)
SCSI_Read10_Cmd(d, content) ==
  IF OutOfRange(d)
  THEN Fail(d, "IN", "FAILED")
  ELSE Read_Memory([d EXCEPT !.Bot_State = "DATA_IN"], content)

SCSI_Write10_Cmd(d) ==
  IF OutOfRange(d)
  THEN Fail(d, "BOTH", "FAILED")
  ELSE SetOut([d EXCEPT !.Bot_State = "DATA_OUT"], "VALID")

(* Of a command without data.                                              *)
SCSI_Invalid_Cmd(d) == Fail(d, "IN", "FAILED")

CBW_Decode(d, content) ==
  LET p == d.out.packet
      c == [d EXCEPT !.cbw = p, !.residue = DataLength(p.op, p.n),
                     !.signature = TRUE]
      j == [d EXCEPT !.cbw = Cbw("bad", 0, 0, 2), !.residue = 0,
                     !.signature = FALSE]
  IN  CASE p.kind # "cbw"   -> Fail(j, "BOTH", "FAILED")
        [] p.op = "read"    -> SCSI_Read10_Cmd(c, content)
        [] p.op = "write"   -> SCSI_Write10_Cmd(c)
        [] p.op = "inquiry" -> Transfer_Data_Request(c)
        [] p.op = "test"    -> Set_CSW(c, "PASSED", TRUE)
        [] p.op = "invalid" -> SCSI_Invalid_Cmd(c)
        [] p.op = "bad"     -> Fail(c, "BOTH", "FAILED")

(* EP4_OUT_Callback and EP3_IN_Callback.                                   *)
Mass_Storage_Out(d, content) ==
  CASE d.Bot_State = "IDLE"     -> CBW_Decode(d, content)
    [] d.Bot_State = "DATA_OUT" -> Write_Memory(d)
    [] OTHER                    -> Fail(d, "BOTH", "PHASE_ERROR")

Mass_Storage_In(d, content) ==
  CASE d.Bot_State \in {"CSW_Send", "ERROR"} ->
         SetOut([d EXCEPT !.Bot_State = "IDLE"], "VALID")
    [] d.Bot_State = "DATA_IN"      -> Read_Memory(d, content)
    [] d.Bot_State = "DATA_IN_LAST" -> SetOut(Set_CSW(d, "PASSED", TRUE), "VALID")
    [] OTHER                        -> d

(* Mutant: a stalled endpoint stays stalled.                               *)
ClearFeatureNever(d, ep) == IF d.signature THEN d ELSE Bot_Abort(d, "BOTH")

(* Joystick_ClearFeature comes after Standard_ClearFeature, which makes a  *)
(* stalled endpoint ready again.                                           *)
ClearFeature(d, ep) ==
  LET c == IF d[ep].status = "STALL" THEN [d EXCEPT ![ep].status = "VALID"]
                                     ELSE d
  IN  IF d.signature THEN c ELSE Bot_Abort(c, "BOTH")

(* The memory after a reset of the processor.                              *)
Boot == [cbw |-> NoPacket, signature |-> TRUE, residue |-> 0,
         Bot_State |-> "IDLE", TransferState |-> "IDLE",
         Offset |-> 0, Length |-> 0, W_Offset |-> 0, W_Length |-> 0,
         Block_Read_count |-> 0, Block_offset |-> 0, Counter |-> 0,
         Data_Buffer |-> [i \in 0 .. Packets - 1 |-> Unknown],
         in  |-> [status |-> "NAK", packet |-> NoPacket],
         out |-> [status |-> "VALID", packet |-> NoPacket]]

Idle(tag) == [st |-> "idle", op |-> "test", lba |-> 0, n |-> 0, tag |-> tag,
              got |-> 0, sent |-> <<>>]

Init ==
  /\ dev = Boot
  /\ events = {}
  /\ flash \in [Cells -> Data] /\ disk = flash
  /\ access = "none" /\ spoilt = FALSE
  /\ host = Idle(0)
  /\ troubles = 0

-----------------------------------------------------------------------------
(* The device.                                                             *)

(* Mutant: the OUT endpoint is served before the IN endpoint.              *)
EpOutFirst == IF "out" \in events THEN "out" ELSE "in"

(* CTR_LP takes the event of the endpoint of the lower number.             *)
Ep == IF "in" \in events THEN "in" ELSE "out"

(* The command that the handler works for.                                 *)
Decoded == IF dev.Bot_State = "IDLE" THEN [dev EXCEPT !.cbw = dev.out.packet]
                                     ELSE dev

(* The handler will call MAL_Read, or MAL_Write.                           *)
Reads ==
  /\ dev.Block_Read_count = 0
  /\ \/ Ep = "in" /\ dev.Bot_State = "DATA_IN"
     \/ /\ Ep = "out" /\ dev.Bot_State = "IDLE"
        /\ Decoded.cbw.kind = "cbw" /\ Decoded.cbw.op = "read"
        /\ ~OutOfRange(Decoded)
Writes == Ep = "out" /\ dev.Bot_State = "DATA_OUT" /\ BlockIsFull(dev)

(* What nobody reads before it is written again is forgotten, which keeps  *)
(* only the states apart that differ in what follows: a packet that is     *)
(* handled, a buffer that is sent or stored, the last command of a device  *)
(* that is idle, the offset of the last WRITE (not with AnyReset, where a  *)
(* transfer that is broken off makes it matter again).                     *)
Settled(d) ==
  LET i == IF d.in.status = "NAK" THEN [d EXCEPT !.in.packet = NoPacket] ELSE d
      b == IF d.Block_Read_count = 0 /\ d.Counter = 0
           THEN [i EXCEPT !.Data_Buffer = Boot.Data_Buffer] ELSE i
      o == IF d.TransferState = "IDLE" /\ ~AnyReset
           THEN [b EXCEPT !.W_Offset = 0] ELSE b
  IN  IF d.Bot_State = "IDLE" THEN [o EXCEPT !.cbw = NoPacket, !.residue = 0]
                              ELSE o

Handler(content) ==
  Settled(IF Ep = "in"
          THEN Mass_Storage_In(dev, content)
          ELSE [Mass_Storage_Out(dev, content) EXCEPT !.out.packet = NoPacket])

Handle ==
  /\ events # {} /\ access = "none" /\ ~Reads /\ ~Writes
  /\ dev' = Handler(Boot.Data_Buffer)
  /\ events' = events \ {Ep}
  /\ UNCHANGED <<flash, access, spoilt, host, disk, troubles>>

(* The handler begins to work on the flash.                                *)
Access ==
  /\ events # {} /\ access = "none" /\ (Reads \/ Writes)
  /\ access' = IF Reads THEN "read" ELSE "write"
  /\ UNCHANGED <<dev, events, flash, spoilt, host, disk, troubles>>

Done == events' = events \ {Ep} /\ access' = "none" /\ spoilt' = FALSE

(* SPI_Flash_Read: the bytes after the disturbance are not the block's.    *)
ReadBlock ==
  /\ access = "read"
  /\ LET b == BlockAt(Started(Decoded, "Offset", "Length").Offset)
     IN  \E G \in SUBSET (0 .. Packets - 1) :
           /\ (spoilt \/ G = {})
           /\ dev' = Handler([i \in 0 .. Packets - 1 |->
                                IF i \in G THEN Garbage ELSE flash[b, i]])
  /\ Done
  /\ UNCHANGED <<flash, host, disk, troubles>>

(* SPI_Flash_Write: the sector is read, erased and written again.  A       *)
(* disturbance makes any of it wrong, or sends a page to another address.  *)
WriteBlock ==
  /\ access = "write"
  /\ LET t == Taken(dev)
         b == BlockAt(t.W_Offset - Packets)
     IN  \E G \in SUBSET Cells :
           /\ (spoilt \/ G = {})
           /\ flash' = [c \in Cells |-> IF c \in G THEN Garbage
                                       ELSE IF c[1] = b THEN t.Data_Buffer[c[2]]
                                       ELSE flash[c]]
  /\ dev' = Handler(Boot.Data_Buffer)
  /\ Done
  /\ UNCHANGED <<host, disk, troubles>>

(* A FLASH_READ frame from the master: the interrupt of the serial line    *)
(* preempts the USB handler, and reads the chip.                           *)
FlashRead ==
  /\ Trouble
  /\ access # "none" /\ ~spoilt
  /\ spoilt' = TRUE
  /\ UNCHANGED <<dev, events, flash, access, host, disk>>

-----------------------------------------------------------------------------
(* The host.                                                               *)
CommandCells == {host.lba + i : i \in 0 .. host.n - 1} \X (0 .. Packets - 1)

(* The host gives up its command: of a WRITE it does not know what is done.*)
Forgotten == [c \in Cells |->
               IF host.op = "write" /\ c \in CommandCells THEN Unknown
                                                         ELSE disk[c]]

SendCBW ==
  /\ host.st = "idle" /\ dev.out.status = "VALID"
  /\ \E op \in Ops, lba \in BlockIds, n \in 1 .. MaxLen :
       /\ op \in {"read", "write"} \/ (lba = 0 /\ n = 1)
       /\ dev' = [dev EXCEPT !.out = [status |-> "NAK",
                                      packet |-> Cbw(op, lba, n, host.tag)]]
       /\ host' = [host EXCEPT !.op = op, !.lba = lba, !.n = n,
                               !.st = CASE op = "write"  -> "out"
                                        [] op \in {"read", "inquiry"} -> "in"
                                        [] OTHER         -> "status"]
  /\ events' = events \union {"out"}
  /\ UNCHANGED <<flash, access, spoilt, disk, troubles>>

(* A packet takes longer on the bus than the handlers of two endpoints     *)
(* that are both due: it does not come between them.                       *)
SendData ==
  /\ host.st = "out" /\ dev.out.status = "VALID" /\ events = {}
  /\ \E v \in Data :
       /\ dev' = [dev EXCEPT !.out = [status |-> "NAK",
                                      packet |-> DataPacket(v)]]
       /\ host' = [host EXCEPT !.sent = Append(@, v), !.got = @ + 1,
                     !.st = IF host.got + 1 = host.n * Packets THEN "status"
                                                              ELSE @]
  /\ events' = {"out"}
  /\ UNCHANGED <<flash, access, spoilt, disk, troubles>>

TakeData ==
  /\ host.st = "in" /\ dev.in.status = "VALID"
  /\ dev' = [dev EXCEPT !.in = Boot.in]
  /\ host' = [host EXCEPT !.got = @ + 1,
                !.st = IF host.got + 1 = DataLength(host.op, host.n)
                       THEN "status" ELSE @]
  /\ events' = events \union {"in"}
  /\ UNCHANGED <<flash, access, spoilt, disk, troubles>>

(* CLEAR_FEATURE(ENDPOINT_HALT), and on to the status.                     *)
ClearHalt(ep) ==
  /\ dev[ep].status = "STALL" /\ access = "none"
  /\ host.st \in (IF ep = "in" THEN {"in", "status"} ELSE {"out"})
  /\ dev' = ClearFeature(dev, ep)
  /\ host' = [host EXCEPT !.st = "status"]
  /\ UNCHANGED <<events, flash, access, spoilt, disk, troubles>>

TakeCSW ==
  /\ host.st = "status" /\ dev.in.status = "VALID"
  /\ dev.in.packet.kind = "csw"
  /\ dev' = [dev EXCEPT !.in = Boot.in]
  /\ host' = Idle(1 - host.tag)
  /\ disk' = CASE dev.in.packet.status = "PHASE_ERROR" -> Forgotten
               [] dev.in.packet.status = "PASSED" /\ host.op = "write" ->
                    [c \in Cells |->
                      IF c \in CommandCells
                      THEN host.sent[(c[1] - host.lba) * Packets + c[2] + 1]
                      ELSE disk[c]]
               [] OTHER -> disk
  /\ events' = events \union {"in"}
  /\ UNCHANGED <<flash, access, spoilt, troubles>>

(* The reset of the bus, and the class request MASS_STORAGE_RESET followed *)
(* by CLEAR_FEATURE of both endpoints.  Both set Bot_State, and leave      *)
(* TransferState and the counts of a transfer as they are.  The request is *)
(* obeyed when it names interface 0; the disk is interface 2, and a host   *)
(* that names it is refused: it goes on to reset the bus.                  *)
Joystick_Reset ==
  [dev EXCEPT !.in.status = "NAK", !.out.status = "VALID",
              !.Bot_State = "IDLE", !.signature = TRUE]

MASS_STORAGE_RESET ==
  ClearFeature(ClearFeature([dev EXCEPT !.Bot_State = "IDLE",
                                        !.signature = TRUE], "in"), "out")

(* A host that resets has waited long: nothing is left to handle.  Without *)
(* AnyReset, a reset finds no transfer begun, and the class request finds  *)
(* no packet in the IN endpoint.                                           *)
Reset ==
  /\ Trouble
  /\ access = "none" /\ events = {}
  /\ AnyReset \/ dev.TransferState = "IDLE"
  /\ \/ dev' = Joystick_Reset
     \/ /\ AnyReset \/ dev.in.status = "NAK"
        /\ dev' = MASS_STORAGE_RESET
  /\ host' = Idle(1 - host.tag)
  /\ disk' = Forgotten
  /\ UNCHANGED <<events, flash, access, spoilt>>

(* The plug is pulled.  In the middle of a WRITE the sector is lost: what  *)
(* of it was erased, and not written yet.                                  *)
PowerLoss ==
  /\ Trouble
  /\ dev' = Boot /\ events' = {} /\ access' = "none" /\ spoilt' = FALSE
  /\ host' = Idle(1 - host.tag)
  /\ disk' = Forgotten
  /\ \E G \in SUBSET Cells :
       /\ access = "write" \/ G = {}
       /\ \A c \in G : c[1] \in Sector(BlockAt(Taken(dev).W_Offset - Packets))
       /\ flash' = [c \in Cells |-> IF c \in G THEN Garbage ELSE flash[c]]

Device == Handle \/ Access \/ ReadBlock \/ WriteBlock
Host == \/ SendData \/ TakeData \/ TakeCSW
        \/ \E ep \in {"in", "out"} : ClearHalt(ep)

Next == Device \/ Host \/ SendCBW \/ FlashRead \/ Reset \/ PowerLoss

Spec == Init /\ [][Next]_vars

(* An interrupt that is pending is served, and a host that has begun a     *)
(* command goes on with it.                                                *)
FairSpec == Spec /\ WF_vars(Device) /\ WF_vars(Host)

-----------------------------------------------------------------------------
(* Type correctness.                                                       *)
Contents == Data \union {Garbage, Unknown}
Statuses == {"NAK", "VALID", "STALL"}
TypeOK ==
  /\ dev.Bot_State \in {"IDLE", "DATA_OUT", "DATA_IN", "DATA_IN_LAST",
                        "CSW_Send", "ERROR"}
  /\ dev.TransferState \in {"IDLE", "ONGOING"}
  /\ {dev.Length, dev.W_Length, dev.residue} \subseteq 0 .. MaxLen * Packets
  /\ {dev.Offset, dev.W_Offset} \subseteq 0 .. Blocks * Packets - 1
  /\ {dev.Block_Read_count, dev.Block_offset, dev.Counter} \subseteq
       0 .. Packets
  /\ dev.Data_Buffer \in [0 .. Packets - 1 -> Contents]
  /\ {dev.in.status, dev.out.status} \subseteq Statuses
  /\ events \subseteq {"in", "out"}
  /\ flash \in [Cells -> Data \union {Garbage}]
  /\ access \in {"none", "read", "write"} /\ spoilt \in BOOLEAN
  /\ troubles \in 0 .. MaxTroubles
  /\ host.st \in {"idle", "in", "out", "status"} /\ host.op \in Ops
  /\ disk \in [Cells -> Data \union {Unknown}]

(* A block holds what the last WRITE that was reported done has put there, *)
(* whatever WRITEs were broken off or refused since: the offsets and       *)
(* counts of Write_Memory, which live from packet to packet and from       *)
(* command to command, never send a packet to another place.  A cell that  *)
(* a disturbance has spoilt shows it.                                      *)
DiskIsWhatHostWrote ==
  \A c \in Cells :
    \/ host.op = "write" /\ c \in CommandCells
    \/ disk[c] = Unknown
    \/ flash[c] \in {disk[c], Garbage}

(* What a READ hands the host next is the packet the host asked for, out   *)
(* of the block that Read_Memory holds in Data_Buffer, which WRITE uses    *)
(* too, or of one it loads.                                                *)
ReadsAreRight ==
  host.st = "in" /\ host.op = "read" /\ dev.in.status = "VALID" =>
    LET c == <<host.lba + host.got \div Packets, host.got % Packets>>
    IN  /\ dev.in.packet.kind = "data"
        /\ disk[c] = Unknown \/ dev.in.packet.v \in {disk[c], Garbage}

(* The host finds in the endpoint what it waits for: data, or a CSW with   *)
(* the tag of its command that tells the truth about it.                   *)
OneAnswer ==
  dev.in.status = "VALID" =>
    \/ host.st = "in" /\ dev.in.packet.kind = "data"
    \/ /\ host.st = "status"
       /\ dev.in.packet.kind = "csw" /\ dev.in.packet.tag = host.tag
       /\ \/ /\ dev.in.packet.status = "PASSED" /\ dev.in.packet.residue = 0
             /\ host.got = DataLength(host.op, host.n) /\ host.op \notin {"invalid", "bad"}
          \/ /\ dev.in.packet.status = "FAILED" /\ host.got = 0
             /\ dev.in.packet.residue = DataLength(host.op, host.n)

(* Every command ends: host and device never both wait for the other.      *)
CommandsEnd == host.st # "idle" ~> host.st = "idle"
=============================================================================
