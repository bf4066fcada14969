-------------------------------- MODULE Dcu --------------------------------
(***************************************************************************)
(* The disk control unit of sys16.cpp: the registers at 0xd00000 the       *)
(* processor reads and writes, the 50 us timer between a command and its   *)
(* execution, the IOCB chain a DC_START follows through main memory, the   *)
(* images behind the drives, interrupt line 3 and machine_reset.           *)
(*                                                                         *)
(* The processor here does whatever the register map lets it do, in any    *)
(* order: it may rewrite the arguments of a pending command, start another *)
(* one, acknowledge early or not at all.  DcuDriver restricts it to what   *)
(* the two drivers of the machine do.                                      *)
(*                                                                         *)
(* Atomicity.  dcu_complete is one timer callback: no processor            *)
(* instruction and no reset comes between its first read and its last      *)
(* write.  For a DC_START the loops of dcu_transfer are unrolled, one step *)
(* per link opened, per sector moved and per link closed; while they run   *)
(* (phase # "cpu") nothing else is enabled, so the unrolling adds no       *)
(* interleaving.                                                           *)
(*                                                                         *)
(* Data.  A sector or a page is a member of Data.  An IOCB is a record at  *)
(* its address, with the page table it points to as a function; IOCBs,     *)
(* page tables and data pages do not overlap.  Memory that holds no IOCB   *)
(* reads as zeros.                                                         *)
(*                                                                         *)
(* A definition marked "a slip" is no part of the specification: it is a   *)
(* mistake the properties are tried against.                               *)
(***************************************************************************)
EXTENDS Pack, Icu

CONSTANTS
  Drives,      \* units with an image, a subset of {0, 1}: m_hd[unit]->exists()
  Capacity,    \* sectors of each image
  Data,        \* contents of a sector or of a page
  Zeros,       \* the sector DC_FORMAT writes
  HeaderIn,    \* the header a disk sector of this content would be
  IocbAddr,    \* addresses where the processor puts IOCBs
  Page,        \* physical pages it transfers to and from
  MaxCount,    \* bound: sectors per IOCB (255 in the code, dc_count is a byte)
  IocbImage,   \* bound: the IOCBs it may write at each of them
  Stored,      \* bound: contents it stores into a page
  Byte,        \* bound: values it writes into each argument register
  Opcode,      \* bound: values it writes into the opcode register
  NoLink,      \* a chain field without the valid bit
  FirstDisk    \* what the images may hold at the start

(* dcu_opcode *)
DCU_C_SELFTEST    == 22    \* 0x16
DCU_C_START       == 24    \* 0x18
DCU_C_ASSDRIVE    == 32    \* 0x20
DCU_C_ASSCYLINDER == 46    \* 0x2e
DCU_C_ASSBUFFER   == 66    \* 0x42
DCU_C_SETBURST    == 116   \* 0x74
DCU_C_SENSE       == 132   \* 0x84
DCU_C_FORMAT      == 188   \* 0xbc
DCU_C_READ        == 222   \* 0xde
DCU_C_WRITE       == 230   \* 0xe6
DCU_C_SPECIFIC    == 232   \* 0xe8

AcceptedAsGiven == {DCU_C_SETBURST, DCU_C_ASSCYLINDER, DCU_C_ASSBUFFER, DCU_C_SENSE}

Implemented ==
  AcceptedAsGiven \cup
    {DCU_C_SELFTEST, DCU_C_START, DCU_C_ASSDRIVE, DCU_C_SPECIFIC}

(* dcu_code *)
DCU_BUSY  == 0
DCU_ERROR == 1
DCU_DONE  == 2
DCU_IDLE  == 3

(* the status byte of an IOCB; drivers clear it before a command *)
IOCB_ES_NONE  == 0
IOCB_ES_DRIVE == 8     \* 0x08
IOCB_ES_CHAIN == 64    \* 0x40
IOCB_ES_DONE  == 128   \* 0x80

Ending == {IOCB_ES_NONE, IOCB_ES_DRIVE, IOCB_ES_CHAIN, IOCB_ES_DONE}

Iocb == [opcode   : U8,
         count    : 0 .. MaxCount,
         cylinder : U16,
         drhdsec  : U16,
         table    : [0 .. MaxCount - 1 -> Page],
         chain    : IocbAddr \cup {NoLink},
         status   : Ending,
         resid    : 0 .. MaxCount]

(* an image of the right size on every drive *)
IsDisk(d) ==
  /\ d = [u \in Drives |-> d[u]]
  /\ \A u \in Drives : d[u] \in [0 .. Capacity[u] - 1 -> Data]

ASSUME DcuAssumption ==
  /\ Drives \subseteq {0, 1}
  /\ Capacity \in [Drives -> Nat]
  /\ Zeros \in Data
  /\ HeaderIn \in [Data -> Header]
  /\ IocbAddr \subseteq Nat
  /\ NoLink \notin IocbAddr
  /\ Page # {}
  /\ MaxCount \in U8
  /\ IocbImage \in [IocbAddr -> SUBSET Iocb]
  /\ Stored \subseteq Data
  /\ Byte \in [0 .. 2 -> SUBSET U8]
  /\ Opcode \subseteq U8
  /\ \A d \in FirstDisk : IsDisk(d)

VARIABLES
  chan,      \* m_dcu_chan: the three argument bytes
  op,        \* m_dcu_op
  code,      \* m_dcu_code
  selftest,  \* m_dcu_selftest
  auxerr,    \* m_dcu_auxerr
  unit,      \* m_dcu_unit
  geom,      \* m_dcu_sectors and m_dcu_heads, by unit
  timer,     \* m_dcu_timer is armed
  line3,     \* interrupt line 3 and what the controller latched from it
  phase,     \* "cpu", or where dcu_transfer is: "open" or "move"
  at,        \* dcu_transfer: address of the current IOCB
  moved,     \*   its sectors transferred so far
  failed,    \*   a drive check ended it (~ok)
  trail,     \*   history: the links of this command already acknowledged
  iocb,      \* main memory: IOCBs, by address
  page,      \* main memory: data pages
  disk       \* the images, by unit and sector

regs   == <<chan, op, unit, selftest>>
status == <<code, auxerr, line3>>
walk   == <<phase, at, moved, failed, trail>>
memory == <<iocb, page>>
vars   == <<regs, status, geom, timer, walk, memory, disk>>

ZeroIocb ==
  [opcode |-> 0, count |-> 0, cylinder |-> 0, drhdsec |-> 0,
   table  |-> [i \in 0 .. MaxCount - 1 |-> CHOOSE p \in Page : TRUE],
   chain  |-> NoLink, status |-> IOCB_ES_NONE, resid |-> 0]

(* machine_reset has run once; the processor has done nothing yet.         *)
Init ==
  /\ chan = [n \in 0 .. 2 |-> 0]
  /\ op = 0
  /\ code = DCU_IDLE
  /\ selftest = FALSE
  /\ auxerr = FALSE
  /\ unit = 0
  /\ geom = [u \in 0 .. 1 |-> Unread]
  /\ timer = FALSE
  /\ line3 = Idle(DISK)
  /\ phase = "cpu" /\ at = 0 /\ moved = 0 /\ failed = FALSE /\ trail = {}
  /\ iocb = [a \in IocbAddr |-> ZeroIocb]
  /\ page = [p \in Page |-> Zeros]
  /\ disk \in FirstDisk

-----------------------------------------------------------------------------
(***************************************************************************)
(* The processor's side: dcu_w, dcu_r, its own memory, its interrupts.     *)
(***************************************************************************)
WriteChan(n, b) ==
  /\ phase = "cpu"
  /\ chan' = [chan EXCEPT ![n] = b]
  /\ UNCHANGED <<op, unit, selftest, status, geom, timer, walk, memory, disk>>

(* Two slips: the timer armed only for an idle controller, and the error   *)
(* of the command before left standing.                                    *)
WriteOpcodeWhenIdle(b) ==
  /\ phase = "cpu"
  /\ op' = b
  /\ code' = DCU_BUSY
  /\ auxerr' = FALSE
  /\ timer' = (timer \/ code = DCU_IDLE)
  /\ UNCHANGED <<chan, unit, selftest, line3, geom, walk, memory, disk>>

WriteOpcodeKeepsError(b) ==
  /\ phase = "cpu"
  /\ op' = b
  /\ code' = DCU_BUSY
  /\ timer' = TRUE
  /\ UNCHANGED <<chan, unit, selftest, auxerr, line3, geom, walk, memory, disk>>

(* Starts a command, whatever the controller is doing: the one timer is    *)
(* adjusted, so a command still pending is forgotten.                      *)
WriteOpcode(b) ==
  /\ phase = "cpu"
  /\ op' = b
  /\ code' = DCU_BUSY
  /\ auxerr' = FALSE
  /\ timer' = TRUE
  /\ UNCHANGED <<chan, unit, selftest, line3, geom, walk, memory, disk>>

(* A slip: the interrupt is not withdrawn. *)
AcknowledgeOnlyCode ==
  /\ phase = "cpu"
  /\ code' = DCU_IDLE
  /\ UNCHANGED <<regs, auxerr, line3, geom, timer, walk, memory, disk>>

Acknowledge ==
  /\ phase = "cpu"
  /\ code' = DCU_IDLE
  /\ line3' = Driven(line3, DISK, 1)
  /\ UNCHANGED <<regs, auxerr, geom, timer, walk, memory, disk>>

AcknowledgeError ==
  /\ phase = "cpu"
  /\ auxerr' = FALSE
  /\ UNCHANGED <<regs, code, line3, geom, timer, walk, memory, disk>>

(* What a read of the status register returns; no read changes anything.   *)
StatusByte ==
  128 + 4 * code + DCU_IDLE
    + (IF selftest THEN 32 ELSE 0) + (IF auxerr THEN 16 ELSE 0)

CodeIn(byte) == (byte \div 4) % 4

StoreIocb(a, image) ==
  /\ phase = "cpu"
  /\ iocb' = [iocb EXCEPT ![a] = image]
  /\ UNCHANGED <<regs, status, geom, timer, walk, page, disk>>

StorePage(p, d) ==
  /\ phase = "cpu"
  /\ page' = [page EXCEPT ![p] = d]
  /\ UNCHANGED <<regs, status, geom, timer, walk, iocb, disk>>

TakeInterrupt ==
  /\ phase = "cpu"
  /\ Requests(line3, DISK)
  /\ line3' = Taken(line3)
  /\ UNCHANGED <<regs, code, auxerr, geom, timer, walk, memory, disk>>

-----------------------------------------------------------------------------
(***************************************************************************)
(* dcu_complete and dcu_execute: the timer fires.                          *)
(***************************************************************************)
UnitOk(u) == u \in Drives

Arg == chan[0] + 256 * chan[1] + 65536 * chan[2]

(* A slip: sector 0 is read before every command. *)
GeometryReadAlways(u) ==
  [geom EXCEPT ![u] = IF Capacity[u] > 0 THEN GeometryOf(HeaderIn[disk[u][0]])
                                         ELSE FallbackDrive]

(* dcu_geometry: sector 0 is read once, and the shape kept until reset.    *)
GeometryRead(u) ==
  IF geom[u].sectors # 0
  THEN geom
  ELSE [geom EXCEPT ![u] = IF Capacity[u] > 0 THEN GeometryOf(HeaderIn[disk[u][0]])
                                              ELSE FallbackDrive]

(* A slip: the code is set and nobody is told. *)
FinishQuietly(ok) ==
  /\ code' = IF ok THEN DCU_DONE ELSE DCU_ERROR
  /\ UNCHANGED line3

(* the status code, and the falling edge on line 3 *)
Finish(ok) ==
  /\ code' = IF ok THEN DCU_DONE ELSE DCU_ERROR
  /\ line3' = Driven(line3, DISK, 0)

Expires ==
  /\ phase = "cpu"
  /\ timer
  /\ timer' = FALSE

ExecuteSelftest ==
  /\ Expires
  /\ op = DCU_C_SELFTEST
  /\ selftest' = FALSE
  /\ Finish(TRUE)
  /\ UNCHANGED <<chan, op, unit, auxerr, geom, walk, memory, disk>>

ExecuteAccepted ==
  /\ Expires
  /\ op \in AcceptedAsGiven
  /\ Finish(TRUE)
  /\ UNCHANGED <<regs, auxerr, geom, walk, memory, disk>>

ExecuteAssdrive ==
  /\ Expires
  /\ op = DCU_C_ASSDRIVE
  /\ unit' = Arg \div 8192
  /\ geom' = IF UnitOk(unit') THEN GeometryRead(unit') ELSE geom
  /\ Finish(UnitOk(unit'))
  /\ UNCHANGED <<chan, op, selftest, auxerr, walk, memory, disk>>

ExecuteSpecific ==
  /\ Expires
  /\ op = DCU_C_SPECIFIC
  /\ Finish(UnitOk(unit))
  /\ UNCHANGED <<regs, auxerr, geom, walk, memory, disk>>

ExecuteIllegal ==
  /\ Expires
  /\ op \notin Implemented
  /\ auxerr' = TRUE
  /\ Finish(FALSE)
  /\ UNCHANGED <<regs, geom, walk, memory, disk>>

ExecuteStart ==
  /\ Expires
  /\ op = DCU_C_START
  /\ phase' = "open"
  /\ at' = Arg
  /\ moved' = 0
  /\ failed' = FALSE
  /\ trail' = {}
  /\ UNCHANGED <<regs, status, geom, memory, disk>>

-----------------------------------------------------------------------------
(***************************************************************************)
(* dcu_transfer: the walk along the chain.                                 *)
(***************************************************************************)
IocbAt(a) == IF a \in IocbAddr THEN iocb[a] ELSE ZeroIocb

Current     == IocbAt(at)
CurrentUnit == UnitOf(Current.drhdsec)

(* Where the link begins (in CurrentLba's place a slip: every sector goes  *)
(* there), and where it is.                                                *)
FirstLba ==
  Lba(geom[CurrentUnit], Current.cylinder,
      HeadOf(Current.drhdsec), SectorOf(Current.drhdsec))

CurrentLba == FirstLba + moved

(* A slip: a link may name a drive whose shape nobody has read. *)
OpenLinkUnread ==
  /\ phase = "open"
  /\ phase' = "move"
  /\ moved' = 0
  /\ failed' = ~UnitOk(CurrentUnit)
  /\ UNCHANGED <<regs, status, geom, timer, at, trail, memory, disk>>

OpenLink ==
  /\ phase = "open"
  /\ phase' = "move"
  /\ moved' = 0
  /\ failed' = ~UnitOk(CurrentUnit)
  /\ geom' = IF UnitOk(CurrentUnit) THEN GeometryRead(CurrentUnit) ELSE geom
  /\ UNCHANGED <<regs, status, timer, at, trail, memory, disk>>

(* the for loop has an iteration left *)
Moving == phase = "move" /\ ~failed /\ moved < Current.count

OnImage == CurrentLba < Capacity[CurrentUnit]

MoveOne ==
  /\ Moving
  /\ OnImage
  /\ moved' = moved + 1
  /\ UNCHANGED <<regs, status, geom, timer, phase, at, failed, trail, iocb>>

PutSector(d) ==
  /\ disk' = [disk EXCEPT ![CurrentUnit][CurrentLba] = d]
  /\ UNCHANGED page

(* A slip: the page table is not advanced. *)
WriteSectorFirstPage ==
  /\ Current.opcode = DCU_C_WRITE
  /\ MoveOne
  /\ PutSector(page[Current.table[0]])

WriteSector ==
  /\ Current.opcode = DCU_C_WRITE
  /\ MoveOne
  /\ PutSector(page[Current.table[moved]])

FormatSector ==
  /\ Current.opcode = DCU_C_FORMAT
  /\ MoveOne
  /\ PutSector(Zeros)

(* every other opcode reads *)
ReadSector ==
  /\ Current.opcode \notin {DCU_C_WRITE, DCU_C_FORMAT}
  /\ MoveOne
  /\ page' = [page EXCEPT ![Current.table[moved]] = disk[CurrentUnit][CurrentLba]]
  /\ UNCHANGED disk

(* the image has no such sector: drive check, the loop ends *)
DriveCheck ==
  /\ Moving
  /\ ~OnImage
  /\ failed' = TRUE
  /\ UNCHANGED <<regs, status, geom, timer, phase, at, moved, trail, memory, disk>>

(* Two slips: the residual count the wrong way round, and one that leaves  *)
(* over the whole count at a drive check.                                  *)
ReportNegative(ending) ==
  /\ iocb' = IF at \in IocbAddr
             THEN [iocb EXCEPT ![at].status = ending,
                               ![at].resid  = moved - Current.count]
             ELSE iocb
  /\ UNCHANGED <<regs, auxerr, geom, timer, page, disk>>

ReportWhole(ending) ==
  /\ iocb' = IF at \in IocbAddr
             THEN [iocb EXCEPT ![at].status = ending,
                               ![at].resid  = IF failed THEN Current.count ELSE 0]
             ELSE iocb
  /\ UNCHANGED <<regs, auxerr, geom, timer, page, disk>>

(* the residual count and the ending status go back into the IOCB *)
Report(ending) ==
  /\ iocb' = IF at \in IocbAddr
             THEN [iocb EXCEPT ![at].status = ending,
                               ![at].resid  = Current.count - moved]
             ELSE iocb
  /\ UNCHANGED <<regs, auxerr, geom, timer, page, disk>>

(* dcu_transfer returns: its locals are gone, the callback ends *)
Leave(ok) ==
  /\ phase' = "cpu"
  /\ at' = 0 /\ moved' = 0 /\ failed' = FALSE /\ trail' = {}
  /\ Finish(ok)

LinkMoved == phase = "move" /\ ~failed /\ moved = Current.count

(* A slip: a link of a chain is given the ending of the last one. *)
FollowChainDone ==
  /\ LinkMoved
  /\ Current.chain # NoLink
  /\ Report(IOCB_ES_DONE)
  /\ phase' = "open"
  /\ at' = Current.chain
  /\ trail' = trail \cup {at}
  /\ UNCHANGED <<code, line3, moved, failed>>

EndFailed ==
  /\ phase = "move" /\ failed
  /\ Report(IOCB_ES_DRIVE)
  /\ Leave(FALSE)

FollowChain ==
  /\ LinkMoved
  /\ Current.chain # NoLink
  /\ Report(IOCB_ES_CHAIN)
  /\ phase' = "open"
  /\ at' = Current.chain
  /\ trail' = trail \cup {at}
  /\ UNCHANGED <<code, line3, moved, failed>>

EndDone ==
  /\ LinkMoved
  /\ Current.chain = NoLink
  /\ Report(IOCB_ES_DONE)
  /\ Leave(TRUE)

-----------------------------------------------------------------------------
(***************************************************************************)
(* machine_reset.  The timer is not touched: a command that was pending    *)
(* is still going to be executed.  The interrupt controller resets itself. *)
(***************************************************************************)
(* A slip: the opcode of a pending command outlives the reset. *)
ResetKeepsOpcode ==
  /\ phase = "cpu"
  /\ chan' = [n \in 0 .. 2 |-> 0]
  /\ code' = DCU_IDLE
  /\ selftest' = FALSE
  /\ auxerr' = FALSE
  /\ unit' = 0
  /\ geom' = [u \in 0 .. 1 |-> Unread]
  /\ line3' = Idle(DISK)
  /\ UNCHANGED <<op, timer, walk, memory, disk>>

Reset ==
  /\ phase = "cpu"
  /\ chan' = [n \in 0 .. 2 |-> 0]
  /\ op' = 0
  /\ code' = DCU_IDLE
  /\ selftest' = FALSE
  /\ auxerr' = FALSE
  /\ unit' = 0
  /\ geom' = [u \in 0 .. 1 |-> Unread]
  /\ line3' = Idle(DISK)
  /\ UNCHANGED <<timer, walk, memory, disk>>

Processor ==
  \/ \E n \in 0 .. 2 : \E b \in Byte[n] : WriteChan(n, b)
  \/ \E b \in Opcode : WriteOpcode(b)
  \/ Acknowledge
  \/ AcknowledgeError
  \/ \E a \in IocbAddr : \E image \in IocbImage[a] : StoreIocb(a, image)
  \/ \E p \in Page, d \in Stored : StorePage(p, d)
  \/ TakeInterrupt

Execute ==
  \/ ExecuteSelftest
  \/ ExecuteAccepted
  \/ ExecuteAssdrive
  \/ ExecuteSpecific
  \/ ExecuteIllegal
  \/ ExecuteStart

Transfer ==
  \/ OpenLink
  \/ WriteSector
  \/ FormatSector
  \/ ReadSector
  \/ DriveCheck
  \/ EndFailed
  \/ FollowChain
  \/ EndDone

Next == Processor \/ Execute \/ Transfer \/ Reset

Spec == Init /\ [][Next]_vars

-----------------------------------------------------------------------------
(* Every variable keeps its type; page and images are data, never memory   *)
(* of another kind, and each image keeps its size (a transfer never writes *)
(* outside it).                                                            *)
TypeOK ==
  /\ chan \in [0 .. 2 -> U8]
  /\ op \in U8
  /\ code \in 0 .. 3
  /\ selftest \in BOOLEAN /\ auxerr \in BOOLEAN
  /\ unit \in Nat
  /\ geom \in [0 .. 1 -> Geometry \cup {Unread}]
  /\ timer \in BOOLEAN
  /\ line3 \in Line
  /\ phase \in {"cpu", "open", "move"}
  /\ at \in Nat /\ moved \in 0 .. MaxCount /\ failed \in BOOLEAN
  /\ trail \in SUBSET Nat
  /\ iocb \in [IocbAddr -> Iocb]
  /\ page \in [Page -> Data]
  /\ IsDisk(disk)

(* A status of "busy" is always resolved by something that is on its way:  *)
(* the timer dcu_w armed, or the chain dcu_transfer is following.  If it   *)
(* were not, a driver that polls or sleeps would wait for ever, and no     *)
(* sequence of early acknowledges, restarted commands or resets may lead   *)
(* there.                                                                  *)
BusyIsUnderway == code = DCU_BUSY => timer \/ phase # "cpu"

(* The interrupt line and the status code the driver reads next agree: a   *)
(* finished command holds the line low, and an idle controller has it      *)
(* high, so that the next completion is an edge (dcu_w offset 4,           *)
(* dcu_complete, machine_reset).  A busy one may have either level.        *)
LineFollowsCode ==
  /\ code \in {DCU_DONE, DCU_ERROR} => line3.level = 0
  /\ code = DCU_IDLE => line3.level = 1

(* DCU_AUXERR accuses the right command: while it is set, the opcode       *)
(* register holds the opcode that was refused, and no command has been     *)
(* started since (dcu_w offset 3 clears it, dcu_execute sets it).          *)
IllegalIsExplained == auxerr => op \notin Implemented /\ code # DCU_BUSY

(* The address arithmetic of dcu_transfer only ever runs on the shape of a *)
(* drive that is there and has been read since the last reset, never on    *)
(* the zeros machine_reset leaves, whichever link of a chain names which   *)
(* unit.                                                                   *)
ShapeKnown ==
  phase = "move" /\ ~failed =>
    CurrentUnit \in Drives /\ geom[CurrentUnit] \in Geometry

(* The loop invariant of dcu_transfer: of the link under way, exactly the  *)
(* sectors before `moved` are on the image (write, format) or in the pages *)
(* of the table (read; a page named twice holds its last sector).          *)
PrefixMoved ==
  phase = "move" /\ ~failed =>
    \A i \in 0 .. moved - 1 :
      LET sector == disk[CurrentUnit][CurrentLba - moved + i]
          target == Current.table[i]
      IN  /\ Current.opcode = DCU_C_WRITE  => sector = page[target]
          /\ Current.opcode = DCU_C_FORMAT => sector = Zeros
          /\ Current.opcode \notin {DCU_C_WRITE, DCU_C_FORMAT} =>
               \/ page[target] = sector
               \/ \E j \in i + 1 .. moved - 1 : Current.table[j] = target

(* While a chain is followed, every link left behind carries the chain     *)
(* acknowledge and no residue.                                             *)
TrailAcknowledged ==
  phase # "cpu" =>
    \A a \in trail \cap IocbAddr :
      iocb[a].status = IOCB_ES_CHAIN /\ iocb[a].resid = 0

(* Sector i of the link under way is on a drive.                           *)
Reached(i) ==
  UnitOk(CurrentUnit) /\ FirstLba + i < Capacity[CurrentUnit]

(* When the walk ends, the status code and the IOCBs in memory tell the    *)
(* driver the same story: "done" exactly when the last link says "done     *)
(* with all IOCBs" with nothing left over, every link before it            *)
(* acknowledged in full; on an error the link that failed says drive check,*)
(* and the links before it still count as done.  The residue of the last   *)
(* link is the number of its sectors that were not transferred, and the    *)
(* ones that were are just those that are on a drive: the whole of a link  *)
(* to a missing unit is left over, and of one that runs off the image what *)
(* lies behind it (dcu_transfer writes the residue back, sys16.cpp:638).   *)
OutcomeReported ==
  [][phase = "move" /\ phase' = "cpu" =>
       /\ \A a \in (trail \cap IocbAddr) \ {at} :
            iocb'[a].status = IOCB_ES_CHAIN /\ iocb'[a].resid = 0
       /\ at \in IocbAddr =>
            LET last == iocb'[at] IN
            /\ code' = DCU_DONE  => last.status = IOCB_ES_DONE /\ last.resid = 0
            /\ code' = DCU_ERROR => last.status = IOCB_ES_DRIVE
            /\ last.resid = 0 /\ last.count > 0 => code' = DCU_DONE
            /\ last.resid = last.count - moved
            /\ \A i \in 0 .. last.count - 1 : i < moved <=> Reached(i)
       /\ code' \in {DCU_DONE, DCU_ERROR}]_vars

(* A drive shape is read at most once between two resets: once a transfer  *)
(* has addressed a drive with one shape, no later command addresses it     *)
(* with another.                                                           *)
ShapeKeptUntilReset ==
  [][\A u \in Drives :
       geom[u] # Unread => geom'[u] \in {geom[u], Unread}]_vars
=============================================================================
