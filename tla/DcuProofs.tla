----------------------------- MODULE DcuProofs -----------------------------
(***************************************************************************)
(* Theorems about the disk control unit, for every number of drives, every *)
(* image size, every set of IOCBs and whatever the processor does.         *)
(*                                                                         *)
(* The inductive invariant is IInv: the type invariant needs ShapeKnown (a *)
(* sector is written at an address computed from the drive's shape), and   *)
(* OutcomeReported needs Progress (a link that failed has a residue) and   *)
(* Accounted (where it failed).                                            *)
(***************************************************************************)
EXTENDS Dcu, TLAPS

(* No link moves more sectors than it asks for, and one ended by a drive   *)
(* check has some left over, unless it asked for none.                     *)
Progress ==
  phase = "move" =>
    /\ moved <= Current.count
    /\ failed => Current.count = 0 \/ moved < Current.count

IInv ==
  /\ TypeOK
  /\ ShapeKnown
  /\ Progress
  /\ BusyIsUnderway
  /\ LineFollowsCode
  /\ IllegalIsExplained
  /\ TrailAcknowledged

(* The processor without the bounds on what it writes: any byte into any   *)
(* register, any contents into any page, and any number of IOCBs at once.  *)
StoreIocbs ==
  /\ phase = "cpu"
  /\ iocb' \in [IocbAddr -> Iocb]
  /\ UNCHANGED <<regs, status, geom, timer, walk, page, disk>>

AnyProcessor ==
  \/ \E n \in 0 .. 2, b \in U8 : WriteChan(n, b)
  \/ \E b \in U8 : WriteOpcode(b)
  \/ Acknowledge
  \/ AcknowledgeError
  \/ StoreIocbs
  \/ \E p \in Page, d \in Data : StorePage(p, d)
  \/ TakeInterrupt

AnyNext == AnyProcessor \/ Execute \/ Transfer \/ Reset

LEMMA AnyCovers ==
  ASSUME TypeOK, [Next]_vars
  PROVE  [AnyNext]_vars
<1>1. ASSUME NEW a \in IocbAddr, NEW image \in IocbImage[a], StoreIocb(a, image)
      PROVE  StoreIocbs
  <2>1. image \in Iocb
    BY DcuAssumption
  <2> QED BY <1>1, <2>1 DEF StoreIocb, StoreIocbs, TypeOK
<1>2. ASSUME Processor
      PROVE  AnyProcessor
  BY <1>1, <1>2, DcuAssumption DEF Processor, AnyProcessor
<1> QED BY <1>2 DEF Next, AnyNext

-----------------------------------------------------------------------------
(* Facts about the operators. *)

LEMMA ProductNat ==
  ASSUME NEW m \in Nat, NEW n \in Nat
  PROVE  m * n \in Nat
OBVIOUS

LEMMA GeometryOfType ==
  ASSUME NEW h \in Header
  PROVE  GeometryOf(h) \in Geometry
<1> DEFINE valid == /\ h.magic
                    /\ h.nsec # 0 /\ h.nsec < 256
                    /\ h.ntr # 0 /\ h.ntr < 32
<1>1. h.nsec \in U16 /\ h.ntr \in U16
  BY DEF Header
<1>2. CASE valid
  <2>1. h.nsec \in 1 .. U8_MAX /\ h.ntr \in 1 .. 31
    BY <1>1, <1>2 DEF U16, U8_MAX
  <2>2. GeometryOf(h) = [sectors |-> h.nsec, heads |-> h.ntr]
    BY <1>2 DEF GeometryOf
  <2> QED BY <2>1, <2>2 DEF Geometry
<1>3. CASE ~valid
  <2>1. GeometryOf(h) = FallbackDrive
    BY <1>3 DEF GeometryOf
  <2> QED BY <2>1 DEF Geometry, FallbackDrive, DCU_SECTORS, DCU_HEADS, U8_MAX
<1> QED BY <1>2, <1>3

(* dcu_geometry leaves a drive that is there with a usable shape, and every*)
(* other drive with the shape it had.                                      *)
LEMMA GeometryReadType ==
  ASSUME TypeOK, NEW u \in Drives
  PROVE  /\ GeometryRead(u) \in [0 .. 1 -> Geometry \cup {Unread}]
         /\ GeometryRead(u)[u] \in Geometry
         /\ geom[u] # Unread => GeometryRead(u) = geom
<1>1. u \in 0 .. 1 /\ geom[u] \in Geometry \cup {Unread}
  BY DcuAssumption DEF TypeOK
<1>2. Capacity[u] \in Nat /\ (Capacity[u] > 0 => disk[u][0] \in Data)
  <2>1. disk[u] \in [0 .. Capacity[u] - 1 -> Data]
    BY DEF TypeOK, IsDisk
  <2> QED BY <2>1, DcuAssumption
<1>3. FallbackDrive \in Geometry
  BY DEF FallbackDrive, Geometry, DCU_SECTORS, DCU_HEADS, U8_MAX
<1>4. Capacity[u] > 0 => GeometryOf(HeaderIn[disk[u][0]]) \in Geometry
  BY <1>2, GeometryOfType, DcuAssumption
<1>5. CASE geom[u].sectors # 0
  BY <1>1, <1>5 DEF GeometryRead, TypeOK, Unread
<1>6. CASE geom[u].sectors = 0
  <2>1. geom[u] = Unread
    BY <1>1, <1>6 DEF Geometry
  <2>2. GeometryRead(u) =
          [geom EXCEPT ![u] = IF Capacity[u] > 0
                              THEN GeometryOf(HeaderIn[disk[u][0]])
                              ELSE FallbackDrive]
    BY <1>6 DEF GeometryRead
  <2> QED BY <1>1, <1>2, <1>3, <1>4, <2>1, <2>2 DEF TypeOK
<1> QED BY <1>5, <1>6

LEMMA ZeroIocbType == ZeroIocb \in Iocb
<1>1. (CHOOSE p \in Page : TRUE) \in Page
  BY DcuAssumption
<1>2. 0 \in U8 /\ 0 \in U16 /\ 0 \in 0 .. MaxCount
  BY DcuAssumption DEF U8, U8_MAX, U16, U16_MAX
<1>3. ZeroIocb.table \in [0 .. MaxCount - 1 -> Page]
  BY <1>1 DEF ZeroIocb
<1> QED BY <1>2, <1>3 DEF ZeroIocb, Iocb, Ending, IOCB_ES_NONE

LEMMA IocbAtType ==
  ASSUME TypeOK, NEW a \in Nat
  PROVE  IocbAt(a) \in Iocb
BY ZeroIocbType DEF IocbAt, TypeOK

LEMMA ArgType ==
  ASSUME TypeOK
  PROVE  Arg \in Nat /\ Arg \div 8192 \in Nat
<1>1. \A n \in 0 .. 2 : chan[n] \in Nat
  BY DEF TypeOK, U8, U8_MAX
<1>2. Arg \in Nat
  BY <1>1 DEF Arg
<1> QED BY <1>2

LEMMA CurrentType ==
  ASSUME TypeOK
  PROVE  /\ Current \in Iocb
         /\ CurrentUnit \in Nat
         /\ Current.count \in 0 .. MaxCount
         /\ Current.chain \in IocbAddr \cup {NoLink}
<1>1. Current \in Iocb
  BY IocbAtType DEF TypeOK, Current
<1> QED BY <1>1 DEF Iocb, U16, CurrentUnit, UnitOf

LEMMA PlaceType ==
  ASSUME TypeOK, geom[CurrentUnit] \in Geometry
  PROVE  /\ FirstLba \in Nat
         /\ CurrentLba = FirstLba + moved
<1> DEFINE g == geom[CurrentUnit]
           h == HeadOf(Current.drhdsec)
           s == SectorOf(Current.drhdsec)
<1>1. g.heads \in Nat /\ g.sectors \in Nat
  BY DEF Geometry
<1>2. Current.cylinder \in Nat /\ h \in Nat /\ s \in Nat
  BY CurrentType DEF Iocb, U16, HeadOf, SectorOf
<1>3. Current.cylinder * g.heads \in Nat
  BY <1>1, <1>2, ProductNat
<1>4. (Current.cylinder * g.heads + h) * g.sectors \in Nat
  BY <1>1, <1>2, <1>3, ProductNat
<1> QED BY <1>2, <1>4 DEF CurrentLba, FirstLba, Lba

LEMMA LbaType ==
  ASSUME TypeOK, ShapeKnown, phase = "move", ~failed
  PROVE  /\ FirstLba \in Nat
         /\ CurrentLba \in Nat /\ CurrentLba - moved \in Nat
<1>1. FirstLba \in Nat /\ CurrentLba = FirstLba + moved
  BY PlaceType DEF ShapeKnown
<1> QED BY <1>1 DEF TypeOK

LEMMA OnDisk ==
  ASSUME TypeOK, ShapeKnown, Moving, OnImage
  PROVE  /\ CurrentUnit \in Drives
         /\ CurrentLba \in 0 .. Capacity[CurrentUnit] - 1
         /\ disk[CurrentUnit] \in [0 .. Capacity[CurrentUnit] - 1 -> Data]
         /\ disk[CurrentUnit][CurrentLba] \in Data
<1>1. CurrentUnit \in Drives /\ CurrentLba \in Nat
  BY LbaType DEF Moving, ShapeKnown
<1>2. Capacity[CurrentUnit] \in Nat /\ CurrentLba < Capacity[CurrentUnit]
  BY <1>1, DcuAssumption DEF OnImage
<1>3. disk[CurrentUnit] \in [0 .. Capacity[CurrentUnit] - 1 -> Data]
  BY <1>1 DEF TypeOK, IsDisk
<1> QED BY <1>1, <1>2, <1>3

(* A sector goes into the image of a drive that is there, inside it.       *)
LEMMA PutSectorType ==
  ASSUME TypeOK, ShapeKnown, Moving, OnImage, NEW d \in Data, PutSector(d)
  PROVE  IsDisk(disk') /\ page' \in [Page -> Data]
<1> DEFINE u == CurrentUnit
           n == CurrentLba
<1>1. u \in Drives /\ n \in 0 .. Capacity[u] - 1
  BY OnDisk
<1>2. disk' = [disk EXCEPT ![u] = [disk[u] EXCEPT ![n] = d]]
  BY DEF PutSector
<1>3. [disk[u] EXCEPT ![n] = d] \in [0 .. Capacity[u] - 1 -> Data]
  BY <1>1 DEF TypeOK, IsDisk
<1>4. disk = [v \in Drives |-> disk[v]] /\ page' = page
  BY DEF TypeOK, IsDisk, PutSector
<1>5. disk' = [v \in Drives |-> disk'[v]]
  BY <1>2, <1>4
<1>6. \A v \in Drives : disk'[v] \in [0 .. Capacity[v] - 1 -> Data]
  <2>1. ASSUME NEW v \in Drives, v = u
        PROVE  disk'[v] \in [0 .. Capacity[v] - 1 -> Data]
    BY <1>1, <1>2, <1>3, <1>4, <2>1
  <2>2. ASSUME NEW v \in Drives, v # u
        PROVE  disk'[v] \in [0 .. Capacity[v] - 1 -> Data]
    <3>1. disk'[v] = disk[v]
      BY <1>2, <1>4, <2>2
    <3> QED BY <3>1 DEF TypeOK, IsDisk
  <2> QED BY <2>1, <2>2
<1> QED BY <1>4, <1>5, <1>6 DEF IsDisk, TypeOK

LEMMA PutSectorEffect ==
  ASSUME TypeOK, ShapeKnown, Moving, OnImage, NEW d \in Data, PutSector(d),
         NEW n \in 0 .. Capacity[CurrentUnit] - 1
  PROVE  disk'[CurrentUnit][n] = IF n = CurrentLba THEN d ELSE disk[CurrentUnit][n]
<1>1. CurrentUnit \in Drives /\ CurrentLba \in 0 .. Capacity[CurrentUnit] - 1
  BY OnDisk
<1>2. disk' = [disk EXCEPT ![CurrentUnit] = [disk[CurrentUnit] EXCEPT ![CurrentLba] = d]]
  BY DEF PutSector
<1>3. /\ disk = [v \in Drives |-> disk[v]]
      /\ disk[CurrentUnit] \in [0 .. Capacity[CurrentUnit] - 1 -> Data]
  BY <1>1 DEF TypeOK, IsDisk
<1>4. disk'[CurrentUnit] = [disk[CurrentUnit] EXCEPT ![CurrentLba] = d]
  BY <1>1, <1>2, <1>3
<1> QED BY <1>3, <1>4

LEMMA DrivenType ==
  ASSUME line3 \in Line, NEW level \in {0, 1}
  PROVE  /\ Driven(line3, DISK, level) \in Line
         /\ Driven(line3, DISK, level).level = level
BY DEF Driven, Line, Active, DISK, ActiveHigh

LEMMA FinishType ==
  ASSUME TypeOK, NEW ok \in BOOLEAN, Finish(ok)
  PROVE  /\ code' \in {DCU_DONE, DCU_ERROR}
         /\ line3' \in Line
         /\ line3'.level = 0
BY DrivenType DEF Finish, TypeOK

LEMMA ReportType ==
  ASSUME TypeOK, Progress, phase = "move", NEW ending \in Ending, Report(ending)
  PROVE  /\ iocb' \in [IocbAddr -> Iocb]
         /\ \A a \in IocbAddr : a # at => iocb'[a] = iocb[a]
         /\ at \in IocbAddr =>
              /\ iocb'[at].status = ending
              /\ iocb'[at].resid = Current.count - moved
              /\ iocb'[at].count = Current.count
<1>1. CASE at \in IocbAddr
  <2>1. Current = iocb[at] /\ iocb[at] \in Iocb
    BY <1>1 DEF Current, IocbAt, TypeOK
  <2> DEFINE new == [iocb[at] EXCEPT !.status = ending,
                                     !.resid  = Current.count - moved]
  <2>2. Current.count - moved \in 0 .. MaxCount
    BY CurrentType, DcuAssumption DEF Progress, TypeOK, U8
  <2>3. new \in Iocb /\ new.status = ending /\ new.resid = Current.count - moved
    BY <2>1, <2>2 DEF Iocb
  <2>4. new.count = Current.count
    BY <2>1 DEF Iocb
  <2>5. iocb' = [iocb EXCEPT ![at] = new]
    BY <1>1, <2>1 DEF Report, TypeOK, Iocb
  <2> HIDE DEF new
  <2> QED BY <1>1, <2>3, <2>4, <2>5 DEF TypeOK
<1>2. CASE at \notin IocbAddr
  BY <1>2 DEF Report, TypeOK
<1> QED BY <1>1, <1>2

-----------------------------------------------------------------------------
(* The invariant holds at the start. *)
LEMMA Initially ==
  ASSUME Init
  PROVE  IInv
<1>1. TypeOK
  <2>1. ZeroIocb \in Iocb
    BY ZeroIocbType
  <2>2. 0 \in U8 /\ 0 \in 0 .. MaxCount
    BY DcuAssumption DEF U8, U8_MAX
  <2>3. line3 \in Line
    BY DEF Init, Idle, Line, DISK, ActiveHigh
  <2>4. IsDisk(disk)
    BY DcuAssumption DEF Init
  <2>5. /\ chan \in [0 .. 2 -> U8] /\ op \in U8 /\ code \in 0 .. 3
        /\ selftest \in BOOLEAN /\ auxerr \in BOOLEAN /\ unit \in Nat
        /\ timer \in BOOLEAN
    <3>1. chan = [n \in 0 .. 2 |-> 0] /\ op = 0 /\ code = 3
          /\ selftest = FALSE /\ auxerr = FALSE /\ unit = 0 /\ timer = FALSE
      BY DEF Init, DCU_IDLE
    <3>2. chan \in [0 .. 2 -> U8]
      BY <2>2, <3>1
    <3>3. selftest \in BOOLEAN /\ auxerr \in BOOLEAN /\ timer \in BOOLEAN
      BY <3>1
    <3>4. op \in U8 /\ code \in 0 .. 3 /\ unit \in Nat
      BY <2>2, <3>1
    <3> QED BY <3>2, <3>3, <3>4
  <2>6. geom \in [0 .. 1 -> Geometry \cup {Unread}]
    <3>1. geom = [u \in 0 .. 1 |-> Unread]
      BY DEF Init
    <3> QED BY <3>1
  <2>7. /\ phase \in {"cpu", "open", "move"}
        /\ at \in Nat /\ moved \in 0 .. MaxCount /\ failed \in BOOLEAN
        /\ trail \in SUBSET Nat
    BY <2>2 DEF Init
  <2>8. iocb \in [IocbAddr -> Iocb] /\ page \in [Page -> Data]
    BY <2>1, DcuAssumption DEF Init
  <2> QED BY <2>3, <2>4, <2>5, <2>6, <2>7, <2>8 DEF TypeOK
<1>2. line3.level = 1
  BY DEF Init, Idle, DISK, ActiveHigh
<1> QED BY <1>1, <1>2
        DEF Init, IInv, ShapeKnown, Progress, BusyIsUnderway, LineFollowsCode,
            IllegalIsExplained, TrailAcknowledged,
            DCU_BUSY, DCU_ERROR, DCU_DONE, DCU_IDLE

(* Every step keeps the types. *)
LEMMA TypeStep ==
  ASSUME IInv, [AnyNext]_vars
  PROVE  TypeOK'
<1> USE DEF regs, status, walk, memory, vars
<1>0. TypeOK /\ ShapeKnown /\ Progress
  BY DEF IInv
<1>c. {DCU_BUSY, DCU_ERROR, DCU_DONE, DCU_IDLE} \subseteq 0 .. 3
  BY DEF DCU_BUSY, DCU_ERROR, DCU_DONE, DCU_IDLE
<1>z. 0 \in U8 /\ 0 \in 0 .. MaxCount
  BY DcuAssumption DEF U8, U8_MAX
<1>1. ASSUME NEW n \in 0 .. 2, NEW b \in U8, WriteChan(n, b)
      PROVE  TypeOK'
  BY <1>0, <1>1 DEF WriteChan, TypeOK
<1>2. ASSUME NEW b \in U8, WriteOpcode(b)
      PROVE  TypeOK'
  BY <1>0, <1>2, <1>c DEF WriteOpcode, TypeOK
<1>3. CASE Acknowledge
  BY <1>0, <1>3, <1>c, DrivenType DEF Acknowledge, TypeOK
<1>4. CASE AcknowledgeError
  BY <1>0, <1>4 DEF AcknowledgeError, TypeOK
<1>5. CASE StoreIocbs
  BY <1>0, <1>5 DEF StoreIocbs, TypeOK
<1>6. ASSUME NEW p \in Page, NEW d \in Data, StorePage(p, d)
      PROVE  TypeOK'
  BY <1>0, <1>6 DEF StorePage, TypeOK
<1>7. CASE TakeInterrupt
  BY <1>0, <1>7 DEF TakeInterrupt, Taken, Line, TypeOK
<1>8. CASE ExecuteSelftest
  BY <1>0, <1>8, <1>c, FinishType DEF ExecuteSelftest, Expires, TypeOK
<1>9. CASE ExecuteAccepted
  BY <1>0, <1>9, <1>c, FinishType DEF ExecuteAccepted, Expires, TypeOK
<1>10. CASE ExecuteAssdrive
  <2>1. unit' \in Nat
    BY <1>0, <1>10, ArgType DEF ExecuteAssdrive
  <2>2. geom' \in [0 .. 1 -> Geometry \cup {Unread}]
    BY <1>0, <1>10, GeometryReadType DEF ExecuteAssdrive, UnitOk, TypeOK
  <2>3. code' \in 0 .. 3 /\ line3' \in Line
    <3>1. Finish(UnitOk(unit'))
      BY <1>10 DEF ExecuteAssdrive
    <3> QED BY <1>0, <1>c, <3>1, DrivenType DEF Finish, TypeOK
  <2>4. timer' = FALSE /\ UNCHANGED <<chan, op, selftest, auxerr, walk, memory, disk>>
    BY <1>10 DEF ExecuteAssdrive, Expires
  <2> QED BY <1>0, <2>1, <2>2, <2>3, <2>4 DEF TypeOK
<1>11. CASE ExecuteSpecific
  <2>1. code' \in 0 .. 3 /\ line3' \in Line
    <3>1. Finish(UnitOk(unit))
      BY <1>11 DEF ExecuteSpecific
    <3> QED BY <1>0, <1>c, <3>1, DrivenType DEF Finish, TypeOK
  <2> QED BY <1>0, <1>11, <2>1 DEF ExecuteSpecific, Expires, TypeOK
<1>12. CASE ExecuteIllegal
  BY <1>0, <1>12, <1>c, FinishType DEF ExecuteIllegal, Expires, TypeOK
<1>13. CASE ExecuteStart
  <2>1. at' \in Nat
    BY <1>0, <1>13, ArgType DEF ExecuteStart
  <2> QED BY <1>0, <1>13, <1>z, <2>1 DEF ExecuteStart, Expires, TypeOK
<1>14. CASE OpenLink
  <2>1. geom' \in [0 .. 1 -> Geometry \cup {Unread}]
    BY <1>0, <1>14, GeometryReadType DEF OpenLink, UnitOk, TypeOK
  <2> QED BY <1>0, <1>14, <1>z, <2>1 DEF OpenLink, TypeOK
<1>15. ASSUME MoveOne, IsDisk(disk'), page' \in [Page -> Data]
       PROVE  TypeOK'
  <2>1. moved + 1 \in 0 .. MaxCount
    BY <1>0, <1>15, CurrentType, DcuAssumption DEF MoveOne, Moving, TypeOK, U8
  <2> QED BY <1>0, <1>15, <2>1 DEF MoveOne, TypeOK
<1>t. ASSUME Moving
      PROVE  Current.table[moved] \in Page
  BY <1>0, <1>t, CurrentType, DcuAssumption DEF Moving, TypeOK, Iocb, U8
<1>16. CASE WriteSector
  <2>1. page[Current.table[moved]] \in Data
    BY <1>0, <1>16, <1>t DEF WriteSector, MoveOne, TypeOK
  <2> QED BY <1>0, <1>15, <1>16, <2>1, PutSectorType DEF WriteSector, MoveOne
<1>17. CASE FormatSector
  BY <1>0, <1>15, <1>17, PutSectorType, DcuAssumption DEF FormatSector, MoveOne
<1>18. CASE ReadSector
  <2>1. disk[CurrentUnit][CurrentLba] \in Data
    BY <1>0, <1>18, OnDisk DEF ReadSector, MoveOne
  <2>2. page' \in [Page -> Data] /\ IsDisk(disk')
    BY <1>0, <1>18, <2>1 DEF ReadSector, TypeOK
  <2> QED BY <1>15, <1>18, <2>2 DEF ReadSector
<1>19. CASE DriveCheck
  BY <1>0, <1>19 DEF DriveCheck, TypeOK
<1>20. ASSUME NEW ok \in BOOLEAN, NEW ending \in Ending,
              phase = "move", Report(ending), Leave(ok)
       PROVE  TypeOK'
  <2>1. iocb' \in [IocbAddr -> Iocb]
    BY <1>0, <1>20, ReportType
  <2>2. code' \in 0 .. 3 /\ line3' \in Line
    BY <1>0, <1>20, <1>c, FinishType DEF Leave
  <2> QED BY <1>0, <1>20, <1>z, <2>1, <2>2 DEF Report, Leave, TypeOK
<1>e. {IOCB_ES_NONE, IOCB_ES_DRIVE, IOCB_ES_CHAIN, IOCB_ES_DONE} = Ending
  BY DEF Ending
<1>21. CASE EndFailed
  BY <1>20, <1>21, <1>e DEF EndFailed
<1>22. CASE FollowChain
  <2>1. iocb' \in [IocbAddr -> Iocb]
    BY <1>0, <1>22, <1>e, ReportType DEF FollowChain, LinkMoved
  <2>2. Current.chain \in Nat
    BY <1>0, <1>22, CurrentType, DcuAssumption DEF FollowChain
  <2> QED BY <1>0, <1>22, <2>1, <2>2 DEF FollowChain, Report, TypeOK
<1>23. CASE EndDone
  BY <1>20, <1>23, <1>e DEF EndDone, LinkMoved
<1>24. CASE Reset
  <2>1. line3' \in Line
    BY <1>24 DEF Reset, Idle, Line, DISK, ActiveHigh
  <2> QED BY <1>0, <1>24, <1>c, <1>z, <2>1 DEF Reset, TypeOK
<1>25. CASE UNCHANGED vars
  BY <1>0, <1>25 DEF TypeOK, IsDisk
<1> QED
  BY <1>1, <1>2, <1>3, <1>4, <1>5, <1>6, <1>7, <1>8, <1>9, <1>10, <1>11, <1>12,
     <1>13, <1>14, <1>16, <1>17, <1>18, <1>19, <1>21, <1>22, <1>23, <1>24, <1>25
  DEF AnyNext, AnyProcessor, Execute, Transfer

-----------------------------------------------------------------------------
(* The steps of a transfer that move a sector, and the ones that end a     *)
(* link.                                                                   *)
MoveSector == WriteSector \/ FormatSector \/ ReadSector

EndLink == EndFailed \/ FollowChain \/ EndDone

(* While a chain is followed only dcu_transfer itself takes steps.         *)
LEMMA CpuSteps ==
  ASSUME AnyProcessor \/ Execute \/ Reset
  PROVE  phase = "cpu" /\ phase' # "move"
<1>1. ASSUME AnyProcessor
      PROVE  phase = "cpu" /\ phase' = phase
  BY <1>1 DEF AnyProcessor, WriteChan, WriteOpcode, Acknowledge, AcknowledgeError,
              StoreIocbs, StorePage, TakeInterrupt, walk
<1>2. ASSUME Execute
      PROVE  phase = "cpu" /\ phase' # "move"
  <2>1. CASE ExecuteSelftest
    BY <2>1 DEF ExecuteSelftest, Expires, walk
  <2>2. CASE ExecuteAccepted
    BY <2>2 DEF ExecuteAccepted, Expires, walk
  <2>3. CASE ExecuteAssdrive
    BY <2>3 DEF ExecuteAssdrive, Expires, walk
  <2>4. CASE ExecuteSpecific
    BY <2>4 DEF ExecuteSpecific, Expires, walk
  <2>5. CASE ExecuteIllegal
    BY <2>5 DEF ExecuteIllegal, Expires, walk
  <2>6. CASE ExecuteStart
    BY <2>6 DEF ExecuteStart, Expires
  <2> QED BY <1>2, <2>1, <2>2, <2>3, <2>4, <2>5, <2>6 DEF Execute
<1>3. ASSUME Reset
      PROVE  phase = "cpu" /\ phase' = phase
  BY <1>3 DEF Reset, walk
<1> QED BY <1>1, <1>2, <1>3

LEMMA OnlyTransfer ==
  ASSUME phase # "cpu", [AnyNext]_vars
  PROVE  \/ OpenLink \/ MoveSector \/ DriveCheck \/ EndLink
         \/ UNCHANGED vars
BY CpuSteps DEF AnyNext, Transfer, MoveSector, EndLink

(* A link is under way because it has just been opened, or was already.    *)
LEMMA EnterMove ==
  ASSUME [AnyNext]_vars, phase' = "move"
  PROVE  \/ OpenLink \/ MoveSector \/ DriveCheck
         \/ UNCHANGED vars
<1>1. ASSUME EndLink
      PROVE  phase' # "move"
  BY <1>1 DEF EndLink, EndFailed, FollowChain, EndDone, Leave
<1> QED BY <1>1, CpuSteps DEF AnyNext, Transfer, MoveSector, EndLink

LEMMA SameLink ==
  ASSUME UNCHANGED <<at, iocb>>
  PROVE  Current' = Current /\ CurrentUnit' = CurrentUnit
BY DEF Current, CurrentUnit, IocbAt

LEMMA ShapeStep ==
  ASSUME IInv, [AnyNext]_vars
  PROVE  ShapeKnown'
<1> SUFFICES ASSUME phase' = "move", ~failed'
             PROVE  CurrentUnit' \in Drives /\ geom'[CurrentUnit'] \in Geometry
  BY DEF ShapeKnown
<1>0. TypeOK /\ ShapeKnown
  BY DEF IInv
<1>1. CASE OpenLink
  <2>1. CurrentUnit \in Drives /\ geom' = GeometryRead(CurrentUnit)
    BY <1>1 DEF OpenLink, UnitOk
  <2>2. CurrentUnit' = CurrentUnit
    BY <1>1, SameLink DEF OpenLink, memory
  <2> QED BY <1>0, <2>1, <2>2, GeometryReadType
<1>2. CASE MoveSector
  BY <1>0, <1>2, SameLink
     DEF MoveSector, WriteSector, FormatSector, ReadSector, MoveOne, Moving, ShapeKnown
<1>3. CASE DriveCheck
  BY <1>3 DEF DriveCheck
<1>4. CASE UNCHANGED vars
  BY <1>0, <1>4, SameLink DEF vars, walk, memory, ShapeKnown
<1> QED BY <1>1, <1>2, <1>3, <1>4, EnterMove

LEMMA ProgressStep ==
  ASSUME IInv, [AnyNext]_vars
  PROVE  Progress'
<1> SUFFICES ASSUME phase' = "move"
             PROVE  /\ moved' <= Current'.count
                    /\ failed' => Current'.count = 0 \/ moved' < Current'.count
  BY DEF Progress
<1>0. TypeOK /\ Progress
  BY DEF IInv
<1>c. Current.count \in Nat /\ moved \in Nat
  BY <1>0, CurrentType DEF TypeOK
<1>1. CASE OpenLink
  <2>1. Current' = Current /\ moved' = 0
    BY <1>1, SameLink DEF OpenLink, memory
  <2> QED BY <1>c, <2>1
<1>2. CASE MoveSector
  <2>1. /\ Current' = Current /\ moved' = moved + 1
        /\ ~failed' /\ moved < Current.count
    BY <1>2, SameLink
       DEF MoveSector, WriteSector, FormatSector, ReadSector, MoveOne, Moving
  <2> QED BY <1>c, <2>1
<1>3. CASE DriveCheck
  <2>1. Current' = Current /\ moved' = moved /\ moved < Current.count
    BY <1>3, SameLink DEF DriveCheck, Moving, memory
  <2> QED BY <1>c, <2>1
<1>4. CASE UNCHANGED vars
  BY <1>0, <1>4, SameLink DEF vars, walk, memory, Progress
<1> QED BY <1>1, <1>2, <1>3, <1>4, EnterMove

(* Finish, whatever it is told.                                            *)
LEMMA FinishEffect ==
  ASSUME TypeOK, \E ok \in BOOLEAN : Finish(ok)
  PROVE  /\ code' \in {DCU_DONE, DCU_ERROR}
         /\ line3'.level = 0
BY FinishType

(* Every command but DC_START ends at once, done or in error, with the     *)
(* line low; only an opcode the board does not know sets auxerr.           *)
LEMMA ExecuteEffect ==
  ASSUME TypeOK, Execute
  PROVE  \/ ExecuteStart
         \/ /\ code' \in {DCU_DONE, DCU_ERROR}
            /\ line3'.level = 0
            /\ UNCHANGED <<op, walk>>
            /\ auxerr' = auxerr \/ op \notin Implemented
<1>1. CASE ExecuteSelftest
  BY <1>1, FinishEffect DEF ExecuteSelftest
<1>2. CASE ExecuteAccepted
  BY <1>2, FinishEffect DEF ExecuteAccepted, regs
<1>3. CASE ExecuteAssdrive
  <2>1. Finish(UnitOk(unit'))
    BY <1>3 DEF ExecuteAssdrive
  <2>2. code' \in {DCU_DONE, DCU_ERROR} /\ line3'.level = 0
    BY <2>1, DrivenType DEF Finish, TypeOK
  <2> QED BY <1>3, <2>2 DEF ExecuteAssdrive
<1>4. CASE ExecuteSpecific
  <2>1. Finish(UnitOk(unit))
    BY <1>4 DEF ExecuteSpecific
  <2>2. code' \in {DCU_DONE, DCU_ERROR} /\ line3'.level = 0
    BY <2>1, DrivenType DEF Finish, TypeOK
  <2> QED BY <1>4, <2>2 DEF ExecuteSpecific, regs
<1>5. CASE ExecuteIllegal
  BY <1>5, FinishEffect DEF ExecuteIllegal, regs
<1> QED BY <1>1, <1>2, <1>3, <1>4, <1>5 DEF Execute

LEMMA LeaveEffect ==
  ASSUME TypeOK, EndFailed \/ EndDone
  PROVE  /\ code' = IF failed THEN DCU_ERROR ELSE DCU_DONE
         /\ line3'.level = 0
         /\ phase' = "cpu"
         /\ UNCHANGED <<regs, auxerr>>
<1>1. CASE EndFailed
  <2>1. code' = DCU_ERROR /\ failed
    BY <1>1 DEF EndFailed, Leave, Finish
  <2>2. line3'.level = 0
    BY <1>1, FinishEffect DEF EndFailed, Leave
  <2> QED BY <1>1, <2>1, <2>2 DEF EndFailed, Leave, Report
<1>2. CASE EndDone
  <2>1. code' = DCU_DONE /\ ~failed
    BY <1>2 DEF EndDone, LinkMoved, Leave, Finish
  <2>2. line3'.level = 0
    BY <1>2, FinishEffect DEF EndDone, Leave
  <2> QED BY <1>2, <2>1, <2>2 DEF EndDone, Leave, Report
<1> QED BY <1>1, <1>2

(* The steps inside a link touch no register and not the line.             *)
LEMMA WalkEffect ==
  ASSUME OpenLink \/ MoveSector \/ DriveCheck \/ FollowChain
  PROVE  /\ UNCHANGED <<regs, status, timer>>
         /\ phase # "cpu" /\ phase' # "cpu"
<1>1. CASE OpenLink
  BY <1>1 DEF OpenLink
<1>2. CASE MoveSector
  BY <1>2 DEF MoveSector, WriteSector, FormatSector, ReadSector, MoveOne, Moving
<1>3. CASE DriveCheck
  BY <1>3 DEF DriveCheck, Moving
<1>4. CASE FollowChain
  BY <1>4 DEF FollowChain, Report, LinkMoved, status
<1> QED BY <1>1, <1>2, <1>3, <1>4

LEMMA BusyStep ==
  ASSUME IInv, [AnyNext]_vars
  PROVE  BusyIsUnderway'
<1> USE DEF DCU_BUSY, DCU_ERROR, DCU_DONE, DCU_IDLE
<1>0. TypeOK /\ BusyIsUnderway
  BY DEF IInv
<1>1. CASE AnyProcessor
  BY <1>0, <1>1 DEF AnyProcessor, WriteChan, WriteOpcode, Acknowledge,
                    AcknowledgeError, StoreIocbs, StorePage, TakeInterrupt,
                    status, walk, BusyIsUnderway
<1>2. CASE Execute
  <2>1. CASE ExecuteStart
    BY <2>1 DEF ExecuteStart, BusyIsUnderway
  <2> QED BY <1>0, <1>2, <2>1, ExecuteEffect DEF BusyIsUnderway
<1>3. CASE OpenLink \/ MoveSector \/ DriveCheck \/ FollowChain
  BY <1>3, WalkEffect DEF BusyIsUnderway
<1>4. CASE EndFailed \/ EndDone
  BY <1>0, <1>4, LeaveEffect DEF BusyIsUnderway
<1>5. CASE Reset
  BY <1>5 DEF Reset, BusyIsUnderway
<1>6. CASE UNCHANGED vars
  BY <1>0, <1>6 DEF vars, status, walk, BusyIsUnderway
<1> QED BY <1>1, <1>2, <1>3, <1>4, <1>5, <1>6 DEF AnyNext, Transfer, MoveSector

LEMMA LineStep ==
  ASSUME IInv, [AnyNext]_vars
  PROVE  LineFollowsCode'
<1> USE DEF DCU_BUSY, DCU_ERROR, DCU_DONE, DCU_IDLE
<1>0. TypeOK /\ LineFollowsCode
  BY DEF IInv
<1>1. CASE AnyProcessor
  <2>1. CASE Acknowledge
    BY <1>0, <2>1, DrivenType DEF Acknowledge, LineFollowsCode, TypeOK
  <2>2. CASE TakeInterrupt
    BY <1>0, <2>2 DEF TakeInterrupt, Taken, Line, LineFollowsCode, TypeOK
  <2> QED BY <1>0, <1>1, <2>1, <2>2
          DEF AnyProcessor, WriteChan, WriteOpcode, AcknowledgeError, StoreIocbs,
              StorePage, status, LineFollowsCode
<1>2. CASE Execute
  <2>1. CASE ExecuteStart
    BY <1>0, <2>1 DEF ExecuteStart, status, LineFollowsCode
  <2> QED BY <1>0, <1>2, <2>1, ExecuteEffect DEF LineFollowsCode
<1>3. CASE OpenLink \/ MoveSector \/ DriveCheck \/ FollowChain
  BY <1>0, <1>3, WalkEffect DEF status, LineFollowsCode
<1>4. CASE EndFailed \/ EndDone
  BY <1>0, <1>4, LeaveEffect DEF LineFollowsCode
<1>5. CASE Reset
  BY <1>5 DEF Reset, Idle, DISK, ActiveHigh, LineFollowsCode
<1>6. CASE UNCHANGED vars
  BY <1>0, <1>6 DEF vars, status, LineFollowsCode
<1> QED BY <1>1, <1>2, <1>3, <1>4, <1>5, <1>6 DEF AnyNext, Transfer, MoveSector

LEMMA IllegalStep ==
  ASSUME IInv, [AnyNext]_vars
  PROVE  IllegalIsExplained'
<1>c. /\ DCU_IDLE # DCU_BUSY /\ DCU_DONE # DCU_BUSY /\ DCU_ERROR # DCU_BUSY
      /\ DCU_C_START \in Implemented
  BY DEF DCU_BUSY, DCU_ERROR, DCU_DONE, DCU_IDLE, Implemented
<1>0. TypeOK /\ IllegalIsExplained
  BY DEF IInv
<1>1. CASE AnyProcessor
  BY <1>0, <1>1, <1>c DEF AnyProcessor, WriteChan, WriteOpcode, Acknowledge,
              AcknowledgeError, StoreIocbs, StorePage, TakeInterrupt,
              status, regs, IllegalIsExplained
<1>2. CASE Execute
  <2>1. CASE ExecuteStart
    BY <1>0, <1>c, <2>1 DEF ExecuteStart, regs, status, IllegalIsExplained
  <2> QED BY <1>0, <1>2, <1>c, <2>1, ExecuteEffect DEF IllegalIsExplained
<1>3. CASE OpenLink \/ MoveSector \/ DriveCheck \/ FollowChain
  BY <1>0, <1>3, WalkEffect DEF status, regs, IllegalIsExplained
<1>4. CASE EndFailed \/ EndDone
  BY <1>0, <1>4, <1>c, LeaveEffect DEF regs, IllegalIsExplained
<1>5. CASE Reset
  BY <1>5 DEF Reset, IllegalIsExplained
<1>6. CASE UNCHANGED vars
  BY <1>0, <1>6 DEF vars, status, regs, IllegalIsExplained
<1> QED BY <1>1, <1>2, <1>3, <1>4, <1>5, <1>6 DEF AnyNext, Transfer, MoveSector

LEMMA TrailStep ==
  ASSUME IInv, [AnyNext]_vars
  PROVE  TrailAcknowledged'
<1> SUFFICES ASSUME phase' # "cpu", NEW a \in trail' \cap IocbAddr
             PROVE  iocb'[a].status = IOCB_ES_CHAIN /\ iocb'[a].resid = 0
  BY DEF TrailAcknowledged
<1>0. TypeOK /\ Progress /\ TrailAcknowledged
  BY DEF IInv
<1>1. CASE UNCHANGED <<phase, trail, iocb>>
  BY <1>0, <1>1 DEF TrailAcknowledged
<1>2. CASE AnyProcessor
  BY <1>1, <1>2, CpuSteps DEF AnyProcessor, WriteChan, WriteOpcode, Acknowledge,
                        AcknowledgeError, StoreIocbs, StorePage, TakeInterrupt, walk
<1>3. CASE Execute
  <2>1. CASE ExecuteStart
    BY <2>1 DEF ExecuteStart
  <2> QED BY <1>0, <1>3, <2>1, CpuSteps, ExecuteEffect DEF walk
<1>4. CASE OpenLink
  BY <1>0, <1>4 DEF OpenLink, memory, TrailAcknowledged
<1>5. CASE MoveSector
  BY <1>0, <1>5
     DEF MoveSector, WriteSector, FormatSector, ReadSector, MoveOne, Moving,
         TrailAcknowledged
<1>6. CASE DriveCheck
  BY <1>1, <1>6 DEF DriveCheck, memory
<1>7. CASE EndFailed \/ EndDone
  BY <1>0, <1>7, LeaveEffect
<1>8. CASE FollowChain
  <2>1. Report(IOCB_ES_CHAIN) /\ phase = "move" /\ moved = Current.count
    BY <1>8 DEF FollowChain, LinkMoved
  <2>2. IOCB_ES_CHAIN \in Ending
    BY DEF Ending
  <2>3. CASE a = at
    BY <1>0, <2>1, <2>2, <2>3, ReportType DEF TypeOK
  <2>4. CASE a # at
    <3>1. a \in trail /\ iocb'[a] = iocb[a]
      BY <1>0, <1>8, <2>1, <2>2, <2>4, ReportType DEF FollowChain
    <3> QED BY <1>0, <2>1, <3>1 DEF TrailAcknowledged
  <2> QED BY <2>3, <2>4
<1>9. CASE Reset
  BY <1>9, CpuSteps DEF Reset, walk
<1>10. CASE UNCHANGED vars
  BY <1>1, <1>10 DEF vars, walk, memory
<1> QED BY <1>2, <1>3, <1>4, <1>5, <1>6, <1>7, <1>8, <1>9, <1>10
        DEF AnyNext, Transfer, MoveSector

-----------------------------------------------------------------------------
LEMMA IInvStep ==
  ASSUME IInv, [AnyNext]_vars
  PROVE  IInv'
BY TypeStep, ShapeStep, ProgressStep, BusyStep, LineStep, IllegalStep, TrailStep
   DEF IInv

THEOREM Invariance == Spec => []IInv
<1>1. IInv /\ [Next]_vars => IInv'
  BY IInvStep, AnyCovers DEF IInv
<1> QED BY Initially, <1>1, PTL DEF Spec

(* Type correctness: whatever the processor does, no transfer leaves an    *)
(* image, a page or a register with a value of the wrong kind.             *)
THEOREM TypeCorrect == Spec => []TypeOK
BY Invariance, PTL DEF IInv

(* A status of "busy" is always going to be resolved. *)
THEOREM NeverStuckBusy == Spec => []BusyIsUnderway
BY Invariance, PTL DEF IInv

(* Line 3 is low behind a finished command, high behind an idle controller.*)
THEOREM LineIsStatus == Spec => []LineFollowsCode
BY Invariance, PTL DEF IInv

(* The illegal-command bit accuses the opcode in the register. *)
THEOREM IllegalCommand == Spec => []IllegalIsExplained
BY Invariance, PTL DEF IInv

(* No address is computed from a shape that was never read. *)
THEOREM ShapeIsKnown == Spec => []ShapeKnown
BY Invariance, PTL DEF IInv

(* The links a walk has left behind are acknowledged in full. *)
THEOREM Acknowledged == Spec => []TrailAcknowledged
BY Invariance, PTL DEF IInv

(* The sectors moved were on the drive, and the one a drive check stopped  *)
(* at is not.                                                              *)
Accounted ==
  phase = "move" =>
    /\ moved > 0 =>
         /\ UnitOk(CurrentUnit) /\ geom[CurrentUnit] \in Geometry
         /\ CurrentLba <= Capacity[CurrentUnit]
    /\ failed =>
         \/ ~UnitOk(CurrentUnit) /\ moved = 0
         \/ UnitOk(CurrentUnit) /\ geom[CurrentUnit] \in Geometry /\ ~OnImage

LEMMA AccountedStep ==
  ASSUME IInv, Accounted, [AnyNext]_vars
  PROVE  Accounted'
<1> SUFFICES ASSUME phase' = "move"
             PROVE  Accounted'
  BY DEF Accounted
<1>0. TypeOK /\ ShapeKnown
  BY DEF IInv
<1>1. CASE OpenLink
  <2>1. CurrentUnit' = CurrentUnit /\ moved' = 0
    BY <1>1, SameLink DEF OpenLink, memory
  <2>2. failed' => ~UnitOk(CurrentUnit)
    BY <1>1 DEF OpenLink
  <2>3. ~(moved' > 0)
    BY <2>1
  <2> QED BY <2>1, <2>2, <2>3 DEF Accounted, UnitOk
<1>2. CASE MoveSector
  <2>0. Moving /\ OnImage
    BY <1>2 DEF MoveSector, WriteSector, FormatSector, ReadSector, MoveOne
  <2>1. /\ Current' = Current /\ CurrentUnit' = CurrentUnit /\ geom' = geom
        /\ moved' = moved + 1 /\ ~failed'
    BY <1>2, SameLink
       DEF MoveSector, WriteSector, FormatSector, ReadSector, MoveOne, Moving
  <2>2. CurrentUnit \in Drives /\ geom[CurrentUnit] \in Geometry
    BY <1>0, <2>0 DEF Moving, ShapeKnown
  <2>3. /\ FirstLba \in Nat /\ CurrentLba = FirstLba + moved
        /\ CurrentLba' = FirstLba + moved'
    BY <1>0, <2>1, <2>2, PlaceType DEF CurrentLba, FirstLba
  <2>4. CurrentLba' <= Capacity[CurrentUnit]
    BY <1>0, <2>0, <2>1, <2>2, <2>3, DcuAssumption DEF OnImage, TypeOK
  <2> QED BY <2>1, <2>2, <2>4 DEF Accounted, UnitOk
<1>3. CASE DriveCheck
  <2>0. Moving /\ ~OnImage
    BY <1>3 DEF DriveCheck
  <2>1. /\ CurrentUnit' = CurrentUnit /\ CurrentLba' = CurrentLba
        /\ moved' = moved /\ geom' = geom
    BY <1>3, SameLink DEF DriveCheck, memory, CurrentLba, FirstLba
  <2>2. CurrentUnit \in Drives /\ geom[CurrentUnit] \in Geometry
    BY <1>0, <2>0 DEF Moving, ShapeKnown
  <2> QED BY <2>0, <2>1, <2>2 DEF Accounted, Moving, OnImage, UnitOk
<1>4. CASE UNCHANGED vars
  BY <1>4, SameLink DEF vars, walk, memory, Accounted, CurrentLba, FirstLba, OnImage
<1> QED BY <1>1, <1>2, <1>3, <1>4, EnterMove

(* Of a link that has come to its end those sectors were moved that are on *)
(* a drive.                                                                *)
LEMMA MovedIfReached ==
  ASSUME IInv, Accounted, EndFailed \/ EndDone,
         NEW i \in 0 .. Current.count - 1
  PROVE  i < moved <=> Reached(i)
<1>0. TypeOK /\ Progress /\ ShapeKnown /\ phase = "move"
  BY DEF IInv, EndFailed, EndDone, LinkMoved
<1>1. Current.count \in Nat /\ moved \in Nat /\ moved <= Current.count
  BY <1>0, CurrentType DEF Progress, TypeOK
<1>2. CASE ~UnitOk(CurrentUnit)
  <2>1. moved = 0
    BY <1>0, <1>1, <1>2 DEF Accounted
  <2> QED BY <1>2, <2>1 DEF Reached
<1>3. CASE UnitOk(CurrentUnit)
  <2>c. Capacity[CurrentUnit] \in Nat
    BY <1>3, DcuAssumption DEF UnitOk
  <2>1. geom[CurrentUnit] \in Geometry
    BY <1>0, <1>3 DEF Accounted, ShapeKnown
  <2>2. FirstLba \in Nat /\ CurrentLba = FirstLba + moved
    BY <1>0, <2>1, PlaceType
  <2>3. Reached(i) <=> FirstLba + i < Capacity[CurrentUnit]
    <3>1. CurrentLba - moved = FirstLba
      BY <1>1, <2>2
    <3> QED BY <1>3, <3>1 DEF Reached
  <2>4. ASSUME i < moved
        PROVE  FirstLba + i < Capacity[CurrentUnit]
    <3>1. FirstLba + moved <= Capacity[CurrentUnit]
      BY <1>0, <1>1, <2>2, <2>4 DEF Accounted
    <3> QED BY <1>1, <2>c, <2>2, <2>4, <3>1
  <2>5. ASSUME ~(i < moved)
        PROVE  ~(FirstLba + i < Capacity[CurrentUnit])
    <3>a. ~failed => moved = Current.count
      BY DEF EndFailed, EndDone, LinkMoved
    <3>1. failed
      BY <1>1, <2>5, <3>a
    <3>2. ~(FirstLba + moved < Capacity[CurrentUnit])
      BY <1>0, <1>3, <2>2, <3>1 DEF Accounted, OnImage
    <3> QED BY <1>1, <2>c, <2>2, <2>5, <3>2
  <2> QED BY <2>3, <2>4, <2>5
<1> QED BY <1>2, <1>3

(* The code and the IOCBs tell the driver the same outcome, down to the    *)
(* sector.                                                                 *)
THEOREM Outcome == Spec => OutcomeReported
<1>1. ASSUME IInv, Accounted, [AnyNext]_vars, phase = "move", phase' = "cpu"
      PROVE  /\ \A a \in (trail \cap IocbAddr) \ {at} :
                  iocb'[a].status = IOCB_ES_CHAIN /\ iocb'[a].resid = 0
             /\ at \in IocbAddr =>
                  LET last == iocb'[at] IN
                  /\ code' = DCU_DONE  => last.status = IOCB_ES_DONE /\ last.resid = 0
                  /\ code' = DCU_ERROR => last.status = IOCB_ES_DRIVE
                  /\ last.resid = 0 /\ last.count > 0 => code' = DCU_DONE
                  /\ last.resid = last.count - moved
                  /\ \A i \in 0 .. last.count - 1 : i < moved <=> Reached(i)
             /\ code' \in {DCU_DONE, DCU_ERROR}
  <2>0. TypeOK /\ Progress /\ TrailAcknowledged
    BY <1>1 DEF IInv
  <2>1. EndFailed \/ EndDone
    <3>1. ~FollowChain /\ ~UNCHANGED vars
      BY <1>1 DEF FollowChain, vars, walk
    <3> QED BY <1>1, <3>1, OnlyTransfer, WalkEffect DEF EndLink
  <2>c. /\ {IOCB_ES_DRIVE, IOCB_ES_DONE} \subseteq Ending
        /\ DCU_DONE # DCU_ERROR
    BY DEF Ending, DCU_DONE, DCU_ERROR
  <2>2. /\ code' = IF failed THEN DCU_ERROR ELSE DCU_DONE
        /\ Report(IF failed THEN IOCB_ES_DRIVE ELSE IOCB_ES_DONE)
        /\ ~failed => moved = Current.count
    BY <2>0, <2>1, LeaveEffect DEF EndFailed, EndDone, LinkMoved
  <2>3. ASSUME NEW a \in (trail \cap IocbAddr) \ {at}
        PROVE  iocb'[a].status = IOCB_ES_CHAIN /\ iocb'[a].resid = 0
    BY <1>1, <2>0, <2>2, <2>3, <2>c, ReportType DEF TrailAcknowledged
  <2>4. ASSUME at \in IocbAddr
        PROVE  /\ iocb'[at].status = IF failed THEN IOCB_ES_DRIVE ELSE IOCB_ES_DONE
               /\ iocb'[at].resid = Current.count - moved
               /\ iocb'[at].count = Current.count
    BY <1>1, <2>0, <2>2, <2>4, <2>c, ReportType
  <2>5. /\ Current.count \in Nat /\ moved \in Nat
        /\ failed => Current.count = 0 \/ moved < Current.count
    BY <1>1, <2>0, CurrentType DEF Progress, TypeOK
  <2>6. code' \in {DCU_DONE, DCU_ERROR}
    BY <2>2
  <2>7. ASSUME at \in IocbAddr, code' = DCU_DONE
        PROVE  iocb'[at].status = IOCB_ES_DONE /\ iocb'[at].resid = 0
    <3>1. ~failed
      BY <2>2, <2>7, <2>c
    <3> QED BY <2>2, <2>4, <2>5, <2>7, <3>1
  <2>8. ASSUME at \in IocbAddr, code' = DCU_ERROR
        PROVE  iocb'[at].status = IOCB_ES_DRIVE
    <3>1. failed
      BY <2>2, <2>8, <2>c
    <3> QED BY <2>4, <2>8, <3>1
  <2>9. ASSUME at \in IocbAddr, iocb'[at].resid = 0, iocb'[at].count > 0
        PROVE  code' = DCU_DONE
    <3>1. ~failed
      BY <2>4, <2>5, <2>9
    <3> QED BY <2>2, <3>1
  <2>10. ASSUME at \in IocbAddr
         PROVE  /\ iocb'[at].resid = iocb'[at].count - moved
                /\ \A i \in 0 .. iocb'[at].count - 1 : i < moved <=> Reached(i)
    BY <1>1, <2>1, <2>4, <2>10, MovedIfReached
  <2> QED BY <2>3, <2>6, <2>7, <2>8, <2>9, <2>10
<1>2. IInv /\ Accounted /\ [Next]_vars =>
        [phase = "move" /\ phase' = "cpu" =>
           /\ \A a \in (trail \cap IocbAddr) \ {at} :
                iocb'[a].status = IOCB_ES_CHAIN /\ iocb'[a].resid = 0
           /\ at \in IocbAddr =>
                LET last == iocb'[at] IN
                /\ code' = DCU_DONE  => last.status = IOCB_ES_DONE /\ last.resid = 0
                /\ code' = DCU_ERROR => last.status = IOCB_ES_DRIVE
                /\ last.resid = 0 /\ last.count > 0 => code' = DCU_DONE
                /\ last.resid = last.count - moved
                /\ \A i \in 0 .. last.count - 1 : i < moved <=> Reached(i)
           /\ code' \in {DCU_DONE, DCU_ERROR}]_vars
  BY <1>1, AnyCovers DEF IInv
<1>3. Init => Accounted
  BY DEF Init, Accounted
<1>4. IInv /\ Accounted /\ [Next]_vars => Accounted'
  BY AccountedStep, AnyCovers DEF IInv
<1> QED BY Invariance, <1>2, <1>3, <1>4, PTL DEF Spec, OutcomeReported

(* A drive's shape changes only by being forgotten at a reset. *)
THEOREM ShapeKept == Spec => ShapeKeptUntilReset
<1>1. ASSUME IInv, [AnyNext]_vars, NEW u \in Drives, geom[u] # Unread
      PROVE  geom'[u] \in {geom[u], Unread}
  <2>0. TypeOK
    BY <1>1 DEF IInv
  <2>1. ASSUME NEW v \in Drives, geom' = GeometryRead(v)
        PROVE  geom'[u] = geom[u]
    <3>1. u \in 0 .. 1 /\ v \in 0 .. 1
      BY DcuAssumption
    <3>2. CASE u = v
      BY <1>1, <2>0, <2>1, <3>2, GeometryReadType
    <3>3. CASE u # v
      <4>1. geom \in [0 .. 1 -> Geometry \cup {Unread}]
        BY <2>0 DEF TypeOK
      <4>2. \E g : GeometryRead(v) = geom \/ GeometryRead(v) = [geom EXCEPT ![v] = g]
        BY DEF GeometryRead
      <4> QED BY <2>1, <3>1, <3>3, <4>1, <4>2
    <3> QED BY <3>2, <3>3
  <2>2. geom' = geom \/ (\E v \in Drives : geom' = GeometryRead(v)) \/ Reset
    <3>1. CASE ExecuteAssdrive
      BY <3>1 DEF ExecuteAssdrive, UnitOk
    <3>2. CASE OpenLink
      BY <3>2 DEF OpenLink, UnitOk
    <3>3. CASE Execute /\ ~ExecuteAssdrive
      BY <3>3 DEF Execute, ExecuteSelftest, ExecuteAccepted, ExecuteSpecific,
                  ExecuteIllegal, ExecuteStart
    <3>4. CASE AnyProcessor
      BY <3>4 DEF AnyProcessor, WriteChan, WriteOpcode, Acknowledge,
                  AcknowledgeError, StoreIocbs, StorePage, TakeInterrupt
    <3>5. CASE MoveSector
      BY <3>5 DEF MoveSector, WriteSector, FormatSector, ReadSector, MoveOne
    <3>6. CASE DriveCheck \/ EndLink
      BY <3>6 DEF DriveCheck, EndLink, EndFailed, FollowChain, EndDone, Report
    <3> QED BY <1>1, <3>1, <3>2, <3>3, <3>4, <3>5, <3>6
            DEF AnyNext, Transfer, MoveSector, EndLink, vars
  <2>3. ASSUME Reset
        PROVE  geom'[u] = Unread
    <3>1. u \in 0 .. 1
      BY DcuAssumption
    <3> QED BY <2>3, <3>1 DEF Reset
  <2> QED BY <2>1, <2>2, <2>3
<1>2. IInv /\ [Next]_vars =>
        [\A u \in Drives : geom[u] # Unread => geom'[u] \in {geom[u], Unread}]_vars
  BY <1>1, AnyCovers DEF IInv
<1> QED BY Invariance, <1>2, PTL DEF Spec, ShapeKeptUntilReset

-----------------------------------------------------------------------------
(* The loop invariant of dcu_transfer, for every count, every page table   *)
(* (pages named twice included) and every image.                           *)
LEMMA PrefixStep ==
  ASSUME IInv, PrefixMoved, [AnyNext]_vars
  PROVE  PrefixMoved'
<1> DEFINE P(n, i) ==
             LET sector == disk[CurrentUnit][n]
                 target == Current.table[i]
             IN  /\ Current.opcode = DCU_C_WRITE  => sector = page[target]
                 /\ Current.opcode = DCU_C_FORMAT => sector = Zeros
                 /\ Current.opcode \notin {DCU_C_WRITE, DCU_C_FORMAT} =>
                      \/ page[target] = sector
                      \/ \E j \in i + 1 .. moved - 1 : Current.table[j] = target
<1> SUFFICES ASSUME phase' = "move", ~failed', NEW i \in 0 .. moved' - 1
             PROVE  P(CurrentLba - moved + i, i)'
  BY DEF PrefixMoved
<1>0. TypeOK /\ ShapeKnown
  BY DEF IInv
<1>1. CASE OpenLink
  BY <1>1 DEF OpenLink
<1>2. CASE MoveSector
  <2>0. Moving /\ OnImage
    BY <1>2 DEF MoveSector, WriteSector, FormatSector, ReadSector, MoveOne
  <2> DEFINE u    == CurrentUnit
             from == CurrentLba - moved
  <2>1. /\ moved \in Nat /\ from \in Nat /\ CurrentLba = from + moved
        /\ i \in 0 .. moved
        /\ moved' = moved + 1
    <3>1. from \in Nat /\ CurrentLba \in Nat /\ moved \in Nat
      BY <1>0, <2>0, LbaType DEF Moving, TypeOK
    <3>2. moved' = moved + 1
      BY <1>2 DEF MoveSector, WriteSector, FormatSector, ReadSector, MoveOne
    <3> QED BY <3>1, <3>2
  <2>2. /\ Current' = Current /\ CurrentUnit' = u
        /\ (CurrentLba - moved + i)' = from + i
    <3>1. Current' = Current /\ CurrentUnit' = u /\ geom' = geom
      BY <1>2, SameLink
         DEF MoveSector, WriteSector, FormatSector, ReadSector, MoveOne
    <3>a. FirstLba \in Nat
      BY <1>0, <2>0, LbaType DEF Moving
    <3>b. FirstLba' = FirstLba
      BY <3>1 DEF FirstLba
    <3>c. CurrentLba = FirstLba + moved /\ CurrentLba' = FirstLba' + moved'
      BY DEF CurrentLba, FirstLba
    <3>2. (CurrentLba - moved)' = from
      BY <2>1, <3>a, <3>b, <3>c
    <3> QED BY <3>1, <3>2
  <2>3. i < moved => P(from + i, i)
    BY <2>0, <2>1 DEF PrefixMoved, Moving
  <2>4. /\ u \in Drives /\ CurrentLba \in 0 .. Capacity[u] - 1
        /\ disk[u] \in [0 .. Capacity[u] - 1 -> Data]
        /\ disk = [v \in Drives |-> disk[v]]
    BY <1>0, <2>0, OnDisk DEF TypeOK, IsDisk
  <2>5. from + i \in 0 .. Capacity[u] - 1
    BY <2>1, <2>4, DcuAssumption
  <2> DEFINE target(j) == Current.table[j]
             sector    == disk'[u][from + i]
  <2>t. target(moved) \in Page /\ target(i) \in Page
    BY <1>0, <2>0, <2>1, CurrentType, DcuAssumption DEF Moving, Iocb, U8
  <2>6. CASE WriteSector
    <3>1. /\ page[target(moved)] \in Data
          /\ page' = page /\ Current.opcode = DCU_C_WRITE
          /\ PutSector(page[target(moved)])
      BY <1>0, <2>6, <2>t DEF WriteSector, PutSector, TypeOK
    <3>2. sector = IF from + i = CurrentLba THEN page[target(moved)]
                                            ELSE disk[u][from + i]
      BY <1>0, <2>0, <2>5, <3>1, PutSectorEffect
    <3>3. sector = page[target(i)]
      <4>1. CASE i = moved
        BY <2>1, <3>2, <4>1
      <4>2. CASE i < moved
        BY <2>1, <2>3, <3>1, <3>2, <4>2
      <4> QED BY <2>1, <4>1, <4>2
    <3>4. DCU_C_WRITE # DCU_C_FORMAT
      BY DEF DCU_C_WRITE, DCU_C_FORMAT
    <3> QED BY <2>2, <3>1, <3>3, <3>4
  <2>7. CASE FormatSector
    <3>1. page' = page /\ Current.opcode = DCU_C_FORMAT /\ PutSector(Zeros)
      BY <2>7 DEF FormatSector, PutSector
    <3>2. sector = IF from + i = CurrentLba THEN Zeros ELSE disk[u][from + i]
      BY <1>0, <2>0, <2>5, <3>1, PutSectorEffect, DcuAssumption
    <3>3. sector = Zeros
      <4>1. CASE i = moved
        BY <2>1, <3>2, <4>1
      <4>2. CASE i < moved
        BY <2>1, <2>3, <3>1, <3>2, <4>2
      <4> QED BY <2>1, <4>1, <4>2
    <3>4. DCU_C_WRITE # DCU_C_FORMAT
      BY DEF DCU_C_WRITE, DCU_C_FORMAT
    <3> QED BY <2>2, <3>1, <3>3, <3>4
  <2>8. CASE ReadSector
    <3>1. /\ disk' = disk
          /\ Current.opcode \notin {DCU_C_WRITE, DCU_C_FORMAT}
          /\ page' = [page EXCEPT ![target(moved)] = disk[u][CurrentLba]]
      BY <2>8 DEF ReadSector
    <3>2. page \in [Page -> Data]
      BY <1>0 DEF TypeOK
    <3>3. \/ page'[target(i)] = sector
          \/ \E j \in i + 1 .. moved : target(j) = target(i)
      <4>1. CASE i = moved
        BY <2>1, <2>t, <3>1, <3>2, <4>1
      <4>2. CASE i < moved /\ target(moved) = target(i)
        BY <2>1, <4>2
      <4>3. CASE i < moved /\ target(moved) # target(i)
        <5>1. page'[target(i)] = page[target(i)]
          BY <2>t, <3>1, <3>2, <4>3
        <5>2. \/ page[target(i)] = disk[u][from + i]
              \/ \E j \in i + 1 .. moved - 1 : target(j) = target(i)
          BY <2>3, <3>1, <4>3
        <5> QED BY <2>1, <3>1, <5>1, <5>2
      <4> QED BY <2>1, <4>1, <4>2, <4>3
    <3> QED BY <2>1, <2>2, <3>1, <3>3
  <2> QED BY <1>2, <2>6, <2>7, <2>8 DEF MoveSector
<1>3. CASE DriveCheck
  BY <1>3 DEF DriveCheck
<1>4. CASE UNCHANGED vars
  <2>1. Current' = Current /\ CurrentUnit' = CurrentUnit /\ CurrentLba' = CurrentLba
    BY <1>4, SameLink DEF vars, walk, memory, CurrentLba, FirstLba
  <2>2. P(CurrentLba - moved + i, i)
    BY <1>4 DEF PrefixMoved, vars, walk
  <2> QED BY <1>4, <2>1, <2>2 DEF vars, walk, memory
<1> QED BY <1>1, <1>2, <1>3, <1>4, EnterMove

(* The prefix a link has moved is exactly where it belongs. *)
THEOREM Prefix == Spec => []PrefixMoved
<1>1. Init => PrefixMoved
  BY DEF Init, PrefixMoved
<1>2. IInv /\ PrefixMoved /\ [Next]_vars => PrefixMoved'
  BY PrefixStep, AnyCovers DEF IInv
<1> QED BY Invariance, <1>1, <1>2, PTL DEF Spec
=============================================================================
