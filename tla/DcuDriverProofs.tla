-------------------------- MODULE DcuDriverProofs --------------------------
(***************************************************************************)
(* The kernel never sleeps through the completion of its command, for      *)
(* every set of requests, every disk and any number of resets.             *)
(*                                                                         *)
(* Why it needs more than the board: an edge is latched only if line 3 is  *)
(* high when the command ends.  A reset leaves a pending command running,  *)
(* so the line may be low behind the back of the driver; what heals it is  *)
(* that the monitor has to have a command of its own answered and          *)
(* acknowledged before the kernel can start (loaded).  Handshake says that *)
(* at every step of a driver: who is waiting for what, and which way the   *)
(* line points.                                                            *)
(*                                                                         *)
(* The answer a driver takes is about its own request (OursInv): from the  *)
(* argument bytes over the registers and the IOCBs to the links behind and *)
(* ahead of the board, it is one errand that is carried along.             *)
(*                                                                         *)
(* With both, board and drivers implement DiskService: what is left of the *)
(* chain is the list of jobs, and each step of the board is the next job,  *)
(* or the answer, or nothing the software can see.                         *)
(***************************************************************************)
EXTENDS DcuDriver, DcuProofs, SequenceTheorems

Handshake ==
  /\ line3 \in Line
  /\ code \in 0 .. 3
  /\ phase # "cpu" => step = "wait" /\ code = DCU_BUSY /\ ~timer
  /\ timer /\ op = DCU_C_START => step = "wait" /\ code = DCU_BUSY
  /\ step \in {"wait", "answer"} /\ code # DCU_BUSY => ~timer
  /\ step = "answer" => code # DCU_BUSY
  /\ mode = "kernel" => loaded
  /\ loaded /\ step \notin {"wait", "answer"} =>
       code = DCU_IDLE /\ ~timer /\ line3.level = 1
  /\ loaded /\ step = "wait" /\ code = DCU_BUSY => line3.level = 1

DriverInv == Handshake /\ NoLostInterrupt

LEMMA DrivenLine ==
  ASSUME line3 \in Line, NEW level \in {0, 1}
  PROVE  /\ Driven(line3, DISK, level) \in Line
         /\ Driven(line3, DISK, level).level = level
         /\ level = 0 /\ line3.level = 1 => Driven(line3, DISK, level).latched
<1> DEFINE edge == line3.latched \/ (Active(DISK, level) /\ ~Active(DISK, line3.level))
<1>1. line3.level \in {0, 1} /\ line3.latched \in BOOLEAN
  BY DEF Line
<1>2. \A v \in {0, 1} : Active(DISK, v) <=> v = 0
  BY DEF Active, DISK, ActiveHigh
<1>3. edge \in BOOLEAN
  BY <1>1, <1>2
<1>4. level = 0 /\ line3.level = 1 => edge
  BY <1>1, <1>2
<1>5. Driven(line3, DISK, level) = [level |-> level, latched |-> edge]
  BY DEF Driven
<1> HIDE DEF edge
<1> QED BY <1>3, <1>4, <1>5 DEF Line

(* The end of any command: the line falls, and an edge is latched if it was*)
(* high.                                                                   *)
LEMMA Falls ==
  ASSUME line3 \in Line, line3' = Driven(line3, DISK, 0)
  PROVE  line3' \in Line /\ (line3.level = 1 => line3'.latched)
BY DrivenLine

(* What the board does by itself, seen from the driver.                    *)
LEMMA BoardEffect ==
  ASSUME Execute \/ Transfer
  PROVE  \/ /\ phase = "cpu" /\ timer /\ ~timer' /\ phase' \in {"cpu", "open"}
            /\ phase' = "open" => UNCHANGED <<code, line3>> /\ op = DCU_C_START
            /\ phase' = "cpu"  => /\ code' \in {DCU_DONE, DCU_ERROR}
                                  /\ line3' = Driven(line3, DISK, 0)
         \/ /\ phase # "cpu" /\ phase' # "cpu"
            /\ UNCHANGED <<code, line3, timer, op>>
         \/ /\ phase # "cpu" /\ phase' = "cpu" /\ timer' = timer
            /\ code' \in {DCU_DONE, DCU_ERROR}
            /\ line3' = Driven(line3, DISK, 0)
<1>1. CASE ExecuteSelftest
  BY <1>1 DEF ExecuteSelftest, Expires, Finish, walk
<1>2. CASE ExecuteAccepted
  BY <1>2 DEF ExecuteAccepted, Expires, Finish, walk
<1>3. CASE ExecuteAssdrive
  BY <1>3 DEF ExecuteAssdrive, Expires, Finish, walk
<1>4. CASE ExecuteSpecific
  BY <1>4 DEF ExecuteSpecific, Expires, Finish, walk
<1>5. CASE ExecuteIllegal
  BY <1>5 DEF ExecuteIllegal, Expires, Finish, walk
<1>6. CASE ExecuteStart
  BY <1>6 DEF ExecuteStart, Expires, status
<1>7. CASE OpenLink
  BY <1>7 DEF OpenLink, status, regs
<1>8. CASE WriteSector \/ FormatSector \/ ReadSector
  BY <1>8 DEF WriteSector, FormatSector, ReadSector, MoveOne, Moving, status, regs
<1>9. CASE DriveCheck
  BY <1>9 DEF DriveCheck, Moving, status, regs
<1>10. CASE EndFailed
  BY <1>10 DEF EndFailed, Report, Leave, Finish
<1>11. CASE FollowChain
  BY <1>11 DEF FollowChain, LinkMoved, Report, regs
<1>12. CASE EndDone
  BY <1>12 DEF EndDone, LinkMoved, Report, Leave, Finish
<1> QED BY <1>1, <1>2, <1>3, <1>4, <1>5, <1>6, <1>7, <1>8, <1>9, <1>10, <1>11,
           <1>12 DEF Execute, Transfer

LEMMA DriverInitially ==
  ASSUME DriverInit
  PROVE  DriverInv
<1>1. /\ line3 = Idle(DISK) /\ code = DCU_IDLE /\ phase = "cpu"
      /\ mode = "monitor" /\ step = "ready" /\ loaded = FALSE
      /\ timer = FALSE
  BY DEF DriverInit, Init
<1>2. line3 \in Line
  BY <1>1 DEF Idle, Line, DISK, ActiveHigh
<1> QED BY <1>1, <1>2 DEF DriverInv, Handshake, NoLostInterrupt, DCU_IDLE

LEMMA StatusRead ==
  ASSUME code \in 0 .. 3
  PROVE  CodeIn(StatusByte) = code
<1> DEFINE s == IF selftest THEN 32 ELSE 0
           e == IF auxerr THEN 16 ELSE 0
<1>1. s \in {0, 32} /\ e \in {0, 16}
  OBVIOUS
<1>2. StatusByte = 128 + 4 * code + 3 + s + e
  BY DEF StatusByte, DCU_IDLE
<1> HIDE DEF s, e
<1> QED BY <1>1, <1>2 DEF CodeIn

LEMMA DriverStep ==
  ASSUME DriverInv, [DriverNext]_dvars
  PROVE  DriverInv'
<1> USE DEF DCU_BUSY, DCU_ERROR, DCU_DONE, DCU_IDLE
<1>0. Handshake /\ NoLostInterrupt
  BY DEF DriverInv
<1>1. ASSUME UNCHANGED <<line3, code, phase, timer, op, mode, step, loaded>>
      PROVE  DriverInv'
  BY <1>0, <1>1 DEF DriverInv, Handshake, NoLostInterrupt
<1>2. ASSUME UNCHANGED <<line3, code, phase, timer, op, mode, loaded>>,
             step \notin {"wait", "answer"}, step' \notin {"wait", "answer"}
      PROVE  DriverInv'
  BY <1>0, <1>2 DEF DriverInv, Handshake, NoLostInterrupt
<1>3. CASE FillPage
  BY <1>1, <1>3 DEF FillPage, StorePage, driver, regs, status, walk
<1>4. CASE Prepare
  BY <1>2, <1>4 DEF Prepare, Goto, regs, status, walk
<1>5. CASE PutArgument
  BY <1>2, <1>5 DEF PutArgument, PutByte, Goto, WriteChan, status, walk
<1>6. CASE Start
  <2>1. /\ code' = DCU_BUSY /\ line3' = line3 /\ phase = "cpu" /\ phase' = phase
        /\ step = "start" /\ step' = "wait" /\ UNCHANGED <<mode, loaded>>
    BY <1>6 DEF Start, WriteOpcode, Goto, walk
  <2> QED BY <1>0, <2>1 DEF DriverInv, Handshake, NoLostInterrupt
<1>7. CASE Poll
  <2>1. /\ UNCHANGED <<line3, code, phase, timer, op, mode, loaded>>
        /\ step = "wait" /\ step' = "answer" /\ phase = "cpu"
        /\ code # DCU_BUSY
    BY <1>0, <1>7, StatusRead DEF Poll, Goto, vars, regs, status, walk, Handshake
  <2> QED BY <1>0, <2>1 DEF DriverInv, Handshake, NoLostInterrupt
<1>8. CASE Interrupt
  <2>1. /\ UNCHANGED <<code, phase, timer, op, mode, loaded>>
        /\ phase = "cpu" /\ mode = "kernel" /\ line3' = Taken(line3)
        /\ step' = IF step = "wait" /\ code # DCU_BUSY THEN "answer" ELSE step
    BY <1>0, <1>8, StatusRead DEF Interrupt, TakeInterrupt, regs, walk, Handshake
  <2>2. line3' \in Line /\ line3'.level = line3.level
    BY <1>0, <2>1 DEF Taken, Line, Handshake
  <2> QED BY <1>0, <2>1, <2>2 DEF DriverInv, Handshake, NoLostInterrupt
<1>9. CASE Answer
  <2>1. /\ code' = DCU_IDLE /\ line3' = Driven(line3, DISK, 1)
        /\ phase = "cpu" /\ phase' = phase /\ timer' = timer
        /\ step = "answer" /\ step' = "ready" /\ mode' = mode
        /\ loaded => loaded'
    BY <1>9 DEF Answer, Acknowledge, walk
  <2>2. line3' \in Line /\ line3'.level = 1
    BY <1>0, <2>1, DrivenLine DEF Handshake
  <2>3. ~timer
    BY <1>0, <2>1 DEF Handshake
  <2> QED BY <1>0, <2>1, <2>2, <2>3 DEF DriverInv, Handshake, NoLostInterrupt
<1>10. CASE StartKernel
  <2>1. /\ UNCHANGED <<line3, code, phase, timer, op, step, loaded>>
        /\ step = "ready" /\ loaded
    BY <1>10 DEF StartKernel, vars, regs, status, walk
  <2> QED BY <1>0, <2>1 DEF DriverInv, Handshake, NoLostInterrupt
<1>11. CASE ResetMachine
  <2>1. /\ code' = DCU_IDLE /\ line3' = Idle(DISK) /\ phase' = "cpu"
        /\ mode' = "monitor" /\ step' = "ready" /\ loaded' = FALSE /\ op' = 0
    BY <1>11 DEF ResetMachine, Reset, walk
  <2>2. line3' \in Line
    BY <2>1 DEF Idle, Line, DISK, ActiveHigh
  <2> QED BY <1>0, <2>1, <2>2 DEF DriverInv, Handshake, NoLostInterrupt, DCU_C_START
<1>12. CASE Board
  <2>0. UNCHANGED <<mode, step, loaded>>
    BY <1>12 DEF Board, driver
  <2>1. CASE /\ phase = "cpu" /\ timer /\ ~timer' /\ phase' = "open"
             /\ UNCHANGED <<code, line3>> /\ op = DCU_C_START
    BY <1>0, <2>0, <2>1 DEF DriverInv, Handshake, NoLostInterrupt
  <2>2. CASE phase # "cpu" /\ phase' # "cpu"
             /\ UNCHANGED <<code, line3, timer, op>>
    BY <1>0, <2>0, <2>2 DEF DriverInv, Handshake, NoLostInterrupt
  <2>3. CASE /\ phase' = "cpu" /\ ~timer'
             /\ phase = "cpu" => timer
             /\ code' \in {DCU_DONE, DCU_ERROR}
             /\ line3' = Driven(line3, DISK, 0)
    <3>1. line3' \in Line /\ (line3.level = 1 => line3'.latched)
      BY <1>0, <2>3, Falls DEF Handshake
    <3> QED BY <1>0, <2>0, <2>3, <3>1 DEF DriverInv, Handshake, NoLostInterrupt
  <2>4. phase # "cpu" => ~timer
    BY <1>0 DEF Handshake
  <2> QED BY <1>12, <2>1, <2>2, <2>3, <2>4, BoardEffect DEF Board
<1>13. CASE UNCHANGED dvars
  BY <1>1, <1>13 DEF dvars, vars, regs, status, walk, driver
<1> QED BY <1>3, <1>4, <1>5, <1>6, <1>7, <1>8, <1>9, <1>10, <1>11, <1>12, <1>13
        DEF DriverNext

(* Every completion the kernel waits for is latched as an edge on line 3.  *)
THEOREM Wakes == DriverSpec => []NoLostInterrupt
<1>1. DriverInit => DriverInv
  BY DriverInitially
<1>2. DriverInv /\ [DriverNext]_dvars => DriverInv'
  BY DriverStep
<1>3. DriverInv => NoLostInterrupt
  BY DEF DriverInv
<1> QED BY <1>1, <1>2, <1>3, PTL DEF DriverSpec

-----------------------------------------------------------------------------
(***************************************************************************)
(* The errand: what links the request the driver has in mind with the      *)
(* bytes in the registers, the IOCBs in memory and the walk of the board.  *)
(***************************************************************************)
Preparing == step \in {"chan0", "chan1", "chan2", "start"}

(* The argument bytes written so far are those of the first IOCB.          *)
BytesOfFirst ==
  /\ step \in {"chan1", "chan2", "start"} => chan[0] = first % 256
  /\ step \in {"chan2", "start"} => chan[1] = (first \div 256) % 256
  /\ step = "start" => chan[2] = first \div 65536
  /\ Asking /\ phase = "cpu" /\ code = DCU_BUSY => Arg = first

Commands ==
  /\ op \in {0, DCU_C_START}
  /\ Asking => code \in {DCU_BUSY, DCU_DONE, DCU_ERROR}
  /\ Asking /\ phase = "cpu" /\ code = DCU_BUSY => op = DCU_C_START

Errand ==
  /\ first \in Nat /\ first \div 65536 \in U8
  /\ ChainsEnd(iocb)
  /\ step # "ready" => first \in IocbAddr
  /\ Preparing => \E r \in Program : iocb = r.image /\ first = r.first
  /\ phase # "cpu" => at \in ChainOf(first)

Untouched(S) == \A a \in S : iocb[a].status = IOCB_ES_NONE

Acked(S) ==
  \A a \in S :
    /\ iocb[a].status = IOCB_ES_CHAIN
    /\ iocb[a].resid = 0
    /\ iocb[a].chain # NoLink

(* What the IOCBs say while the chain is followed, and when it has been.   *)
Story ==
  /\ Preparing \/ (Asking /\ phase = "cpu" /\ code = DCU_BUSY) => Untouched(IocbAddr)
  /\ phase # "cpu" => /\ Untouched(ChainOf(at))
                      /\ Acked(ChainOf(first) \ ChainOf(at))
  /\ Asking /\ code = DCU_DONE =>
       \E c \in ChainOf(first) :
         /\ iocb[c].chain = NoLink /\ iocb[c].status = IOCB_ES_DONE /\ iocb[c].resid = 0
         /\ Acked(ChainOf(first) \ {c})
  /\ Asking /\ code = DCU_ERROR =>
       \E c \in ChainOf(first) :
         /\ iocb[c].status = IOCB_ES_DRIVE
         /\ Acked(ChainOf(first) \ ChainOf(c))
         /\ Untouched(ChainOf(c) \ {c})

(* Why a walk has failed: the link names no drive, or a sector off it.     *)
Culpable ==
  phase = "move" /\ failed /\ UnitOk(CurrentUnit) =>
    /\ moved < Current.count
    /\ ~OnImage
    /\ geom[CurrentUnit] \in Geometry

OursInv == Commands /\ BytesOfFirst /\ Errand /\ Story /\ Culpable

-----------------------------------------------------------------------------
(* Three bytes hold an address of the machine. *)
LEMMA ThreeBytes ==
  ASSUME NEW f \in Nat, f \div 65536 \in U8
  PROVE  /\ f % 256 \in U8 /\ (f \div 256) % 256 \in U8
         /\ (f % 256) + 256 * ((f \div 256) % 256) + 65536 * (f \div 65536) = f
<1> DEFINE q == f \div 256
<1>1. q \in Nat /\ f = 256 * q + (f % 256) /\ f % 256 \in 0 .. 255
  BY SMT
<1>2. f \div 65536 = q \div 256
  BY SMT
<1>3. q \div 256 \in Nat /\ q = 256 * (q \div 256) + (q % 256) /\ q % 256 \in 0 .. 255
  BY <1>1, SMT
<1> HIDE DEF q
<1> QED BY <1>1, <1>2, <1>3, SMT DEF U8, U8_MAX, q

-----------------------------------------------------------------------------
(* Facts about chains of IOCBs in a memory. *)
Chained(mem) == \A a \in IocbAddr : mem[a].chain \in IocbAddr \cup {NoLink}

LEMMA ChainHolds ==
  ASSUME NEW mem, NEW a \in IocbAddr
  PROVE  a \in ChainFrom(mem, a) /\ ChainFrom(mem, a) \subseteq IocbAddr
BY DEF ChainFrom

LEMMA ChainLeast ==
  ASSUME NEW mem, NEW a, NEW S \in SUBSET IocbAddr, a \in S, Followed(mem, S)
  PROVE  ChainFrom(mem, a) \subseteq S
BY DEF ChainFrom

LEMMA ChainFollowed ==
  ASSUME NEW mem, Chained(mem), NEW a \in IocbAddr
  PROVE  Followed(mem, ChainFrom(mem, a))
<1> SUFFICES ASSUME NEW b \in ChainFrom(mem, a), mem[b].chain # NoLink
             PROVE  mem[b].chain \in ChainFrom(mem, a)
  BY DEF Followed
<1>1. b \in IocbAddr /\ mem[b].chain \in IocbAddr
  BY DEF ChainFrom, Chained
<1>2. ASSUME NEW S \in SUBSET IocbAddr, a \in S, Followed(mem, S)
      PROVE  mem[b].chain \in S
  <2>1. b \in S
    BY <1>2 DEF ChainFrom
  <2> QED BY <1>2, <2>1 DEF Followed
<1> QED BY <1>1, <1>2 DEF ChainFrom

(* A chain is its first link and the chain of the next one. *)
LEMMA ChainUnfolds ==
  ASSUME NEW mem, Chained(mem), NEW a \in IocbAddr
  PROVE  ChainFrom(mem, a) =
           {a} \cup (IF mem[a].chain = NoLink THEN {}
                     ELSE ChainFrom(mem, mem[a].chain))
<1> DEFINE b == mem[a].chain
           rest == IF b = NoLink THEN {} ELSE ChainFrom(mem, b)
<1>1. b \in IocbAddr \cup {NoLink} /\ a \in ChainFrom(mem, a)
  BY ChainHolds DEF Chained
<1>2. ASSUME b # NoLink
      PROVE  /\ b \in ChainFrom(mem, b) /\ Followed(mem, ChainFrom(mem, b))
             /\ ChainFrom(mem, b) \subseteq IocbAddr
             /\ ChainFrom(mem, b) \subseteq ChainFrom(mem, a)
  <2>1. b \in IocbAddr
    BY <1>1, <1>2
  <2>2. b \in ChainFrom(mem, a) /\ Followed(mem, ChainFrom(mem, a))
    BY <1>1, <1>2, ChainFollowed DEF Followed
  <2>3. ChainFrom(mem, a) \in SUBSET IocbAddr
    BY ChainHolds
  <2> QED BY <2>1, <2>2, <2>3, ChainHolds, ChainFollowed, ChainLeast
<1>3. {a} \cup rest \subseteq ChainFrom(mem, a)
  BY <1>1, <1>2
<1>4. Followed(mem, {a} \cup rest) /\ {a} \cup rest \in SUBSET IocbAddr
  BY <1>1, <1>2 DEF Followed
<1>5. ChainFrom(mem, a) \subseteq {a} \cup rest
  BY <1>4, ChainLeast
<1> QED BY <1>3, <1>5

(* A chain that ends never comes back to a link. *)
LEMMA ChainLeaves ==
  ASSUME NEW mem, Chained(mem), ChainsEnd(mem), NEW a \in IocbAddr,
         mem[a].chain # NoLink
  PROVE  a \notin ChainFrom(mem, mem[a].chain)
<1> DEFINE b == mem[a].chain
           T == {c \in ChainFrom(mem, b) : a \in ChainFrom(mem, c)}
<1> SUFFICES ASSUME a \in ChainFrom(mem, b)
             PROVE  FALSE
  OBVIOUS
<1>1. b \in IocbAddr
  BY DEF Chained
<1>2. ChainFrom(mem, b) \subseteq IocbAddr /\ b \in ChainFrom(mem, b)
  BY <1>1, ChainHolds
<1>3. PICK c \in T : mem[c].chain \notin T
  <2>1. T \in SUBSET IocbAddr /\ T # {}
    BY <1>2
  <2> HIDE DEF T
  <2> QED BY <2>1 DEF ChainsEnd
<1>4. c \in IocbAddr /\ c \in ChainFrom(mem, b) /\ a \in ChainFrom(mem, c)
  BY <1>2
<1>5. CASE c = a
  BY <1>2, <1>3, <1>5
<1>6. CASE c # a
  <2>1. mem[c].chain # NoLink /\ a \in ChainFrom(mem, mem[c].chain)
    BY <1>4, <1>6, ChainUnfolds
  <2>2. mem[c].chain \in ChainFrom(mem, b)
    BY <1>1, <1>4, <2>1, ChainFollowed DEF Followed
  <2> QED BY <1>3, <2>1, <2>2
<1> QED BY <1>5, <1>6

(* Only the chain fields matter. *)
LEMMA ChainSame ==
  ASSUME NEW mem, NEW other, NEW a,
         \A b \in IocbAddr : other[b].chain = mem[b].chain
  PROVE  /\ ChainFrom(other, a) = ChainFrom(mem, a)
         /\ ChainsEnd(mem) => ChainsEnd(other)
<1>1. \A S \in SUBSET IocbAddr : Followed(other, S) <=> Followed(mem, S)
  BY DEF Followed
<1>2. ChainFrom(other, a) = ChainFrom(mem, a)
  BY <1>1 DEF ChainFrom
<1>3. ChainsEnd(mem) => ChainsEnd(other)
  BY DEF ChainsEnd
<1> QED BY <1>2, <1>3

-----------------------------------------------------------------------------
(* Every step of the two together is one the board allows its processor,   *)
(* so what holds of the board alone holds of it here.                      *)
LEMMA DriverIsAny ==
  ASSUME TypeOK, Errand, [DriverNext]_dvars
  PROVE  [AnyNext]_vars
<1>1. CASE FillPage
  BY <1>1, DcuAssumption DEF FillPage, AnyNext, AnyProcessor
<1>2. CASE Prepare
  <2>1. StoreIocbs
    BY <1>2, DriverAssumption DEF Prepare, StoreIocbs
  <2> QED BY <2>1 DEF AnyNext, AnyProcessor
<1>3. CASE PutArgument
  <2>1. \E n \in 0 .. 2, b \in U8 : WriteChan(n, b)
    BY <1>3, ThreeBytes DEF PutArgument, PutByte, Errand
  <2> QED BY <2>1 DEF AnyNext, AnyProcessor
<1>4. CASE Start
  <2>1. DCU_C_START \in U8
    BY DEF DCU_C_START, U8, U8_MAX
  <2> QED BY <1>4, <2>1 DEF Start, AnyNext, AnyProcessor
<1>5. CASE Poll \/ StartKernel
  BY <1>5 DEF Poll, StartKernel
<1>6. CASE Interrupt
  BY <1>6 DEF Interrupt, AnyNext, AnyProcessor
<1>7. CASE Answer
  BY <1>7 DEF Answer, AnyNext, AnyProcessor
<1>8. CASE ResetMachine
  BY <1>8 DEF ResetMachine, AnyNext
<1>9. CASE Board
  BY <1>9 DEF Board, AnyNext
<1>10. CASE UNCHANGED dvars
  BY <1>10 DEF dvars
<1> QED BY <1>1, <1>2, <1>3, <1>4, <1>5, <1>6, <1>7, <1>8, <1>9, <1>10 DEF DriverNext

LEMMA DriverTypes ==
  ASSUME DriverTypeOK, Handshake', [DriverNext]_dvars
  PROVE  DriverTypeOK'
<1> USE DEF driver
<1>0. phase' # "cpu" => step' = "wait"
  BY DEF Handshake
<1>1. CASE FillPage
  BY <1>0, <1>1 DEF FillPage, DriverTypeOK
<1>2. CASE Prepare
  BY <1>0, <1>2, DriverAssumption DEF Prepare, Goto, DriverTypeOK
<1>3. CASE PutArgument
  BY <1>0, <1>3 DEF PutArgument, PutByte, Goto, DriverTypeOK
<1>4. CASE Start
  BY <1>0, <1>4 DEF Start, Goto, DriverTypeOK
<1>5. CASE Poll
  BY <1>0, <1>5 DEF Poll, Goto, DriverTypeOK
<1>6. CASE Interrupt
  BY <1>0, <1>6 DEF Interrupt, DriverTypeOK
<1>7. CASE Answer
  <2>1. loaded' \in BOOLEAN
    BY <1>7 DEF Answer, DriverTypeOK
  <2> QED BY <1>0, <1>7, <2>1 DEF Answer, DriverTypeOK
<1>8. CASE StartKernel
  BY <1>0, <1>8 DEF StartKernel, DriverTypeOK
<1>9. CASE ResetMachine
  <2>1. resets' \in 0 .. MaxResets
    BY <1>9, DriverAssumption DEF ResetMachine, DriverTypeOK
  <2> QED BY <1>0, <1>9, <2>1 DEF ResetMachine, DriverTypeOK
<1>10. CASE Board
  BY <1>0, <1>10 DEF Board, DriverTypeOK
<1>11. CASE UNCHANGED dvars
  BY <1>0, <1>11 DEF dvars, DriverTypeOK
<1> QED BY <1>1, <1>2, <1>3, <1>4, <1>5, <1>6, <1>7, <1>8, <1>9, <1>10, <1>11
        DEF DriverNext

(* The steps of the board, by what the driver is doing: it is refused an   *)
(* opcode a reset has cleared while the driver is not asking anything, it  *)
(* begins the driver's request, or it is a step of the walk.               *)
Refused ==
  /\ ~Asking
  /\ phase' = phase
  /\ UNCHANGED <<op, chan, geom, at, moved, failed, iocb, page, disk>>

LEMMA BoardSteps ==
  ASSUME Handshake, Commands, Board
  PROVE  /\ UNCHANGED driver /\ op' = op /\ chan' = chan
         /\ \/ phase = "cpu" /\ Refused
            \/ phase = "cpu" /\ step = "wait" /\ code = DCU_BUSY /\ ExecuteStart
            \/ phase # "cpu" /\ Transfer
<1>1. UNCHANGED driver
  BY DEF Board
<1>2. CASE Execute
  <2>1. phase = "cpu" /\ timer
    BY <1>2, CpuSteps, BoardEffect
  <2>2. CASE op = DCU_C_START
    <3>1. ExecuteStart
      BY <1>2, <2>2 DEF Execute, ExecuteSelftest, ExecuteAccepted, ExecuteAssdrive,
         ExecuteSpecific, ExecuteIllegal, Implemented, AcceptedAsGiven, DCU_C_START,
         DCU_C_SELFTEST, DCU_C_ASSDRIVE, DCU_C_SPECIFIC, DCU_C_SETBURST,
         DCU_C_ASSCYLINDER, DCU_C_ASSBUFFER, DCU_C_SENSE
    <3>2. step = "wait" /\ code = DCU_BUSY
      BY <2>1, <2>2 DEF Handshake
    <3> QED BY <1>1, <2>1, <3>1, <3>2 DEF ExecuteStart, regs
  <2>3. CASE op # DCU_C_START
    <3>1. op = 0 /\ ~Asking
      BY <2>1, <2>3 DEF Commands, Handshake, Asking
    <3>2. ExecuteIllegal
      BY <1>2, <3>1 DEF Execute, ExecuteSelftest, ExecuteAccepted, ExecuteAssdrive,
         ExecuteSpecific, ExecuteStart, AcceptedAsGiven, DCU_C_START,
         DCU_C_SELFTEST, DCU_C_ASSDRIVE, DCU_C_SPECIFIC, DCU_C_SETBURST,
         DCU_C_ASSCYLINDER, DCU_C_ASSBUFFER, DCU_C_SENSE
    <3> QED BY <1>1, <2>1, <3>1, <3>2 DEF ExecuteIllegal, Refused, regs, walk, memory
  <2> QED BY <2>2, <2>3
<1>3. CASE Transfer
  <2>1. phase # "cpu"
    BY <1>3 DEF Transfer, OpenLink, WriteSector, FormatSector, ReadSector, MoveOne,
       Moving, DriveCheck, EndFailed, FollowChain, EndDone, LinkMoved
  <2>2. UNCHANGED regs
    BY <1>3 DEF Transfer, OpenLink, WriteSector, FormatSector, ReadSector, MoveOne,
       DriveCheck, EndFailed, FollowChain, EndDone, Report
  <2> QED BY <1>1, <1>3, <2>1, <2>2 DEF regs
<1> QED BY <1>2, <1>3 DEF Board

-----------------------------------------------------------------------------
(* A report changes the ending and the residue of one IOCB, nothing else.  *)
SameOrder(mem, other) ==
  \A a \in IocbAddr :
    /\ other[a].opcode   = mem[a].opcode
    /\ other[a].count    = mem[a].count
    /\ other[a].cylinder = mem[a].cylinder
    /\ other[a].drhdsec  = mem[a].drhdsec
    /\ other[a].table    = mem[a].table
    /\ other[a].chain    = mem[a].chain

LEMMA ReportKeeps ==
  ASSUME TypeOK, NEW ending, Report(ending)
  PROVE  SameOrder(iocb, iocb')
<1>1. CASE at \in IocbAddr
  <2> DEFINE new == [iocb[at] EXCEPT !.status = ending,
                                     !.resid  = Current.count - moved]
  <2>1. iocb[at] \in Iocb /\ iocb \in [IocbAddr -> Iocb]
    BY <1>1 DEF TypeOK
  <2>2. /\ new.opcode = iocb[at].opcode /\ new.count = iocb[at].count
        /\ new.cylinder = iocb[at].cylinder /\ new.drhdsec = iocb[at].drhdsec
        /\ new.table = iocb[at].table /\ new.chain = iocb[at].chain
    BY <2>1 DEF Iocb
  <2>3. iocb' = [iocb EXCEPT ![at] = new]
    BY <1>1, <2>1 DEF Report, Iocb
  <2> HIDE DEF new
  <2> QED BY <1>1, <2>1, <2>2, <2>3 DEF SameOrder
<1>2. CASE at \notin IocbAddr
  BY <1>2 DEF Report, SameOrder
<1> QED BY <1>1, <1>2

LEMMA ChainedMemory ==
  ASSUME NEW mem \in [IocbAddr -> Iocb]
  PROVE  Chained(mem)
BY DEF Chained, Iocb

(* Steps that leave the board alone, or touch pages only. *)
LEMMA OursSame ==
  ASSUME OursInv,
         UNCHANGED <<op, code, chan, geom, first, iocb, phase, at, moved, failed>>,
         step' = step \/ (step = "wait" /\ step' = "answer")
  PROVE  OursInv'
<1>1. /\ Asking' = Asking /\ Preparing' = Preparing
      /\ step' \in {"chan1", "chan2", "start"} => step' = step
      /\ step # "ready" <=> step' # "ready"
  BY DEF Asking, Preparing
<1>2. Commands' /\ Errand'
  BY <1>1 DEF OursInv, Commands, Errand, ChainOf
<1>3. BytesOfFirst'
  BY <1>1 DEF OursInv, BytesOfFirst, Arg
<1>4. Story'
  BY <1>1 DEF OursInv, Story, Untouched, Acked, ChainOf
<1>5. Current' = Current /\ CurrentUnit' = CurrentUnit /\ OnImage' = OnImage
  BY SameLink DEF OnImage, CurrentLba, FirstLba
<1>6. Culpable'
  BY <1>5 DEF OursInv, Culpable
<1> QED BY <1>2, <1>3, <1>4, <1>6 DEF OursInv

(* The driver's own steps. *)
LEMMA OursPrepare ==
  ASSUME OursInv, Prepare
  PROVE  OursInv'
<1>1. /\ step' = "chan0" /\ phase' = "cpu" /\ op' = op
      /\ ~Asking' /\ Preparing'
  BY DEF Prepare, Goto, Asking, Preparing, walk, regs
<1>2. PICK r \in Program : iocb' = r.image /\ first' = r.first
  BY DEF Prepare
<1>3. Errand'
  <2> DEFINE High(f) == f \div 65536
  <2>0. r.first \in IocbAddr /\ ChainsEnd(r.image)
    BY DriverAssumption
  <2>1. High(r.first) \in U8
    BY DriverAssumption
  <2>a. first' \in IocbAddr /\ first' \in Nat
    BY <1>2, <2>0, DcuAssumption
  <2> HIDE DEF High
  <2>b. High(first') \in U8
    BY <1>2, <2>1
  <2>2. ChainsEnd(iocb)'
    BY <1>2, <2>0 DEF ChainsEnd
  <2> QED BY <1>1, <1>2, <2>a, <2>b, <2>2 DEF Errand, High
<1>4. Story'
  BY <1>1, <1>2, DriverAssumption DEF Story, Untouched
<1>5. Commands' /\ BytesOfFirst' /\ Culpable'
  BY <1>1 DEF OursInv, Commands, BytesOfFirst, Culpable
<1> QED BY <1>3, <1>4, <1>5 DEF OursInv

LEMMA OursPut ==
  ASSUME TypeOK, OursInv, PutArgument
  PROVE  OursInv'
<1>1. /\ phase = "cpu" /\ phase' = "cpu" /\ UNCHANGED <<op, first, iocb, code>>
      /\ ~Asking' /\ Preparing' /\ Preparing /\ ~Asking
  BY DEF PutArgument, PutByte, WriteChan, Goto, Asking, Preparing, walk, status, memory
<1>2. Errand' /\ Commands' /\ Culpable'
  BY <1>1 DEF OursInv, Errand, Commands, Culpable, Preparing
<1>3. Story'
  BY <1>1 DEF OursInv, Story, Untouched
<1>4. chan \in [0 .. 2 -> U8]
  BY DEF TypeOK
<1>5. BytesOfFirst'
  BY <1>1, <1>4 DEF OursInv, BytesOfFirst, PutArgument, PutByte, WriteChan, Goto
<1> QED BY <1>2, <1>3, <1>5 DEF OursInv

LEMMA OursStart ==
  ASSUME OursInv, Start
  PROVE  OursInv'
<1>1. /\ phase = "cpu" /\ phase' = "cpu" /\ UNCHANGED <<chan, first, iocb>>
      /\ op' = DCU_C_START /\ code' = DCU_BUSY /\ step = "start" /\ step' = "wait"
      /\ ~Preparing' /\ Preparing /\ Asking'
  BY DEF Start, WriteOpcode, Goto, Asking, Preparing, walk, memory
<1>2. Errand' /\ Commands' /\ Culpable'
  BY <1>1 DEF OursInv, Errand, Commands, Culpable
<1>3. Story'
  BY <1>1 DEF OursInv, Story, Untouched, DCU_BUSY, DCU_DONE, DCU_ERROR
<1>4. Arg' = first'
  BY <1>1, ThreeBytes DEF OursInv, Errand, BytesOfFirst, Arg
<1>5. BytesOfFirst'
  BY <1>1, <1>4 DEF BytesOfFirst
<1> QED BY <1>2, <1>3, <1>5 DEF OursInv

LEMMA OursDone ==
  ASSUME OursInv, Answer \/ ResetMachine
  PROVE  OursInv'
<1>1. /\ phase' = "cpu" /\ UNCHANGED <<first, iocb>> /\ op' \in {op, 0}
      /\ step' = "ready" /\ ~Preparing' /\ ~Asking'
  BY DEF Answer, Acknowledge, ResetMachine, Reset, Asking, Preparing, walk, memory, regs
<1>2. Errand' /\ Commands' /\ Culpable' /\ BytesOfFirst' /\ Story'
  BY <1>1 DEF OursInv, Errand, Commands, Culpable, BytesOfFirst, Story
<1> QED BY <1>2 DEF OursInv

(* What the invariant says while a chain is followed. *)
LEMMA OnTheWalk ==
  ASSUME TypeOK, Handshake, OursInv, phase # "cpu"
  PROVE  /\ step = "wait" /\ code = DCU_BUSY /\ Asking /\ ~Preparing
         /\ first \in IocbAddr /\ at \in IocbAddr /\ at \in ChainOf(first)
         /\ Chained(iocb) /\ ChainsEnd(iocb)
         /\ ChainOf(first) \subseteq IocbAddr /\ ChainOf(at) \subseteq IocbAddr
         /\ Current = iocb[at]
         /\ Untouched(ChainOf(at)) /\ Acked(ChainOf(first) \ ChainOf(at))
<1>1. step = "wait" /\ code = DCU_BUSY /\ Asking /\ ~Preparing
  BY DEF Handshake, Asking, Preparing
<1>2. /\ first \in IocbAddr /\ at \in ChainOf(first) /\ ChainsEnd(iocb)
      /\ Untouched(ChainOf(at)) /\ Acked(ChainOf(first) \ ChainOf(at))
  BY <1>1 DEF OursInv, Errand, Story
<1>3. ChainOf(first) \subseteq IocbAddr
  BY <1>2, ChainHolds DEF ChainOf
<1>4. at \in IocbAddr
  BY <1>2, <1>3
<1>5. ChainOf(at) \subseteq IocbAddr
  BY <1>4, ChainHolds DEF ChainOf
<1>6. Chained(iocb)
  BY ChainedMemory DEF TypeOK
<1>7. Current = iocb[at]
  BY <1>4 DEF Current, IocbAt
<1> QED BY <1>1, <1>2, <1>3, <1>4, <1>5, <1>6, <1>7

(* A step of the walk within one link. *)
LEMMA OursInLink ==
  ASSUME TypeOK, Handshake, OursInv, phase # "cpu", phase' # "cpu",
         UNCHANGED <<op, code, chan, iocb, at>>, UNCHANGED driver, Culpable'
  PROVE  OursInv'
<1>1. step = "wait" /\ step' = "wait" /\ first' = first /\ code # DCU_DONE /\ code # DCU_ERROR
  BY OnTheWalk DEF driver, DCU_BUSY, DCU_DONE, DCU_ERROR
<1>2. /\ Asking /\ Asking' /\ ~Preparing /\ ~Preparing'
  BY <1>1 DEF Asking, Preparing
<1>3. ChainOf(first)' = ChainOf(first) /\ ChainOf(at)' = ChainOf(at)
  BY <1>1 DEF ChainOf
<1>4. Errand' /\ Commands' /\ BytesOfFirst'
  BY <1>1, <1>2, <1>3 DEF OursInv, Errand, Commands, BytesOfFirst
<1>5. Story'
  BY <1>1, <1>2, <1>3 DEF OursInv, Story, Untouched, Acked
<1> QED BY <1>4, <1>5 DEF OursInv

LEMMA OursOpen ==
  ASSUME TypeOK, Handshake, OursInv, UNCHANGED driver, OpenLink
  PROVE  OursInv'
<1>1. /\ phase # "cpu" /\ phase' # "cpu" /\ UNCHANGED <<op, code, chan, iocb, at>>
      /\ failed' = ~UnitOk(CurrentUnit)
  BY DEF OpenLink, regs, status, memory
<1>2. Culpable'
  BY <1>1, SameLink DEF Culpable, UnitOk
<1> QED BY <1>1, <1>2, OursInLink

LEMMA OursMove ==
  ASSUME TypeOK, Handshake, OursInv, UNCHANGED driver, MoveSector
  PROVE  OursInv'
<1>1. /\ phase # "cpu" /\ phase' # "cpu" /\ UNCHANGED <<op, code, chan, iocb, at>>
      /\ ~failed'
  BY DEF MoveSector, WriteSector, FormatSector, ReadSector, MoveOne, Moving, regs, status
<1>2. Culpable'
  BY <1>1 DEF Culpable
<1> QED BY <1>1, <1>2, OursInLink

LEMMA OursCheck ==
  ASSUME TypeOK, ShapeKnown, Handshake, OursInv, UNCHANGED driver, DriveCheck
  PROVE  OursInv'
<1>1. /\ phase # "cpu" /\ phase' # "cpu" /\ UNCHANGED <<op, code, chan, iocb, at>>
      /\ UNCHANGED <<geom, moved>> /\ Moving /\ ~OnImage
  BY DEF DriveCheck, Moving, regs, status, memory
<1>2. Current' = Current /\ CurrentUnit' = CurrentUnit /\ OnImage' = OnImage
  BY <1>1, SameLink DEF OnImage, CurrentLba, FirstLba
<1>3. moved < Current.count /\ geom[CurrentUnit] \in Geometry
  BY <1>1 DEF Moving, ShapeKnown
<1>4. Culpable'
  BY <1>1, <1>2, <1>3 DEF Culpable
<1> QED BY <1>1, <1>4, OursInLink

(* What a link's end does to the memory of the chain. *)
LEMMA LinkEnds ==
  ASSUME TypeOK, Progress, Handshake, OursInv, phase = "move",
         NEW ending \in Ending, Report(ending), first' = first
  PROVE  /\ \A a : ChainFrom(iocb', a) = ChainOf(a)
         /\ ChainsEnd(iocb')
         /\ \A a \in IocbAddr : a # at => iocb'[a] = iocb[a]
         /\ iocb'[at].status = ending /\ iocb'[at].resid = Current.count - moved
         /\ iocb'[at].chain = iocb[at].chain
         /\ \A a \in ChainOf(first) \ ChainOf(at) :
              /\ iocb'[a].status = IOCB_ES_CHAIN /\ iocb'[a].resid = 0
              /\ iocb'[a].chain # NoLink
         /\ \A a \in ChainOf(at) \ {at} : iocb'[a].status = IOCB_ES_NONE
<1>1. /\ at \in IocbAddr /\ Chained(iocb) /\ ChainsEnd(iocb)
      /\ ChainOf(first) \subseteq IocbAddr /\ ChainOf(at) \subseteq IocbAddr
      /\ Untouched(ChainOf(at)) /\ Acked(ChainOf(first) \ ChainOf(at))
  BY OnTheWalk
<1>2. \A b \in IocbAddr : iocb'[b].chain = iocb[b].chain
  BY ReportKeeps DEF SameOrder
<1>3. \A a : ChainFrom(iocb', a) = ChainOf(a)
  BY <1>2, ChainSame DEF ChainOf
<1>4. ChainsEnd(iocb')
  BY <1>1, <1>2, ChainSame
<1>5. /\ \A a \in IocbAddr : a # at => iocb'[a] = iocb[a]
      /\ iocb'[at].status = ending /\ iocb'[at].resid = Current.count - moved
  BY <1>1, ReportType
<1>6. at \in ChainOf(at)
  BY <1>1, ChainHolds DEF ChainOf
<1>7. \A a \in ChainOf(first) \ ChainOf(at) :
        /\ iocb'[a].status = IOCB_ES_CHAIN /\ iocb'[a].resid = 0
        /\ iocb'[a].chain # NoLink
  BY <1>1, <1>5, <1>6 DEF Acked
<1>8. \A a \in ChainOf(at) \ {at} : iocb'[a].status = IOCB_ES_NONE
  BY <1>1, <1>5 DEF Untouched
<1> QED BY <1>1, <1>2, <1>3, <1>4, <1>5, <1>7, <1>8

LEMMA OursFollow ==
  ASSUME TypeOK, Progress, Handshake, OursInv, UNCHANGED driver, FollowChain
  PROVE  OursInv'
<1> DEFINE b == iocb[at].chain
<1>1. /\ phase = "move" /\ phase' = "open" /\ UNCHANGED <<op, code, chan>>
      /\ first' = first /\ step' = step /\ Report(IOCB_ES_CHAIN)
      /\ moved = Current.count /\ Current.chain # NoLink /\ at' = Current.chain
  BY DEF FollowChain, LinkMoved, Report, regs, driver
<1>2. IOCB_ES_CHAIN \in Ending
  BY DEF Ending
<1>3. /\ step = "wait" /\ code = DCU_BUSY /\ at \in IocbAddr /\ first \in IocbAddr
      /\ at \in ChainOf(first) /\ Chained(iocb) /\ ChainsEnd(iocb)
      /\ Current = iocb[at] /\ ChainOf(at) \subseteq IocbAddr
  BY <1>1, OnTheWalk
<1>4. b # NoLink /\ b \in IocbAddr /\ at' = b
  BY <1>1, <1>3 DEF Chained
<1>5. /\ ChainOf(at) = {at} \cup ChainOf(b) /\ at \notin ChainOf(b)
      /\ b \in ChainOf(first) /\ b \in ChainOf(b)
  <2>1. ChainOf(at) = {at} \cup ChainOf(b)
    BY <1>3, <1>4, ChainUnfolds DEF ChainOf
  <2>2. at \notin ChainOf(b)
    BY <1>3, <1>4, ChainLeaves DEF ChainOf
  <2>3. b \in ChainOf(first)
    BY <1>3, <1>4, ChainFollowed DEF ChainOf, Followed
  <2>4. b \in ChainOf(b)
    BY <1>4, ChainHolds DEF ChainOf
  <2> QED BY <2>1, <2>2, <2>3, <2>4
<1>6. /\ \A a : ChainFrom(iocb', a) = ChainOf(a)
      /\ ChainsEnd(iocb')
      /\ iocb'[at].status = IOCB_ES_CHAIN /\ iocb'[at].resid = Current.count - moved
      /\ iocb'[at].chain = iocb[at].chain
      /\ \A a \in ChainOf(first) \ ChainOf(at) :
           /\ iocb'[a].status = IOCB_ES_CHAIN /\ iocb'[a].resid = 0
           /\ iocb'[a].chain # NoLink
      /\ \A a \in ChainOf(at) \ {at} : iocb'[a].status = IOCB_ES_NONE
  BY <1>1, <1>2, LinkEnds
<1>7. Current.count - moved = 0
  BY <1>1 DEF TypeOK
<1>8. ChainOf(first)' = ChainOf(first) /\ ChainOf(at)' = ChainOf(b)
  BY <1>1, <1>4, <1>6 DEF ChainOf
<1>9. ~Preparing' /\ code' # DCU_DONE /\ code' # DCU_ERROR
  BY <1>1, <1>3 DEF Preparing, DCU_BUSY, DCU_DONE, DCU_ERROR
<1>10. Untouched(ChainOf(at))' /\ Acked(ChainOf(first) \ ChainOf(at))'
  <2>1. \A a \in ChainOf(b) : iocb'[a].status = IOCB_ES_NONE
    BY <1>5, <1>6
  <2>2. \A a \in ChainOf(first) \ ChainOf(b) :
           /\ iocb'[a].status = IOCB_ES_CHAIN /\ iocb'[a].resid = 0
           /\ iocb'[a].chain # NoLink
    BY <1>4, <1>5, <1>6, <1>7
  <2> QED BY <1>8, <2>1, <2>2 DEF Untouched, Acked
<1>11. Story'
  BY <1>1, <1>9, <1>10 DEF Story
<1>12. Errand'
  <2>1. first' \in Nat /\ first' \div 65536 \in U8
    BY <1>1 DEF OursInv, Errand
  <2>2. ChainsEnd(iocb)'
    BY <1>6 DEF ChainsEnd
  <2>3. at' \in ChainOf(first)'
    BY <1>4, <1>5, <1>8
  <2> QED BY <1>1, <1>3, <1>9, <2>1, <2>2, <2>3 DEF Errand
<1>13. Commands' /\ BytesOfFirst' /\ Culpable'
  BY <1>1, <1>3 DEF OursInv, Commands, BytesOfFirst, Culpable, Asking
<1> QED BY <1>11, <1>12, <1>13 DEF OursInv

LEMMA OursEnd ==
  ASSUME TypeOK, Progress, Handshake, OursInv, UNCHANGED driver, EndFailed \/ EndDone
  PROVE  OursInv'
<1> DEFINE ending == IF failed THEN IOCB_ES_DRIVE ELSE IOCB_ES_DONE
<1>1. /\ phase = "move" /\ phase' = "cpu" /\ UNCHANGED <<op, chan>>
      /\ first' = first /\ step' = step /\ Report(ending) /\ ending \in Ending
      /\ code' = IF failed THEN DCU_ERROR ELSE DCU_DONE
      /\ ~failed => moved = Current.count /\ Current.chain = NoLink
  BY DEF EndFailed, EndDone, LinkMoved, Leave, Finish, Report, regs, driver, Ending
<1> HIDE DEF ending
<1>2. /\ step = "wait" /\ first \in IocbAddr /\ at \in IocbAddr
      /\ at \in ChainOf(first) /\ Chained(iocb) /\ Current = iocb[at]
  BY <1>1, OnTheWalk
<1>3. /\ \A a : ChainFrom(iocb', a) = ChainOf(a)
      /\ ChainsEnd(iocb')
      /\ iocb'[at].status = ending /\ iocb'[at].resid = Current.count - moved
      /\ iocb'[at].chain = iocb[at].chain
      /\ \A a \in ChainOf(first) \ ChainOf(at) :
           /\ iocb'[a].status = IOCB_ES_CHAIN /\ iocb'[a].resid = 0
           /\ iocb'[a].chain # NoLink
      /\ \A a \in ChainOf(at) \ {at} : iocb'[a].status = IOCB_ES_NONE
  BY <1>1, LinkEnds
<1>4. ~Preparing' /\ Asking'
  BY <1>1, <1>2 DEF Preparing, Asking
<1>5. \A a : ChainOf(a)' = ChainOf(a)
  BY <1>3 DEF ChainOf
<1>6. Errand'
  <2>1. first' \in Nat /\ first' \div 65536 \in U8
    BY <1>1 DEF OursInv, Errand
  <2>2. ChainsEnd(iocb)'
    BY <1>3 DEF ChainsEnd
  <2> QED BY <1>1, <1>2, <1>4, <2>1, <2>2 DEF Errand
<1>7. Commands' /\ BytesOfFirst' /\ Culpable'
  BY <1>1 DEF OursInv, Commands, BytesOfFirst, Culpable, DCU_BUSY, DCU_DONE, DCU_ERROR
<1>8. CASE failed
  <2>1. code' = DCU_ERROR /\ ending = IOCB_ES_DRIVE
    BY <1>1, <1>8 DEF ending
  <2>2. \E c \in ChainOf(first)' :
          /\ iocb'[c].status = IOCB_ES_DRIVE
          /\ Acked(ChainOf(first) \ ChainOf(c))'
          /\ Untouched(ChainOf(c) \ {c})'
    BY <1>1, <1>2, <1>3, <2>1 DEF Acked, Untouched, ChainOf
  <2>3. Story'
    BY <1>1, <1>4, <2>1, <2>2 DEF Story, Acked, Untouched, DCU_BUSY, DCU_DONE, DCU_ERROR
  <2> QED BY <1>6, <1>7, <2>3 DEF OursInv
<1>9. CASE ~failed
  <2>1. code' = DCU_DONE /\ ending = IOCB_ES_DONE /\ iocb[at].chain = NoLink
    BY <1>1, <1>2, <1>9 DEF ending
  <2>2. ChainOf(at) = {at} /\ Current.count - moved = 0
    BY <1>1, <1>2, <1>9, <2>1, ChainUnfolds DEF ChainOf, TypeOK
  <2>3. \E c \in ChainOf(first)' :
          /\ iocb'[c].chain = NoLink /\ iocb'[c].status = IOCB_ES_DONE
          /\ iocb'[c].resid = 0
          /\ Acked(ChainOf(first) \ {c})'
    BY <1>1, <1>2, <1>3, <2>1, <2>2 DEF Acked, ChainOf
  <2>4. Story'
    BY <1>1, <1>4, <2>1, <2>3 DEF Story, Acked, Untouched, DCU_BUSY, DCU_DONE, DCU_ERROR
  <2> QED BY <1>6, <1>7, <2>4 DEF OursInv
<1> QED BY <1>8, <1>9

LEMMA OursBegin ==
  ASSUME TypeOK, OursInv, UNCHANGED driver, op' = op, chan' = chan,
         phase = "cpu", step = "wait", code = DCU_BUSY, ExecuteStart
  PROVE  OursInv'
<1>1. /\ phase' = "open" /\ at' = Arg /\ UNCHANGED <<code, iocb>>
      /\ first' = first /\ step' = step
      /\ Asking /\ ~Preparing' /\ code # DCU_DONE /\ code # DCU_ERROR
  BY DEF ExecuteStart, status, memory, driver, Asking, Preparing, DCU_BUSY, DCU_DONE,
         DCU_ERROR
<1>2. Arg = first /\ first \in IocbAddr /\ Untouched(IocbAddr)
  BY <1>1 DEF OursInv, BytesOfFirst, Errand, Story
<1>3. /\ ChainOf(first)' = ChainOf(first) /\ ChainOf(at)' = ChainOf(first)
      /\ first \in ChainOf(first) /\ ChainOf(first) \subseteq IocbAddr
  BY <1>1, <1>2, ChainHolds DEF ChainOf
<1>4. Errand'
  BY <1>1, <1>2, <1>3 DEF OursInv, Errand
<1>5. Story'
  BY <1>1, <1>2, <1>3 DEF Story, Untouched, Acked
<1>6. Commands' /\ BytesOfFirst' /\ Culpable'
  BY <1>1 DEF OursInv, Commands, BytesOfFirst, Culpable, Asking
<1> QED BY <1>4, <1>5, <1>6 DEF OursInv

LEMMA OursRefused ==
  ASSUME OursInv, UNCHANGED driver, op' = op, phase = "cpu", chan' = chan, Refused
  PROVE  OursInv'
<1>1. /\ phase' = "cpu" /\ iocb' = iocb /\ first' = first /\ step' = step
      /\ ~Asking /\ ~Asking' /\ Preparing' = Preparing
  BY DEF Refused, driver, Asking, Preparing
<1>2. Errand' /\ Commands' /\ BytesOfFirst' /\ Culpable'
  BY <1>1 DEF OursInv, Errand, Commands, BytesOfFirst, Culpable, Preparing
<1>3. Story'
  BY <1>1 DEF OursInv, Story, Untouched
<1> QED BY <1>2, <1>3 DEF OursInv

LEMMA OursInitially ==
  ASSUME DriverInit
  PROVE  OursInv
<1>1. /\ op = 0 /\ phase = "cpu" /\ first = 0 /\ step = "ready"
      /\ iocb = [a \in IocbAddr |-> ZeroIocb]
      /\ ~Asking /\ ~Preparing
  BY DEF DriverInit, Init, Asking, Preparing
<1>2. ChainsEnd(iocb)
  <2>1. \A a \in IocbAddr : iocb[a].chain = NoLink
    BY <1>1 DEF ZeroIocb
  <2>2. NoLink \notin IocbAddr
    BY DcuAssumption
  <2> QED BY <2>1, <2>2 DEF ChainsEnd
<1>3. first \in Nat /\ first \div 65536 \in U8
  BY <1>1, SMT DEF U8, U8_MAX
<1>4. Errand
  BY <1>1, <1>2, <1>3 DEF Errand
<1>5. Commands /\ BytesOfFirst /\ Story /\ Culpable
  BY <1>1 DEF Commands, BytesOfFirst, Story, Culpable
<1> QED BY <1>4, <1>5 DEF OursInv

LEMMA OursStep ==
  ASSUME IInv, Handshake, OursInv, [DriverNext]_dvars
  PROVE  OursInv'
<1>0. TypeOK /\ ShapeKnown /\ Progress
  BY DEF IInv
<1>1. CASE FillPage
  BY <1>1, OursSame DEF FillPage, StorePage, regs, status, walk, driver
<1>2. CASE Prepare
  BY <1>2, OursPrepare
<1>3. CASE PutArgument
  BY <1>0, <1>3, OursPut
<1>4. CASE Start
  BY <1>4, OursStart
<1>5. CASE Poll
  BY <1>5, OursSame DEF Poll, Goto, vars, regs, status, walk, memory
<1>6. CASE Interrupt
  BY <1>6, OursSame DEF Interrupt, TakeInterrupt, regs, walk, memory
<1>7. CASE Answer \/ ResetMachine
  BY <1>7, OursDone
<1>8. CASE StartKernel
  BY <1>8, OursSame DEF StartKernel, vars, regs, status, walk, memory
<1>9. CASE Board
  <2>1. Commands
    BY DEF OursInv
  <2>2. /\ UNCHANGED driver /\ op' = op /\ chan' = chan
        /\ \/ phase = "cpu" /\ Refused
           \/ phase = "cpu" /\ step = "wait" /\ code = DCU_BUSY /\ ExecuteStart
           \/ phase # "cpu" /\ Transfer
    BY <1>9, <2>1, BoardSteps
  <2>3. CASE phase = "cpu" /\ Refused
    BY <2>2, <2>3, OursRefused
  <2>4. CASE phase = "cpu" /\ step = "wait" /\ code = DCU_BUSY /\ ExecuteStart
    BY <1>0, <2>2, <2>4, OursBegin
  <2>5. CASE Transfer
    BY <1>0, <2>2, <2>5, OursOpen, OursMove, OursCheck, OursFollow, OursEnd
       DEF Transfer, MoveSector
  <2> QED BY <2>2, <2>3, <2>4, <2>5
<1>10. CASE UNCHANGED dvars
  BY <1>10, OursSame DEF dvars, vars, regs, status, walk, memory, driver
<1> QED BY <1>1, <1>2, <1>3, <1>4, <1>5, <1>6, <1>7, <1>8, <1>9, <1>10 DEF DriverNext

-----------------------------------------------------------------------------
(* The invariant of the board with its drivers. *)
TogetherInv == IInv /\ DriverTypeOK /\ DriverInv /\ OursInv

LEMMA TogetherInitially ==
  ASSUME DriverInit
  PROVE  TogetherInv
<1>1. Init
  BY DEF DriverInit
<1>2. DriverTypeOK
  <2>1. MaxResets \in Nat
    BY DriverAssumption
  <2>2. /\ mode = "monitor" /\ step = "ready" /\ first = 0 /\ resets = 0
        /\ phase = "cpu"
    BY DEF DriverInit, Init
  <2>3. loaded = FALSE
    BY DEF DriverInit
  <2>4. loaded \in BOOLEAN
    BY <2>3
  <2> QED BY <2>1, <2>2, <2>4 DEF DriverTypeOK
<1> QED BY <1>1, <1>2, Initially, DriverInitially, OursInitially DEF TogetherInv

LEMMA TogetherStep ==
  ASSUME TogetherInv, [DriverNext]_dvars
  PROVE  TogetherInv'
<1>1. IInv'
  BY DriverIsAny, IInvStep DEF TogetherInv, IInv, OursInv
<1>2. DriverInv'
  BY DriverStep DEF TogetherInv
<1>3. DriverTypeOK'
  BY <1>2, DriverTypes DEF TogetherInv, DriverInv
<1>4. OursInv'
  BY OursStep DEF TogetherInv, DriverInv
<1> QED BY <1>1, <1>2, <1>3, <1>4 DEF TogetherInv

LEMMA Together == DriverSpec => []TogetherInv
BY TogetherInitially, TogetherStep, PTL DEF DriverSpec

(* The drivers of the machine use the board as its register map allows:    *)
(* everything shown of the board alone holds of the two together, and a    *)
(* chain is followed only while its driver waits for it.                   *)
THEOREM DriverTypesCorrect == DriverSpec => []DriverTypeOK
<1>1. TogetherInv => DriverTypeOK
  BY DEF TogetherInv
<1> QED BY Together, <1>1, PTL

THEOREM BoardUnderDriver == DriverSpec => []IInv
<1>1. TogetherInv => IInv
  BY DEF TogetherInv
<1> QED BY Together, <1>1, PTL

(* A driver that reads an answer can tell from its IOCBs which sectors     *)
(* have been moved: the story they tell is that of its own command.        *)
LEMMA OursIsTold ==
  ASSUME TogetherInv
  PROVE  AnswerIsOurs
<1> DEFINE links == ChainOf(first)
           Says(a) == iocb[a].status
<1> SUFFICES ASSUME step = "answer"
             PROVE  /\ code \in {DCU_DONE, DCU_ERROR}
                    /\ code = DCU_DONE =>
                         \A a \in links :
                           /\ Says(a) = IF iocb[a].chain = NoLink
                                        THEN IOCB_ES_DONE ELSE IOCB_ES_CHAIN
                           /\ iocb[a].resid = 0
                    /\ code = DCU_ERROR =>
                         \E c \in links :
                           /\ {a \in links : Says(a) = IOCB_ES_DRIVE} = {c}
                           /\ \A a \in links \ ChainOf(c) : Says(a) = IOCB_ES_CHAIN
                           /\ \A a \in ChainOf(c) \ {c}   : Says(a) = IOCB_ES_NONE
  BY DEF AnswerIsOurs
<1>c. IOCB_ES_NONE # IOCB_ES_DRIVE /\ IOCB_ES_CHAIN # IOCB_ES_DRIVE
  BY DEF IOCB_ES_NONE, IOCB_ES_DRIVE, IOCB_ES_CHAIN
<1>1. Asking /\ code \in {DCU_DONE, DCU_ERROR}
  BY DEF TogetherInv, DriverInv, Handshake, OursInv, Commands, Asking
<1>2. ASSUME code = DCU_DONE, NEW a \in links
      PROVE  /\ Says(a) = IF iocb[a].chain = NoLink THEN IOCB_ES_DONE ELSE IOCB_ES_CHAIN
             /\ iocb[a].resid = 0
  <2>1. PICK c \in links :
          /\ iocb[c].chain = NoLink /\ iocb[c].status = IOCB_ES_DONE /\ iocb[c].resid = 0
          /\ Acked(links \ {c})
    BY <1>1, <1>2 DEF TogetherInv, OursInv, Story
  <2> QED BY <1>2, <2>1 DEF Acked
<1>3. ASSUME code = DCU_ERROR
      PROVE  \E c \in links :
               /\ {a \in links : Says(a) = IOCB_ES_DRIVE} = {c}
               /\ \A a \in links \ ChainOf(c) : Says(a) = IOCB_ES_CHAIN
               /\ \A a \in ChainOf(c) \ {c}   : Says(a) = IOCB_ES_NONE
  <2>1. PICK c \in links :
          /\ iocb[c].status = IOCB_ES_DRIVE
          /\ Acked(links \ ChainOf(c))
          /\ Untouched(ChainOf(c) \ {c})
    BY <1>1, <1>3 DEF TogetherInv, OursInv, Story
  <2>2. \A a \in links : a # c => Says(a) # IOCB_ES_DRIVE
    BY <1>c, <2>1 DEF Acked, Untouched
  <2> QED BY <2>1, <2>2 DEF Acked, Untouched
<1> QED BY <1>1, <1>2, <1>3

THEOREM AnswersAreOurs == DriverSpec => []AnswerIsOurs
BY Together, OursIsTold, PTL

-----------------------------------------------------------------------------
(***************************************************************************)
(* The jobs of a chain.  JobsFrom is a recursive function along the chain  *)
(* fields; it has the value its definition asks for because chains end.    *)
(***************************************************************************)
AllJobs ==
  {Job(link, kind, i) : link \in Iocb, kind \in {"select", "read", "write", "format"},
                        i \in 0 .. MaxCount}

(* A list of jobs begins with the one put before it.                       *)
LEMMA JobFirst ==
  ASSUME NEW x \in AllJobs, NEW s \in Seq(AllJobs)
  PROVE  /\ <<x>> \o s \in Seq(AllJobs) /\ <<x>> \o s # <<>>
         /\ Head(<<x>> \o s) = x /\ Tail(<<x>> \o s) = s
<1> HIDE DEF AllJobs
<1> DEFINE t == <<x>> \o s
<1>1. /\ t \in Seq(AllJobs) /\ Len(t) = 1 + Len(s) /\ t[1] = x
      /\ \A i \in 1 .. Len(s) : t[i + 1] = s[i]
      /\ Len(s) \in Nat
  OBVIOUS
<1> HIDE DEF t
<1>2. t # <<>> /\ Head(t) = x
  BY <1>1
<1>3. /\ Tail(t) \in Seq(AllJobs) /\ Len(Tail(t)) = Len(s)
      /\ \A i \in 1 .. Len(Tail(t)) : Tail(t)[i] = t[i + 1]
  BY <1>1, <1>2
<1>4. Tail(t) = s
  BY <1>1, <1>3, SeqEqual
<1> QED BY <1>1, <1>2, <1>4 DEF t

LEMMA JobKnown ==
  ASSUME NEW link \in Iocb, NEW i \in 0 .. MaxCount
  PROVE  Job(link, "select", i) \in AllJobs /\ Job(link, Kind(link.opcode), i) \in AllJobs
<1>1. Kind(link.opcode) \in {"select", "read", "write", "format"}
  BY DEF Kind
<1> QED BY <1>1 DEF AllJobs

(* The sectors of a link still to be moved: none, or the next and the rest.*)
LEMMA SectorsLeft ==
  ASSUME NEW link \in Iocb, NEW done \in 0 .. link.count
  PROVE  /\ SectorJobs(link, done) \in Seq(AllJobs)
         /\ done = link.count => SectorJobs(link, done) = <<>>
         /\ done < link.count =>
              SectorJobs(link, done) =
                <<Job(link, Kind(link.opcode), done)>> \o SectorJobs(link, done + 1)
<1> DEFINE J(i) == Job(link, Kind(link.opcode), i)
           s(d) == [i \in 1 .. link.count - d |-> J(d + i - 1)]
<1>1. link.count \in 0 .. MaxCount /\ MaxCount \in Nat /\ link.count \in Nat
  <2>1. MaxCount \in Nat
    BY DcuAssumption DEF U8, U8_MAX
  <2> QED BY <2>1 DEF Iocb
<1>2. \A i \in 0 .. MaxCount : J(i) \in AllJobs
  BY JobKnown
<1> HIDE DEF J
<1>3. ASSUME NEW d \in 0 .. link.count
      PROVE  s(d) \in Seq(AllJobs) /\ Len(s(d)) = link.count - d
  <2>1. link.count - d \in Nat
    BY <1>1
  <2>2. \A i \in 1 .. link.count - d : J(d + i - 1) \in AllJobs
    BY <1>1, <1>2
  <2>3. s(d) \in [1 .. link.count - d -> AllJobs]
    BY <2>2
  <2>4. s(d) \in Seq(AllJobs)
    BY <2>1, <2>3, SeqDef
  <2> QED BY <2>1, <2>4
<1>4. SectorJobs(link, done) = s(done) /\ SectorJobs(link, done + 1) = s(done + 1)
  BY DEF SectorJobs, J
<1>5. ASSUME done = link.count
      PROVE  s(done) = <<>>
  BY <1>1, <1>5
<1>6. ASSUME done < link.count
      PROVE  s(done) = <<J(done)>> \o s(done + 1)
  <2> DEFINE t == s(done + 1)
  <2>1. done + 1 \in 0 .. link.count /\ J(done) \in AllJobs
    BY <1>1, <1>2, <1>6
  <2>2. t \in Seq(AllJobs) /\ Len(t) = link.count - (done + 1)
    BY <1>3, <2>1
  <2>3. \A i \in 1 .. Len(t) : t[i] = J(done + 1 + i - 1)
    BY <2>2
  <2> HIDE DEF t
  <2>4. /\ <<J(done)>> \o t \in Seq(AllJobs) /\ Len(<<J(done)>> \o t) = 1 + Len(t)
        /\ \A i \in 1 .. 1 + Len(t) :
             (<<J(done)>> \o t)[i] = IF i = 1 THEN J(done) ELSE t[i - 1]
    BY <2>1, <2>2
  <2>5. \A i \in 1 .. link.count - done : s(done)[i] = (<<J(done)>> \o t)[i]
    <3> SUFFICES ASSUME NEW i \in 1 .. link.count - done
                 PROVE  J(done + i - 1) = (<<J(done)>> \o t)[i]
      OBVIOUS
    <3>1. CASE i = 1
      <4>1. done + i - 1 = done
        BY <1>1, <3>1
      <4> QED BY <1>1, <2>2, <2>4, <3>1, <4>1
    <3>2. CASE i # 1
      <4>1. i - 1 \in 1 .. Len(t) /\ done + 1 + (i - 1) - 1 = done + i - 1
        BY <1>1, <2>2, <3>2
      <4> QED BY <1>1, <2>2, <2>3, <2>4, <3>2, <4>1
    <3> QED BY <3>1, <3>2
  <2> DEFINE u == s(done)
             v == <<J(done)>> \o t
  <2>6. u \in Seq(AllJobs) /\ Len(u) = link.count - done
    BY <1>3
  <2>7. v \in Seq(AllJobs) /\ Len(v) = link.count - done
    BY <1>1, <2>2, <2>4
  <2>8. \A i \in 1 .. link.count - done : u[i] = v[i]
    BY <2>5
  <2> HIDE DEF u, v
  <2>9. u = v
    BY <2>6, <2>7, <2>8, SeqEqual
  <2> QED BY <2>9 DEF t, u, v
<1> QED BY <1>3, <1>4, <1>5, <1>6 DEF J

LEMMA LinkJobsType ==
  ASSUME NEW link \in Iocb
  PROVE  LinkJobs(link) \in Seq(AllJobs)
<1>1. 0 \in 0 .. MaxCount /\ 0 \in 0 .. link.count
  BY DcuAssumption DEF Iocb, U8, U8_MAX
<1>2. Job(link, "select", 0) \in AllJobs /\ SectorJobs(link, 0) \in Seq(AllJobs)
  BY <1>1, JobKnown, SectorsLeft
<1> QED BY <1>2, JobFirst DEF LinkJobs

(* f gives every link in S its jobs and those of the rest of its chain.    *)
JobsAlong(mem, S, f) ==
  /\ f \in [S -> Seq(AllJobs)]
  /\ \A b \in S :
       f[b] = LinkJobs(mem[b])
                \o (IF mem[b].chain = NoLink THEN <<>> ELSE f[mem[b].chain])

LEMMA JobsAlongOne ==
  ASSUME NEW mem, ChainsEnd(mem),
         NEW S \in SUBSET IocbAddr, NEW T \in SUBSET IocbAddr,
         Followed(mem, S), Followed(mem, T),
         NEW f, JobsAlong(mem, S, f), NEW g, JobsAlong(mem, T, g),
         NEW a \in S \cap T
  PROVE  f[a] = g[a]
<1> DEFINE D == {b \in S \cap T : f[b] # g[b]}
<1> SUFFICES ASSUME D # {}
             PROVE  FALSE
  OBVIOUS
<1>1. D \in SUBSET IocbAddr
  OBVIOUS
<1>2. PICK b \in D : mem[b].chain \notin D
  <2> HIDE DEF D
  <2> QED BY <1>1 DEF ChainsEnd
<1>3. mem[b].chain = NoLink \/ mem[b].chain \in S \cap T
  BY <1>2 DEF Followed
<1> QED BY <1>2, <1>3 DEF JobsAlong

LEMMA JobsAlongSome ==
  ASSUME NEW mem \in [IocbAddr -> Iocb], ChainsEnd(mem), NEW a \in IocbAddr
  PROVE  \E f : JobsAlong(mem, ChainFrom(mem, a), f)
<1> DEFINE Bad == {b \in IocbAddr : ~ \E f : JobsAlong(mem, ChainFrom(mem, b), f)}
<1> SUFFICES ASSUME Bad # {}
             PROVE  FALSE
  OBVIOUS
<1>1. PICK b \in Bad : mem[b].chain \notin Bad
  <2>1. Bad \in SUBSET IocbAddr
    OBVIOUS
  <2> HIDE DEF Bad
  <2> QED BY <2>1 DEF ChainsEnd
<1>2. /\ b \in IocbAddr /\ Chained(mem) /\ b \in ChainFrom(mem, b)
      /\ LinkJobs(mem[b]) \in Seq(AllJobs)
  BY ChainedMemory, ChainHolds, LinkJobsType
<1>3. CASE mem[b].chain = NoLink
  <2> DEFINE f == [c \in {b} |-> LinkJobs(mem[b])]
  <2>1. ChainFrom(mem, b) = {b}
    BY <1>2, <1>3, ChainUnfolds
  <2>2. LinkJobs(mem[b]) \o <<>> = LinkJobs(mem[b])
    BY <1>2, ConcatEmptySeq
  <2>3. JobsAlong(mem, {b}, f)
    BY <1>2, <1>3, <2>2 DEF JobsAlong
  <2> QED BY <1>1, <2>1, <2>3
<1>4. CASE mem[b].chain # NoLink
  <2> DEFINE c == mem[b].chain
             C == ChainFrom(mem, c)
  <2>1. c \in IocbAddr
    BY <1>2, <1>4 DEF Chained
  <2>2. PICK g : JobsAlong(mem, C, g)
    BY <1>1, <2>1
  <2>3. /\ ChainFrom(mem, b) = {b} \cup C /\ b \notin C /\ c \in C
        /\ Followed(mem, C)
    BY <1>2, <1>4, <2>1, ChainUnfolds, ChainLeaves, ChainHolds, ChainFollowed
  <2> DEFINE f == [d \in {b} \cup C |-> IF d = b THEN LinkJobs(mem[b]) \o g[c] ELSE g[d]]
  <2>4. LinkJobs(mem[b]) \o g[c] \in Seq(AllJobs) /\ \A d \in C : g[d] \in Seq(AllJobs)
    <3>1. \A d \in C : g[d] \in Seq(AllJobs)
      BY <2>2 DEF JobsAlong
    <3> QED BY <1>2, <2>3, <3>1, ConcatProperties
  <2> HIDE DEF c, C
  <2>5. f \in [{b} \cup C -> Seq(AllJobs)]
    BY <2>4
  <2>6. ASSUME NEW d \in {b} \cup C
        PROVE  f[d] = LinkJobs(mem[d])
                        \o (IF mem[d].chain = NoLink THEN <<>> ELSE f[mem[d].chain])
    <3>1. CASE d = b
      <4>1. f[c] = g[c] /\ f[b] = LinkJobs(mem[b]) \o g[c]
        BY <2>3
      <4> QED BY <1>4, <3>1, <4>1 DEF c
    <3>2. CASE d # b
      <4>1. d \in C /\ f[d] = g[d]
        BY <3>2
      <4>2. mem[d].chain # NoLink => mem[d].chain \in C /\ f[mem[d].chain] = g[mem[d].chain]
        BY <2>3, <4>1 DEF Followed
      <4> HIDE DEF f
      <4> QED BY <2>2, <4>1, <4>2 DEF JobsAlong
    <3> QED BY <3>1, <3>2
  <2>7. JobsAlong(mem, {b} \cup C, f)
    BY <2>5, <2>6 DEF JobsAlong
  <2> QED BY <1>1, <2>3, <2>7
<1> QED BY <1>3, <1>4

LEMMA JobsUnfold ==
  ASSUME NEW mem \in [IocbAddr -> Iocb], ChainsEnd(mem)
  PROVE  JobsAlong(mem, IocbAddr, JobsFrom(mem))
<1> DEFINE Sol(a) == CHOOSE f : JobsAlong(mem, ChainFrom(mem, a), f)
           F == [a \in IocbAddr |-> Sol(a)[a]]
           Rest(f, b) == IF mem[b].chain = NoLink THEN <<>> ELSE f[mem[b].chain]
<1>1. Chained(mem)
  BY ChainedMemory
<1>2. ASSUME NEW a \in IocbAddr
      PROVE  /\ JobsAlong(mem, ChainFrom(mem, a), Sol(a))
             /\ a \in ChainFrom(mem, a) /\ ChainFrom(mem, a) \in SUBSET IocbAddr
             /\ Followed(mem, ChainFrom(mem, a))
  BY <1>1, JobsAlongSome, ChainHolds, ChainFollowed
<1> HIDE DEF Sol
<1>3. ASSUME NEW a \in IocbAddr
      PROVE  F[a] \in Seq(AllJobs) /\ F[a] = LinkJobs(mem[a]) \o Rest(F, a)
  <2>1. Sol(a)[a] \in Seq(AllJobs) /\ Sol(a)[a] = LinkJobs(mem[a]) \o Rest(Sol(a), a)
    BY <1>2 DEF JobsAlong
  <2>2. ASSUME mem[a].chain # NoLink
        PROVE  Sol(a)[mem[a].chain] = F[mem[a].chain]
    <3> DEFINE b == mem[a].chain
    <3>1. b \in IocbAddr /\ b \in ChainFrom(mem, a)
      BY <1>1, <1>2, <2>2 DEF Chained, Followed
    <3>2. b \in ChainFrom(mem, a) \cap ChainFrom(mem, b)
      BY <1>2, <3>1
    <3> HIDE DEF b
    <3>3. Sol(a)[b] = Sol(b)[b]
      BY <1>2, <3>1, <3>2, JobsAlongOne
    <3> QED BY <3>1, <3>3 DEF b
  <2> QED BY <2>1, <2>2
<1>4. F = [a \in IocbAddr |-> LinkJobs(mem[a]) \o Rest(F, a)]
  <2>1. F = [a \in IocbAddr |-> F[a]]
    OBVIOUS
  <2> HIDE DEF F, Rest
  <2> QED BY <1>3, <2>1, Zenon
<1>5. JobsFrom(mem) = CHOOSE f : f = [a \in IocbAddr |-> LinkJobs(mem[a]) \o Rest(f, a)]
  BY Zenon DEF JobsFrom
<1>6. JobsFrom(mem) = [a \in IocbAddr |-> LinkJobs(mem[a]) \o Rest(JobsFrom(mem), a)]
  BY <1>4, <1>5
<1> DEFINE G == JobsFrom(mem)
<1> HIDE DEF G
<1>7. G = F
  <2>1. G = [a \in IocbAddr |-> LinkJobs(mem[a]) \o Rest(G, a)]
    BY <1>6 DEF G
  <2> DEFINE D == {a \in IocbAddr : G[a] # F[a]}
  <2>2. ASSUME D # {}
        PROVE  FALSE
    <3>1. PICK a \in D : mem[a].chain \notin D
      <4>1. D \in SUBSET IocbAddr
        OBVIOUS
      <4> HIDE DEF D
      <4> QED BY <2>2, <4>1 DEF ChainsEnd
    <3>2. Rest(G, a) = Rest(F, a)
      BY <1>1, <3>1 DEF Chained
    <3>3. a \in IocbAddr /\ G[a] # F[a]
      BY <3>1
    <3>4. G[a] = LinkJobs(mem[a]) \o Rest(G, a)
      BY <2>1, <3>3
    <3>5. F[a] = LinkJobs(mem[a]) \o Rest(F, a)
      BY <1>3, <3>3
    <3> HIDE DEF D, F, Rest
    <3> QED BY <3>2, <3>3, <3>4, <3>5
  <2>3. \A a \in IocbAddr : G[a] = F[a]
    BY <2>2
  <2>4. G = [a \in IocbAddr |-> G[a]]
    BY <2>1
  <2> QED BY <2>3, <2>4
<1> QED BY <1>3, <1>7 DEF JobsAlong, G

LEMMA JobsSame ==
  ASSUME NEW mem, NEW other, SameOrder(mem, other)
  PROVE  JobsFrom(other) = JobsFrom(mem)
<1>1. \A a \in IocbAddr : LinkJobs(other[a]) = LinkJobs(mem[a])
  BY DEF SameOrder, LinkJobs, SectorJobs, Job
<1>2. \A a \in IocbAddr : other[a].chain = mem[a].chain
  BY DEF SameOrder
<1> DEFINE Along(m, f) == [a \in IocbAddr |->
                              LinkJobs(m[a]) \o
                                IF m[a].chain = NoLink THEN <<>> ELSE f[m[a].chain]]
<1>3. \A f : Along(mem, f) = Along(other, f)
  BY <1>1, <1>2
<1>4. /\ JobsFrom(mem) = CHOOSE f : f = Along(mem, f)
      /\ JobsFrom(other) = CHOOSE f : f = Along(other, f)
  BY DEF JobsFrom
<1> HIDE DEF Along
<1> QED BY <1>3, <1>4, Zenon

(* The jobs of the link under way, and those after it.                     *)
LEMMA JobsUnderWay ==
  ASSUME TypeOK, Handshake, OursInv, phase # "cpu"
  PROVE  /\ JobsAfter(Current) \in Seq(AllJobs)
         /\ JobsFrom(iocb)[at] = LinkJobs(Current) \o JobsAfter(Current)
         /\ Current \in Iocb
<1>1. /\ at \in IocbAddr /\ Chained(iocb) /\ ChainsEnd(iocb) /\ Current = iocb[at]
      /\ iocb \in [IocbAddr -> Iocb]
  BY OnTheWalk DEF TypeOK
<1>2. JobsAlong(iocb, IocbAddr, JobsFrom(iocb))
  BY <1>1, JobsUnfold
<1>3. JobsAfter(Current) \in Seq(AllJobs)
  BY <1>1, <1>2 DEF JobsAfter, JobsAlong, Chained
<1>4. JobsFrom(iocb)[at] = LinkJobs(Current) \o JobsAfter(Current)
  BY <1>1, <1>2 DEF JobsAfter, JobsAlong
<1> QED BY <1>1, <1>3, <1>4

(* Todo at a link that has just been opened, that is moving, and at the    *)
(* end.                                                                    *)
LEMMA TodoOpen ==
  ASSUME TypeOK, Handshake, OursInv, phase # "cpu",
         phase = "open" \/ ~UnitOk(CurrentUnit)
  PROVE  /\ Todo # <<>>
         /\ Todo = JobsFrom(iocb)[at]
         /\ Head(Todo) = Job(Current, "select", 0)
         /\ Tail(Todo) = SectorJobs(Current, 0) \o JobsAfter(Current)
<1> DEFINE rest == SectorJobs(Current, 0) \o JobsAfter(Current)
           x    == Job(Current, "select", 0)
<1>1. /\ JobsAfter(Current) \in Seq(AllJobs) /\ Current \in Iocb
      /\ JobsFrom(iocb)[at] = LinkJobs(Current) \o JobsAfter(Current)
  BY JobsUnderWay
<1>2. 0 \in 0 .. MaxCount /\ 0 \in 0 .. Current.count
  BY <1>1, DcuAssumption DEF Iocb, U8, U8_MAX
<1>3. SectorJobs(Current, 0) \in Seq(AllJobs) /\ x \in AllJobs
  BY <1>1, <1>2, SectorsLeft, JobKnown
<1>4. rest \in Seq(AllJobs) /\ <<x>> \in Seq(AllJobs)
  BY <1>1, <1>3, ConcatProperties
<1>5. LinkJobs(Current) \o JobsAfter(Current) = <<x>> \o rest
  BY <1>1, <1>3, <1>4, ConcatAssociative DEF LinkJobs
<1>6. Todo = JobsFrom(iocb)[at]
  <2>1. Asking /\ phase \in {"open", "move"}
    BY OnTheWalk DEF TypeOK
  <2> QED BY <1>1, <2>1 DEF Todo, JobsLeft
<1> HIDE DEF rest, x
<1>7. <<x>> \o rest # <<>> /\ Head(<<x>> \o rest) = x /\ Tail(<<x>> \o rest) = rest
  BY <1>3, <1>4, JobFirst
<1> QED BY <1>1, <1>5, <1>6, <1>7 DEF rest, x

LEMMA TodoMove ==
  ASSUME TypeOK, Progress, Handshake, OursInv, phase = "move", UnitOk(CurrentUnit)
  PROVE  /\ Todo = SectorJobs(Current, moved) \o JobsAfter(Current)
         /\ moved = Current.count => Todo = JobsAfter(Current)
         /\ moved < Current.count =>
              /\ Todo # <<>>
              /\ Head(Todo) = Job(Current, Kind(Current.opcode), moved)
              /\ Tail(Todo) = SectorJobs(Current, moved + 1) \o JobsAfter(Current)
<1> DEFINE x    == Job(Current, Kind(Current.opcode), moved)
           more == SectorJobs(Current, moved + 1)
           rest == more \o JobsAfter(Current)
<1>1. JobsAfter(Current) \in Seq(AllJobs) /\ Current \in Iocb
  BY JobsUnderWay
<1>2. /\ Current.count \in 0 .. MaxCount /\ moved \in 0 .. Current.count
      /\ moved \in 0 .. MaxCount /\ MaxCount \in Nat
  BY <1>1, DcuAssumption DEF Iocb, Progress, TypeOK, U8, U8_MAX
<1>3. Todo = SectorJobs(Current, moved) \o JobsAfter(Current)
  <2>1. Asking
    BY OnTheWalk
  <2> QED BY <2>1 DEF Todo, JobsLeft
<1>4. ASSUME moved = Current.count
      PROVE  Todo = JobsAfter(Current)
  BY <1>1, <1>2, <1>3, <1>4, SectorsLeft, ConcatEmptySeq
<1>5. ASSUME moved < Current.count
      PROVE  /\ Todo # <<>> /\ Head(Todo) = x /\ Tail(Todo) = rest
  <2>1. moved + 1 \in 0 .. Current.count
    BY <1>2, <1>5
  <2>2. SectorJobs(Current, moved) = <<x>> \o more
    BY <1>1, <1>2, <1>5, SectorsLeft
  <2>3. more \in Seq(AllJobs) /\ x \in AllJobs
    BY <1>1, <1>2, <2>1, SectorsLeft, JobKnown
  <2>4. <<x>> \in Seq(AllJobs)
    BY <2>3
  <2> HIDE DEF x, more
  <2>5. rest \in Seq(AllJobs)
    BY <1>1, <2>3, ConcatProperties
  <2>6. Todo = <<x>> \o rest
    BY <1>1, <1>3, <2>2, <2>3, <2>4, ConcatAssociative
  <2> HIDE DEF rest
  <2> QED BY <2>3, <2>5, <2>6, JobFirst
<1> QED BY <1>3, <1>4, <1>5

-----------------------------------------------------------------------------
(***************************************************************************)
(* The board with its drivers does what DiskService promises.  Each step   *)
(* is one of DiskService, or leaves everything it speaks of alone.         *)
(***************************************************************************)
ServiceStep == [Service!SNext]_(Service!svars)

LEMMA ServiceSame ==
  ASSUME UNCHANGED <<disk, page, geom>>, Todo' = Todo, AnswerSoFar' = AnswerSoFar
  PROVE  ServiceStep
<1>1. Shapes' = Shapes
  BY DEF Shapes
<1> QED BY <1>1 DEF ServiceStep, Service!svars

LEMMA ServiceIdle ==
  ASSUME ~Asking
  PROVE  Todo = <<>> /\ AnswerSoFar = "none"
BY DEF Todo, AnswerSoFar

LEMMA ServiceWorking ==
  ASSUME Asking, phase # "cpu"
  PROVE  AnswerSoFar = "working"
BY DEF AnswerSoFar

(* Steps of a driver that the service does not notice. *)
LEMMA ServicePreparing ==
  ASSUME Prepare \/ PutArgument
  PROVE  ServiceStep
<1>1. UNCHANGED <<disk, page, geom>> /\ ~Asking /\ ~Asking'
  BY DEF Prepare, PutArgument, PutByte, WriteChan, Goto, Asking, memory
<1>2. ~Asking => Todo = <<>> /\ AnswerSoFar = "none"
  BY ServiceIdle
<1>3. (~Asking => Todo = <<>> /\ AnswerSoFar = "none")'
  BY DEF Todo, AnswerSoFar
<1> QED BY <1>1, <1>2, <1>3, ServiceSame

LEMMA ServiceListening ==
  ASSUME \/ Poll \/ StartKernel \/ Interrupt
         \/ UNCHANGED dvars
  PROVE  ServiceStep
<1>1. /\ UNCHANGED <<disk, page, geom, code, phase, at, moved, iocb, first>>
      /\ Asking' = Asking
  BY DEF Poll, StartKernel, Interrupt, TakeInterrupt, Goto, dvars, vars, regs, status,
         walk, memory, driver, Asking
<1>2. Current' = Current /\ CurrentUnit' = CurrentUnit
  BY <1>1, SameLink
<1>3. JobsLeft' = JobsLeft
  BY <1>1, <1>2 DEF JobsLeft, JobsAfter
<1>4. Todo' = Todo /\ AnswerSoFar' = AnswerSoFar
  BY <1>1, <1>3 DEF Todo, AnswerSoFar
<1> QED BY <1>1, <1>4, ServiceSame

LEMMA ServiceFill ==
  ASSUME FillPage
  PROVE  ServiceStep
<1>1. /\ UNCHANGED <<disk, geom>> /\ ~Asking /\ ~Asking'
      /\ \E p \in Page, d \in Data : page' = [page EXCEPT ![p] = d]
  BY DcuAssumption DEF FillPage, StorePage, driver, Asking
<1>2. Todo = <<>> /\ AnswerSoFar = "none" /\ Todo' = <<>> /\ AnswerSoFar' = "none"
  BY <1>1 DEF Todo, AnswerSoFar
<1>3. Shapes' = Shapes
  BY <1>1 DEF Shapes
<1>4. Service!Fill
  BY <1>1, <1>2, <1>3 DEF Service!Fill
<1> QED BY <1>4 DEF ServiceStep, Service!SNext

LEMMA ServiceSubmit ==
  ASSUME OursInv, Start
  PROVE  ServiceStep
<1>1. /\ UNCHANGED <<disk, page, geom, iocb, first>> /\ ~Asking /\ Asking' /\ Preparing
      /\ phase' = "cpu" /\ code' = DCU_BUSY
  BY DEF Start, WriteOpcode, Goto, Asking, Preparing, memory, walk
<1>2. Todo' = JobsFrom(iocb)[first] /\ AnswerSoFar' = "pending"
  BY <1>1 DEF Todo, JobsLeft, AnswerSoFar, DCU_BUSY, DCU_DONE, DCU_ERROR
<1>3. Todo' \in Requested
  BY <1>1, <1>2 DEF OursInv, Errand, Requested
<1>4. AnswerSoFar = "none" /\ Shapes' = Shapes
  BY <1>1 DEF AnswerSoFar, Shapes
<1>5. Service!Submit
  BY <1>1, <1>2, <1>3, <1>4 DEF Service!Submit
<1> QED BY <1>5 DEF ServiceStep, Service!SNext

LEMMA ServiceTake ==
  ASSUME TogetherInv, Answer
  PROVE  ServiceStep
<1>1. /\ UNCHANGED <<disk, page, geom>> /\ Asking /\ ~Asking' /\ phase = "cpu"
      /\ step = "answer"
  BY DEF Answer, Acknowledge, Asking, memory
<1>2. code \in {DCU_DONE, DCU_ERROR}
  BY <1>1 DEF TogetherInv, DriverInv, Handshake, OursInv, Commands
<1>3. Todo = <<>> /\ AnswerSoFar \in {"ok", "failed"}
  BY <1>1, <1>2 DEF Todo, JobsLeft, AnswerSoFar, DCU_BUSY, DCU_DONE, DCU_ERROR
<1>4. Todo' = <<>> /\ AnswerSoFar' = "none" /\ Shapes' = Shapes
  BY <1>1 DEF Todo, AnswerSoFar, Shapes
<1>5. Service!TakeAnswer
  BY <1>1, <1>3, <1>4 DEF Service!TakeAnswer
<1> QED BY <1>5 DEF ServiceStep, Service!SNext

LEMMA ServiceForget ==
  ASSUME OursInv, ResetMachine
  PROVE  ServiceStep
<1>1. /\ UNCHANGED <<disk, page>> /\ ~Asking' /\ phase = "cpu"
      /\ geom' = [u \in 0 .. 1 |-> Unread]
  BY DEF ResetMachine, Reset, Asking, memory
<1>2. AnswerSoFar # "working"
  <2>1. CASE ~Asking
    BY <2>1 DEF AnswerSoFar
  <2>2. CASE Asking
    <3>1. code \in {DCU_BUSY, DCU_DONE, DCU_ERROR}
      BY <2>2 DEF OursInv, Commands
    <3> QED BY <1>1, <2>2, <3>1 DEF AnswerSoFar, DCU_BUSY, DCU_DONE, DCU_ERROR
  <2> QED BY <2>1, <2>2
<1>3. Todo' = <<>> /\ AnswerSoFar' = "none"
  BY <1>1 DEF Todo, AnswerSoFar
<1>4. Shapes' = Service!ShapesForgotten
  BY <1>1, DcuAssumption DEF Shapes, Service!ShapesForgotten, Service!Unread, Unread
<1>5. Service!Forget
  BY <1>1, <1>2, <1>3, <1>4 DEF Service!Forget
<1> QED BY <1>5 DEF ServiceStep, Service!SNext

LEMMA ServiceBegin ==
  ASSUME OursInv, UNCHANGED driver, op' = op,
         phase = "cpu", step = "wait", code = DCU_BUSY, ExecuteStart
  PROVE  ServiceStep
<1>1. /\ UNCHANGED <<disk, page, geom, iocb, first>> /\ Asking /\ Asking'
      /\ phase' = "open" /\ at' = Arg /\ Arg = first
  BY DEF ExecuteStart, memory, driver, Asking, OursInv, BytesOfFirst
<1>2. Todo' = Todo
  BY <1>1 DEF Todo, JobsLeft
<1>3. AnswerSoFar = "pending" /\ AnswerSoFar' = "working" /\ Shapes' = Shapes
  BY <1>1 DEF AnswerSoFar, Shapes, DCU_BUSY, DCU_DONE, DCU_ERROR
<1>4. Service!Begin
  BY <1>1, <1>2, <1>3 DEF Service!Begin
<1> QED BY <1>4 DEF ServiceStep, Service!SNext

LEMMA ServiceRefused ==
  ASSUME UNCHANGED driver, Refused
  PROVE  ServiceStep
<1>1. UNCHANGED <<disk, page, geom>> /\ ~Asking /\ ~Asking'
  BY DEF Refused, driver, Asking
<1>2. Todo = <<>> /\ AnswerSoFar = "none" /\ Todo' = <<>> /\ AnswerSoFar' = "none"
  BY <1>1 DEF Todo, AnswerSoFar
<1> QED BY <1>1, <1>2, ServiceSame

(* Reading a drive's shape is what selecting it does. *)
LEMMA ShapeSelected ==
  ASSUME TypeOK, NEW u \in Drives, geom' = GeometryRead(u)
  PROVE  Shapes' = IF Shapes[u] = Unread
                   THEN [Shapes EXCEPT ![u] = Service!ShapeOnLabel(u)] ELSE Shapes
<1>1. /\ u \in 0 .. 1 /\ Drives \subseteq 0 .. 1
      /\ geom \in [0 .. 1 -> Geometry \cup {Unread}]
  BY DcuAssumption DEF TypeOK
<1> DEFINE label == IF Capacity[u] > 0 THEN GeometryOf(HeaderIn[disk[u][0]])
                                       ELSE FallbackDrive
<1>2. Service!ShapeOnLabel(u) = label
  BY DEF Service!ShapeOnLabel, Service!GeometryOf, Service!FallbackDrive, GeometryOf,
     FallbackDrive, Service!DCU_SECTORS, Service!DCU_HEADS, DCU_SECTORS, DCU_HEADS
<1>3. geom[u].sectors # 0 <=> geom[u] # Unread
  BY <1>1 DEF Geometry, Unread
<1>4. geom' = IF geom[u] # Unread THEN geom ELSE [geom EXCEPT ![u] = label]
  BY <1>3 DEF GeometryRead
<1> HIDE DEF label
<1>5. Shapes[u] = geom[u]
  BY DEF Shapes
<1>6. CASE geom[u] # Unread
  BY <1>4, <1>5, <1>6 DEF Shapes
<1>7. CASE geom[u] = Unread
  <2>1. geom' = [geom EXCEPT ![u] = label]
    BY <1>4, <1>7
  <2>2. Shapes' = [v \in Drives |-> IF v = u THEN label ELSE geom[v]]
    BY <1>1, <2>1 DEF Shapes
  <2>3. [Shapes EXCEPT ![u] = label] = [v \in Drives |-> IF v = u THEN label ELSE geom[v]]
    BY DEF Shapes
  <2> QED BY <1>2, <1>5, <1>7, <2>2, <2>3
<1> QED BY <1>6, <1>7

LEMMA PlaceIsLba ==
  ASSUME CurrentUnit \in Drives, NEW kind
  PROVE  Service!Place(Job(Current, kind, moved)) = CurrentLba
<1>1. Shapes[CurrentUnit] = geom[CurrentUnit]
  BY DEF Shapes
<1> QED BY <1>1 DEF Service!Place, Service!Lba, Lba, CurrentLba, FirstLba, Job, CurrentUnit

LEMMA ServiceOpen ==
  ASSUME TypeOK, Handshake, OursInv, UNCHANGED driver, OpenLink
  PROVE  ServiceStep
<1>1. /\ phase = "open" /\ phase' = "move" /\ moved' = 0
      /\ UNCHANGED <<disk, page, iocb, at, code>> /\ Asking /\ Asking'
      /\ geom' = IF UnitOk(CurrentUnit) THEN GeometryRead(CurrentUnit) ELSE geom
  BY OnTheWalk DEF OpenLink, memory, status, driver, Asking
<1>2. /\ Current' = Current /\ CurrentUnit' = CurrentUnit
      /\ JobsAfter(Current)' = JobsAfter(Current)
  BY <1>1, SameLink DEF JobsAfter
<1>3. AnswerSoFar = "working" /\ AnswerSoFar' = "working"
  BY <1>1 DEF AnswerSoFar
<1>4. /\ Todo # <<>> /\ Todo = JobsFrom(iocb)[at]
      /\ Head(Todo) = Job(Current, "select", 0)
      /\ Tail(Todo) = SectorJobs(Current, 0) \o JobsAfter(Current)
  BY <1>1, TodoOpen
<1>5. CASE UnitOk(CurrentUnit)
  <2> DEFINE job == Head(Todo)
  <2>1. Todo' = Tail(Todo)
    BY <1>1, <1>2, <1>4, <1>5 DEF Todo, JobsLeft, UnitOk
  <2>2. job.unit = CurrentUnit /\ job.kind = "select" /\ CurrentUnit \in Drives
    BY <1>4, <1>5 DEF Job, CurrentUnit, UnitOk
  <2>3. Service!Feasible(job)
    BY <2>2 DEF Service!Feasible
  <2>4. Service!Select(CurrentUnit)
    BY <1>1, <1>5, <2>2, ShapeSelected DEF Service!Select, Service!Unread, Unread
  <2>5. Service!DoJob
    BY <1>3, <1>4, <2>1, <2>2, <2>3, <2>4 DEF Service!DoJob
  <2> QED BY <2>5 DEF ServiceStep, Service!SNext
<1>6. CASE ~UnitOk(CurrentUnit)
  <2>1. Todo' = LinkJobs(Current) \o JobsAfter(Current)
    BY <1>1, <1>2, <1>6 DEF Todo, JobsLeft, UnitOk
  <2>2. Todo' = Todo
    BY <1>1, <1>4, <2>1, JobsUnderWay
  <2> QED BY <1>1, <1>3, <1>6, <2>2, ServiceSame
<1> QED BY <1>5, <1>6

LEMMA ServiceMove ==
  ASSUME TypeOK, ShapeKnown, Progress, Handshake, OursInv, UNCHANGED driver, MoveSector
  PROVE  ServiceStep
<1>1. /\ phase = "move" /\ phase' = "move" /\ ~failed /\ moved < Current.count
      /\ moved' = moved + 1 /\ CurrentLba < Capacity[CurrentUnit]
      /\ UNCHANGED <<geom, iocb, at, code>>
  BY DEF MoveSector, WriteSector, FormatSector, ReadSector, MoveOne, Moving, OnImage,
         status
<1>2. Asking /\ Asking' /\ CurrentUnit \in Drives
  BY <1>1, OnTheWalk DEF driver, Asking, ShapeKnown
<1>3. /\ Current' = Current /\ CurrentUnit' = CurrentUnit
      /\ JobsAfter(Current)' = JobsAfter(Current) /\ Shapes' = Shapes
  BY <1>1, SameLink DEF JobsAfter, Shapes
<1>4. AnswerSoFar = "working" /\ AnswerSoFar' = "working"
  BY <1>1, <1>2 DEF AnswerSoFar
<1> DEFINE job == Job(Current, Kind(Current.opcode), moved)
<1>5. /\ Todo # <<>> /\ Head(Todo) = job
      /\ Tail(Todo) = SectorJobs(Current, moved + 1) \o JobsAfter(Current)
  BY <1>1, <1>2, TodoMove DEF UnitOk
<1>6. Todo' = Tail(Todo)
  BY <1>1, <1>2, <1>3, <1>5 DEF Todo, JobsLeft, UnitOk
<1>7. /\ job.unit = CurrentUnit /\ job.kind = Kind(Current.opcode)
      /\ job.page = Current.table[moved]
  BY DEF Job, CurrentUnit
<1>8. Service!Place(job) = CurrentLba
  BY <1>2, PlaceIsLba
<1> HIDE DEF job
<1>9. Service!Feasible(job)
  BY <1>1, <1>2, <1>7, <1>8 DEF Service!Feasible
<1>k. /\ DCU_C_WRITE # DCU_C_FORMAT
      /\ Current.opcode = DCU_C_WRITE => job.kind = "write"
      /\ Current.opcode = DCU_C_FORMAT => job.kind = "format"
      /\ Current.opcode \notin {DCU_C_WRITE, DCU_C_FORMAT} => job.kind = "read"
  BY <1>7 DEF Kind, DCU_C_WRITE, DCU_C_FORMAT
<1>10. ASSUME WriteSector
       PROVE  Service!Move(job)
  BY <1>3, <1>7, <1>8, <1>10, <1>k DEF WriteSector, PutSector, Service!Move
<1>11. ASSUME FormatSector
       PROVE  Service!Move(job)
  BY <1>3, <1>7, <1>8, <1>11, <1>k DEF FormatSector, PutSector, Service!Move
<1>12. ASSUME ReadSector
       PROVE  Service!Move(job)
  BY <1>3, <1>7, <1>8, <1>12, <1>k DEF ReadSector, Service!Move
<1>13. Service!Move(job)
  BY <1>10, <1>11, <1>12 DEF MoveSector
<1>14. job.kind # "select"
  BY <1>k
<1>15. Service!DoJob
  BY <1>4, <1>5, <1>6, <1>9, <1>13, <1>14 DEF Service!DoJob
<1> QED BY <1>15 DEF ServiceStep, Service!SNext

LEMMA ServiceCheck ==
  ASSUME TypeOK, Handshake, OursInv, UNCHANGED driver, DriveCheck
  PROVE  ServiceStep
<1>1. /\ phase = "move" /\ phase' = "move"
      /\ UNCHANGED <<disk, page, geom, iocb, at, moved, code>>
  BY DEF DriveCheck, Moving, memory, status
<1>2. Asking /\ Asking'
  BY <1>1, OnTheWalk DEF driver, Asking
<1>3. /\ Current' = Current /\ CurrentUnit' = CurrentUnit
      /\ JobsAfter(Current)' = JobsAfter(Current)
  BY <1>1, SameLink DEF JobsAfter
<1>4. Todo' = Todo /\ AnswerSoFar' = AnswerSoFar
  BY <1>1, <1>2, <1>3 DEF Todo, JobsLeft, AnswerSoFar
<1> QED BY <1>1, <1>4, ServiceSame

(* A request fails because of the job that comes next. *)
LEMMA ServiceFail ==
  ASSUME TypeOK, Progress, Handshake, OursInv, UNCHANGED driver, EndFailed
  PROVE  ServiceStep
<1>1. /\ phase = "move" /\ failed /\ phase' = "cpu" /\ code' = DCU_ERROR
      /\ UNCHANGED <<disk, page, geom>>
  BY DEF EndFailed, Report, Leave, Finish
<1>2. Asking /\ Asking'
  BY <1>1, OnTheWalk DEF driver, Asking
<1>3. AnswerSoFar = "working" /\ Todo' = <<>> /\ AnswerSoFar' = "failed"
  BY <1>1, <1>2 DEF AnswerSoFar, Todo, JobsLeft, DCU_BUSY, DCU_DONE, DCU_ERROR
<1>4. Todo # <<>> /\ ~Service!Feasible(Head(Todo))
  <2>1. CASE ~UnitOk(CurrentUnit)
    <3>1. Todo # <<>> /\ Head(Todo) = Job(Current, "select", 0)
      BY <1>1, <2>1, TodoOpen
    <3>2. Head(Todo).unit = CurrentUnit
      BY <3>1 DEF Job, CurrentUnit
    <3> QED BY <2>1, <3>1, <3>2 DEF Service!Feasible, UnitOk
  <2>2. CASE UnitOk(CurrentUnit)
    <3> DEFINE job == Job(Current, Kind(Current.opcode), moved)
    <3>1. /\ moved < Current.count /\ ~OnImage /\ CurrentUnit \in Drives
      BY <1>1, <2>2 DEF OursInv, Culpable, UnitOk
    <3>2. Todo # <<>> /\ Head(Todo) = job
      BY <1>1, <2>2, <3>1, TodoMove
    <3>3. Service!Place(job) = CurrentLba
      BY <3>1, PlaceIsLba
    <3>4. job.unit = CurrentUnit /\ job.kind # "select"
      BY DEF Job, CurrentUnit, Kind
    <3> HIDE DEF job
    <3> QED BY <3>1, <3>2, <3>3, <3>4 DEF Service!Feasible, OnImage
  <2> QED BY <2>1, <2>2
<1>5. Shapes' = Shapes
  BY <1>1 DEF Shapes
<1>6. Service!AnswerFailed
  BY <1>1, <1>3, <1>4, <1>5 DEF Service!AnswerFailed
<1> QED BY <1>6 DEF ServiceStep, Service!SNext

LEMMA ServiceFollow ==
  ASSUME TypeOK, ShapeKnown, Progress, Handshake, OursInv, UNCHANGED driver, FollowChain
  PROVE  ServiceStep
<1>1. /\ phase = "move" /\ ~failed /\ moved = Current.count /\ phase' = "open"
      /\ Current.chain # NoLink /\ at' = Current.chain /\ Report(IOCB_ES_CHAIN)
      /\ UNCHANGED <<disk, page, geom>>
  BY DEF FollowChain, LinkMoved, Report
<1>2. Asking /\ Asking' /\ UnitOk(CurrentUnit)
  BY <1>1, OnTheWalk DEF driver, Asking, ShapeKnown, UnitOk
<1>3. Todo = JobsFrom(iocb)[Current.chain]
  BY <1>1, <1>2, TodoMove DEF JobsAfter
<1>4. JobsFrom(iocb') = JobsFrom(iocb)
  <2>1. SameOrder(iocb, iocb')
    BY <1>1, ReportKeeps, Zenon
  <2> QED BY <2>1, JobsSame, Zenon
<1>5. JobsFrom(iocb)' = JobsFrom(iocb)
  BY <1>4, Zenon DEF JobsFrom
<1>6. Todo' = JobsFrom(iocb)'[at']
  BY <1>1, <1>2 DEF Todo, JobsLeft
<1>7. AnswerSoFar = "working" /\ AnswerSoFar' = "working"
  BY <1>1, <1>2 DEF AnswerSoFar
<1> QED BY <1>1, <1>3, <1>5, <1>6, <1>7, ServiceSame

LEMMA ServiceDone ==
  ASSUME TypeOK, ShapeKnown, Progress, Handshake, OursInv, UNCHANGED driver, EndDone
  PROVE  ServiceStep
<1>1. /\ phase = "move" /\ ~failed /\ moved = Current.count /\ phase' = "cpu"
      /\ Current.chain = NoLink /\ code' = DCU_DONE /\ UNCHANGED <<disk, page, geom>>
  BY DEF EndDone, LinkMoved, Report, Leave, Finish
<1>2. Asking /\ Asking' /\ UnitOk(CurrentUnit)
  BY <1>1, OnTheWalk DEF driver, Asking, ShapeKnown, UnitOk
<1>3. Todo = <<>>
  BY <1>1, <1>2, TodoMove DEF JobsAfter
<1>4. AnswerSoFar = "working" /\ Todo' = <<>> /\ AnswerSoFar' = "ok" /\ Shapes' = Shapes
  BY <1>1, <1>2 DEF AnswerSoFar, Todo, JobsLeft, Shapes, DCU_BUSY, DCU_DONE, DCU_ERROR
<1>5. Service!AnswerOk
  BY <1>1, <1>3, <1>4 DEF Service!AnswerOk
<1> QED BY <1>5 DEF ServiceStep, Service!SNext

LEMMA ServiceInitially ==
  ASSUME DriverInit
  PROVE  Service!SInit
<1>1. /\ disk \in FirstDisk /\ page = [p \in Page |-> Zeros]
      /\ geom = [u \in 0 .. 1 |-> Unread] /\ ~Asking
  BY DEF DriverInit, Init, Asking
<1>2. Todo = <<>> /\ AnswerSoFar = "none"
  BY <1>1, ServiceIdle
<1>3. Shapes = Service!ShapesForgotten
  BY <1>1, DcuAssumption DEF Shapes, Service!ShapesForgotten, Service!Unread, Unread
<1> QED BY <1>1, <1>2, <1>3 DEF Service!SInit

LEMMA ServiceNext ==
  ASSUME TogetherInv, [DriverNext]_dvars
  PROVE  ServiceStep
<1>0. TypeOK /\ ShapeKnown /\ Progress /\ Handshake /\ OursInv /\ Commands
  BY DEF TogetherInv, IInv, DriverInv, OursInv
<1>1. CASE FillPage
  BY <1>1, ServiceFill
<1>2. CASE Prepare \/ PutArgument
  BY <1>2, ServicePreparing
<1>3. CASE Start
  BY <1>0, <1>3, ServiceSubmit
<1>4. CASE Poll \/ StartKernel \/ Interrupt \/ UNCHANGED dvars
  BY <1>4, ServiceListening
<1>5. CASE Answer
  BY <1>5, ServiceTake
<1>6. CASE ResetMachine
  BY <1>0, <1>6, ServiceForget
<1>7. CASE Board
  <2>1. /\ UNCHANGED driver /\ op' = op
        /\ \/ Refused
           \/ phase = "cpu" /\ step = "wait" /\ code = DCU_BUSY /\ ExecuteStart
           \/ Transfer
    BY <1>0, <1>7, BoardSteps
  <2>2. CASE Refused
    BY <2>1, <2>2, ServiceRefused
  <2>3. CASE phase = "cpu" /\ step = "wait" /\ code = DCU_BUSY /\ ExecuteStart
    BY <1>0, <2>1, <2>3, ServiceBegin
  <2>4. CASE Transfer
    BY <1>0, <2>1, <2>4, ServiceOpen, ServiceMove, ServiceCheck, ServiceFail,
       ServiceFollow, ServiceDone DEF Transfer, MoveSector
  <2> QED BY <2>1, <2>2, <2>3, <2>4
<1> QED BY <1>1, <1>2, <1>3, <1>4, <1>5, <1>6, <1>7 DEF DriverNext

(* The board implements DiskService for its drivers: every request is      *)
(* carried out in order, each sector once and in its place, whatever chain *)
(* the drivers lay out, whatever is written over a label meanwhile, and    *)
(* over resets; and its answer is about what was carried out.              *)
THEOREM Implements == DriverSpec => ServiceSpec
<1>1. TogetherInv /\ [DriverNext]_dvars => [Service!SNext]_(Service!svars)
  BY ServiceNext DEF ServiceStep
<1> QED BY Together, ServiceInitially, <1>1, PTL DEF DriverSpec, ServiceSpec, Service!SSpec
=============================================================================
