----------------------------- MODULE DcuDriver -----------------------------
(***************************************************************************)
(* The disk board together with the software that drives it.  After a      *)
(* reset the ROM monitor runs: it polls the status register.  Once it has  *)
(* read something off the disk it may start the kernel, which sleeps until *)
(* interrupt line 3 asks.  Both set up IOCBs, write the three argument     *)
(* bytes, write DC_START, learn the outcome and acknowledge it, one        *)
(* command at a time.                                                      *)
(*                                                                         *)
(* The drivers (the monitor's, io/dc.c) are not in the repository: they    *)
(* are modelled from the interface sys16.cpp states for them and from      *)
(* docs/STATUS.md, and every step of theirs is an action of Dcu.  The      *)
(* kernel's interrupt handler may be entered at any time an edge is        *)
(* latched, also one left over from the polled commands of the monitor;    *)
(* it goes back to sleep when the status still says busy.                  *)
(***************************************************************************)
EXTENDS Dcu, Sequences

CONSTANTS
  Program,     \* requests: [first : IocbAddr, image : [IocbAddr -> Iocb]]
  MaxResets    \* bound: resets of the machine

(* Every chain leads to a link without a next one: no set of IOCBs keeps   *)
(* its links among itself.  (One that did would be followed for ever.)     *)
ChainsEnd(mem) ==
  \A S \in SUBSET IocbAddr : S # {} => \E a \in S : mem[a].chain \notin S

(* What the drivers do: the address of the first IOCB fits into the three  *)
(* argument bytes, chains end, and no ending is left from a command before.*)
ASSUME DriverAssumption ==
  /\ \A r \in Program :
       /\ r.first \in IocbAddr /\ r.first \div 65536 \in U8
       /\ r.image \in [IocbAddr -> Iocb]
       /\ ChainsEnd(r.image)
       /\ \A a \in IocbAddr : r.image[a].status = IOCB_ES_NONE
  /\ MaxResets \in Nat

VARIABLES
  mode,        \* "monitor" or "kernel"
  step,        \* what the driver does next
  first,       \* address of the first IOCB of its request
  loaded,      \* the monitor has had a successful answer since the reset
  resets       \* resets so far

driver == <<mode, step, first, loaded, resets>>
dvars  == <<vars, driver>>

DriverInit ==
  /\ Init
  /\ mode = "monitor"
  /\ step = "ready"
  /\ first = 0
  /\ loaded = FALSE
  /\ resets = 0

(* The driver's own move to another step.                                  *)
Goto(from, to) ==
  /\ step = from
  /\ step' = to
  /\ UNCHANGED <<mode, loaded, resets>>

FillPage ==
  /\ step = "ready"
  /\ \E p \in Page, d \in Stored : StorePage(p, d)
  /\ UNCHANGED driver

(* All IOCBs of a request are in memory before the board hears of it.      *)
Prepare ==
  /\ phase = "cpu"
  /\ Goto("ready", "chan0")
  /\ \E r \in Program : iocb' = r.image /\ first' = r.first
  /\ UNCHANGED <<regs, status, geom, timer, walk, page, disk>>

PutByte(n, from, to, b) ==
  /\ WriteChan(n, b)
  /\ Goto(from, to)
  /\ UNCHANGED first

PutArgument ==
  \/ PutByte(0, "chan0", "chan1", first % 256)
  \/ PutByte(1, "chan1", "chan2", (first \div 256) % 256)
  \/ PutByte(2, "chan2", "start", first \div 65536)

Start ==
  /\ WriteOpcode(DCU_C_START)
  /\ Goto("start", "wait")
  /\ UNCHANGED first

(* The monitor reads the status until it is no longer busy.                *)
Poll ==
  /\ mode = "monitor"
  /\ phase = "cpu"
  /\ CodeIn(StatusByte) # DCU_BUSY
  /\ Goto("wait", "answer")
  /\ UNCHANGED <<vars, first>>

(* The kernel's handler: an edge while its command is still busy, or while *)
(* it has none, is not an answer.                                          *)
Interrupt ==
  /\ mode = "kernel"
  /\ TakeInterrupt
  /\ step' = IF step = "wait" /\ CodeIn(StatusByte) # DCU_BUSY
             THEN "answer" ELSE step
  /\ UNCHANGED <<mode, first, loaded, resets>>

(* The outcome is noted and acknowledged; the driver is ready again.       *)
Answer ==
  /\ Acknowledge
  /\ step = "answer"
  /\ step' = "ready"
  /\ loaded' = (loaded \/ CodeIn(StatusByte) = DCU_DONE)
  /\ UNCHANGED <<mode, first, resets>>

StartKernel ==
  /\ phase = "cpu"
  /\ mode = "monitor" /\ step = "ready" /\ loaded
  /\ mode' = "kernel"
  /\ UNCHANGED <<vars, step, first, loaded, resets>>

ResetMachine ==
  /\ resets < MaxResets
  /\ Reset
  /\ mode' = "monitor"
  /\ step' = "ready"
  /\ loaded' = FALSE
  /\ resets' = resets + 1
  /\ UNCHANGED first

(* The board's own steps leave the driver alone.                           *)
Board == (Execute \/ Transfer) /\ UNCHANGED driver

DriverNext ==
  \/ FillPage
  \/ Prepare
  \/ PutArgument
  \/ Start
  \/ Poll
  \/ Interrupt
  \/ Answer
  \/ StartKernel
  \/ ResetMachine
  \/ Board

DriverSpec == DriverInit /\ [][DriverNext]_dvars

(* The emulator's scheduler runs every timer that is due and every         *)
(* callback to its end; the processor runs on, so a driver that can take   *)
(* its next step towards an answer takes it.  Nobody is obliged to make a  *)
(* request, to start the kernel or to press reset.                         *)
Fairness ==
  /\ WF_dvars(Board)
  /\ WF_dvars(PutArgument)
  /\ WF_dvars(Start)
  /\ WF_dvars(Poll)
  /\ WF_dvars(Interrupt)
  /\ WF_dvars(Answer)

FairDriverSpec == DriverSpec /\ Fairness

-----------------------------------------------------------------------------
(***************************************************************************)
(* What the board does for the software, as DiskService states it.         *)
(***************************************************************************)
Kind(opcode) ==
  CASE opcode = DCU_C_WRITE  -> "write"
    [] opcode = DCU_C_FORMAT -> "format"
    [] OTHER                 -> "read"

Job(link, kind, i) ==
  [kind     |-> kind,
   unit     |-> UnitOf(link.drhdsec),
   cylinder |-> link.cylinder,
   head     |-> HeadOf(link.drhdsec),
   sector   |-> SectorOf(link.drhdsec),
   i        |-> i,
   page     |-> link.table[i]]

(* A link of the chain selects its drive and then moves its sectors.       *)
SectorJobs(link, done) ==
  [i \in 1 .. link.count - done |-> Job(link, Kind(link.opcode), done + i - 1)]

LinkJobs(link) == <<Job(link, "select", 0)>> \o SectorJobs(link, 0)

JobsFrom(mem) ==
  LET jobs[a \in IocbAddr] ==
        LinkJobs(mem[a])
          \o (IF mem[a].chain = NoLink THEN <<>> ELSE jobs[mem[a].chain])
  IN  jobs

JobsAfter(link) ==
  IF link.chain = NoLink THEN <<>> ELSE JobsFrom(iocb)[link.chain]

JobsLeft ==
  CASE phase = "cpu"  -> IF code = DCU_BUSY THEN JobsFrom(iocb)[first] ELSE <<>>
    [] phase = "open" -> JobsFrom(iocb)[at]
    [] phase = "move" ->
         (IF UnitOk(CurrentUnit) THEN SectorJobs(Current, moved)
                                 ELSE LinkJobs(Current))
           \o JobsAfter(Current)

Asking == step \in {"wait", "answer"}

Todo == IF Asking THEN JobsLeft ELSE <<>>

AnswerSoFar ==
  CASE ~Asking                      -> "none"
    [] Asking /\ phase # "cpu"      -> "working"
    [] Asking /\ phase = "cpu" /\ code = DCU_BUSY  -> "pending"
    [] Asking /\ phase = "cpu" /\ code = DCU_DONE  -> "ok"
    [] Asking /\ phase = "cpu" /\ code = DCU_ERROR -> "failed"

Shapes == [u \in Drives |-> geom[u]]

Requested == {JobsFrom(r.image)[r.first] : r \in Program}

Service == INSTANCE DiskService WITH
  shape   <- Shapes,
  todo    <- Todo,
  answer  <- AnswerSoFar,
  Request <- Requested

ServiceSpec == Service!SSpec

-----------------------------------------------------------------------------
(* The driver's variables, and what each of its steps means for the board: *)
(* while it prepares a request no chain is being followed.                 *)
DriverTypeOK ==
  /\ mode \in {"monitor", "kernel"}
  /\ step \in {"ready", "chan0", "chan1", "chan2", "start", "wait", "answer"}
  /\ first \in IocbAddr \cup {0}
  /\ loaded \in BOOLEAN
  /\ resets \in 0 .. MaxResets
  /\ phase # "cpu" => step = "wait"

(* The kernel is never asleep for good: when its command has finished the  *)
(* edge on line 3 is latched and its handler will run.  The edge exists    *)
(* only if the line was high when the command ended, so it depends on every*)
(* earlier command, of the monitor too, having been acknowledged, and on   *)
(* what a command left pending over a reset does to the line.              *)
NoLostInterrupt ==
  mode = "kernel" /\ step = "wait" /\ code \in {DCU_DONE, DCU_ERROR} =>
    line3.latched

(* A set of IOCBs that holds the next one of each of its own.              *)
Followed(mem, S) == \A b \in S : mem[b].chain \in S \cup {NoLink}

(* the links from a on: whatever holds a and follows every chain has them  *)
ChainFrom(mem, a) ==
  {b \in IocbAddr :
     \A S \in SUBSET IocbAddr : a \in S /\ Followed(mem, S) => b \in S}

ChainOf(a) == ChainFrom(iocb, a)

(* The answer a driver acts on is about its own request: when it reads     *)
(* "done" every IOCB of its chain has been carried out and says so, and    *)
(* when it reads "error" exactly one says drive check, those before it are *)
(* acknowledged and those after it untouched, so the driver can tell which *)
(* sectors are on the disk.                                                *)
AnswerIsOurs ==
  step = "answer" =>
    LET links == ChainOf(first)
        Last(a) == iocb[a].chain = NoLink
        Says(a) == iocb[a].status
        Culprit == {a \in links : Says(a) = IOCB_ES_DRIVE}
    IN  /\ code \in {DCU_DONE, DCU_ERROR}
        /\ code = DCU_DONE =>
             \A a \in links :
               /\ Says(a) = IF Last(a) THEN IOCB_ES_DONE ELSE IOCB_ES_CHAIN
               /\ iocb[a].resid = 0
        /\ code = DCU_ERROR =>
             \E c \in links :
               /\ Culprit = {c}
               /\ \A a \in links \ ChainOf(c) : Says(a) = IOCB_ES_CHAIN
               /\ \A a \in ChainOf(c) \ {c}   : Says(a) = IOCB_ES_NONE

(* Every command a driver gives is answered and the driver is free again,  *)
(* polled or by interrupt, through resets.                                 *)
EveryCommandCompletes == step = "start" ~> step = "ready"

(* machine_reset leaves the line "idle high" (its own comment): until a    *)
(* command is given the controller is idle and the line stays high.        *)
IdleHigh == op = 0 => code = DCU_IDLE /\ line3.level = 1
=============================================================================
