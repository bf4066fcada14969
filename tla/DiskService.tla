---------------------------- MODULE DiskService ----------------------------
(***************************************************************************)
(* What the disk board promises the software of the machine, whatever its  *)
(* registers, timers and IOCBs look like: a request is a list of jobs;     *)
(* they are done one after the other, in order, each exactly once, on the  *)
(* sectors where the shape of the drive places them; the shape is the one  *)
(* on the label when the drive is first selected, and stays, whatever is   *)
(* written over the label, until a reset.  The answer says whether all     *)
(* jobs were done, and comes once.  A reset may forget a request that is   *)
(* still waiting, never one whose jobs have begun.                         *)
(***************************************************************************)
EXTENDS Pack, Sequences

CONSTANTS
  Drives, Capacity, Data, Zeros, HeaderIn, Page, FirstDisk,   \* as in Dcu
  Request      \* the lists of jobs the software may ask for

VARIABLES
  disk,      \* the images
  page,      \* the pages of main memory
  shape,     \* of each drive, Unread until it is selected
  todo,      \* jobs of the current request not done yet
  answer     \* "none", "pending", "working", "ok" or "failed"

svars == <<disk, page, shape, todo, answer>>

(* A job selects a drive, or moves one sector: the i-th after the one at   *)
(* cylinder, head and sector.                                              *)
ShapeOnLabel(u) ==
  IF Capacity[u] > 0 THEN GeometryOf(HeaderIn[disk[u][0]]) ELSE FallbackDrive

ShapesForgotten == [u \in Drives |-> Unread]

Place(job) ==
  Lba(shape[job.unit], job.cylinder, job.head, job.sector) + job.i

Feasible(job) ==
  /\ job.unit \in Drives
  /\ job.kind # "select" => Place(job) < Capacity[job.unit]

SInit ==
  /\ disk \in FirstDisk
  /\ page = [p \in Page |-> Zeros]
  /\ shape = ShapesForgotten
  /\ todo = <<>>
  /\ answer = "none"

Fill ==
  /\ answer = "none"
  /\ \E p \in Page, d \in Data : page' = [page EXCEPT ![p] = d]
  /\ UNCHANGED <<disk, shape, todo, answer>>

Submit ==
  /\ answer = "none"
  /\ todo' \in Request
  /\ answer' = "pending"
  /\ UNCHANGED <<disk, page, shape>>

Begin ==
  /\ answer = "pending"
  /\ answer' = "working"
  /\ UNCHANGED <<disk, page, shape, todo>>

(* Selecting a drive finds out its shape, if nobody has since the reset.   *)
Select(u) ==
  /\ shape' = IF shape[u] = Unread THEN [shape EXCEPT ![u] = ShapeOnLabel(u)]
                                   ELSE shape
  /\ UNCHANGED <<disk, page>>

Move(job) ==
  /\ disk' = CASE job.kind = "write"  ->
                    [disk EXCEPT ![job.unit][Place(job)] = page[job.page]]
               [] job.kind = "format" ->
                    [disk EXCEPT ![job.unit][Place(job)] = Zeros]
               [] OTHER -> disk
  /\ page' = IF job.kind = "read"
             THEN [page EXCEPT ![job.page] = disk[job.unit][Place(job)]]
             ELSE page
  /\ UNCHANGED shape

DoJob ==
  /\ answer = "working"
  /\ todo # <<>>
  /\ LET job == Head(todo) IN
       /\ Feasible(job)
       /\ IF job.kind = "select" THEN Select(job.unit) ELSE Move(job)
  /\ todo' = Tail(todo)
  /\ UNCHANGED answer

AnswerOk ==
  /\ answer = "working"
  /\ todo = <<>>
  /\ answer' = "ok"
  /\ UNCHANGED <<disk, page, shape, todo>>

AnswerFailed ==
  /\ answer = "working"
  /\ todo # <<>> /\ ~Feasible(Head(todo))
  /\ answer' = "failed"
  /\ todo' = <<>>
  /\ UNCHANGED <<disk, page, shape>>

TakeAnswer ==
  /\ answer \in {"ok", "failed"}
  /\ answer' = "none"
  /\ UNCHANGED <<disk, page, shape, todo>>

Forget ==
  /\ answer # "working"
  /\ answer' = "none"
  /\ todo' = <<>>
  /\ shape' = ShapesForgotten
  /\ UNCHANGED <<disk, page>>

SNext ==
  \/ Fill
  \/ Submit
  \/ Begin
  \/ DoJob
  \/ AnswerOk
  \/ AnswerFailed
  \/ TakeAnswer
  \/ Forget

SSpec == SInit /\ [][SNext]_svars
=============================================================================
