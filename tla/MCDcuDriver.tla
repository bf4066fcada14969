---------------------------- MODULE MCDcuDriver ----------------------------
(***************************************************************************)
(* A small instance of DcuDriver for TLC: two drives, unit 0 labelled with *)
(* a shape of 2 x 2 or not at all, unit 1 blank and too small for the      *)
(* second head of the fallback shape; requests that chain two links,       *)
(* fail on the first, in the middle and on the last of them, name a        *)
(* missing unit, write a new label while the shape of the old one is in    *)
(* use, and move nothing at all.                                           *)
(***************************************************************************)
EXTENDS DcuDriver, TLC

MCDrives   == {0, 1}
MCCapacity == (0 :> 3 @@ 1 :> 1)

MCData == {"zeros", "label", "text"}
MCHeaderIn ==
  [d \in MCData |-> IF d = "label" THEN [magic |-> TRUE, nsec |-> 2, ntr |-> 2]
                                   ELSE [magic |-> FALSE, nsec |-> 0, ntr |-> 0]]

MCPage == {"p", "q"}

Link(opcode, count, drhdsec, page0, page1, chain) ==
  [opcode |-> opcode, count |-> count, cylinder |-> 0, drhdsec |-> drhdsec,
   table  |-> (0 :> page0 @@ 1 :> page1), chain |-> chain,
   status |-> IOCB_ES_NONE, resid |-> 0]

Chain(a, one, b, other) == [first |-> a, image |-> (a :> one @@ b :> other)]

MCProgram ==
  {Chain(1, Link(DCU_C_READ,   2, DrHdSec(0, 0, 0), "p", "q", 2),
         2, Link(DCU_C_WRITE,  2, DrHdSec(0, 0, 1), "q", "p", NoLink)),
   Chain(2, Link(DCU_C_WRITE,  1, DrHdSec(0, 0, 2), "p", "q", 1),
         1, Link(DCU_C_READ,   2, DrHdSec(0, 1, 0), "p", "q", NoLink)),
   Chain(1, Link(DCU_C_FORMAT, 2, DrHdSec(0, 0, 1), "p", "p", 2),
         2, Link(DCU_C_WRITE,  1, DrHdSec(2, 0, 0), "p", "q", NoLink)),
   Chain(1, Link(DCU_C_READ,   2, DrHdSec(1, 0, 0), "p", "p", 2),
         2, Link(DCU_C_WRITE,  1, DrHdSec(0, 0, 1), "p", "q", NoLink)),
   Chain(1, Link(DCU_C_WRITE,  1, DrHdSec(0, 0, 0), "p", "q", 2),
         2, Link(DCU_C_READ,   1, DrHdSec(0, 1, 0), "q", "p", NoLink)),
   Chain(2, Link(DCU_C_READ,   0, DrHdSec(0, 0, 0), "p", "p", NoLink),
         1, Link(DCU_C_READ,   1, DrHdSec(0, 0, 1), "p", "p", NoLink))}

MCFirstDisk ==
  {(0 :> (0 :> boot @@ 1 :> "zeros" @@ 2 :> "text") @@ 1 :> (0 :> "zeros")) :
      boot \in {"label", "zeros"}}

NoBytes   == [n \in 0 .. 2 |-> {}]
NoOpcodes == {}
NoImages  == [a \in {1, 2} |-> {}]
=============================================================================
