------------------------------- MODULE MCDcu -------------------------------
(***************************************************************************)
(* A small instance of Dcu for TLC: one drive (unit 0; unit 1 is missing)  *)
(* with a pack of MCSectors sectors that names a shape of 2 x 2, two IOCB  *)
(* addresses, two pages.                                                   *)
(***************************************************************************)
EXTENDS Dcu, TLC

MCDrives   == {0}
MCCapacity == [u \in MCDrives |-> 3]

MCData     == {"zeros", "label", "text"}
MCHeaderIn ==
  [d \in MCData |-> IF d = "label" THEN [magic |-> TRUE, nsec |-> 2, ntr |-> 2]
                                   ELSE [magic |-> FALSE, nsec |-> 0, ntr |-> 0]]

MCPage == {"p", "q"}

Request(opcode, count, drhdsec, first, second, chain) ==
  [opcode |-> opcode, count |-> count, cylinder |-> 0, drhdsec |-> drhdsec,
   table  |-> (0 :> first @@ 1 :> second), chain |-> chain,
   status |-> IOCB_ES_NONE, resid |-> 0]

(* At 1, a write of two sectors with a link to 2, or a read of two sectors *)
(* the second of which is past the end of the image (both are, in the      *)
(* fallback shape); at 2, a format, or a read on the drive that is not     *)
(* there.                                                                  *)
MCIocbImage ==
  (1 :> {Request(DCU_C_WRITE,  2, DrHdSec(0, 0, 1), "q", "p", 2),
         Request(DCU_C_READ,   2, DrHdSec(0, 1, 0), "q", "p", NoLink)}) @@
  (2 :> {Request(DCU_C_FORMAT, 2, DrHdSec(0, 0, 0), "p", "p", NoLink),
         Request(DCU_C_READ,   1, DrHdSec(1, 0, 0), "p", "p", NoLink)})

MCByte   == (0 :> {1, 2}) @@ (1 :> {0, 32}) @@ (2 :> {0})
MCOpcode == {DCU_C_SELFTEST, DCU_C_START, DCU_C_ASSDRIVE, DCU_C_SPECIFIC,
             DCU_C_SENSE, DCU_C_READ}

MCFirstDisk ==
  {[u \in MCDrives |-> (0 :> first @@ 1 :> "zeros" @@ 2 :> "text")] :
      first \in {"label", "zeros"}}
=============================================================================
