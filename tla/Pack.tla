-------------------------------- MODULE Pack --------------------------------
(***************************************************************************)
(* The shape of a disk pack: the disktab tools/mkdisk.py writes into       *)
(* sector 0, the partitions it lays out, how the controller of sys16.cpp   *)
(* reads the shape back, and the arithmetic that turns a cylinder, head    *)
(* and sector into a sector number of the image.  Constant operators only. *)
(***************************************************************************)
EXTENDS Integers

(* u8 and u16 *)
U8_MAX  == 255
U16_MAX == 65535
U8  == 0 .. U8_MAX
U16 == 0 .. U16_MAX

(***************************************************************************)
(* The controller's side: dcu_geometry and the address arithmetic of       *)
(* dcu_transfer.                                                           *)
(***************************************************************************)
DCU_SECTORS == 24     \* the BASF 6172, for a pack without a valid header
DCU_HEADS   == 3

Geometry == [sectors : 1 .. U8_MAX, heads : 1 .. 31]

Unread         == [sectors |-> 0, heads |-> 0]     \* as machine_reset leaves it
FallbackDrive  == [sectors |-> DCU_SECTORS, heads |-> DCU_HEADS]

(* What the controller looks at in a 512-byte sector: whether it starts    *)
(* with DCU_DMAGIC, and the two 16-bit fields at offsets 8 and 10.         *)
Header == [magic : BOOLEAN, nsec : U16, ntr : U16]

GeometryOf(header) ==
  IF /\ header.magic
     /\ header.nsec # 0 /\ header.nsec < 256
     /\ header.ntr  # 0 /\ header.ntr  < 32
  THEN [sectors |-> header.nsec, heads |-> header.ntr]
  ELSE FallbackDrive

UnitOf(drhdsec)   == drhdsec \div 8192
HeadOf(drhdsec)   == (drhdsec \div 256) % 32
SectorOf(drhdsec) == drhdsec % 256

DrHdSec(unit, head, sector) == unit * 8192 + head * 256 + sector

Lba(g, cylinder, head, sector) ==
  (cylinder * g.heads + head) * g.sectors + sector

(***************************************************************************)
(* mkdisk.py: National's drive types and the layout of a pack.             *)
(***************************************************************************)
Shape == [nsec : Nat \ {0}, ntr : Nat \ {0}, ncyl : Nat \ {0}]

DRIVES ==
  [basf20  |-> [nsec |-> 24, ntr |-> 3, ncyl |-> 614],
   m20     |-> [nsec |-> 30, ntr |-> 4, ncyl |-> 280],    \* '3m20'
   m60     |-> [nsec |-> 32, ntr |-> 4, ncyl |-> 838],    \* '3m60'
   imi20   |-> [nsec |-> 18, ntr |-> 5, ncyl |-> 388],
   imi60   |-> [nsec |-> 18, ntr |-> 7, ncyl |-> 776],
   priam70 |-> [nsec |-> 22, ntr |-> 5, ncyl |-> 1049]]

SWAP_SECTORS == 5040     \* what conf.c of the kernel swaps on

SpCyl(d)  == d.nsec * d.ntr
SpUnit(d) == SpCyl(d) * d.ncyl

SwapCyls(d) ==
  LET needed == (SWAP_SECTORS + SpCyl(d) - 1) \div SpCyl(d) + 1
  IN  IF needed > 46 THEN needed ELSE 46

RootCyls(d) == d.ncyl - SwapCyls(d)

(* disktab's dt_part: length in sectors and first cylinder.  Partitions 0  *)
(* and 2 are the root, 1 and 3 the swap, 4 the whole unit.                 *)
Partition(d, p) ==
  CASE p \in {0, 2} -> [nbl |-> RootCyls(d) * SpCyl(d), cyloff |-> 0]
    [] p \in {1, 3} -> [nbl |-> SwapCyls(d) * SpCyl(d), cyloff |-> RootCyls(d)]
    [] p = 4        -> [nbl |-> SpUnit(d), cyloff |-> 0]
    [] OTHER        -> [nbl |-> 0, cyloff |-> 0]

(* root_blocks: the 1024-byte blocks mkfs.py is told to make.              *)
RootBlocks(d) == Partition(d, 0).nbl \div 2

Disktab(d) == [magic |-> TRUE, nsec |-> d.nsec, ntr |-> d.ntr]
=============================================================================
