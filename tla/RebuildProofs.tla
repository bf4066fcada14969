--------------------------- MODULE RebuildProofs ---------------------------
(***************************************************************************)
(* Facts about the shape of a pack, for every shape and not only the six   *)
(* of mkdisk.py: the controller's arithmetic gives each sector of a drive  *)
(* a place of its own inside the drive, and the partitions of the disktab  *)
(* divide the drive between them, with room for the swap area.  From them: *)
(* rebuild-disk.sh makes a pack that is in order, whatever the drive.      *)
(***************************************************************************)
EXTENDS Rebuild, TLAPS

LEMMA Monotone ==
  ASSUME NEW a \in Nat, NEW b \in Nat, NEW k \in Nat, a <= b
  PROVE  a * k <= b * k
<1> DEFINE c == b - a
<1>1. c \in Nat /\ b = a + c
  OBVIOUS
<1>2. b * k = a * k + c * k
  BY <1>1
<1>3. c * k \in Nat /\ a * k \in Nat
  BY <1>1
<1> HIDE DEF c
<1> QED BY <1>2, <1>3

(* A number below k * n is a digit below n and the rest below k.           *)
LEMMA Bounded ==
  ASSUME NEW n \in Nat, NEW k \in Nat, NEW q \in Nat, NEW r \in Nat,
         q < k, r < n
  PROVE  q * n + r < k * n
<1>1. (q + 1) * n <= k * n
  BY Monotone
<1>2. (q + 1) * n = q * n + n
  OBVIOUS
<1> QED BY <1>1, <1>2

LEMMA Digits ==
  ASSUME NEW n \in Nat, NEW q \in Nat, NEW r \in Nat, NEW p \in Nat, NEW s \in Nat,
         r < n, s < n, q * n + r = p * n + s
  PROVE  q = p /\ r = s
<1>1. ~(q < p)
  <2> SUFFICES ASSUME q < p PROVE FALSE
    OBVIOUS
  <2>1. q * n + r < p * n
    BY Bounded
  <2> QED BY <2>1
<1>2. ~(p < q)
  <2> SUFFICES ASSUME p < q PROVE FALSE
    OBVIOUS
  <2>1. p * n + s < q * n
    BY Bounded
  <2> QED BY <2>1
<1>3. q = p
  BY <1>1, <1>2
<1> QED BY <1>3

(* No sector of a drive is placed past its end (dcu_transfer:591): with    *)
(* cylinder, head and sector within the shape, the sector number is below  *)
(* sectors * heads * cylinders.                                            *)
THEOREM PlaceInDrive ==
  ASSUME NEW g \in [sectors : Nat, heads : Nat], NEW ncyl \in Nat,
         NEW c \in Nat, NEW h \in Nat, NEW s \in Nat,
         c < ncyl, h < g.heads, s < g.sectors
  PROVE  Lba(g, c, h, s) < (ncyl * g.heads) * g.sectors
<1>1. c * g.heads + h < ncyl * g.heads
  BY Bounded
<1>2. c * g.heads \in Nat /\ ncyl * g.heads \in Nat
  OBVIOUS
<1> QED BY <1>1, <1>2, Bounded DEF Lba

(* Two sectors are never placed on one another: the sector number tells    *)
(* cylinder, head and sector.                                              *)
THEOREM PlaceIsOwn ==
  ASSUME NEW g \in [sectors : Nat, heads : Nat],
         NEW c \in Nat, NEW h \in Nat, NEW s \in Nat,
         NEW d \in Nat, NEW i \in Nat, NEW t \in Nat,
         h < g.heads, i < g.heads, s < g.sectors, t < g.sectors,
         Lba(g, c, h, s) = Lba(g, d, i, t)
  PROVE  c = d /\ h = i /\ s = t
<1> DEFINE track == c * g.heads + h
           other == d * g.heads + i
<1>1. track \in Nat /\ other \in Nat /\ g.sectors \in Nat /\ g.heads \in Nat
  OBVIOUS
<1>2. track * g.sectors + s = other * g.sectors + t
  BY DEF Lba
<1> HIDE DEF track, other
<1>3. track = other /\ s = t
  BY <1>1, <1>2, Digits
<1>4. c * g.heads + h = d * g.heads + i
  BY <1>3 DEF track, other
<1> QED BY <1>1, <1>3, <1>4, Digits

(* What the controller computes on 32-bit words never wraps, whatever the  *)
(* IOCB and the header say: fields of 16, 5 and 8 bits, a shape the header *)
(* check let through, and the at most 255 sectors of one IOCB.             *)
THEOREM PlaceFitsAWord ==
  ASSUME NEW g \in [sectors : Nat, heads : Nat],
         NEW c \in Nat, NEW h \in Nat, NEW s \in Nat, NEW i \in Nat,
         g.sectors < 256, g.heads < 32, c < 65536, h < 32, s < 256, i < 256
  PROVE  Lba(g, c, h, s) + i < 4294967296
<1>1. c * g.heads <= c * 32
  <2>1. g.heads * c <= 32 * c
    BY Monotone
  <2> QED BY <2>1
<1>2. c * g.heads \in Nat /\ c * g.heads + h < 2097184
  BY <1>1
<1>3. (c * g.heads + h) * g.sectors <= 2097184 * g.sectors
  BY <1>2, Monotone
<1>4. (c * g.heads + h) * g.sectors \in Nat
  BY <1>2
<1> QED BY <1>3, <1>4 DEF Lba

(* The swap partition holds what conf.c swaps on, on every drive           *)
(* (mkdisk.py:53).                                                         *)
THEOREM SwapIsEnough ==
  ASSUME NEW d \in Shape
  PROVE  Partition(d, 1).nbl >= SWAP_SECTORS
<1> DEFINE n == SpCyl(d)
           q == (SWAP_SECTORS + n - 1) \div n
<1>1. n \in Nat /\ n > 0
  <2>1. d.nsec \in Nat /\ d.nsec > 0 /\ d.ntr \in Nat /\ d.ntr > 0
    BY DEF Shape
  <2>2. 1 * d.ntr <= d.nsec * d.ntr
    BY <2>1, Monotone
  <2> QED BY <2>1, <2>2 DEF SpCyl
<1>2. q \in Nat /\ (q + 1) * n > SWAP_SECTORS + n - 1
  BY <1>1 DEF SWAP_SECTORS
<1>3. SwapCyls(d) \in Nat /\ SwapCyls(d) >= q + 1
  BY <1>2 DEF SwapCyls
<1>4. (q + 1) * n <= SwapCyls(d) * n
  BY <1>1, <1>2, <1>3, Monotone
<1>5. Partition(d, 1).nbl = SwapCyls(d) * n
  BY DEF Partition
<1> HIDE DEF q
<1>6. (q + 1) * n \in Nat /\ SwapCyls(d) * n \in Nat
  BY <1>1, <1>2, <1>3
<1> QED BY <1>1, <1>2, <1>4, <1>5, <1>6 DEF SWAP_SECTORS

(* Root and swap share no sector, and end where the drive ends: the first  *)
(* sector of the swap partition is the one after the last of the root, and *)
(* both together are the whole unit (mkdisk.py:56-63).                     *)
THEOREM PartitionsDivideTheUnit ==
  ASSUME NEW d \in Shape, SwapCyls(d) \in Nat
  PROVE  /\ Partition(d, 1).cyloff * SpCyl(d) = Partition(d, 0).nbl
         /\ Partition(d, 0).nbl + Partition(d, 1).nbl = Partition(d, 4).nbl
<1>1. SpCyl(d) \in Int /\ d.ncyl \in Int
  BY DEF Shape, SpCyl
<1>2. RootCyls(d) \in Int
  BY <1>1 DEF RootCyls
<1>3. /\ Partition(d, 0) = [nbl |-> RootCyls(d) * SpCyl(d), cyloff |-> 0]
      /\ Partition(d, 1) = [nbl |-> SwapCyls(d) * SpCyl(d), cyloff |-> RootCyls(d)]
      /\ Partition(d, 4) = [nbl |-> SpUnit(d), cyloff |-> 0]
  BY DEF Partition
<1>4. (d.ncyl - SwapCyls(d)) * SpCyl(d) + SwapCyls(d) * SpCyl(d) = SpCyl(d) * d.ncyl
  BY <1>1
<1> QED BY <1>3, <1>4 DEF RootCyls, SpUnit

(* On each of National's drives a root partition is left, and the          *)
(* controller takes from the header the shape that mkdisk.py put there.    *)
THEOREM DrivesAreUsable ==
  \A name \in DOMAIN DRIVES :
    LET d == DRIVES[name] IN
    /\ RootCyls(d) > 0
    /\ GeometryOf(Disktab(d)) = [sectors |-> d.nsec, heads |-> d.ntr]
<1> USE DEF RootCyls, SwapCyls, SpCyl, SWAP_SECTORS, GeometryOf, Disktab
<1>1. DOMAIN DRIVES = {"basf20", "m20", "m60", "imi20", "imi60", "priam70"}
  BY DEF DRIVES
<1> QED BY <1>1 DEF DRIVES

-----------------------------------------------------------------------------
(* What has been written so far.                                           *)
RInv ==
  /\ default \in Drives
  /\ stage # "mkdisk" =>
       disk = [size |-> SpUnit(type), header |-> Disktab(type), fs |-> 0]
  /\ stage \in {"overlay", "done"} =>
       root_fs = [size   |-> 2 * RootBlocks(default),
                  header |-> Disktab(default),
                  fs     |-> 2 * RootBlocks(default)]
  /\ stage = "done" =>
       pack = [size   |-> IF disk.size > root_fs.size THEN disk.size ELSE root_fs.size,
               header |-> root_fs.header, fs |-> root_fs.fs]

LEMMA WrittenInOrder == Init /\ [][Next]_rvars => []RInv
<1>1. Init => RInv
  BY RebuildAssumption DEF Init, RInv
<1>2. RInv /\ [Next]_rvars => RInv'
  BY DEF RInv, Next, MakeDisk, MakeFs, Overlay, rvars, Blocks
<1> QED BY <1>1, <1>2, PTL

LEMMA OrderedPackIsUsable ==
  ASSUME RInv, stage = "done", type = default
  PROVE  Usable(default)
<1> DEFINE root == Partition(default, 0).nbl
           unit == SpUnit(default)
<1>1. default \in Shape /\ default.nsec < 256 /\ default.ntr < 32
  BY RebuildAssumption DEF RInv
<1>2. /\ default.nsec \in Nat \ {0} /\ default.ntr \in Nat \ {0} /\ default.ncyl \in Nat \ {0}
  BY <1>1 DEF Shape
<1>3. SpCyl(default) \in Nat /\ SpCyl(default) > 0
  <2>1. 1 * default.ntr <= default.nsec * default.ntr
    BY <1>2, Monotone
  <2> QED BY <1>2, <2>1 DEF SpCyl
<1>4. SwapCyls(default) \in Nat
  <2>1. (SWAP_SECTORS + SpCyl(default) - 1) \div SpCyl(default) \in Nat
    BY <1>3 DEF SWAP_SECTORS
  <2> QED BY <2>1 DEF SwapCyls
<1>5. RootCyls(default) \in Nat
  BY <1>2, <1>4, RebuildAssumption DEF RInv, RootCyls
<1>6. root \in Nat
  <2>1. root = RootCyls(default) * SpCyl(default)
    BY DEF Partition
  <2> QED BY <2>1, <1>3, <1>5
<1>7. /\ Partition(default, 1).cyloff * SpCyl(default) = root
      /\ root + Partition(default, 1).nbl = unit
  <2>1. Partition(default, 4).nbl = SpUnit(default)
    BY DEF Partition
  <2> QED BY <2>1, <1>1, <1>4, PartitionsDivideTheUnit
<1>8. Partition(default, 1).nbl >= SWAP_SECTORS
  BY <1>1, SwapIsEnough
<1>9. Partition(default, 1).nbl \in Nat
  <2>1. Partition(default, 1).nbl = SwapCyls(default) * SpCyl(default)
    BY DEF Partition
  <2> QED BY <2>1, <1>3, <1>4
<1>10. 2 * RootBlocks(default) <= root /\ RootBlocks(default) \in Nat
  BY <1>6 DEF RootBlocks
<1>11. /\ pack.size = unit /\ pack.header = Disktab(default)
       /\ pack.fs = 2 * RootBlocks(default)
  <2>1. disk.size = unit /\ root_fs.size = 2 * RootBlocks(default)
    BY DEF RInv
  <2>2. unit >= root_fs.size /\ unit \in Nat /\ root_fs.size \in Nat
    BY <1>6, <1>7, <1>9, <1>10, <2>1
  <2> QED BY <2>1, <2>2 DEF RInv
<1>12. GeometryOf(pack.header) = [sectors |-> default.nsec, heads |-> default.ntr]
  BY <1>1, <1>2, <1>11 DEF GeometryOf, Disktab
<1>13. root + SWAP_SECTORS <= unit
  BY <1>6, <1>7, <1>8, <1>9 DEF SWAP_SECTORS
<1> QED BY <1>7, <1>10, <1>11, <1>12, <1>13 DEF Usable

(* For every shape of a drive that the controller can hold and that leaves *)
(* a root, the pack rebuild-disk.sh makes reads as that drive, is whole,   *)
(* and has its file system clear of the swap area (mkdisk.py:53-56,        *)
(* mkfs.py:295-307).                                                       *)
THEOREM RebuiltPackIsUsable == Spec => []PackUsable
<1>1. RInv => PackUsable
  BY OrderedPackIsUsable DEF PackUsable
<1> QED BY <1>1, WrittenInOrder, PTL DEF Spec
=============================================================================
