------------------------------ MODULE Rebuild ------------------------------
(***************************************************************************)
(* How a system pack is put together: mkdisk.py makes the pack, mkfs.py a  *)
(* root file system of as many blocks as mkdisk.root_blocks() says, with   *)
(* --disktab in its first sector, and the file system is written over the  *)
(* start of the pack.  rebuild-disk.sh does it with the default type; by   *)
(* hand (pack/README.txt:75-81) mkdisk.py is given a type.                 *)
(*                                                                         *)
(* Of the tree that goes in only the blocks it takes matter here; Mkfs     *)
(* models what is done with them.                                          *)
(*                                                                         *)
(* A definition marked "a slip" is no part of the specification: it is a   *)
(* mistake the properties are tried against.                               *)
(***************************************************************************)
EXTENDS Pack

CONSTANTS
  Drives,    \* the shapes of DRIVES
  Trees      \* blocks that trees take

(* max(512, (nblocks // 8 + 15) // 16 * 16), in blocks of 16               *)
InodeBlocks(nblocks) ==
  LET asked == (nblocks \div 8 + 15) \div 16 IN IF asked > 32 THEN asked ELSE 32

(* The shapes the controller and the disktab can hold, with a root; and    *)
(* the numbers of all inodes fit in a directory entry.                     *)
ASSUME RebuildAssumption ==
  /\ Drives \subseteq Shape
  /\ Trees \subseteq Nat
  /\ \A d \in Drives : d.nsec < 256 /\ d.ntr < 32 /\ RootCyls(d) > 0
  /\ \A d \in Drives : 16 * InodeBlocks(RootBlocks(d)) <= U16_MAX

VARIABLES
  stage,     \* "mkdisk", "mkfs", "overlay", "done", "failed"
  default,   \* DEFAULT of mkdisk.py
  type,      \* the type mkdisk.py is given
  tree,
  disk,      \* what mkdisk.py wrote
  root_fs,   \* what mkfs.py wrote
  pack       \* dc1.master.img, dc1.img when it is done by hand

rvars == <<stage, default, type, tree, disk, root_fs, pack>>

(* An image: its sectors, the header in sector 0 and the sectors of the    *)
(* file system in front.                                                   *)
NoHeader == [magic |-> FALSE, nsec |-> 0, ntr |-> 0]
NoImage  == [size |-> 0, header |-> NoHeader, fs |-> 0]

Init ==
  /\ stage = "mkdisk"
  /\ default \in Drives /\ type \in Drives
  /\ tree \in Trees
  /\ disk = NoImage /\ root_fs = NoImage /\ pack = NoImage

(* mkdisk.main: the whole unit, with the disktab in sector 0               *)
MakeDisk ==
  /\ stage = "mkdisk"
  /\ disk' = [size |-> SpUnit(type), header |-> Disktab(type), fs |-> 0]
  /\ stage' = "mkfs"
  /\ UNCHANGED <<default, type, tree, root_fs, pack>>

(* A slip: the blocks of the unit and not those of its first partition.    *)
BlocksOfUnit(d) == SpUnit(d) \div 2

Blocks(d) == RootBlocks(d)

(* mkfs.main: the superblock is behind the 92 bytes of the header.         *)
MakeFs ==
  /\ stage = "mkfs"
  /\ IF 2 + InodeBlocks(Blocks(default)) + tree <= Blocks(default)
     THEN /\ root_fs' = [size   |-> 2 * Blocks(default),
                         header |-> Disktab(default),
                         fs     |-> 2 * Blocks(default)]
          /\ stage' = "overlay"
     ELSE stage' = "failed" /\ UNCHANGED root_fs          \* "image full"
  /\ UNCHANGED <<default, type, tree, disk, pack>>

(* img[0:len(fs)] = fs, which makes a shorter image longer                 *)
Overlay ==
  /\ stage = "overlay"
  /\ pack' = [root_fs EXCEPT !.size = IF disk.size > @ THEN disk.size ELSE @]
  /\ stage' = "done"
  /\ UNCHANGED <<default, type, tree, disk, root_fs>>

Next == MakeDisk \/ MakeFs \/ Overlay

Spec == Init /\ [][Next]_rvars

-----------------------------------------------------------------------------
(* A pack for the drive d: the controller finds d's shape in sector 0, all *)
(* of d's sectors are there, and the file system ends before the sectors   *)
(* the kernel swaps on.                                                    *)
Usable(d) ==
  /\ GeometryOf(pack.header) = [sectors |-> d.nsec, heads |-> d.ntr]
  /\ pack.size = SpUnit(d)
  /\ LET swap == Partition(d, 1).cyloff * SpCyl(d) IN
     pack.fs <= swap /\ swap + SWAP_SECTORS <= pack.size

(* Whatever DEFAULT is, rebuild-disk.sh makes a pack that is in order      *)
(* (rebuild-disk.sh:17-29).                                                *)
PackUsable == stage = "done" /\ type = default => Usable(default)
=============================================================================
