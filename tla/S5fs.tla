-------------------------------- MODULE S5fs --------------------------------
(***************************************************************************)
(* A System V file system as tools/s5fs.py reads it: a file is found from  *)
(* the block numbers in its inode, directly, through one block of block    *)
(* numbers, or through two levels of them; s5extract.py makes files of     *)
(* all it finds on its way down from the root.                             *)
(*                                                                         *)
(* A block is BSIZE words.  A word is a record of a number and a name:     *)
(* a block number has no name, a directory entry has both, four bytes of a *)
(* file are whatever they are; Zero is the word of an untouched block.     *)
(***************************************************************************)
EXTENDS Naturals, SequencesExt

CONSTANTS
  BSIZE,      \* words in a block: 256 block numbers in 1024 bytes
  NDIRECT,    \* block numbers in the inode itself: 10
  BYTE,       \* values of a byte: 256
  WalkDepth   \* the directories walk() goes down: 12

ROOTINO == 2

Word   == [num : Nat, name : STRING]
NoName == ""
Zero   == [num |-> 0, name |-> NoName]

NINDIR == BSIZE
NADDR  == NDIRECT + 3      \* and the single, double, triple indirect one

ZeroBlock == [i \in 1 .. BSIZE |-> Zero]

blk(img, n) == IF n = 0 THEN ZeroBlock ELSE img[n]

ind(img, n) == [i \in 1 .. NINDIR |-> blk(img, n)[i].num]

(* The blocks numbered in a list, one after the other.                     *)
Joined(img, numbers) ==
  FlattenSeq([i \in 1 .. Len(numbers) |-> blk(img, numbers[i])])

(* The double indirect block ends at the first zero.                       *)
UpToZero(numbers) ==
  LET used == {k \in 0 .. Len(numbers) : \A i \in 1 .. k : numbers[i] # 0}
  IN  SubSeq(numbers, 1, Max(used))

data(img, ino) ==
  LET single == ino.addr[NDIRECT + 1]
      double == ino.addr[NDIRECT + 2]
      outer  == UpToZero(ind(img, double))
      all    == Joined(img, SubSeq(ino.addr, 1, NDIRECT))
                  \o (IF single = 0 THEN <<>> ELSE Joined(img, ind(img, single)))
                  \o (IF double = 0 THEN <<>> ELSE
                       FlattenSeq([i \in 1 .. Len(outer) |->
                                     Joined(img, ind(img, outer[i]))]))
  IN  SubSeq(all, 1, ino.size)

(* The slots of a directory that are in use: an entry of inode 0 is empty. *)
InUse(slots) ==
  LET kept[k \in 0 .. Len(slots)] ==
        CASE k = 0 -> <<>>
          [] k > 0 /\ slots[k].num = 0 -> kept[k - 1]
          [] OTHER -> Append(kept[k - 1], slots[k])
  IN  kept[Len(slots)]

readdir(img, ino) == InUse(data(img, ino))

(* An inode of the i-list: a block number is three of its bytes, lowest    *)
(* first.                                                                  *)
inode(ilist, n) ==
  LET e == ilist[n] IN
  [kind |-> e.kind, exec |-> e.exec, nlink |-> e.nlink, size |-> e.size,
   addr |-> [k \in 1 .. NADDR |->
               e.bytes[3*k - 2] + e.bytes[3*k - 1] * BYTE + e.bytes[3*k] * BYTE * BYTE]]

Under(name, found) ==
  [k \in 1 .. Len(found) |-> [found[k] EXCEPT !.path = <<name>> \o @]]

(* An entry of a directory and what lies below it; below[n] is what lies   *)
(* below directory n.                                                      *)
FoundAt(ilist, e, below) ==
  IF e.name \in {".", ".."} THEN <<>>
  ELSE <<[path |-> <<e.name>>, num |-> e.num]>> \o
         (IF inode(ilist, e.num).kind = "dir" THEN Under(e.name, below[e.num]) ELSE <<>>)

(* What lies below the root, each directory before what is in it; of[m] is *)
(* what lies below a directory, m levels deep.                             *)
walk(img, ilist) ==
  LET of[m \in 0 .. WalkDepth + 1] ==
        [n \in Nat |->
           LET ents == readdir(img, inode(ilist, n))
           IN  IF m = 0 THEN <<>>
               ELSE FlattenSeq([k \in 1 .. Len(ents) |-> FoundAt(ilist, ents[k], of[m - 1])])]
  IN  of[WalkDepth + 1][ROOTINO]

-----------------------------------------------------------------------------
(* s5extract.py: a host directory, as directories, files and what was said *)
(* of special files; or a system call failed, and that was the end.        *)
Empty == [dirs |-> {<<>>}, files |-> <<>>, specials |-> <<>>, failed |-> FALSE]

(* f[x] = v: a file of that name, new or again.                            *)
Set(f, x, v) == [y \in DOMAIN f \cup {x} |-> IF y = x THEN v ELSE f[y]]

(* os.makedirs(..., exist_ok=True)                                         *)
makedirs(host, path) ==
  LET all == {SubSeq(path, 1, k) : k \in 0 .. Len(path)}
  IN  IF all \cap DOMAIN host.files = {} THEN [host EXCEPT !.dirs = @ \cup all]
      ELSE [host EXCEPT !.failed = TRUE]

(* open(..., 'wb') keeps the mode of a file that is there.                 *)
WithFile(host, path, text, exec) ==
  IF path \in host.dirs THEN [host EXCEPT !.failed = TRUE]
  ELSE LET was == path \in DOMAIN host.files /\ host.files[path].exec
       IN  [host EXCEPT !.files = Set(@, path, [text |-> text, exec |-> exec \/ was])]

(* What one thing found becomes.                                           *)
Extracting(img, ilist, host, found) ==
  LET i == inode(ilist, found.num)
      h == makedirs(host, Front(found.path))
  IN  CASE host.failed -> host
        [] ~host.failed /\ i.kind = "dir"  -> makedirs(host, found.path)
        [] ~host.failed /\ i.kind = "file" ->
             IF h.failed THEN h ELSE WithFile(h, found.path, data(img, i), i.exec)
        [] OTHER -> [host EXCEPT !.specials =
                       Set(@, found.path, <<i.addr[1] \div BYTE, i.addr[1] % BYTE>>)]

Extract(img, ilist) ==
  LET found == walk(img, ilist)
      host[k \in 0 .. Len(found)] ==
        IF k = 0 THEN Empty ELSE Extracting(img, ilist, host[k - 1], found[k])
  IN  host[Len(found)]
=============================================================================
