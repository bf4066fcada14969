-------------------------------- MODULE Mkfs --------------------------------
(***************************************************************************)
(* tools/mkfs.py: a file system is built from a host directory and a spec  *)
(* file.  Inodes and blocks are handed out in order and never returned;    *)
(* the directories are kept as lists until everything is in place, then    *)
(* stored like files; last come the i-list, the free list and the          *)
(* superblock.  Whatever goes wrong ends the program before the image is   *)
(* written (stage "exit").                                                 *)
(*                                                                         *)
(* Each file of the host and each line of the spec is one step; what they  *)
(* are is left open, in any order, and the spec may repeat names.  On the  *)
(* host two things in one directory never have one name.                   *)
(*                                                                         *)
(* Not modelled: owners and times, the permissions but for `executable',   *)
(* --disktab (Rebuild).                                                    *)
(*                                                                         *)
(* A definition marked "a slip" is no part of the specification: it is a   *)
(* mistake the properties are tried against.                               *)
(***************************************************************************)
EXTENDS S5fs

CONSTANTS
  NBlocks,     \* blocks of the image
  NInodes,     \* inodes asked for
  INOPB,       \* inodes in a block: 16
  NICFREE,     \* block numbers in one piece of the free list: 50
  NICINOD,     \* free inodes the superblock names: 100
  Names,       \* names of files and directories
  TooLong,     \* those of more than DIRSIZ characters
  Files,       \* what files may be: [text: a sequence of words, exec]
  Devices,     \* what a spec line may say of a special file: <<major, minor>>
  Depth,       \* bound: the length of a path
  MaxEntries   \* bound: directory entries, without "." and ".."

iblocks    == (NInodes + INOPB - 1) \div INOPB
first_data == 2 + iblocks
ninodes    == iblocks * INOPB

ASSUME MkfsAssumption ==
  /\ {NBlocks, NInodes, INOPB, NICFREE, NICINOD, BSIZE, NDIRECT, BYTE} \subseteq Nat \ {0}
  /\ NICFREE < BSIZE                \* a piece and its length fit in a block
  /\ first_data < NBlocks
  /\ ROOTINO < ninodes
  /\ {".", ".."} \cap Names = {} /\ Names \subseteq STRING
  /\ Files \subseteq [text : Seq(Word), exec : BOOLEAN]
  /\ NBlocks <= BYTE * BYTE * BYTE  \* 16 GB
  /\ Devices \subseteq (0 .. BYTE - 1) \X (0 .. BYTE - 1)
  /\ {Depth, WalkDepth} \subseteq Nat

Paths == UNION {[1 .. n -> Names] : n \in 0 .. Depth}    \* the root is <<>>

VARIABLES
  stage,       \* "walk", "spec", "dirs", "ilist", "free", "super", "done", "exit"
  tree,        \* what build() keeps: inodes, dirs, entries, next_ino
  next_block,
  image,       \* fs.data, the blocks from first_data on
  ilist,       \* fs.data, the blocks before
  freelist,    \* self.nfree, self.free, self.tfree
  super,       \* the superblock
  written      \* history: the words stored for each inode

mvars == <<stage, tree, next_block, image, ilist, freelist, super, written>>

Inode(kind, nlink) ==
  [kind |-> kind, exec |-> FALSE, nlink |-> nlink, size |-> 0,
   addr |-> [i \in 1 .. NADDR |-> 0]]

(* A slip: the first two bytes of a block number. *)
BytesOfTwo(addr) ==
  [k \in 1 .. 3 * NADDR |->
     LET a == addr[(k + 2) \div 3]
     IN  CASE k % 3 = 1 -> a % BYTE [] k % 3 = 2 -> (a \div BYTE) % BYTE [] OTHER -> 0]

(* The bytes of the block numbers, lowest first.                           *)
BytesOf(addr) ==
  [k \in 1 .. 3 * NADDR |->
     LET a == addr[(k + 2) \div 3]
     IN  CASE k % 3 = 1 -> a % BYTE
           [] k % 3 = 2 -> (a \div BYTE) % BYTE
           [] OTHER     -> (a \div (BYTE * BYTE)) % BYTE]

pack_inode(ino) ==
  [kind |-> ino.kind, exec |-> ino.exec, nlink |-> ino.nlink, size |-> ino.size,
   bytes |-> BytesOf(ino.addr)]

Blank == pack_inode(Inode("none", 0))          \* 64 zero bytes of the i-list

Entry(n, name) == [num |-> n, name |-> name]

NoFree == [nfree |-> 0, free |-> [i \in 1 .. NICFREE |-> 0], tfree |-> 0]

NoSuper == [isize |-> 0, fsize |-> 0, nfree |-> 0, free |-> NoFree.free,
            inode |-> <<>>, tfree |-> 0, tinode |-> 0]

Init ==
  /\ stage = "walk"
  /\ tree = [inodes   |-> [n \in {ROOTINO} |-> Inode("dir", 2)],
             dirs     |-> [path \in {<<>>} |-> ROOTINO],
             entries  |-> [path \in {<<>>} |-> <<Entry(ROOTINO, "."), Entry(ROOTINO, "..")>>],
             next_ino |-> ROOTINO + 1]
  /\ next_block = first_data
  /\ image = [b \in first_data .. NBlocks - 1 |-> ZeroBlock]
  /\ ilist = [n \in 1 .. ninodes |-> Blank]
  /\ freelist = NoFree
  /\ super = NoSuper
  /\ written = <<>>

-----------------------------------------------------------------------------
(***************************************************************************)
(* Inodes and directories: operators on the record `tree'.                 *)
(***************************************************************************)
(* alloc_inode says "out of inodes" for the last of them already: in the   *)
(* tree t that comes of the step, all in use are below it.                 *)
InodesLeft(t) == t.next_ino <= ninodes

WithInode(t, ino) ==
  [t EXCEPT !.next_ino = @ + 1, !.inodes = Set(@, t.next_ino, ino)]

WithEntry(t, dir, n, name) ==
  [t EXCEPT !.entries[dir] = Append(@, Entry(n, name))]

WithLink(t, n) == [t EXCEPT !.inodes[n].nlink = @ + 1]

(* A slip: the ".." of a new directory is not counted. *)
MakeDirUncounted(t, path) ==
  LET n  == t.next_ino
      up == Front(path)
      d  == WithEntry(WithInode(t, Inode("dir", 2)), up, n, Last(path))
  IN  [d EXCEPT !.dirs    = Set(@, path, n),
                !.entries = Set(@, path, <<Entry(n, "."), Entry(t.dirs[up], "..")>>)]

MakeDir(t, path) ==
  LET n  == t.next_ino
      up == Front(path)
      d  == WithEntry(WithInode(t, Inode("dir", 2)), up, n, Last(path))
      c  == [d EXCEPT !.dirs    = Set(@, path, n),
                      !.entries = Set(@, path, <<Entry(n, "."), Entry(t.dirs[up], "..")>>)]
  IN  WithLink(c, t.dirs[up])

(* getdir: the directory, and whatever is missing above it.                *)
WithDir(t, path) == IF path \in DOMAIN t.dirs THEN t ELSE MakeDir(t, path)

getdir(t, path) ==
  LET made[k \in 0 .. Len(path)] ==
        IF k = 0 THEN t ELSE WithDir(made[k - 1], SubSeq(path, 1, k))
  IN  made[Len(path)]

NamesIn(t, dir) == {t.entries[dir][i].name : i \in DOMAIN t.entries[dir]}

EntryCount(t) ==
  FoldLeft(LAMBDA n, dir : n + Len(t.entries[dir]) - 2, 0, SetToSeq(DOMAIN t.entries))

-----------------------------------------------------------------------------
(***************************************************************************)
(* store_data: the blocks of a file are taken in a row, first those of the *)
(* data, then the single indirect one, then those of the second level,     *)
(* then the double indirect one.                                           *)
(***************************************************************************)
DataBlocks(text) == (Len(text) + BSIZE - 1) \div BSIZE

Beyond(k, m) == IF k > m THEN k - m ELSE 0

InSingle(n) == Beyond(n, NDIRECT)             \* data blocks past the direct ones
InDouble(n) == Beyond(n, NDIRECT + NINDIR)    \* and past the single indirect one
Inner(n)    == (InDouble(n) + NINDIR - 1) \div NINDIR

BlocksTaken(n) ==
  n + (IF InSingle(n) > 0 THEN 1 ELSE 0) + (IF InDouble(n) > 0 THEN Inner(n) + 1 ELSE 0)

(* A slip: one block more than there are. *)
FitsBarely(n) ==
  /\ next_block + BlocksTaken(n) <= NBlocks + 1
  /\ Inner(n) <= NINDIR

(* neither "image full" nor "file needs triple indirection" *)
Fits(n) ==
  /\ next_block + BlocksTaken(n) <= NBlocks
  /\ Inner(n) <= NINDIR

(* As list[from:to] of the code, counted from one: it ends where the list  *)
(* ends.                                                                   *)
Part(s, from, to) == SubSeq(s, from, IF to < Len(s) THEN to ELSE Len(s))

(* What stands in the indirect blocks of n data blocks taken from b on, the*)
(* first `direct' of which stand in the inode.                             *)
AddressesPast(direct, b, n) ==
  LET rest  == [i \in 1 .. Beyond(n, direct) |-> b + direct + i - 1]
      later == Part(rest, NINDIR + 1, Len(rest))
  IN  [single |-> Part(rest, 1, NINDIR),
       inner  |-> [j \in 1 .. Inner(n) |->
                     Part(later, (j - 1) * NINDIR + 1, j * NINDIR)],
       outer  |-> [j \in 1 .. Inner(n) |-> b + n + j]]

(* A slip: the last direct block stands in the indirect one, too. *)
AddressesRepeated(b, n) == AddressesPast(NDIRECT - 1, b, n)

Addresses(b, n) == AddressesPast(NDIRECT, b, n)

(* put: the words of the buffer, over what was there.                      *)
put(block, buf) == [i \in 1 .. BSIZE |-> IF i <= Len(buf) THEN buf[i] ELSE block[i]]

Numbers(list) == [i \in 1 .. Len(list) |-> Entry(list[i], NoName)]

(* The words that go into block x of a file stored from b on.              *)
BufferFor(text, b, x) ==
  LET n    == DataBlocks(text)
      a    == Addresses(b, n)
      k    == x - b                   \* blocks taken before it
  IN  CASE k < n  -> Part(text, k * BSIZE + 1, (k + 1) * BSIZE)
        [] k = n  -> Numbers(a.single)
        [] k > n /\ k <= n + Inner(n) -> Numbers(a.inner[k - n])
        [] OTHER  -> Numbers(a.outer)

Stored(img, text, b) ==
  [x \in DOMAIN img |->
     IF x \in b .. b + BlocksTaken(DataBlocks(text)) - 1
     THEN put(img[x], BufferFor(text, b, x)) ELSE img[x]]

WithData(ino, text, b) ==
  LET n == DataBlocks(text) IN
  [ino EXCEPT
     !.size = Len(text),
     !.addr = [i \in 1 .. NADDR |->
                 CASE i <= NDIRECT -> IF i <= n THEN b + i - 1 ELSE 0
                   [] i = NDIRECT + 1 -> IF InSingle(n) > 0 THEN b + n ELSE 0
                   [] i = NDIRECT + 2 -> IF InDouble(n) > 0 THEN b + n + 1 + Inner(n) ELSE 0
                   [] OTHER -> 0]]

-----------------------------------------------------------------------------
(***************************************************************************)
(* build: the host tree, the spec lines, and writing it all out.           *)
(***************************************************************************)
Output == <<image, ilist, freelist, super>>

Exit ==
  /\ stage' = "exit"
  /\ UNCHANGED <<tree, next_block, Output, written>>

(* The step leads to tree t, or to "out of inodes".                        *)
Becomes(t) ==
  \/ /\ InodesLeft(t)
     /\ tree' = t
     /\ UNCHANGED <<stage, next_block, Output, written>>
  \/ ~InodesLeft(t) /\ Exit

Room(t) == EntryCount(t) < MaxEntries

VisitDir(path) ==
  /\ stage = "walk"
  /\ path \notin DOMAIN tree.dirs /\ Front(path) \in DOMAIN tree.dirs
  /\ Last(path) \notin NamesIn(tree, Front(path))
  /\ Room(tree)
  /\ Becomes(getdir(tree, path))

(* Inode n gets its size and its addresses, and the blocks are filled.     *)
StoreData(t, n, text) ==
  /\ tree' = [t EXCEPT !.inodes[n] = WithData(@, text, next_block)]
  /\ image' = Stored(image, text, next_block)
  /\ next_block' = next_block + BlocksTaken(DataBlocks(text))
  /\ written' = Set(written, n, text)

VisitFile(dir, name, file) ==
  /\ stage = "walk"
  /\ dir \in DOMAIN tree.dirs
  /\ name \notin NamesIn(tree, dir)
  /\ Room(tree)
  /\ LET n == tree.next_ino
         t == WithEntry(WithInode(tree, [Inode("file", 1) EXCEPT !.exec = file.exec]), dir, n, name)
     IN  \/ /\ InodesLeft(t) /\ Fits(DataBlocks(file.text))
            /\ StoreData(t, n, file.text)
            /\ UNCHANGED <<stage, ilist, freelist, super>>
         \/ ~(InodesLeft(t) /\ Fits(DataBlocks(file.text))) /\ Exit

WalkEnds ==
  /\ stage = "walk"
  /\ stage' = "spec"
  /\ UNCHANGED <<tree, next_block, Output, written>>

SpecDir(path) ==
  /\ stage = "spec"
  /\ Room(tree)
  /\ Becomes(getdir(tree, path))

(* A special file: its device number stands where the first block number   *)
(* of a file stands.                                                       *)
Device(dev) ==
  [Inode("node", 1) EXCEPT !.addr[1] = dev[1] * BYTE + dev[2]]

SpecNode(path, dev) ==
  /\ stage = "spec"
  /\ Room(tree)
  /\ LET t == getdir(tree, Front(path)) IN
     Becomes(WithEntry(WithInode(t, Device(dev)), Front(path), t.next_ino, Last(path)))

(* The last entry of that name; none, or no such directory, is the end.    *)
SpecLink(path, target) ==
  /\ stage = "spec"
  /\ Room(tree)
  /\ LET t     == getdir(tree, Front(path))
         dir   == Front(target)
         found == IF dir \notin DOMAIN t.entries THEN {} ELSE
                    {i \in DOMAIN t.entries[dir] : t.entries[dir][i].name = Last(target)}
         n     == t.entries[dir][Max(found)].num
     IN  \/ /\ found # {}
            /\ Becomes(WithLink(WithEntry(t, Front(path), n, Last(path)), n))
         \/ found = {} /\ Exit

SpecEnds ==
  /\ stage = "spec"
  /\ stage' = "dirs"
  /\ UNCHANGED <<tree, next_block, Output, written>>

(* dirent: no "name too long"                                              *)
NamesFit(entries) == \A i \in DOMAIN entries : entries[i].name \notin TooLong

(* One directory, in the order they were made.                             *)
StoreDir ==
  /\ stage = "dirs"
  /\ \E path \in DOMAIN tree.dirs :
       LET n == tree.dirs[path] IN
       /\ n \notin DOMAIN written
       /\ \A other \in DOMAIN tree.dirs : tree.dirs[other] < n => tree.dirs[other] \in DOMAIN written
       /\ LET entries == tree.entries[path]
              goes    == NamesFit(entries) /\ Fits(DataBlocks(entries))
          IN  \/ /\ goes
                 /\ StoreData(tree, n, entries)
                 /\ UNCHANGED <<stage, ilist, freelist, super>>
              \/ ~goes /\ Exit

write_inodes ==
  /\ stage = "dirs"
  /\ \A path \in DOMAIN tree.dirs : tree.dirs[path] \in DOMAIN written
  /\ ilist' = [n \in 1 .. ninodes |->
                 IF n \in DOMAIN tree.inodes THEN pack_inode(tree.inodes[n]) ELSE Blank]
  /\ stage' = "free"
  /\ UNCHANGED <<tree, next_block, image, freelist, super, written>>

(* bfree: when self.free is full it moves into the block being freed.      *)
bfree(s, b) ==
  LET full == s.list.nfree = NICFREE
      k    == IF full THEN 1 ELSE s.list.nfree + 1
  IN  [img  |-> IF full
                THEN [s.img EXCEPT ![b] = put(ZeroBlock, Numbers(<<s.list.nfree>> \o s.list.free))]
                ELSE s.img,
       list |-> [nfree |-> k,
                 free  |-> [s.list.free EXCEPT ![k] = b],
                 tfree |-> IF b = 0 THEN 0 ELSE s.list.tfree + 1]]

(* The numbers from `from' down to `to'.                                   *)
Down(from, to) == [i \in 1 .. Beyond(from + 1, to) |-> from + 1 - i]

FreeList(last, first) ==
  LET blocks == <<0>> \o Down(last, first)
      freed[k \in 0 .. Len(blocks)] ==
        IF k = 0 THEN [img |-> image, list |-> NoFree] ELSE bfree(freed[k - 1], blocks[k])
  IN  freed[Len(blocks)]

(* A slip: the first free block is left out. *)
build_free_list_short ==
  /\ stage = "free"
  /\ LET s == FreeList(NBlocks - 1, next_block + 1)
     IN  image' = s.img /\ freelist' = s.list
  /\ stage' = "super"
  /\ UNCHANGED <<tree, next_block, ilist, super, written>>

build_free_list ==
  /\ stage = "free"
  /\ LET s == FreeList(NBlocks - 1, next_block)
     IN  image' = s.img /\ freelist' = s.list
  /\ stage' = "super"
  /\ UNCHANGED <<tree, next_block, ilist, super, written>>

(* A slip: the list of free inodes starts with the last one used. *)
free_ino_early ==
  Part([i \in 1 .. Beyond(ninodes + 2, tree.next_ino) |-> tree.next_ino + i - 2], 1, NICINOD)

free_ino ==
  Part([i \in 1 .. Beyond(ninodes + 1, tree.next_ino) |-> tree.next_ino + i - 1], 1, NICINOD)

write_superblock ==
  /\ stage = "super"
  /\ super' = [isize |-> iblocks + 2, fsize |-> NBlocks,
               nfree |-> freelist.nfree, free |-> freelist.free,
               inode |-> free_ino, tfree |-> freelist.tfree,
               tinode |-> ninodes + 1 - tree.next_ino]
  /\ stage' = "done"
  /\ UNCHANGED <<tree, next_block, image, ilist, freelist, written>>

Next ==
  \/ \E path \in Paths \ {<<>>} :
       \/ VisitDir(path)
       \/ SpecDir(path)
       \/ \E dev \in Devices : SpecNode(path, dev)
       \/ \E target \in Paths \ {<<>>} : SpecLink(path, target)
  \/ \E dir \in Paths, name \in Names, file \in Files : VisitFile(dir, name, file)
  \/ WalkEnds
  \/ SpecEnds
  \/ StoreDir
  \/ write_inodes
  \/ build_free_list
  \/ write_superblock

Spec == Init /\ [][Next]_mvars

-----------------------------------------------------------------------------
(* What the kernel's alloc() (external) hands out: it takes numbers off    *)
(* the end of the list; the first one stands for the block that holds the  *)
(* next piece of the list, and 0 for no more.                              *)
AllocOrder ==
  LET rest(order, b) == IF b \in DOMAIN image THEN order[b] ELSE <<>>
      piece(b) == [i \in 1 .. image[b][1].num |-> image[b][i + 1].num]
      from[k \in 0 .. NBlocks] ==      \* in k pieces of the list
        [b \in DOMAIN image |->
           IF k = 0 \/ image[b][1].num \notin 1 .. NICFREE THEN <<b>>
           ELSE <<b>> \o Reverse(Tail(piece(b))) \o rest(from[k - 1], piece(b)[1])]
  IN  Reverse(SubSeq(super.free, 2, super.nfree)) \o rest(from[NBlocks], super.free[1])

(* The blocks a file or directory of the finished image refers to.         *)
BlocksOf(ino) ==
  LET single == ino.addr[NDIRECT + 1]
      double == ino.addr[NDIRECT + 2]
      outer  == UpToZero(ind(image, double))
      direct == UpToZero(SubSeq(ino.addr, 1, NDIRECT))
      inner  == FlattenSeq([i \in 1 .. Len(outer) |-> UpToZero(ind(image, outer[i]))])
  IN  IF ino.kind = "node" THEN <<>> ELSE
        direct \o UpToZero(<<single>>) \o UpToZero(ind(image, single))
          \o inner \o outer \o UpToZero(<<double>>)

(* What was put in, as a host directory; `named' has the path of everything*)
(* that is not a directory, and its inode.                                 *)
Putting ==
  LET named == UNION {{<<Append(dir, e.name), e.num>> : e \in ToSet(tree.entries[dir])} :
                        dir \in DOMAIN tree.dirs}
      of(kind) == {p \in named : Last(p[1]) \notin {".", ".."} /\ tree.inodes[p[2]].kind = kind}
      num(path) == (CHOOSE p \in named : p[1] = path)[2]
  IN  [dirs     |-> DOMAIN tree.dirs,
       files    |-> [path \in {p[1] : p \in of("file")} |->
                       [text |-> written[num(path)], exec |-> tree.inodes[num(path)].exec]],
       specials |-> [path \in {p[1] : p \in of("node")} |->
                       CHOOSE dev \in Devices : Device(dev).addr = tree.inodes[num(path)].addr],
       failed   |-> FALSE]

(* No name is twice in a directory, and no directory has two names.        *)
Plain ==
  /\ \A dir \in DOMAIN tree.dirs : Cardinality(NamesIn(tree, dir)) = Len(tree.entries[dir])
  /\ \A dir \in DOMAIN tree.dirs : \A e \in ToSet(tree.entries[dir]) :
       /\ e.name \in Names /\ tree.inodes[e.num].kind = "dir"
       => Append(dir, e.name) \in DOMAIN tree.dirs /\ tree.dirs[Append(dir, e.name)] = e.num

-----------------------------------------------------------------------------
(* The allocators stay inside the image and the i-list.                    *)
TypeOK ==
  /\ stage \in {"walk", "spec", "dirs", "ilist", "free", "super", "done", "exit"}
  /\ next_block \in first_data .. NBlocks
  /\ tree.next_ino \in ROOTINO + 1 .. ninodes
  /\ DOMAIN tree.inodes = ROOTINO .. tree.next_ino - 1
  /\ DOMAIN tree.entries = DOMAIN tree.dirs
  /\ \A n \in DOMAIN tree.inodes : tree.inodes[n].kind # "node" =>
       \A i \in 1 .. NADDR : tree.inodes[n].addr[i] \in {0} \cup first_data .. NBlocks - 1
  /\ DOMAIN image = first_data .. NBlocks - 1
  /\ \A b \in DOMAIN image : DOMAIN image[b] = 1 .. BSIZE
  /\ DOMAIN written \subseteq DOMAIN tree.inodes

(* Where a tree names an inode: the directories, and the entries there.    *)
Mentions(t, n) ==
  UNION {{<<dir, i>> : i \in {j \in DOMAIN t.entries[dir] : t.entries[dir][j].num = n}} :
           dir \in DOMAIN t.entries}

(* The link count of every inode is the number of directory entries that   *)
(* name it, whatever mix of host directories, spec lines, parents made on  *)
(* the way and hard links produced them: build() counts in four places,    *)
(* and fsck or unlink would act on a wrong count.                          *)
LinksCounted ==
  \A n \in DOMAIN tree.inodes : tree.inodes[n].nlink = Cardinality(Mentions(tree, n))

(* In the finished image every block from the first data block on belongs  *)
(* to exactly one file, in exactly one place, or is handed out by alloc()  *)
(* exactly once; the superblock counts the latter right.                   *)
BlocksAccounted ==
  stage = "done" =>
    LET used == FlattenSeq([n \in 1 .. ninodes |-> BlocksOf(inode(ilist, n))])
        all  == used \o AllocOrder
    IN  /\ Len(all) = NBlocks - first_data
        /\ ToSet(all) = first_data .. NBlocks - 1
        /\ super.tfree = Len(AllocOrder)

(* What was put in comes out again: s5fs.py, reading the finished image,   *)
(* finds the entries of every directory in their order and the words of    *)
(* every file, however many levels of indirection they took, although the  *)
(* free list was written over the same image later.                        *)
RoundTrip ==
  stage = "done" =>
    /\ \A path \in DOMAIN tree.dirs :
         readdir(image, inode(ilist, tree.dirs[path])) = tree.entries[path]
    /\ \A n \in DOMAIN written : data(image, inode(ilist, n)) = written[n]

(* "Extract the files out of a System V filesystem image into a directory" *)
(* (s5extract.py:2): what comes out is the tree that was put in, every     *)
(* directory, every file with its contents and its x bit, every special    *)
(* file with its device number, unless the spec gave two things one name   *)
(* or a directory two.                                                     *)
Extracted == stage = "done" /\ Plain => Extract(image, ilist) = Putting

(* The superblock hands the kernel free inodes that are free on the        *)
(* i-list, lowest first, and counts all of them.                           *)
InodesAccounted ==
  stage = "done" =>
    LET unused == {n \in ROOTINO .. ninodes : ilist[n] = Blank}
    IN  /\ ToSet(super.inode) \subseteq unused
        /\ super.tinode = Cardinality(unused)
        /\ \A i \in DOMAIN super.inode : super.inode[i] < ROOTINO + Cardinality(DOMAIN tree.inodes) + i
        /\ Len(super.inode) = (IF super.tinode < NICINOD THEN super.tinode ELSE NICINOD)
=============================================================================
