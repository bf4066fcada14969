----------------------------- MODULE MkfsProofs -----------------------------
(***************************************************************************)
(* The allocators of mkfs.py stay inside the image and the i-list, every   *)
(* link count is right, the superblock hands out free inodes only, every   *)
(* block has one owner, the contents written stay where they were put and  *)
(* are read back, and s5extract.py makes of the image the tree that was    *)
(* put in: for every size of the image and whatever goes into it.          *)
(***************************************************************************)
EXTENDS Mkfs, FiniteSetTheorems, SequenceTheorems, TLAPS

-----------------------------------------------------------------------------
(* Induction, for a set of numbers.                                        *)
LEMMA UpTo ==
  ASSUME NEW n \in Nat, NEW P, 0 \in P, \A k \in 0 .. n - 1 : k \in P => k + 1 \in P
  PROVE  0 .. n \subseteq P
<1> DEFINE K == {k \in 0 .. n : 0 .. k \subseteq P}
           c == Cardinality(K)
<1>1. K \in SUBSET (0 .. n) /\ 0 \in K
  OBVIOUS
<1>2. IsFiniteSet(0 .. n)
  BY FS_Interval
<1>3. IsFiniteSet(K) /\ c \in Nat
  BY <1>1, <1>2, FS_Subset, FS_CardinalityType
<1>4. ASSUME NEW k \in K PROVE k + 1 <= c
  <2>1. 0 .. k \in SUBSET K
    OBVIOUS
  <2>2. k \in Nat
    BY <1>1
  <2>3. Cardinality(0 .. k) = k - 0 + 1
    BY <2>2, FS_Interval
  <2>4. Cardinality(0 .. k) <= c
    BY <2>1, <1>3, FS_Subset
  <2> HIDE DEF c, K
  <2> QED BY <2>2, <2>3, <2>4, <1>3
<1>5. c - 1 \in K
  <2> SUFFICES ASSUME c - 1 \notin K PROVE FALSE
    OBVIOUS
  <2> DEFINE m == c - 2
  <2>1. K \in SUBSET (0 .. m) /\ m \in Nat
    <3> HIDE DEF K, c
    <3>1. \A k \in K : k \in Nat /\ k + 1 <= c /\ k # c - 1
      BY <1>1, <1>4
    <3> QED BY <3>1, <1>1, <1>3
  <2> HIDE DEF m
  <2>2. IsFiniteSet(0 .. m) /\ Cardinality(0 .. m) = m - 0 + 1
    BY <2>1, FS_Interval
  <2>3. c <= Cardinality(0 .. m)
    BY <2>1, <2>2, FS_Subset
  <2> HIDE DEF c
  <2> QED BY <2>1, <2>2, <2>3, <1>3 DEF m
<1>6. ~(c - 1 < n)
  <2> SUFFICES ASSUME c - 1 < n PROVE FALSE
    OBVIOUS
  <2> HIDE DEF c
  <2>1. c - 1 \in Nat /\ 0 .. c - 1 \subseteq P
    BY <1>5
  <2>2. c \in P
    BY <2>1, <1>3
  <2>3. c \in K
    BY <2>1, <2>2, <1>3
  <2> QED BY <2>3, <1>3, <1>4
<1> HIDE DEF c
<1> QED BY <1>5, <1>6, <1>3

-----------------------------------------------------------------------------
(* What is true of a tree between any two of the calls that change it.     *)
InodeType ==
  [kind : {"file", "dir", "node"}, exec : BOOLEAN, nlink : Nat, size : Nat,
   addr : [1 .. NADDR -> Nat]]

Nums(t) == ROOTINO .. t.next_ino - 1

EntryType(t) == [num : Nums(t), name : Names \cup {".", ".."}]

TreeInv(t) ==
  /\ DOMAIN t = {"inodes", "dirs", "entries", "next_ino"}
  /\ t.next_ino \in Nat /\ ROOTINO < t.next_ino
  /\ t.inodes \in [Nums(t) -> InodeType]
  /\ DOMAIN t.entries = DOMAIN t.dirs
  /\ <<>> \in DOMAIN t.dirs
  /\ \A dir \in DOMAIN t.dirs : t.dirs[dir] \in Nums(t)
  /\ \A dir \in DOMAIN t.dirs : t.entries[dir] \in Seq(EntryType(t))

Counted(t) ==
  \A n \in Nums(t) : /\ IsFiniteSet(Mentions(t, n))
                     /\ t.inodes[n].nlink = Cardinality(Mentions(t, n))

(* No file has a block that is not yet taken.                              *)
InBlocks(t, b) ==
  \A n \in Nums(t) : t.inodes[n].kind # "node" =>
    \A i \in 1 .. NADDR : t.inodes[n].addr[i] \in {0} \cup first_data .. b - 1

LEMMA MentionsThem ==
  ASSUME NEW t, NEW n, NEW x
  PROVE  x \in Mentions(t, n) <=>
           \E dir \in DOMAIN t.entries : \E i \in DOMAIN t.entries[dir] :
             x = <<dir, i>> /\ t.entries[dir][i].num = n
BY DEF Mentions

LEMMA NewInode ==
  ASSUME NEW t, TreeInv(t), NEW ino \in InodeType
  PROVE  LET s == WithInode(t, ino) IN
         /\ TreeInv(s) /\ s.next_ino = t.next_ino + 1
         /\ s.dirs = t.dirs /\ s.entries = t.entries
         /\ t.next_ino \in Nums(s) /\ s.inodes[t.next_ino] = ino
         /\ Nums(s) = Nums(t) \cup {t.next_ino} /\ t.next_ino \notin Nums(t)
         /\ \A n \in Nums(t) : s.inodes[n] = t.inodes[n]
<1> DEFINE s == WithInode(t, ino)
           n == t.next_ino
<1>1. /\ s.next_ino = n + 1 /\ s.dirs = t.dirs /\ s.entries = t.entries
      /\ s.inodes = Set(t.inodes, n, ino) /\ DOMAIN s = DOMAIN t
  BY DEF WithInode, TreeInv
<1>2. n \in Nat /\ ROOTINO < n
  BY DEF TreeInv
<1>3. Nums(s) = Nums(t) \cup {n} /\ n \notin Nums(t)
  BY <1>1, <1>2 DEF Nums, ROOTINO
<1>4. /\ s.inodes \in [Nums(s) -> InodeType] /\ s.inodes[n] = ino
      /\ \A m \in Nums(t) : s.inodes[m] = t.inodes[m]
  BY <1>1, <1>3 DEF Set, TreeInv
<1>5. \A dir \in DOMAIN t.dirs : s.entries[dir] \in Seq(EntryType(s))
  <2>1. EntryType(t) \subseteq EntryType(s)
    BY <1>3 DEF EntryType
  <2> QED BY <2>1, <1>1 DEF TreeInv
<1>6. TreeInv(s)
  BY <1>1, <1>2, <1>3, <1>4, <1>5 DEF TreeInv, ROOTINO
<1> HIDE DEF s
<1> QED BY <1>1, <1>3, <1>4, <1>6 DEF s

LEMMA NewEntry ==
  ASSUME NEW t, TreeInv(t), NEW dir \in DOMAIN t.dirs, NEW n \in Nums(t), NEW name \in Names
  PROVE  LET s == WithEntry(t, dir, n, name)
             k == Len(t.entries[dir]) + 1
         IN
         /\ TreeInv(s) /\ s.next_ino = t.next_ino /\ Nums(s) = Nums(t)
         /\ s.dirs = t.dirs /\ s.inodes = t.inodes
         /\ Mentions(s, n) = Mentions(t, n) \cup {<<dir, k>>}
         /\ <<dir, k>> \notin Mentions(t, n)
         /\ \A m : m # n => Mentions(s, m) = Mentions(t, m)
<1> DEFINE s == WithEntry(t, dir, n, name)
           old == t.entries[dir]
           k == Len(old) + 1
<1>1. /\ s.next_ino = t.next_ino /\ s.dirs = t.dirs /\ s.inodes = t.inodes
      /\ s.entries = [t.entries EXCEPT ![dir] = Append(old, Entry(n, name))]
      /\ DOMAIN s = DOMAIN t
  BY DEF WithEntry, TreeInv
<1>2. Nums(s) = Nums(t) /\ EntryType(s) = EntryType(t)
  BY <1>1 DEF Nums, EntryType
<1>3. old \in Seq(EntryType(t)) /\ Entry(n, name) \in EntryType(t)
  BY DEF TreeInv, Entry, EntryType
<1>4. /\ Append(old, Entry(n, name)) \in Seq(EntryType(t))
      /\ DOMAIN old = 1 .. k - 1 /\ k \in Nat
      /\ DOMAIN Append(old, Entry(n, name)) = 1 .. k
      /\ Append(old, Entry(n, name))[k] = Entry(n, name)
      /\ \A i \in 1 .. k - 1 : Append(old, Entry(n, name))[i] = old[i]
  BY <1>3, AppendProperties, LenProperties
<1>5. /\ DOMAIN s.entries = DOMAIN t.entries /\ dir \in DOMAIN t.entries
      /\ s.entries[dir] = Append(old, Entry(n, name))
      /\ \A d \in DOMAIN t.entries : d # dir => s.entries[d] = t.entries[d]
  BY <1>1 DEF TreeInv
<1>6. TreeInv(s)
  BY <1>1, <1>2, <1>4, <1>5 DEF TreeInv
<1> HIDE DEF s, old
<1>7. ASSUME NEW m, NEW x
      PROVE  x \in Mentions(s, m) <=> x \in Mentions(t, m) \/ (x = <<dir, k>> /\ m = n)
  <2>1. x \in Mentions(s, m) <=>
          \/ \E d \in DOMAIN t.entries : d # dir /\ \E i \in DOMAIN t.entries[d] :
               x = <<d, i>> /\ t.entries[d][i].num = m
          \/ \E i \in 1 .. k : x = <<dir, i>> /\ s.entries[dir][i].num = m
    BY <1>4, <1>5, MentionsThem
  <2>2. x \in Mentions(t, m) <=>
          \/ \E d \in DOMAIN t.entries : d # dir /\ \E i \in DOMAIN t.entries[d] :
               x = <<d, i>> /\ t.entries[d][i].num = m
          \/ \E i \in 1 .. k - 1 : x = <<dir, i>> /\ old[i].num = m
    BY <1>4, <1>5, MentionsThem DEF old
  <2>3. (\E i \in 1 .. k : x = <<dir, i>> /\ s.entries[dir][i].num = m) <=>
          \/ \E i \in 1 .. k - 1 : x = <<dir, i>> /\ old[i].num = m
          \/ x = <<dir, k>> /\ m = n
    <3>1. Entry(n, name).num = n
      BY DEF Entry
    <3>2. \A i : i \in 1 .. k <=> i \in 1 .. k - 1 \/ i = k
      BY <1>4
    <3> QED BY <3>1, <3>2, <1>4, <1>5
  <2> QED BY <2>1, <2>2, <2>3
<1>8. <<dir, k>> \notin Mentions(t, n)
  <2>1. k \notin DOMAIN t.entries[dir]
    BY <1>4 DEF old
  <2> QED BY <2>1, MentionsThem
<1>9. Mentions(s, n) = Mentions(t, n) \cup {<<dir, k>>}
  BY <1>7
<1>10. ASSUME NEW m, m # n PROVE Mentions(s, m) = Mentions(t, m)
  <2>1. \A x : x \in Mentions(s, m) <=> x \in Mentions(t, m)
    BY <1>7, <1>10
  <2> QED BY <2>1
<1>11. /\ s.next_ino = t.next_ino /\ Nums(s) = Nums(t)
       /\ s.dirs = t.dirs /\ s.inodes = t.inodes
  BY <1>1, <1>2 DEF s
<1> QED BY <1>6, <1>8, <1>9, <1>10, <1>11, Zenon DEF s, old

LEMMA NewLink ==
  ASSUME NEW t, TreeInv(t), NEW n \in Nums(t)
  PROVE  LET s == WithLink(t, n) IN
         /\ TreeInv(s) /\ s.next_ino = t.next_ino /\ Nums(s) = Nums(t)
         /\ s.dirs = t.dirs /\ s.entries = t.entries
         /\ s.inodes[n].nlink = t.inodes[n].nlink + 1
         /\ \A m \in Nums(t) : m # n => s.inodes[m] = t.inodes[m]
         /\ s.inodes[n].kind = t.inodes[n].kind /\ s.inodes[n].addr = t.inodes[n].addr
<1> DEFINE s == WithLink(t, n)
           ino == t.inodes[n]
           more == [ino EXCEPT !.nlink = @ + 1]
<1>1. /\ s.next_ino = t.next_ino /\ s.dirs = t.dirs /\ s.entries = t.entries
      /\ s.inodes = [t.inodes EXCEPT ![n] = more] /\ DOMAIN s = DOMAIN t
  BY DEF WithLink, TreeInv
<1>2. Nums(s) = Nums(t) /\ EntryType(s) = EntryType(t)
  BY <1>1 DEF Nums, EntryType
<1>3. ino \in InodeType
  BY DEF TreeInv
<1>4. /\ more \in InodeType /\ more.nlink = ino.nlink + 1
      /\ more.kind = ino.kind /\ more.addr = ino.addr
  <2> HIDE DEF ino
  <2> QED BY <1>3 DEF InodeType
<1> HIDE DEF more
<1>5. /\ s.inodes \in [Nums(s) -> InodeType] /\ s.inodes[n] = more
      /\ \A m \in Nums(t) : m # n => s.inodes[m] = t.inodes[m]
  BY <1>1, <1>2, <1>4 DEF TreeInv
<1> HIDE DEF s
<1>6. TreeInv(s)
  BY <1>1, <1>2, <1>5 DEF TreeInv
<1> QED BY <1>1, <1>2, <1>4, <1>5, <1>6 DEF s

LEMMA SameEntries ==
  ASSUME NEW s, NEW t, s.entries = t.entries, NEW n
  PROVE  Mentions(s, n) = Mentions(t, n)
BY DEF Mentions

(* Nobody names an inode that is not there.                                *)
LEMMA NobodyMentions ==
  ASSUME NEW t, TreeInv(t), NEW n, n \notin Nums(t)
  PROVE  Mentions(t, n) = {}
<1> SUFFICES ASSUME NEW dir \in DOMAIN t.entries, NEW i \in DOMAIN t.entries[dir],
                    t.entries[dir][i].num = n
             PROVE  FALSE
  <2>1. \A x : x \notin Mentions(t, n)
    BY MentionsThem
  <2> QED BY <2>1
<1>1. t.entries[dir] \in Seq(EntryType(t))
  BY DEF TreeInv
<1>2. t.entries[dir][i] \in EntryType(t)
  BY <1>1, ElementOfSeq, LenProperties
<1> QED BY <1>2 DEF EntryType

LEMMA NewDir ==
  ASSUME NEW t, TreeInv(t), Counted(t),
         NEW path \in Seq(Names), path # <<>>,
         path \notin DOMAIN t.dirs, Front(path) \in DOMAIN t.dirs
  PROVE  LET s == MakeDir(t, path) IN
         /\ TreeInv(s) /\ Counted(s) /\ s.next_ino = t.next_ino + 1
         /\ DOMAIN s.dirs = DOMAIN t.dirs \cup {path}
         /\ \A b : InBlocks(t, b) => InBlocks(s, b)
<1> DEFINE n   == t.next_ino
           up  == Front(path)
           top == t.dirs[up]
           ino == Inode("dir", 2)
           a   == WithInode(t, ino)
           d   == WithEntry(a, up, n, Last(path))
           two == <<Entry(n, "."), Entry(top, "..")>>
           c   == [d EXCEPT !.dirs = Set(@, path, n), !.entries = Set(@, path, two)]
           s   == WithLink(c, top)
           k   == Len(a.entries[up]) + 1
<1>0. MakeDir(t, path) = s
  BY DEF MakeDir
<1>1. /\ n \in Nat /\ top \in Nums(t) /\ Last(path) \in Names /\ ino \in InodeType
      /\ ino.nlink = 2 /\ ino.kind = "dir" /\ \A i \in 1 .. NADDR : ino.addr[i] = 0
  <2>1. Last(path) \in Names
    <3>1. Len(path) \in 1 .. Len(path)
      BY EmptySeq, LenProperties
    <3> QED BY <3>1, ElementOfSeq DEF Last
  <2>2. ino \in InodeType
    BY DEF Inode, InodeType
  <2>3. ino.nlink = 2 /\ ino.kind = "dir" /\ \A i \in 1 .. NADDR : ino.addr[i] = 0
    BY DEF Inode
  <2> QED BY <2>1, <2>2, <2>3 DEF TreeInv
<1> HIDE DEF ino
<1>2. /\ TreeInv(a) /\ a.next_ino = n + 1 /\ a.dirs = t.dirs /\ a.entries = t.entries
      /\ n \in Nums(a) /\ a.inodes[n] = ino
      /\ Nums(a) = Nums(t) \cup {n} /\ n \notin Nums(t)
      /\ \A m \in Nums(t) : a.inodes[m] = t.inodes[m]
  BY <1>1, NewInode
<1> HIDE DEF a
<1>3. /\ TreeInv(d) /\ d.next_ino = n + 1 /\ Nums(d) = Nums(a)
      /\ d.dirs = t.dirs /\ d.inodes = a.inodes
      /\ Mentions(d, n) = Mentions(a, n) \cup {<<up, k>>} /\ <<up, k>> \notin Mentions(a, n)
      /\ \A m : m # n => Mentions(d, m) = Mentions(a, m)
  <2>1. up \in DOMAIN a.dirs /\ n \in Nums(a) /\ Last(path) \in Names
    BY <1>1, <1>2
  <2> HIDE DEF n, up
  <2>2. /\ TreeInv(d) /\ d.next_ino = a.next_ino /\ Nums(d) = Nums(a)
        /\ d.dirs = a.dirs /\ d.inodes = a.inodes
        /\ Mentions(d, n) = Mentions(a, n) \cup {<<up, k>>} /\ <<up, k>> \notin Mentions(a, n)
        /\ \A m : m # n => Mentions(d, m) = Mentions(a, m)
    BY <2>1, <1>2, NewEntry
  <2> QED BY <2>2, <1>2
<1> HIDE DEF d, k, n, up, top
<1>4. /\ c.next_ino = n + 1 /\ c.inodes = d.inodes /\ DOMAIN c = DOMAIN d
      /\ c.dirs = Set(d.dirs, path, n) /\ c.entries = Set(d.entries, path, two)
  BY <1>3 DEF TreeInv
<1>5. Nums(c) = Nums(d) /\ EntryType(c) = EntryType(d) /\ Nums(d) = Nums(t) \cup {n}
  BY <1>2, <1>3, <1>4 DEF Nums, EntryType
<1> HIDE DEF c
<1>6. two \in Seq(EntryType(d)) /\ DOMAIN two = {1, 2} /\ two[1].num = n /\ two[2].num = top
  <2>1. Entry(n, ".") \in EntryType(d) /\ Entry(top, "..") \in EntryType(d)
    <3>1. n \in Nums(d) /\ top \in Nums(d)
      BY <1>1, <1>5
    <3> QED BY <3>1 DEF EntryType, Entry
  <2>2. Entry(n, ".").num = n /\ Entry(top, "..").num = top
    BY DEF Entry
  <2> QED BY <2>1, <2>2
<1> HIDE DEF two
<1>7. /\ DOMAIN d.dirs = DOMAIN t.dirs /\ DOMAIN d.entries = DOMAIN t.dirs
      /\ DOMAIN c.dirs = DOMAIN t.dirs \cup {path} /\ c.dirs[path] = n
      /\ \A dir \in DOMAIN t.dirs : c.dirs[dir] = d.dirs[dir]
      /\ DOMAIN c.entries = DOMAIN t.dirs \cup {path} /\ c.entries[path] = two
      /\ \A dir \in DOMAIN t.dirs : c.entries[dir] = d.entries[dir]
  <2>1. DOMAIN d.dirs = DOMAIN t.dirs /\ DOMAIN d.entries = DOMAIN t.dirs
    BY <1>3 DEF TreeInv
  <2> QED BY <2>1, <1>4 DEF Set
<1>8. TreeInv(c)
  <2>1. \A dir \in DOMAIN c.dirs : c.dirs[dir] \in Nums(c) /\ c.entries[dir] \in Seq(EntryType(c))
    BY <1>3, <1>5, <1>6, <1>7 DEF TreeInv
  <2>2. c.inodes \in [Nums(c) -> InodeType] /\ DOMAIN c = {"inodes", "dirs", "entries", "next_ino"}
    BY <1>3, <1>4, <1>5 DEF TreeInv
  <2>3. c.next_ino \in Nat /\ ROOTINO < c.next_ino
    BY <1>3, <1>4 DEF TreeInv
  <2>4. <<>> \in DOMAIN c.dirs /\ DOMAIN c.entries = DOMAIN c.dirs
    BY <1>7 DEF TreeInv
  <2> QED BY <2>1, <2>2, <2>3, <2>4 DEF TreeInv
<1>9. top \in Nums(c) /\ top # n
  BY <1>1, <1>2, <1>5
<1>10. /\ TreeInv(s) /\ s.next_ino = n + 1 /\ Nums(s) = Nums(c)
       /\ s.dirs = c.dirs /\ s.entries = c.entries
       /\ s.inodes[top].nlink = c.inodes[top].nlink + 1
       /\ \A m \in Nums(c) : m # top => s.inodes[m] = c.inodes[m]
       /\ s.inodes[top].kind = c.inodes[top].kind /\ s.inodes[top].addr = c.inodes[top].addr
  BY <1>4, <1>8, <1>9, NewLink
<1> HIDE DEF s
<1>11. ASSUME NEW m, NEW x
       PROVE  x \in Mentions(s, m) <=>
                \/ x \in Mentions(d, m)
                \/ x = <<path, 1>> /\ m = n
                \/ x = <<path, 2>> /\ m = top
  <2>1. x \in Mentions(s, m) <=>
          \/ \E dir \in DOMAIN t.dirs : \E i \in DOMAIN d.entries[dir] :
               x = <<dir, i>> /\ d.entries[dir][i].num = m
          \/ \E i \in {1, 2} : x = <<path, i>> /\ two[i].num = m
    BY <1>6, <1>7, <1>10, MentionsThem
  <2>2. x \in Mentions(d, m) <=>
          \E dir \in DOMAIN t.dirs : \E i \in DOMAIN d.entries[dir] :
            x = <<dir, i>> /\ d.entries[dir][i].num = m
    BY <1>7, MentionsThem
  <2>3. (\E i \in {1, 2} : x = <<path, i>> /\ two[i].num = m) <=>
          \/ x = <<path, 1>> /\ m = n
          \/ x = <<path, 2>> /\ m = top
    BY <1>6
  <2> QED BY <2>1, <2>2, <2>3
<1>12. \A m, i : <<path, i>> \notin Mentions(d, m)
  BY <1>7, MentionsThem
<1>13. \A m : Mentions(a, m) = Mentions(t, m)
  BY <1>2, SameEntries
<1>14. Counted(s)
  <2> SUFFICES ASSUME NEW m \in Nums(s)
               PROVE  /\ IsFiniteSet(Mentions(s, m))
                      /\ s.inodes[m].nlink = Cardinality(Mentions(s, m))
    BY DEF Counted
  <2>1. CASE m = n
    <3>1. Mentions(t, n) = {}
      BY <1>2, NobodyMentions
    <3>2. Mentions(d, n) = {<<up, k>>}
      BY <3>1, <1>3, <1>13
    <3>3. Mentions(s, n) = {<<up, k>>} \cup {<<path, 1>>} /\ <<path, 1>> \notin {<<up, k>>}
      BY <3>2, <1>9, <1>11, <1>12
    <3>4. IsFiniteSet({<<up, k>>}) /\ Cardinality({<<up, k>>}) = 1
      BY FS_Singleton
    <3>5. IsFiniteSet(Mentions(s, n)) /\ Cardinality(Mentions(s, n)) = 1 + 1
      <4> DEFINE one == {<<up, k>>}
                 new == <<path, 1>>
      <4>1. IsFiniteSet(one) /\ Cardinality(one) = 1 /\ new \notin one
            /\ Mentions(s, n) = one \cup {new}
        BY <3>3, <3>4
      <4> HIDE DEF one, new
      <4> QED BY <4>1, FS_AddElement
    <3>6. s.inodes[n].nlink = 2
      BY <1>1, <1>2, <1>3, <1>4, <1>5, <1>9, <1>10
    <3> QED BY <2>1, <3>5, <3>6
  <2>2. CASE m = top
    <3>1. Mentions(s, top) = Mentions(t, top) \cup {<<path, 2>>} /\ <<path, 2>> \notin Mentions(t, top)
      <4>1. Mentions(d, top) = Mentions(t, top)
        BY <1>3, <1>9, <1>13
      <4> QED BY <4>1, <1>9, <1>11, <1>12
    <3>2. IsFiniteSet(Mentions(t, top)) /\ t.inodes[top].nlink = Cardinality(Mentions(t, top))
      BY <1>1 DEF Counted
    <3>3. /\ IsFiniteSet(Mentions(s, top))
          /\ Cardinality(Mentions(s, top)) = Cardinality(Mentions(t, top)) + 1
      BY <3>1, <3>2, FS_AddElement
    <3>4. s.inodes[top].nlink = t.inodes[top].nlink + 1
      BY <1>1, <1>2, <1>3, <1>4, <1>10
    <3> QED BY <2>2, <3>2, <3>3, <3>4
  <2>3. CASE m # n /\ m # top
    <3>1. Mentions(s, m) = Mentions(t, m)
      <4>1. Mentions(d, m) = Mentions(t, m)
        BY <2>3, <1>3, <1>13
      <4>2. \A x : x \in Mentions(s, m) <=> x \in Mentions(d, m)
        BY <2>3, <1>11
      <4> QED BY <4>1, <4>2
    <3>2. m \in Nums(t) /\ m \in Nums(c)
      BY <2>3, <1>5, <1>10
    <3>3. s.inodes[m] = t.inodes[m]
      BY <2>3, <3>2, <1>2, <1>3, <1>4, <1>10
    <3> QED BY <3>1, <3>2, <3>3 DEF Counted
  <2> QED BY <2>1, <2>2, <2>3
<1>15. ASSUME NEW b, InBlocks(t, b) PROVE InBlocks(s, b)
  <2> SUFFICES ASSUME NEW m \in Nums(s), s.inodes[m].kind # "node", NEW i \in 1 .. NADDR
               PROVE  s.inodes[m].addr[i] \in {0} \cup first_data .. b - 1
    BY DEF InBlocks
  <2>1. CASE m = n
    <3>1. s.inodes[n] = ino
      BY <1>2, <1>3, <1>4, <1>5, <1>9, <1>10
    <3> QED BY <2>1, <3>1, <1>1
  <2>2. CASE m # n
    <3>1. m \in Nums(t) /\ m \in Nums(c)
      BY <2>2, <1>5, <1>10
    <3>2. c.inodes[m] = t.inodes[m]
      BY <3>1, <1>2, <1>3, <1>4
    <3>3. s.inodes[m].kind = t.inodes[m].kind /\ s.inodes[m].addr = t.inodes[m].addr
      BY <3>1, <3>2, <1>10
    <3> QED BY <3>1, <3>3, <1>15 DEF InBlocks
  <2> QED BY <2>1, <2>2
<1> QED BY <1>0, <1>7, <1>10, <1>14, <1>15 DEF n

-----------------------------------------------------------------------------
(* Every directory has an inode of its own, and no other inode is one.     *)
DirsInv(t) ==
  /\ \A p, q \in DOMAIN t.dirs : t.dirs[p] = t.dirs[q] => p = q
  /\ \A n \in Nums(t) : t.inodes[n].kind = "dir" <=> \E p \in DOMAIN t.dirs : t.dirs[p] = n

(* Tree s is tree t with more in it, the new inodes being of some kinds.   *)
Grown(t, s, kinds) ==
  /\ Nums(t) \subseteq Nums(s)
  /\ \A n \in Nums(t) : /\ s.inodes[n].kind = t.inodes[n].kind
                        /\ s.inodes[n].size = t.inodes[n].size
                        /\ s.inodes[n].addr = t.inodes[n].addr
  /\ \A n \in Nums(s) : n \in Nums(t) \/ s.inodes[n].kind \in kinds
  /\ \A p \in DOMAIN t.dirs : p \in DOMAIN s.dirs /\ s.dirs[p] = t.dirs[p]
  /\ \A p \in DOMAIN s.dirs : p \in DOMAIN t.dirs \/ s.dirs[p] \notin Nums(t)
  /\ DirsInv(t) => DirsInv(s)

LEMMA GrownNot ==
  ASSUME NEW t, NEW kinds PROVE Grown(t, t, kinds)
  BY DEF Grown

LEMMA GrownOn ==
  ASSUME NEW t, NEW s, NEW r, NEW kinds, Grown(t, s, kinds), Grown(s, r, kinds)
  PROVE  Grown(t, r, kinds)
<1>1. Nums(t) \subseteq Nums(r) /\ (DirsInv(t) => DirsInv(r))
  BY DEF Grown
<1>2. \A n \in Nums(t) : /\ r.inodes[n].kind = t.inodes[n].kind
                         /\ r.inodes[n].size = t.inodes[n].size
                         /\ r.inodes[n].addr = t.inodes[n].addr
  BY DEF Grown
<1>3. \A n \in Nums(r) : n \in Nums(t) \/ r.inodes[n].kind \in kinds
  BY DEF Grown
<1>4. \A p \in DOMAIN t.dirs : p \in DOMAIN r.dirs /\ r.dirs[p] = t.dirs[p]
  BY DEF Grown
<1>5. \A p \in DOMAIN r.dirs : p \in DOMAIN t.dirs \/ r.dirs[p] \notin Nums(t)
  BY DEF Grown
<1> QED BY <1>1, <1>2, <1>3, <1>4, <1>5 DEF Grown

LEMMA GrownByDir ==
  ASSUME NEW t, TreeInv(t), NEW path, path \notin DOMAIN t.dirs, Front(path) \in DOMAIN t.dirs
  PROVE  Grown(t, MakeDir(t, path), {"dir"})
<1> DEFINE n   == t.next_ino
           up  == Front(path)
           top == t.dirs[up]
           ino == Inode("dir", 2)
           a   == WithInode(t, ino)
           d   == WithEntry(a, up, n, Last(path))
           two == <<Entry(n, "."), Entry(top, "..")>>
           c   == [d EXCEPT !.dirs = Set(@, path, n), !.entries = Set(@, path, two)]
           s   == WithLink(c, top)
<1>0. MakeDir(t, path) = s
  BY DEF MakeDir
<1>1. /\ DOMAIN t = {"inodes", "dirs", "entries", "next_ino"} /\ n \in Nat /\ ROOTINO < n
      /\ DOMAIN t.inodes = Nums(t) /\ top \in Nums(t) /\ n \notin Nums(t)
  BY DEF TreeInv, Nums, ROOTINO
<1>2. /\ a.inodes = Set(t.inodes, n, ino) /\ a.dirs = t.dirs /\ a.next_ino = n + 1
      /\ DOMAIN a = DOMAIN t
  BY <1>1 DEF WithInode
<1> HIDE DEF a
<1>3. d.inodes = a.inodes /\ d.dirs = a.dirs /\ d.next_ino = a.next_ino /\ DOMAIN d = DOMAIN a
  BY <1>1, <1>2 DEF WithEntry
<1> HIDE DEF d, two
<1>4. /\ c.inodes = d.inodes /\ c.dirs = Set(d.dirs, path, n) /\ c.next_ino = d.next_ino
      /\ DOMAIN c = DOMAIN d
  BY <1>1, <1>2, <1>3
<1> HIDE DEF c
<1>5. /\ s.inodes = [c.inodes EXCEPT ![top].nlink = @ + 1] /\ s.dirs = c.dirs
      /\ s.next_ino = c.next_ino
  BY <1>1, <1>2, <1>3, <1>4 DEF WithLink
<1>6. Nums(s) = Nums(t) \cup {n}
  BY <1>1, <1>2, <1>3, <1>4, <1>5 DEF Nums, ROOTINO
<1> HIDE DEF s
<1>7. /\ c.inodes[n] = ino /\ DOMAIN c.inodes = Nums(t) \cup {n}
      /\ \A m \in Nums(t) : c.inodes[m] = t.inodes[m]
  BY <1>1, <1>2, <1>3, <1>4 DEF Set
<1>8. ASSUME NEW m \in Nums(t) \cup {n}
      PROVE  /\ s.inodes[m].kind = c.inodes[m].kind /\ s.inodes[m].size = c.inodes[m].size
             /\ s.inodes[m].addr = c.inodes[m].addr
  BY <1>5, <1>7
<1>9. ino.kind = "dir"
  BY DEF Inode
<1>10. /\ DOMAIN s.dirs = DOMAIN t.dirs \cup {path} /\ s.dirs[path] = n
       /\ \A p \in DOMAIN t.dirs : s.dirs[p] = t.dirs[p] /\ t.dirs[p] \in Nums(t)
  BY <1>2, <1>3, <1>4, <1>5 DEF Set, TreeInv
<1> HIDE DEF ino, n, top, up
<1>11. ASSUME DirsInv(t) PROVE DirsInv(s)
  <2>1. \A p, q \in DOMAIN s.dirs : s.dirs[p] = s.dirs[q] => p = q
    BY <1>1, <1>10, <1>11 DEF DirsInv
  <2>2. ASSUME NEW m \in Nums(s)
        PROVE  s.inodes[m].kind = "dir" <=> \E p \in DOMAIN s.dirs : s.dirs[p] = m
    <3>1. CASE m = n
      BY <3>1, <1>7, <1>8, <1>9, <1>10
    <3>2. CASE m # n
      <4>1. m \in Nums(t) /\ s.inodes[m].kind = t.inodes[m].kind
        BY <3>2, <1>6, <1>7, <1>8
      <4>2. (\E p \in DOMAIN s.dirs : s.dirs[p] = m) <=> \E p \in DOMAIN t.dirs : t.dirs[p] = m
        BY <3>2, <1>10
      <4> QED BY <4>1, <4>2, <1>11 DEF DirsInv
    <3> QED BY <3>1, <3>2
  <2> QED BY <2>1, <2>2 DEF DirsInv
<1>12. \A m \in Nums(s) : m \in Nums(t) \/ s.inodes[m].kind \in {"dir"}
  BY <1>6, <1>7, <1>8, <1>9
<1>13. \A m \in Nums(t) : /\ s.inodes[m].kind = t.inodes[m].kind
                          /\ s.inodes[m].size = t.inodes[m].size
                          /\ s.inodes[m].addr = t.inodes[m].addr
  BY <1>7, <1>8
<1> QED BY <1>0, <1>1, <1>6, <1>10, <1>11, <1>12, <1>13 DEF Grown

-----------------------------------------------------------------------------
(* Tree t gives inode n the path p.                                        *)
Named(t, p, n) ==
  /\ p # <<>> /\ Front(p) \in DOMAIN t.dirs
  /\ \E i \in DOMAIN t.entries[Front(p)] : t.entries[Front(p)][i] = Entry(n, Last(p))

(* Every directory stands under its name in the one above it.              *)
Placed(t) ==
  /\ t.dirs[<<>>] = ROOTINO
  /\ \A p \in DOMAIN t.dirs : /\ p \in Seq(Names) /\ Len(p) <= Depth
                              /\ p # <<>> => Named(t, p, t.dirs[p])

LEMMA SeqOfMore ==
  ASSUME NEW S, NEW T, S \subseteq T, NEW s \in Seq(S)
  PROVE  s \in Seq(T)
<1>1. Len(s) \in Nat /\ s \in [1 .. Len(s) -> S]
  BY LenProperties
<1>2. s \in [1 .. Len(s) -> T]
  BY <1>1
<1> QED BY <1>1, <1>2, SeqDef

(* Tree s has what tree t has, in the same place.                          *)
Widened(t, s) ==
  \A p \in DOMAIN t.dirs :
    /\ p \in DOMAIN s.dirs /\ s.dirs[p] = t.dirs[p]
    /\ \A i \in DOMAIN t.entries[p] : i \in DOMAIN s.entries[p] /\ s.entries[p][i] = t.entries[p][i]

LEMMA PlacedOn ==
  ASSUME NEW t, TreeInv(t), NEW s, Widened(t, s), Placed(t),
         \A p \in DOMAIN s.dirs :
           p \in DOMAIN t.dirs \/ (p \in Seq(Names) /\ Len(p) <= Depth /\ Named(s, p, s.dirs[p]))
  PROVE  Placed(s)
<1>1. s.dirs[<<>>] = ROOTINO
  BY DEF Placed, Widened, TreeInv
<1>2. ASSUME NEW p \in DOMAIN t.dirs, p # <<>> PROVE Named(s, p, s.dirs[p])
  BY <1>2 DEF Placed, Widened, Named
<1>3. \A p \in DOMAIN t.dirs : p \in Seq(Names) /\ Len(p) <= Depth
  BY DEF Placed
<1> QED BY <1>1, <1>2, <1>3 DEF Placed

Extended(more, list, e) ==
  /\ Len(list) + 1 \in DOMAIN more /\ more[Len(list) + 1] = e
  /\ \A i \in DOMAIN list : i \in DOMAIN more /\ more[i] = list[i]

LEMMA EntryAdded ==
  ASSUME NEW t, TreeInv(t), NEW dir \in DOMAIN t.dirs, NEW e
  PROVE  Extended(Append(t.entries[dir], e), t.entries[dir], e)
<1> DEFINE list == t.entries[dir]
           S == EntryType(t) \cup {e}
<1>1. list \in Seq(EntryType(t)) /\ EntryType(t) \subseteq S /\ e \in S
  BY DEF TreeInv
<1> HIDE DEF list, S
<1>2. list \in Seq(S)
  BY <1>1, SeqOfMore
<1>3. /\ Append(list, e) \in Seq(S) /\ Len(Append(list, e)) = Len(list) + 1
      /\ Append(list, e)[Len(list) + 1] = e
      /\ \A i \in 1 .. Len(list) : Append(list, e)[i] = list[i]
  BY <1>1, <1>2, AppendProperties
<1>4. Len(list) \in Nat /\ DOMAIN list = 1 .. Len(list) /\ DOMAIN Append(list, e) = 1 .. Len(list) + 1
  BY <1>2, <1>3, LenProperties
<1>5. /\ Len(list) + 1 \in DOMAIN Append(list, e)
      /\ \A i \in DOMAIN list : i \in DOMAIN Append(list, e) /\ Append(list, e)[i] = list[i]
  BY <1>3, <1>4
<1> QED BY <1>3, <1>5 DEF list, Extended

(* Only entries are added.                                                 *)
LEMMA PlacedByEntry ==
  ASSUME NEW t, TreeInv(t), Placed(t), NEW dir \in DOMAIN t.dirs, NEW e,
         NEW s, s.dirs = t.dirs, s.entries = [t.entries EXCEPT ![dir] = Append(@, e)]
  PROVE  Placed(s)
<1>1. DOMAIN t.entries = DOMAIN t.dirs
  BY DEF TreeInv
<1>2. Widened(t, s)
  <2>1. Extended(Append(t.entries[dir], e), t.entries[dir], e)
    BY EntryAdded
  <2> QED BY <1>1, <2>1 DEF Widened, Extended
<1> QED BY <1>2, PlacedOn

LEMMA PlacedByDir ==
  ASSUME NEW t, TreeInv(t), Placed(t), NEW path \in Seq(Names), path # <<>>, Len(path) <= Depth,
         path \notin DOMAIN t.dirs, Front(path) \in DOMAIN t.dirs
  PROVE  Placed(MakeDir(t, path))
<1> DEFINE n   == t.next_ino
           up  == Front(path)
           top == t.dirs[up]
           e   == Entry(n, Last(path))
           a   == WithInode(t, Inode("dir", 2))
           d   == WithEntry(a, up, n, Last(path))
           two == <<Entry(n, "."), Entry(top, "..")>>
           c   == [d EXCEPT !.dirs = Set(@, path, n), !.entries = Set(@, path, two)]
           s   == WithLink(c, top)
           k   == Len(t.entries[up]) + 1
<1>0. MakeDir(t, path) = s
  BY DEF MakeDir
<1>1. DOMAIN t = {"inodes", "dirs", "entries", "next_ino"} /\ DOMAIN t.entries = DOMAIN t.dirs
  BY DEF TreeInv
<1>2. a.dirs = t.dirs /\ a.entries = t.entries /\ DOMAIN a = DOMAIN t
  BY <1>1 DEF WithInode
<1> HIDE DEF a
<1>3. /\ d.dirs = a.dirs /\ d.entries = [a.entries EXCEPT ![up] = Append(@, e)]
      /\ DOMAIN d = DOMAIN a
  BY <1>1, <1>2 DEF WithEntry
<1> HIDE DEF d, two, e
<1>4. /\ c.dirs = Set(d.dirs, path, n) /\ c.entries = Set(d.entries, path, two)
      /\ DOMAIN c = DOMAIN d
  BY <1>1, <1>2, <1>3
<1> HIDE DEF c
<1>5. s.dirs = c.dirs /\ s.entries = c.entries
  BY <1>1, <1>2, <1>3, <1>4 DEF WithLink
<1> HIDE DEF s, n, top
<1>6. /\ DOMAIN s.dirs = DOMAIN t.dirs \cup {path} /\ s.dirs[path] = n
      /\ \A p \in DOMAIN t.dirs : s.dirs[p] = t.dirs[p]
  BY <1>2, <1>3, <1>4, <1>5 DEF Set
<1>7. \A p \in DOMAIN t.dirs : s.entries[p] = IF p = up THEN Append(t.entries[up], e) ELSE t.entries[p]
  BY <1>1, <1>2, <1>3, <1>4, <1>5 DEF Set
<1> HIDE DEF up
<1>8. up \in DOMAIN t.dirs
  BY DEF up
<1> DEFINE list == t.entries[up]
           more == Append(list, e)
<1>9. /\ k \in DOMAIN more /\ more[k] = e
       /\ \A i \in DOMAIN list : i \in DOMAIN more /\ more[i] = list[i]
  <2>1. Extended(more, list, e)
    BY <1>8, EntryAdded, Zenon
  <2> QED BY <2>1, Zenon DEF Extended
<1>10. s.entries[up] = more /\ list = t.entries[up]
  BY <1>7, <1>8
<1> HIDE DEF more, list, k
<1>11. Widened(t, s)
  BY <1>6, <1>7, <1>8, <1>9, <1>10 DEF Widened
<1>12. Named(s, path, s.dirs[path])
  <2>1. k \in DOMAIN s.entries[up] /\ s.entries[up][k] = e
    BY <1>9, <1>10
  <2> QED BY <1>6, <1>8, <2>1 DEF Named, e, up
<1>13. Placed(s)
  BY <1>6, <1>11, <1>12, PlacedOn
<1> QED BY <1>0, <1>13

-----------------------------------------------------------------------------
(* The loop up the path is defined: it has a result for every path.        *)
LEMMA MadeDirs ==
  ASSUME NEW t, NEW path, Len(path) \in Nat
  PROVE  \E made :
           /\ made = [k \in 0 .. Len(path) |->
                        IF k = 0 THEN t ELSE WithDir(made[k - 1], SubSeq(path, 1, k))]
           /\ getdir(t, path) = made[Len(path)]
<1> DEFINE n == Len(path)
           Step(f, k) == IF k = 0 THEN t ELSE WithDir(f[k - 1], SubSeq(path, 1, k))
           P == {m \in 0 .. n : \E f : f = [k \in 0 .. m |-> Step(f, k)]}
<1>1. 0 \in P
  <2> DEFINE f == [k \in 0 .. 0 |-> t]
  <2>1. f = [k \in 0 .. 0 |-> Step(f, k)]
    OBVIOUS
  <2> HIDE DEF f
  <2>2. \E h : h = [k \in 0 .. 0 |-> Step(h, k)]
    BY <2>1, Zenon
  <2> QED BY <2>2
<1>2. ASSUME NEW m \in 0 .. n - 1, m \in P
      PROVE  m + 1 \in P
  <2>1. PICK f : f = [k \in 0 .. m |-> Step(f, k)]
    BY <1>2
  <2> DEFINE g == [k \in 0 .. m + 1 |->
                     IF k = m + 1 THEN WithDir(f[m], SubSeq(path, 1, m + 1)) ELSE f[k]]
  <2>2. ASSUME NEW k \in 0 .. m + 1 PROVE g[k] = Step(g, k)
    <3>1. CASE k = m + 1
      BY <3>1
    <3>2. CASE k \in 0 .. m
      <4>1. g[k] = f[k] /\ f[k] = Step(f, k)
        BY <3>2, <2>1
      <4>2. k # 0 => g[k - 1] = f[k - 1]
        BY <3>2
      <4> QED BY <4>1, <4>2
    <3> QED BY <3>1, <3>2
  <2>3. g = [k \in 0 .. m + 1 |-> Step(g, k)]
    BY <2>2
  <2> HIDE DEF g
  <2>4. \E h : h = [k \in 0 .. m + 1 |-> Step(h, k)]
    BY <2>3, Zenon
  <2>5. m + 1 \in 0 .. n
    OBVIOUS
  <2> QED BY <2>4, <2>5
<1>3. n \in P
  <2> HIDE DEF P, n
  <2>1. 0 .. n \subseteq P
    BY <1>1, <1>2, UpTo DEF n
  <2> QED BY <2>1 DEF n
<1> DEFINE made == CHOOSE f : f = [k \in 0 .. n |-> Step(f, k)]
<1>4. made = [k \in 0 .. n |-> Step(made, k)]
  BY <1>3
<1>5. getdir(t, path) = made[n]
  BY DEF getdir
<1> HIDE DEF made
<1> QED BY <1>4, <1>5

LEMMA GetDir ==
  ASSUME NEW t, TreeInv(t), Counted(t), NEW path \in Seq(Names)
  PROVE  LET s == getdir(t, path) IN
         /\ TreeInv(s) /\ Counted(s) /\ t.next_ino <= s.next_ino
         /\ path \in DOMAIN s.dirs
         /\ \A b : InBlocks(t, b) => InBlocks(s, b)
         /\ Grown(t, s, {"dir"})
         /\ Placed(t) /\ Len(path) <= Depth => Placed(s)
<1> DEFINE n == Len(path)
           Good(s, p) == /\ TreeInv(s) /\ Counted(s) /\ t.next_ino <= s.next_ino
                         /\ p \in DOMAIN s.dirs
                         /\ \A b : InBlocks(t, b) => InBlocks(s, b)
                         /\ Grown(t, s, {"dir"})
                         /\ Placed(t) /\ n <= Depth => Placed(s)
<1>0. n \in Nat
  BY LenProperties
<1>1. PICK made : /\ made = [k \in 0 .. n |->
                               IF k = 0 THEN t ELSE WithDir(made[k - 1], SubSeq(path, 1, k))]
                  /\ getdir(t, path) = made[n]
  BY <1>0, MadeDirs
<1> DEFINE P == {k \in 0 .. n : Good(made[k], SubSeq(path, 1, k))}
<1>2. 0 \in P
  <2>1. made[0] = t /\ SubSeq(path, 1, 0) = <<>>
    BY <1>0, <1>1, SubSeqProperties, EmptySeq
  <2>2. t.next_ino <= t.next_ino
    BY DEF TreeInv
  <2>3. Good(t, <<>>)
    BY <2>2, GrownNot DEF TreeInv
  <2>4. Good(made[0], SubSeq(path, 1, 0))
    BY <2>1, <2>3
  <2> HIDE DEF Good
  <2> QED BY <1>0, <2>4
<1>3. ASSUME NEW k \in 0 .. n - 1, k \in P PROVE k + 1 \in P
  <2> DEFINE s == made[k]
             p == SubSeq(path, 1, k)
             q == SubSeq(path, 1, k + 1)
  <2>1. Good(s, p) /\ made[k + 1] = WithDir(s, q)
    BY <1>0, <1>1, <1>3
  <2>2. q \in Seq(Names) /\ q # <<>> /\ Front(q) = p /\ Len(q) <= n
    <3>1. /\ q \in Seq(Names) /\ Len(q) = k + 1 /\ p \in Seq(Names) /\ Len(p) = k
          /\ \A i \in 1 .. k + 1 : q[i] = path[i]
          /\ \A i \in 1 .. k : p[i] = path[i]
      BY <1>0, SubSeqProperties
    <3> HIDE DEF p, q
    <3>2. Front(q) \in Seq(Names) /\ Len(Front(q)) = k /\ \A i \in 1 .. k : Front(q)[i] = q[i]
      BY <1>0, <3>1, SubSeqProperties DEF Front
    <3>3. Front(q) = p
      BY <3>1, <3>2, SeqEqual
    <3>4. q # <<>>
      BY <3>1, EmptySeq
    <3> QED BY <1>0, <3>1, <3>3, <3>4
  <2> HIDE DEF s, p, q
  <2>3. Good(made[k + 1], q)
    <3>1. CASE q \in DOMAIN s.dirs
      BY <2>1, <3>1 DEF WithDir
    <3>2. CASE q \notin DOMAIN s.dirs
      <4>1. /\ TreeInv(MakeDir(s, q)) /\ Counted(MakeDir(s, q))
            /\ MakeDir(s, q).next_ino = s.next_ino + 1
            /\ q \in DOMAIN MakeDir(s, q).dirs
            /\ \A b : InBlocks(s, b) => InBlocks(MakeDir(s, q), b)
        BY <2>1, <2>2, <3>2, NewDir
      <4>2. t.next_ino <= s.next_ino + 1
        BY <2>1 DEF TreeInv
      <4>3. made[k + 1] = MakeDir(s, q)
        BY <2>1, <3>2 DEF WithDir
      <4>4. Grown(s, MakeDir(s, q), {"dir"})
        BY <2>1, <2>2, <3>2, GrownByDir
      <4>5. Grown(t, MakeDir(s, q), {"dir"})
        BY <2>1, <4>4, GrownOn
      <4>6. ASSUME Placed(t), n <= Depth PROVE Placed(MakeDir(s, q))
        <5>1. Len(q) <= Depth
          <6> HIDE DEF n
          <6> QED BY <1>0, <2>2, <4>6, LenProperties, MkfsAssumption
        <5> QED BY <2>1, <2>2, <3>2, <4>6, <5>1, PlacedByDir
      <4> QED BY <2>1, <4>1, <4>2, <4>3, <4>5, <4>6
    <3> QED BY <3>1, <3>2
  <2> QED BY <1>0, <2>3 DEF q
<1>4. n \in P
  <2> HIDE DEF P, n
  <2>1. 0 .. n \subseteq P
    BY <1>0, <1>2, <1>3, UpTo
  <2> QED BY <1>0, <2>1
<1>5. SubSeq(path, 1, n) = path
  <2>1. /\ SubSeq(path, 1, n) \in Seq(Names) /\ Len(SubSeq(path, 1, n)) = n
        /\ \A i \in 1 .. n : SubSeq(path, 1, n)[i] = path[i]
    BY <1>0, SubSeqProperties
  <2> QED BY <2>1, SeqEqual
<1> QED BY <1>1, <1>4, <1>5

-----------------------------------------------------------------------------
(* A thing with one name, and a further name for one that is there.        *)
LEMMA NewNamed ==
  ASSUME NEW t, TreeInv(t), Counted(t), NEW dir \in DOMAIN t.dirs, NEW name \in Names,
         NEW ino \in InodeType, ino.nlink = 1,
         ino.kind # "node" => \A i \in 1 .. NADDR : ino.addr[i] = 0
  PROVE  LET s == WithEntry(WithInode(t, ino), dir, t.next_ino, name) IN
         /\ TreeInv(s) /\ Counted(s) /\ s.next_ino = t.next_ino + 1
         /\ s.inodes[t.next_ino] = ino
         /\ \A b : InBlocks(t, b) => InBlocks(s, b)
<1> DEFINE n == t.next_ino
           a == WithInode(t, ino)
           s == WithEntry(a, dir, n, name)
           k == Len(a.entries[dir]) + 1
<1>1. /\ TreeInv(a) /\ a.next_ino = n + 1 /\ a.dirs = t.dirs /\ a.entries = t.entries
      /\ n \in Nums(a) /\ a.inodes[n] = ino
      /\ Nums(a) = Nums(t) \cup {n} /\ n \notin Nums(t)
      /\ \A m \in Nums(t) : a.inodes[m] = t.inodes[m]
  BY NewInode
<1> HIDE DEF a
<1>2. /\ TreeInv(s) /\ s.next_ino = a.next_ino /\ Nums(s) = Nums(a) /\ s.inodes = a.inodes
      /\ Mentions(s, n) = Mentions(a, n) \cup {<<dir, k>>} /\ <<dir, k>> \notin Mentions(a, n)
      /\ \A m : m # n => Mentions(s, m) = Mentions(a, m)
  <2>1. dir \in DOMAIN a.dirs /\ n \in Nums(a)
    BY <1>1
  <2> HIDE DEF n
  <2> QED BY <1>1, <2>1, NewEntry
<1> HIDE DEF s, k, n
<1>3. \A m : Mentions(a, m) = Mentions(t, m)
  BY <1>1, SameEntries
<1>4. Counted(s)
  <2> SUFFICES ASSUME NEW m \in Nums(s)
               PROVE  /\ IsFiniteSet(Mentions(s, m))
                      /\ s.inodes[m].nlink = Cardinality(Mentions(s, m))
    BY DEF Counted
  <2>1. CASE m = n
    <3>1. Mentions(s, n) = {<<dir, k>>}
      <4>1. Mentions(t, n) = {}
        BY <1>1, NobodyMentions
      <4> QED BY <4>1, <1>2, <1>3
    <3>2. IsFiniteSet({<<dir, k>>}) /\ Cardinality({<<dir, k>>}) = 1
      BY FS_Singleton
    <3> QED BY <2>1, <3>1, <3>2, <1>1, <1>2
  <2>2. CASE m # n
    <3>1. m \in Nums(t) /\ Mentions(s, m) = Mentions(t, m) /\ s.inodes[m] = t.inodes[m]
      BY <2>2, <1>1, <1>2, <1>3
    <3> QED BY <3>1 DEF Counted
  <2> QED BY <2>1, <2>2
<1>5. ASSUME NEW b, InBlocks(t, b) PROVE InBlocks(s, b)
  <2> SUFFICES ASSUME NEW m \in Nums(s), s.inodes[m].kind # "node", NEW i \in 1 .. NADDR
               PROVE  s.inodes[m].addr[i] \in {0} \cup first_data .. b - 1
    BY DEF InBlocks
  <2>1. CASE m = n
    BY <2>1, <1>1, <1>2
  <2>2. CASE m # n
    <3>1. m \in Nums(t) /\ s.inodes[m] = t.inodes[m]
      BY <2>2, <1>1, <1>2
    <3> QED BY <3>1, <1>5 DEF InBlocks
  <2> QED BY <2>1, <2>2
<1>6. s.next_ino = n + 1 /\ s.inodes[n] = ino
  BY <1>1, <1>2
<1> QED BY <1>2, <1>4, <1>5, <1>6, Zenon DEF s, a, n

LEMMA NewName ==
  ASSUME NEW t, TreeInv(t), Counted(t), NEW dir \in DOMAIN t.dirs, NEW name \in Names,
         NEW n \in Nums(t)
  PROVE  LET s == WithLink(WithEntry(t, dir, n, name), n) IN
         /\ TreeInv(s) /\ Counted(s) /\ s.next_ino = t.next_ino
         /\ \A b : InBlocks(t, b) => InBlocks(s, b)
<1> DEFINE d == WithEntry(t, dir, n, name)
           s == WithLink(d, n)
           k == Len(t.entries[dir]) + 1
<1>1. /\ TreeInv(d) /\ d.next_ino = t.next_ino /\ Nums(d) = Nums(t) /\ d.inodes = t.inodes
      /\ Mentions(d, n) = Mentions(t, n) \cup {<<dir, k>>} /\ <<dir, k>> \notin Mentions(t, n)
      /\ \A m : m # n => Mentions(d, m) = Mentions(t, m)
  BY NewEntry
<1> HIDE DEF d
<1>2. /\ TreeInv(s) /\ s.next_ino = d.next_ino /\ Nums(s) = Nums(d)
      /\ s.entries = d.entries
      /\ s.inodes[n].nlink = d.inodes[n].nlink + 1
      /\ \A m \in Nums(d) : m # n => s.inodes[m] = d.inodes[m]
      /\ s.inodes[n].kind = d.inodes[n].kind /\ s.inodes[n].addr = d.inodes[n].addr
  BY <1>1, NewLink
<1> HIDE DEF s, k
<1>3. \A m : Mentions(s, m) = Mentions(d, m)
  BY <1>2, SameEntries
<1>4. Counted(s)
  <2> SUFFICES ASSUME NEW m \in Nums(s)
               PROVE  /\ IsFiniteSet(Mentions(s, m))
                      /\ s.inodes[m].nlink = Cardinality(Mentions(s, m))
    BY DEF Counted
  <2>1. CASE m = n
    <3>1. IsFiniteSet(Mentions(t, n)) /\ t.inodes[n].nlink = Cardinality(Mentions(t, n))
      BY DEF Counted
    <3>2. /\ IsFiniteSet(Mentions(s, n))
          /\ Cardinality(Mentions(s, n)) = Cardinality(Mentions(t, n)) + 1
      <4> DEFINE old == Mentions(t, n)
                 new == <<dir, k>>
      <4>1. IsFiniteSet(old) /\ new \notin old /\ Mentions(s, n) = old \cup {new}
        BY <3>1, <1>1, <1>3
      <4> HIDE DEF old, new
      <4>2. IsFiniteSet(Mentions(s, n)) /\ Cardinality(Mentions(s, n)) = Cardinality(old) + 1
        BY <4>1, FS_AddElement
      <4> QED BY <4>2 DEF old
    <3> QED BY <2>1, <3>1, <3>2, <1>1, <1>2
  <2>2. CASE m # n
    <3>1. m \in Nums(t) /\ Mentions(s, m) = Mentions(t, m) /\ s.inodes[m] = t.inodes[m]
      BY <2>2, <1>1, <1>2, <1>3
    <3> QED BY <3>1 DEF Counted
  <2> QED BY <2>1, <2>2
<1>5. ASSUME NEW b, InBlocks(t, b) PROVE InBlocks(s, b)
  <2> SUFFICES ASSUME NEW m \in Nums(s), s.inodes[m].kind # "node", NEW i \in 1 .. NADDR
               PROVE  s.inodes[m].addr[i] \in {0} \cup first_data .. b - 1
    BY DEF InBlocks
  <2>1. /\ m \in Nums(t) /\ s.inodes[m].kind = t.inodes[m].kind
        /\ s.inodes[m].addr = t.inodes[m].addr
    BY <1>1, <1>2
  <2> QED BY <2>1, <1>5 DEF InBlocks
<1> QED BY <1>1, <1>2, <1>4, <1>5 DEF s, d

-----------------------------------------------------------------------------
(* The data of a file.                                                     *)
LEMMA Sizes ==
  /\ BSIZE \in Nat /\ BSIZE > 0 /\ NDIRECT \in Nat /\ NDIRECT > 0 /\ NADDR = NDIRECT + 3
  /\ NINDIR = BSIZE
  /\ NBlocks \in Nat /\ first_data \in Nat /\ first_data < NBlocks /\ first_data > 0
  /\ ninodes \in Nat /\ ROOTINO < ninodes
  /\ NICFREE \in Nat /\ NICFREE > 0 /\ NICINOD \in Nat /\ NICINOD > 0
<1>1. iblocks \in Nat
  <2>1. NInodes + INOPB - 1 \in Nat /\ INOPB \in Nat /\ INOPB > 0
    BY MkfsAssumption
  <2>2. (NInodes + INOPB - 1) \div INOPB \in Nat
    BY <2>1
  <2> QED BY <2>2 DEF iblocks
<1>2. ninodes \in Nat
  <2>1. INOPB \in Nat
    BY MkfsAssumption
  <2> QED BY <1>1, <2>1 DEF ninodes
<1>3. first_data \in Nat /\ first_data > 0
  BY <1>1 DEF first_data
<1> QED BY <1>2, <1>3, MkfsAssumption DEF NADDR, NINDIR

LEMMA Taken ==
  ASSUME NEW text, Len(text) \in Nat
  PROVE  LET n == DataBlocks(text) IN
         /\ n \in Nat /\ Inner(n) \in Nat /\ BlocksTaken(n) \in Nat
         /\ n <= BlocksTaken(n)
         /\ InSingle(n) > 0 => n + 1 <= BlocksTaken(n)
         /\ InDouble(n) > 0 => n + Inner(n) + 2 <= BlocksTaken(n)
<1> DEFINE n == DataBlocks(text)
<1>1. n \in Nat
  <2>1. Len(text) + BSIZE - 1 \in Nat
    BY Sizes
  <2>2. (Len(text) + BSIZE - 1) \div BSIZE \in Nat
    BY <2>1, Sizes
  <2> QED BY <2>2 DEF DataBlocks
<1> HIDE DEF n
<1>2. InSingle(n) \in Nat /\ InDouble(n) \in Nat
  BY <1>1, Sizes DEF InSingle, InDouble, Beyond
<1>3. Inner(n) \in Nat
  <2>1. InDouble(n) + NINDIR - 1 \in Nat
    BY <1>2, Sizes
  <2>2. (InDouble(n) + NINDIR - 1) \div NINDIR \in Nat
    BY <2>1, Sizes
  <2> QED BY <2>2 DEF Inner
<1>4. InDouble(n) > 0 => InSingle(n) > 0
  BY <1>1, Sizes DEF InSingle, InDouble, Beyond
<1>5. /\ BlocksTaken(n) \in Nat /\ n <= BlocksTaken(n)
      /\ InSingle(n) > 0 => n + 1 <= BlocksTaken(n)
      /\ InDouble(n) > 0 => n + Inner(n) + 2 <= BlocksTaken(n)
  BY <1>1, <1>2, <1>3, <1>4 DEF BlocksTaken
<1> QED BY <1>1, <1>3, <1>5 DEF n

OnlyMoved(old, new, b, after) ==
  /\ new \in InodeType /\ new.kind = old.kind /\ new.nlink = old.nlink
  /\ \A i \in 1 .. NADDR : new.addr[i] \in {0} \cup b .. after - 1

LEMMA DataInode ==
  ASSUME NEW ino \in InodeType, NEW text, Len(text) \in Nat, NEW b \in Nat
  PROVE  OnlyMoved(ino, WithData(ino, text, b), b, b + BlocksTaken(DataBlocks(text)))
<1> DEFINE n == DataBlocks(text)
           new == WithData(ino, text, b)
           last == b + BlocksTaken(n) - 1
           addr == [i \in 1 .. NADDR |->
                      CASE i <= NDIRECT -> IF i <= n THEN b + i - 1 ELSE 0
                        [] i = NDIRECT + 1 -> IF InSingle(n) > 0 THEN b + n ELSE 0
                        [] i = NDIRECT + 2 -> IF InDouble(n) > 0 THEN b + n + 1 + Inner(n) ELSE 0
                        [] OTHER -> 0]
<1>1. new = [ino EXCEPT !.size = Len(text), !.addr = addr]
  BY DEF WithData
<1>2. /\ n \in Nat /\ Inner(n) \in Nat /\ BlocksTaken(n) \in Nat
      /\ n <= BlocksTaken(n)
      /\ InSingle(n) > 0 => n + 1 <= BlocksTaken(n)
      /\ InDouble(n) > 0 => n + Inner(n) + 2 <= BlocksTaken(n)
  BY Taken
<1> HIDE DEF n, new
<1> DEFINE k == Inner(n)
           m == BlocksTaken(n)
           one == InSingle(n) > 0
           two == InDouble(n) > 0
<1>3. ASSUME NEW i \in 1 .. NADDR PROVE addr[i] \in {0} \cup b .. last
  <2>0. /\ i \in Nat /\ 1 <= i /\ NDIRECT \in Nat /\ n \in Nat /\ k \in Nat /\ m \in Nat
        /\ n <= m /\ (one => n + 1 <= m) /\ (two => n + k + 2 <= m)
    BY <1>2, Sizes
  <2> HIDE DEF k, m, one, two
  <2>1. addr[i] = CASE i <= NDIRECT -> IF i <= n THEN b + i - 1 ELSE 0
                    [] i = NDIRECT + 1 -> IF one THEN b + n ELSE 0
                    [] i = NDIRECT + 2 -> IF two THEN b + n + 1 + k ELSE 0
                    [] OTHER -> 0
    BY DEF one, two, k
  <2> HIDE DEF addr
  <2>2. \/ addr[i] = 0
        \/ i <= n /\ addr[i] = b + i - 1
        \/ one /\ addr[i] = b + n
        \/ two /\ addr[i] = b + n + 1 + k
    BY <2>0, <2>1
  <2>3. addr[i] = 0 \/ (addr[i] \in Nat /\ b <= addr[i] /\ addr[i] <= b + m - 1)
    BY <2>0, <2>2
  <2> QED BY <2>0, <2>3 DEF m
<1>4. addr \in [1 .. NADDR -> Nat]
  <2>1. addr = [i \in 1 .. NADDR |-> addr[i]]
    OBVIOUS
  <2>2. last \in Int
    BY <1>2
  <2> HIDE DEF addr, last
  <2>3. \A i \in 1 .. NADDR : addr[i] \in Nat
    BY <1>3, <2>2
  <2> QED BY <2>1, <2>3
<1> HIDE DEF addr
<1>5. new \in InodeType /\ new.kind = ino.kind /\ new.nlink = ino.nlink /\ new.addr = addr
  BY <1>1, <1>4 DEF InodeType
<1>6. OnlyMoved(ino, new, b, b + BlocksTaken(n))
  <2> HIDE DEF m, k, one, two
  <2> DEFINE after == b + BlocksTaken(n)
  <2>1. \A i \in 1 .. NADDR : new.addr[i] \in {0} \cup b .. after - 1
    <3>1. after - 1 = last
      BY <1>2
    <3> HIDE DEF after, last
    <3> QED BY <3>1, <1>3, <1>5
  <2> HIDE DEF after
  <2>2. OnlyMoved(ino, new, b, after)
    BY <2>1, <1>5, Zenon DEF OnlyMoved
  <2> QED BY <2>2 DEF after
<1> QED BY <1>6 DEF new, n

(* The tree, once the data of one of its inodes has been stored from       *)
(* block b on.                                                             *)
LEMMA DataStored ==
  ASSUME NEW t, TreeInv(t), Counted(t), NEW n \in Nums(t),
         NEW text, Len(text) \in Nat, NEW b \in Nat, first_data <= b, InBlocks(t, b)
  PROVE  LET s == [t EXCEPT !.inodes[n] = WithData(@, text, b)] IN
         /\ TreeInv(s) /\ Counted(s) /\ s.next_ino = t.next_ino /\ Nums(s) = Nums(t)
         /\ InBlocks(s, b + BlocksTaken(DataBlocks(text)))
<1> DEFINE s == [t EXCEPT !.inodes[n] = WithData(@, text, b)]
           new == WithData(t.inodes[n], text, b)
           after == b + BlocksTaken(DataBlocks(text))
<1>1. /\ s.next_ino = t.next_ino /\ s.dirs = t.dirs /\ s.entries = t.entries
      /\ s.inodes = [t.inodes EXCEPT ![n] = new] /\ DOMAIN s = DOMAIN t
  BY DEF TreeInv
<1>2. Nums(s) = Nums(t) /\ EntryType(s) = EntryType(t)
  BY <1>1 DEF Nums, EntryType
<1>3. /\ new \in InodeType /\ new.kind = t.inodes[n].kind /\ new.nlink = t.inodes[n].nlink
      /\ \A i \in 1 .. NADDR : new.addr[i] \in {0} \cup b .. after - 1
  <2>1. t.inodes[n] \in InodeType
    BY DEF TreeInv
  <2>2. OnlyMoved(t.inodes[n], new, b, after)
    BY <2>1, DataInode, Zenon
  <2> HIDE DEF new, after
  <2> QED BY <2>2 DEF OnlyMoved
<1> HIDE DEF new, s
<1>4. /\ s.inodes \in [Nums(s) -> InodeType] /\ s.inodes[n] = new
      /\ \A m \in Nums(t) : m # n => s.inodes[m] = t.inodes[m]
  BY <1>1, <1>2, <1>3 DEF TreeInv
<1>5. TreeInv(s)
  BY <1>1, <1>2, <1>4 DEF TreeInv
<1>6. Counted(s)
  <2>1. \A m : Mentions(s, m) = Mentions(t, m)
    BY <1>1, SameEntries
  <2>2. \A m \in Nums(t) : s.inodes[m].nlink = t.inodes[m].nlink
    BY <1>3, <1>4
  <2> QED BY <1>2, <2>1, <2>2 DEF Counted
<1>7. b <= after /\ after \in Nat
  <2>1. BlocksTaken(DataBlocks(text)) \in Nat
    BY Taken
  <2> QED BY <2>1
<1> HIDE DEF after
<1>8. ASSUME NEW m \in Nums(s), s.inodes[m].kind # "node", NEW i \in 1 .. NADDR
      PROVE  s.inodes[m].addr[i] \in {0} \cup first_data .. after - 1
  <2>1. CASE m = n
    <3>1. new.addr[i] \in {0} \cup b .. after - 1
      BY <1>3
    <3>2. s.inodes[m].addr[i] = new.addr[i]
      BY <2>1, <1>4
    <3> DEFINE a == new.addr[i]
    <3>3. a \in {0} \cup b .. after - 1 => a \in {0} \cup first_data .. after - 1
      <4> HIDE DEF a
      <4> QED BY <1>7, Sizes
    <3> QED BY <3>1, <3>2, <3>3
  <2>2. CASE m # n
    <3>1. t.inodes[m].addr[i] \in {0} \cup first_data .. b - 1 /\ s.inodes[m] = t.inodes[m]
      BY <2>2, <1>2, <1>4, <1>8 DEF InBlocks
    <3> QED BY <3>1, <1>7, Sizes
  <2> QED BY <2>1, <2>2
<1>9. InBlocks(s, after)
  BY <1>8 DEF InBlocks
<1> QED BY <1>1, <1>2, <1>5, <1>6, <1>9 DEF s, after

-----------------------------------------------------------------------------
(* The blocks of the image stay where they are and as long as they are.    *)
ImageInv(img) ==
  /\ DOMAIN img = first_data .. NBlocks - 1
  /\ \A b \in DOMAIN img : DOMAIN img[b] = 1 .. BSIZE

LEMMA BlocksStored ==
  ASSUME NEW img, ImageInv(img), NEW text, NEW b
  PROVE  ImageInv(Stored(img, text, b))
<1>1. \A block, buf : DOMAIN put(block, buf) = 1 .. BSIZE
  BY DEF put
<1> DEFINE taken == b .. b + BlocksTaken(DataBlocks(text)) - 1
<1>2. Stored(img, text, b) =
        [x \in DOMAIN img |-> IF x \in taken THEN put(img[x], BufferFor(text, b, x)) ELSE img[x]]
  BY DEF Stored
<1> HIDE DEF taken
<1> QED BY <1>1, <1>2 DEF ImageInv

(* The list of blocks being freed, the terminator first, is freed one      *)
(* after the other.                                                        *)
ToFree(last, first) == <<0>> \o Down(last, first)

LEMMA FreedInOrder ==
  ASSUME NEW last, NEW first, Len(ToFree(last, first)) \in Nat
  PROVE  LET blocks == ToFree(last, first) IN
         \E freed :
           /\ freed = [k \in 0 .. Len(blocks) |->
                         IF k = 0 THEN [img |-> image, list |-> NoFree]
                         ELSE bfree(freed[k - 1], blocks[k])]
           /\ FreeList(last, first) = freed[Len(blocks)]
<1> DEFINE blocks == ToFree(last, first)
           n == Len(blocks)
           start == [img |-> image, list |-> NoFree]
           Step(f, k) == IF k = 0 THEN start ELSE bfree(f[k - 1], blocks[k])
           P == {m \in 0 .. n : \E f : f = [k \in 0 .. m |-> Step(f, k)]}
<1>0. n \in Nat
  OBVIOUS
<1> HIDE DEF blocks, n, start
<1>1. 0 \in P
  <2> DEFINE f == [k \in 0 .. 0 |-> start]
  <2>1. f = [k \in 0 .. 0 |-> Step(f, k)]
    OBVIOUS
  <2> HIDE DEF f
  <2>2. \E h : h = [k \in 0 .. 0 |-> Step(h, k)]
    BY <2>1, Zenon
  <2> QED BY <2>2, <1>0
<1>2. ASSUME NEW m \in 0 .. n - 1, m \in P
      PROVE  m + 1 \in P
  <2>1. PICK f : f = [k \in 0 .. m |-> Step(f, k)]
    BY <1>2
  <2> DEFINE g == [k \in 0 .. m + 1 |-> IF k = m + 1 THEN bfree(f[m], blocks[m + 1]) ELSE f[k]]
  <2>2. ASSUME NEW k \in 0 .. m + 1 PROVE g[k] = Step(g, k)
    <3>1. CASE k = m + 1
      BY <3>1
    <3>2. CASE k \in 0 .. m
      <4>1. g[k] = f[k] /\ f[k] = Step(f, k)
        BY <3>2, <2>1
      <4>2. k # 0 => g[k - 1] = f[k - 1]
        BY <3>2
      <4> QED BY <4>1, <4>2
    <3> QED BY <3>1, <3>2
  <2>3. g = [k \in 0 .. m + 1 |-> Step(g, k)]
    BY <2>2
  <2> HIDE DEF g
  <2>4. \E h : h = [k \in 0 .. m + 1 |-> Step(h, k)]
    BY <2>3, Zenon
  <2>5. m + 1 \in 0 .. n
    BY <1>0
  <2> QED BY <2>4, <2>5
<1>3. n \in P
  <2> HIDE DEF P
  <2>1. 0 .. n \subseteq P
    BY <1>0, <1>1, <1>2, UpTo
  <2> QED BY <1>0, <2>1
<1> DEFINE freed == CHOOSE f : f = [k \in 0 .. n |-> Step(f, k)]
<1>4. freed = [k \in 0 .. n |-> Step(freed, k)]
  BY <1>3
<1>5. FreeList(last, first) = freed[n]
  BY DEF FreeList, ToFree, n, blocks, start
<1> HIDE DEF freed
<1> QED BY <1>4, <1>5 DEF n, blocks, start

LEMMA Freed ==
  ASSUME ImageInv(image), NEW last \in Nat, NEW first \in Nat
  PROVE  ImageInv(FreeList(last, first).img)
<1> DEFINE blocks == ToFree(last, first)
           n == Len(blocks)
<1>1. n \in Nat
  <2>1. Down(last, first) \in Seq(Int)
    <3>1. Beyond(last + 1, first) \in Nat
      BY DEF Beyond
    <3>2. Down(last, first) \in [1 .. Beyond(last + 1, first) -> Int]
      BY <3>1 DEF Down
    <3> QED BY <3>1, <3>2, SeqDef
  <2>2. blocks \in Seq(Int)
    BY <2>1 DEF ToFree
  <2> HIDE DEF blocks
  <2> QED BY <2>2, LenProperties
<1>2. PICK freed : /\ freed = [k \in 0 .. n |->
                                 IF k = 0 THEN [img |-> image, list |-> NoFree]
                                 ELSE bfree(freed[k - 1], blocks[k])]
                   /\ FreeList(last, first) = freed[n]
  BY <1>1, FreedInOrder, Zenon
<1> DEFINE P == {k \in 0 .. n : ImageInv(freed[k].img)}
<1> HIDE DEF n, blocks
<1>3. 0 \in P
  BY <1>1, <1>2
<1>4. ASSUME NEW k \in 0 .. n - 1, k \in P PROVE k + 1 \in P
  <2> DEFINE s == freed[k]
             b == blocks[k + 1]
  <2>1. freed[k + 1] = bfree(s, b)
    BY <1>1, <1>2
  <2> HIDE DEF b
  <2>2. PICK block : /\ DOMAIN block = 1 .. BSIZE
                     /\ bfree(s, b).img = s.img \/ bfree(s, b).img = [s.img EXCEPT ![b] = block]
    <3> DEFINE block == put(ZeroBlock, Numbers(<<s.list.nfree>> \o s.list.free))
    <3>1. DOMAIN block = 1 .. BSIZE
      BY DEF put
    <3>2. bfree(s, b).img = s.img \/ bfree(s, b).img = [s.img EXCEPT ![b] = block]
      BY DEF bfree
    <3> HIDE DEF block
    <3> QED BY <3>1, <3>2
  <2>3. ImageInv(s.img)
    BY <1>4
  <2> HIDE DEF s
  <2>4. ImageInv(bfree(s, b).img)
    BY <2>2, <2>3 DEF ImageInv
  <2> QED BY <1>1, <2>1, <2>4 DEF s
<1>5. n \in P
  <2> HIDE DEF P
  <2>1. 0 .. n \subseteq P
    BY <1>1, <1>3, <1>4, UpTo
  <2> QED BY <1>1, <2>1
<1> QED BY <1>2, <1>5

-----------------------------------------------------------------------------
(***************************************************************************)
(* The inductive invariant: the tree is as above at every moment, its      *)
(* inodes and their blocks lie below what is handed out next, and the      *)
(* i-list and the superblock say what the tree and the allocators say.     *)
(***************************************************************************)
Sound(t, b) ==
  TreeInv(t) /\ Counted(t) /\ t.next_ino <= ninodes /\ InBlocks(t, b)

OnIlist(t) ==
  [n \in 1 .. ninodes |-> IF n \in DOMAIN t.inodes THEN pack_inode(t.inodes[n]) ELSE Blank]

MkInv ==
  /\ stage \in {"walk", "spec", "dirs", "free", "super", "done", "exit"}
  /\ next_block \in first_data .. NBlocks
  /\ Sound(tree, next_block)
  /\ ImageInv(image)
  /\ DOMAIN written \subseteq Nums(tree)
  /\ stage \in {"free", "super", "done"} => ilist = OnIlist(tree)
  /\ stage = "done" => super.inode = free_ino /\ super.tinode = ninodes + 1 - tree.next_ino

LEMMA PathTyped ==
  ASSUME NEW path \in Paths \ {<<>>}
  PROVE  path \in Seq(Names) /\ Front(path) \in Seq(Names) /\ Last(path) \in Names
<1>1. path \in Seq(Names)
  BY SeqDef DEF Paths
<1>2. Len(path) \in Nat /\ Len(path) > 0 /\ \A i \in 1 .. Len(path) : path[i] \in Names
  BY <1>1, EmptySeq, LenProperties, ElementOfSeq
<1>3. Front(path) \in Seq(Names)
  BY <1>2, SubSeqProperties DEF Front
<1>4. Last(path) \in Names
  BY <1>2 DEF Last
<1> QED BY <1>1, <1>3, <1>4

LEMMA MaxIn ==
  ASSUME NEW n \in Nat, NEW S, S \subseteq 1 .. n, S # {}
  PROVE  Max(S) \in S
<1>1. \E x \in S : \A y \in S : x >= y
  <2> SUFFICES ASSUME \A x \in S : \E y \in S : y > x PROVE FALSE
    OBVIOUS
  <2> DEFINE P == {k \in 0 .. n : \E x \in S : x > k}
  <2>1. 0 \in P
    <3>1. PICK x \in S : TRUE
      OBVIOUS
    <3>2. x \in Nat /\ x > 0
      BY <3>1
    <3> QED BY <3>1, <3>2
  <2>2. ASSUME NEW k \in 0 .. n - 1, k \in P PROVE k + 1 \in P
    <3>1. PICK x \in S : x > k
      BY <2>2
    <3>2. PICK y \in S : y > x
      OBVIOUS
    <3> QED BY <3>1, <3>2
  <2>3. n \in P
    <3> HIDE DEF P
    <3>1. 0 .. n \subseteq P
      BY <2>1, <2>2, UpTo
    <3> QED BY <3>1
  <2> QED BY <2>3
<1> QED BY <1>1 DEF Max

LEMMA MkStart == Init => MkInv
<1> SUFFICES ASSUME Init PROVE MkInv
  OBVIOUS
<1> DEFINE root == Inode("dir", 2)
           two  == <<Entry(ROOTINO, "."), Entry(ROOTINO, "..")>>
<1>1. /\ tree.next_ino = 3 /\ DOMAIN tree = {"inodes", "dirs", "entries", "next_ino"}
      /\ DOMAIN tree.inodes = {ROOTINO} /\ tree.inodes = [n \in {ROOTINO} |-> root]
      /\ DOMAIN tree.dirs = {<<>>} /\ tree.dirs[<<>>] = ROOTINO
      /\ DOMAIN tree.entries = {<<>>} /\ tree.entries[<<>>] = two
  BY DEF Init, ROOTINO
<1>2. Nums(tree) = {ROOTINO} /\ ROOTINO = 2
  BY <1>1 DEF Nums, ROOTINO
<1>3. /\ root \in InodeType /\ root.nlink = 2 /\ \A i \in 1 .. NADDR : root.addr[i] = 0
  <2>1. root \in InodeType
    BY DEF Inode, InodeType
  <2>2. root.nlink = 2 /\ \A i \in 1 .. NADDR : root.addr[i] = 0
    BY DEF Inode
  <2> QED BY <2>1, <2>2
<1>4. two \in Seq(EntryType(tree)) /\ DOMAIN two = {1, 2} /\ two[1].num = 2 /\ two[2].num = 2
  <2>1. Entry(ROOTINO, ".") \in EntryType(tree) /\ Entry(ROOTINO, "..") \in EntryType(tree)
    BY <1>2 DEF EntryType, Entry
  <2>2. Entry(ROOTINO, ".").num = 2 /\ Entry(ROOTINO, "..").num = 2
    BY <1>2 DEF Entry
  <2> QED BY <2>1, <2>2
<1> HIDE DEF root, two
<1>5. TreeInv(tree)
  <2>1. tree.inodes \in [Nums(tree) -> InodeType]
    BY <1>1, <1>2, <1>3
  <2> QED BY <2>1, <1>1, <1>2, <1>4 DEF TreeInv
<1>6. Counted(tree)
  <2> DEFINE one == {<<<<>>, 1>>}
             new == <<<<>>, 2>>
  <2>1. Mentions(tree, 2) = one \cup {new} /\ new \notin one
    <3>1. \A x : x \in Mentions(tree, 2) <=> \E i \in {1, 2} : x = <<<<>>, i>>
      BY <1>1, <1>4, MentionsThem
    <3> QED BY <3>1
  <2>2. IsFiniteSet(one) /\ Cardinality(one) = 1
    BY FS_Singleton
  <2> HIDE DEF one, new
  <2>3. IsFiniteSet(Mentions(tree, 2)) /\ Cardinality(Mentions(tree, 2)) = 2
    BY <2>1, <2>2, FS_AddElement
  <2>4. tree.inodes[2].nlink = 2
    BY <1>1, <1>2, <1>3
  <2> QED BY <1>2, <2>3, <2>4 DEF Counted
<1>7. InBlocks(tree, next_block)
  BY <1>1, <1>2, <1>3 DEF InBlocks
<1>8. tree.next_ino <= ninodes
  BY <1>1, <1>2, Sizes
<1>9. ImageInv(image)
  <2>1. DOMAIN ZeroBlock = 1 .. BSIZE
    BY DEF ZeroBlock
  <2> QED BY <2>1 DEF Init, ImageInv
<1>10. next_block \in first_data .. NBlocks
  BY Sizes DEF Init
<1>11. DOMAIN written \subseteq Nums(tree)
  BY DEF Init
<1>12. stage = "walk"
  BY DEF Init
<1> QED BY <1>5, <1>6, <1>7, <1>8, <1>9, <1>10, <1>11, <1>12 DEF MkInv, Sound

-----------------------------------------------------------------------------
(* The steps.                                                              *)
LEMMA MkExit == MkInv /\ Exit => MkInv'
<1> SUFFICES ASSUME MkInv, Exit PROVE MkInv'
  OBVIOUS
<1>1. stage' = "exit" /\ UNCHANGED <<tree, next_block, image, written>>
  BY DEF Exit, Output
<1>2. Sound(tree', next_block') /\ ImageInv(image') /\ DOMAIN written' \subseteq Nums(tree')
  BY <1>1 DEF MkInv
<1>3. next_block' \in first_data .. NBlocks
  BY <1>1 DEF MkInv
<1> QED BY <1>1, <1>2, <1>3 DEF MkInv

LEMMA MkBecomes ==
  ASSUME MkInv, stage \in {"walk", "spec"},
         NEW t, TreeInv(t), Counted(t), InBlocks(t, next_block),
         tree.next_ino <= t.next_ino, Becomes(t)
  PROVE  MkInv'
<1>1. CASE Exit
  BY <1>1, MkExit
<1>2. CASE ~Exit
  <2>1. /\ t.next_ino <= ninodes /\ tree' = t
        /\ UNCHANGED <<stage, next_block, image, ilist, freelist, super, written>>
    BY <1>2 DEF Becomes, InodesLeft, Output
  <2>2. Sound(tree', next_block')
    BY <2>1 DEF Sound
  <2>3. DOMAIN written' \subseteq Nums(tree')
    <3>1. Nums(tree) \subseteq Nums(t)
      BY DEF MkInv, Sound, TreeInv, Nums, ROOTINO
    <3> QED BY <2>1, <3>1 DEF MkInv
  <2>4. ImageInv(image)'
    BY <2>1 DEF MkInv, ImageInv
  <2> QED BY <2>1, <2>2, <2>3, <2>4 DEF MkInv
<1> QED BY <1>1, <1>2

LEMMA MkStored ==
  ASSUME MkInv, stage \in {"walk", "dirs"}, stage' = stage,
         NEW t, Sound(t, next_block), DOMAIN written \subseteq Nums(t), NEW n \in Nums(t),
         NEW text, Len(text) \in Nat, Fits(DataBlocks(text)), StoreData(t, n, text)
  PROVE  MkInv'
<1> DEFINE taken == BlocksTaken(DataBlocks(text))
           b == next_block
<1>1. taken \in Nat
  BY Taken
<1>2. /\ b \in Nat /\ first_data <= b /\ b + taken <= NBlocks
      /\ first_data \in Nat /\ NBlocks \in Nat
  BY Sizes DEF MkInv, Fits
<1>3. /\ tree' = [t EXCEPT !.inodes[n] = WithData(@, text, b)]
      /\ image' = Stored(image, text, b)
      /\ next_block' = b + taken
      /\ written' = Set(written, n, text)
  BY DEF StoreData
<1>4. /\ TreeInv(tree') /\ Counted(tree') /\ tree'.next_ino = t.next_ino /\ Nums(tree') = Nums(t)
      /\ InBlocks(tree', b + taken)
  <2>1. TreeInv(t) /\ Counted(t) /\ InBlocks(t, b)
    BY DEF Sound
  <2> HIDE DEF b
  <2> QED BY <2>1, <1>2, <1>3, DataStored
<1> HIDE DEF taken
<1>5. Sound(tree', next_block')
  BY <1>3, <1>4 DEF Sound
<1>6. next_block' \in first_data .. NBlocks
  BY <1>1, <1>2, <1>3
<1>7. ImageInv(image')
  BY <1>3, BlocksStored DEF MkInv
<1>8. DOMAIN written' \subseteq Nums(tree')
  BY <1>3, <1>4 DEF Set
<1> QED BY <1>5, <1>6, <1>7, <1>8 DEF MkInv, ImageInv

LEMMA MkKept == MkInv /\ [Next]_mvars => MkInv'
<1> SUFFICES ASSUME MkInv, [Next]_mvars PROVE MkInv'
  OBVIOUS
<1>0. /\ TreeInv(tree) /\ Counted(tree) /\ InBlocks(tree, next_block)
      /\ tree.next_ino <= ninodes /\ tree.next_ino \in Nat
      /\ next_block \in first_data .. NBlocks /\ next_block \in Nat
      /\ DOMAIN written \subseteq Nums(tree) /\ ImageInv(image)
  BY Sizes DEF MkInv, Sound, TreeInv
<1>1. ASSUME NEW path \in Seq(Names)
      PROVE  /\ TreeInv(getdir(tree, path)) /\ Counted(getdir(tree, path))
             /\ InBlocks(getdir(tree, path), next_block)
             /\ tree.next_ino <= getdir(tree, path).next_ino
             /\ getdir(tree, path).next_ino \in Nat
             /\ path \in DOMAIN getdir(tree, path).dirs
  <2>1. /\ TreeInv(getdir(tree, path)) /\ Counted(getdir(tree, path))
        /\ InBlocks(getdir(tree, path), next_block)
        /\ tree.next_ino <= getdir(tree, path).next_ino
        /\ path \in DOMAIN getdir(tree, path).dirs
    BY <1>0, GetDir
  <2> QED BY <2>1 DEF TreeInv
<1>2. ASSUME NEW path \in Paths \ {<<>>}, VisitDir(path) \/ SpecDir(path) PROVE MkInv'
  <2>1. stage \in {"walk", "spec"} /\ Becomes(getdir(tree, path))
    BY <1>2 DEF VisitDir, SpecDir
  <2> QED BY <2>1, <1>1, PathTyped, MkBecomes
<1>3. ASSUME NEW dir \in Paths, NEW name \in Names, NEW file \in Files, VisitFile(dir, name, file)
      PROVE  MkInv'
  <2> DEFINE ino == [Inode("file", 1) EXCEPT !.exec = file.exec]
             n == tree.next_ino
             t == WithEntry(WithInode(tree, ino), dir, n, name)
  <2>1. /\ stage = "walk" /\ dir \in DOMAIN tree.dirs
        /\ \/ /\ InodesLeft(t) /\ Fits(DataBlocks(file.text))
              /\ StoreData(t, n, file.text)
              /\ UNCHANGED <<stage, ilist, freelist, super>>
           \/ Exit
    BY <1>3 DEF VisitFile
  <2>2. CASE Exit
    BY <2>2, MkExit
  <2>3. CASE /\ InodesLeft(t) /\ Fits(DataBlocks(file.text))
             /\ StoreData(t, n, file.text)
             /\ UNCHANGED <<stage, ilist, freelist, super>>
    <3>1. file.text \in Seq(Word) /\ file.exec \in BOOLEAN
      BY MkfsAssumption
    <3>2. Len(file.text) \in Nat
      BY <3>1, LenProperties
    <3>3. ino \in InodeType /\ ino.nlink = 1 /\ \A i \in 1 .. NADDR : ino.addr[i] = 0
      <4>1. Inode("file", 1) \in InodeType
        BY DEF Inode, InodeType
      <4>2. Inode("file", 1).nlink = 1 /\ \A i \in 1 .. NADDR : Inode("file", 1).addr[i] = 0
        BY DEF Inode
      <4> QED BY <4>1, <4>2, <3>1 DEF InodeType
    <3> HIDE DEF ino
    <3>4. /\ TreeInv(t) /\ Counted(t) /\ t.next_ino = n + 1 /\ InBlocks(t, next_block)
      BY <1>0, <2>1, <3>3, NewNamed
    <3> HIDE DEF t
    <3>5. Sound(t, next_block)
      BY <2>3, <3>4 DEF Sound, InodesLeft
    <3>6. n \in Nums(t) /\ DOMAIN written \subseteq Nums(t)
      BY <1>0, <3>4 DEF Nums, TreeInv, ROOTINO
    <3> QED BY <2>1, <2>3, <3>2, <3>5, <3>6, MkStored
  <2> QED BY <2>1, <2>2, <2>3
<1>4. ASSUME NEW path \in Paths \ {<<>>}, NEW dev \in Devices, SpecNode(path, dev) PROVE MkInv'
  <2> DEFINE up == Front(path)
             t == getdir(tree, up)
             s == WithEntry(WithInode(t, Device(dev)), up, t.next_ino, Last(path))
  <2>1. stage = "spec" /\ Becomes(s)
    BY <1>4 DEF SpecNode
  <2>2. up \in Seq(Names) /\ Last(path) \in Names
    BY PathTyped
  <2>3. Device(dev) \in InodeType /\ Device(dev).nlink = 1 /\ Device(dev).kind = "node"
    <3>1. dev[1] \in Nat /\ dev[2] \in Nat /\ BYTE \in Nat
      BY MkfsAssumption
    <3>2. dev[1] * BYTE + dev[2] \in Nat
      BY <3>1
    <3> DEFINE old == Inode("node", 1)
               k == dev[1] * BYTE + dev[2]
    <3>3. old \in InodeType /\ old.nlink = 1 /\ old.kind = "node"
      BY DEF Inode, InodeType
    <3>4. Device(dev) = [old EXCEPT !.addr[1] = k]
      BY DEF Device
    <3>5. k \in Nat
      BY <3>2
    <3> HIDE DEF old, k
    <3>6. [old.addr EXCEPT ![1] = k] \in [1 .. NADDR -> Nat]
      BY <3>3, <3>5 DEF InodeType
    <3> QED BY <3>3, <3>4, <3>6 DEF InodeType
  <2>4. /\ TreeInv(t) /\ Counted(t) /\ InBlocks(t, next_block) /\ up \in DOMAIN t.dirs
        /\ tree.next_ino <= t.next_ino /\ t.next_ino \in Nat
    BY <1>1, <2>2
  <2> HIDE DEF t, up
  <2>5. /\ TreeInv(s) /\ Counted(s) /\ s.next_ino = t.next_ino + 1 /\ InBlocks(s, next_block)
    BY <2>2, <2>3, <2>4, NewNamed
  <2> HIDE DEF s
  <2>6. tree.next_ino <= s.next_ino
    BY <1>0, <2>4, <2>5
  <2> QED BY <2>1, <2>5, <2>6, MkBecomes
<1>5. ASSUME NEW path \in Paths \ {<<>>}, NEW target \in Paths \ {<<>>}, SpecLink(path, target)
      PROVE  MkInv'
  <2> DEFINE up == Front(path)
             t == getdir(tree, up)
             dir == Front(target)
             found == IF dir \notin DOMAIN t.entries THEN {} ELSE
                        {i \in DOMAIN t.entries[dir] : t.entries[dir][i].name = Last(target)}
             n == t.entries[dir][Max(found)].num
             s == WithLink(WithEntry(t, up, n, Last(path)), n)
  <2>1. (stage = "spec" /\ found # {} /\ Becomes(s)) \/ Exit
    BY <1>5 DEF SpecLink
  <2>2. CASE Exit
    BY <2>2, MkExit
  <2>3. CASE stage = "spec" /\ found # {} /\ Becomes(s)
    <3>1. up \in Seq(Names) /\ Last(path) \in Names
      BY PathTyped
    <3>2. /\ TreeInv(t) /\ Counted(t) /\ InBlocks(t, next_block) /\ up \in DOMAIN t.dirs
          /\ tree.next_ino <= t.next_ino
      BY <1>1, <3>1
    <3> HIDE DEF t, up
    <3>3. n \in Nums(t)
      <4> DEFINE list == t.entries[dir]
      <4>1. dir \in DOMAIN t.entries
        BY <2>3
      <4>2. list \in Seq(EntryType(t))
        BY <3>2, <4>1 DEF TreeInv
      <4> HIDE DEF list
      <4>3. found \subseteq 1 .. Len(list) /\ Len(list) \in Nat
        BY <4>1, <4>2, LenProperties DEF list
      <4> HIDE DEF found
      <4>4. Max(found) \in 1 .. Len(list)
        BY <2>3, <4>3, MaxIn
      <4>5. list[Max(found)] \in EntryType(t)
        BY <4>2, <4>4, ElementOfSeq
      <4> QED BY <4>5 DEF list, EntryType
    <3> HIDE DEF n
    <3>4. TreeInv(s) /\ Counted(s) /\ s.next_ino = t.next_ino /\ InBlocks(s, next_block)
      BY <3>1, <3>2, <3>3, NewName
    <3> HIDE DEF s
    <3> QED BY <2>3, <3>2, <3>4, MkBecomes
  <2> QED BY <2>1, <2>2, <2>3
<1>6. CASE WalkEnds \/ SpecEnds
  <2>1. /\ stage' \in {"spec", "dirs"}
        /\ UNCHANGED <<tree, next_block, image, written>>
    BY <1>6 DEF WalkEnds, SpecEnds, Output
  <2>2. Sound(tree', next_block') /\ ImageInv(image') /\ DOMAIN written' \subseteq Nums(tree')
    BY <2>1 DEF MkInv
  <2> QED BY <2>1, <2>2 DEF MkInv
<1>7. CASE StoreDir
  <2>1. PICK path \in DOMAIN tree.dirs :
          LET n == tree.dirs[path]
              entries == tree.entries[path]
              goes == NamesFit(entries) /\ Fits(DataBlocks(entries))
          IN  \/ /\ goes
                 /\ StoreData(tree, n, entries)
                 /\ UNCHANGED <<stage, ilist, freelist, super>>
              \/ ~goes /\ Exit
    BY <1>7 DEF StoreDir
  <2>2. stage = "dirs"
    BY <1>7 DEF StoreDir
  <2> DEFINE n == tree.dirs[path]
             text == tree.entries[path]
  <2>3. n \in Nums(tree) /\ text \in Seq(EntryType(tree))
    BY <1>0 DEF TreeInv
  <2>4. Len(text) \in Nat
    BY <2>3, LenProperties
  <2>5. Sound(tree, next_block)
    BY DEF MkInv
  <2> HIDE DEF n, text
  <2>6. CASE Exit
    BY <2>6, MkExit
  <2>7. CASE Fits(DataBlocks(text)) /\ StoreData(tree, n, text) /\ stage' = stage
    BY <1>0, <2>2, <2>3, <2>4, <2>5, <2>7, MkStored
  <2> QED BY <2>1, <2>6, <2>7 DEF n, text
<1>8. CASE write_inodes
  <2>1. /\ stage' = "free" /\ ilist' = OnIlist(tree)
        /\ UNCHANGED <<tree, next_block, image, written>>
    BY <1>8 DEF write_inodes, OnIlist
  <2>2. Sound(tree', next_block') /\ ImageInv(image') /\ DOMAIN written' \subseteq Nums(tree')
    BY <2>1 DEF MkInv
  <2>3. ilist' = OnIlist(tree')
    BY <2>1
  <2> QED BY <2>1, <2>2, <2>3 DEF MkInv
<1>9. CASE build_free_list
  <2>1. /\ stage = "free" /\ stage' = "super"
        /\ image' = FreeList(NBlocks - 1, next_block).img
        /\ UNCHANGED <<tree, next_block, ilist, super, written>>
    BY <1>9 DEF build_free_list
  <2>2. ImageInv(image')
    <3>1. NBlocks - 1 \in Nat
      BY Sizes
    <3> QED BY <1>0, <2>1, <3>1, Freed
  <2>3. Sound(tree', next_block') /\ DOMAIN written' \subseteq Nums(tree')
    BY <2>1 DEF MkInv
  <2>4. ilist' = OnIlist(tree')
    BY <2>1 DEF MkInv
  <2> QED BY <2>1, <2>2, <2>3, <2>4 DEF MkInv
<1>10. CASE write_superblock
  <2>1. /\ stage = "super" /\ stage' = "done"
        /\ super'.inode = free_ino /\ super'.tinode = ninodes + 1 - tree.next_ino
        /\ UNCHANGED <<tree, next_block, image, ilist, written>>
    BY <1>10 DEF write_superblock
  <2>2. Sound(tree', next_block') /\ ImageInv(image') /\ DOMAIN written' \subseteq Nums(tree')
    BY <2>1 DEF MkInv
  <2>3. ilist' = OnIlist(tree')
    BY <2>1 DEF MkInv
  <2>4. super'.inode = free_ino' /\ super'.tinode = ninodes + 1 - tree'.next_ino
    BY <2>1 DEF free_ino
  <2> QED BY <2>1, <2>2, <2>3, <2>4 DEF MkInv
<1>11. CASE UNCHANGED mvars
  BY <1>11 DEF MkInv, mvars, Sound, ImageInv, free_ino
<1> QED BY <1>2, <1>3, <1>4, <1>5, <1>6, <1>7, <1>8, <1>9, <1>10, <1>11 DEF Next

(* From start to end the tree is well formed, its link counts are right,   *)
(* and nothing lies beyond what the allocators have handed out.            *)
THEOREM MkInvariance == Spec => []MkInv
<1>1. Init => MkInv
  BY MkStart
<1>2. MkInv /\ [Next]_mvars => MkInv'
  BY MkKept
<1> QED BY <1>1, <1>2, PTL DEF Spec

(* mkfs.py's allocators: no inode number beyond the i-list and no block    *)
(* number outside the data blocks is ever written into a tree, whatever    *)
(* the host directory and the spec file ask for.                           *)
THEOREM AllocatorsStayInside == Spec => []TypeOK
<1>1. MkInv => TypeOK
  <2> SUFFICES ASSUME MkInv PROVE TypeOK
    OBVIOUS
  <2>1. /\ TreeInv(tree) /\ tree.next_ino <= ninodes /\ InBlocks(tree, next_block)
        /\ next_block \in first_data .. NBlocks /\ ImageInv(image)
        /\ DOMAIN written \subseteq Nums(tree)
        /\ stage \in {"walk", "spec", "dirs", "free", "super", "done", "exit"}
    BY DEF MkInv, Sound
  <2>2. DOMAIN tree.inodes = Nums(tree) /\ Nums(tree) = ROOTINO .. tree.next_ino - 1
    BY <2>1 DEF TreeInv, Nums
  <2>3. tree.next_ino \in ROOTINO + 1 .. ninodes
    BY <2>1, Sizes DEF TreeInv, ROOTINO
  <2>4. ASSUME NEW n \in DOMAIN tree.inodes, tree.inodes[n].kind # "node", NEW i \in 1 .. NADDR
        PROVE  tree.inodes[n].addr[i] \in {0} \cup first_data .. NBlocks - 1
    <3> DEFINE a == tree.inodes[n].addr[i]
    <3>1. a \in {0} \cup first_data .. next_block - 1
      BY <2>1, <2>2, <2>4 DEF InBlocks
    <3> HIDE DEF a
    <3>2. a \in {0} \cup first_data .. NBlocks - 1
      BY <2>1, <3>1, Sizes
    <3> QED BY <3>2 DEF a
  <2>5. DOMAIN tree.entries = DOMAIN tree.dirs
    BY <2>1 DEF TreeInv
  <2>6. /\ DOMAIN image = first_data .. NBlocks - 1
        /\ \A b \in DOMAIN image : DOMAIN image[b] = 1 .. BSIZE
    BY <2>1 DEF ImageInv
  <2> QED BY <2>1, <2>2, <2>3, <2>4, <2>5, <2>6 DEF TypeOK
<1> QED BY <1>1, MkInvariance, PTL

(* mkfs.py's build: an inode's link count is the number of entries that    *)
(* name it, after every host file and every line of the spec, with however *)
(* many parents made on the way and further names given.                   *)
THEOREM LinkCountsRight == Spec => []LinksCounted
<1>1. MkInv => LinksCounted
  <2> SUFFICES ASSUME MkInv PROVE LinksCounted
    OBVIOUS
  <2>1. TreeInv(tree) /\ Counted(tree)
    BY DEF MkInv, Sound
  <2>2. DOMAIN tree.inodes = Nums(tree)
    BY <2>1 DEF TreeInv
  <2> QED BY <2>1, <2>2 DEF LinksCounted, Counted
<1> QED BY <1>1, MkInvariance, PTL

(* mkfs.py's write_superblock: the free inodes it names are free on the    *)
(* i-list, the lowest come first, as many as there is room for, and the    *)
(* total is right.                                                         *)
THEOREM FreeInodesRight == Spec => []InodesAccounted
<1>1. MkInv => InodesAccounted
  <2> SUFFICES ASSUME MkInv, stage = "done"
               PROVE  LET unused == {n \in ROOTINO .. ninodes : ilist[n] = Blank}
                      IN  /\ ToSet(super.inode) \subseteq unused
                          /\ super.tinode = Cardinality(unused)
                          /\ \A i \in DOMAIN super.inode :
                               super.inode[i] < ROOTINO + Cardinality(DOMAIN tree.inodes) + i
                          /\ Len(super.inode) =
                               (IF super.tinode < NICINOD THEN super.tinode ELSE NICINOD)
    BY DEF InodesAccounted
  <2> DEFINE next == tree.next_ino
             unused == {n \in ROOTINO .. ninodes : ilist[n] = Blank}
             left == ninodes + 1 - next
             all == [i \in 1 .. Beyond(ninodes + 1, next) |-> next + i - 1]
             k == IF NICINOD < left THEN NICINOD ELSE left
  <2>1. /\ TreeInv(tree) /\ next <= ninodes /\ ilist = OnIlist(tree)
        /\ super.inode = free_ino /\ super.tinode = left
    BY DEF MkInv, Sound
  <2>2. DOMAIN tree.inodes = Nums(tree) /\ Nums(tree) = 2 .. next - 1 /\ ROOTINO = 2
    BY <2>1 DEF TreeInv, Nums, ROOTINO
  <2>3. next \in Nat /\ 2 < next
    BY <2>1 DEF TreeInv, ROOTINO
  <2>4. unused = next .. ninodes
    <3>1. ASSUME NEW n \in Nums(tree) PROVE pack_inode(tree.inodes[n]) # Blank
      <4>1. tree.inodes[n].kind # "none"
        <5>1. tree.inodes[n] \in InodeType
          BY <2>1 DEF TreeInv
        <5> QED BY <5>1 DEF InodeType
      <4>2. Blank.kind = "none"
        BY DEF Blank, pack_inode, Inode
      <4>3. pack_inode(tree.inodes[n]).kind = tree.inodes[n].kind
        BY DEF pack_inode
      <4> QED BY <4>1, <4>2, <4>3
    <3>2. ASSUME NEW n \in 2 .. ninodes PROVE ilist[n] = Blank <=> n >= next
      <4>1. n \in 1 .. ninodes
        BY Sizes
      <4>2. ilist[n] = IF n \in Nums(tree) THEN pack_inode(tree.inodes[n]) ELSE Blank
        BY <2>1, <2>2, <4>1 DEF OnIlist
      <4>3. n \in Nums(tree) <=> n < next
        BY <2>2, <2>3, Sizes
      <4> QED BY <4>2, <4>3, <3>1, <2>3, Sizes
    <3> QED BY <2>2, <2>3, <3>2, Sizes
  <2>5. left \in Nat /\ Cardinality(unused) = left
    <3>1. next \in Nat /\ ninodes \in Nat /\ next <= ninodes
      BY <2>1, <2>3, Sizes
    <3> HIDE DEF next, unused
    <3>2. Cardinality(next .. ninodes) = ninodes - next + 1
      BY <3>1, FS_Interval
    <3> QED BY <2>4, <3>1, <3>2
  <2>6. /\ Len(super.inode) = k /\ DOMAIN super.inode = 1 .. k /\ k \in Nat /\ k <= left
        /\ \A i \in 1 .. k : super.inode[i] = next + i - 1
    <3>1. Beyond(ninodes + 1, next) = left
      BY <2>1, <2>3, Sizes DEF Beyond
    <3>2. all \in Seq(Nat) /\ Len(all) = left /\ \A i \in 1 .. left : all[i] = next + i - 1
      <4> HIDE DEF next, left
      <4>1. all = [i \in 1 .. left |-> next + i - 1]
        BY <3>1
      <4>2. all \in [1 .. left -> Nat]
        BY <4>1, <2>3
      <4> HIDE DEF all
      <4>3. all \in Seq(Nat)
        BY <4>2, <2>5, SeqDef
      <4>4. Len(all) = left
        BY <4>2, <4>3, <2>5, LenProperties
      <4> QED BY <4>1, <4>3, <4>4
    <3>3. k \in Nat /\ k <= left
      BY <2>5, Sizes
    <3>4. super.inode = SubSeq(all, 1, k)
      <4>1. super.inode = Part(all, 1, NICINOD)
        BY <2>1 DEF free_ino
      <4> HIDE DEF all, left
      <4> QED BY <3>2, <4>1 DEF Part
    <3> HIDE DEF all, left, k
    <3>5. \A i \in 1 .. k : all[i] \in Nat
      BY <3>2, <3>3, <2>5
    <3>6. /\ SubSeq(all, 1, k) \in Seq(Nat) /\ Len(SubSeq(all, 1, k)) = k
          /\ \A i \in 1 .. k : SubSeq(all, 1, k)[i] = all[i]
      BY <3>3, <3>5, SubSeqProperties
    <3> QED BY <2>5, <3>2, <3>3, <3>4, <3>6, LenProperties
  <2>7. Cardinality(DOMAIN tree.inodes) = next - 2
    <3> DEFINE last == next - 1
    <3>1. last \in Nat /\ 2 <= last
      BY <2>3
    <3> HIDE DEF last
    <3>2. Cardinality(2 .. last) = last - 2 + 1
      BY <3>1, FS_Interval
    <3> QED BY <2>2, <2>3, <3>1, <3>2 DEF last
  <2>8. ToSet(super.inode) \subseteq unused
    <3>1. left = ninodes + 1 - next /\ next \in Nat /\ ninodes \in Nat
      BY <2>3, Sizes
    <3> HIDE DEF unused, left, k, next
    <3>2. \A i \in 1 .. k : next + i - 1 \in unused
      BY <2>4, <2>5, <2>6, <3>1
    <3> QED BY <2>6, <3>2 DEF ToSet
  <2>9. \A i \in DOMAIN super.inode : super.inode[i] < ROOTINO + Cardinality(DOMAIN tree.inodes) + i
    BY <2>2, <2>3, <2>6, <2>7
  <2>10. Len(super.inode) = (IF super.tinode < NICINOD THEN super.tinode ELSE NICINOD)
    BY <2>1, <2>5, <2>6, Sizes
  <2> QED BY <2>1, <2>5, <2>8, <2>9, <2>10
<1> QED BY <1>1, MkInvariance, PTL

-----------------------------------------------------------------------------
(* FlattenSeq is defined: there is the function it is taken from.          *)
JoinsUp(f, s, m) == f = [i \in 1 .. m |-> IF i = 1 THEN s[i] ELSE f[i - 1] \o s[i]]

LEMMA Flattened ==
  ASSUME NEW s, NEW m \in Nat, m > 0, Len(s) = m
  PROVE  \E f : JoinsUp(f, s, m) /\ FlattenSeq(s) = f[m]
<1> DEFINE Step(f, i) == IF i = 1 THEN s[i] ELSE f[i - 1] \o s[i]
           P == {k \in 0 .. m : \E f : f = [i \in 1 .. k |-> Step(f, i)]}
<1>1. 0 \in P
  <2> DEFINE f == [i \in 1 .. 0 |-> s[i]]
  <2>1. f = [i \in 1 .. 0 |-> Step(f, i)]
    OBVIOUS
  <2> HIDE DEF f
  <2>2. \E h : h = [i \in 1 .. 0 |-> Step(h, i)]
    BY <2>1, Zenon
  <2>3. 0 \in 0 .. m
    OBVIOUS
  <2> QED BY <2>2, <2>3, Zenon
<1>2. ASSUME NEW k \in 0 .. m - 1, k \in P
      PROVE  k + 1 \in P
  <2>1. PICK f : f = [i \in 1 .. k |-> Step(f, i)]
    BY <1>2
  <2> DEFINE g == [i \in 1 .. k + 1 |-> IF i = k + 1 THEN Step(f, k + 1) ELSE f[i]]
  <2>2. ASSUME NEW i \in 1 .. k + 1 PROVE g[i] = Step(g, i)
    <3>1. CASE i = k + 1
      <4>1. i # 1 => g[i - 1] = f[i - 1]
        BY <3>1
      <4>2. g[i] = Step(f, i)
        BY <3>1
      <4> HIDE DEF g
      <4> QED BY <4>1, <4>2
    <3>2. CASE i \in 1 .. k
      <4>1. g[i] = f[i] /\ f[i] = Step(f, i)
        BY <3>2, <2>1
      <4>2. i # 1 => g[i - 1] = f[i - 1]
        BY <3>2
      <4> QED BY <4>1, <4>2
    <3> QED BY <3>1, <3>2
  <2>3. g = [i \in 1 .. k + 1 |-> Step(g, i)]
    BY <2>2
  <2> HIDE DEF g
  <2>4. \E h : h = [i \in 1 .. k + 1 |-> Step(h, i)]
    BY <2>3, Zenon
  <2>5. k + 1 \in 0 .. m
    OBVIOUS
  <2> QED BY <2>4, <2>5
<1>3. m \in P
  <2> HIDE DEF P
  <2>1. 0 .. m \subseteq P
    BY <1>1, <1>2, UpTo
  <2> QED BY <2>1
<1> DEFINE flatten == CHOOSE f : f = [i \in 1 .. m |-> Step(f, i)]
<1>4. flatten = [i \in 1 .. m |-> Step(flatten, i)]
  <2>1. \E f : f = [i \in 1 .. m |-> Step(f, i)]
    BY <1>3
  <2> HIDE DEF Step
  <2> QED BY <2>1, Zenon
<1>5. FlattenSeq(s) = flatten[m]
  BY DEF FlattenSeq
<1> HIDE DEF flatten
<1>6. JoinsUp(flatten, s, m)
  BY <1>4 DEF JoinsUp
<1> QED BY <1>5, <1>6, Zenon

(* What a block may hold.                                                  *)
Cell == Word \cup {Zero} \cup [num : Nat, name : Names \cup {".", ".."}]

(* A part of a file, with zeros where it has ended.                        *)
Span(text, o, len) == [i \in 1 .. len |-> IF o + i <= Len(text) THEN text[o + i] ELSE Zero]

LEMMA SpanIs ==
  ASSUME NEW text \in Seq(Cell), NEW o \in Nat, NEW len \in Nat
  PROVE  /\ Span(text, o, len) \in Seq(Cell) /\ Len(Span(text, o, len)) = len
         /\ \A i \in 1 .. len :
              Span(text, o, len)[i] = IF o + i <= Len(text) THEN text[o + i] ELSE Zero
<1>1. ASSUME NEW i \in 1 .. len PROVE Span(text, o, len)[i] \in Cell
  <2>1. Zero \in Cell
    BY DEF Cell
  <2>2. o + i <= Len(text) => text[o + i] \in Cell
    BY ElementOfSeq, LenProperties
  <2> QED BY <2>1, <2>2 DEF Span
<1>2. Span(text, o, len) \in [1 .. len -> Cell]
  BY <1>1 DEF Span
<1>3. Span(text, o, len) \in Seq(Cell)
  BY <1>2, SeqDef
<1>4. Len(Span(text, o, len)) = len
  BY <1>2, <1>3, LenProperties
<1> QED BY <1>3, <1>4 DEF Span

LEMMA SpanJoin ==
  ASSUME NEW text \in Seq(Cell), NEW o \in Nat, NEW len \in Nat, NEW more \in Nat
  PROVE  Span(text, o, len) \o Span(text, o + len, more) = Span(text, o, len + more)
<1> DEFINE a == Span(text, o, len)
           b == Span(text, o + len, more)
           c == Span(text, o, len + more)
<1>0. len + more \in Nat /\ o + len \in Nat /\ Len(text) \in Nat
  BY LenProperties
<1>1. /\ a \in Seq(Cell) /\ Len(a) = len
      /\ b \in Seq(Cell) /\ Len(b) = more
      /\ c \in Seq(Cell) /\ Len(c) = len + more
  BY <1>0, SpanIs
<1> HIDE DEF a, b, c
<1>2. /\ a \o b \in Seq(Cell) /\ Len(a \o b) = len + more
      /\ \A i \in 1 .. len + more : (a \o b)[i] = IF i <= len THEN a[i] ELSE b[i - len]
  BY <1>1, ConcatProperties
<1>3. ASSUME NEW i \in 1 .. len + more PROVE (a \o b)[i] = c[i]
  <2>1. CASE i <= len
    <3>1. a[i] = c[i]
      BY <1>0, <2>1 DEF a, c, Span
    <3>2. (a \o b)[i] = IF i <= len THEN a[i] ELSE b[i - len]
      BY <1>2
    <3>3. (a \o b)[i] = a[i]
      BY <2>1, <3>2, Zenon
    <3> QED BY <3>1, <3>3, Zenon
  <2>2. CASE i > len
    <3>1. i - len \in 1 .. more /\ o + len + (i - len) = o + i /\ ~(i <= len)
      BY <2>2
    <3>2. b[i - len] = c[i]
      BY <1>0, <3>1 DEF b, c, Span
    <3>3. (a \o b)[i] = IF i <= len THEN a[i] ELSE b[i - len]
      BY <1>2
    <3>4. (a \o b)[i] = b[i - len]
      BY <3>1, <3>3, Zenon
    <3> QED BY <3>2, <3>4, Zenon
  <2>3. i <= len \/ i > len
    OBVIOUS
  <2> QED BY <2>1, <2>2, <2>3, Zenon
<1>4. a \o b = c
  BY <1>1, <1>2, <1>3, SeqEqual
<1> QED BY <1>4 DEF a, b, c

(* It falls into m parts of w each.                                        *)
Spans(text, o, w, m) == [j \in 1 .. m |-> Span(text, o + (j - 1) * w, w)]

LEMMA FlatSpans ==
  ASSUME NEW text \in Seq(Cell), NEW o \in Nat, NEW w \in Nat, NEW m \in Nat
  PROVE  FlattenSeq(Spans(text, o, w, m)) = Span(text, o, m * w)
<1> DEFINE s == Spans(text, o, w, m)
<1>0. s = [j \in 1 .. m |-> Span(text, o + (j - 1) * w, w)]
  BY DEF Spans
<1> SUFFICES FlattenSeq(s) = Span(text, o, m * w)
  OBVIOUS
<1> HIDE DEF s
<1>1. s \in Seq(Seq(Cell)) /\ Len(s) = m
  <2>1. ASSUME NEW j \in 1 .. m PROVE o + (j - 1) * w \in Nat
    <3>1. j - 1 \in Nat
      OBVIOUS
    <3>2. (j - 1) * w \in Nat
      BY <3>1
    <3> DEFINE x == (j - 1) * w
    <3> HIDE DEF x
    <3>3. x \in Nat => o + x \in Nat
      OBVIOUS
    <3> QED BY <3>2, <3>3 DEF x
  <2> DEFINE T == Seq(Cell)
  <2>2. s \in [1 .. m -> T]
    BY <2>1, <1>0, SpanIs
  <2> HIDE DEF T
  <2>3. s \in Seq(T)
    BY <2>2, SeqDef
  <2>4. Len(s) = m
    BY <2>2, <2>3, LenProperties
  <2> QED BY <2>3, <2>4 DEF T
<1>2. CASE m = 0
  <2>1. FlattenSeq(s) = s
    BY <1>1, <1>2 DEF FlattenSeq
  <2>2. s = <<>>
    BY <1>1, <1>2, EmptySeq
  <2>3. Span(text, o, 0) = <<>>
    BY SpanIs, EmptySeq
  <2>4. m * w = 0
    BY <1>2
  <2> QED BY <2>1, <2>2, <2>3, <2>4
<1>3. CASE m > 0
  <2>1. PICK f : JoinsUp(f, s, m) /\ FlattenSeq(s) = f[m]
    <3>1. Len(s) = m
      BY <1>1
    <3> HIDE DEF Span
    <3> QED BY <3>1, <1>3, Flattened, Zenon
  <2> DEFINE P == {k \in 0 .. m : k = 0 \/ f[k] = Span(text, o, k * w)}
  <2>2. 0 \in P
    OBVIOUS
  <2>3. ASSUME NEW k \in 0 .. m - 1, k \in P PROVE k + 1 \in P
    <3>0. /\ k + 1 \in 1 .. m /\ k \in Nat /\ k * w \in Nat /\ (k + 1) * w = k * w + w
      OBVIOUS
    <3>1. f[k + 1] = IF k = 0 THEN s[k + 1] ELSE f[k] \o s[k + 1]
      <4>1. f[k + 1] = IF k + 1 = 1 THEN s[k + 1] ELSE f[(k + 1) - 1] \o s[k + 1]
        BY <2>1, <3>0, Zenon DEF JoinsUp
      <4>2. (k + 1 = 1 <=> k = 0) /\ (k + 1) - 1 = k
        BY <3>0
      <4> QED BY <4>1, <4>2, Zenon
    <3>2. s[k + 1] = Span(text, o + k * w, w)
      BY <3>0, <1>0
    <3>3. CASE k = 0
      <4>1. o + k * w = o /\ (k + 1) * w = w
        BY <3>3, <3>0
      <4>2. f[k + 1] = Span(text, o, (k + 1) * w)
        BY <3>1, <3>2, <3>3, <4>1, Zenon
      <4>3. k + 1 \in 0 .. m
        BY <3>0
      <4> QED BY <4>2, <4>3, Zenon
    <3>4. CASE k # 0
      <4>1. f[k] = Span(text, o, k * w)
        BY <2>3, <3>4
      <4>2. f[k] \o s[k + 1] = Span(text, o, k * w + w)
        <5> DEFINE x == k * w
        <5>1. x \in Nat /\ w \in Nat
          BY <3>0
        <5> HIDE DEF x
        <5>2. Span(text, o, x) \o Span(text, o + x, w) = Span(text, o, x + w)
          BY <5>1, SpanJoin
        <5> QED BY <5>2, <4>1, <3>2, Zenon DEF x
      <4>3. f[k + 1] = Span(text, o, (k + 1) * w)
        BY <3>0, <3>1, <3>4, <4>2, Zenon
      <4>4. k + 1 \in 0 .. m
        BY <3>0
      <4> QED BY <4>3, <4>4, Zenon
    <3> QED BY <3>3, <3>4
  <2>4. m \in P
    <3> HIDE DEF P
    <3>1. 0 .. m \subseteq P
      BY <2>2, <2>3, UpTo
    <3> QED BY <3>1
  <2>5. f[m] = Span(text, o, m * w)
    BY <1>3, <2>4
  <2> QED BY <2>1, <2>5, Zenon
<1> QED BY <1>2, <1>3

(* Arithmetic.                                                             *)
LEMMA Mono ==
  ASSUME NEW a \in Nat, NEW b \in Nat, a <= b, NEW c \in Nat
  PROVE  a * c \in Nat /\ b * c \in Nat /\ a * c <= b * c
<1>1. a * c \in Nat /\ (b - a) * c \in Nat /\ b * c = a * c + (b - a) * c
  OBVIOUS
<1> QED BY <1>1

LEMMA Quotient ==
  ASSUME NEW a \in Nat, NEW w \in Nat, w > 0
  PROVE  LET q == (a + w - 1) \div w IN
         /\ q \in Nat /\ a <= q * w /\ q * w < a + w
         /\ \A k \in Nat : k < q => k * w < a
<1> DEFINE x == a + w - 1
           q == x \div w
           r == x % w
<1>1. x \in Nat
  OBVIOUS
<1> HIDE DEF x
<1>2. q \in Nat /\ r \in 0 .. w - 1 /\ x = w * q + r
  BY <1>1
<1> HIDE DEF q, r
<1>3. a <= q * w /\ q * w < a + w
  BY <1>2 DEF x
<1>4. ASSUME NEW k \in Nat, k < q PROVE k * w < a
  <2>1. (k + 1) * w <= q * w /\ (k + 1) * w = k * w + w /\ k * w \in Nat /\ q * w \in Nat
    BY <1>2, <1>4, Mono
  <2> QED BY <2>1, <1>3
<1> QED BY <1>2, <1>3, <1>4 DEF q, x

(* The number under which the k-th block of n is found, 0 past the last.   *)
At(b, n, k) == IF k < n THEN b + k ELSE 0

(* What store_data leaves in the image and in the inode.                   *)
Laid(img, text, b) ==
  \A x \in b .. b + BlocksTaken(DataBlocks(text)) - 1 :
    img[x] = put(ZeroBlock, BufferFor(text, b, x))

AddrOf(text, b) ==
  LET n == DataBlocks(text) IN
  [i \in 1 .. NADDR |->
     CASE i <= NDIRECT -> IF i <= n THEN b + i - 1 ELSE 0
       [] i = NDIRECT + 1 -> IF InSingle(n) > 0 THEN b + n ELSE 0
       [] i = NDIRECT + 2 -> IF InDouble(n) > 0 THEN b + n + 1 + Inner(n) ELSE 0
       [] OTHER -> 0]

LEMMA PartIs ==
  ASSUME NEW S, NEW s \in Seq(S), NEW from \in Nat, from > 0, NEW to \in Nat
  PROVE  LET end == IF to < Len(s) THEN to ELSE Len(s)
             k   == IF from <= end THEN end - from + 1 ELSE 0
         IN  /\ Part(s, from, to) \in Seq(S) /\ Len(Part(s, from, to)) = k
             /\ \A i \in 1 .. k : Part(s, from, to)[i] = s[from + i - 1]
<1> DEFINE end == IF to < Len(s) THEN to ELSE Len(s)
           k == IF from <= end THEN end - from + 1 ELSE 0
<1>1. Len(s) \in Nat
  BY LenProperties
<1>2. end \in Nat /\ end <= Len(s)
  BY <1>1
<1>3. Part(s, from, to) = SubSeq(s, from, end)
  BY DEF Part
<1> HIDE DEF end
<1>4. \A i \in from .. end : s[i] \in S
  <2>1. \A i \in from .. end : i \in 1 .. Len(s)
    BY <1>1, <1>2
  <2> QED BY <2>1, ElementOfSeq
<1>5. /\ SubSeq(s, from, end) \in Seq(S)
      /\ Len(SubSeq(s, from, end)) = IF from <= end THEN end - from + 1 ELSE 0
      /\ \A i \in 1 .. end - from + 1 : SubSeq(s, from, end)[i] = s[from + i - 1]
  BY <1>2, <1>4, SubSeqProperties
<1>6. \A i \in 1 .. k : i \in 1 .. end - from + 1
  BY <1>2
<1> QED BY <1>3, <1>5, <1>6 DEF end

HasPart(k, len, from, to) ==
  /\ k \in Nat /\ from \in Nat /\ from > 0 /\ to \in Nat
  /\ \/ to <= len /\ from + k = to + 1
     \/ to >= len /\ from + k = len + 1

IsPart(p, s, from, k) ==
  /\ Len(p) = k /\ DOMAIN p = 1 .. k
  /\ \A i \in 1 .. k : p[i] = s[from + i - 1]

LEMMA PartOf ==
  ASSUME NEW S, NEW s \in Seq(S), NEW from, NEW to, NEW k, HasPart(k, Len(s), from, to)
  PROVE  Part(s, from, to) \in Seq(S) /\ IsPart(Part(s, from, to), s, from, k)
<1> DEFINE end == IF to < Len(s) THEN to ELSE Len(s)
           m == IF from <= end THEN end - from + 1 ELSE 0
<1>1. Len(s) \in Nat
  BY LenProperties
<1>0. from \in Nat /\ from > 0 /\ to \in Nat
  BY DEF HasPart
<1>2. m = k
  BY <1>1 DEF HasPart
<1>3. /\ Part(s, from, to) \in Seq(S) /\ Len(Part(s, from, to)) = m
      /\ \A i \in 1 .. m : Part(s, from, to)[i] = s[from + i - 1]
  BY <1>0, PartIs
<1> HIDE DEF m
<1>4. DOMAIN Part(s, from, to) = 1 .. m
  BY <1>3, LenProperties
<1> QED BY <1>2, <1>3, <1>4 DEF IsPart

LEMMA DataBlocksAre ==
  ASSUME NEW text, Len(text) \in Nat
  PROVE  /\ DataBlocks(text) \in Nat /\ Len(text) <= DataBlocks(text) * BSIZE
         /\ \A k \in Nat : k < DataBlocks(text) => k * BSIZE < Len(text)
<1> DEFINE a == Len(text)
<1>1. a \in Nat
  OBVIOUS
<1> HIDE DEF a
<1>2. LET q == (a + BSIZE - 1) \div BSIZE IN
      q \in Nat /\ a <= q * BSIZE /\ \A k \in Nat : k < q => k * BSIZE < a
  BY <1>1, Sizes, Quotient
<1> QED BY <1>2 DEF DataBlocks, a

LEMMA BlockIs ==
  ASSUME NEW text \in Seq(Cell), NEW b \in Nat, b > 0, NEW img, Laid(img, text, b), NEW k \in Nat
  PROVE  blk(img, At(b, DataBlocks(text), k)) = Span(text, k * BSIZE, BSIZE)
<1> DEFINE n == DataBlocks(text)
           o == k * BSIZE
           x == b + k
<1>1. /\ n \in Nat /\ Len(text) \in Nat /\ BSIZE \in Nat /\ BSIZE > 0
      /\ Len(text) <= n * BSIZE /\ o \in Nat
  BY LenProperties, DataBlocksAre, Sizes
<1>2. CASE k >= n
  <2>1. n * BSIZE <= k * BSIZE
    BY <1>1, <1>2, Mono
  <2>2. Len(text) <= o
    BY <1>1, <2>1
  <2> HIDE DEF o, n
  <2>3. Span(text, o, BSIZE) = ZeroBlock
    BY <1>1, <2>2 DEF Span, ZeroBlock
  <2>4. At(b, n, k) = 0
    BY <1>1, <1>2 DEF At
  <2> QED BY <2>3, <2>4 DEF blk, o, n
<1>3. CASE k < n
  <2> DEFINE buf == Part(text, o + 1, o + BSIZE)
  <2>1. n <= BlocksTaken(n) /\ BlocksTaken(n) \in Nat
    BY <1>1, Taken
  <2>2. At(b, n, k) = x /\ x # 0 /\ x \in b .. b + BlocksTaken(n) - 1 /\ x - b = k
    <3> HIDE DEF n
    <3> QED BY <1>1, <1>3, <2>1 DEF At
  <2>3. (k + 1) * BSIZE = o + BSIZE
    BY <1>1
  <2>4. BufferFor(text, b, x) = buf
    <3>1. BufferFor(text, b, x) = Part(text, k * BSIZE + 1, (k + 1) * BSIZE)
      BY <1>1, <1>3, <2>2 DEF BufferFor
    <3> QED BY <3>1, <2>3, Zenon
  <2>5. blk(img, At(b, n, k)) = put(ZeroBlock, buf)
    <3>1. img[x] = put(ZeroBlock, BufferFor(text, b, x))
      BY <2>2 DEF Laid
    <3> QED BY <3>1, <2>2, <2>4 DEF blk
  <2>6. o < Len(text)
    BY <1>1, <1>3, DataBlocksAre
  <2> HIDE DEF o, n, x, buf
  <2>7. LET end == IF o + BSIZE < Len(text) THEN o + BSIZE ELSE Len(text)
            m   == IF o + 1 <= end THEN end - (o + 1) + 1 ELSE 0
        IN  /\ Len(buf) = m
            /\ \A i \in 1 .. m : buf[i] = text[o + 1 + i - 1]
    <3> DEFINE from == o + 1
               to == o + BSIZE
    <3>1. from \in Nat /\ from > 0 /\ to \in Nat
      BY <1>1
    <3>2. buf = Part(text, from, to)
      BY DEF buf
    <3> HIDE DEF from, to
    <3>3. LET end == IF to < Len(text) THEN to ELSE Len(text)
              m   == IF from <= end THEN end - from + 1 ELSE 0
          IN  /\ Len(buf) = m
              /\ \A i \in 1 .. m : buf[i] = text[from + i - 1]
      BY <3>1, <3>2, PartIs, Zenon
    <3> QED BY <3>3 DEF from, to
  <2>8. \A i \in 1 .. BSIZE : /\ i <= Len(buf) <=> o + i <= Len(text)
                              /\ i <= Len(buf) => buf[i] = text[o + i]
    BY <1>1, <2>6, <2>7
  <2>9. put(ZeroBlock, buf) = Span(text, o, BSIZE)
    <3>1. \A i \in 1 .. BSIZE : ZeroBlock[i] = Zero
      BY DEF ZeroBlock
    <3>2. ASSUME NEW i \in 1 .. BSIZE
          PROVE  (IF i <= Len(buf) THEN buf[i] ELSE ZeroBlock[i]) =
                   (IF o + i <= Len(text) THEN text[o + i] ELSE Zero)
      <4>1. CASE i <= Len(buf)
        BY <2>8, <4>1, Zenon
      <4>2. CASE ~(i <= Len(buf))
        BY <2>8, <3>1, <4>2, Zenon
      <4> QED BY <4>1, <4>2, Zenon
    <3> QED BY <3>2, Zenon DEF put, Span
  <2> QED BY <2>5, <2>9 DEF o, n
<1> QED BY <1>1, <1>2, <1>3

(* m block numbers, the first of which is that of block o.                 *)
Ats(numbers, text, b, o, m) ==
  /\ Len(numbers) = m
  /\ \A i \in 1 .. m : numbers[i] = At(b, DataBlocks(text), o + i - 1)

Joins(img, numbers, text, o, m) == Joined(img, numbers) = Span(text, o * BSIZE, m * BSIZE)

LEMMA JoinedIs ==
  ASSUME NEW text \in Seq(Cell), NEW b \in Nat, b > 0, NEW img, Laid(img, text, b),
         NEW o \in Nat, NEW m \in Nat, NEW numbers, Ats(numbers, text, b, o, m)
  PROVE  Joins(img, numbers, text, o, m)
<1> DEFINE s == [i \in 1 .. m |-> blk(img, numbers[i])]
           off == o * BSIZE
<1>1. BSIZE \in Nat /\ off \in Nat
  BY Sizes
<1>2. ASSUME NEW i \in 1 .. m PROVE blk(img, numbers[i]) = Span(text, off + (i - 1) * BSIZE, BSIZE)
  <2>1. o + i - 1 \in Nat
    OBVIOUS
  <2>2. /\ blk(img, At(b, DataBlocks(text), o + i - 1)) = Span(text, (o + i - 1) * BSIZE, BSIZE)
        /\ numbers[i] = At(b, DataBlocks(text), o + i - 1)
    BY <2>1, BlockIs DEF Ats
  <2>3. (o + i - 1) * BSIZE = off + (i - 1) * BSIZE
    BY <1>1
  <2> QED BY <2>2, <2>3, Zenon
<1>3. s = Spans(text, off, BSIZE, m)
  BY <1>2 DEF Spans
<1>4. Joined(img, numbers) = FlattenSeq(s)
  BY DEF Joined, Ats
<1> HIDE DEF s, off
<1>5. FlattenSeq(s) = Span(text, off, m * BSIZE)
  BY <1>1, <1>3, FlatSpans, ZenonT(30)
<1> QED BY <1>4, <1>5 DEF off, Joins

(* A block of block numbers.                                               *)
LEMMA NumbersRead ==
  ASSUME NEW img, NEW x, x # 0, NEW list, img[x] = put(ZeroBlock, Numbers(list)),
         NEW k \in Nat, Len(list) = k, DOMAIN list = 1 .. k, NEW i \in 1 .. NINDIR
  PROVE  ind(img, x)[i] = IF i <= k THEN list[i] ELSE 0
<1>1. i \in 1 .. BSIZE
  BY Sizes
<1>2. Len(Numbers(list)) = k /\ \A j \in 1 .. k : Numbers(list)[j].num = list[j]
  <2> DEFINE T == {Entry(list[j], NoName) : j \in 1 .. k}
  <2>1. Numbers(list) \in [1 .. k -> T]
    BY DEF Numbers
  <2> HIDE DEF T
  <2>2. Numbers(list) \in Seq(T)
    BY <2>1, SeqDef
  <2>3. Len(Numbers(list)) = k
    BY <2>1, <2>2, LenProperties
  <2> QED BY <2>3 DEF Numbers, Entry
<1>3. ind(img, x)[i] = img[x][i].num
  BY DEF ind, blk
<1>4. img[x][i] = IF i <= k THEN Numbers(list)[i] ELSE ZeroBlock[i]
  BY <1>1, <1>2 DEF put
<1>5. ZeroBlock[i].num = 0
  BY <1>1 DEF ZeroBlock, Zero
<1>6. i <= k => i \in 1 .. k
  BY <1>1
<1> QED BY <1>2, <1>3, <1>4, <1>5, <1>6

(* The indirect blocks of a file, as the reader finds them.                *)
LEMMA SingleRead ==
  ASSUME NEW text, Len(text) \in Nat, NEW b \in Nat, b > 0, NEW img, Laid(img, text, b),
         InSingle(DataBlocks(text)) > 0, NEW i \in 1 .. NINDIR
  PROVE  ind(img, b + DataBlocks(text))[i] = At(b, DataBlocks(text), NDIRECT + i - 1)
<1> DEFINE n == DataBlocks(text)
           x == b + n
           rest == [j \in 1 .. Beyond(n, NDIRECT) |-> b + NDIRECT + j - 1]
           list == Part(rest, 1, NINDIR)
<1>1. /\ n \in Nat /\ n + 1 <= BlocksTaken(n) /\ BlocksTaken(n) \in Nat
      /\ NDIRECT \in Nat /\ NINDIR \in Nat /\ n > NDIRECT /\ Beyond(n, NDIRECT) = n - NDIRECT
  <2>1. n \in Nat /\ n + 1 <= BlocksTaken(n) /\ BlocksTaken(n) \in Nat
    BY Taken
  <2> HIDE DEF n
  <2>2. InSingle(n) > 0
    BY DEF n
  <2> QED BY <2>1, <2>2, Sizes DEF InSingle, Beyond
<1>2. img[x] = put(ZeroBlock, Numbers(list))
  <2>1. x \in b .. b + BlocksTaken(n) - 1 /\ x - b = n
    <3> HIDE DEF n
    <3> QED BY <1>1
  <2>2. BufferFor(text, b, x) = Numbers(list)
    <3>1. BufferFor(text, b, x) = Numbers(Addresses(b, n).single)
      BY <1>1, <2>1 DEF BufferFor
    <3>2. Addresses(b, n).single = list
      BY DEF Addresses, AddressesPast
    <3> QED BY <3>1, <3>2, Zenon
  <2> QED BY <2>1, <2>2 DEF Laid
<1> DEFINE m == n - NDIRECT
           k == IF NINDIR < m THEN NINDIR ELSE m
<1>3. m \in Nat /\ k \in Nat /\ k <= m /\ (i <= k <=> i <= m)
  BY <1>1
<1>4. rest \in Seq(Nat) /\ Len(rest) = m /\ \A j \in 1 .. m : rest[j] = b + NDIRECT + j - 1
  <2>1. rest = [j \in 1 .. m |-> b + NDIRECT + j - 1]
    BY <1>1
  <2>2. rest \in [1 .. m -> Nat]
    <3> HIDE DEF m
    <3> QED BY <1>1, <1>3, <2>1
  <2> HIDE DEF m, rest
  <2>3. rest \in Seq(Nat)
    BY <1>3, <2>2, SeqDef
  <2> QED BY <1>3, <2>1, <2>2, <2>3, LenProperties
<1> HIDE DEF rest
<1>5. Len(list) = k /\ DOMAIN list = 1 .. k /\ \A j \in 1 .. k : list[j] = b + NDIRECT + j - 1
  <2> HIDE DEF m, k
  <2>1. Part(rest, 1, NINDIR) \in Seq(Nat) /\ IsPart(Part(rest, 1, NINDIR), rest, 1, k)
    <3> DEFINE one == 1
    <3>1. k \in Nat /\ one \in Nat /\ one > 0 /\ NINDIR \in Nat
      BY <1>1, <1>3
    <3>2. \/ NINDIR <= m /\ one + k = NINDIR + 1
          \/ NINDIR >= m /\ one + k = m + 1
      BY <1>1, <1>3 DEF k
    <3>3. HasPart(k, m, one, NINDIR)
      BY <3>1, <3>2, Zenon DEF HasPart
    <3> HIDE DEF one
    <3>4. Part(rest, one, NINDIR) \in Seq(Nat) /\ IsPart(Part(rest, one, NINDIR), rest, one, k)
      BY <1>4, <3>3, PartOf, Zenon
    <3> QED BY <3>4 DEF one
  <2>2. list \in Seq(Nat) /\ Len(list) = k /\ \A j \in 1 .. k : list[j] = rest[j]
    <3>1. \A j \in 1 .. k : 1 + j - 1 = j
      BY <1>3
    <3>2. list \in Seq(Nat) /\ IsPart(list, rest, 1, k)
      BY <2>1
    <3> HIDE DEF list
    <3> QED BY <3>1, <3>2 DEF IsPart
  <2> HIDE DEF list
  <2>3. DOMAIN list = 1 .. k
    BY <2>2, LenProperties
  <2> QED BY <1>3, <1>4, <2>2, <2>3
<1> HIDE DEF list, m, k, x
<1>6. ind(img, x)[i] = IF i <= k THEN list[i] ELSE 0
  <2>1. x # 0
    BY <1>1 DEF x
  <2> QED BY <1>2, <1>3, <1>5, <2>1, NumbersRead
<1>7. i <= k => list[i] = At(b, n, NDIRECT + i - 1)
  <2> HIDE DEF n
  <2> QED BY <1>1, <1>3, <1>5 DEF At, m
<1>8. ~(i <= k) => At(b, n, NDIRECT + i - 1) = 0
  <2> HIDE DEF n
  <2> QED BY <1>1, <1>3 DEF At, m
<1> QED BY <1>6, <1>7, <1>8 DEF x

LEMMA DoubleSizes ==
  ASSUME NEW text, Len(text) \in Nat, InDouble(DataBlocks(text)) > 0
  PROVE  LET n == DataBlocks(text)
             d == InDouble(n)
         IN  /\ n \in Nat /\ d \in Nat /\ n = NDIRECT + NINDIR + d
             /\ Beyond(n, NDIRECT) = NINDIR + d /\ InSingle(n) > 0
             /\ Inner(n) \in Nat /\ BlocksTaken(n) = n + Inner(n) + 2 /\ Inner(n) > 0
             /\ d <= Inner(n) * NINDIR
             /\ \A j \in 1 .. Inner(n) : (j - 1) * NINDIR \in Nat /\ (j - 1) * NINDIR < d
<1> DEFINE n == DataBlocks(text)
           d == InDouble(n)
<1>1. n \in Nat /\ Inner(n) \in Nat
  BY Taken
<1>2. d > 0
  OBVIOUS
<1> HIDE DEF n
<1>3. d \in Nat /\ n = NDIRECT + NINDIR + d /\ NDIRECT \in Nat /\ NINDIR \in Nat /\ NINDIR > 0
  BY <1>1, <1>2, Sizes DEF InDouble, Beyond
<1>4. Beyond(n, NDIRECT) = NINDIR + d /\ InSingle(n) > 0
  BY <1>2, <1>3, Sizes DEF InSingle, Beyond
<1> HIDE DEF d
<1>5. /\ d <= Inner(n) * NINDIR
      /\ \A k \in Nat : k < Inner(n) => k * NINDIR < d
  BY <1>3, Quotient DEF Inner, d
<1>6. Inner(n) > 0
  <2> DEFINE k == Inner(n)
  <2>1. k \in Nat /\ d <= k * NINDIR
    BY <1>1, <1>5
  <2> HIDE DEF k
  <2>2. k # 0
    BY <2>1, <1>2, <1>3
  <2>3. k > 0
    BY <2>1, <2>2
  <2> QED BY <2>3 DEF k
<1>7. BlocksTaken(n) = n + Inner(n) + 2
  BY <1>1, <1>2, <1>4 DEF BlocksTaken, d
<1>8. ASSUME NEW j \in 1 .. Inner(n) PROVE (j - 1) * NINDIR \in Nat /\ (j - 1) * NINDIR < d
  <2>1. j - 1 \in Nat /\ j - 1 < Inner(n)
    BY <1>1
  <2>2. (j - 1) * NINDIR \in Nat
    BY <2>1, <1>3
  <2> QED BY <2>1, <2>2, <1>5
<1> QED BY <1>1, <1>3, <1>4, <1>5, <1>6, <1>7, <1>8 DEF n, d

LEMMA InnerRead ==
  ASSUME NEW text, Len(text) \in Nat, NEW b \in Nat, b > 0, NEW img, Laid(img, text, b),
         InDouble(DataBlocks(text)) > 0,
         NEW j \in 1 .. Inner(DataBlocks(text)), NEW i \in 1 .. NINDIR
  PROVE  ind(img, b + DataBlocks(text) + j)[i] =
           At(b, DataBlocks(text), NDIRECT + NINDIR + (j - 1) * NINDIR + i - 1)
<1> DEFINE n == DataBlocks(text)
           d == InDouble(n)
           p == (j - 1) * NINDIR
           x == b + n + j
           rest == [y \in 1 .. Beyond(n, NDIRECT) |-> b + NDIRECT + y - 1]
           later == Part(rest, NINDIR + 1, Len(rest))
           list == Part(later, p + 1, p + NINDIR)
<1>1. /\ n \in Nat /\ d \in Nat /\ n = NDIRECT + NINDIR + d
      /\ Beyond(n, NDIRECT) = NINDIR + d /\ Inner(n) \in Nat
      /\ BlocksTaken(n) = n + Inner(n) + 2
      /\ p \in Nat /\ p < d /\ NDIRECT \in Nat /\ NINDIR \in Nat /\ NINDIR > 0
      /\ j * NINDIR = p + NINDIR /\ j \in 1 .. Inner(n)
  <2>1. /\ n \in Nat /\ d \in Nat /\ n = NDIRECT + NINDIR + d
        /\ Beyond(n, NDIRECT) = NINDIR + d /\ Inner(n) \in Nat
        /\ BlocksTaken(n) = n + Inner(n) + 2 /\ p \in Nat /\ p < d
    BY DoubleSizes
  <2>2. j \in Nat /\ j * NINDIR = p + NINDIR
    BY <2>1, Sizes
  <2> QED BY <2>1, <2>2, Sizes
<1>2. img[x] = put(ZeroBlock, Numbers(list))
  <2>1. x \in b .. b + BlocksTaken(n) - 1 /\ x - b = n + j /\ n + j > n /\ n + j <= n + Inner(n)
        /\ (n + j) - n = j /\ n + j # n /\ ~(n + j < n)
    <3> HIDE DEF n, p, d
    <3> QED BY <1>1
  <2>2. BufferFor(text, b, x) = Numbers(list)
    <3>1. BufferFor(text, b, x) = Numbers(Addresses(b, n).inner[j])
      <4>1. BufferFor(text, b, x) = Numbers(Addresses(b, n).inner[(x - b) - n])
        BY <2>1, Zenon DEF BufferFor
      <4> QED BY <4>1, <2>1, Zenon
    <3>2. Addresses(b, n).inner[j] = Part(later, (j - 1) * NINDIR + 1, j * NINDIR)
      BY Zenon DEF Addresses, AddressesPast
    <3> QED BY <3>1, <3>2, <1>1, Zenon
  <2> QED BY <2>1, <2>2, Zenon DEF Laid
<1> DEFINE m == NINDIR + d
<1> HIDE DEF n, d, p
<1>3. m \in Nat
  BY <1>1
<1>4. rest \in Seq(Nat) /\ Len(rest) = m /\ \A y \in 1 .. m : rest[y] = b + NDIRECT + y - 1
  <2>1. rest = [y \in 1 .. m |-> b + NDIRECT + y - 1]
    BY <1>1
  <2>2. rest \in [1 .. m -> Nat]
    <3> HIDE DEF m
    <3> QED BY <1>1, <1>3, <2>1
  <2> HIDE DEF m, rest
  <2>3. rest \in Seq(Nat)
    BY <1>3, <2>2, SeqDef
  <2> QED BY <1>3, <2>1, <2>2, <2>3, LenProperties
<1> HIDE DEF rest
<1>5. later \in Seq(Nat) /\ Len(later) = d /\ \A y \in 1 .. d : later[y] = b + NDIRECT + NINDIR + y - 1
  <2> DEFINE from == NINDIR + 1
             to == Len(rest)
  <2>1. from \in Nat /\ from > 0 /\ to \in Nat /\ to = m
    BY <1>1, <1>3, <1>4
  <2> HIDE DEF from, to, m
  <2>2. HasPart(d, Len(rest), from, to)
    BY <1>1, <1>4, <2>1 DEF from, m, HasPart
  <2>3. later = Part(rest, from, to)
    BY DEF from, to
  <2> HIDE DEF later
  <2>4. later \in Seq(Nat) /\ Len(later) = d /\ \A y \in 1 .. d : later[y] = rest[from + y - 1]
    <3>1. rest \in Seq(Nat)
      BY <1>4
    <3>2. Part(rest, from, to) \in Seq(Nat) /\ IsPart(Part(rest, from, to), rest, from, d)
      BY <3>1, <2>2, PartOf, Zenon
    <3> QED BY <3>2, <2>3, Zenon DEF IsPart
  <2>5. ASSUME NEW y \in 1 .. d PROVE later[y] = b + NDIRECT + NINDIR + y - 1
    <3>1. from + y - 1 \in 1 .. m /\ from + y - 1 = NINDIR + y
      BY <1>1 DEF from, m
    <3> QED BY <1>1, <1>4, <2>4, <3>1
  <2> QED BY <2>4, <2>5
<1> HIDE DEF later, m
<1> DEFINE k == IF p + NINDIR < d THEN NINDIR ELSE d - p
<1>6. k \in Nat /\ Len(list) = k /\ DOMAIN list = 1 .. k
      /\ \A y \in 1 .. k : list[y] = b + NDIRECT + NINDIR + p + y - 1
  <2> DEFINE from == p + 1
             to == p + NINDIR
  <2>1. from \in Nat /\ from > 0 /\ to \in Nat
    BY <1>1
  <2>2. list = Part(later, from, to)
    OBVIOUS
  <2> HIDE DEF from, to, list
  <2>3. HasPart(k, Len(later), from, to) /\ p + k <= d /\ k \in Nat
    BY <1>1, <1>5, <2>1 DEF from, to, HasPart
  <2> HIDE DEF k
  <2>4. list \in Seq(Nat) /\ Len(list) = k /\ \A y \in 1 .. k : list[y] = later[from + y - 1]
    <3>1. later \in Seq(Nat)
      BY <1>5
    <3>2. Part(later, from, to) \in Seq(Nat) /\ IsPart(Part(later, from, to), later, from, k)
      BY <3>1, <2>3, PartOf, Zenon
    <3> QED BY <3>2, <2>2, Zenon DEF IsPart
  <2>5. DOMAIN list = 1 .. k
    BY <2>4, LenProperties
  <2>6. ASSUME NEW y \in 1 .. k PROVE list[y] = b + NDIRECT + NINDIR + p + y - 1
    <3>1. from + y - 1 \in 1 .. d /\ from + y - 1 = p + y
      BY <1>1, <2>3 DEF from
    <3> QED BY <1>1, <1>5, <2>4, <3>1
  <2> QED BY <2>3, <2>4, <2>5, <2>6
<1> HIDE DEF list, x
<1>7. ind(img, x)[i] = IF i <= k THEN list[i] ELSE 0
  <2>1. x # 0
    BY <1>1 DEF x
  <2> HIDE DEF k
  <2> QED BY <1>2, <1>6, <2>1, NumbersRead
<1>8. i \in Nat /\ i >= 1 /\ (i <= k <=> NDIRECT + NINDIR + p + i - 1 < n)
  BY <1>1
<1> HIDE DEF k
<1>9. ind(img, x)[i] = At(b, n, NDIRECT + NINDIR + p + i - 1)
  <2>1. CASE i <= k
    <3>1. list[i] = b + (NDIRECT + NINDIR + p + i - 1)
      BY <1>1, <1>6, <1>8, <2>1
    <3> QED BY <3>1, <1>7, <1>8, <2>1 DEF At
  <2>2. CASE ~(i <= k)
    BY <1>7, <1>8, <2>2 DEF At
  <2> QED BY <2>1, <2>2
<1> QED BY <1>9 DEF x, n, p

LEMMA OuterRead ==
  ASSUME NEW text, Len(text) \in Nat, NEW b \in Nat, b > 0, NEW img, Laid(img, text, b),
         InDouble(DataBlocks(text)) > 0, NEW i \in 1 .. NINDIR
  PROVE  LET n == DataBlocks(text) IN
         ind(img, b + n + 1 + Inner(n))[i] = IF i <= Inner(n) THEN b + n + i ELSE 0
<1> DEFINE n == DataBlocks(text)
           k == Inner(n)
           x == b + n + 1 + k
           list == [j \in 1 .. k |-> b + n + j]
<1>1. n \in Nat /\ k \in Nat /\ BlocksTaken(n) = n + k + 2
  BY DoubleSizes
<1>2. img[x] = put(ZeroBlock, Numbers(list))
  <2>1. x \in b .. b + BlocksTaken(n) - 1 /\ ~(x - b < n) /\ x - b # n /\ ~(x - b <= n + k)
    <3> HIDE DEF n, k
    <3> QED BY <1>1
  <2>2. BufferFor(text, b, x) = Numbers(Addresses(b, n).outer)
    BY <2>1, Zenon DEF BufferFor
  <2>3. Addresses(b, n).outer = list
    BY Zenon DEF Addresses, AddressesPast
  <2> QED BY <2>1, <2>2, <2>3, Zenon DEF Laid
<1> HIDE DEF n, k
<1>3. Len(list) = k /\ DOMAIN list = 1 .. k
  <2>1. list \in [1 .. k -> Nat]
    BY <1>1
  <2> HIDE DEF list
  <2>2. list \in Seq(Nat)
    BY <2>1, <1>1, SeqDef
  <2> QED BY <2>1, <2>2, <1>1, LenProperties
<1>4. x # 0
  BY <1>1
<1>5. i <= k => list[i] = b + n + i
  BY <1>1
<1> HIDE DEF list, x
<1>6. ind(img, x)[i] = IF i <= k THEN list[i] ELSE 0
  BY <1>1, <1>2, <1>3, <1>4, NumbersRead
<1>7. ind(img, x)[i] = IF i <= k THEN b + n + i ELSE 0
  BY <1>5, <1>6
<1> QED BY <1>7 DEF x, n, k

LEMMA UpToZeroIs ==
  ASSUME NEW s \in Seq(Nat), NEW k \in 0 .. Len(s), \A i \in 1 .. k : s[i] # 0,
         k = Len(s) \/ s[k + 1] = 0
  PROVE  UpToZero(s) \in Seq(Nat) /\ IsPart(UpToZero(s), s, 1, k)
<1> DEFINE used == {m \in 0 .. Len(s) : \A i \in 1 .. m : s[i] # 0}
<1>1. Len(s) \in Nat /\ k \in Nat /\ k <= Len(s)
  BY LenProperties
<1>2. used = 0 .. k
  <2>1. ASSUME NEW m \in used, m > k PROVE FALSE
    <3>1. k + 1 \in 1 .. m /\ k # Len(s)
      BY <1>1, <2>1
    <3> QED BY <3>1, <2>1
  <2>2. \A m \in 0 .. k : m \in used
    BY <1>1
  <2>3. \A m \in used : m \in 0 .. k
    <3>1. \A m \in used : m \in Nat
      OBVIOUS
    <3> HIDE DEF used
    <3> QED BY <2>1, <3>1, <1>1
  <2> HIDE DEF used
  <2> QED BY <2>2, <2>3
<1>3. Max(used) = k
  <2>1. k \in used /\ \A m \in used : k >= m
    BY <1>1, <1>2
  <2>2. \A x \in used : (\A m \in used : x >= m) => x = k
    BY <1>1, <1>2
  <2> HIDE DEF used
  <2> QED BY <2>1, <2>2 DEF Max
<1>4. UpToZero(s) = SubSeq(s, 1, k)
  BY <1>3, Zenon DEF UpToZero
<1>5. \A i \in 1 .. k : s[i] \in Nat
  BY <1>1, ElementOfSeq
<1>6. /\ SubSeq(s, 1, k) \in Seq(Nat) /\ Len(SubSeq(s, 1, k)) = k
      /\ \A i \in 1 .. k : SubSeq(s, 1, k)[i] = s[1 + i - 1]
  <2>1. /\ SubSeq(s, 1, k) \in Seq(Nat)
        /\ Len(SubSeq(s, 1, k)) = IF 1 <= k THEN k - 1 + 1 ELSE 0
        /\ \A i \in 1 .. k - 1 + 1 : SubSeq(s, 1, k)[i] = s[1 + i - 1]
    BY <1>1, <1>5, SubSeqProperties
  <2> QED BY <1>1, <2>1
<1>7. DOMAIN SubSeq(s, 1, k) = 1 .. k
  BY <1>6, LenProperties
<1> QED BY <1>4, <1>6, <1>7 DEF IsPart

LEMMA SpanWhole ==
  ASSUME NEW text \in Seq(Cell), NEW K \in Nat, DataBlocks(text) <= K
  PROVE  SubSeq(Span(text, 0, K * BSIZE), 1, Len(text)) = text
<1> DEFINE len == K * BSIZE
           all == Span(text, 0, len)
<1>1. Len(text) \in Nat /\ BSIZE \in Nat /\ len \in Nat
  BY LenProperties, Sizes
<1>2. Len(text) <= len
  <2> DEFINE n == DataBlocks(text)
  <2>1. n \in Nat /\ Len(text) <= n * BSIZE
    BY <1>1, DataBlocksAre
  <2> HIDE DEF n
  <2>2. n <= K
    BY DEF n
  <2>3. n * BSIZE \in Nat /\ n * BSIZE <= len
    BY <1>1, <2>1, <2>2, Mono
  <2> QED BY <1>1, <2>1, <2>3
<1> HIDE DEF len
<1>3. /\ all \in Seq(Cell) /\ Len(all) = len
      /\ \A i \in 1 .. len : all[i] = IF 0 + i <= Len(text) THEN text[0 + i] ELSE Zero
  BY <1>1, SpanIs
<1> HIDE DEF all
<1>4. \A i \in 1 .. Len(text) : all[i] = text[i]
  BY <1>1, <1>2, <1>3
<1>5. \A i \in 1 .. Len(text) : all[i] \in Cell
  BY <1>4, ElementOfSeq
<1>6. /\ SubSeq(all, 1, Len(text)) \in Seq(Cell)
      /\ Len(SubSeq(all, 1, Len(text))) = Len(text)
      /\ \A i \in 1 .. Len(text) : SubSeq(all, 1, Len(text))[i] = text[i]
  <2> DEFINE m == Len(text)
  <2>1. m \in Nat /\ \A i \in 1 .. m : all[i] \in Cell
    BY <1>1, <1>5
  <2> HIDE DEF m
  <2>2. /\ SubSeq(all, 1, m) \in Seq(Cell)
        /\ Len(SubSeq(all, 1, m)) = IF 1 <= m THEN m - 1 + 1 ELSE 0
        /\ \A i \in 1 .. m - 1 + 1 : SubSeq(all, 1, m)[i] = all[1 + i - 1]
    BY <2>1, SubSeqProperties
  <2>3. Len(SubSeq(all, 1, m)) = m /\ \A i \in 1 .. m : SubSeq(all, 1, m)[i] = all[i]
    BY <2>1, <2>2
  <2> QED BY <2>2, <2>3, <1>4 DEF m
<1>7. SubSeq(all, 1, Len(text)) = text
  BY <1>6, SeqEqual
<1> QED BY <1>7 DEF all, len

LEMMA IndLen ==
  ASSUME NEW img, NEW x
  PROVE  Len(ind(img, x)) = NINDIR /\ DOMAIN ind(img, x) = 1 .. NINDIR
<1> DEFINE T == {blk(img, x)[i].num : i \in 1 .. NINDIR}
           f == ind(img, x)
<1>1. f \in [1 .. NINDIR -> T]
  BY DEF ind
<1> HIDE DEF T, f
<1>2. f \in Seq(T)
  BY <1>1, Sizes, SeqDef
<1>3. Len(f) = NINDIR
  BY <1>1, <1>2, Sizes, LenProperties
<1> QED BY <1>1, <1>3 DEF f

LEMMA IndTyped ==
  ASSUME NEW img, NEW x, \A i \in 1 .. NINDIR : ind(img, x)[i] \in Nat
  PROVE  ind(img, x) \in Seq(Nat)
<1> DEFINE s == ind(img, x)
<1>1. s = [i \in 1 .. NINDIR |-> s[i]]
  <2>1. s = [i \in 1 .. NINDIR |-> blk(img, x)[i].num]
    BY DEF ind
  <2> HIDE DEF s
  <2> QED BY <2>1, Zenon
<1>2. \A i \in 1 .. NINDIR : s[i] \in Nat
  OBVIOUS
<1> HIDE DEF s
<1>3. s \in [1 .. NINDIR -> Nat]
  BY <1>1, <1>2
<1>4. s \in Seq(Nat)
  BY <1>3, Sizes, SeqDef
<1> QED BY <1>4 DEF s

LEMMA DirectAts ==
  ASSUME NEW text, Len(text) \in Nat, NEW b \in Nat, NEW o, o = 0
  PROVE  /\ SubSeq(AddrOf(text, b), 1, NDIRECT) \in Seq(Nat)
         /\ Ats(SubSeq(AddrOf(text, b), 1, NDIRECT), text, b, o, NDIRECT)
<1> DEFINE n == DataBlocks(text)
           a == AddrOf(text, b)
           numbers == SubSeq(a, 1, NDIRECT)
<1>1. n \in Nat /\ NDIRECT \in Nat /\ NADDR = NDIRECT + 3
  BY DataBlocksAre, Sizes
<1>2. \A i \in 1 .. NDIRECT : a[i] = At(b, n, o + i - 1)
  <2> SUFFICES ASSUME NEW i \in 1 .. NDIRECT PROVE a[i] = At(b, n, o + i - 1)
    OBVIOUS
  <2>1. a[i] = IF i <= n THEN b + i - 1 ELSE 0
    BY <1>1 DEF AddrOf
  <2> HIDE DEF n, a
  <2> QED BY <2>1, <1>1 DEF At
<1> HIDE DEF n, a
<1>3. \A i \in 1 .. NDIRECT : a[i] \in Nat
  BY <1>1, <1>2 DEF At
<1>4. /\ numbers \in Seq(Nat) /\ Len(numbers) = NDIRECT
      /\ \A i \in 1 .. NDIRECT : numbers[i] = a[i]
  <2>1. /\ SubSeq(a, 1, NDIRECT) \in Seq(Nat)
        /\ Len(SubSeq(a, 1, NDIRECT)) = IF 1 <= NDIRECT THEN NDIRECT - 1 + 1 ELSE 0
        /\ \A i \in 1 .. NDIRECT - 1 + 1 : SubSeq(a, 1, NDIRECT)[i] = a[1 + i - 1]
    BY <1>1, <1>3, SubSeqProperties
  <2> QED BY <1>1, <2>1
<1> HIDE DEF numbers
<1>5. \A i \in 1 .. NDIRECT : numbers[i] = At(b, DataBlocks(text), o + i - 1)
  BY <1>2, <1>4, Zenon DEF n
<1>6. Ats(numbers, text, b, o, NDIRECT)
  BY <1>4, <1>5, Zenon DEF Ats
<1> QED BY <1>4, <1>6 DEF numbers, a

LEMMA DirectData ==
  ASSUME NEW text \in Seq(Cell), NEW b \in Nat, b > 0, NEW img, Laid(img, text, b)
  PROVE  Joined(img, SubSeq(AddrOf(text, b), 1, NDIRECT)) = Span(text, 0, NDIRECT * BSIZE)
<1> DEFINE zero == 0
           numbers == SubSeq(AddrOf(text, b), 1, NDIRECT)
<1>1. zero \in Nat /\ zero = 0 /\ NDIRECT \in Nat /\ Len(text) \in Nat
  BY LenProperties, Sizes
<1> HIDE DEF zero
<1>2. Ats(numbers, text, b, zero, NDIRECT)
  BY <1>1, DirectAts
<1> HIDE DEF numbers
<1>3. Joins(img, numbers, text, zero, NDIRECT)
  BY <1>1, <1>2, JoinedIs, Zenon
<1>4. zero * BSIZE = 0
  BY <1>1, Sizes
<1> QED BY <1>3, <1>4, Zenon DEF numbers, Joins

LEMMA SingleData ==
  ASSUME NEW text \in Seq(Cell), NEW b \in Nat, b > 0, NEW img, Laid(img, text, b),
         InSingle(DataBlocks(text)) > 0
  PROVE  Joined(img, ind(img, b + DataBlocks(text))) = Span(text, NDIRECT * BSIZE, NINDIR * BSIZE)
<1> DEFINE numbers == ind(img, b + DataBlocks(text))
<1>1. Len(numbers) = NINDIR
  BY IndLen
<1>2. \A i \in 1 .. NINDIR : numbers[i] = At(b, DataBlocks(text), NDIRECT + i - 1)
  BY LenProperties, SingleRead
<1> HIDE DEF numbers
<1>3. Joined(img, numbers) = Span(text, NDIRECT * BSIZE, NINDIR * BSIZE)
  <2>1. NDIRECT \in Nat /\ NINDIR \in Nat
    BY Sizes
  <2>2. Ats(numbers, text, b, NDIRECT, NINDIR)
    BY <1>1, <1>2, Zenon DEF Ats
  <2>3. Joins(img, numbers, text, NDIRECT, NINDIR)
    BY <2>1, <2>2, JoinedIs, Zenon
  <2> QED BY <2>3, Zenon DEF Joins
<1> QED BY <1>3 DEF numbers

LEMMA OuterIs ==
  ASSUME NEW text \in Seq(Cell), NEW b \in Nat, b > 0, NEW img, Laid(img, text, b),
         InDouble(DataBlocks(text)) > 0, Inner(DataBlocks(text)) <= NINDIR
  PROVE  LET n == DataBlocks(text)
             outer == UpToZero(ind(img, b + n + 1 + Inner(n)))
         IN  /\ outer \in Seq(Nat) /\ Len(outer) = Inner(n) /\ DOMAIN outer = 1 .. Inner(n)
             /\ \A i \in 1 .. Inner(n) : outer[i] = b + n + i
<1> DEFINE n == DataBlocks(text)
           k == Inner(n)
           s == ind(img, b + n + 1 + k)
<1>1. n \in Nat /\ k \in Nat /\ k <= NINDIR /\ NINDIR \in Nat
  BY LenProperties, DoubleSizes, Sizes
<1>2. \A i \in 1 .. NINDIR : s[i] = IF i <= k THEN b + n + i ELSE 0
  BY LenProperties, OuterRead
<1>3. Len(s) = NINDIR /\ DOMAIN s = 1 .. NINDIR
  BY IndLen
<1>5. s \in Seq(Nat)
  <2> DEFINE x == b + n + 1 + k
  <2>1. \A i \in 1 .. NINDIR : ind(img, x)[i] \in Nat
    <3> DEFINE z == s
    <3>1. z = ind(img, x)
      OBVIOUS
    <3> HIDE DEF z, n, k, x
    <3> QED BY <1>1, <1>2, <3>1 DEF z
  <2> HIDE DEF x
  <2>2. ind(img, x) \in Seq(Nat)
    BY <2>1, IndTyped
  <2> QED BY <2>2 DEF x
<1> HIDE DEF n, k, s
<1>6. k \in 0 .. Len(s) /\ (\A i \in 1 .. k : s[i] # 0) /\ (k = Len(s) \/ s[k + 1] = 0)
  BY <1>1, <1>2, <1>3
<1>7. UpToZero(s) \in Seq(Nat) /\ IsPart(UpToZero(s), s, 1, k)
  BY <1>5, <1>6, UpToZeroIs
<1>8. \A i \in 1 .. k : UpToZero(s)[i] = b + n + i
  <2>1. \A i \in 1 .. k : UpToZero(s)[i] = s[1 + i - 1]
    BY <1>7 DEF IsPart
  <2> QED BY <1>1, <1>2, <2>1
<1> QED BY <1>7, <1>8 DEF IsPart, s, n, k

LEMMA DoubleData ==
  ASSUME NEW text \in Seq(Cell), NEW b \in Nat, b > 0, NEW img, Laid(img, text, b),
         InDouble(DataBlocks(text)) > 0, Inner(DataBlocks(text)) <= NINDIR
  PROVE  LET n == DataBlocks(text)
             outer == UpToZero(ind(img, b + n + 1 + Inner(n)))
         IN  FlattenSeq([i \in 1 .. Len(outer) |-> Joined(img, ind(img, outer[i]))]) =
               Span(text, (NDIRECT + NINDIR) * BSIZE, Inner(n) * (NINDIR * BSIZE))
<1> DEFINE n == DataBlocks(text)
           k == Inner(n)
           outer == UpToZero(ind(img, b + n + 1 + k))
           o == (NDIRECT + NINDIR) * BSIZE
           w == NINDIR * BSIZE
           parts == [i \in 1 .. Len(outer) |-> Joined(img, ind(img, outer[i]))]
<1>1. /\ outer \in Seq(Nat) /\ Len(outer) = k /\ DOMAIN outer = 1 .. k
      /\ \A i \in 1 .. k : outer[i] = b + n + i
  BY OuterIs
<1>2. n \in Nat /\ k \in Nat /\ o \in Nat /\ w \in Nat
  BY LenProperties, DoubleSizes, Sizes
<1> HIDE DEF outer
<1>3. ASSUME NEW j \in 1 .. k
      PROVE  Joined(img, ind(img, outer[j])) = Span(text, o + (j - 1) * w, w)
  <2> DEFINE numbers == ind(img, b + n + j)
             off == NDIRECT + NINDIR + (j - 1) * NINDIR
  <2>1. Len(numbers) = NINDIR
    BY IndLen
  <2>2. \A i \in 1 .. NINDIR : numbers[i] = At(b, DataBlocks(text), off + i - 1)
    BY LenProperties, InnerRead
  <2>3. off \in Nat
    <3>1. j - 1 \in Nat
      BY <1>2
    <3>2. (j - 1) * NINDIR \in Nat
      BY <3>1, Sizes
    <3> QED BY <3>2, Sizes
  <2>4. off * BSIZE = o + (j - 1) * w
    <3>1. j \in Nat /\ NDIRECT \in Nat /\ NINDIR \in Nat /\ BSIZE \in Nat
      BY Sizes, <1>2
    <3> QED BY <3>1
  <2> HIDE DEF numbers, off
  <2>5. Joined(img, numbers) = Span(text, off * BSIZE, NINDIR * BSIZE)
    <3>1. NINDIR \in Nat
      BY Sizes
    <3>2. Ats(numbers, text, b, off, NINDIR)
      BY <2>1, <2>2, Zenon DEF Ats
    <3>3. Joins(img, numbers, text, off, NINDIR)
      BY <2>3, <3>1, <3>2, JoinedIs, Zenon
    <3> QED BY <3>3, Zenon DEF Joins
  <2>6. outer[j] = b + n + j
    BY <1>1
  <2> QED BY <2>4, <2>5, <2>6, Zenon DEF numbers
<1>4. parts = Spans(text, o, w, k)
  BY <1>1, <1>3, Zenon DEF Spans
<1> HIDE DEF parts, o, w, k
<1>5. FlattenSeq(parts) = Span(text, o, k * w)
  BY <1>2, <1>4, FlatSpans
<1> QED BY <1>5, Zenon DEF parts, outer, o, w, k, n

(* data() of s5fs.py finds the words that store_data put down, however     *)
(* many levels of indirection they took.                                   *)
LEMMA ReadBack ==
  ASSUME NEW text \in Seq(Cell), NEW b \in Nat, b > 0, NEW img, Laid(img, text, b),
         Inner(DataBlocks(text)) <= NINDIR,
         NEW ino, ino.addr = AddrOf(text, b), ino.size = Len(text)
  PROVE  data(img, ino) = text
<1> DEFINE n == DataBlocks(text)
           a == AddrOf(text, b)
           single == a[NDIRECT + 1]
           double == a[NDIRECT + 2]
           outer == UpToZero(ind(img, double))
           first == Joined(img, SubSeq(a, 1, NDIRECT))
           second == IF single = 0 THEN <<>> ELSE Joined(img, ind(img, single))
           third == IF double = 0 THEN <<>> ELSE
                      FlattenSeq([i \in 1 .. Len(outer) |-> Joined(img, ind(img, outer[i]))])
           all == first \o second \o third
<1>0. data(img, ino) = SubSeq(all, 1, Len(text))
  BY Zenon DEF data
<1>1. /\ n \in Nat /\ Inner(n) \in Nat /\ InSingle(n) \in Nat /\ InDouble(n) \in Nat
      /\ NDIRECT \in Nat /\ NINDIR \in Nat /\ NADDR = NDIRECT + 3 /\ BSIZE \in Nat /\ NINDIR > 0
  BY LenProperties, Taken, Sizes DEF InSingle, InDouble, Beyond
<1>2. single = IF InSingle(n) > 0 THEN b + n ELSE 0
  BY <1>1 DEF AddrOf
<1>3. double = IF InDouble(n) > 0 THEN b + n + 1 + Inner(n) ELSE 0
  BY <1>1 DEF AddrOf
<1> DEFINE p == NDIRECT * BSIZE
           q == NINDIR * BSIZE
<1>4. p \in Nat /\ q \in Nat
  BY <1>1
<1>5. first = Span(text, 0, p)
  BY DirectData
<1> HIDE DEF first
<1>6. InSingle(n) > 0 => second = Span(text, p, q)
  <2> SUFFICES ASSUME InSingle(n) > 0 PROVE second = Span(text, p, q)
    OBVIOUS
  <2>1. single = b + n /\ single # 0
    BY <1>1, <1>2
  <2>2. second = Joined(img, ind(img, b + n))
    BY <2>1, Zenon
  <2> HIDE DEF second
  <2> QED BY <2>2, SingleData
<1>7. InDouble(n) > 0 => third = Span(text, (NDIRECT + NINDIR) * BSIZE, Inner(n) * q)
  <2> SUFFICES ASSUME InDouble(n) > 0
               PROVE  third = Span(text, (NDIRECT + NINDIR) * BSIZE, Inner(n) * q)
    OBVIOUS
  <2>1. double = b + n + 1 + Inner(n) /\ double # 0
    BY <1>1, <1>3
  <2> DEFINE outer2 == UpToZero(ind(img, b + n + 1 + Inner(n)))
  <2>2. third = FlattenSeq([i \in 1 .. Len(outer2) |-> Joined(img, ind(img, outer2[i]))])
    BY <2>1, Zenon
  <2> HIDE DEF third
  <2> QED BY <2>2, DoubleData, Zenon
<1>8. InSingle(n) = 0 => second = <<>> /\ InDouble(n) = 0 /\ n <= NDIRECT
  <2> SUFFICES ASSUME InSingle(n) = 0 PROVE second = <<>> /\ InDouble(n) = 0 /\ n <= NDIRECT
    OBVIOUS
  <2>1. single = 0
    BY <1>2
  <2>2. second = <<>>
    BY <2>1, Zenon
  <2> HIDE DEF second, n
  <2> QED BY <1>1, <2>2 DEF InSingle, InDouble, Beyond
<1>9. InDouble(n) = 0 => third = <<>> /\ n <= NDIRECT + NINDIR
  <2> SUFFICES ASSUME InDouble(n) = 0 PROVE third = <<>> /\ n <= NDIRECT + NINDIR
    OBVIOUS
  <2>1. double = 0
    BY <1>3
  <2>2. third = <<>>
    BY <2>1, Zenon
  <2> HIDE DEF third, n
  <2> QED BY <1>1, <2>2 DEF InDouble, Beyond
<1> HIDE DEF second, third
<1>10. \E K \in Nat : n <= K /\ all = Span(text, 0, K * BSIZE)
  <2>1. first \in Seq(Cell)
    BY <1>4, <1>5, SpanIs
  <2>2. CASE InSingle(n) = 0
    <3>1. all = first
      BY <1>8, <1>9, <2>1, <2>2, ConcatEmptySeq
    <3>2. n <= NDIRECT /\ NDIRECT \in Nat /\ all = Span(text, 0, NDIRECT * BSIZE)
      BY <1>1, <1>5, <1>8, <2>2, <3>1
    <3> HIDE DEF all
    <3> QED BY <3>2, Zenon
  <2>3. CASE InSingle(n) > 0
    <3>1. first \o second = Span(text, 0, p + q)
      <4>1. 0 + p = p
        BY <1>4
      <4>2. Span(text, 0, p) \o Span(text, 0 + p, q) = Span(text, 0, p + q)
        <5> DEFINE zero == 0
        <5>1. zero \in Nat /\ p \in Nat /\ q \in Nat
          BY <1>4
        <5> HIDE DEF zero, p, q
        <5>2. Span(text, zero, p) \o Span(text, zero + p, q) = Span(text, zero, p + q)
          BY <5>1, SpanJoin, Zenon
        <5> QED BY <5>2, Zenon DEF zero
      <4> QED BY <4>1, <4>2, <1>5, <1>6, <2>3, Zenon
    <3>2. p + q = (NDIRECT + NINDIR) * BSIZE /\ p + q \in Nat
      BY <1>1, <1>4
    <3>3. CASE InDouble(n) = 0
      <4>1. first \o second \in Seq(Cell)
        BY <3>1, <3>2, SpanIs
      <4>2. all = first \o second
        BY <4>1, <1>9, <3>3, ConcatEmptySeq
      <4>3. n <= NDIRECT + NINDIR /\ NDIRECT + NINDIR \in Nat
        BY <1>1, <1>9, <3>3
      <4> HIDE DEF all
      <4> QED BY <3>1, <3>2, <4>2, <4>3, Zenon
    <3>4. CASE InDouble(n) > 0
      <4> DEFINE r == Inner(n) * q
                 K == NDIRECT + NINDIR + Inner(n) * NINDIR
      <4>1. r \in Nat /\ K \in Nat /\ p + q + r = K * BSIZE
        <5> DEFINE k == Inner(n)
        <5>1. k \in Nat
          BY <1>1
        <5> HIDE DEF k, n
        <5>2. k * NINDIR \in Nat /\ k * q \in Nat
          BY <5>1, <1>1, <1>4
        <5>3. p + q + k * q = (NDIRECT + NINDIR + k * NINDIR) * BSIZE
          BY <5>1, <1>1
        <5>4. NDIRECT + NINDIR + k * NINDIR \in Nat
          <6> DEFINE y == k * NINDIR
          <6>1. y \in Nat /\ NDIRECT \in Nat /\ NINDIR \in Nat
            BY <5>2, <1>1
          <6> HIDE DEF y
          <6>2. NDIRECT + NINDIR + y \in Nat
            BY <6>1
          <6> QED BY <6>2 DEF y
        <5> QED BY <5>2, <5>3, <5>4, Zenon DEF k
      <4>2. all = Span(text, 0, p + q + r)
        <5> DEFINE c == p + q
        <5>1. third = Span(text, c, r) /\ first \o second = Span(text, 0, c)
          BY <1>7, <3>1, <3>2, <3>4, Zenon
        <5>2. c \in Nat /\ 0 + c = c
          BY <3>2
        <5> HIDE DEF c, r, p, q
        <5>3. Span(text, 0, c) \o Span(text, 0 + c, r) = Span(text, 0, c + r)
          <6> DEFINE zero == 0
          <6>1. zero \in Nat
            OBVIOUS
          <6> HIDE DEF zero
          <6>2. Span(text, zero, c) \o Span(text, zero + c, r) = Span(text, zero, c + r)
            BY <4>1, <5>2, <6>1, SpanJoin, Zenon
          <6> QED BY <6>2, Zenon DEF zero
        <5>4. all = Span(text, 0, c + r)
          BY <5>1, <5>2, <5>3, Zenon
        <5> QED BY <5>4 DEF c
      <4>3. n <= K
        <5>1. n = NDIRECT + NINDIR + InDouble(n) /\ InDouble(n) <= Inner(n) * NINDIR
          BY <3>4, LenProperties, DoubleSizes
        <5> DEFINE x == Inner(n) * NINDIR
                   d == InDouble(n)
        <5>2. x \in Nat /\ d \in Nat
          BY <1>1
        <5> HIDE DEF x, d
        <5>3. d <= x => NDIRECT + NINDIR + d <= NDIRECT + NINDIR + x
          BY <5>2, <1>1
        <5> QED BY <5>1, <5>3 DEF x, d
      <4> HIDE DEF all, K, r, p, q
      <4> QED BY <4>1, <4>2, <4>3, Zenon
    <3>5. InDouble(n) = 0 \/ InDouble(n) > 0
      <4> DEFINE d == InDouble(n)
      <4>1. d \in Nat
        BY <1>1
      <4> HIDE DEF d
      <4>2. d = 0 \/ d > 0
        BY <4>1
      <4> QED BY <4>2 DEF d
    <3> QED BY <3>3, <3>4, <3>5
  <2>4. InSingle(n) = 0 \/ InSingle(n) > 0
    <3> DEFINE d == InSingle(n)
    <3>1. d \in Nat
      BY <1>1
    <3> HIDE DEF d
    <3>2. d = 0 \/ d > 0
      BY <3>1
    <3> QED BY <3>2 DEF d
  <2> QED BY <2>2, <2>3, <2>4
<1>11. PICK K \in Nat : n <= K /\ all = Span(text, 0, K * BSIZE)
  BY <1>10, Zenon
<1> HIDE DEF all
<1>12. SubSeq(all, 1, Len(text)) = text
  BY <1>11, SpanWhole
<1> QED BY <1>0, <1>12, Zenon

-----------------------------------------------------------------------------
(* The bytes of a block number.                                            *)
LEMMA DivIs ==
  ASSUME NEW x \in Nat, NEW w \in Nat, w > 0, NEW q \in Nat, NEW r \in Nat, r < w, x = w * q + r
  PROVE  x \div w = q /\ x % w = r
<1> DEFINE p == x \div w
           s == x % w
<1>1. p \in Nat /\ s \in Nat /\ s < w /\ x = w * p + s
  OBVIOUS
<1> HIDE DEF p, s
<1>2. ~(p < q)
  <2> SUFFICES ASSUME p < q PROVE FALSE
    OBVIOUS
  <2>1. (p + 1) * w <= q * w /\ (p + 1) * w = w * p + w /\ q * w = w * q
    BY <1>1, Mono
  <2>2. w * p \in Nat /\ w * q \in Nat
    BY <1>1
  <2> QED BY <1>1, <2>1, <2>2
<1>3. ~(q < p)
  <2> SUFFICES ASSUME q < p PROVE FALSE
    OBVIOUS
  <2>1. (q + 1) * w <= p * w /\ (q + 1) * w = w * q + w /\ p * w = w * p
    BY <1>1, Mono
  <2>2. w * p \in Nat /\ w * q \in Nat
    BY <1>1
  <2> QED BY <1>1, <2>1, <2>2
<1>4. p = q
  BY <1>1, <1>2, <1>3
<1>5. s = r
  <2>1. w * p = w * q /\ w * q \in Nat
    BY <1>4
  <2> QED BY <1>1, <2>1
<1> QED BY <1>4, <1>5 DEF p, s

LEMMA ThreeBytes ==
  ASSUME NEW x \in Nat, NEW B \in Nat, B > 0, x < B * B * B
  PROVE  (x % B) + ((x \div B) % B) * B + ((x \div (B * B)) % B) * B * B = x
<1> DEFINE q1 == x \div B
           r0 == x % B
<1>1. q1 \in Nat /\ r0 \in Nat /\ r0 < B /\ x = B * q1 + r0
  OBVIOUS
<1> HIDE DEF q1, r0
<1> DEFINE q2 == q1 \div B
           r1 == q1 % B
<1>2. q2 \in Nat /\ r1 \in Nat /\ r1 < B /\ q1 = B * q2 + r1
  BY <1>1
<1> HIDE DEF q2, r1
<1> DEFINE r == r1 * B + r0
           C == B * B
<1>3. C \in Nat /\ C > 0 /\ r1 * B \in Nat /\ r \in Nat
  <2>1. B * B \in Nat /\ r1 * B \in Nat
    BY <1>2
  <2>2. 1 * B <= B * B /\ 1 * B = B
    BY Mono
  <2> QED BY <1>1, <2>1, <2>2
<1>4. r < C
  <2>1. (r1 + 1) * B <= B * B /\ (r1 + 1) * B = r1 * B + B
    BY <1>2, Mono
  <2> HIDE DEF C
  <2> QED BY <1>1, <1>3, <2>1 DEF C
<1>5. x = C * q2 + r
  BY <1>1, <1>2
<1> HIDE DEF C, r
<1>6. x \div C = q2
  BY <1>2, <1>3, <1>4, <1>5, DivIs
<1>7. q2 < B
  <2> SUFFICES ASSUME ~(q2 < B) PROVE FALSE
    OBVIOUS
  <2>1. B <= q2
    BY <1>2
  <2>2. B * C <= q2 * C /\ q2 * C \in Nat /\ B * C \in Nat
    BY <1>2, <1>3, <2>1, Mono
  <2>3. B * C = B * B * B /\ q2 * C = C * q2
    BY <1>2, <1>3 DEF C
  <2> QED BY <1>3, <1>5, <2>2, <2>3
<1>8. q2 % B = q2
  BY <1>2, <1>7
<1>9. r0 + r1 * B + q2 * B * B = x
  <2>1. q2 * B * B = C * q2
    BY <1>2 DEF C
  <2> QED BY <1>1, <1>2, <1>3, <1>5, <2>1 DEF r
<1>10. (x \div B) % B = r1 /\ x % B = r0 /\ (x \div (B * B)) % B = q2
  BY <1>6, <1>8 DEF r1, q1, r0, C
<1> QED BY <1>9, <1>10, Zenon

(* What the reader takes from the i-list is the inode that was packed.     *)
IsInode(ino) ==
  /\ ino = [kind |-> ino.kind, exec |-> ino.exec, nlink |-> ino.nlink, size |-> ino.size,
            addr |-> ino.addr]
  /\ ino.addr \in [1 .. NADDR -> Nat]

LEMMA InodeRead ==
  ASSUME NEW ino, IsInode(ino), \A k \in 1 .. NADDR : ino.addr[k] < BYTE * BYTE * BYTE,
         NEW list, NEW n, list[n] = pack_inode(ino)
  PROVE  inode(list, n) = ino
<1> DEFINE B == BYTE
           bytes == BytesOf(ino.addr)
<1>0. B \in Nat /\ B > 0 /\ NADDR \in Nat
  BY MkfsAssumption, Sizes
<1>1. ASSUME NEW k \in 1 .. NADDR
      PROVE  bytes[3 * k - 2] + bytes[3 * k - 1] * B + bytes[3 * k] * B * B = ino.addr[k]
  <2> DEFINE a == ino.addr[k]
  <2>1. a \in Nat /\ a < B * B * B
    BY DEF IsInode
  <2>2. bytes[3 * k - 2] = a % B
    <3>1. 3 * k - 2 \in 1 .. 3 * NADDR /\ (3 * k - 2 + 2) \div 3 = k /\ (3 * k - 2) % 3 = 1
      BY <1>0
    <3> QED BY <3>1 DEF BytesOf
  <2>3. bytes[3 * k - 1] = (a \div B) % B
    <3>1. 3 * k - 1 \in 1 .. 3 * NADDR /\ (3 * k - 1 + 2) \div 3 = k /\ (3 * k - 1) % 3 = 2
      BY <1>0
    <3> QED BY <3>1 DEF BytesOf
  <2>4. bytes[3 * k] = (a \div (B * B)) % B
    <3>1. 3 * k \in 1 .. 3 * NADDR /\ (3 * k + 2) \div 3 = k /\ (3 * k) % 3 = 0
      BY <1>0
    <3> QED BY <3>1 DEF BytesOf
  <2> HIDE DEF a, B, bytes
  <2>5. (a % B) + ((a \div B) % B) * B + ((a \div (B * B)) % B) * B * B = a
    BY <1>0, <2>1, ThreeBytes
  <2> QED BY <2>2, <2>3, <2>4, <2>5, Zenon DEF a
<1>2. inode(list, n) =
        [kind |-> ino.kind, exec |-> ino.exec, nlink |-> ino.nlink, size |-> ino.size,
         addr |-> [k \in 1 .. NADDR |->
                     bytes[3 * k - 2] + bytes[3 * k - 1] * B + bytes[3 * k] * B * B]]
  <2>1. /\ list[n].kind = ino.kind /\ list[n].exec = ino.exec /\ list[n].nlink = ino.nlink
        /\ list[n].size = ino.size /\ list[n].bytes = bytes
    BY DEF pack_inode
  <2> HIDE DEF bytes
  <2> QED BY <2>1, Zenon DEF inode
<1> HIDE DEF bytes, B
<1>3. [k \in 1 .. NADDR |-> bytes[3 * k - 2] + bytes[3 * k - 1] * B + bytes[3 * k] * B * B] =
        [k \in 1 .. NADDR |-> ino.addr[k]]
  BY <1>1, Zenon
<1>4. [k \in 1 .. NADDR |-> ino.addr[k]] = ino.addr
  BY DEF IsInode
<1>5. ino = [kind |-> ino.kind, exec |-> ino.exec, nlink |-> ino.nlink, size |-> ino.size,
             addr |-> ino.addr]
  BY Zenon DEF IsInode
<1> QED BY <1>2, <1>3, <1>4, <1>5, Zenon

-----------------------------------------------------------------------------
LEMMA GrownByInode ==
  ASSUME NEW t, TreeInv(t), NEW dir, NEW name, NEW ino, ino.kind # "dir"
  PROVE  Grown(t, WithEntry(WithInode(t, ino), dir, t.next_ino, name), {ino.kind})
<1> DEFINE n == t.next_ino
           a == WithInode(t, ino)
           s == WithEntry(a, dir, n, name)
<1>1. /\ DOMAIN t = {"inodes", "dirs", "entries", "next_ino"} /\ n \in Nat /\ ROOTINO < n
      /\ DOMAIN t.inodes = Nums(t) /\ n \notin Nums(t)
      /\ \A p \in DOMAIN t.dirs : t.dirs[p] \in Nums(t)
  BY DEF TreeInv, Nums, ROOTINO
<1>2. /\ a.inodes = Set(t.inodes, n, ino) /\ a.dirs = t.dirs /\ a.next_ino = n + 1
      /\ DOMAIN a = DOMAIN t
  BY <1>1 DEF WithInode
<1> HIDE DEF a
<1>3. s.inodes = a.inodes /\ s.dirs = a.dirs /\ s.next_ino = a.next_ino
  BY <1>1, <1>2 DEF WithEntry
<1> HIDE DEF s
<1>4. /\ s.inodes[n] = ino /\ \A m \in Nums(t) : s.inodes[m] = t.inodes[m]
  BY <1>1, <1>2, <1>3 DEF Set
<1>5. Nums(s) = Nums(t) \cup {n} /\ s.dirs = t.dirs
  BY <1>1, <1>2, <1>3 DEF Nums, ROOTINO
<1> HIDE DEF n
<1>6. DirsInv(t) => DirsInv(s)
  BY <1>1, <1>4, <1>5 DEF DirsInv
<1> QED BY <1>4, <1>5, <1>6 DEF Grown, s, a, n

LEMMA GrownByName ==
  ASSUME NEW t, TreeInv(t), NEW dir, NEW name, NEW n \in Nums(t), NEW kinds
  PROVE  Grown(t, WithLink(WithEntry(t, dir, n, name), n), kinds)
<1> DEFINE d == WithEntry(t, dir, n, name)
           s == WithLink(d, n)
<1>1. /\ DOMAIN t = {"inodes", "dirs", "entries", "next_ino"} /\ DOMAIN t.inodes = Nums(t)
      /\ t.inodes \in [Nums(t) -> InodeType]
  BY DEF TreeInv
<1>2. /\ d.inodes = t.inodes /\ d.dirs = t.dirs /\ d.next_ino = t.next_ino /\ DOMAIN d = DOMAIN t
  BY <1>1 DEF WithEntry
<1> HIDE DEF d
<1>3. /\ s.inodes = [d.inodes EXCEPT ![n].nlink = @ + 1] /\ s.dirs = d.dirs
      /\ s.next_ino = d.next_ino
  BY <1>1, <1>2 DEF WithLink
<1> HIDE DEF s
<1>4. Nums(s) = Nums(t) /\ s.dirs = t.dirs
  BY <1>2, <1>3 DEF Nums
<1>5. ASSUME NEW m \in Nums(t)
      PROVE  /\ s.inodes[m].kind = t.inodes[m].kind /\ s.inodes[m].size = t.inodes[m].size
             /\ s.inodes[m].addr = t.inodes[m].addr
  BY <1>1, <1>2, <1>3 DEF InodeType
<1>6. DirsInv(t) => DirsInv(s)
  BY <1>4, <1>5 DEF DirsInv
<1> QED BY <1>4, <1>5, <1>6 DEF Grown, s, d

-----------------------------------------------------------------------------
(* Where the blocks of a file begin; a file of no blocks has none anyway.  *)
Start(ino) == IF ino.addr[1] = 0 THEN first_data ELSE ino.addr[1]

Extent(ino, text) == Start(ino) .. Start(ino) + BlocksTaken(DataBlocks(text)) - 1

(* The inode says where the text is.                                       *)
Holds(ino, text) ==
  /\ ino.kind # "node" /\ ino.size = Len(text) /\ ino.addr = AddrOf(text, Start(ino))
  /\ Start(ino) \in Nat /\ Start(ino) > 0
  /\ Inner(DataBlocks(text)) <= NINDIR

(* Everything written, w, is in the image below block b.                   *)
Kept(t, w, img, b) ==
  \A n \in DOMAIN w :
    /\ w[n] \in Seq(Cell) /\ Holds(t.inodes[n], w[n])
    /\ Extent(t.inodes[n], w[n]) \subseteq first_data .. b - 1
    /\ Laid(img, w[n], Start(t.inodes[n]))

(* Every block below b belongs to one of the things written, and to no two.*)
Tiled(t, w, b) ==
  /\ \A x \in first_data .. b - 1 : \E n \in DOMAIN w : x \in Extent(t.inodes[n], w[n])
  /\ \A m, n \in DOMAIN w : m # n =>
       \A x \in Extent(t.inodes[m], w[m]) : x \notin Extent(t.inodes[n], w[n])

(* From block b on nothing has been written yet.                           *)
Untouched(img, b) == \A x \in b .. NBlocks - 1 : img[x] = ZeroBlock

LEMMA SameExtent ==
  ASSUME NEW ino, NEW other, other.addr = ino.addr, NEW text
  PROVE  Start(other) = Start(ino) /\ Extent(other, text) = Extent(ino, text)
  BY DEF Start, Extent

LEMMA KeptAsGrown ==
  ASSUME NEW t, NEW s, NEW kinds, Grown(t, s, kinds), NEW w, DOMAIN w \subseteq Nums(t),
         NEW img, NEW b, Kept(t, w, img, b), Tiled(t, w, b)
  PROVE  Kept(s, w, img, b) /\ Tiled(s, w, b)
<1>1. ASSUME NEW n \in DOMAIN w
      PROVE  /\ s.inodes[n].kind = t.inodes[n].kind /\ s.inodes[n].size = t.inodes[n].size
             /\ s.inodes[n].addr = t.inodes[n].addr
             /\ Start(s.inodes[n]) = Start(t.inodes[n])
             /\ Extent(s.inodes[n], w[n]) = Extent(t.inodes[n], w[n])
  <2>1. /\ s.inodes[n].kind = t.inodes[n].kind /\ s.inodes[n].size = t.inodes[n].size
        /\ s.inodes[n].addr = t.inodes[n].addr
    BY DEF Grown
  <2> QED BY <2>1, SameExtent, Zenon
<1>2. Kept(s, w, img, b)
  BY <1>1 DEF Kept, Holds
<1>3. Tiled(s, w, b)
  BY <1>1 DEF Tiled
<1> QED BY <1>2, <1>3

LEMMA NoBlocks ==
  ASSUME NEW text, Len(text) \in Nat, DataBlocks(text) = 0
  PROVE  BlocksTaken(DataBlocks(text)) = 0
<1>1. InSingle(0) = 0 /\ InDouble(0) = 0
  BY Sizes DEF InSingle, InDouble, Beyond
<1> QED BY <1>1 DEF BlocksTaken

(* An inode that has been given its blocks.                                *)
LEMMA DataIn ==
  ASSUME NEW ino \in InodeType, ino.kind # "node", NEW text, Len(text) \in Nat,
         NEW b \in Nat, b >= first_data, Inner(DataBlocks(text)) <= NINDIR
  PROVE  LET new == WithData(ino, text, b) IN
         /\ Holds(new, text)
         /\ Extent(new, text) = b .. b + BlocksTaken(DataBlocks(text)) - 1
         /\ BlocksTaken(DataBlocks(text)) > 0 => Start(new) = b
<1> DEFINE new == WithData(ino, text, b)
           n == DataBlocks(text)
<1>1. new = [ino EXCEPT !.size = Len(text), !.addr = AddrOf(text, b)]
  BY DEF WithData, AddrOf
<1>2. new.kind # "node" /\ new.size = Len(text) /\ new.addr = AddrOf(text, b)
  BY <1>1 DEF InodeType
<1> HIDE DEF new
<1>3. n \in Nat
  BY DataBlocksAre
<1>4. AddrOf(text, b)[1] = IF n = 0 THEN 0 ELSE b
  <2>1. NDIRECT \in Nat /\ NDIRECT > 0 /\ NADDR = NDIRECT + 3
    BY Sizes
  <2>2. ASSUME NEW i \in 1 .. NDIRECT
        PROVE  AddrOf(text, b)[i] = IF i <= n THEN b + i - 1 ELSE 0
    BY <1>3, <2>1 DEF AddrOf
  <2>3. AddrOf(text, b)[1] = IF 1 <= n THEN b + 1 - 1 ELSE 0
    BY <2>1, <2>2
  <2> HIDE DEF n
  <2> QED BY <1>3, <2>3
<1>5. Start(new) = IF n = 0 THEN first_data ELSE b
  BY <1>2, <1>4, Sizes DEF Start
<1>6. CASE n = 0
  <2>1. BlocksTaken(n) = 0
    BY <1>6, NoBlocks
  <2>2. AddrOf(text, b) = AddrOf(text, first_data)
    <3>1. InSingle(n) = 0 /\ InDouble(n) = 0
      BY <1>6, Sizes DEF InSingle, InDouble, Beyond
    <3>2. NDIRECT \in Nat /\ NDIRECT > 0 /\ NADDR = NDIRECT + 3
      BY Sizes
    <3>3. ASSUME NEW c, NEW i \in 1 .. NADDR PROVE AddrOf(text, c)[i] = 0
      BY <1>6, <3>1, <3>2 DEF AddrOf
    <3>4. \A c : DOMAIN AddrOf(text, c) = 1 .. NADDR
          /\ AddrOf(text, c) = [i \in DOMAIN AddrOf(text, c) |-> AddrOf(text, c)[i]]
      BY DEF AddrOf
    <3>5. \A c : AddrOf(text, c) = [i \in 1 .. NADDR |-> 0]
      <4> TAKE c
      <4> DEFINE f == AddrOf(text, c)
      <4>1. DOMAIN f = 1 .. NADDR /\ f = [i \in DOMAIN f |-> f[i]] /\ \A i \in 1 .. NADDR : f[i] = 0
        BY <3>3, <3>4
      <4> HIDE DEF f
      <4>2. f = [i \in 1 .. NADDR |-> 0]
        BY <4>1
      <4> QED BY <4>2 DEF f
    <3> QED BY <3>5, Zenon
  <2>3. Extent(new, text) = b .. b + BlocksTaken(n) - 1
    <3>1. first_data .. first_data + 0 - 1 = {} /\ b .. b + 0 - 1 = {}
      BY Sizes
    <3>2. Extent(new, text) = first_data .. first_data + 0 - 1
      BY <1>5, <1>6, <2>1 DEF Extent
    <3> QED BY <2>1, <3>1, <3>2
  <2>4. Start(new) = first_data
    BY <1>5, <1>6
  <2>5. Holds(new, text)
    BY <1>2, <2>2, <2>4, Sizes DEF Holds
  <2> QED BY <2>1, <2>3, <2>5 DEF new
<1>7. CASE n # 0
  <2>1. Start(new) = b
    BY <1>5, <1>7
  <2>2. Extent(new, text) = b .. b + BlocksTaken(n) - 1
    BY <2>1 DEF Extent
  <2>3. Holds(new, text)
    BY <1>2, <2>1, Sizes DEF Holds
  <2> QED BY <2>1, <2>2, <2>3 DEF new
<1> QED BY <1>6, <1>7

(* What else is in the image stays readable when something is stored from  *)
(* block b on, and so is what was stored.                                  *)
LEMMA KeptAsStored ==
  ASSUME NEW t, TreeInv(t), NEW w, DOMAIN w \subseteq Nums(t), NEW img, ImageInv(img),
         NEW b \in Nat, b >= first_data, Kept(t, w, img, b), Tiled(t, w, b), Untouched(img, b),
         NEW n \in Nums(t), n \notin DOMAIN w, t.inodes[n].kind # "node",
         NEW text \in Seq(Cell), Inner(DataBlocks(text)) <= NINDIR,
         b + BlocksTaken(DataBlocks(text)) <= NBlocks
  PROVE  LET s     == [t EXCEPT !.inodes[n] = WithData(@, text, b)]
             after == b + BlocksTaken(DataBlocks(text))
         IN  /\ Kept(s, Set(w, n, text), Stored(img, text, b), after)
             /\ Tiled(s, Set(w, n, text), after)
             /\ Untouched(Stored(img, text, b), after)
<1> DEFINE new   == WithData(t.inodes[n], text, b)
           taken == BlocksTaken(DataBlocks(text))
           after == b + taken
           s     == [t EXCEPT !.inodes[n] = WithData(@, text, b)]
           v     == Set(w, n, text)
           img2  == Stored(img, text, b)
<1>1. Len(text) \in Nat /\ taken \in Nat /\ t.inodes[n] \in InodeType
      /\ first_data \in Nat /\ NBlocks \in Nat /\ b <= NBlocks
  <2>1. Len(text) \in Nat /\ t.inodes[n] \in InodeType
    BY LenProperties DEF TreeInv
  <2>2. taken \in Nat
    BY <2>1, Taken
  <2>3. first_data \in Nat /\ NBlocks \in Nat /\ b + taken <= NBlocks
    BY Sizes
  <2> HIDE DEF taken
  <2> QED BY <2>1, <2>2, <2>3
<1>0. after - 1 = b + taken - 1
  <2> HIDE DEF taken
  <2> QED BY <1>1
<1>2. /\ Holds(new, text) /\ Extent(new, text) = b .. after - 1
      /\ taken > 0 => Start(new) = b
  <2> DEFINE ino == t.inodes[n]
  <2>1. ino \in InodeType /\ ino.kind # "node"
    BY <1>1
  <2> HIDE DEF ino
  <2>2. LET x == WithData(ino, text, b) IN
        /\ Holds(x, text)
        /\ Extent(x, text) = b .. b + BlocksTaken(DataBlocks(text)) - 1
        /\ BlocksTaken(DataBlocks(text)) > 0 => Start(x) = b
    BY <1>1, <2>1, DataIn
  <2> HIDE DEF after
  <2> QED BY <1>0, <2>2 DEF ino
<1>3. s.inodes[n] = new /\ \A m \in Nums(t) : m # n => s.inodes[m] = t.inodes[m]
  BY DEF TreeInv
<1>4. /\ DOMAIN v = DOMAIN w \cup {n} /\ v[n] = text
      /\ \A m \in DOMAIN w : m # n /\ v[m] = w[m] /\ s.inodes[m] = t.inodes[m]
  BY <1>3 DEF Set
<1>5. /\ \A x \in b .. after - 1 : img2[x] = put(ZeroBlock, BufferFor(text, b, x))
      /\ \A x \in DOMAIN img : x \notin b .. after - 1 => img2[x] = img[x]
  <2>1. b .. after - 1 \subseteq DOMAIN img
    BY <1>1 DEF ImageInv
  <2>2. \A x \in b .. after - 1 : img[x] = ZeroBlock
    BY <1>1 DEF Untouched
  <2>3. img2 = [x \in DOMAIN img |->
                  IF x \in b .. after - 1 THEN put(img[x], BufferFor(text, b, x)) ELSE img[x]]
    <3> HIDE DEF after
    <3> QED BY <1>0 DEF Stored
  <2> HIDE DEF after, img2
  <2> QED BY <2>1, <2>2, <2>3
<1> HIDE DEF new, s, v, img2
<1>6. Laid(img2, text, Start(new))
  <2>1. CASE taken = 0
    <3>1. \A x : x \notin Start(new) .. Start(new) + taken - 1
      BY <1>2, <2>1 DEF Holds
    <3> QED BY <3>1 DEF Laid
  <2>2. CASE taken > 0
    <3>1. \A x \in b .. b + taken - 1 : img2[x] = put(ZeroBlock, BufferFor(text, b, x))
      <4> HIDE DEF after, taken
      <4> QED BY <1>0, <1>5
    <3> QED BY <1>2, <2>2, <3>1 DEF Laid
  <2> QED BY <1>1, <2>1, <2>2
<1> HIDE DEF taken
<1>7. ASSUME NEW m \in DOMAIN w
      PROVE  /\ v[m] \in Seq(Cell) /\ Holds(s.inodes[m], v[m])
             /\ Extent(s.inodes[m], v[m]) \subseteq first_data .. b - 1
             /\ Laid(img2, v[m], Start(s.inodes[m]))
  <2>1. v[m] = w[m] /\ s.inodes[m] = t.inodes[m]
    BY <1>4
  <2>2. /\ w[m] \in Seq(Cell) /\ Holds(t.inodes[m], w[m])
        /\ Extent(t.inodes[m], w[m]) \subseteq first_data .. b - 1
        /\ Laid(img, w[m], Start(t.inodes[m]))
    BY DEF Kept
  <2>3. ASSUME NEW x \in Extent(t.inodes[m], w[m]) PROVE img2[x] = img[x]
    <3>1. x \in first_data .. b - 1
      BY <2>2
    <3>2. x \in DOMAIN img /\ x \notin b .. after - 1
      <4>1. x \notin b .. after - 1
        BY <3>1, <1>1
      <4>2. b - 1 <= NBlocks - 1
        BY <1>1
      <4>3. DOMAIN img = first_data .. NBlocks - 1
        BY DEF ImageInv
      <4> QED BY <3>1, <4>1, <4>2, <4>3, <1>1
    <3> QED BY <3>2, <1>5
  <2>4. Laid(img2, w[m], Start(t.inodes[m]))
    BY <2>2, <2>3 DEF Laid, Extent
  <2> QED BY <2>1, <2>2, <2>4
<1>8. first_data .. b - 1 \subseteq first_data .. after - 1
      /\ b .. after - 1 \subseteq first_data .. after - 1
  BY <1>1
<1>9. Kept(s, v, img2, after)
  <2> SUFFICES ASSUME NEW m \in DOMAIN v
               PROVE  /\ v[m] \in Seq(Cell) /\ Holds(s.inodes[m], v[m])
                      /\ Extent(s.inodes[m], v[m]) \subseteq first_data .. after - 1
                      /\ Laid(img2, v[m], Start(s.inodes[m]))
    BY DEF Kept
  <2> HIDE DEF after
  <2>1. CASE m = n
    BY <2>1, <1>2, <1>3, <1>4, <1>6, <1>8
  <2>2. CASE m # n
    <3>1. m \in DOMAIN w
      BY <2>2, <1>4
    <3> QED BY <3>1, <1>7, <1>8
  <2> QED BY <2>1, <2>2
<1>10. Extent(s.inodes[n], v[n]) = b .. after - 1
  BY <1>2, <1>3, <1>4
<1>11. \A m \in DOMAIN w : Extent(s.inodes[m], v[m]) = Extent(t.inodes[m], w[m])
  BY <1>4
<1>12. Tiled(s, v, after)
  <2>1. ASSUME NEW x \in first_data .. after - 1
        PROVE  \E m \in DOMAIN v : x \in Extent(s.inodes[m], v[m])
    <3>1. CASE x \in b .. after - 1
      BY <3>1, <1>4, <1>10
    <3>2. CASE x \in first_data .. b - 1
      <4>1. PICK m \in DOMAIN w : x \in Extent(t.inodes[m], w[m])
        BY <3>2 DEF Tiled
      <4> QED BY <4>1, <1>4, <1>11
    <3>3. x \in b .. after - 1 \/ x \in first_data .. b - 1
      BY <1>1
    <3> QED BY <3>1, <3>2, <3>3
  <2>2. ASSUME NEW m \in DOMAIN w, NEW x PROVE ~(x \in Extent(s.inodes[m], v[m]) /\ x \in b .. after - 1)
    <3>1. Extent(s.inodes[m], v[m]) \subseteq first_data .. b - 1
      BY <1>7
    <3>2. x \in first_data .. b - 1 => x \notin b .. after - 1
      BY <1>1
    <3> QED BY <3>1, <3>2
  <2>3. ASSUME NEW l \in DOMAIN v, NEW m \in DOMAIN v, l # m, NEW x \in Extent(s.inodes[l], v[l])
        PROVE  x \notin Extent(s.inodes[m], v[m])
    <3>1. CASE l = n
      <4>1. m \in DOMAIN w
        BY <3>1, <2>3, <1>4
      <4>2. x \in b .. after - 1
        BY <3>1, <1>10, <2>3
      <4> QED BY <4>1, <4>2, <2>2
    <3>2. CASE m = n
      <4>1. l \in DOMAIN w
        BY <3>2, <2>3, <1>4
      <4>2. x \notin b .. after - 1
        BY <4>1, <2>2
      <4> QED BY <3>2, <4>2, <1>10
    <3>3. CASE l # n /\ m # n
      <4>1. l \in DOMAIN w /\ m \in DOMAIN w
        BY <3>3, <1>4
      <4> QED BY <4>1, <2>3, <1>11 DEF Tiled
    <3> QED BY <3>1, <3>2, <3>3
  <2> QED BY <2>1, <2>3 DEF Tiled
<1>13. Untouched(img2, after)
  <2> SUFFICES ASSUME NEW x \in after .. NBlocks - 1 PROVE img2[x] = ZeroBlock
    BY DEF Untouched
  <2>1. x \in DOMAIN img /\ x \notin b .. after - 1 /\ x \in b .. NBlocks - 1
    BY <1>1 DEF ImageInv
  <2> QED BY <2>1, <1>5 DEF Untouched
<1> QED BY <1>9, <1>12, <1>13 DEF s, v, img2, taken

-----------------------------------------------------------------------------
(***************************************************************************)
(* The free list, when all blocks from x on are free.  Where the last block*)
(* would follow stands 0.                                                  *)
(***************************************************************************)
Number(y) == IF y = NBlocks THEN 0 ELSE y

(* The piece in memory: block x comes last, and is the first one taken.    *)
Ahead(list, x) ==
  /\ list.nfree \in 1 .. NICFREE /\ x + list.nfree <= NBlocks + 1
  /\ list.tfree = NBlocks - x
  /\ list.free \in [1 .. NICFREE -> Nat]
  /\ \A i \in 1 .. list.nfree : list.free[i] = Number(x + list.nfree - i)

(* The piece in block h.                                                   *)
Piece(img, h) ==
  /\ h + NICFREE <= NBlocks /\ img[h][1].num = NICFREE
  /\ \A i \in 1 .. NICFREE : img[h][i + 1].num = Number(h + 1 + NICFREE - i)

(* H are the blocks of pieces, and each leads to the next.                 *)
Pieces(img, H) ==
  \A h \in H : Piece(img, h) /\ (h + NICFREE \in H \/ h + NICFREE = NBlocks)

(* The pieces from block top on.                                           *)
Chained(img, x, top) ==
  \E H : /\ H \subseteq x .. NBlocks - 1 /\ Pieces(img, H)
         /\ top \in H \/ top = NBlocks

FreeFrom(s, x) ==
  /\ ImageInv(s.img) /\ \A y \in DOMAIN image : y < x => s.img[y] = image[y]
  /\ Ahead(s.list, x) /\ Chained(s.img, x, x + s.list.nfree - 1)

LEMMA PieceWritten ==
  ASSUME NEW free \in [1 .. NICFREE -> Nat]
  PROVE  LET block == put(ZeroBlock, Numbers(<<NICFREE>> \o free)) IN
         /\ DOMAIN block = 1 .. BSIZE /\ block[1].num = NICFREE
         /\ \A i \in 1 .. NICFREE : block[i + 1].num = free[i]
<1> DEFINE list == <<NICFREE>> \o free
           block == put(ZeroBlock, Numbers(list))
<1>1. NICFREE \in Nat /\ NICFREE > 0 /\ BSIZE \in Nat /\ NICFREE < BSIZE
  BY Sizes, MkfsAssumption
<1>2. free \in Seq(Nat) /\ Len(free) = NICFREE
  <2>1. free \in Seq(Nat)
    BY <1>1, SeqDef
  <2> QED BY <2>1, <1>1, LenProperties
<1>3. <<NICFREE>> \in Seq(Nat) /\ Len(<<NICFREE>>) = 1 /\ <<NICFREE>>[1] = NICFREE
  BY <1>1
<1>4. /\ Len(list) = NICFREE + 1 /\ list[1] = NICFREE
      /\ \A i \in 1 .. NICFREE : list[i + 1] = free[i]
  <2> DEFINE one == <<NICFREE>>
  <2>1. one \in Seq(Nat) /\ Len(one) = 1 /\ one[1] = NICFREE
    BY <1>3
  <2> HIDE DEF one
  <2>2. /\ Len(one \o free) = Len(one) + Len(free)
        /\ \A i \in 1 .. Len(one) + Len(free) :
             (one \o free)[i] = IF i <= Len(one) THEN one[i] ELSE free[i - Len(one)]
    BY <1>2, <2>1, ConcatProperties
  <2>3. Len(one \o free) = NICFREE + 1
    BY <2>1, <2>2, <1>1, <1>2
  <2>4. (one \o free)[1] = NICFREE
    BY <2>1, <2>2, <1>1, <1>2
  <2>5. ASSUME NEW i \in 1 .. NICFREE PROVE (one \o free)[i + 1] = free[i]
    <3>1. i + 1 \in 1 .. Len(one) + Len(free) /\ ~(i + 1 <= Len(one)) /\ (i + 1) - Len(one) = i
      BY <2>1, <1>1, <1>2
    <3> QED BY <2>2, <3>1
  <2> QED BY <2>3, <2>4, <2>5 DEF one
<1> HIDE DEF list
<1>5. \A i \in 1 .. NICFREE + 1 : block[i].num = list[i]
  BY <1>1, <1>4 DEF put, Numbers, Entry
<1>6. DOMAIN block = 1 .. BSIZE
  BY DEF put
<1> HIDE DEF block
<1> QED BY <1>1, <1>4, <1>5, <1>6 DEF block, list

LEMMA FirstFreed ==
  ASSUME ImageInv(image)
  PROVE  FreeFrom(bfree([img |-> image, list |-> NoFree], 0), NBlocks)
<1> DEFINE r == bfree([img |-> image, list |-> NoFree], 0)
<1>1. NICFREE \in Nat /\ NICFREE > 0 /\ NBlocks \in Nat
  BY Sizes
<1>2. NoFree.nfree = 0 /\ NoFree.free = [i \in 1 .. NICFREE |-> 0]
  BY DEF NoFree
<1>3. /\ r.img = image /\ r.list.nfree = 1 /\ r.list.tfree = 0
      /\ r.list.free = [NoFree.free EXCEPT ![1] = 0]
  BY <1>1, <1>2 DEF bfree
<1> HIDE DEF r
<1>4. Ahead(r.list, NBlocks)
  <2>1. r.list.free \in [1 .. NICFREE -> Nat] /\ r.list.free[1] = 0
    BY <1>1, <1>2, <1>3
  <2>2. \A i \in 1 .. 1 : r.list.free[i] = Number(NBlocks + 1 - i)
    BY <1>1, <2>1 DEF Number
  <2> QED BY <1>1, <1>3, <2>1, <2>2 DEF Ahead
<1>5. Chained(r.img, NBlocks, NBlocks + r.list.nfree - 1)
  <2>1. Pieces(r.img, {})
    BY DEF Pieces
  <2>2. NBlocks + r.list.nfree - 1 = NBlocks
    BY <1>1, <1>3
  <2> QED BY <2>1, <2>2 DEF Chained
<1> QED BY <1>3, <1>4, <1>5 DEF FreeFrom, r

LEMMA NextFreed ==
  ASSUME ImageInv(image), NEW s, NEW b \in first_data .. NBlocks - 1, FreeFrom(s, b + 1)
  PROVE  FreeFrom(bfree(s, b), b)
<1> DEFINE r == bfree(s, b)
           k == s.list.nfree
<1>1. /\ NICFREE \in Nat /\ NICFREE > 0 /\ NBlocks \in Nat /\ first_data \in Nat
      /\ b \in Nat /\ b > 0 /\ b < NBlocks
  BY Sizes
<1>2. /\ k \in 1 .. NICFREE /\ k \in Nat /\ b + 1 + k <= NBlocks + 1
      /\ s.list.tfree = NBlocks - (b + 1)
      /\ s.list.free \in [1 .. NICFREE -> Nat]
      /\ \A i \in 1 .. k : s.list.free[i] = Number(b + 1 + k - i)
  <2>1. Ahead(s.list, b + 1)
    BY DEF FreeFrom
  <2>2. k \in 1 .. NICFREE /\ b + 1 + k <= NBlocks + 1 /\ s.list.tfree = NBlocks - (b + 1)
    BY <2>1 DEF Ahead
  <2>3. /\ s.list.free \in [1 .. NICFREE -> Nat]
        /\ \A i \in 1 .. k : s.list.free[i] = Number(b + 1 + k - i)
    BY <2>1, Zenon DEF Ahead
  <2> QED BY <1>1, <2>2, <2>3
<1>3. PICK H : /\ H \subseteq b + 1 .. NBlocks - 1 /\ Pieces(s.img, H)
               /\ b + 1 + k - 1 \in H \/ b + 1 + k - 1 = NBlocks
  BY DEF FreeFrom, Chained
<1>4. b + 1 + k - 1 = b + k
  <2> HIDE DEF k
  <2> QED BY <1>1, <1>2
<1>5. /\ ImageInv(s.img) /\ \A y \in DOMAIN image : y < b + 1 => s.img[y] = image[y]
      /\ DOMAIN s.img = DOMAIN image /\ \A y \in DOMAIN image : y < b => y < b + 1
  <2>1. ImageInv(s.img) /\ \A y \in DOMAIN image : y < b + 1 => s.img[y] = image[y]
    BY DEF FreeFrom
  <2>2. DOMAIN s.img = DOMAIN image /\ DOMAIN image = first_data .. NBlocks - 1
    BY <2>1 DEF ImageInv
  <2>3. \A y \in first_data .. NBlocks - 1 : y < b => y < b + 1
    BY <1>1
  <2> QED BY <2>1, <2>2, <2>3
<1>6. r.list.tfree = NBlocks - b
  BY <1>1, <1>2 DEF bfree
<1>7. H \subseteq b .. NBlocks - 1 /\ b \notin H
  BY <1>1, <1>3
<1>8. CASE k = NICFREE
  <2> DEFINE block == put(ZeroBlock, Numbers(<<NICFREE>> \o s.list.free))
  <2>1. /\ r.img = [s.img EXCEPT ![b] = block]
        /\ r.list.nfree = 1 /\ r.list.free = [s.list.free EXCEPT ![1] = b]
    BY <1>8 DEF bfree
  <2>2. /\ DOMAIN block = 1 .. BSIZE /\ block[1].num = NICFREE
        /\ \A i \in 1 .. NICFREE : block[i + 1].num = s.list.free[i]
    BY <1>2, PieceWritten, Zenon
  <2> HIDE DEF block, r
  <2>3. /\ ImageInv(r.img) /\ b \in DOMAIN s.img /\ r.img[b] = block
        /\ \A y \in DOMAIN s.img : y # b => r.img[y] = s.img[y]
    BY <1>1, <1>5, <2>1, <2>2 DEF ImageInv
  <2>4. \A y \in DOMAIN image : y < b => r.img[y] = image[y]
    <3> SUFFICES ASSUME NEW y \in DOMAIN image, y < b PROVE r.img[y] = image[y]
      OBVIOUS
    <3>1. y \in DOMAIN s.img /\ y # b /\ y < b + 1
      BY <1>1, <1>5
    <3> QED BY <3>1, <2>3, <1>5
  <2>5. Ahead(r.list, b)
    <3>1. r.list.free \in [1 .. NICFREE -> Nat] /\ r.list.free[1] = b
      <4> DEFINE free == s.list.free
      <4>1. 1 \in 1 .. NICFREE /\ b \in Nat /\ free \in [1 .. NICFREE -> Nat]
        BY <1>1, <1>2
      <4> HIDE DEF free
      <4>2. [free EXCEPT ![1] = b] \in [1 .. NICFREE -> Nat] /\ [free EXCEPT ![1] = b][1] = b
        BY <4>1
      <4> QED BY <2>1, <4>2 DEF free
    <3>2. \A i \in 1 .. 1 : r.list.free[i] = Number(b + 1 - i)
      BY <1>1, <3>1 DEF Number
    <3> QED BY <1>1, <1>6, <2>1, <3>1, <3>2 DEF Ahead, r
  <2>6. Piece(r.img, b)
    <3>1. b + NICFREE <= NBlocks
      BY <1>1, <1>2, <1>8
    <3>2. ASSUME NEW i \in 1 .. NICFREE
          PROVE  r.img[b][i + 1].num = Number(b + 1 + NICFREE - i)
      <4>1. r.img[b][i + 1].num = s.list.free[i]
        BY <2>2, <2>3
      <4>2. s.list.free[i] = Number(b + 1 + k - i)
        BY <1>2, <1>8
      <4> QED BY <4>1, <4>2, <1>8
    <3>3. r.img[b][1].num = NICFREE
      BY <2>2, <2>3
    <3> QED BY <3>1, <3>2, <3>3 DEF Piece
  <2>7. ASSUME NEW h \in H PROVE Piece(r.img, h)
    <3>1. r.img[h] = s.img[h]
      BY <1>7, <2>1
    <3> QED BY <3>1, <1>3 DEF Pieces, Piece
  <2>8. Pieces(r.img, H \cup {b})
    <3>1. b + NICFREE \in H \/ b + NICFREE = NBlocks
      BY <1>3, <1>4, <1>8
    <3> QED BY <3>1, <2>6, <2>7, <1>3 DEF Pieces
  <2>9. Chained(r.img, b, b + r.list.nfree - 1)
    <3>1. b + r.list.nfree - 1 = b /\ H \cup {b} \subseteq b .. NBlocks - 1
      BY <1>1, <1>7, <2>1
    <3> QED BY <3>1, <2>8 DEF Chained
  <2> QED BY <2>3, <2>4, <2>5, <2>9 DEF FreeFrom, r
<1>9. CASE k # NICFREE
  <2>1. /\ r.img = s.img /\ r.list.nfree = k + 1
        /\ r.list.free = [s.list.free EXCEPT ![k + 1] = b]
    BY <1>9 DEF bfree
  <2> HIDE DEF r, k
  <2>2. k + 1 \in 1 .. NICFREE
    BY <1>1, <1>2, <1>9
  <2>3. Ahead(r.list, b)
    <3>1. /\ r.list.free \in [1 .. NICFREE -> Nat] /\ r.list.free[k + 1] = b
          /\ \A i \in 1 .. k : r.list.free[i] = s.list.free[i]
      <4> DEFINE old == s.list.free
                 new == r.list.free
      <4>1. old \in [1 .. NICFREE -> Nat] /\ new = [old EXCEPT ![k + 1] = b]
        BY <1>2, <2>1
      <4>2. \A i \in 1 .. k : i # k + 1
        BY <1>2
      <4> HIDE DEF old, new
      <4>3. /\ new \in [1 .. NICFREE -> Nat] /\ new[k + 1] = b
            /\ \A i \in 1 .. k : new[i] = old[i]
        BY <4>1, <4>2, <2>2, <1>1
      <4> QED BY <4>3 DEF old, new
    <3>2. \A i \in 1 .. k : r.list.free[i] = Number(b + (k + 1) - i)
      <4>1. \A i \in 1 .. k : b + 1 + k - i = b + (k + 1) - i
        BY <1>1, <1>2
      <4> QED BY <1>2, <3>1, <4>1
    <3>3. r.list.free[k + 1] = Number(b + (k + 1) - (k + 1))
      BY <1>1, <1>2, <3>1 DEF Number
    <3>4. \A i \in 1 .. k + 1 : r.list.free[i] = Number(b + (k + 1) - i)
      <4>1. \A i \in 1 .. k + 1 : i \in 1 .. k \/ i = k + 1
        BY <1>2
      <4> QED BY <4>1, <3>2, <3>3
    <3>5. b + (k + 1) <= NBlocks + 1
      BY <1>1, <1>2
    <3> QED BY <1>6, <2>1, <2>2, <3>1, <3>4, <3>5 DEF Ahead, r
  <2>4. Chained(r.img, b, b + r.list.nfree - 1)
    <3>1. b + r.list.nfree - 1 = b + 1 + k - 1
      BY <1>1, <1>2, <2>1
    <3> QED BY <3>1, <1>3, <1>7, <2>1 DEF Chained
  <2>5. \A y \in DOMAIN image : y < b => r.img[y] = image[y]
    BY <1>5, <2>1
  <2> QED BY <1>5, <2>1, <2>3, <2>4, <2>5 DEF FreeFrom, r
<1> QED BY <1>8, <1>9

(* build_free_list: all blocks from `first' on are in the list, and no     *)
(* other block has been written.                                           *)
LEMMA FreeListIs ==
  ASSUME ImageInv(image), NEW first \in first_data .. NBlocks
  PROVE  FreeFrom(FreeList(NBlocks - 1, first), first)
<1> DEFINE last == NBlocks - 1
           down == Down(last, first)
           blocks == ToFree(last, first)
           m == NBlocks - first
           n == Len(blocks)
<1>1. /\ NBlocks \in Nat /\ NBlocks > 0 /\ first \in Nat /\ m \in Nat /\ last \in Nat
      /\ first_data \in Nat /\ first_data <= first
  BY Sizes
<1>2. Beyond(last + 1, first) = m
  BY <1>1 DEF Beyond
<1>3. down \in Seq(Int) /\ Len(down) = m /\ \A i \in 1 .. m : down[i] = NBlocks - i
  <2>1. down = [i \in 1 .. m |-> last + 1 - i]
    BY <1>2 DEF Down
  <2>2. \A i \in 1 .. m : last + 1 - i = NBlocks - i
    BY <1>1
  <2> HIDE DEF m, last, down
  <2>3. down \in [1 .. m -> Int]
    BY <2>1, <2>2, <1>1
  <2>4. down \in Seq(Int)
    BY <2>3, <1>1, SeqDef
  <2> QED BY <2>1, <2>2, <2>3, <2>4, <1>1, LenProperties
<1> HIDE DEF down
<1>4. n = m + 1 /\ blocks[1] = 0 /\ \A i \in 1 .. m : blocks[i + 1] = NBlocks - i
  <2> DEFINE one == <<0>>
  <2>1. one \in Seq(Int) /\ Len(one) = 1 /\ one[1] = 0
    OBVIOUS
  <2>2. blocks = one \o down
    BY DEF ToFree, down
  <2> HIDE DEF one, m, blocks
  <2>3. /\ Len(one \o down) = Len(one) + Len(down)
        /\ \A i \in 1 .. Len(one) + Len(down) :
             (one \o down)[i] = IF i <= Len(one) THEN one[i] ELSE down[i - Len(one)]
    BY <1>3, <2>1, ConcatProperties
  <2>4. n = m + 1
    BY <2>1, <2>2, <2>3, <1>3, <1>1
  <2>5. blocks[1] = 0
    BY <2>1, <2>2, <2>3, <1>3, <1>1
  <2>6. ASSUME NEW i \in 1 .. m PROVE blocks[i + 1] = NBlocks - i
    <3>1. i + 1 \in 1 .. Len(one) + Len(down) /\ ~(i + 1 <= Len(one)) /\ (i + 1) - Len(one) = i
      BY <2>1, <1>1, <1>3
    <3> QED BY <2>2, <2>3, <3>1, <1>3
  <2> QED BY <2>4, <2>5, <2>6
<1>5. n \in Nat
  BY <1>1, <1>4
<1>6. PICK freed : /\ freed = [k \in 0 .. n |->
                                 IF k = 0 THEN [img |-> image, list |-> NoFree]
                                 ELSE bfree(freed[k - 1], blocks[k])]
                   /\ FreeList(last, first) = freed[n]
  BY <1>5, FreedInOrder, Zenon
<1> HIDE DEF blocks, n
<1> DEFINE P == {k \in 0 .. m : FreeFrom(freed[k + 1], NBlocks - k)}
<1>7. 0 \in P
  <2>1. freed[1] = bfree([img |-> image, list |-> NoFree], 0)
    <3>1. freed[0] = [img |-> image, list |-> NoFree]
      BY <1>5, <1>6
    <3>2. freed[1] = bfree(freed[0], blocks[1])
      <4>1. 1 \in 0 .. n /\ 1 # 0 /\ 1 - 1 = 0
        BY <1>1, <1>4
      <4> QED BY <1>6, <4>1
    <3> QED BY <3>1, <3>2, <1>4
  <2>2. FreeFrom(freed[1], NBlocks)
    BY <2>1, FirstFreed
  <2>3. NBlocks - 0 = NBlocks /\ 0 + 1 = 1 /\ 0 \in 0 .. m
    BY <1>1
  <2> QED BY <2>2, <2>3
<1>8. ASSUME NEW k \in 0 .. m - 1, k \in P PROVE k + 1 \in P
  <2> DEFINE b == NBlocks - (k + 1)
             s == freed[k + 1]
  <2>1. b \in first_data .. NBlocks - 1 /\ b + 1 = NBlocks - k
    BY <1>1
  <2>2. FreeFrom(s, b + 1)
    BY <1>8, <2>1
  <2>3. freed[k + 1 + 1] = bfree(s, b)
    <3>1. k + 1 + 1 \in 0 .. n /\ k + 1 + 1 # 0 /\ k + 1 + 1 - 1 = k + 1 /\ k + 1 \in 1 .. m
      BY <1>1, <1>4
    <3>2. blocks[k + 1 + 1] = b
      BY <3>1, <1>4
    <3>3. freed[k + 1 + 1] = bfree(freed[k + 1 + 1 - 1], blocks[k + 1 + 1])
      <4> DEFINE j == k + 1 + 1
      <4>1. j \in 0 .. n /\ j # 0
        BY <3>1
      <4> HIDE DEF j
      <4>2. freed[j] = bfree(freed[j - 1], blocks[j])
        BY <1>6, <4>1
      <4> QED BY <4>2 DEF j
    <3>4. k + 1 + 1 - 1 = k + 1
      BY <3>1
    <3> QED BY <3>2, <3>3, <3>4, Zenon
  <2> HIDE DEF b, s
  <2>4. FreeFrom(bfree(s, b), b)
    BY <2>1, <2>2, NextFreed
  <2>5. k + 1 \in 0 .. m
    BY <1>1
  <2> QED BY <2>3, <2>4, <2>5 DEF b
<1>9. FreeFrom(freed[m + 1], NBlocks - m)
  <2> HIDE DEF P, m
  <2>1. 0 .. m \subseteq P
    BY <1>1, <1>7, <1>8, UpTo
  <2>2. m \in 0 .. m
    BY <1>1
  <2> QED BY <2>1, <2>2 DEF P
<1>10. NBlocks - m = first
  BY <1>1
<1> QED BY <1>4, <1>6, <1>9, <1>10

-----------------------------------------------------------------------------
(***************************************************************************)
(* The inductive invariant of the contents: whatever has been written is   *)
(* in the image, in blocks of its own that fill the image up to            *)
(* next_block, and the inode says where; the files are written as they     *)
(* come, the directories at the end; and when all is written, the free     *)
(* list holds what is left.                                                *)
(***************************************************************************)
DirsWritten ==
  /\ \A n \in Nums(tree) : tree.inodes[n].kind = "file" => n \in DOMAIN written
  /\ \A p \in DOMAIN tree.dirs :
       /\ stage \in {"walk", "spec"} => tree.dirs[p] \notin DOMAIN written
       /\ stage \in {"free", "super", "done"} => tree.dirs[p] \in DOMAIN written
       /\ tree.dirs[p] \in DOMAIN written => written[tree.dirs[p]] = tree.entries[p]

FreeListed ==
  stage \in {"super", "done"} =>
    /\ Ahead(freelist, next_block)
    /\ Chained(image, next_block, next_block + freelist.nfree - 1)

StoreInv ==
  /\ Kept(tree, written, image, next_block) /\ Tiled(tree, written, next_block)
  /\ stage \in {"walk", "spec", "dirs", "free"} => Untouched(image, next_block)
  /\ DirsInv(tree) /\ DirsWritten
  /\ FreeListed
  /\ stage = "done" => /\ super.nfree = freelist.nfree /\ super.free = freelist.free
                       /\ super.tfree = freelist.tfree

LEMMA StoreStart == Init => StoreInv
<1> SUFFICES ASSUME Init PROVE StoreInv
  OBVIOUS
<1>1. /\ tree.inodes = [n \in {ROOTINO} |-> Inode("dir", 2)]
      /\ tree.dirs = [path \in {<<>>} |-> ROOTINO] /\ tree.next_ino = ROOTINO + 1
      /\ next_block = first_data /\ written = <<>> /\ stage = "walk"
      /\ image = [b \in first_data .. NBlocks - 1 |-> ZeroBlock]
  BY DEF Init
<1>2. DOMAIN written = {}
  BY <1>1
<1>3. Nums(tree) = {ROOTINO}
  BY <1>1 DEF Nums, ROOTINO
<1>4. tree.inodes[ROOTINO].kind = "dir"
  BY <1>1 DEF Inode
<1>5. DirsInv(tree)
  BY <1>1, <1>3, <1>4 DEF DirsInv
<1>6. DirsWritten
  BY <1>1, <1>2, <1>3, <1>4 DEF DirsWritten
<1>7. Kept(tree, written, image, next_block)
  BY <1>2 DEF Kept
<1>8. Tiled(tree, written, next_block)
  <2>1. first_data .. next_block - 1 = {}
    BY <1>1, Sizes
  <2> QED BY <1>2, <2>1 DEF Tiled
<1>9. Untouched(image, next_block)
  BY <1>1, Sizes DEF Untouched
<1> QED BY <1>1, <1>5, <1>6, <1>7, <1>8, <1>9 DEF StoreInv, FreeListed

LEMMA StoreExit == StoreInv /\ Exit => StoreInv'
<1> SUFFICES ASSUME StoreInv, Exit PROVE StoreInv'
  OBVIOUS
<1>1. stage' = "exit" /\ UNCHANGED <<tree, next_block, image, freelist, super, written>>
  BY DEF Exit, Output
<1>2. Kept(tree, written, image, next_block)' /\ Tiled(tree, written, next_block)' /\ DirsInv(tree)'
  BY <1>1 DEF StoreInv
<1>3. DirsWritten'
  BY <1>1 DEF StoreInv, DirsWritten
<1> QED BY <1>1, <1>2, <1>3 DEF StoreInv, FreeListed

LEMMA StoreBecomes ==
  ASSUME MkInv, StoreInv, stage \in {"walk", "spec"}, NEW t, NEW kinds, Grown(tree, t, kinds),
         "file" \notin kinds, Becomes(t)
  PROVE  StoreInv'
<1>1. CASE Exit
  BY <1>1, StoreExit
<1>2. CASE ~Exit
  <2>1. /\ tree' = t /\ UNCHANGED <<stage, next_block, image, freelist, super, written>>
    BY <1>2 DEF Becomes, Output
  <2>2. DOMAIN written \subseteq Nums(tree)
    BY DEF MkInv
  <2>3. Kept(t, written, image, next_block) /\ Tiled(t, written, next_block)
    BY <2>2, KeptAsGrown DEF StoreInv
  <2>4. DirsInv(t)
    BY DEF Grown, StoreInv
  <2>5. \A n \in Nums(t) : t.inodes[n].kind = "file" => n \in DOMAIN written
    BY DEF Grown, StoreInv, DirsWritten
  <2>6. ASSUME NEW p \in DOMAIN t.dirs PROVE t.dirs[p] \notin DOMAIN written
    <3>1. CASE p \in DOMAIN tree.dirs
      <4>1. t.dirs[p] = tree.dirs[p]
        BY <3>1 DEF Grown
      <4> QED BY <3>1, <4>1 DEF StoreInv, DirsWritten
    <3>2. CASE p \notin DOMAIN tree.dirs
      BY <2>2, <3>2 DEF Grown
    <3> QED BY <3>1, <3>2
  <2>7. DirsWritten'
    BY <2>1, <2>5, <2>6 DEF DirsWritten
  <2>8. /\ Kept(tree, written, image, next_block)' /\ Tiled(tree, written, next_block)'
        /\ DirsInv(tree)' /\ Untouched(image, next_block)'
    BY <2>1, <2>3, <2>4 DEF StoreInv
  <2> QED BY <2>1, <2>7, <2>8 DEF StoreInv, FreeListed
<1> QED BY <1>1, <1>2

LEMMA StoreStored ==
  ASSUME MkInv, NEW t, TreeInv(t), DirsInv(t), DOMAIN written \subseteq Nums(t),
         Kept(t, written, image, next_block), Tiled(t, written, next_block),
         Untouched(image, next_block),
         NEW n \in Nums(t), n \notin DOMAIN written, t.inodes[n].kind # "node",
         NEW text \in Seq(Cell), Fits(DataBlocks(text)), StoreData(t, n, text)
  PROVE  /\ Kept(tree, written, image, next_block)' /\ Tiled(tree, written, next_block)'
         /\ Untouched(image, next_block)' /\ DirsInv(tree)'
         /\ tree'.dirs = t.dirs /\ tree'.entries = t.entries
         /\ Nums(tree') = Nums(t) /\ \A m \in Nums(t) : tree'.inodes[m].kind = t.inodes[m].kind
         /\ DOMAIN written' = DOMAIN written \cup {n} /\ written'[n] = text
         /\ \A m \in DOMAIN written : written'[m] = written[m]
<1> DEFINE b == next_block
           s == [t EXCEPT !.inodes[n] = WithData(@, text, b)]
           after == b + BlocksTaken(DataBlocks(text))
<1>1. tree' = s /\ image' = Stored(image, text, b) /\ next_block' = after /\ written' = Set(written, n, text)
  BY DEF StoreData
<1>2. /\ b \in Nat /\ b >= first_data /\ ImageInv(image) /\ after <= NBlocks
      /\ Inner(DataBlocks(text)) <= NINDIR /\ Len(text) \in Nat
  <2>1. b \in first_data .. NBlocks /\ ImageInv(image)
    BY DEF MkInv
  <2>2. b \in Nat /\ b >= first_data
    BY <2>1, Sizes
  <2> HIDE DEF b
  <2>3. after <= NBlocks /\ Inner(DataBlocks(text)) <= NINDIR /\ Len(text) \in Nat
    BY LenProperties DEF Fits, b
  <2> QED BY <2>1, <2>2, <2>3
<1>3. /\ Kept(s, Set(written, n, text), Stored(image, text, b), after)
      /\ Tiled(s, Set(written, n, text), after)
      /\ Untouched(Stored(image, text, b), after)
  BY <1>2, KeptAsStored
<1>4. /\ s.dirs = t.dirs /\ s.entries = t.entries /\ s.next_ino = t.next_ino
      /\ s.inodes = [t.inodes EXCEPT ![n] = WithData(t.inodes[n], text, b)]
  BY DEF TreeInv
<1>5. Nums(s) = Nums(t)
  BY <1>4 DEF Nums
<1>6. \A m \in Nums(t) : s.inodes[m].kind = t.inodes[m].kind
  <2>1. t.inodes[n] \in InodeType /\ DOMAIN t.inodes = Nums(t)
    BY DEF TreeInv
  <2>2. OnlyMoved(t.inodes[n], WithData(t.inodes[n], text, b), b, after)
    BY <2>1, <1>2, DataInode, Zenon
  <2>3. WithData(t.inodes[n], text, b).kind = t.inodes[n].kind
    BY <2>2 DEF OnlyMoved
  <2> QED BY <1>4, <2>1, <2>3
<1> HIDE DEF s, after, b
<1>7. DirsInv(s)
  BY <1>4, <1>5, <1>6 DEF DirsInv
<1>8. /\ DOMAIN written' = DOMAIN written \cup {n} /\ written'[n] = text
      /\ \A m \in DOMAIN written : written'[m] = written[m]
  BY <1>1 DEF Set
<1> QED BY <1>1, <1>3, <1>4, <1>5, <1>6, <1>7, <1>8

LEMMA KeptElsewhere ==
  ASSUME NEW t, NEW w, NEW img, NEW new, NEW b, Kept(t, w, img, b),
         \A x \in first_data .. b - 1 : new[x] = img[x]
  PROVE  Kept(t, w, new, b)
<1> SUFFICES ASSUME NEW n \in DOMAIN w PROVE Laid(new, w[n], Start(t.inodes[n]))
  BY DEF Kept
<1>1. Laid(img, w[n], Start(t.inodes[n])) /\ Extent(t.inodes[n], w[n]) \subseteq first_data .. b - 1
  BY DEF Kept
<1> QED BY <1>1 DEF Laid, Extent

LEMMA EntriesAreCells ==
  ASSUME NEW t, TreeInv(t), NEW path \in DOMAIN t.dirs
  PROVE  t.entries[path] \in Seq(Cell)
<1>1. t.entries[path] \in Seq(EntryType(t))
  BY DEF TreeInv
<1>2. Nums(t) \subseteq Nat
  BY DEF TreeInv, Nums, ROOTINO
<1>3. EntryType(t) \subseteq Cell
  BY <1>2 DEF EntryType, Cell
<1> HIDE DEF Cell, EntryType
<1> QED BY <1>1, <1>3, SeqOfMore

(* A hard link leads to an inode that is there.                            *)
Found(t, dir, name) ==
  IF dir \notin DOMAIN t.entries THEN {} ELSE
    {i \in DOMAIN t.entries[dir] : t.entries[dir][i].name = name}

LEMMA FoundThere ==
  ASSUME NEW t, TreeInv(t), NEW dir, NEW name, Found(t, dir, name) # {}
  PROVE  t.entries[dir][Max(Found(t, dir, name))].num \in Nums(t)
<1> DEFINE found == Found(t, dir, name)
           list == t.entries[dir]
<1>1. dir \in DOMAIN t.entries /\ found \subseteq DOMAIN list
  BY DEF Found
<1>2. list \in Seq(EntryType(t))
  BY <1>1 DEF TreeInv
<1> HIDE DEF list
<1>3. found \subseteq 1 .. Len(list) /\ Len(list) \in Nat /\ found # {}
  BY <1>1, <1>2, LenProperties
<1> HIDE DEF found
<1>4. Max(found) \in 1 .. Len(list)
  BY <1>3, MaxIn
<1>5. list[Max(found)] \in EntryType(t)
  BY <1>2, <1>4, ElementOfSeq
<1>6. list[Max(found)].num \in Nums(t)
  BY <1>5 DEF EntryType
<1> QED BY <1>6 DEF list, found

LEMMA StoreKept == MkInv /\ StoreInv /\ [Next]_mvars => StoreInv'
<1> SUFFICES ASSUME MkInv, StoreInv, [Next]_mvars PROVE StoreInv'
  OBVIOUS
<1>0. /\ TreeInv(tree) /\ Counted(tree) /\ tree.next_ino \in Nat /\ ROOTINO < tree.next_ino
      /\ next_block \in first_data .. NBlocks /\ next_block \in Nat
      /\ DOMAIN written \subseteq Nums(tree) /\ ImageInv(image)
      /\ Kept(tree, written, image, next_block) /\ Tiled(tree, written, next_block)
      /\ DirsInv(tree) /\ DirsWritten
  BY Sizes DEF MkInv, Sound, TreeInv, StoreInv
<1>1. ASSUME NEW path \in Paths \ {<<>>}, VisitDir(path) \/ SpecDir(path) PROVE StoreInv'
  <2>1. stage \in {"walk", "spec"} /\ Becomes(getdir(tree, path))
    BY <1>1 DEF VisitDir, SpecDir
  <2>2. Grown(tree, getdir(tree, path), {"dir"})
    BY <1>0, PathTyped, GetDir
  <2> QED BY <2>1, <2>2, StoreBecomes
<1>2. ASSUME NEW dir \in Paths, NEW name \in Names, NEW file \in Files, VisitFile(dir, name, file)
      PROVE  StoreInv'
  <2> DEFINE ino == [Inode("file", 1) EXCEPT !.exec = file.exec]
             n == tree.next_ino
             t == WithEntry(WithInode(tree, ino), dir, n, name)
  <2>1. /\ stage = "walk" /\ dir \in DOMAIN tree.dirs
        /\ \/ /\ InodesLeft(t) /\ Fits(DataBlocks(file.text))
              /\ StoreData(t, n, file.text)
              /\ UNCHANGED <<stage, ilist, freelist, super>>
           \/ Exit
    BY <1>2 DEF VisitFile
  <2>2. CASE Exit
    BY <2>2, StoreExit
  <2>3. CASE /\ Fits(DataBlocks(file.text)) /\ StoreData(t, n, file.text)
             /\ UNCHANGED <<stage, ilist, freelist, super>>
    <3>1. file.text \in Seq(Word) /\ file.exec \in BOOLEAN
      BY MkfsAssumption
    <3>2. file.text \in Seq(Cell)
      <4>1. Word \subseteq Cell
        BY DEF Cell
      <4> HIDE DEF Cell, Word
      <4> QED BY <3>1, <4>1, SeqOfMore
    <3>3. /\ ino \in InodeType /\ ino.nlink = 1 /\ ino.kind = "file"
          /\ \A i \in 1 .. NADDR : ino.addr[i] = 0
      <4>1. Inode("file", 1) \in InodeType
        BY DEF Inode, InodeType
      <4>2. /\ Inode("file", 1).nlink = 1 /\ Inode("file", 1).kind = "file"
            /\ \A i \in 1 .. NADDR : Inode("file", 1).addr[i] = 0
        BY DEF Inode
      <4> QED BY <4>1, <4>2, <3>1 DEF InodeType
    <3> HIDE DEF ino
    <3>4. TreeInv(t) /\ t.next_ino = n + 1 /\ t.inodes[n] = ino
      BY <1>0, <2>1, <3>3, NewNamed
    <3>5. Grown(tree, t, {"file"})
      BY <1>0, <3>3, GrownByInode
    <3> HIDE DEF t
    <3>6. Kept(t, written, image, next_block) /\ Tiled(t, written, next_block)
      BY <1>0, <3>5, KeptAsGrown
    <3>7. /\ DirsInv(t) /\ n \in Nums(t) /\ n \notin Nums(tree) /\ n \notin DOMAIN written
          /\ Nums(t) = Nums(tree) \cup {n} /\ DOMAIN written \subseteq Nums(t)
      <4>1. Nums(t) = Nums(tree) \cup {n} /\ n \notin Nums(tree)
        BY <1>0, <3>4 DEF Nums, ROOTINO
      <4>2. DirsInv(t)
        BY <1>0, <3>5 DEF Grown
      <4> QED BY <4>1, <4>2, <1>0
    <3>8. Untouched(image, next_block)
      BY <2>1 DEF StoreInv
    <3>9. /\ Kept(tree, written, image, next_block)' /\ Tiled(tree, written, next_block)'
          /\ Untouched(image, next_block)' /\ DirsInv(tree)'
          /\ tree'.dirs = t.dirs /\ tree'.entries = t.entries
          /\ Nums(tree') = Nums(t) /\ \A m \in Nums(t) : tree'.inodes[m].kind = t.inodes[m].kind
          /\ DOMAIN written' = DOMAIN written \cup {n} /\ written'[n] = file.text
          /\ \A m \in DOMAIN written : written'[m] = written[m]
      <4> DEFINE text == file.text
      <4>1. text \in Seq(Cell) /\ Fits(DataBlocks(text)) /\ StoreData(t, n, text)
        BY <2>3, <3>2
      <4>2. t.inodes[n].kind # "node"
        BY <3>3, <3>4
      <4> HIDE DEF text, n, Cell
      <4>3. /\ Kept(tree, written, image, next_block)' /\ Tiled(tree, written, next_block)'
            /\ Untouched(image, next_block)' /\ DirsInv(tree)'
            /\ tree'.dirs = t.dirs /\ tree'.entries = t.entries
            /\ Nums(tree') = Nums(t) /\ \A m \in Nums(t) : tree'.inodes[m].kind = t.inodes[m].kind
            /\ DOMAIN written' = DOMAIN written \cup {n} /\ written'[n] = text
            /\ \A m \in DOMAIN written : written'[m] = written[m]
        BY <3>4, <3>6, <3>7, <3>8, <4>1, <4>2, StoreStored
      <4> QED BY <4>3 DEF text
    <3>10. \A m \in Nums(tree') : tree'.inodes[m].kind = "file" => m \in DOMAIN written'
      <4> SUFFICES ASSUME NEW m \in Nums(tree'), tree'.inodes[m].kind = "file"
                   PROVE  m \in DOMAIN written'
        OBVIOUS
      <4>1. CASE m = n
        BY <4>1, <3>9
      <4>2. CASE m # n
        <5>1. m \in Nums(tree) /\ t.inodes[m].kind = "file"
          BY <4>2, <3>7, <3>9
        <5>2. tree.inodes[m].kind = "file"
          BY <5>1, <3>5 DEF Grown
        <5> QED BY <5>1, <5>2, <1>0, <3>9 DEF DirsWritten
      <4> QED BY <4>1, <4>2
    <3>11. ASSUME NEW p \in DOMAIN tree'.dirs PROVE tree'.dirs[p] \notin DOMAIN written'
      <4>1. t.dirs[p] # n
        <5>1. p \in DOMAIN t.dirs /\ t.inodes[n].kind # "dir"
          BY <3>3, <3>4, <3>9
        <5> QED BY <5>1, <3>7 DEF DirsInv
      <4>2. t.dirs[p] \notin DOMAIN written
        <5>1. CASE p \in DOMAIN tree.dirs
          <6>1. t.dirs[p] = tree.dirs[p]
            BY <5>1, <3>5 DEF Grown
          <6> QED BY <5>1, <6>1, <1>0, <2>1 DEF DirsWritten
        <5>2. CASE p \notin DOMAIN tree.dirs
          BY <5>2, <1>0, <3>5, <3>9 DEF Grown
        <5> QED BY <5>1, <5>2
      <4> QED BY <4>1, <4>2, <3>9
    <3>12. stage' = "walk"
      BY <2>1, <2>3
    <3>13. DirsWritten'
      BY <3>10, <3>11, <3>12 DEF DirsWritten
    <3> QED BY <3>9, <3>12, <3>13 DEF StoreInv, FreeListed
  <2> QED BY <2>1, <2>2, <2>3
<1>3. ASSUME NEW path \in Paths \ {<<>>}, NEW dev \in Devices, SpecNode(path, dev) PROVE StoreInv'
  <2> DEFINE up == Front(path)
             t == getdir(tree, up)
             s == WithEntry(WithInode(t, Device(dev)), up, t.next_ino, Last(path))
  <2>1. stage = "spec" /\ Becomes(s)
    BY <1>3 DEF SpecNode
  <2>2. up \in Seq(Names)
    BY PathTyped
  <2>3. Device(dev).kind = "node"
    BY DEF Device, Inode
  <2>4. TreeInv(t) /\ Grown(tree, t, {"dir"})
    BY <1>0, <2>2, GetDir
  <2> HIDE DEF t, up
  <2>5. Grown(t, s, {"node"})
    BY <2>3, <2>4, GrownByInode
  <2> HIDE DEF s
  <2>6. Grown(tree, s, {"dir", "node"})
    <3>1. Grown(tree, t, {"dir", "node"}) /\ Grown(t, s, {"dir", "node"})
      BY <2>4, <2>5 DEF Grown
    <3> QED BY <3>1, GrownOn
  <2> QED BY <2>1, <2>6, StoreBecomes
<1>4. ASSUME NEW path \in Paths \ {<<>>}, NEW target \in Paths \ {<<>>}, SpecLink(path, target)
      PROVE  StoreInv'
  <2> DEFINE up == Front(path)
             t == getdir(tree, up)
             dir == Front(target)
             found == Found(t, dir, Last(target))
             n == t.entries[dir][Max(found)].num
             s == WithLink(WithEntry(t, up, n, Last(path)), n)
  <2>1. (stage = "spec" /\ found # {} /\ Becomes(s)) \/ Exit
    BY <1>4 DEF SpecLink, Found
  <2>2. CASE Exit
    BY <2>2, StoreExit
  <2>3. CASE stage = "spec" /\ found # {} /\ Becomes(s)
    <3>1. up \in Seq(Names)
      BY PathTyped
    <3>2. TreeInv(t) /\ Grown(tree, t, {"dir"})
      BY <1>0, <3>1, GetDir
    <3> HIDE DEF t, up
    <3>3. n \in Nums(t)
      BY <2>3, <3>2, FoundThere
    <3> HIDE DEF n
    <3>4. Grown(t, s, {"dir"})
      BY <3>2, <3>3, GrownByName
    <3> HIDE DEF s
    <3>5. Grown(tree, s, {"dir"})
      BY <3>2, <3>4, GrownOn
    <3> QED BY <2>3, <3>5, StoreBecomes
  <2> QED BY <2>1, <2>2, <2>3
<1>5. CASE WalkEnds \/ SpecEnds
  <2>1. /\ stage \in {"walk", "spec"} /\ stage' \in {"spec", "dirs"}
        /\ UNCHANGED <<tree, next_block, image, freelist, super, written>>
    BY <1>5 DEF WalkEnds, SpecEnds, Output
  <2>2. DirsWritten'
    BY <1>0, <2>1 DEF DirsWritten
  <2>3. /\ Kept(tree, written, image, next_block)' /\ Tiled(tree, written, next_block)'
        /\ DirsInv(tree)' /\ Untouched(image, next_block)'
    BY <2>1 DEF StoreInv
  <2> QED BY <2>1, <2>2, <2>3 DEF StoreInv, FreeListed
<1>6. CASE StoreDir
  <2>1. PICK path \in DOMAIN tree.dirs :
          LET n == tree.dirs[path]
              entries == tree.entries[path]
              goes == NamesFit(entries) /\ Fits(DataBlocks(entries))
          IN  /\ n \notin DOMAIN written
              /\ \/ /\ goes
                    /\ StoreData(tree, n, entries)
                    /\ UNCHANGED <<stage, ilist, freelist, super>>
                 \/ ~goes /\ Exit
    BY <1>6 DEF StoreDir
  <2>2. stage = "dirs"
    BY <1>6 DEF StoreDir
  <2> DEFINE n == tree.dirs[path]
             text == tree.entries[path]
  <2>3. n \in Nums(tree) /\ n \notin DOMAIN written /\ text \in Seq(Cell)
    BY <1>0, <2>1, EntriesAreCells DEF TreeInv
  <2>4. tree.inodes[n].kind # "node"
    BY <1>0, <2>3 DEF DirsInv
  <2>5. Untouched(image, next_block)
    BY <2>2 DEF StoreInv
  <2>6. \A p \in DOMAIN tree.dirs : tree.dirs[p] = n => p = path
    BY <1>0 DEF DirsInv
  <2>7. \/ Exit
        \/ /\ Fits(DataBlocks(text)) /\ StoreData(tree, n, text)
           /\ UNCHANGED <<stage, ilist, freelist, super>>
    BY <2>1
  <2>8. text = tree.entries[path]
    OBVIOUS
  <2> HIDE DEF n, text
  <2>9. CASE Exit
    BY <2>9, StoreExit
  <2>10. CASE /\ Fits(DataBlocks(text)) /\ StoreData(tree, n, text)
              /\ UNCHANGED <<stage, ilist, freelist, super>>
    <3>1. /\ Kept(tree, written, image, next_block)' /\ Tiled(tree, written, next_block)'
          /\ Untouched(image, next_block)' /\ DirsInv(tree)'
          /\ tree'.dirs = tree.dirs /\ tree'.entries = tree.entries
          /\ Nums(tree') = Nums(tree)
          /\ \A m \in Nums(tree) : tree'.inodes[m].kind = tree.inodes[m].kind
          /\ DOMAIN written' = DOMAIN written \cup {n} /\ written'[n] = text
          /\ \A m \in DOMAIN written : written'[m] = written[m]
      <4> HIDE DEF Cell
      <4> QED BY <1>0, <2>3, <2>4, <2>5, <2>10, StoreStored
    <3>2. \A m \in Nums(tree') : tree'.inodes[m].kind = "file" => m \in DOMAIN written'
      BY <1>0, <3>1 DEF DirsWritten
    <3>3. ASSUME NEW p \in DOMAIN tree'.dirs, tree'.dirs[p] \in DOMAIN written'
          PROVE  written'[tree'.dirs[p]] = tree'.entries[p]
      <4>1. CASE tree.dirs[p] = n
        <5>1. p = path
          BY <4>1, <2>6, <3>1
        <5> QED BY <4>1, <5>1, <2>8, <3>1
      <4>2. CASE tree.dirs[p] # n
        <5>1. tree.dirs[p] \in DOMAIN written /\ p \in DOMAIN tree.dirs
          BY <4>2, <3>1, <3>3
        <5> QED BY <5>1, <1>0, <3>1 DEF DirsWritten
      <4> QED BY <4>1, <4>2
    <3>4. stage' = "dirs"
      BY <2>2, <2>10
    <3>5. DirsWritten'
      BY <3>2, <3>3, <3>4 DEF DirsWritten
    <3> QED BY <3>1, <3>4, <3>5 DEF StoreInv, FreeListed
  <2> QED BY <2>7, <2>9, <2>10
<1>7. CASE write_inodes
  <2>1. /\ stage = "dirs" /\ stage' = "free"
        /\ \A path \in DOMAIN tree.dirs : tree.dirs[path] \in DOMAIN written
        /\ UNCHANGED <<tree, next_block, image, freelist, super, written>>
    BY <1>7 DEF write_inodes
  <2>2. DirsWritten'
    BY <1>0, <2>1 DEF DirsWritten
  <2>3. /\ Kept(tree, written, image, next_block)' /\ Tiled(tree, written, next_block)'
        /\ DirsInv(tree)' /\ Untouched(image, next_block)'
    BY <2>1 DEF StoreInv
  <2> QED BY <2>1, <2>2, <2>3 DEF StoreInv, FreeListed
<1>8. CASE build_free_list
  <2>1. /\ stage = "free" /\ stage' = "super"
        /\ image' = FreeList(NBlocks - 1, next_block).img
        /\ freelist' = FreeList(NBlocks - 1, next_block).list
        /\ UNCHANGED <<tree, next_block, super, written>>
    BY <1>8 DEF build_free_list
  <2>2. /\ \A y \in DOMAIN image : y < next_block => image'[y] = image[y]
        /\ Ahead(freelist', next_block)
        /\ Chained(image', next_block, next_block + freelist'.nfree - 1)
    <3>1. FreeFrom(FreeList(NBlocks - 1, next_block), next_block)
      BY <1>0, FreeListIs
    <3> DEFINE s == FreeList(NBlocks - 1, next_block)
    <3> HIDE DEF s
    <3>2. FreeFrom(s, next_block) /\ image' = s.img /\ freelist' = s.list
      BY <2>1, <3>1 DEF s
    <3> QED BY <3>2 DEF FreeFrom
  <2>3. \A x \in first_data .. next_block - 1 : image'[x] = image[x]
    <3>1. \A x \in first_data .. next_block - 1 : x \in DOMAIN image /\ x < next_block
      BY <1>0, Sizes DEF ImageInv
    <3> QED BY <2>2, <3>1
  <2>4. Kept(tree, written, image', next_block)
    BY <1>0, <2>3, KeptElsewhere
  <2>5. /\ Kept(tree, written, image, next_block)' /\ Tiled(tree, written, next_block)'
        /\ DirsInv(tree)'
    BY <1>0, <2>1, <2>4
  <2>6. DirsWritten'
    BY <1>0, <2>1 DEF DirsWritten
  <2>7. FreeListed'
    BY <2>1, <2>2 DEF FreeListed
  <2> QED BY <2>1, <2>5, <2>6, <2>7 DEF StoreInv
<1>9. CASE write_superblock
  <2>1. /\ stage = "super" /\ stage' = "done"
        /\ super'.nfree = freelist.nfree /\ super'.free = freelist.free
        /\ super'.tfree = freelist.tfree
        /\ UNCHANGED <<tree, next_block, image, freelist, written>>
    BY <1>9 DEF write_superblock
  <2>2. DirsWritten'
    BY <1>0, <2>1 DEF DirsWritten
  <2>3. /\ Kept(tree, written, image, next_block)' /\ Tiled(tree, written, next_block)'
        /\ DirsInv(tree)'
    BY <1>0, <2>1
  <2>4. FreeListed'
    BY <2>1 DEF StoreInv, FreeListed
  <2> QED BY <2>1, <2>2, <2>3, <2>4 DEF StoreInv
<1>10. CASE UNCHANGED mvars
  <2>1. UNCHANGED <<stage, tree, next_block, image, freelist, super, written>>
    BY <1>10 DEF mvars
  <2>2. DirsWritten'
    BY <1>0, <2>1 DEF DirsWritten
  <2>3. /\ Kept(tree, written, image, next_block)' /\ Tiled(tree, written, next_block)'
        /\ DirsInv(tree)'
    BY <1>0, <2>1
  <2>4. stage' \in {"walk", "spec", "dirs", "free"} => Untouched(image, next_block)'
    BY <2>1 DEF StoreInv
  <2>5. FreeListed'
    BY <2>1 DEF StoreInv, FreeListed
  <2> QED BY <2>1, <2>2, <2>3, <2>4, <2>5 DEF StoreInv
<1> QED BY <1>1, <1>2, <1>3, <1>4, <1>5, <1>6, <1>7, <1>8, <1>9, <1>10 DEF Next

-----------------------------------------------------------------------------
(* readdir leaves out nothing when every slot is in use.                   *)
LEMMA AllInUse ==
  ASSUME NEW S, NEW s \in Seq(S), \A i \in 1 .. Len(s) : s[i].num # 0
  PROVE  InUse(s) = s
<1> DEFINE n == Len(s)
           Step(f, k) == CASE k = 0 -> <<>>
                           [] k > 0 /\ s[k].num = 0 -> f[k - 1]
                           [] OTHER -> Append(f[k - 1], s[k])
           kept == CHOOSE f : f = [k \in 0 .. n |-> Step(f, k)]
           upto == [k \in 0 .. n |-> SubSeq(s, 1, k)]
<1>1. n \in Nat
  BY LenProperties
<1>2. ASSUME NEW k \in 0 .. n
      PROVE  /\ SubSeq(s, 1, k) \in Seq(S) /\ Len(SubSeq(s, 1, k)) = k
             /\ \A i \in 1 .. k : SubSeq(s, 1, k)[i] = s[i]
  BY <1>1, SubSeqProperties
<1>3. ASSUME NEW k \in 1 .. n PROVE SubSeq(s, 1, k) = Append(SubSeq(s, 1, k - 1), s[k])
  <2> DEFINE a == SubSeq(s, 1, k - 1)
             c == SubSeq(s, 1, k)
  <2>1. k - 1 \in 0 .. n /\ k \in 0 .. n /\ s[k] \in S
    BY <1>1, ElementOfSeq
  <2>2. a \in Seq(S) /\ Len(a) = k - 1 /\ \A i \in 1 .. k - 1 : a[i] = s[i]
    BY <1>2, <2>1
  <2>3. c \in Seq(S) /\ Len(c) = k /\ \A i \in 1 .. k : c[i] = s[i]
    BY <1>2, <2>1
  <2> HIDE DEF a, c
  <2>4. /\ Append(a, s[k]) \in Seq(S) /\ Len(Append(a, s[k])) = k
        /\ \A i \in 1 .. k - 1 : Append(a, s[k])[i] = a[i]
        /\ Append(a, s[k])[k] = s[k]
    BY <2>1, <2>2, AppendProperties
  <2>5. \A i \in 1 .. k : Append(a, s[k])[i] = c[i]
    <3>1. \A i \in 1 .. k : i \in 1 .. k - 1 \/ i = k
      OBVIOUS
    <3> QED BY <3>1, <2>2, <2>3, <2>4
  <2>6. Append(a, s[k]) = c
    <3> DEFINE d == Append(a, s[k])
    <3>1. d \in Seq(S) /\ Len(d) = Len(c) /\ \A i \in 1 .. Len(d) : d[i] = c[i]
      BY <2>3, <2>4, <2>5
    <3> HIDE DEF d
    <3>2. d = c
      BY <3>1, <2>3, SeqEqual
    <3> QED BY <3>2 DEF d
  <2> QED BY <2>6 DEF a, c
<1>4. \A k \in 0 .. n : upto[k] = SubSeq(s, 1, k)
  OBVIOUS
<1>5. SubSeq(s, 1, 0) = <<>>
  BY <1>1, <1>2, EmptySeq
<1> HIDE DEF n
<1>6. ASSUME NEW f, NEW k \in 0 .. n
      PROVE  Step(f, k) = IF k = 0 THEN <<>> ELSE Append(f[k - 1], s[k])
  <2>1. CASE k = 0
    BY <2>1
  <2>2. CASE k # 0
    <3>1. k \in 1 .. Len(s) /\ k > 0
      BY <2>2, <1>1 DEF n
    <3>2. ~(k > 0 /\ s[k].num = 0)
      BY <3>1
    <3> QED BY <2>2, <3>2
  <2> QED BY <2>1, <2>2
<1> HIDE DEF Step
<1>7. upto = [k \in 0 .. n |-> Step(upto, k)]
  <2>1. ASSUME NEW k \in 0 .. n PROVE SubSeq(s, 1, k) = Step(upto, k)
    <3>1. CASE k = 0
      BY <3>1, <1>5, <1>6
    <3>2. CASE k # 0
      <4>1. k \in 1 .. n /\ k - 1 \in 0 .. n
        BY <3>2, <1>1
      <4>2. upto[k - 1] = SubSeq(s, 1, k - 1)
        BY <4>1, <1>4
      <4>3. Step(upto, k) = Append(upto[k - 1], s[k])
        BY <3>2, <1>6
      <4> HIDE DEF upto
      <4> QED BY <1>3, <4>1, <4>2, <4>3
    <3> QED BY <3>1, <3>2
  <2> QED BY <2>1
<1>8. kept = [k \in 0 .. n |-> Step(kept, k)]
  <2> HIDE DEF upto
  <2>1. \E f : f = [k \in 0 .. n |-> Step(f, k)]
    BY <1>7
  <2> QED BY <2>1
<1>9. InUse(s) = kept[n]
  BY DEF InUse, n, Step
<1> HIDE DEF kept
<1> DEFINE P == {k \in 0 .. n : kept[k] = SubSeq(s, 1, k)}
<1>10. 0 \in P
  <2>1. kept[0] = Step(kept, 0)
    BY <1>1, <1>8
  <2>2. Step(kept, 0) = <<>>
    BY <1>1, <1>6
  <2>3. kept[0] = SubSeq(s, 1, 0)
    BY <1>5, <2>1, <2>2, Zenon
  <2>4. 0 \in 0 .. n
    BY <1>1
  <2> QED BY <2>3, <2>4, Zenon
<1>11. ASSUME NEW k \in 0 .. n - 1, k \in P PROVE k + 1 \in P
  <2>1. k + 1 \in 0 .. n /\ k + 1 \in 1 .. n /\ k + 1 - 1 = k /\ k + 1 # 0
    BY <1>1
  <2>2. kept[k + 1] = Append(kept[k], s[k + 1])
    <3>1. kept[k + 1] = Step(kept, k + 1)
      BY <1>8, <2>1
    <3>2. Step(kept, k + 1) = Append(kept[k + 1 - 1], s[k + 1])
      <4> DEFINE j == k + 1
      <4>1. j \in 1 .. n /\ j # 0
        BY <2>1
      <4> HIDE DEF j
      <4>2. Step(kept, j) = Append(kept[j - 1], s[j])
        BY <1>6, <4>1
      <4> QED BY <4>2 DEF j
    <3> QED BY <3>1, <3>2, <2>1
  <2>3. SubSeq(s, 1, k + 1) = Append(SubSeq(s, 1, k), s[k + 1])
    <3>1. SubSeq(s, 1, k + 1) = Append(SubSeq(s, 1, k + 1 - 1), s[k + 1])
      BY <1>3, <2>1
    <3> QED BY <3>1, <2>1
  <2> QED BY <2>1, <2>2, <2>3, <1>11
<1>12. kept[n] = SubSeq(s, 1, n)
  <2> HIDE DEF P
  <2>1. 0 .. n \subseteq P
    BY <1>1, <1>10, <1>11, UpTo
  <2>2. n \in 0 .. n
    BY <1>1
  <2> QED BY <2>1, <2>2 DEF P
<1>13. SubSeq(s, 1, n) = s
  <2> DEFINE c == SubSeq(s, 1, n)
  <2>1. n \in 0 .. n
    BY <1>1
  <2>2. c \in Seq(S) /\ Len(c) = Len(s) /\ \A i \in 1 .. Len(s) : c[i] = s[i]
    BY <1>2, <2>1 DEF n
  <2> HIDE DEF c
  <2>3. c = s
    BY <2>2, SeqEqual
  <2> QED BY <2>3 DEF c
<1> QED BY <1>9, <1>12, <1>13

-----------------------------------------------------------------------------
(* From start to end the contents are where the inodes say.                *)
THEOREM StoreInvariance == Spec => []StoreInv
<1>1. Init => StoreInv
  BY StoreStart
<1>2. MkInv /\ StoreInv /\ [Next]_mvars => StoreInv'
  BY StoreKept
<1> QED BY <1>1, <1>2, MkInvariance, PTL DEF Spec

(* An inode of the finished i-list is read as it was when packed.          *)
LEMMA ReadInode ==
  ASSUME MkInv, stage = "done", NEW n \in Nums(tree), tree.inodes[n].kind # "node"
  PROVE  inode(ilist, n) = tree.inodes[n]
<1>1. ilist = OnIlist(tree) /\ TreeInv(tree) /\ tree.next_ino <= ninodes
      /\ next_block \in first_data .. NBlocks /\ InBlocks(tree, next_block)
  BY DEF MkInv, Sound
<1>2. n \in 1 .. ninodes /\ n \in DOMAIN tree.inodes /\ tree.inodes[n] \in InodeType
  BY <1>1, Sizes DEF TreeInv, Nums, ROOTINO
<1>3. ilist[n] = pack_inode(tree.inodes[n])
  BY <1>1, <1>2 DEF OnIlist
<1>4. ASSUME NEW k \in 1 .. NADDR PROVE tree.inodes[n].addr[k] < BYTE * BYTE * BYTE
  <2> DEFINE most == BYTE * BYTE * BYTE
             a == tree.inodes[n].addr[k]
  <2>1. BYTE \in Nat /\ BYTE > 0 /\ NBlocks <= most
    BY MkfsAssumption
  <2>2. most \in Nat
    BY <2>1
  <2>3. a \in {0} \cup first_data .. next_block - 1
    BY <1>1 DEF InBlocks
  <2> HIDE DEF a, most
  <2>4. a < most
    BY <1>1, <2>1, <2>2, <2>3, Sizes
  <2> QED BY <2>4 DEF a, most
<1>5. IsInode(tree.inodes[n])
  BY <1>2 DEF InodeType, IsInode
<1> QED BY <1>3, <1>4, <1>5, InodeRead

(* s5fs.py reads what mkfs.py has written: every directory with its        *)
(* entries in their order, every file word by word, however long it is and *)
(* whatever was written later, over all sizes of blocks, inodes and images.*)
THEOREM WhatWasPutInComesOut == Spec => []RoundTrip
<1>1. MkInv /\ StoreInv => RoundTrip
  <2> SUFFICES ASSUME MkInv, StoreInv, stage = "done"
               PROVE  /\ \A path \in DOMAIN tree.dirs :
                           readdir(image, inode(ilist, tree.dirs[path])) = tree.entries[path]
                      /\ \A n \in DOMAIN written : data(image, inode(ilist, n)) = written[n]
    BY DEF RoundTrip
  <2>1. ASSUME NEW n \in DOMAIN written PROVE data(image, inode(ilist, n)) = written[n]
    <3> DEFINE ino == tree.inodes[n]
               text == written[n]
    <3>1. /\ text \in Seq(Cell) /\ Holds(ino, text) /\ Laid(image, text, Start(ino))
      BY DEF StoreInv, Kept
    <3>2. /\ ino.kind # "node" /\ ino.size = Len(text) /\ ino.addr = AddrOf(text, Start(ino))
          /\ Start(ino) \in Nat /\ Start(ino) > 0 /\ Inner(DataBlocks(text)) <= NINDIR
      BY <3>1 DEF Holds
    <3>3. inode(ilist, n) = ino
      BY <3>2, ReadInode DEF MkInv
    <3> HIDE DEF ino, text, Cell
    <3>4. data(image, ino) = text
      BY <3>1, <3>2, ReadBack
    <3> QED BY <3>3, <3>4 DEF text
  <2>2. ASSUME NEW path \in DOMAIN tree.dirs
        PROVE  readdir(image, inode(ilist, tree.dirs[path])) = tree.entries[path]
    <3> DEFINE n == tree.dirs[path]
               text == tree.entries[path]
    <3>1. n \in DOMAIN written /\ written[n] = text
      BY DEF StoreInv, DirsWritten
    <3>2. data(image, inode(ilist, n)) = text
      BY <2>1, <3>1
    <3>3. text \in Seq(EntryType(tree))
      BY DEF MkInv, Sound, TreeInv
    <3>4. \A e \in EntryType(tree) : e.num # 0
      BY DEF EntryType, Nums, ROOTINO, MkInv, Sound, TreeInv
    <3> HIDE DEF n, text, EntryType
    <3>5. \A i \in 1 .. Len(text) : text[i].num # 0
      BY <3>3, <3>4, ElementOfSeq
    <3>6. InUse(text) = text
      BY <3>3, <3>5, AllInUse
    <3> QED BY <3>2, <3>6 DEF readdir, n, text
  <2> QED BY <2>1, <2>2
<1> QED BY <1>1, MkInvariance, StoreInvariance, PTL

-----------------------------------------------------------------------------
(* A list with every number of a set once.                                 *)
Once(s, S) ==
  /\ s \in Seq(Nat)
  /\ \A i \in 1 .. Len(s) : s[i] \in S
  /\ \A x \in S : \E i \in 1 .. Len(s) : s[i] = x
  /\ \A i, j \in 1 .. Len(s) : s[i] = s[j] => i = j

LEMMA OnceNone == Once(<<>>, {})
  BY DEF Once

LEMMA OnceOne ==
  ASSUME NEW x \in Nat
  PROVE  Once(<<x>>, {x})
  BY DEF Once

LEMMA OnceJoin ==
  ASSUME NEW s, NEW S, Once(s, S), NEW t, NEW T, Once(t, T), \A x \in S : x \notin T
  PROVE  Once(s \o t, S \cup T)
<1> DEFINE a == Len(s)
           b == Len(t)
           c == s \o t
<1>1. s \in Seq(Nat) /\ t \in Seq(Nat) /\ a \in Nat /\ b \in Nat
  BY LenProperties DEF Once
<1>2. /\ c \in Seq(Nat) /\ Len(c) = a + b
      /\ \A i \in 1 .. a + b : c[i] = IF i <= a THEN s[i] ELSE t[i - a]
  BY <1>1, ConcatProperties
<1>3. /\ \A i \in 1 .. a : s[i] \in S
      /\ \A x \in S : \E i \in 1 .. a : s[i] = x
      /\ \A i, j \in 1 .. a : s[i] = s[j] => i = j
      /\ \A i \in 1 .. b : t[i] \in T
      /\ \A x \in T : \E i \in 1 .. b : t[i] = x
      /\ \A i, j \in 1 .. b : t[i] = t[j] => i = j
  BY DEF Once
<1> HIDE DEF a, b, c
<1>4. ASSUME NEW i \in 1 .. a + b
      PROVE  \/ i \in 1 .. a /\ c[i] = s[i] /\ c[i] \in S
             \/ i - a \in 1 .. b /\ ~(i <= a) /\ c[i] = t[i - a] /\ c[i] \in T
  <2>1. i \in 1 .. a \/ (i - a \in 1 .. b /\ ~(i <= a))
    BY <1>1
  <2> QED BY <2>1, <1>1, <1>2, <1>3
<1>5. ASSUME NEW x \in S \cup T PROVE \E i \in 1 .. a + b : c[i] = x
  <2>1. CASE x \in S
    <3>1. PICK i \in 1 .. a : s[i] = x
      BY <2>1, <1>3
    <3>2. i \in 1 .. a + b /\ i <= a
      BY <1>1
    <3> QED BY <3>1, <3>2, <1>2
  <2>2. CASE x \in T
    <3>1. PICK i \in 1 .. b : t[i] = x
      BY <2>2, <1>3
    <3>2. a + i \in 1 .. a + b /\ ~(a + i <= a) /\ (a + i) - a = i
      BY <1>1
    <3>3. c[a + i] = t[(a + i) - a]
      BY <3>2, <1>2
    <3> QED BY <3>1, <3>2, <3>3
  <2> QED BY <2>1, <2>2
<1>6. ASSUME NEW i \in 1 .. a + b, NEW j \in 1 .. a + b, c[i] = c[j] PROVE i = j
  <2>1. CASE c[i] \in S
    <3>1. c[i] \notin T /\ c[j] \notin T
      BY <2>1, <1>6
    <3>2. i \in 1 .. a /\ j \in 1 .. a /\ s[i] = s[j]
      BY <3>1, <1>4, <1>6
    <3> QED BY <3>2, <1>3
  <2>2. CASE c[i] \notin S
    <3>1. i - a \in 1 .. b /\ j - a \in 1 .. b /\ t[i - a] = t[j - a]
      BY <2>2, <1>4, <1>6
    <3>2. i - a = j - a
      BY <3>1, <1>3
    <3> QED BY <3>2, <1>1
  <2> QED BY <2>1, <2>2
<1>7. \A i \in 1 .. a + b : c[i] \in S \cup T
  BY <1>4
<1> QED BY <1>2, <1>5, <1>6, <1>7 DEF Once, c

LEMMA OnceRange ==
  ASSUME NEW a \in Nat, NEW e \in Nat, NEW s, Len(s) = IF a <= e THEN e - a ELSE 0,
         s \in Seq(Nat), \A i \in 1 .. Len(s) : s[i] = a + i - 1
  PROVE  Once(s, a .. e - 1)
<1>1. \A x \in a .. e - 1 : x - a + 1 \in 1 .. Len(s) /\ s[x - a + 1] = x
  BY LenProperties
<1>2. \A i \in 1 .. Len(s) : s[i] \in a .. e - 1
  BY LenProperties
<1>3. \A i, j \in 1 .. Len(s) : s[i] = s[j] => i = j
  BY LenProperties
<1> QED BY <1>1, <1>2, <1>3 DEF Once

LEMMA OnceCount ==
  ASSUME NEW s, NEW S, Once(s, S)
  PROVE  IsFiniteSet(S) /\ Cardinality(S) = Len(s) /\ ToSet(s) = S
<1>1. s \in Seq(Nat) /\ Len(s) \in Nat /\ DOMAIN s = 1 .. Len(s)
  BY LenProperties DEF Once
<1>2. ToSet(s) = S
  BY <1>1 DEF Once, ToSet
<1>3. s \in Bijection(1 .. Len(s), S)
  <2>1. s \in [1 .. Len(s) -> S]
    BY <1>1 DEF Once
  <2>2. IsInjective(s)
    BY <1>1 DEF Once, IsInjective
  <2> QED BY <1>1, <2>1, <2>2 DEF Once, Bijection, Injection, Surjection
<1>4. ExistsBijection(1 .. Len(s), S)
  BY <1>3 DEF ExistsBijection
<1>5. IsFiniteSet(1 .. Len(s)) /\ Cardinality(1 .. Len(s)) = Len(s)
  <2>1. 1 \in Int /\ Len(s) \in Int
    BY <1>1
  <2>2. IsFiniteSet(1 .. Len(s)) /\ Cardinality(1 .. Len(s)) = IF 1 > Len(s) THEN 0 ELSE Len(s) - 1 + 1
    BY <2>1, FS_Interval
  <2> QED BY <1>1, <2>2
<1>6. IsFiniteSet(S) /\ Cardinality(S) = Cardinality(1 .. Len(s))
  BY <1>4, <1>5, FS_Bijection
<1> QED BY <1>2, <1>5, <1>6

Apart(sets, m) == \A i, j \in 1 .. m : i # j => \A x \in sets[i] : x \notin sets[j]

LEMMA OnceFlat ==
  ASSUME NEW m \in Nat, m > 0, NEW s, Len(s) = m, NEW sets,
         \A i \in 1 .. m : Once(s[i], sets[i]), Apart(sets, m)
  PROVE  Once(FlattenSeq(s), UNION {sets[i] : i \in 1 .. m})
<1> DEFINE U(k) == UNION {sets[i] : i \in 1 .. k}
<1>1. PICK f : JoinsUp(f, s, m) /\ FlattenSeq(s) = f[m]
  BY Flattened, Zenon
<1>2. f[1] = s[1] /\ \A k \in 1 .. m - 1 : f[k + 1] = f[k] \o s[k + 1]
  <2>1. f[1] = s[1]
    BY <1>1 DEF JoinsUp
  <2>2. ASSUME NEW k \in 1 .. m - 1 PROVE f[k + 1] = f[k] \o s[k + 1]
    <3>1. k + 1 \in 1 .. m /\ k + 1 # 1 /\ (k + 1) - 1 = k
      OBVIOUS
    <3>2. f[k + 1] = IF k + 1 = 1 THEN s[k + 1] ELSE f[(k + 1) - 1] \o s[k + 1]
      BY <1>1, <3>1, Zenon DEF JoinsUp
    <3> QED BY <3>1, <3>2, Zenon
  <2> QED BY <2>1, <2>2
<1> DEFINE P == {k \in 0 .. m : k = 0 \/ Once(f[k], U(k))}
<1>3. 0 \in P
  OBVIOUS
<1>4. ASSUME NEW k \in 0 .. m - 1, k \in P PROVE k + 1 \in P
  <2>0. k + 1 \in 1 .. m /\ k + 1 \in 0 .. m
    OBVIOUS
  <2>1. CASE k = 0
    <3>1. U(1) = sets[1]
      OBVIOUS
    <3> HIDE DEF U
    <3>2. Once(f[1], U(1))
      BY <1>2, <3>1
    <3> QED BY <2>1, <3>2
  <2>2. CASE k # 0
    <3>1. k \in 1 .. m - 1 /\ Once(f[k], U(k)) /\ Once(s[k + 1], sets[k + 1])
      BY <1>4, <2>0, <2>2
    <3>2. U(k + 1) = U(k) \cup sets[k + 1]
      <4>1. 1 .. k + 1 = (1 .. k) \cup {k + 1}
        BY <3>1
      <4> QED BY <4>1
    <3>3. \A x \in U(k) : x \notin sets[k + 1]
      <4> SUFFICES ASSUME NEW x \in U(k) PROVE x \notin sets[k + 1]
        OBVIOUS
      <4>1. PICK i \in 1 .. k : x \in sets[i]
        OBVIOUS
      <4>2. i \in 1 .. m /\ i # k + 1
        BY <3>1
      <4> QED BY <4>1, <4>2, <2>0 DEF Apart
    <3> HIDE DEF U
    <3>4. Once(f[k] \o s[k + 1], U(k) \cup sets[k + 1])
      BY <3>1, <3>3, OnceJoin
    <3>5. Once(f[k + 1], U(k + 1))
      BY <3>1, <3>2, <3>4, <1>2
    <3> QED BY <2>0, <3>5
  <2> QED BY <2>1, <2>2
<1>5. Once(f[m], U(m))
  <2> HIDE DEF P
  <2>1. 0 .. m \subseteq P
    BY <1>3, <1>4, UpTo
  <2>2. m \in P
    BY <2>1
  <2> QED BY <2>2 DEF P
<1> QED BY <1>1, <1>5

-----------------------------------------------------------------------------
(* The blocks a file refers to.                                            *)
LEMMA AtsOnce ==
  ASSUME NEW text, Len(text) \in Nat, NEW b \in Nat, b > 0, NEW o \in Nat, NEW m \in Nat,
         NEW numbers \in Seq(Nat), Ats(numbers, text, b, o, m),
         NEW e, e = IF o + m < DataBlocks(text) THEN o + m ELSE DataBlocks(text)
  PROVE  Once(UpToZero(numbers), b + o .. b + e - 1)
<1> DEFINE n == DataBlocks(text)
           k == IF o <= e THEN e - o ELSE 0
<1>1. n \in Nat
  BY DataBlocksAre
<1>2. Len(numbers) = m /\ \A i \in 1 .. m : numbers[i] = IF o + i - 1 < n THEN b + (o + i - 1) ELSE 0
  BY DEF Ats, At
<1> HIDE DEF n
<1>3. e \in Nat /\ e = IF o + m < n THEN o + m ELSE n
  BY <1>1 DEF n
<1>4. k \in 0 .. m
  BY <1>1, <1>3
<1>5. ASSUME NEW i \in 1 .. k PROVE numbers[i] = b + o + i - 1 /\ numbers[i] # 0
  <2>1. i \in 1 .. m /\ o + i - 1 < n
    BY <1>1, <1>3, <1>4
  <2>2. numbers[i] = b + (o + i - 1)
    BY <1>2, <2>1
  <2> QED BY <2>1, <2>2
<1>6. k = m \/ numbers[k + 1] = 0
  <2>1. CASE k # m
    <3>1. k + 1 \in 1 .. m /\ ~(o + (k + 1) - 1 < n)
      BY <1>1, <1>3, <1>4, <2>1
    <3> HIDE DEF k
    <3> QED BY <3>1, <1>2
  <2> QED BY <2>1
<1> HIDE DEF k
<1>7. UpToZero(numbers) \in Seq(Nat) /\ IsPart(UpToZero(numbers), numbers, 1, k)
  BY <1>2, <1>4, <1>5, <1>6, UpToZeroIs
<1> DEFINE u == UpToZero(numbers)
<1> HIDE DEF u
<1>8. u \in Seq(Nat) /\ Len(u) = k /\ \A i \in 1 .. k : u[i] = numbers[1 + i - 1]
  BY <1>7 DEF IsPart, u
<1>9. \A i \in 1 .. k : u[i] = b + o + i - 1
  <2>1. \A i \in 1 .. k : 1 + i - 1 = i
    BY <1>4
  <2> QED BY <2>1, <1>5, <1>8
<1>10. k = IF b + o <= b + e THEN (b + e) - (b + o) ELSE 0
  BY <1>3 DEF k
<1>11. Once(u, b + o .. (b + e) - 1)
  <2> DEFINE a == b + o
             z == b + e
  <2>1. a \in Nat /\ z \in Nat
    BY <1>3
  <2>2. Len(u) = (IF a <= z THEN z - a ELSE 0) /\ \A i \in 1 .. Len(u) : u[i] = a + i - 1
    BY <1>8, <1>9, <1>10
  <2> HIDE DEF a, z
  <2>3. Once(u, a .. z - 1)
    BY <1>8, <2>1, <2>2, OnceRange
  <2> QED BY <2>3 DEF a, z
<1>12. (b + e) - 1 = b + e - 1
  BY <1>3
<1> QED BY <1>11, <1>12 DEF u

(* One block number, which may be 0.                                       *)
LEMMA UpToOne ==
  ASSUME NEW x \in Nat, NEW S, S = IF x = 0 THEN {} ELSE {x}
  PROVE  Once(UpToZero(<<x>>), S)
<1> DEFINE s == <<x>>
           k == IF x = 0 THEN 0 ELSE 1
<1>1. s \in Seq(Nat) /\ Len(s) = 1 /\ s[1] = x
  OBVIOUS
<1>2. k \in 0 .. 1 /\ (\A i \in 1 .. k : s[i] # 0) /\ (k = 1 \/ s[k + 1] = 0)
  OBVIOUS
<1> HIDE DEF s
<1>3. UpToZero(s) \in Seq(Nat) /\ IsPart(UpToZero(s), s, 1, k)
  BY <1>1, <1>2, UpToZeroIs
<1>4. Len(UpToZero(s)) = k /\ \A i \in 1 .. k : UpToZero(s)[i] = x
  BY <1>1, <1>3 DEF IsPart
<1>5. Once(UpToZero(s), S)
  BY <1>3, <1>4 DEF Once
<1> QED BY <1>5 DEF s

(* There is no block 0: read as block numbers it is empty.                 *)
LEMMA ZeroRead ==
  ASSUME NEW img, NEW x, x = 0
  PROVE  Once(UpToZero(ind(img, x)), {})
<1> DEFINE s == ind(img, x)
           k == 0
<1>1. \A i \in 1 .. NINDIR : s[i] = 0
  BY Sizes DEF ind, blk, ZeroBlock, Zero
<1>2. s \in Seq(Nat) /\ Len(s) = NINDIR /\ NINDIR \in Nat /\ NINDIR > 0
  BY <1>1, IndTyped, IndLen, Sizes
<1> HIDE DEF s
<1>3. k \in 0 .. Len(s) /\ (\A i \in 1 .. k : s[i] # 0) /\ s[k + 1] = 0
  BY <1>1, <1>2
<1> HIDE DEF k
<1>4. UpToZero(s) \in Seq(Nat) /\ IsPart(UpToZero(s), s, 1, k)
  BY <1>2, <1>3, UpToZeroIs
<1>5. Once(UpToZero(s), {})
  BY <1>4 DEF Once, IsPart, k
<1> QED BY <1>5 DEF s

(* A row of numbers cut into pieces of w.                                  *)
Slice(a, d, w, j) == a + (j - 1) * w .. a + (IF (j - 1) * w + w < d THEN (j - 1) * w + w ELSE d) - 1

LEMMA SliceOf ==
  ASSUME NEW a \in Nat, NEW d \in Nat, NEW w \in Nat, w > 0, NEW j \in Nat, j > 0, NEW x
  PROVE  x \in Slice(a, d, w, j) <=> x \in a .. a + d - 1 /\ (x - a) \div w = j - 1
<1> DEFINE y == x - a
           q == j - 1
           p == q * w
<1>1. q \in Nat /\ p \in Nat
  OBVIOUS
<1>2. x \in Slice(a, d, w, j) <=> x \in Nat /\ a + p <= x /\ x < a + p + w /\ x < a + d
  <2> DEFINE e == IF p + w < d THEN p + w ELSE d
  <2>1. Slice(a, d, w, j) = a + p .. a + e - 1
    BY DEF Slice
  <2>2. e \in Nat /\ e = IF p + w < d THEN p + w ELSE d
    BY <1>1
  <2> HIDE DEF p, e
  <2> QED BY <1>1, <2>1, <2>2
<1>3. ASSUME x \in Slice(a, d, w, j) PROVE x \in a .. a + d - 1 /\ y \div w = q
  <2>1. x \in Nat /\ a + p <= x /\ x < a + p + w /\ x < a + d
    BY <1>2, <1>3
  <2>2. p = w * q
    BY <1>1
  <2> HIDE DEF p, q
  <2> DEFINE r == y - p
  <2>3. y \in Nat /\ r \in Nat /\ r < w /\ y = p + r
    BY <1>1, <2>1
  <2>4. y = w * q + r
    BY <2>2, <2>3
  <2>6. x \in a .. a + d - 1
    BY <1>1, <2>1
  <2> HIDE DEF y, r
  <2>5. y \div w = q
    BY <1>1, <2>3, <2>4, DivIs
  <2> QED BY <2>5, <2>6
<1>4. ASSUME x \in a .. a + d - 1, y \div w = q PROVE x \in Slice(a, d, w, j)
  <2>1. y \in Nat
    BY <1>4
  <2> DEFINE r == y % w
  <2>4. x = a + y /\ x < a + d /\ x \in Nat
    BY <1>4
  <2>2. r \in Nat /\ r < w /\ y = w * q + r
    BY <1>4, <2>1
  <2>3. p = w * q
    BY <1>1
  <2> HIDE DEF p, q, r, y
  <2>5. a + p <= x /\ x < a + p + w
    BY <1>1, <2>1, <2>2, <2>3, <2>4
  <2> QED BY <1>2, <2>4, <2>5
<1> QED BY <1>3, <1>4

Slices(sets, a, d, w, m) ==
  /\ a \in Nat /\ d \in Nat /\ w \in Nat /\ w > 0 /\ m \in Nat /\ d <= m * w
  /\ \A j \in 1 .. m : sets[j] = Slice(a, d, w, j)

LEMMA Sliced ==
  ASSUME NEW sets, NEW a, NEW d, NEW w, NEW m, Slices(sets, a, d, w, m)
  PROVE  Apart(sets, m) /\ UNION {sets[j] : j \in 1 .. m} = a .. a + d - 1
<1>0. /\ a \in Nat /\ d \in Nat /\ w \in Nat /\ w > 0 /\ m \in Nat /\ d <= m * w
      /\ \A j \in 1 .. m : sets[j] = Slice(a, d, w, j)
  BY DEF Slices
<1>1. ASSUME NEW j \in 1 .. m, NEW x
      PROVE  x \in Slice(a, d, w, j) <=> x \in a .. a + d - 1 /\ (x - a) \div w = j - 1
  <2>1. j \in Nat /\ j > 0
    BY <1>0
  <2> QED BY <1>0, <2>1, SliceOf
<1>2. ASSUME NEW x \in a .. a + d - 1 PROVE \E j \in 1 .. m : x \in Slice(a, d, w, j)
  <2> DEFINE y == x - a
             q == y \div w
             r == y % w
  <2>1. y \in Nat /\ y < d
    BY <1>0
  <2>2. q \in Nat /\ r \in Nat /\ y = w * q + r
    BY <1>0, <2>1
  <2> HIDE DEF q, r, y
  <2>3. ~(m <= q)
    <3> SUFFICES ASSUME m <= q PROVE FALSE
      OBVIOUS
    <3>1. m * w \in Nat /\ q * w \in Nat /\ m * w <= q * w
      BY <1>0, <2>2, Mono
    <3>2. q * w = w * q
      BY <1>0, <2>2
    <3> DEFINE u == q * w
               v == m * w
    <3> HIDE DEF u, v
    <3>3. y = u + r /\ u \in Nat /\ v \in Nat /\ v <= u /\ d <= v
      BY <1>0, <2>2, <3>1, <3>2 DEF u, v
    <3> QED BY <1>0, <2>1, <2>2, <3>3
  <2>4. q + 1 \in 1 .. m /\ (q + 1) - 1 = q
    BY <1>0, <2>2, <2>3
  <2>5. (x - a) \div w = (q + 1) - 1
    BY <2>4 DEF q, y
  <2>6. x \in Slice(a, d, w, q + 1)
    BY <1>1, <2>4, <2>5
  <2> QED BY <2>4, <2>6
<1>3. Apart(sets, m)
  <2> SUFFICES ASSUME NEW i \in 1 .. m, NEW j \in 1 .. m, i # j, NEW x \in sets[i], x \in sets[j]
               PROVE  FALSE
    BY DEF Apart
  <2>1. i - 1 = j - 1
    BY <1>0, <1>1
  <2> QED BY <1>0, <2>1
<1>4. \A j \in 1 .. m : \A x \in Slice(a, d, w, j) : x \in a .. a + d - 1
  BY <1>1
<1>5. UNION {sets[j] : j \in 1 .. m} = a .. a + d - 1
  <2> DEFINE U == UNION {Slice(a, d, w, j) : j \in 1 .. m}
             I == a .. a + d - 1
  <2>1. \A x \in U : x \in I
    BY <1>4
  <2>2. \A x \in I : x \in U
    BY <1>2
  <2> HIDE DEF U, I
  <2>3. U = I
    BY <2>1, <2>2
  <2>4. {sets[j] : j \in 1 .. m} = {Slice(a, d, w, j) : j \in 1 .. m}
    BY <1>0
  <2> QED BY <2>3, <2>4, Zenon DEF U, I
<1> QED BY <1>3, <1>5

(* The blocks the second level of indirection refers to.                   *)
LEMMA InnerOnce ==
  ASSUME NEW text \in Seq(Cell), NEW b \in Nat, b > 0, NEW img, Laid(img, text, b),
         InDouble(DataBlocks(text)) > 0, Inner(DataBlocks(text)) <= NINDIR,
         NEW outer, outer = UpToZero(ind(img, b + DataBlocks(text) + 1 + Inner(DataBlocks(text))))
  PROVE  /\ Once(outer, b + DataBlocks(text) + 1 .. b + DataBlocks(text) + Inner(DataBlocks(text)))
         /\ Once(FlattenSeq([i \in 1 .. Len(outer) |-> UpToZero(ind(img, outer[i]))]),
                 b + NDIRECT + NINDIR .. b + DataBlocks(text) - 1)
<1> DEFINE n == DataBlocks(text)
           k == Inner(n)
           d == InDouble(n)
           c == NDIRECT + NINDIR
           a == b + c
           w == NINDIR
           parts == [i \in 1 .. Len(outer) |-> UpToZero(ind(img, outer[i]))]
           sets == [i \in 1 .. k |-> Slice(a, d, w, i)]
<1>1. /\ outer \in Seq(Nat) /\ Len(outer) = k /\ DOMAIN outer = 1 .. k
      /\ \A i \in 1 .. k : outer[i] = b + n + i
  BY OuterIs
<1>2. /\ n \in Nat /\ k \in Nat /\ k > 0 /\ d \in Nat /\ n = NDIRECT + NINDIR + d /\ d <= k * NINDIR
      /\ \A j \in 1 .. k : (j - 1) * NINDIR \in Nat /\ (j - 1) * NINDIR < d
  BY LenProperties, DoubleSizes
<1>3. w \in Nat /\ w > 0 /\ c \in Nat /\ a \in Nat
  BY Sizes
<1>4. Once(outer, b + n + 1 .. b + n + k)
  <2> DEFINE lo == b + n + 1
             hi == b + n + k + 1
  <2> HIDE DEF n, k
  <2>1. lo \in Nat /\ hi \in Nat /\ Len(outer) = IF lo <= hi THEN hi - lo ELSE 0
    BY <1>1, <1>2
  <2>2. \A i \in 1 .. Len(outer) : outer[i] = lo + i - 1
    BY <1>1, <1>2
  <2>3. hi - 1 = b + n + k
    BY <1>2
  <2> HIDE DEF lo, hi
  <2>4. Once(outer, lo .. hi - 1)
    BY <1>1, <2>1, <2>2, OnceRange
  <2> QED BY <2>3, <2>4 DEF lo
<1>5. ASSUME NEW j \in 1 .. k PROVE Once(parts[j], sets[j])
  <2> DEFINE p == (j - 1) * NINDIR
             off == c + p
             x == b + n + j
             numbers == ind(img, x)
             e == IF off + NINDIR < n THEN off + NINDIR ELSE n
  <2>1. p \in Nat /\ p < d /\ off \in Nat /\ e \in Nat
    <3>1. p \in Nat /\ p < d
      BY <1>2, Zenon
    <3> HIDE DEF p, n, c
    <3>2. off \in Nat /\ NINDIR \in Nat
      BY <1>3, <3>1
    <3> QED BY <1>2, <3>1, <3>2
  <2>2. \A i \in 1 .. NINDIR : numbers[i] = At(b, n, c + (j - 1) * NINDIR + i - 1)
    BY LenProperties, InnerRead
  <2>3. c + (j - 1) * NINDIR = off
    OBVIOUS
  <2> HIDE DEF off, p, c
  <2>4. \A i \in 1 .. NINDIR : numbers[i] \in Nat
    <3>1. ASSUME NEW i \in 1 .. NINDIR PROVE At(b, n, off + i - 1) \in Nat
      <4> HIDE DEF n
      <4> QED BY <1>2, <2>1, <3>1 DEF At
    <3> QED BY <2>2, <2>3, <3>1
  <2>5. Ats(numbers, text, b, off, NINDIR)
    <3>1. Len(numbers) = NINDIR
      BY IndLen
    <3> QED BY <2>2, <2>3, <3>1, Zenon DEF Ats
  <2>6. numbers \in Seq(Nat)
    <3> HIDE DEF x
    <3> QED BY <2>4, IndTyped
  <2> HIDE DEF numbers, x
  <2>7. Once(UpToZero(numbers), b + off .. b + e - 1)
    <3>1. Len(text) \in Nat /\ NINDIR \in Nat
      BY LenProperties, <1>3
    <3> QED BY <2>1, <2>5, <2>6, <3>1, AtsOnce
  <2>8. b + off .. b + e - 1 = sets[j]
    <3>1. sets[j] = a + p .. a + (IF p + w < d THEN p + w ELSE d) - 1
      BY DEF Slice, p
    <3>2. off = c + p /\ a = b + c /\ n = c + d /\ w = NINDIR
      BY <1>2 DEF off, c
    <3> HIDE DEF n, a, sets, d, w
    <3>3. b + off = a + p
      BY <1>2, <1>3, <2>1, <3>2
    <3>4. b + e - 1 = a + (IF p + w < d THEN p + w ELSE d) - 1
      BY <1>2, <1>3, <2>1, <3>2
    <3> QED BY <3>1, <3>3, <3>4
  <2>9. parts[j] = UpToZero(numbers)
    BY <1>1 DEF numbers, x
  <2> QED BY <2>7, <2>8, <2>9
<1>6. Len(parts) = k
  <2> DEFINE T == {UpToZero(ind(img, outer[i])) : i \in 1 .. k}
  <2>1. parts \in [1 .. k -> T]
    BY <1>1
  <2> HIDE DEF T, parts
  <2>2. parts \in Seq(T)
    BY <1>2, <2>1, SeqDef
  <2> QED BY <1>2, <2>1, <2>2, LenProperties
<1>7. Apart(sets, k) /\ UNION {sets[i] : i \in 1 .. k} = a .. a + d - 1
  <2>1. d <= k * w /\ a \in Nat /\ d \in Nat /\ w \in Nat /\ w > 0 /\ k \in Nat
    BY <1>2, <1>3
  <2>2. \A i \in 1 .. k : sets[i] = Slice(a, d, w, i)
    OBVIOUS
  <2> HIDE DEF d, k, w, a, sets
  <2>3. Slices(sets, a, d, w, k)
    BY <2>1, <2>2, Zenon DEF Slices
  <2>4. Apart(sets, k)
    BY <2>3, Sliced, Zenon
  <2>5. UNION {sets[i] : i \in 1 .. k} = a .. a + d - 1
    BY <2>3, Sliced
  <2> QED BY <2>4, <2>5
<1> HIDE DEF parts, sets, k
<1>8. Once(FlattenSeq(parts), UNION {sets[i] : i \in 1 .. k})
  BY <1>2, <1>5, <1>6, <1>7, OnceFlat
<1>9. a + d - 1 = b + n - 1 /\ a = b + NDIRECT + NINDIR
  <2>1. NDIRECT \in Nat /\ NINDIR \in Nat
    BY Sizes
  <2> HIDE DEF n, d
  <2> QED BY <1>2, <2>1
<1> QED BY <1>4, <1>7, <1>8, <1>9 DEF parts, k, n

(* Every block that a file took when it was stored is found from its inode *)
(* exactly once.                                                           *)
LEMMA BlocksOfOnce ==
  ASSUME NEW text \in Seq(Cell), NEW b \in Nat, b > 0, Laid(image, text, b),
         Inner(DataBlocks(text)) <= NINDIR,
         NEW ino, ino.addr = AddrOf(text, b), ino.kind # "node"
  PROVE  Once(BlocksOf(ino), b .. b + BlocksTaken(DataBlocks(text)) - 1)
<1> DEFINE n == DataBlocks(text)
           k == Inner(n)
           D == NDIRECT
           N == NINDIR
           single == ino.addr[NDIRECT + 1]
           double == ino.addr[NDIRECT + 2]
           outer  == UpToZero(ind(image, double))
           direct == UpToZero(SubSeq(ino.addr, 1, NDIRECT))
           second == UpToZero(ind(image, single))
           inner  == FlattenSeq([i \in 1 .. Len(outer) |-> UpToZero(ind(image, outer[i]))])
           S1 == b .. b + (IF D < n THEN D ELSE n) - 1
           S2 == IF n > D THEN {b + n} ELSE {}
           S3 == IF n > D THEN b + D .. b + (IF D + N < n THEN D + N ELSE n) - 1 ELSE {}
           S4 == IF n > D + N THEN b + D + N .. b + n - 1 ELSE {}
           S5 == IF n > D + N THEN b + n + 1 .. b + n + k ELSE {}
           S6 == IF n > D + N THEN {b + n + 1 + k} ELSE {}
<1>1. /\ Len(text) \in Nat /\ n \in Nat /\ k \in Nat /\ D \in Nat /\ D > 0 /\ N \in Nat /\ N > 0
      /\ NADDR = D + 3
  BY LenProperties, Taken, Sizes
<1>2. /\ InSingle(n) > 0 <=> n > D
      /\ InDouble(n) > 0 <=> n > D + N
      /\ BlocksTaken(n) = n + (IF n > D THEN 1 ELSE 0) + (IF n > D + N THEN k + 1 ELSE 0)
  <2> HIDE DEF n, k
  <2> QED BY <1>1 DEF InSingle, InDouble, Beyond, BlocksTaken, k
<1>3. /\ single = IF n > D THEN b + n ELSE 0
      /\ double = IF n > D + N THEN b + n + 1 + k ELSE 0
  <2>1. D + 1 \in 1 .. NADDR /\ D + 2 \in 1 .. NADDR
    BY <1>1
  <2> HIDE DEF n, k
  <2> QED BY <1>1, <1>2, <2>1 DEF AddrOf, n, k
<1>4. Once(direct, S1)
  <2> DEFINE o == 0
             e == IF D < n THEN D ELSE n
             numbers == SubSeq(ino.addr, 1, NDIRECT)
  <2>1. numbers \in Seq(Nat) /\ Ats(numbers, text, b, o, D)
    BY <1>1, DirectAts
  <2>2. e = IF o + D < n THEN o + D ELSE n
    BY <1>1
  <2>3. o \in Nat /\ b + o = b
    OBVIOUS
  <2> HIDE DEF o, e, numbers, n
  <2>4. Once(UpToZero(numbers), b + o .. b + e - 1)
    BY <1>1, <2>1, <2>2, <2>3, AtsOnce DEF n
  <2> QED BY <2>3, <2>4 DEF numbers, e
<1>5. Once(UpToZero(<<single>>), S2)
  <2>1. single \in Nat /\ S2 = IF single = 0 THEN {} ELSE {single}
    <3>1. single \in Nat /\ (single = 0 <=> ~(n > D))
      <4> HIDE DEF single, n
      <4> QED BY <1>1, <1>3
    <3>2. n > D => S2 = {single}
      BY <1>3
    <3> HIDE DEF single
    <3> QED BY <3>1, <3>2
  <2> HIDE DEF single, S2
  <2> QED BY <2>1, UpToOne
<1>6. Once(second, S3)
  <2>1. CASE n > D
    <3> DEFINE e == IF D + N < n THEN D + N ELSE n
               numbers == ind(image, single)
    <3>1. single = b + n
      BY <1>3, <2>1
    <3>2. \A i \in 1 .. NINDIR : numbers[i] = At(b, n, NDIRECT + i - 1)
      BY <1>1, <1>2, <2>1, <3>1, SingleRead
    <3>3. \A i \in 1 .. NINDIR : numbers[i] \in Nat
      <4> HIDE DEF n, numbers
      <4> QED BY <1>1, <3>2 DEF At
    <3>4. numbers \in Seq(Nat) /\ Len(numbers) = NINDIR
      BY <3>3, IndTyped, IndLen
    <3>5. Ats(numbers, text, b, D, N)
      BY <3>2, <3>4, Zenon DEF Ats
    <3> HIDE DEF e, numbers, n
    <3>6. Once(UpToZero(numbers), b + D .. b + e - 1)
      BY <1>1, <3>4, <3>5, AtsOnce DEF n, e
    <3> QED BY <2>1, <3>6 DEF numbers, e
  <2>2. CASE ~(n > D)
    <3>1. single = 0 /\ S3 = {}
      BY <1>3, <2>2
    <3> HIDE DEF single, S3
    <3> QED BY <3>1, ZeroRead
  <2> QED BY <2>1, <2>2
<1>7. Once(inner, S4) /\ Once(outer, S5)
  <2>1. CASE n > D + N
    <3>1. outer = UpToZero(ind(image, b + n + 1 + k))
      BY <1>3, <2>1
    <3>2. InDouble(n) > 0
      BY <1>2, <2>1
    <3> HIDE DEF outer
    <3>3. /\ Once(outer, b + n + 1 .. b + n + k)
          /\ Once(FlattenSeq([i \in 1 .. Len(outer) |-> UpToZero(ind(image, outer[i]))]),
                  b + D + N .. b + n - 1)
      BY <3>1, <3>2, InnerOnce
    <3> QED BY <2>1, <3>3
  <2>2. CASE ~(n > D + N)
    <3>1. double = 0 /\ S4 = {} /\ S5 = {}
      BY <1>3, <2>2
    <3> HIDE DEF double, S4, S5
    <3>2. Once(outer, {})
      BY <3>1, ZeroRead
    <3> HIDE DEF outer
    <3>3. Len(outer) = 0
      BY <3>2, LenProperties DEF Once
    <3> DEFINE s == [i \in 1 .. Len(outer) |-> UpToZero(ind(image, outer[i]))]
    <3>4. s = <<>>
      BY <3>3
    <3> HIDE DEF s
    <3>5. FlattenSeq(s) = <<>>
      BY <3>4 DEF FlattenSeq
    <3> QED BY <3>1, <3>2, <3>5, OnceNone DEF s
  <2> QED BY <2>1, <2>2
<1>8. Once(UpToZero(<<double>>), S6)
  <2>1. double \in Nat /\ S6 = IF double = 0 THEN {} ELSE {double}
    <3>1. double \in Nat /\ (double = 0 <=> ~(n > D + N))
      <4> HIDE DEF double, n, k
      <4> QED BY <1>1, <1>3
    <3>2. n > D + N => S6 = {double}
      BY <1>3
    <3> HIDE DEF double
    <3> QED BY <3>1, <3>2
  <2> HIDE DEF double, S6
  <2> QED BY <2>1, UpToOne
<1>9. /\ \A x \in S1 : x \notin S2
      /\ \A x \in S1 \cup S2 : x \notin S3
      /\ \A x \in S1 \cup S2 \cup S3 : x \notin S4
      /\ \A x \in S1 \cup S2 \cup S3 \cup S4 : x \notin S5
      /\ \A x \in S1 \cup S2 \cup S3 \cup S4 \cup S5 : x \notin S6
  <2> HIDE DEF n, k, D, N
  <2>1. \A x \in S1 : x \notin S2
    BY <1>1
  <2>2. \A x \in S1 \cup S2 : x \notin S3
    BY <1>1
  <2>3. \A x \in S1 \cup S2 \cup S3 : x \notin S4
    BY <1>1
  <2>4. \A x \in S1 \cup S2 \cup S3 \cup S4 : x \notin S5
    BY <1>1
  <2>5. \A x \in S1 \cup S2 \cup S3 \cup S4 \cup S5 : x \notin S6
    BY <1>1
  <2> QED BY <2>1, <2>2, <2>3, <2>4, <2>5
<1>10. S1 \cup S2 \cup S3 \cup S4 \cup S5 \cup S6 = b .. b + BlocksTaken(n) - 1
  <2> DEFINE z == BlocksTaken(n)
  <2>1. z = n + (IF n > D THEN 1 ELSE 0) + (IF n > D + N THEN k + 1 ELSE 0)
    BY <1>2
  <2> HIDE DEF n, k, D, N, z
  <2>2. z \in Nat
    BY <1>1, <2>1
  <2>3. ASSUME NEW x \in b .. b + z - 1 PROVE x \in S1 \cup S2 \cup S3 \cup S4 \cup S5 \cup S6
    <3>1. CASE ~(n > D)
      BY <1>1, <2>1, <2>3, <3>1
    <3>2. CASE n > D /\ ~(n > D + N)
      BY <1>1, <2>1, <2>3, <3>2
    <3>3. CASE n > D + N
      BY <1>1, <2>1, <2>3, <3>3
    <3> QED BY <1>1, <3>1, <3>2, <3>3
  <2>4. ASSUME NEW x \in S1 \cup S2 \cup S3 \cup S4 \cup S5 \cup S6 PROVE x \in b .. b + z - 1
    <3>1. CASE ~(n > D)
      BY <1>1, <2>1, <2>4, <3>1
    <3>2. CASE n > D /\ ~(n > D + N)
      BY <1>1, <2>1, <2>4, <3>2
    <3>3. CASE n > D + N
      BY <1>1, <2>1, <2>4, <3>3
    <3> QED BY <1>1, <3>1, <3>2, <3>3
  <2> DEFINE I == b .. b + z - 1
             S == S1 \cup S2 \cup S3 \cup S4 \cup S5 \cup S6
  <2>5. (\A x \in S : x \in I) /\ (\A x \in I : x \in S)
    BY <2>3, <2>4
  <2> HIDE DEF I, S
  <2>6. S = I
    BY <2>5
  <2> QED BY <2>6 DEF S, I, z
<1>11. BlocksOf(ino) = direct \o UpToZero(<<single>>) \o second \o inner \o outer \o UpToZero(<<double>>)
  BY Zenon DEF BlocksOf
<1> DEFINE one == UpToZero(<<single>>)
           two == UpToZero(<<double>>)
<1>12. Once(one, S2) /\ Once(two, S6)
  BY <1>5, <1>8
<1> HIDE DEF direct, second, inner, outer, one, two, S1, S2, S3, S4, S5, S6
<1>13. Once(direct \o one, S1 \cup S2)
  BY <1>4, <1>9, <1>12, OnceJoin
<1>14. Once(direct \o one \o second, S1 \cup S2 \cup S3)
  BY <1>6, <1>9, <1>13, OnceJoin
<1>15. Once(direct \o one \o second \o inner, S1 \cup S2 \cup S3 \cup S4)
  BY <1>7, <1>9, <1>14, OnceJoin
<1>16. Once(direct \o one \o second \o inner \o outer, S1 \cup S2 \cup S3 \cup S4 \cup S5)
  BY <1>7, <1>9, <1>15, OnceJoin
<1>17. Once(direct \o one \o second \o inner \o outer \o two,
            S1 \cup S2 \cup S3 \cup S4 \cup S5 \cup S6)
  BY <1>9, <1>12, <1>16, OnceJoin
<1>18. BlocksOf(ino) = direct \o one \o second \o inner \o outer \o two
  BY <1>11, Zenon DEF one, two
<1> QED BY <1>10, <1>17, <1>18, Zenon DEF n

(* An inode that was never used refers to no block.                        *)
LEMMA BlankOnce ==
  ASSUME NEW n, ilist[n] = Blank
  PROVE  Once(BlocksOf(inode(ilist, n)), {})
<1> DEFINE ino == Inode("none", 0)
           text == <<>>
           b == first_data
<1>1. ino.addr \in [1 .. NADDR -> Nat] /\ \A i \in 1 .. NADDR : ino.addr[i] = 0
  BY DEF Inode
<1>2. IsInode(ino)
  BY <1>1 DEF IsInode, Inode
<1>3. inode(ilist, n) = ino
  <2>1. ilist[n] = pack_inode(ino)
    BY DEF Blank
  <2>2. \A k \in 1 .. NADDR : ino.addr[k] < BYTE * BYTE * BYTE
    <3> DEFINE most == BYTE * BYTE * BYTE
    <3>1. NBlocks <= most /\ NBlocks \in Nat /\ NBlocks > 0
      BY MkfsAssumption
    <3>2. most \in Nat
      BY MkfsAssumption
    <3> HIDE DEF most, ino
    <3>3. \A k \in 1 .. NADDR : ino.addr[k] < most
      BY <1>1, <3>1, <3>2
    <3> QED BY <3>3 DEF most
  <2> HIDE DEF ino
  <2> QED BY <1>2, <2>1, <2>2, InodeRead
<1>4. text \in Seq(Cell) /\ Len(text) = 0
  OBVIOUS
<1>5. b \in Nat /\ b > 0 /\ BSIZE \in Nat /\ BSIZE > 0 /\ NDIRECT \in Nat /\ NINDIR \in Nat /\ NINDIR > 0
  BY Sizes
<1>6. DataBlocks(text) = 0
  <2> DEFINE z == 0
             r == BSIZE - 1
             x == z + BSIZE - 1
  <2>1. z \in Nat /\ r \in Nat /\ r < BSIZE /\ x \in Nat /\ x = r
    BY <1>5
  <2>2. x = BSIZE * z + r
    BY <1>5, <2>1
  <2> HIDE DEF z, r, x
  <2>3. x \div BSIZE = z
    BY <1>5, <2>1, <2>2, DivIs
  <2> QED BY <1>4, <2>3 DEF DataBlocks, x, z
<1>7. BlocksTaken(DataBlocks(text)) = 0
  BY <1>4, <1>6, NoBlocks
<1>8. InSingle(0) = 0 /\ InDouble(0) = 0
  BY <1>5 DEF InSingle, InDouble, Beyond
<1>9. Inner(DataBlocks(text)) <= NINDIR
  <2> DEFINE z == 0
             r == NINDIR - 1
             x == z + NINDIR - 1
  <2>1. z \in Nat /\ r \in Nat /\ r < NINDIR /\ x \in Nat /\ x = r
    BY <1>5
  <2>2. x = NINDIR * z + r
    BY <1>5, <2>1
  <2> HIDE DEF z, r, x
  <2>3. x \div NINDIR = z
    BY <1>5, <2>1, <2>2, DivIs
  <2>4. Inner(0) = 0
    BY <1>8, <2>3 DEF Inner, x, z
  <2> QED BY <1>5, <1>6, <2>4
<1>10. ino.addr = AddrOf(text, b)
  <2>1. \A i \in 1 .. NADDR : AddrOf(text, b)[i] = 0
    BY <1>5, <1>6, <1>8 DEF AddrOf
  <2>2. DOMAIN AddrOf(text, b) = 1 .. NADDR /\ AddrOf(text, b) = [i \in 1 .. NADDR |-> AddrOf(text, b)[i]]
    BY DEF AddrOf
  <2> QED BY <1>1, <2>1, <2>2
<1>11. Laid(image, text, b)
  BY <1>5, <1>7 DEF Laid
<1>12. ino.kind # "node"
  BY DEF Inode
<1> HIDE DEF ino, text, b
<1>13. Once(BlocksOf(ino), b .. b + BlocksTaken(DataBlocks(text)) - 1)
  BY <1>4, <1>5, <1>9, <1>10, <1>11, <1>12, BlocksOfOnce
<1>14. b .. b + BlocksTaken(DataBlocks(text)) - 1 = {}
  BY <1>5, <1>7
<1> QED BY <1>3, <1>13, <1>14

(* What the finished i-list refers to is what was taken.                   *)
LEMMA UsedOnce ==
  ASSUME MkInv, StoreInv, stage = "done"
  PROVE  Once(FlattenSeq([n \in 1 .. ninodes |-> BlocksOf(inode(ilist, n))]),
              first_data .. next_block - 1)
<1> DEFINE s == [n \in 1 .. ninodes |-> BlocksOf(inode(ilist, n))]
           sets == [n \in 1 .. ninodes |->
                      IF n \in DOMAIN written THEN Extent(tree.inodes[n], written[n]) ELSE {}]
<1>1. /\ TreeInv(tree) /\ tree.next_ino <= ninodes /\ ilist = OnIlist(tree)
      /\ DOMAIN written \subseteq Nums(tree)
  BY DEF MkInv, Sound
<1>2. Kept(tree, written, image, next_block) /\ Tiled(tree, written, next_block)
      /\ DirsInv(tree) /\ DirsWritten
  BY DEF StoreInv
<1>3. Nums(tree) \subseteq 1 .. ninodes /\ DOMAIN tree.inodes = Nums(tree)
  BY <1>1, Sizes DEF TreeInv, Nums, ROOTINO
<1>4. ASSUME NEW n \in 1 .. ninodes PROVE Once(s[n], sets[n])
  <2>1. CASE n \in DOMAIN written
    <3> DEFINE ino == tree.inodes[n]
               text == written[n]
    <3>1. text \in Seq(Cell) /\ Holds(ino, text) /\ Laid(image, text, Start(ino))
      BY <1>2, <2>1 DEF Kept
    <3>2. /\ ino.kind # "node" /\ ino.addr = AddrOf(text, Start(ino))
          /\ Start(ino) \in Nat /\ Start(ino) > 0 /\ Inner(DataBlocks(text)) <= NINDIR
      BY <3>1 DEF Holds
    <3>3. inode(ilist, n) = ino
      BY <1>1, <2>1, <3>2, ReadInode
    <3>4. s[n] = BlocksOf(ino) /\ sets[n] = Extent(ino, text)
      BY <2>1, <3>3
    <3> HIDE DEF ino, text, s, sets, Cell
    <3>5. Once(BlocksOf(ino), Start(ino) .. Start(ino) + BlocksTaken(DataBlocks(text)) - 1)
      BY <3>1, <3>2, BlocksOfOnce
    <3> QED BY <3>4, <3>5 DEF Extent
  <2>2. CASE n \in Nums(tree) /\ n \notin DOMAIN written
    <3>1. tree.inodes[n].kind \in {"file", "dir", "node"}
      BY <1>1, <2>2 DEF TreeInv, InodeType
    <3>2. tree.inodes[n].kind # "file"
      BY <1>2, <2>2 DEF DirsWritten
    <3>3. tree.inodes[n].kind # "dir"
      BY <1>2, <2>2 DEF DirsWritten, DirsInv
    <3>4. ilist[n] = pack_inode(tree.inodes[n])
      BY <1>1, <1>3, <2>2 DEF OnIlist
    <3>5. inode(ilist, n).kind = "node"
      BY <3>1, <3>2, <3>3, <3>4 DEF inode, pack_inode
    <3>6. BlocksOf(inode(ilist, n)) = <<>>
      BY <3>5 DEF BlocksOf
    <3> QED BY <2>2, <3>6, OnceNone
  <2>3. CASE n \notin Nums(tree)
    <3>1. ilist[n] = Blank
      BY <1>1, <1>3, <2>3 DEF OnIlist
    <3>2. sets[n] = {} /\ s[n] = BlocksOf(inode(ilist, n))
      BY <1>1, <2>3
    <3> QED BY <3>1, <3>2, BlankOnce
  <2> QED BY <2>1, <2>2, <2>3
<1>5. Apart(sets, ninodes)
  <2> SUFFICES ASSUME NEW i \in 1 .. ninodes, NEW j \in 1 .. ninodes, i # j,
                      NEW x \in sets[i], x \in sets[j]
               PROVE  FALSE
    BY DEF Apart
  <2>1. i \in DOMAIN written /\ x \in Extent(tree.inodes[i], written[i])
    OBVIOUS
  <2>2. j \in DOMAIN written /\ x \in Extent(tree.inodes[j], written[j])
    OBVIOUS
  <2> QED BY <1>2, <2>1, <2>2 DEF Tiled
<1>6. UNION {sets[i] : i \in 1 .. ninodes} = first_data .. next_block - 1
  <2>1. ASSUME NEW i \in 1 .. ninodes, NEW x \in sets[i] PROVE x \in first_data .. next_block - 1
    <3>1. i \in DOMAIN written /\ x \in Extent(tree.inodes[i], written[i])
      OBVIOUS
    <3> QED BY <1>2, <3>1 DEF Kept
  <2>2. ASSUME NEW x \in first_data .. next_block - 1 PROVE \E i \in 1 .. ninodes : x \in sets[i]
    <3>1. PICK i \in DOMAIN written : x \in Extent(tree.inodes[i], written[i])
      BY <1>2 DEF Tiled
    <3>2. i \in 1 .. ninodes
      BY <1>1, <1>3
    <3> QED BY <3>1, <3>2
  <2> HIDE DEF sets
  <2> DEFINE U == UNION {sets[i] : i \in 1 .. ninodes}
             I == first_data .. next_block - 1
  <2>3. (\A x \in U : x \in I) /\ (\A x \in I : x \in U)
    BY <2>1, <2>2
  <2> HIDE DEF U, I
  <2>4. U = I
    BY <2>3
  <2> QED BY <2>4 DEF U, I
<1>7. Len(s) = ninodes /\ ninodes \in Nat /\ ninodes > 0
  <2> DEFINE T == {BlocksOf(inode(ilist, n)) : n \in 1 .. ninodes}
  <2>1. ninodes \in Nat /\ ninodes > 0
    BY Sizes DEF ROOTINO
  <2>2. s \in [1 .. ninodes -> T]
    OBVIOUS
  <2> HIDE DEF T, s
  <2>3. s \in Seq(T)
    BY <2>1, <2>2, SeqDef
  <2> QED BY <2>1, <2>2, <2>3, LenProperties
<1> HIDE DEF s, sets
<1>8. Once(FlattenSeq(s), UNION {sets[i] : i \in 1 .. ninodes})
  BY <1>4, <1>5, <1>7, OnceFlat
<1> QED BY <1>6, <1>8 DEF s

-----------------------------------------------------------------------------
(* What alloc() hands out.                                                 *)
LEMMA Backwards ==
  ASSUME NEW a \in Nat, NEW e \in Nat, a <= e, NEW s \in Seq(Nat), Len(s) = e - a,
         \A i \in 1 .. Len(s) : s[i] = e - i
  PROVE  Once(Reverse(s), a .. e - 1)
<1> DEFINE m == Len(s)
           r == Reverse(s)
<1>1. m \in Nat /\ \A i \in 1 .. m : s[i] \in Nat
  BY LenProperties, ElementOfSeq
<1>2. r = [i \in 1 .. m |-> s[(m - i) + 1]]
  BY DEF Reverse
<1>3. \A i \in 1 .. m : r[i] = a + i - 1
  <2>1. ASSUME NEW i \in 1 .. m PROVE r[i] = a + i - 1
    <3>1. (m - i) + 1 \in 1 .. m
      BY <1>1
    <3>2. s[(m - i) + 1] = e - ((m - i) + 1)
      BY <3>1
    <3>3. r[i] = s[(m - i) + 1]
      BY <1>2
    <3> HIDE DEF r
    <3> QED BY <1>1, <3>1, <3>2, <3>3
  <2> QED BY <2>1
<1>4. r \in [1 .. m -> Nat]
  <2>1. \A i \in 1 .. m : (m - i) + 1 \in 1 .. m
    BY <1>1
  <2> QED BY <1>1, <1>2, <2>1
<1> HIDE DEF m, r
<1>5. r \in Seq(Nat)
  BY <1>1, <1>4, SeqDef
<1>6. Len(r) = m
  BY <1>1, <1>4, <1>5, LenProperties
<1>7. Len(r) = IF a <= e THEN e - a ELSE 0
  BY <1>6 DEF m
<1>8. Once(r, a .. e - 1)
  BY <1>3, <1>5, <1>6, <1>7, OnceRange
<1> QED BY <1>8 DEF r

Listed(b) == [i \in 1 .. image[b][1].num |-> image[b][i + 1].num]

Handed(order, b) == IF b \in DOMAIN image THEN order[b] ELSE <<>>

Within(from, k) ==
  [b \in DOMAIN image |->
     IF k = 0 \/ image[b][1].num \notin 1 .. NICFREE THEN <<b>>
     ELSE <<b>> \o Reverse(Tail(Listed(b))) \o Handed(from[k - 1], Listed(b)[1])]

LEMMA AllocFrom ==
  \E from :
    /\ from = [k \in 0 .. NBlocks |-> Within(from, k)]
    /\ AllocOrder = Reverse(SubSeq(super.free, 2, super.nfree)) \o Handed(from[NBlocks], super.free[1])
<1> DEFINE n == NBlocks
           P == {m \in 0 .. n : \E f : f = [k \in 0 .. m |-> Within(f, k)]}
<1>0. n \in Nat
  BY Sizes
<1>1. 0 \in P
  <2> DEFINE f == [k \in 0 .. 0 |-> Within(<<>>, 0)]
  <2>1. \A k \in 0 .. 0 : k = 0 /\ Within(f, k) = Within(<<>>, 0)
    BY DEF Within
  <2>2. f = [k \in 0 .. 0 |-> Within(f, k)]
    <3> DEFINE g == f
    <3>1. \A k \in 0 .. 0 : Within(<<>>, 0) = Within(g, k)
      BY <2>1
    <3> HIDE DEF g
    <3>2. f = [k \in 0 .. 0 |-> Within(g, k)]
      BY <3>1
    <3> QED BY <3>2 DEF g
  <2> HIDE DEF f
  <2>3. \E h : h = [k \in 0 .. 0 |-> Within(h, k)]
    BY <2>2, Zenon
  <2> QED BY <1>0, <2>3
<1>2. ASSUME NEW m \in 0 .. n - 1, m \in P
      PROVE  m + 1 \in P
  <2>1. PICK f : f = [k \in 0 .. m |-> Within(f, k)]
    BY <1>2
  <2> DEFINE g == [k \in 0 .. m + 1 |-> IF k = m + 1 THEN Within(f, m + 1) ELSE f[k]]
  <2>2. ASSUME NEW k \in 0 .. m + 1 PROVE g[k] = Within(g, k)
    <3>1. CASE k = m + 1
      <4>1. g[k - 1] = f[k - 1] /\ g[k] = Within(f, k)
        BY <3>1
      <4> HIDE DEF g
      <4>2. Within(g, k) = Within(f, k)
        BY <4>1, Zenon DEF Within
      <4> QED BY <4>1, <4>2
    <3>2. CASE k # m + 1
      <4>1. k \in 0 .. m /\ g[k] = f[k]
        BY <3>2
      <4>2. f[k] = Within(f, k)
        BY <2>1, <4>1, Zenon
      <4>3. CASE k = 0
        <5> HIDE DEF g
        <5>1. Within(g, k) = Within(f, k)
          BY <4>3 DEF Within
        <5> QED BY <4>1, <4>2, <5>1
      <4>4. CASE k # 0
        <5>1. g[k - 1] = f[k - 1]
          BY <4>1, <4>4
        <5> HIDE DEF g
        <5>2. Within(g, k) = Within(f, k)
          BY <5>1, Zenon DEF Within
        <5> QED BY <4>1, <4>2, <5>2
      <4> QED BY <4>3, <4>4
    <3> QED BY <3>1, <3>2
  <2>3. g = [k \in 0 .. m + 1 |-> Within(g, k)]
    <3> DEFINE h == g
    <3>1. \A k \in 0 .. m + 1 : g[k] = Within(h, k)
      BY <2>2
    <3>2. g = [k \in 0 .. m + 1 |-> g[k]]
      OBVIOUS
    <3> HIDE DEF h, g
    <3>3. g = [k \in 0 .. m + 1 |-> Within(h, k)]
      BY <3>1, <3>2
    <3> QED BY <3>3 DEF h
  <2> HIDE DEF g
  <2>4. \E h : h = [k \in 0 .. m + 1 |-> Within(h, k)]
    BY <2>3, Zenon
  <2> QED BY <1>0, <2>4
<1>3. n \in P
  <2> HIDE DEF P
  <2>1. 0 .. n \subseteq P
    BY <1>0, <1>1, <1>2, UpTo
  <2> QED BY <1>0, <2>1
<1> DEFINE from == CHOOSE f : f = [k \in 0 .. n |-> Within(f, k)]
<1>4. \E f : f = [k \in 0 .. n |-> Within(f, k)]
  BY <1>3
<1>5. from = [k \in 0 .. n |-> Within(from, k)]
  BY <1>4, Zenon
<1>6. AllocOrder = Reverse(SubSeq(super.free, 2, super.nfree)) \o Handed(from[NBlocks], super.free[1])
  BY Zenon DEF AllocOrder, Handed, Within, Listed
<1> HIDE DEF from
<1> QED BY <1>5, <1>6, Zenon

Handing(from) == from = [k \in 0 .. NBlocks |-> Within(from, k)]

(* One piece of the list, and all that follows.                            *)
LEMMA PieceHanded ==
  ASSUME NEW from, Handing(from), NEW k \in 0 .. NBlocks - 1,
         NEW h \in first_data .. NBlocks - 1, h \in DOMAIN image, Piece(image, h),
         Once(Handed(from[k], Number(h + NICFREE)), h + NICFREE .. NBlocks - 1)
  PROVE  Once(from[k + 1][h], h .. NBlocks - 1)
<1> DEFINE c == NICFREE
           s == Listed(h)
           t == Tail(s)
           j == k + 1
           tail == Handed(from[k], Number(h + c))
<1>1. /\ c \in Nat /\ c > 0 /\ NBlocks \in Nat /\ h \in Nat /\ h + c <= NBlocks
      /\ image[h][1].num = c
      /\ \A i \in 1 .. c : image[h][i + 1].num = Number(h + 1 + c - i)
  BY Sizes DEF Piece
<1>2. s = [i \in 1 .. c |-> Number(h + 1 + c - i)]
  BY <1>1 DEF Listed
<1>3. \A i \in 1 .. c : Number(h + 1 + c - i) \in Nat
  <2> HIDE DEF c
  <2> QED BY <1>1 DEF Number
<1>4. s \in Seq(Nat) /\ Len(s) = c /\ s # <<>>
  <2>1. s \in [1 .. c -> Nat]
    BY <1>2, <1>3
  <2> HIDE DEF s, c
  <2>2. s \in Seq(Nat)
    BY <1>1, <2>1, SeqDef
  <2>3. Len(s) = c
    BY <1>1, <2>1, <2>2, LenProperties
  <2> QED BY <1>1, <2>2, <2>3
<1>5. s[1] = Number(h + c) /\ \A i \in 2 .. c : s[i] = h + 1 + c - i
  <2>1. s[1] = Number(h + 1 + c - 1) /\ h + 1 + c - 1 = h + c
    <3> HIDE DEF c
    <3>1. 1 \in 1 .. c /\ h + 1 + c - 1 = h + c
      BY <1>1
    <3> QED BY <1>2, <3>1
  <2>2. ASSUME NEW i \in 2 .. c PROVE s[i] = h + 1 + c - i
    <3>1. s[i] = Number(h + 1 + c - i)
      BY <1>1, <1>2
    <3> HIDE DEF s, c
    <3> QED BY <1>1, <3>1 DEF Number
  <2> QED BY <2>1, <2>2
<1> HIDE DEF s
<1>6. t \in Seq(Nat) /\ Len(t) = c - 1 /\ \A i \in 1 .. c - 1 : t[i] = s[i + 1]
  BY <1>4, HeadTailProperties
<1>7. Once(Reverse(t), h + 1 .. h + c - 1)
  <2> DEFINE a == h + 1
             e == h + c
  <2> HIDE DEF t, c
  <2>1. a \in Nat /\ e \in Nat /\ a <= e /\ Len(t) = e - a
    BY <1>1, <1>6
  <2>2. \A i \in 1 .. Len(t) : t[i] = e - i
    BY <1>1, <1>5, <1>6
  <2>3. e - 1 = h + c - 1
    BY <1>1
  <2> HIDE DEF a, e
  <2>4. Once(Reverse(t), a .. e - 1)
    BY <1>6, <2>1, <2>2, Backwards
  <2> QED BY <2>3, <2>4 DEF a
<1>8. Once(<<h>>, {h})
  BY <1>1, OnceOne
<1>9. from[j][h] = <<h>> \o Reverse(t) \o tail
  <2>1. j \in 0 .. NBlocks /\ j # 0 /\ j - 1 = k
    BY <1>1
  <2>2. image[h][1].num \in 1 .. NICFREE
    BY <1>1
  <2> HIDE DEF j
  <2>3. from[j] = Within(from, j)
    BY <2>1, Zenon DEF Handing
  <2>4. Within(from, j)[h] = <<h>> \o Reverse(Tail(Listed(h))) \o Handed(from[j - 1], Listed(h)[1])
    BY <2>1, <2>2, Zenon DEF Within
  <2> QED BY <1>5, <2>1, <2>3, <2>4, Zenon DEF s
<1> DEFINE S == {h}
           T == h + 1 .. h + c - 1
           U == h + c .. NBlocks - 1
<1>10. /\ \A x \in S : x \notin T
       /\ \A x \in S \cup T : x \notin U
       /\ S \cup T \cup U = h .. NBlocks - 1
  <2> HIDE DEF c
  <2>1. \A x \in S : x \notin T
    BY <1>1
  <2>2. \A x \in S \cup T : x \notin U
    BY <1>1
  <2>3. S \cup T \cup U = h .. NBlocks - 1
    BY <1>1
  <2> QED BY <2>1, <2>2, <2>3
<1> DEFINE one == <<h>>
           two == Reverse(t)
<1>11. Once(one, S) /\ Once(two, T) /\ Once(tail, U)
  BY <1>7, <1>8
<1> HIDE DEF S, T, U, one, two, tail
<1>12. Once(one \o two, S \cup T)
  BY <1>10, <1>11, OnceJoin
<1>13. Once(one \o two \o tail, S \cup T \cup U)
  BY <1>10, <1>11, <1>12, OnceJoin
<1> QED BY <1>9, <1>10, <1>13, Zenon DEF one, two, j

(* From any piece on, the list holds all that is behind.                   *)
LEMMA AllHanded ==
  ASSUME NEW from, Handing(from), ImageInv(image),
         NEW H, H \subseteq first_data .. NBlocks - 1, Pieces(image, H),
         NEW k \in 0 .. NBlocks
  PROVE  \A h \in H : NBlocks <= h + k => Once(from[k][h], h .. NBlocks - 1)
<1> DEFINE P == {m \in 0 .. NBlocks :
                   \A h \in H : NBlocks <= h + m => Once(from[m][h], h .. NBlocks - 1)}
<1>1. /\ NBlocks \in Nat /\ NICFREE \in Nat /\ NICFREE > 0 /\ first_data \in Nat /\ first_data > 0
      /\ DOMAIN image = first_data .. NBlocks - 1
  BY Sizes DEF ImageInv
<1>2. 0 \in P
  BY <1>1
<1>3. ASSUME NEW m \in 0 .. NBlocks - 1, m \in P PROVE m + 1 \in P
  <2>0. m + 1 \in 0 .. NBlocks
    BY <1>1
  <2> SUFFICES ASSUME NEW h \in H, NBlocks <= h + (m + 1)
               PROVE  Once(from[m + 1][h], h .. NBlocks - 1)
    BY <2>0, Zenon
  <2> DEFINE next == h + NICFREE
  <2>1. Piece(image, h) /\ (next \in H \/ next = NBlocks) /\ h \in first_data .. NBlocks - 1
    BY DEF Pieces
  <2>2. Once(Handed(from[m], Number(next)), next .. NBlocks - 1)
    <3>1. CASE next \in H
      <4>1. next \in first_data .. NBlocks - 1 /\ next # NBlocks
        BY <1>1, <3>1
      <4>2. NBlocks <= next + m
        BY <1>1, <2>1
      <4>3. Once(from[m][next], next .. NBlocks - 1)
        BY <1>3, <3>1, <4>2
      <4>4. Handed(from[m], Number(next)) = from[m][next]
        BY <1>1, <4>1 DEF Handed, Number
      <4> QED BY <4>3, <4>4
    <3>2. CASE next = NBlocks
      <4>1. Number(next) = 0 /\ 0 \notin DOMAIN image
        BY <1>1, <3>2 DEF Number
      <4>2. Handed(from[m], Number(next)) = <<>>
        BY <4>1 DEF Handed
      <4>3. next .. NBlocks - 1 = {}
        BY <1>1, <3>2
      <4> QED BY <4>2, <4>3, OnceNone
    <3> QED BY <2>1, <3>1, <3>2
  <2> QED BY <1>1, <2>1, <2>2, PieceHanded
<1>4. k \in P
  <2> HIDE DEF P
  <2>1. 0 .. NBlocks \subseteq P
    BY <1>1, <1>2, <1>3, UpTo
  <2> QED BY <2>1
<1> QED BY <1>4

(* What alloc() hands out is what was not taken.                           *)
LEMMA AllocOnce ==
  ASSUME MkInv, StoreInv, stage = "done"
  PROVE  Once(AllocOrder, next_block .. NBlocks - 1) /\ super.tfree = NBlocks - next_block
<1> DEFINE x == next_block
           k == freelist.nfree
           free == freelist.free
           top == x + k - 1
           first == SubSeq(free, 2, k)
<1>1. ImageInv(image) /\ x \in first_data .. NBlocks
  BY DEF MkInv
<1>2. /\ Ahead(freelist, x) /\ Chained(image, x, top)
      /\ super.nfree = k /\ super.free = free /\ super.tfree = freelist.tfree
  BY DEF StoreInv, FreeListed
<1>3. /\ k \in 1 .. NICFREE /\ x + k <= NBlocks + 1 /\ freelist.tfree = NBlocks - x
      /\ free \in [1 .. NICFREE -> Nat]
      /\ \A i \in 1 .. k : free[i] = Number(x + k - i)
  BY <1>2 DEF Ahead
<1>4. PICK H : /\ H \subseteq x .. NBlocks - 1 /\ Pieces(image, H)
               /\ top \in H \/ top = NBlocks
  BY <1>2 DEF Chained
<1>5. /\ NBlocks \in Nat /\ NICFREE \in Nat /\ NICFREE > 0 /\ first_data \in Nat /\ first_data > 0
      /\ DOMAIN image = first_data .. NBlocks - 1
  BY <1>1, Sizes DEF ImageInv
<1>6. x \in Nat /\ k \in Nat /\ k >= 1 /\ k <= NICFREE /\ top \in Nat /\ x <= top
  <2> HIDE DEF x, k
  <2> QED BY <1>1, <1>3, <1>5
<1>7. free[1] = Number(top) /\ \A i \in 1 .. k - 1 : free[i + 1] = top - i
  <2>1. free[1] = Number(top)
    <3>1. free[1] = Number(x + k - 1)
      BY <1>3, <1>6
    <3> QED BY <3>1
  <2>2. ASSUME NEW i \in 1 .. k - 1 PROVE free[i + 1] = top - i
    <3> HIDE DEF x, k, free
    <3>0. i + 1 \in 1 .. k
      BY <1>6
    <3>1. free[i + 1] = Number(x + k - (i + 1))
      BY <1>3, <3>0
    <3>2. x + k - (i + 1) = top - i /\ x + k - (i + 1) # NBlocks
      BY <1>3, <1>5, <1>6
    <3> QED BY <3>1, <3>2 DEF Number
  <2> QED BY <2>1, <2>2
<1>8. first \in Seq(Nat) /\ Len(first) = top - x /\ \A i \in 1 .. Len(first) : first[i] = top - i
  <2> HIDE DEF x, k, free
  <2>1. free \in Seq(Nat)
    BY <1>3, <1>5, SeqDef
  <2>2. Len(free) = NICFREE
    BY <1>3, <1>5, <2>1, LenProperties
  <2>3. \A i \in 2 .. k : free[i] \in Nat
    <3>1. \A i \in 2 .. k : i \in 1 .. NICFREE
      BY <1>5, <1>6
    <3> QED BY <1>3, <3>1
  <2>4. /\ first \in Seq(Nat) /\ Len(first) = IF 2 <= k THEN k - 2 + 1 ELSE 0
        /\ \A i \in 1 .. k - 2 + 1 : first[i] = free[2 + i - 1]
    <3>1. 2 \in Int /\ k \in Int
      BY <1>6
    <3> HIDE DEF first
    <3> QED BY <2>3, <3>1, SubSeqProperties DEF first
  <2> HIDE DEF first
  <2>5. Len(first) = k - 1 /\ k - 1 = top - x
    BY <1>6, <2>4
  <2>6. ASSUME NEW i \in 1 .. k - 1 PROVE first[i] = top - i
    <3>1. 2 + i - 1 = i + 1 /\ i \in 1 .. k - 2 + 1
      BY <1>6
    <3>2. first[i] = free[i + 1]
      BY <2>4, <3>1
    <3> HIDE DEF top
    <3> QED BY <1>7, <3>2
  <2> QED BY <2>4, <2>5, <2>6
<1>9. Once(Reverse(first), x .. top - 1)
  <2> HIDE DEF first, top, x
  <2> QED BY <1>6, <1>8, Backwards
<1>10. PICK from : /\ Handing(from)
                   /\ AllocOrder = Reverse(first) \o Handed(from[NBlocks], free[1])
  BY <1>2, AllocFrom DEF Handing
<1>11. Once(Handed(from[NBlocks], Number(top)), top .. NBlocks - 1)
  <2>1. CASE top \in H
    <3>2. H \subseteq first_data .. NBlocks - 1
      <4>1. H \subseteq x .. NBlocks - 1
        BY <1>4
      <4> HIDE DEF x
      <4> QED BY <1>1, <1>5, <4>1
    <3>1. top \in first_data .. NBlocks - 1 /\ top # NBlocks
      <4>1. top \in first_data .. NBlocks - 1
        BY <2>1, <3>2
      <4> HIDE DEF top
      <4> QED BY <1>5, <4>1
    <3>3. NBlocks \in 0 .. NBlocks /\ NBlocks <= top + NBlocks
      BY <1>5, <1>6
    <3> HIDE DEF top
    <3>4. \A h \in H : NBlocks <= h + NBlocks => Once(from[NBlocks][h], h .. NBlocks - 1)
      <4>1. Pieces(image, H) /\ ImageInv(image) /\ Handing(from)
        BY <1>1, <1>4, <1>10
      <4> QED BY <4>1, <3>2, <3>3, AllHanded, Zenon
    <3>5. Handed(from[NBlocks], Number(top)) = from[NBlocks][top]
      BY <1>5, <3>1 DEF Handed, Number
    <3> QED BY <2>1, <3>3, <3>4, <3>5
  <2>2. CASE top = NBlocks
    <3> HIDE DEF top
    <3>1. Number(top) = 0 /\ 0 \notin DOMAIN image
      BY <1>5, <2>2 DEF Number
    <3>2. Handed(from[NBlocks], Number(top)) = <<>>
      BY <3>1 DEF Handed
    <3>3. top .. NBlocks - 1 = {}
      BY <1>5, <2>2
    <3> QED BY <3>2, <3>3, OnceNone
  <2> QED BY <1>4, <2>1, <2>2
<1> DEFINE S == x .. top - 1
           T == top .. NBlocks - 1
           rest == Handed(from[NBlocks], Number(top))
<1>12. (\A y \in S : y \notin T) /\ S \cup T = x .. NBlocks - 1
  <2>1. top <= NBlocks
    BY <1>3, <1>5, <1>6
  <2> HIDE DEF top, x
  <2> QED BY <1>5, <1>6, <2>1
<1>13. Once(Reverse(first) \o rest, S \cup T)
  <2> HIDE DEF S, T, rest, first
  <2>1. Once(Reverse(first), S) /\ Once(rest, T)
    BY <1>9, <1>11 DEF S, T, rest
  <2> QED BY <1>12, <2>1, OnceJoin
<1>14. Once(AllocOrder, x .. NBlocks - 1)
  BY <1>7, <1>10, <1>12, <1>13, Zenon
<1> QED BY <1>2, <1>3, <1>14

(* Every block from the first data block on belongs to one file in one     *)
(* place, or alloc() hands it out, once: no block is lost, none is given   *)
(* away twice, and the superblock counts the free ones right, for images   *)
(* of any size, pieces of the free list of any length and files of any     *)
(* number of blocks.                                                       *)
THEOREM EveryBlockOnce == Spec => []BlocksAccounted
<1>1. MkInv /\ StoreInv => BlocksAccounted
  <2> SUFFICES ASSUME MkInv, StoreInv, stage = "done"
               PROVE  LET used == FlattenSeq([n \in 1 .. ninodes |-> BlocksOf(inode(ilist, n))])
                          all  == used \o AllocOrder
                      IN  /\ Len(all) = NBlocks - first_data
                          /\ ToSet(all) = first_data .. NBlocks - 1
                          /\ super.tfree = Len(AllocOrder)
    BY DEF BlocksAccounted
  <2> DEFINE used == FlattenSeq([n \in 1 .. ninodes |-> BlocksOf(inode(ilist, n))])
             order == AllocOrder
             all == used \o order
             x == next_block
             S == first_data .. x - 1
             T == x .. NBlocks - 1
             I == first_data .. NBlocks - 1
  <2>1. Once(used, S) /\ Once(order, T) /\ super.tfree = NBlocks - x
    BY UsedOnce, AllocOnce
  <2>2. x \in first_data .. NBlocks /\ NBlocks \in Nat /\ first_data \in Nat /\ first_data < NBlocks
    BY Sizes DEF MkInv
  <2> HIDE DEF used, order, x
  <2>3. (\A y \in S : y \notin T) /\ S \cup T = I
    BY <2>2
  <2> HIDE DEF S, T
  <2>4. Once(all, I)
    <3> HIDE DEF I
    <3>1. Once(used \o order, S \cup T)
      BY <2>1, <2>3, OnceJoin
    <3> QED BY <2>3, <3>1
  <2> HIDE DEF all
  <2>5. Cardinality(I) = Len(all) /\ ToSet(all) = I
    <3> HIDE DEF I
    <3> QED BY <2>4, OnceCount
  <2>6. Cardinality(T) = Len(order)
    BY <2>1, OnceCount
  <2>7. Cardinality(I) = NBlocks - first_data
    <3>1. first_data \in Int /\ NBlocks - 1 \in Int
      BY <2>2
    <3>2. Cardinality(I) = IF first_data > NBlocks - 1 THEN 0 ELSE (NBlocks - 1) - first_data + 1
      BY <3>1, FS_Interval
    <3> HIDE DEF I
    <3> QED BY <2>2, <3>2
  <2>8. Cardinality(T) = NBlocks - x
    <3>1. x \in Int /\ NBlocks - 1 \in Int
      BY <2>2
    <3>2. Cardinality(T) = IF x > NBlocks - 1 THEN 0 ELSE (NBlocks - 1) - x + 1
      BY <3>1, FS_Interval DEF T
    <3> QED BY <2>2, <3>2
  <2>9. super.tfree = Len(order)
    BY <2>1, <2>6, <2>8
  <2> QED BY <2>5, <2>7, <2>9 DEF all, used, order
<1> QED BY <1>1, MkInvariance, StoreInvariance, PTL

-----------------------------------------------------------------------------
(* What is in a list, and in several lists joined.                         *)
Has(s, x) == \E j \in 1 .. Len(s) : s[j] = x

LEMMA HasJoin ==
  ASSUME NEW S, NEW s \in Seq(S), NEW t \in Seq(S), NEW x
  PROVE  s \o t \in Seq(S) /\ (Has(s \o t, x) <=> Has(s, x) \/ Has(t, x))
<1> DEFINE r == s \o t
           m == Len(s)
           n == Len(t)
<1>1. /\ r \in Seq(S) /\ Len(r) = m + n /\ m \in Nat /\ n \in Nat
      /\ \A i \in 1 .. m + n : r[i] = IF i <= m THEN s[i] ELSE t[i - m]
  BY ConcatProperties, LenProperties
<1> HIDE DEF r, m, n
<1>2. ASSUME Has(r, x) PROVE Has(s, x) \/ Has(t, x)
  <2>1. PICK i \in 1 .. m + n : r[i] = x
    BY <1>1, <1>2 DEF Has
  <2>2. CASE i <= m
    <3>1. i \in 1 .. m /\ s[i] = x
      BY <1>1, <2>1, <2>2
    <3> QED BY <3>1 DEF Has, m
  <2>3. CASE ~(i <= m)
    <3>1. i - m \in 1 .. n /\ t[i - m] = x
      BY <1>1, <2>1, <2>3
    <3> QED BY <3>1 DEF Has, n
  <2> QED BY <2>2, <2>3
<1>3. ASSUME Has(s, x) PROVE Has(r, x)
  <2>1. PICK i \in 1 .. m : s[i] = x
    BY <1>3 DEF Has, m
  <2>2. i \in 1 .. m + n /\ r[i] = x
    BY <1>1, <2>1
  <2> QED BY <1>1, <2>2 DEF Has
<1>4. ASSUME Has(t, x) PROVE Has(r, x)
  <2>1. PICK i \in 1 .. n : t[i] = x
    BY <1>4 DEF Has, n
  <2>2. i + m \in 1 .. m + n /\ ~(i + m <= m) /\ (i + m) - m = i
    BY <1>1, <2>1
  <2>3. r[i + m] = x
    BY <1>1, <2>1, <2>2
  <2> QED BY <1>1, <2>2, <2>3 DEF Has
<1> QED BY <1>1, <1>2, <1>3, <1>4 DEF r

LEMMA HasOne ==
  ASSUME NEW S, NEW y \in S, NEW x
  PROVE  <<y>> \in Seq(S) /\ (Has(<<y>>, x) <=> x = y)
<1>1. <<y>> \in Seq(S) /\ Len(<<y>>) = 1 /\ <<y>>[1] = y
  OBVIOUS
<1>2. 1 .. 1 = {1}
  OBVIOUS
<1> QED BY <1>1, <1>2 DEF Has

LEMMA FlatHas ==
  ASSUME NEW S, NEW m \in Nat, NEW s \in [1 .. m -> Seq(S)]
  PROVE  /\ FlattenSeq(s) \in Seq(S)
         /\ \A x : Has(FlattenSeq(s), x) <=> \E i \in 1 .. m : Has(s[i], x)
<1>0. s \in Seq(Seq(S)) /\ Len(s) = m
  OBVIOUS
<1>1. CASE m = 0
  <2>1. FlattenSeq(s) = s
    BY <1>0, <1>1 DEF FlattenSeq
  <2>2. 1 .. m = {}
    BY <1>1
  <2>3. s \in Seq(S)
    BY <1>1, <2>2
  <2> QED BY <1>0, <2>1, <2>2, <2>3 DEF Has
<1>2. CASE m # 0
  <2>0. m > 0
    BY <1>2
  <2>1. PICK f : JoinsUp(f, s, m) /\ FlattenSeq(s) = f[m]
    BY <1>0, <2>0, Flattened, Zenon
  <2>2. f[1] = s[1] /\ \A k \in 1 .. m - 1 : f[k + 1] = f[k] \o s[k + 1]
    <3>1. f[1] = s[1]
      BY <1>2, <2>1 DEF JoinsUp
    <3>2. ASSUME NEW k \in 1 .. m - 1 PROVE f[k + 1] = f[k] \o s[k + 1]
      <4>1. k + 1 \in 1 .. m /\ k + 1 # 1 /\ (k + 1) - 1 = k
        OBVIOUS
      <4>2. f[k + 1] = IF k + 1 = 1 THEN s[k + 1] ELSE f[(k + 1) - 1] \o s[k + 1]
        BY <2>1, <4>1, Zenon DEF JoinsUp
      <4> QED BY <4>1, <4>2, Zenon
    <3> QED BY <3>1, <3>2
  <2> DEFINE Good(k) == /\ f[k] \in Seq(S)
                        /\ \A x : Has(f[k], x) <=> \E i \in 1 .. k : Has(s[i], x)
             P == {k \in 0 .. m : k = 0 \/ Good(k)}
  <2>3. 0 \in P
    OBVIOUS
  <2>4. ASSUME NEW k \in 0 .. m - 1, k \in P PROVE k + 1 \in P
    <3>0. k + 1 \in 1 .. m /\ k + 1 \in 0 .. m /\ s[k + 1] \in Seq(S)
      OBVIOUS
    <3>1. CASE k = 0
      <4>1. 1 .. 1 = {1} /\ f[1] \in Seq(S)
        BY <2>2, <3>0, <3>1
      <4>2. Good(1)
        BY <2>2, <4>1
      <4> HIDE DEF Good
      <4> QED BY <3>1, <4>2
    <3>2. CASE k # 0
      <4>0. k \in 1 .. m - 1
        BY <3>2
      <4>1. Good(k) /\ f[k + 1] = f[k] \o s[k + 1]
        <5> HIDE DEF Good
        <5> QED BY <2>2, <2>4, <3>2, <4>0
      <4>2. \A i : i \in 1 .. k + 1 <=> i \in 1 .. k \/ i = k + 1
        BY <4>0
      <4>3. f[k + 1] \in Seq(S)
        BY <3>0, <4>1, HasJoin
      <4>4. \A x : Has(f[k + 1], x) <=> Has(f[k], x) \/ Has(s[k + 1], x)
        BY <3>0, <4>1, HasJoin
      <4>5. \A x : Has(f[k + 1], x) <=> \E i \in 1 .. k + 1 : Has(s[i], x)
        BY <4>1, <4>2, <4>4
      <4>6. Good(k + 1)
        BY <4>3, <4>5
      <4> HIDE DEF Good
      <4> QED BY <3>0, <4>6
    <3> QED BY <3>1, <3>2
  <2>5. m \in P
    <3> HIDE DEF P
    <3>1. 0 .. m \subseteq P
      BY <2>3, <2>4, UpTo
    <3> QED BY <3>1
  <2> QED BY <1>2, <2>1, <2>5
<1> QED BY <1>1, <1>2

(* A path is the directory it leads to and a name there.                   *)
LEMMA FrontAndLast ==
  ASSUME NEW S, NEW p \in Seq(S), p # <<>>
  PROVE  /\ Front(p) \in Seq(S) /\ Last(p) \in S /\ Len(Front(p)) = Len(p) - 1
         /\ \A i \in 1 .. Len(p) - 1 : Front(p)[i] = p[i]
         /\ p = Append(Front(p), Last(p))
<1> DEFINE n == Len(p)
           q == Append(Front(p), Last(p))
<1>1. n \in Nat /\ n > 0 /\ \A i \in 1 .. n : p[i] \in S
  BY EmptySeq, LenProperties, ElementOfSeq
<1>2. /\ Front(p) \in Seq(S) /\ Len(Front(p)) = n - 1
      /\ \A i \in 1 .. n - 1 : Front(p)[i] = p[i]
  <2>1. \A i \in 1 .. n - 1 : p[i] \in S
    BY <1>1
  <2>2. Front(p) = SubSeq(p, 1, n - 1)
    BY DEF Front
  <2> HIDE DEF n
  <2>3. SubSeq(p, 1, n - 1) \in Seq(S) /\ Len(SubSeq(p, 1, n - 1)) = n - 1
    BY <1>1, <2>1, SubSeqProperties
  <2>4. \A i \in 1 .. n - 1 : SubSeq(p, 1, n - 1)[i] = p[i]
    BY <1>1, <2>1, SubSeqProperties
  <2> QED BY <2>2, <2>3, <2>4
<1>3. Last(p) \in S /\ Last(p) = p[n]
  BY <1>1 DEF Last
<1>4. /\ q \in Seq(S) /\ Len(q) = n - 1 + 1 /\ \A i \in 1 .. n - 1 : q[i] = Front(p)[i]
      /\ q[n - 1 + 1] = Last(p)
  BY <1>2, <1>3, AppendProperties
<1> HIDE DEF n, q
<1>5. Len(q) = n /\ \A i \in 1 .. n : q[i] = p[i]
  BY <1>1, <1>2, <1>3, <1>4
<1>6. q = p
  BY <1>4, <1>5, SeqEqual DEF n
<1> QED BY <1>2, <1>3, <1>6 DEF n, q

LEMMA AppendParts ==
  ASSUME NEW S, NEW s \in Seq(S), NEW e \in S
  PROVE  /\ Append(s, e) \in Seq(S) /\ Append(s, e) # <<>>
         /\ Front(Append(s, e)) = s /\ Last(Append(s, e)) = e
<1> DEFINE p == Append(s, e)
<1>1. p \in Seq(S) /\ p # <<>>
  BY AppendProperties
<1>2. Front(p) \in Seq(S) /\ Last(p) \in S /\ p = Append(Front(p), Last(p))
  BY <1>1, FrontAndLast
<1>3. Append(s, e) = Append(Front(p), Last(p))
  BY <1>2
<1> HIDE DEF p
<1>4. s = Front(p) /\ e = Last(p)
  BY <1>2, <1>3, AppendInjective
<1> QED BY <1>1, <1>4 DEF p

-----------------------------------------------------------------------------
(* What lies below each directory is defined, level by level.              *)
Below(img, list, f, m) ==
  [n \in Nat |->
     LET ents == readdir(img, inode(list, n))
     IN  IF m = 0 THEN <<>>
         ELSE FlattenSeq([k \in 1 .. Len(ents) |-> FoundAt(list, ents[k], f[m - 1])])]

Walking(img, list, of) == of = [m \in 0 .. WalkDepth + 1 |-> Below(img, list, of, m)]

LEMMA BelowAbove ==
  ASSUME NEW img, NEW list, NEW f, NEW g, NEW m \in Nat, m # 0 => f[m - 1] = g[m - 1]
  PROVE  Below(img, list, f, m) = Below(img, list, g, m)
<1>1. CASE m = 0
  BY <1>1, Zenon DEF Below
<1>2. CASE m # 0
  <2>1. f[m - 1] = g[m - 1]
    BY <1>2
  <2> QED BY <2>1, Zenon DEF Below
<1> QED BY <1>1, <1>2

LEMMA WalkOf ==
  ASSUME NEW img, NEW list, WalkDepth \in Nat
  PROVE  \E of : Walking(img, list, of) /\ walk(img, list) = of[WalkDepth + 1][ROOTINO]
<1> DEFINE n == WalkDepth + 1
           Step(f, m) == Below(img, list, f, m)
           P == {m \in 0 .. n : \E f : f = [k \in 0 .. m |-> Step(f, k)]}
<1>0. n \in Nat
  OBVIOUS
<1> HIDE DEF n
<1>1. 0 \in P
  <2> DEFINE f == [k \in 0 .. 0 |-> Step(<<>>, 0)]
  <2>1. \A k \in 0 .. 0 : k = 0 /\ Step(f, k) = Step(<<>>, 0)
    <3> HIDE DEF f
    <3> QED BY BelowAbove
  <2>2. f = [k \in 0 .. 0 |-> Step(f, k)]
    <3> DEFINE g == f
    <3>1. \A k \in 0 .. 0 : Step(<<>>, 0) = Step(g, k)
      BY <2>1
    <3> HIDE DEF g, Step
    <3>2. f = [k \in 0 .. 0 |-> Step(g, k)]
      BY <3>1
    <3> QED BY <3>2 DEF g
  <2> HIDE DEF f
  <2>3. \E h : h = [k \in 0 .. 0 |-> Step(h, k)]
    BY <2>2, Zenon
  <2> QED BY <1>0, <2>3
<1>2. ASSUME NEW m \in 0 .. n - 1, m \in P
      PROVE  m + 1 \in P
  <2>1. PICK f : f = [k \in 0 .. m |-> Step(f, k)]
    BY <1>2
  <2> DEFINE g == [k \in 0 .. m + 1 |-> IF k = m + 1 THEN Step(f, m + 1) ELSE f[k]]
  <2>2. ASSUME NEW k \in 0 .. m + 1 PROVE g[k] = Step(g, k)
    <3>1. k # 0 => g[k - 1] = f[k - 1]
      OBVIOUS
    <3>2. g[k] = Step(f, k)
      <4>1. CASE k = m + 1
        BY <4>1
      <4>2. CASE k # m + 1
        <5>1. k \in 0 .. m /\ g[k] = f[k]
          BY <4>2
        <5> HIDE DEF g, Step
        <5> QED BY <2>1, <5>1, Zenon
      <4> QED BY <4>1, <4>2
    <3> HIDE DEF g
    <3>3. Step(g, k) = Step(f, k)
      BY <3>1, BelowAbove
    <3> QED BY <3>2, <3>3
  <2>3. g = [k \in 0 .. m + 1 |-> Step(g, k)]
    <3> DEFINE h == g
    <3>1. \A k \in 0 .. m + 1 : g[k] = Step(h, k)
      BY <2>2
    <3>2. g = [k \in 0 .. m + 1 |-> g[k]]
      OBVIOUS
    <3> HIDE DEF h, g, Step
    <3>3. g = [k \in 0 .. m + 1 |-> Step(h, k)]
      BY <3>1, <3>2
    <3> QED BY <3>3 DEF h
  <2> HIDE DEF g
  <2>4. \E h : h = [k \in 0 .. m + 1 |-> Step(h, k)]
    BY <2>3, Zenon
  <2> QED BY <1>0, <2>4
<1>3. n \in P
  <2> HIDE DEF P
  <2>1. 0 .. n \subseteq P
    BY <1>0, <1>1, <1>2, UpTo
  <2> QED BY <1>0, <2>1
<1> DEFINE of == CHOOSE f : f = [k \in 0 .. n |-> Step(f, k)]
<1>4. \E f : f = [k \in 0 .. n |-> Step(f, k)]
  BY <1>3
<1>5. of = [k \in 0 .. n |-> Step(of, k)]
  <2> HIDE DEF Step
  <2> QED BY <1>4, Zenon
<1>6. walk(img, list) = of[WalkDepth + 1][ROOTINO]
  BY Zenon DEF walk, Below, n
<1> HIDE DEF of
<1>7. Walking(img, list, of)
  BY <1>5 DEF Walking, n
<1> QED BY <1>6, <1>7, Zenon

-----------------------------------------------------------------------------
(* A special file is what the spec said of it.                             *)
Nodes(t) ==
  \A n \in Nums(t) : t.inodes[n].kind = "node" =>
    \E dev \in Devices : t.inodes[n].addr = Device(dev).addr

Finished ==
  /\ stage = "done" /\ Plain /\ MkInv /\ StoreInv /\ RoundTrip
  /\ Placed(tree) /\ Nodes(tree)

LEMMA TreeFacts ==
  ASSUME Finished
  PROVE  /\ TreeInv(tree) /\ DirsInv(tree) /\ Placed(tree)
         /\ Nums(tree) \subseteq Nat /\ DOMAIN tree.entries = DOMAIN tree.dirs
         /\ \A dir \in DOMAIN tree.dirs :
              /\ tree.dirs[dir] \in Nums(tree) /\ dir \in Seq(Names)
              /\ tree.entries[dir] \in Seq(EntryType(tree))
              /\ readdir(image, inode(ilist, tree.dirs[dir])) = tree.entries[dir]
<1>1. TreeInv(tree) /\ DirsInv(tree) /\ Placed(tree)
  BY DEF Finished, MkInv, Sound, StoreInv
<1>2. Nums(tree) \subseteq Nat
  BY <1>1 DEF Nums, ROOTINO, TreeInv
<1>3. \A dir \in DOMAIN tree.dirs :
        readdir(image, inode(ilist, tree.dirs[dir])) = tree.entries[dir]
  BY DEF Finished, RoundTrip
<1>4. \A dir \in DOMAIN tree.dirs : dir \in Seq(Names)
  BY <1>1 DEF Placed
<1> QED BY <1>1, <1>2, <1>3, <1>4 DEF TreeInv

(* What an entry says.                                                     *)
LEMMA EntrySays ==
  ASSUME Finished, NEW dir \in DOMAIN tree.dirs, NEW i \in DOMAIN tree.entries[dir]
  PROVE  LET e == tree.entries[dir][i] IN
         /\ e.num \in Nums(tree) /\ (e.name \in Names \/ e.name \in {".", ".."})
         /\ e = Entry(e.num, e.name)
<1>1. tree.entries[dir] \in Seq(EntryType(tree)) /\ i \in 1 .. Len(tree.entries[dir])
  BY TreeFacts, LenProperties
<1>2. tree.entries[dir][i] \in EntryType(tree)
  BY <1>1, ElementOfSeq
<1> QED BY <1>2 DEF EntryType, Entry

(* No name is twice in a directory.                                        *)
LEMMA OneOfAName ==
  ASSUME Finished, NEW dir \in DOMAIN tree.dirs,
         NEW i \in DOMAIN tree.entries[dir], NEW j \in DOMAIN tree.entries[dir],
         tree.entries[dir][i].name = tree.entries[dir][j].name
  PROVE  i = j
<1> DEFINE list == tree.entries[dir]
           m == Len(list)
           f == [k \in 1 .. m |-> list[k].name]
<1>1. m \in Nat /\ DOMAIN list = 1 .. m
  BY TreeFacts, LenProperties
<1>2. Cardinality(NamesIn(tree, dir)) = m
  BY DEF Finished, Plain
<1>3. NamesIn(tree, dir) = {list[k].name : k \in 1 .. m}
  BY <1>1 DEF NamesIn
<1> HIDE DEF list, m
<1>4. f \in Surjection(1 .. m, NamesIn(tree, dir))
  BY <1>3 DEF Surjection
<1>5. IsFiniteSet(1 .. m) /\ Cardinality(1 .. m) = m
  <2> DEFINE one == 1
  <2>1. one \in Int /\ m \in Int /\ (one > m => m = 0)
    BY <1>1
  <2> HIDE DEF one
  <2>2. IsFiniteSet(one .. m) /\ Cardinality(one .. m) = IF one > m THEN 0 ELSE m - one + 1
    BY <2>1, FS_Interval
  <2> QED BY <1>1, <2>1, <2>2 DEF one
<1>6. f \in Injection(1 .. m, NamesIn(tree, dir))
  BY <1>2, <1>4, <1>5, FS_Surjection
<1>7. f[i] = f[j] /\ i \in 1 .. m /\ j \in 1 .. m
  BY <1>1 DEF list
<1> HIDE DEF f
<1> QED BY <1>6, <1>7 DEF Injection, IsInjective

LEMMA NamedOnce ==
  ASSUME Finished, NEW p, NEW n, NEW m, Named(tree, p, n), Named(tree, p, m)
  PROVE  n = m
<1> DEFINE list == tree.entries[Front(p)]
<1>1. PICK i \in DOMAIN list : list[i] = Entry(n, Last(p))
  BY DEF Named
<1>2. PICK j \in DOMAIN list : list[j] = Entry(m, Last(p))
  BY DEF Named
<1>3. list[i].name = list[j].name /\ list[i].num = n /\ list[j].num = m
  BY <1>1, <1>2 DEF Entry
<1>4. i = j
  BY <1>1, <1>2, <1>3, OneOfAName DEF Named
<1> QED BY <1>3, <1>4

(* A directory has no other name, and nothing else has its name.           *)
LEMMA NamedDir ==
  ASSUME Finished, NEW p \in Seq(Names), NEW n, Named(tree, p, n)
  PROVE  tree.inodes[n].kind = "dir" <=> p \in DOMAIN tree.dirs /\ tree.dirs[p] = n
<1>1. ASSUME tree.inodes[n].kind = "dir"
      PROVE  p \in DOMAIN tree.dirs /\ tree.dirs[p] = n
  <2> DEFINE dir == Front(p)
  <2>1. PICK i \in DOMAIN tree.entries[dir] : tree.entries[dir][i] = Entry(n, Last(p))
    BY DEF Named
  <2> DEFINE e == tree.entries[dir][i]
  <2>2. dir \in DOMAIN tree.dirs /\ e \in ToSet(tree.entries[dir])
    BY DEF Named, ToSet
  <2>3. e.num = n /\ e.name = Last(p)
    BY <2>1 DEF Entry
  <2>4. Last(p) \in Names /\ p = Append(dir, Last(p))
    BY FrontAndLast DEF Named
  <2> HIDE DEF e, dir
  <2>5. e.name \in Names /\ tree.inodes[e.num].kind = "dir"
    BY <1>1, <2>3, <2>4
  <2>6. Append(dir, e.name) \in DOMAIN tree.dirs /\ tree.dirs[Append(dir, e.name)] = e.num
    BY <2>2, <2>5 DEF Finished, Plain
  <2> QED BY <2>3, <2>4, <2>6
<1>2. ASSUME p \in DOMAIN tree.dirs, tree.dirs[p] = n
      PROVE  tree.inodes[n].kind = "dir"
  BY <1>2, TreeFacts DEF DirsInv
<1> QED BY <1>1, <1>2

LEMMA NotADir ==
  ASSUME Finished, NEW p \in Seq(Names), NEW n, Named(tree, p, n), tree.inodes[n].kind # "dir"
  PROVE  p \notin DOMAIN tree.dirs
<1> SUFFICES ASSUME p \in DOMAIN tree.dirs PROVE FALSE
  OBVIOUS
<1>1. Named(tree, p, tree.dirs[p])
  BY TreeFacts DEF Placed, Named
<1>2. tree.dirs[p] = n
  BY <1>1, NamedOnce
<1> QED BY <1>2, NamedDir

(* Whatever leads to a directory is one.                                   *)
LEMMA PrefixIsDir ==
  ASSUME Finished, NEW p \in DOMAIN tree.dirs, NEW k \in 0 .. Len(p)
  PROVE  SubSeq(p, 1, k) \in DOMAIN tree.dirs
<1> DEFINE n == Len(p)
           P == {j \in 0 .. n : SubSeq(p, 1, n - j) \in DOMAIN tree.dirs}
<1>1. p \in Seq(Names) /\ n \in Nat /\ \A i \in 1 .. n : p[i] \in Names
  BY TreeFacts, LenProperties, ElementOfSeq
<1>2. 0 \in P
  <2>1. SubSeq(p, 1, n) = p
    BY <1>1, SubSeqFull
  <2> HIDE DEF n
  <2>2. n - 0 = n /\ 0 \in 0 .. n
    BY <1>1
  <2> QED BY <2>1, <2>2
<1>3. ASSUME NEW j \in 0 .. n - 1, j \in P PROVE j + 1 \in P
  <2> DEFINE m == n - j
             q == SubSeq(p, 1, m)
  <2>1. m \in 1 .. n /\ q \in DOMAIN tree.dirs
    BY <1>1, <1>3
  <2>2. q \in Seq(Names) /\ Len(q) = m
    BY <1>1, <2>1, SubSeqProperties
  <2>3. q # <<>>
    <3> HIDE DEF q, m
    <3>1. Len(q) # 0
      BY <1>1, <2>1, <2>2
    <3> QED BY <3>1, EmptySeq
  <2>4. Front(q) \in DOMAIN tree.dirs
    BY <2>1, <2>3, TreeFacts DEF Placed, Named
  <2>5. Front(q) = SubSeq(p, 1, m - 1)
    <3>1. Front(q) \in Seq(Names) /\ Len(Front(q)) = m - 1 /\ \A i \in 1 .. m - 1 : Front(q)[i] = q[i]
      BY <2>2, <2>3, FrontAndLast
    <3>2. /\ SubSeq(p, 1, m - 1) \in Seq(Names) /\ Len(SubSeq(p, 1, m - 1)) = m - 1
          /\ \A i \in 1 .. m - 1 : SubSeq(p, 1, m - 1)[i] = p[i]
      BY <1>1, <2>1, SubSeqProperties
    <3>3. \A i \in 1 .. m - 1 : q[i] = p[i]
      BY <1>1, <2>1, SubSeqProperties
    <3> HIDE DEF q
    <3> QED BY <3>1, <3>2, <3>3, SeqEqual
  <2>6. m - 1 = n - (j + 1) /\ j + 1 \in 0 .. n
    BY <1>1
  <2> HIDE DEF m, n, q
  <2> QED BY <2>4, <2>5, <2>6
<1>4. n - k \in P
  <2> HIDE DEF P
  <2>1. 0 .. n \subseteq P
    <3> HIDE DEF n
    <3> QED BY <1>1, <1>2, <1>3, UpTo
  <2>2. n - k \in 0 .. n
    BY <1>1
  <2> QED BY <2>1, <2>2
<1>5. n - (n - k) = k
  BY <1>1
<1> HIDE DEF n
<1> QED BY <1>4, <1>5

(* The kind of an inode is on the i-list.                                  *)
LEMMA KindRead ==
  ASSUME Finished, NEW n \in Nums(tree)
  PROVE  inode(ilist, n).kind = tree.inodes[n].kind
<1>1. ilist = OnIlist(tree) /\ TreeInv(tree) /\ tree.next_ino <= ninodes
  BY DEF Finished, MkInv, Sound
<1>2. n \in 1 .. ninodes /\ n \in DOMAIN tree.inodes
  BY <1>1, Sizes DEF TreeInv, Nums, ROOTINO
<1>3. ilist[n] = pack_inode(tree.inodes[n])
  BY <1>1, <1>2 DEF OnIlist
<1> QED BY <1>3 DEF inode, pack_inode

-----------------------------------------------------------------------------
(* What walk() reports.                                                    *)
Thing == [path : Seq(Names), num : Nums(tree)]

Reports(s, e, below) ==
  /\ s \in Seq(Thing)
  /\ \A x : Has(s, x) <=>
       \/ x = [path |-> <<e.name>>, num |-> e.num]
       \/ /\ tree.inodes[e.num].kind = "dir"
          /\ \E y : /\ Has(below[e.num], y)
                    /\ x = [path |-> <<e.name>> \o y.path, num |-> y.num]

LEMMA FoundIs ==
  ASSUME Finished, NEW e, e.name \in Names, e.num \in Nums(tree), NEW below,
         tree.inodes[e.num].kind = "dir" => below[e.num] \in Seq(Thing)
  PROVE  Reports(FoundAt(ilist, e, below), e, below)
<1> DEFINE first == [path |-> <<e.name>>, num |-> e.num]
           more  == IF tree.inodes[e.num].kind = "dir" THEN Under(e.name, below[e.num]) ELSE <<>>
           Lower(x) == /\ tree.inodes[e.num].kind = "dir"
                       /\ \E y : /\ Has(below[e.num], y)
                                 /\ x = [path |-> <<e.name>> \o y.path, num |-> y.num]
<1>1. e.name \notin {".", ".."}
  BY MkfsAssumption
<1>2. inode(ilist, e.num).kind = tree.inodes[e.num].kind
  BY KindRead
<1>3. FoundAt(ilist, e, below) = <<first>> \o more
  BY <1>1, <1>2, Zenon DEF FoundAt
<1>4. first \in Thing
  BY DEF Thing
<1>5. more \in Seq(Thing) /\ \A x : Has(more, x) <=> Lower(x)
  <2>1. CASE tree.inodes[e.num].kind = "dir"
    <3> DEFINE s == below[e.num]
               r == Under(e.name, s)
               Lift(y) == [path |-> <<e.name>> \o y.path, num |-> y.num]
    <3>1. s \in Seq(Thing) /\ Len(s) \in Nat
      BY <2>1, LenProperties
    <3>2. \A k \in 1 .. Len(s) : s[k] \in Thing
      BY <3>1, ElementOfSeq
    <3>3. \A k \in 1 .. Len(s) : [s[k] EXCEPT !.path = <<e.name>> \o @] = Lift(s[k])
      <4>1. ASSUME NEW y \in Thing PROVE [y EXCEPT !.path = <<e.name>> \o @] = Lift(y)
        <5> DEFINE z == <<e.name>> \o y.path
        <5>1. y = [path |-> y.path, num |-> y.num]
          BY DEF Thing
        <5>2. [y EXCEPT !.path = z] = [path |-> z, num |-> y.num]
          <6> HIDE DEF z
          <6> QED BY <5>1
        <5> QED BY <5>2
      <4> HIDE DEF Lift, s, Thing
      <4> QED BY <3>2, <4>1
    <3>4. r = [k \in 1 .. Len(s) |-> Lift(s[k])]
      <4>1. r = [k \in 1 .. Len(s) |-> [s[k] EXCEPT !.path = <<e.name>> \o @]]
        BY Zenon DEF Under
      <4> HIDE DEF r, s, Lift
      <4> QED BY <3>3, <4>1
    <3>5. ASSUME NEW y \in Thing PROVE Lift(y) \in Thing
      <4>1. <<e.name>> \in Seq(Names) /\ y.path \in Seq(Names)
        BY DEF Thing
      <4>2. <<e.name>> \o y.path \in Seq(Names)
        BY <4>1, ConcatProperties
      <4> QED BY <4>2 DEF Thing
    <3> HIDE DEF r, s
    <3>6. r \in [1 .. Len(s) -> Thing]
      <4> HIDE DEF Lift, Thing
      <4> QED BY <3>2, <3>4, <3>5
    <3>7. r \in Seq(Thing) /\ Len(r) = Len(s)
      <4> HIDE DEF Thing
      <4> QED BY <3>1, <3>6
    <3>8. \A x : Has(r, x) <=> \E y : Has(s, y) /\ x = Lift(y)
      <4> HIDE DEF Lift
      <4> QED BY <3>4, <3>7 DEF Has
    <3> QED BY <2>1, <3>7, <3>8 DEF r, s
  <2>2. CASE tree.inodes[e.num].kind # "dir"
    <3>1. more = <<>> /\ more \in Seq(Thing) /\ Len(more) = 0
      BY <2>2
    <3> HIDE DEF more
    <3>2. \A x : ~Has(more, x)
      BY <3>1 DEF Has
    <3> QED BY <2>2, <3>1, <3>2
  <2> QED BY <2>1, <2>2
<1> HIDE DEF more, first, Lower, Thing
<1>6. <<first>> \in Seq(Thing) /\ \A x : Has(<<first>>, x) <=> x = first
  BY <1>4, HasOne
<1>7. <<first>> \o more \in Seq(Thing)
  BY <1>5, <1>6, HasJoin
<1>8. \A x : Has(<<first>> \o more, x) <=> x = first \/ Lower(x)
  BY <1>5, <1>6, HasJoin
<1> QED BY <1>3, <1>7, <1>8, Zenon DEF Reports, first, Lower

LEMMA FoundNot ==
  ASSUME NEW e, e.name \in {".", ".."}, NEW below
  PROVE  FoundAt(ilist, e, below) = <<>>
BY DEF FoundAt

(* What walk() finds m levels below directory dir: names of things that    *)
(* are there, and all of them.                                             *)
Finds(s, dir, m) ==
  /\ s \in Seq(Thing)
  /\ \A x : Has(s, x) => x.path # <<>> /\ Named(tree, dir \o x.path, x.num)
  /\ \A p \in Seq(Names), n \in Nums(tree) :
       Named(tree, p, n) /\ Len(dir) < Len(p) /\ SubSeq(p, 1, Len(dir)) = dir /\ Len(p) <= Len(dir) + m
         => Has(s, [path |-> SubSeq(p, Len(dir) + 1, Len(p)), num |-> n])

FindsAll(f, m) == \A dir \in DOMAIN tree.dirs : Finds(f[m][tree.dirs[dir]], dir, m)

LEMMA LevelIs ==
  ASSUME Finished, NEW of, Walking(image, ilist, of), NEW m \in 0 .. WalkDepth + 1,
         NEW dir \in DOMAIN tree.dirs
  PROVE  of[m][tree.dirs[dir]] =
           IF m = 0 THEN <<>>
           ELSE FlattenSeq([k \in 1 .. Len(tree.entries[dir]) |->
                              FoundAt(ilist, tree.entries[dir][k], of[m - 1])])
<1> DEFINE n == tree.dirs[dir]
<1>1. n \in Nat /\ readdir(image, inode(ilist, n)) = tree.entries[dir]
  BY TreeFacts
<1>2. of[m] = Below(image, ilist, of, m)
  BY Zenon DEF Walking
<1>3. Below(image, ilist, of, m)[n] =
        IF m = 0 THEN <<>>
        ELSE FlattenSeq([k \in 1 .. Len(tree.entries[dir]) |->
                           FoundAt(ilist, tree.entries[dir][k], of[m - 1])])
  <2> HIDE DEF n
  <2> QED BY <1>1, Zenon DEF Below
<1> QED BY <1>2, <1>3

LEMMA PrefixOf ==
  ASSUME NEW S, NEW p \in Seq(S), NEW k \in 0 .. Len(p), NEW j \in 0 .. k
  PROVE  /\ SubSeq(p, 1, k) \in Seq(S) /\ Len(SubSeq(p, 1, k)) = k
         /\ \A i \in 1 .. k : SubSeq(p, 1, k)[i] = p[i]
         /\ SubSeq(SubSeq(p, 1, k), 1, j) = SubSeq(p, 1, j)
<1> DEFINE n == Len(p)
           q == SubSeq(p, 1, k)
<1>1. n \in Nat /\ \A i \in 1 .. n : p[i] \in S
  BY LenProperties, ElementOfSeq
<1>2. q \in Seq(S) /\ Len(q) = k /\ \A i \in 1 .. k : q[i] = p[i]
  BY <1>1, SubSeqProperties
<1>3. SubSeq(p, 1, j) \in Seq(S) /\ Len(SubSeq(p, 1, j)) = j /\ \A i \in 1 .. j : SubSeq(p, 1, j)[i] = p[i]
  BY <1>1, SubSeqProperties
<1> HIDE DEF q, n
<1>4. SubSeq(q, 1, j) \in Seq(S) /\ Len(SubSeq(q, 1, j)) = j /\ \A i \in 1 .. j : SubSeq(q, 1, j)[i] = q[i]
  <2>1. \A i \in 1 .. j : q[i] \in S
    BY <1>2, ElementOfSeq
  <2> QED BY <2>1, SubSeqProperties
<1>5. SubSeq(q, 1, j) = SubSeq(p, 1, j)
  <2>1. \A i \in 1 .. j : SubSeq(q, 1, j)[i] = SubSeq(p, 1, j)[i]
    BY <1>2, <1>3, <1>4
  <2> QED BY <1>3, <1>4, <2>1, SeqEqual
<1> QED BY <1>2, <1>5 DEF q

(* One entry of a directory, if what lies a level deeper is found.         *)
LEMMA EntryFinds ==
  ASSUME Finished, NEW of, NEW m \in Nat, FindsAll(of, m), NEW dir \in DOMAIN tree.dirs,
         NEW i \in DOMAIN tree.entries[dir]
  PROVE  LET s == FoundAt(ilist, tree.entries[dir][i], of[m]) IN
         /\ s \in Seq(Thing)
         /\ \A x : Has(s, x) => x.path # <<>> /\ Named(tree, dir \o x.path, x.num)
<1> DEFINE e == tree.entries[dir][i]
           s == FoundAt(ilist, e, of[m])
           sub == Append(dir, e.name)
<1>1. /\ e.num \in Nums(tree) /\ (e.name \in Names \/ e.name \in {".", ".."})
      /\ e = Entry(e.num, e.name) /\ dir \in Seq(Names)
  BY EntrySays, TreeFacts
<1>2. e \in ToSet(tree.entries[dir])
  BY DEF ToSet
<1>3. e = tree.entries[dir][i]
  OBVIOUS
<1> HIDE DEF e
<1>4. CASE e.name \in {".", ".."}
  <2>1. s = <<>>
    BY <1>4, FoundNot
  <2>2. s \in Seq(Thing) /\ Len(s) = 0
    BY <2>1
  <2> HIDE DEF s
  <2>3. \A x : ~Has(s, x)
    BY <2>2 DEF Has
  <2> QED BY <1>3, <2>2, <2>3 DEF s
<1>5. CASE e.name \in Names
  <2>1. sub \in Seq(Names) /\ sub # <<>> /\ Front(sub) = dir /\ Last(sub) = e.name
    BY <1>1, <1>5, AppendParts
  <2>2. sub = dir \o <<e.name>>
    BY <1>1, <1>5, AppendIsConcat
  <2> HIDE DEF sub
  <2>3. Named(tree, sub, e.num)
    BY <1>1, <1>3, <2>1 DEF Named
  <2>4. ASSUME tree.inodes[e.num].kind = "dir"
        PROVE  sub \in DOMAIN tree.dirs /\ tree.dirs[sub] = e.num
    BY <2>1, <2>3, <2>4, NamedDir
  <2>5. tree.inodes[e.num].kind = "dir" => Finds(of[m][e.num], sub, m)
    BY <2>4 DEF FindsAll
  <2>6. tree.inodes[e.num].kind = "dir" => of[m][e.num] \in Seq(Thing)
    BY <2>5 DEF Finds
  <2>7. Reports(s, e, of[m])
    BY <1>1, <1>5, <2>6, FoundIs, Zenon
  <2>8. ASSUME NEW x, x = [path |-> <<e.name>>, num |-> e.num]
        PROVE  x.path # <<>> /\ Named(tree, dir \o x.path, x.num)
    <3>1. x.path = <<e.name>> /\ x.num = e.num
      BY <2>8
    <3>2. <<e.name>> # <<>>
      OBVIOUS
    <3> QED BY <2>2, <2>3, <3>1, <3>2
  <2>9. ASSUME NEW y, tree.inodes[e.num].kind = "dir", Has(of[m][e.num], y),
               NEW x, x = [path |-> <<e.name>> \o y.path, num |-> y.num]
        PROVE  x.path # <<>> /\ Named(tree, dir \o x.path, x.num)
    <3>1. Named(tree, sub \o y.path, y.num)
      BY <2>5, <2>9 DEF Finds
    <3>2. y \in Thing
      <4>1. PICK j \in 1 .. Len(of[m][e.num]) : of[m][e.num][j] = y
        BY <2>9 DEF Has
      <4> HIDE DEF Thing
      <4> QED BY <2>6, <2>9, <4>1, ElementOfSeq
    <3>3. y.path \in Seq(Names) /\ <<e.name>> \in Seq(Names) /\ <<e.name>> # <<>>
      BY <1>5, <3>2 DEF Thing
    <3>4. (dir \o <<e.name>>) \o y.path = dir \o (<<e.name>> \o y.path)
      <4> DEFINE one == <<e.name>>
                 rest == y.path
      <4>1. one \in Seq(Names) /\ rest \in Seq(Names)
        BY <3>3
      <4> HIDE DEF one, rest
      <4>2. (dir \o one) \o rest = dir \o (one \o rest)
        BY <1>1, <4>1, ConcatAssociative
      <4> QED BY <4>2 DEF one, rest
    <3>5. <<e.name>> \o y.path # <<>>
      BY <3>3, ConcatEqualIffEmpty
    <3>6. x.path = <<e.name>> \o y.path /\ x.num = y.num
      BY <2>9
    <3> QED BY <2>2, <3>1, <3>4, <3>5, <3>6
  <2>10. \A x : Has(s, x) => x.path # <<>> /\ Named(tree, dir \o x.path, x.num)
    <3> HIDE DEF s
    <3> QED BY <2>7, <2>8, <2>9 DEF Reports
  <2>11. s \in Seq(Thing)
    BY <2>7, Zenon DEF Reports
  <2> QED BY <1>3, <2>10, <2>11 DEF s
<1> QED BY <1>1, <1>4, <1>5

(* And nothing below that directory is left out.                           *)
Reach(of, m, dir, p, n) ==
  \E i \in DOMAIN tree.entries[dir] :
    Has(FoundAt(ilist, tree.entries[dir][i], of[m]),
        [path |-> SubSeq(p, Len(dir) + 1, Len(p)), num |-> n])

LEMMA EntryReaches ==
  ASSUME Finished, NEW of, NEW m \in Nat, FindsAll(of, m), NEW dir \in DOMAIN tree.dirs,
         NEW p \in Seq(Names), NEW n \in Nums(tree), Named(tree, p, n),
         Len(dir) < Len(p), SubSeq(p, 1, Len(dir)) = dir, Len(p) <= Len(dir) + (m + 1)
  PROVE  Reach(of, m, dir, p, n)
<1> DEFINE d == Len(dir)
           k == Len(p)
           a == p[d + 1]
<1>1. /\ d \in Nat /\ k \in Nat /\ d + 1 \in 1 .. k /\ a \in Names /\ p # <<>>
      /\ dir \in Seq(Names)
  <2>1. d \in Nat /\ k \in Nat /\ dir \in Seq(Names)
    BY TreeFacts, LenProperties
  <2>2. d + 1 \in 1 .. k
    BY <2>1
  <2>3. a \in Names
    BY <2>2, ElementOfSeq
  <2> QED BY <2>1, <2>2, <2>3 DEF Named
<1>2. SubSeq(p, d + 1, k) = <<a>> \o SubSeq(p, d + 2, k)
  <2> DEFINE f == d + 1
  <2>1. f \in 1 .. Len(p) /\ k \in f .. Len(p) /\ f + 1 = d + 2
    BY <1>1
  <2>2. a = p[f] /\ f = d + 1
    OBVIOUS
  <2> HIDE DEF f, k, a
  <2>3. SubSeq(p, f, k) = <<p[f]>> \o SubSeq(p, f + 1, k)
    BY <2>1, SubSeqRecursiveFirst
  <2> QED BY <2>1, <2>2, <2>3
<1>3. Front(p) = SubSeq(p, 1, k - 1) /\ Front(p) \in DOMAIN tree.dirs
  BY DEF Front, Named
<1>4. CASE k = d + 1
  <2>1. Front(p) = dir /\ Last(p) = a
    BY <1>1, <1>3, <1>4 DEF Last
  <2>2. PICK i \in DOMAIN tree.entries[dir] : tree.entries[dir][i] = Entry(n, a)
    BY <2>1 DEF Named
  <2> DEFINE e == tree.entries[dir][i]
  <2>3. e.name \in Names /\ e.num \in Nums(tree) /\ e.name = a /\ e.num = n
    BY <1>1, <2>2 DEF Entry
  <2>4. tree.inodes[e.num].kind = "dir" => of[m][e.num] \in Seq(Thing)
    <3>1. ASSUME tree.inodes[n].kind = "dir" PROVE Finds(of[m][n], p, m)
      BY <3>1, NamedDir DEF FindsAll
    <3> QED BY <2>3, <3>1 DEF Finds
  <2> HIDE DEF e
  <2>5. Reports(FoundAt(ilist, e, of[m]), e, of[m])
    BY <2>3, <2>4, FoundIs, Zenon
  <2>6. Has(FoundAt(ilist, e, of[m]), [path |-> <<a>>, num |-> n])
    BY <2>3, <2>5 DEF Reports
  <2>7. SubSeq(p, d + 1, k) = <<a>>
    <3>1. SubSeq(p, d + 2, k) = <<>>
      BY <1>1, <1>4, SubSeqEmpty
    <3>2. <<a>> \in Seq(Names)
      BY <1>1
    <3>3. <<a>> \o <<>> = <<a>>
      BY <3>2, ConcatEmptySeq
    <3> QED BY <1>2, <3>1, <3>3
  <2> QED BY <2>6, <2>7, Zenon DEF Reach, e
<1>5. CASE k # d + 1
  <2> DEFINE q == SubSeq(p, 1, d + 1)
  <2>1. d + 1 \in 0 .. k - 1 /\ d + 1 \in 0 .. k /\ k - 1 \in 0 .. k /\ d \in 0 .. d + 1
    BY <1>1, <1>5
  <2>2. q \in DOMAIN tree.dirs
    <3>1. SubSeq(Front(p), 1, d + 1) = q /\ Len(Front(p)) = k - 1
      BY <1>1, <1>3, <2>1, PrefixOf
    <3>2. d + 1 \in 0 .. Len(Front(p))
      BY <2>1, <3>1
    <3> HIDE DEF q, d
    <3> QED BY <1>3, <3>1, <3>2, PrefixIsDir
  <2>3. /\ q \in Seq(Names) /\ Len(q) = d + 1 /\ q[d + 1] = a /\ SubSeq(q, 1, d) = dir
    BY <1>1, <2>1, PrefixOf
  <2> HIDE DEF q
  <2>4. q # <<>>
    BY <1>1, <2>3, EmptySeq
  <2>5. Front(q) = dir /\ Last(q) = a
    <3>1. Len(q) - 1 = d
      BY <1>1, <2>3
    <3> HIDE DEF d
    <3> QED BY <2>3, <3>1 DEF Front, Last
  <2>6. PICK i \in DOMAIN tree.entries[dir] : tree.entries[dir][i] = Entry(tree.dirs[q], a)
    <3>1. Named(tree, q, tree.dirs[q])
      BY <2>2, <2>4, TreeFacts DEF Placed
    <3> QED BY <2>5, <3>1 DEF Named
  <2> DEFINE e == tree.entries[dir][i]
  <2>7. /\ e.name \in Names /\ e.num \in Nums(tree) /\ e.name = a /\ e.num = tree.dirs[q]
        /\ tree.inodes[e.num].kind = "dir"
    BY <1>1, <2>2, <2>6, TreeFacts DEF Entry, DirsInv
  <2>8. Finds(of[m][e.num], q, m)
    BY <2>2, <2>7 DEF FindsAll
  <2> HIDE DEF e
  <2>9. Reports(FoundAt(ilist, e, of[m]), e, of[m])
    BY <2>7, <2>8, FoundIs, Zenon DEF Finds
  <2> DEFINE y == [path |-> SubSeq(p, d + 2, k), num |-> n]
  <2>10. Has(of[m][e.num], y)
    <3>1. /\ Len(q) < Len(p) /\ SubSeq(p, 1, Len(q)) = q /\ Len(p) <= Len(q) + m
          /\ Len(q) + 1 = d + 2
      BY <1>1, <1>5, <2>3 DEF q
    <3>2. Has(of[m][e.num], [path |-> SubSeq(p, Len(q) + 1, Len(p)), num |-> n])
      BY <2>8, <3>1 DEF Finds
    <3> QED BY <3>1, <3>2
  <2>11. y.path = SubSeq(p, d + 2, k) /\ y.num = n
    OBVIOUS
  <2> HIDE DEF y
  <2>12. Has(FoundAt(ilist, e, of[m]), [path |-> <<e.name>> \o y.path, num |-> y.num])
    BY <2>7, <2>9, <2>10, Zenon DEF Reports
  <2>13. Has(FoundAt(ilist, e, of[m]), [path |-> SubSeq(p, d + 1, k), num |-> n])
    BY <1>2, <2>7, <2>11, <2>12
  <2> QED BY <2>13, Zenon DEF Reach, e
<1> QED BY <1>4, <1>5

LEMMA NextLevel ==
  ASSUME Finished, NEW of, Walking(image, ilist, of), NEW m \in 0 .. WalkDepth, FindsAll(of, m)
  PROVE  FindsAll(of, m + 1)
<1> SUFFICES ASSUME NEW dir \in DOMAIN tree.dirs
             PROVE  Finds(of[m + 1][tree.dirs[dir]], dir, m + 1)
  BY DEF FindsAll
<1> DEFINE list == tree.entries[dir]
           c == Len(list)
           s == [k \in 1 .. c |-> FoundAt(ilist, list[k], of[m])]
           r == FlattenSeq(s)
<1>0. c \in Nat /\ DOMAIN list = 1 .. c /\ m \in Nat
  BY TreeFacts, LenProperties
<1>1. of[m + 1][tree.dirs[dir]] = r
  <2>1. m + 1 \in 0 .. WalkDepth + 1 /\ m + 1 # 0 /\ (m + 1) - 1 = m
    BY MkfsAssumption
  <2> DEFINE k == m + 1
  <2> HIDE DEF k
  <2>2. of[k][tree.dirs[dir]] =
          IF k = 0 THEN <<>>
          ELSE FlattenSeq([j \in 1 .. c |-> FoundAt(ilist, list[j], of[k - 1])])
    BY <2>1, LevelIs, Zenon DEF k
  <2>3. k # 0 /\ k - 1 = m
    BY <2>1 DEF k
  <2>4. of[k][tree.dirs[dir]] = r
    BY <2>2, <2>3
  <2> QED BY <2>4 DEF k
<1>2. \A k \in 1 .. c :
        /\ s[k] \in Seq(Thing)
        /\ \A x : Has(s[k], x) => x.path # <<>> /\ Named(tree, dir \o x.path, x.num)
  <2> SUFFICES ASSUME NEW k \in 1 .. c
               PROVE  /\ s[k] \in Seq(Thing)
                      /\ \A x : Has(s[k], x) => x.path # <<>> /\ Named(tree, dir \o x.path, x.num)
    OBVIOUS
  <2>1. s[k] = FoundAt(ilist, tree.entries[dir][k], of[m]) /\ k \in DOMAIN tree.entries[dir]
    BY <1>0
  <2> HIDE DEF s, Thing
  <2> QED BY <1>0, <2>1, EntryFinds
<1>3. s \in [1 .. c -> Seq(Thing)]
  <2>1. s = [k \in 1 .. c |-> s[k]]
    OBVIOUS
  <2> HIDE DEF s, Thing
  <2> QED BY <1>2, <2>1
<1>4. \A k \in 1 .. c : s[k] = FoundAt(ilist, list[k], of[m])
  OBVIOUS
<1> HIDE DEF s, c, Thing
<1>5. r \in Seq(Thing) /\ \A x : Has(r, x) <=> \E i \in 1 .. c : Has(s[i], x)
  BY <1>0, <1>3, FlatHas
<1> HIDE DEF r
<1>6. \A x : Has(r, x) => x.path # <<>> /\ Named(tree, dir \o x.path, x.num)
  BY <1>2, <1>5
<1>7. ASSUME NEW p \in Seq(Names), NEW n \in Nums(tree), Named(tree, p, n),
             Len(dir) < Len(p), SubSeq(p, 1, Len(dir)) = dir, Len(p) <= Len(dir) + (m + 1)
      PROVE  Has(r, [path |-> SubSeq(p, Len(dir) + 1, Len(p)), num |-> n])
  <2>1. Reach(of, m, dir, p, n)
    BY <1>0, <1>7, EntryReaches
  <2>2. PICK i \in 1 .. c : Has(FoundAt(ilist, list[i], of[m]),
                                [path |-> SubSeq(p, Len(dir) + 1, Len(p)), num |-> n])
    BY <1>0, <2>1 DEF Reach
  <2> QED BY <1>4, <1>5, <2>2
<1> HIDE DEF list
<1>8. Finds(r, dir, m + 1)
  BY <1>5, <1>6, <1>7 DEF Finds
<1> QED BY <1>1, <1>8

(* walk() reports everything that has a name, and nothing else.            *)
LEMMA WalkIs ==
  ASSUME Finished, Depth <= WalkDepth
  PROVE  LET found == walk(image, ilist) IN
         /\ found \in Seq(Thing)
         /\ \A x \in Thing : Has(found, x) <=> Named(tree, x.path, x.num)
<1>0. WalkDepth \in Nat /\ Depth \in Nat
  BY MkfsAssumption
<1>1. PICK of : Walking(image, ilist, of) /\ walk(image, ilist) = of[WalkDepth + 1][ROOTINO]
  BY <1>0, WalkOf
<1>2. FindsAll(of, 0)
  <2> SUFFICES ASSUME NEW dir \in DOMAIN tree.dirs PROVE Finds(of[0][tree.dirs[dir]], dir, 0)
    BY DEF FindsAll
  <2> DEFINE s == of[0][tree.dirs[dir]]
             zero == 0
  <2>1. zero \in 0 .. WalkDepth + 1 /\ zero = 0
    BY <1>0
  <2> HIDE DEF zero
  <2>2. of[zero][tree.dirs[dir]] = <<>>
    BY <1>1, <2>1, LevelIs
  <2>3. s = <<>>
    BY <2>1, <2>2
  <2>4. s \in Seq(Thing) /\ Len(s) = 0
    BY <2>3
  <2> HIDE DEF s
  <2>5. \A x : ~Has(s, x)
    BY <2>4 DEF Has
  <2>6. Len(dir) \in Nat /\ \A p \in Seq(Names) : Len(p) \in Nat
    BY TreeFacts, LenProperties
  <2>7. \A p \in Seq(Names) : ~(Len(dir) < Len(p) /\ Len(p) <= Len(dir) + 0)
    BY <2>6
  <2> HIDE DEF Thing
  <2> QED BY <2>4, <2>5, <2>7 DEF Finds, s
<1> DEFINE w == WalkDepth + 1
           P == {m \in 0 .. w : FindsAll(of, m)}
<1>3. w \in P /\ w \in Nat
  <2>0. w \in Nat
    BY <1>0
  <2>1. 0 \in P
    BY <1>2, <2>0
  <2>2. ASSUME NEW m \in 0 .. w - 1, m \in P PROVE m + 1 \in P
    <3>1. m \in 0 .. WalkDepth /\ FindsAll(of, m) /\ m + 1 \in 0 .. w
      BY <1>0, <2>2
    <3> QED BY <1>1, <3>1, NextLevel
  <2> HIDE DEF P, w
  <2>3. 0 .. w \subseteq P
    BY <2>0, <2>1, <2>2, UpTo
  <2> QED BY <2>0, <2>3
<1> DEFINE s == of[w][ROOTINO]
<1>4. Finds(s, <<>>, w)
  <2>1. FindsAll(of, w)
    BY <1>3
  <2>2. <<>> \in DOMAIN tree.dirs /\ tree.dirs[<<>>] = ROOTINO
    BY TreeFacts DEF TreeInv, Placed
  <2> HIDE DEF w
  <2> QED BY <2>1, <2>2 DEF FindsAll
<1>5. s = walk(image, ilist)
  BY <1>1
<1>6. w = WalkDepth + 1
  OBVIOUS
<1> HIDE DEF s, w
<1>7. ASSUME NEW x \in Thing, Has(s, x) PROVE Named(tree, x.path, x.num)
  <2>1. Named(tree, <<>> \o x.path, x.num)
    BY <1>4, <1>7 DEF Finds
  <2>2. x.path \in Seq(Names)
    BY DEF Thing
  <2>3. <<>> \o x.path = x.path
    BY <2>2, ConcatEmptySeq
  <2> QED BY <2>1, <2>3
<1>8. ASSUME NEW x \in Thing, Named(tree, x.path, x.num) PROVE Has(s, x)
  <2> DEFINE p == x.path
             n == x.num
  <2>1. p \in Seq(Names) /\ n \in Nums(tree) /\ x = [path |-> p, num |-> n] /\ Named(tree, p, n)
    BY <1>8 DEF Thing
  <2> HIDE DEF p, n
  <2>2. p # <<>> /\ Front(p) \in DOMAIN tree.dirs
    BY <2>1 DEF Named
  <2>3. Len(Front(p)) = Len(p) - 1 /\ Len(p) \in Nat /\ Len(p) # 0
    BY <2>1, <2>2, FrontAndLast, LenProperties, EmptySeq
  <2>4. Len(Front(p)) <= Depth
    BY <2>2, TreeFacts DEF Placed
  <2>5. Len(p) <= 0 + w /\ 0 < Len(p)
    BY <1>0, <1>6, <2>3, <2>4
  <2>6. SubSeq(p, 1, 0) = <<>> /\ SubSeq(p, 1, Len(p)) = p
    BY <2>1, SubSeqEmpty, SubSeqFull
  <2> DEFINE none == <<>>
  <2>7. Len(none) = 0 /\ none = <<>>
    OBVIOUS
  <2> HIDE DEF none
  <2>8. /\ Finds(s, none, w) /\ Len(none) < Len(p) /\ SubSeq(p, 1, Len(none)) = none
        /\ Len(p) <= Len(none) + w
    BY <1>4, <2>5, <2>6, <2>7
  <2>9. Has(s, [path |-> SubSeq(p, Len(none) + 1, Len(p)), num |-> n])
    BY <2>1, <2>8 DEF Finds
  <2>10. SubSeq(p, Len(none) + 1, Len(p)) = p
    BY <2>6, <2>7
  <2> QED BY <2>1, <2>9, <2>10
<1>9. s \in Seq(Thing)
  BY <1>4 DEF Finds
<1> HIDE DEF Thing
<1> QED BY <1>5, <1>7, <1>8, <1>9

-----------------------------------------------------------------------------
(* What becomes of what was found.                                         *)
AllNamed ==
  UNION {{<<Append(dir, e.name), e.num>> : e \in ToSet(tree.entries[dir])} : dir \in DOMAIN tree.dirs}

NumOf(path) == (CHOOSE p \in AllNamed : p[1] = path)[2]

FileOf(path) == [text |-> written[NumOf(path)], exec |-> tree.inodes[NumOf(path)].exec]

DevOf(path) == CHOOSE dev \in Devices : Device(dev).addr = tree.inodes[NumOf(path)].addr

LEMMA AllNamedAre ==
  ASSUME Finished, NEW q
  PROVE  q \in AllNamed <=>
           \E dir \in DOMAIN tree.dirs : \E i \in DOMAIN tree.entries[dir] :
             q = <<Append(dir, tree.entries[dir][i].name), tree.entries[dir][i].num>>
BY DEF AllNamed, ToSet

LEMMA NumIs ==
  ASSUME Finished, NEW p \in Seq(Names), NEW n
  PROVE  /\ <<p, n>> \in AllNamed <=> Named(tree, p, n)
         /\ Named(tree, p, n) => NumOf(p) = n
<1> DEFINE All == Names \cup {".", ".."}
<1>1. ASSUME NEW m, Named(tree, p, m) PROVE <<p, m>> \in AllNamed
  <2>1. PICK i \in DOMAIN tree.entries[Front(p)] : tree.entries[Front(p)][i] = Entry(m, Last(p))
    BY <1>1 DEF Named
  <2>2. tree.entries[Front(p)][i].name = Last(p) /\ tree.entries[Front(p)][i].num = m
    BY <2>1 DEF Entry
  <2>3. p = Append(Front(p), Last(p)) /\ Front(p) \in DOMAIN tree.dirs
    BY <1>1, FrontAndLast DEF Named
  <2> QED BY <2>1, <2>2, <2>3, AllNamedAre
<1>2. ASSUME NEW q \in AllNamed, q[1] = p PROVE q = <<p, q[2]>> /\ Named(tree, p, q[2])
  <2>0. PICK dir \in DOMAIN tree.dirs : \E i \in DOMAIN tree.entries[dir] :
          q = <<Append(dir, tree.entries[dir][i].name), tree.entries[dir][i].num>>
    BY AllNamedAre
  <2>1. PICK i \in DOMAIN tree.entries[dir] :
          q = <<Append(dir, tree.entries[dir][i].name), tree.entries[dir][i].num>>
    BY <2>0
  <2> DEFINE e == tree.entries[dir][i]
  <2>2. e.name \in All /\ e = Entry(e.num, e.name) /\ dir \in Seq(Names)
    BY EntrySays, TreeFacts
  <2>3. q = <<Append(dir, e.name), e.num>> /\ e = tree.entries[dir][i]
    BY <2>1
  <2> HIDE DEF e, All
  <2>4. p = Append(dir, e.name) /\ q[2] = e.num
    BY <1>2, <2>3
  <2>5. Names \subseteq All
    BY DEF All
  <2>6. dir \in Seq(All)
    BY <2>2, <2>5, SeqOfMore
  <2>7. p # <<>> /\ Front(p) = dir /\ Last(p) = e.name
    BY <2>2, <2>4, <2>6, AppendParts
  <2>8. Named(tree, p, e.num)
    BY <2>2, <2>3, <2>7 DEF Named
  <2> QED BY <2>3, <2>4, <2>8
<1>3. ASSUME <<p, n>> \in AllNamed PROVE Named(tree, p, n)
  <2>1. <<p, n>>[1] = p /\ <<p, n>>[2] = n
    OBVIOUS
  <2> QED BY <1>2, <1>3, <2>1
<1>4. ASSUME Named(tree, p, n) PROVE NumOf(p) = n
  <2> DEFINE c == CHOOSE q \in AllNamed : q[1] = p
  <2>1. <<p, n>> \in AllNamed /\ <<p, n>>[1] = p
    BY <1>1, <1>4
  <2>2. c \in AllNamed /\ c[1] = p
    BY <2>1
  <2>3. NumOf(p) = c[2]
    BY DEF NumOf
  <2> HIDE DEF c
  <2>4. Named(tree, p, c[2])
    BY <1>2, <2>2
  <2> QED BY <1>4, <2>3, <2>4, NamedOnce
<1> QED BY <1>1, <1>3, <1>4

PathsOf(seen, kind) == {x.path : x \in {y \in seen : tree.inodes[y.num].kind = kind}}

AllThings == {x \in Thing : Named(tree, x.path, x.num)}

(* The host directory, when what is in `seen' has been extracted.          *)
Growing(h, seen) ==
  /\ h = [dirs     |-> h.dirs,
          files    |-> [path \in PathsOf(seen, "file") |-> FileOf(path)],
          specials |-> [path \in PathsOf(seen, "node") |-> DevOf(path)],
          failed   |-> FALSE]
  /\ h.dirs \subseteq DOMAIN tree.dirs /\ <<>> \in h.dirs
  /\ PathsOf(seen, "dir") \subseteq h.dirs

LEMMA PathsOfMore ==
  ASSUME NEW seen, NEW x, NEW kind
  PROVE  PathsOf(seen \cup {x}, kind) =
           PathsOf(seen, kind) \cup (IF tree.inodes[x.num].kind = kind THEN {x.path} ELSE {})
<1>1. CASE tree.inodes[x.num].kind = kind
  BY <1>1 DEF PathsOf
<1>2. CASE tree.inodes[x.num].kind # kind
  BY <1>2 DEF PathsOf
<1> QED BY <1>1, <1>2

LEMMA NoDirSeen ==
  ASSUME Finished, NEW seen, seen \subseteq AllThings, NEW kind, kind # "dir",
         NEW p \in PathsOf(seen, kind)
  PROVE  p \notin DOMAIN tree.dirs
<1>1. PICK x \in seen : tree.inodes[x.num].kind = kind /\ p = x.path
  BY DEF PathsOf
<1>2. x.path \in Seq(Names) /\ Named(tree, x.path, x.num)
  BY <1>1 DEF AllThings, Thing
<1> QED BY <1>1, <1>2, NotADir

(* makedirs() of a directory that was there in the image.                  *)
LEMMA DirsMade ==
  ASSUME Finished, NEW seen, seen \subseteq AllThings, NEW h, Growing(h, seen),
         NEW d \in DOMAIN tree.dirs
  PROVE  Growing(makedirs(h, d), seen) /\ d \in makedirs(h, d).dirs
<1> DEFINE all == {SubSeq(d, 1, k) : k \in 0 .. Len(d)}
           r == [h EXCEPT !.dirs = @ \cup all]
<1>1. all \subseteq DOMAIN tree.dirs
  BY PrefixIsDir
<1>2. d \in all
  <2>1. d \in Seq(Names) /\ Len(d) \in 0 .. Len(d)
    BY TreeFacts, LenProperties
  <2>2. SubSeq(d, 1, Len(d)) = d
    BY <2>1, SubSeqFull
  <2> QED BY <2>1, <2>2, Zenon
<1>3. DOMAIN h.files = PathsOf(seen, "file")
  BY DEF Growing
<1>4. all \cap DOMAIN h.files = {}
  <2> HIDE DEF all
  <2>1. \A p \in DOMAIN h.files : p \notin DOMAIN tree.dirs
    BY <1>3, NoDirSeen
  <2> QED BY <1>1, <2>1
<1>5. makedirs(h, d) = r
  BY <1>4 DEF makedirs
<1> HIDE DEF all
<1>6. /\ r.dirs = h.dirs \cup all
      /\ r = [dirs |-> r.dirs, files |-> h.files, specials |-> h.specials, failed |-> FALSE]
      /\ h.files = [path \in PathsOf(seen, "file") |-> FileOf(path)]
      /\ h.specials = [path \in PathsOf(seen, "node") |-> DevOf(path)]
  <2> DEFINE files == [path \in PathsOf(seen, "file") |-> FileOf(path)]
             specials == [path \in PathsOf(seen, "node") |-> DevOf(path)]
  <2>1. h = [dirs |-> h.dirs, files |-> files, specials |-> specials, failed |-> FALSE]
    BY DEF Growing
  <2> HIDE DEF files, specials
  <2>2. h.files = files /\ h.specials = specials
    BY <2>1
  <2>3. /\ r.dirs = h.dirs \cup all
        /\ r = [dirs |-> r.dirs, files |-> h.files, specials |-> h.specials, failed |-> FALSE]
    <3> DEFINE grown == h.dirs \cup all
    <3>1. r = [h EXCEPT !.dirs = grown]
      OBVIOUS
    <3> HIDE DEF r, grown
    <3>2. r = [dirs |-> grown, files |-> files, specials |-> specials, failed |-> FALSE]
      <4> DEFINE dirs == h.dirs
      <4>1. h = [dirs |-> dirs, files |-> files, specials |-> specials, failed |-> FALSE]
        BY <2>1
      <4> HIDE DEF dirs
      <4>2. r = [[dirs |-> dirs, files |-> files, specials |-> specials, failed |-> FALSE]
                   EXCEPT !.dirs = grown]
        BY <3>1, <4>1, Zenon
      <4> QED BY <4>2
    <3>3. r.dirs = grown
      BY <3>2
    <3> QED BY <2>2, <3>2, <3>3 DEF grown
  <2> QED BY <2>2, <2>3 DEF files, specials
<1> HIDE DEF r
<1>7. Growing(r, seen)
  <2>1. r.dirs \subseteq DOMAIN tree.dirs /\ <<>> \in r.dirs /\ PathsOf(seen, "dir") \subseteq r.dirs
    BY <1>1, <1>6 DEF Growing
  <2> QED BY <1>6, <2>1, Zenon DEF Growing
<1> QED BY <1>2, <1>5, <1>6, <1>7

(* The device number of a special file.                                    *)
LEMMA DeviceAddr ==
  ASSUME NEW dev \in Devices
  PROVE  /\ dev = <<dev[1], dev[2]>>
         /\ Device(dev).addr[1] \div BYTE = dev[1] /\ Device(dev).addr[1] % BYTE = dev[2]
         /\ \A k \in 1 .. NADDR : Device(dev).addr[k] \in Nat /\ Device(dev).addr[k] < BYTE * BYTE * BYTE
<1> DEFINE B == BYTE
           a == dev[1] * B + dev[2]
<1>1. /\ B \in Nat /\ B > 0 /\ dev[1] \in Nat /\ dev[2] \in Nat /\ dev[1] <= B - 1 /\ dev[2] < B
      /\ dev = <<dev[1], dev[2]>>
  <2>1. B \in Nat /\ B > 0
    BY MkfsAssumption
  <2> HIDE DEF B
  <2>2. dev \in (0 .. B - 1) \X (0 .. B - 1)
    BY MkfsAssumption DEF B
  <2> QED BY <2>1, <2>2
<1>2. Device(dev).addr = [k \in 1 .. NADDR |-> IF k = 1 THEN a ELSE 0] /\ 1 \in 1 .. NADDR
  <2> HIDE DEF a
  <2>1. Device(dev) = [Inode("node", 1) EXCEPT !.addr[1] = a]
    BY DEF Device, a
  <2>2. Inode("node", 1).addr = [k \in 1 .. NADDR |-> 0] /\ 1 \in 1 .. NADDR
    BY Sizes DEF Inode
  <2> QED BY <2>1, <2>2 DEF Inode
<1> HIDE DEF B
<1>3. dev[1] * B = B * dev[1] /\ a \in Nat
  BY <1>1
<1>4. a \div B = dev[1] /\ a % B = dev[2]
  <2> DEFINE q == dev[1]
             r == dev[2]
  <2>1. q \in Nat /\ r \in Nat /\ r < B /\ a = B * q + r
    BY <1>1, <1>3
  <2> HIDE DEF q, r, a
  <2>2. a \div B = q /\ a % B = r
    BY <1>1, <1>3, <2>1, DivIs
  <2> QED BY <2>2 DEF q, r
<1>5. a < B * B * B
  <2> DEFINE q == dev[1]
             sq == B * B
  <2>1. q + 1 <= B /\ q \in Nat /\ sq \in Nat
    BY <1>1
  <2>2. (q + 1) * B <= sq /\ (q + 1) * B = B * q + B
    <3> HIDE DEF q
    <3>1. q + 1 \in Nat
      BY <2>1
    <3>2. (q + 1) * B <= B * B
      BY <1>1, <2>1, <3>1, Mono
    <3>3. (q + 1) * B = B * q + B
      BY <1>1, <2>1
    <3> QED BY <3>2, <3>3
  <2>3. a < B * q + B
    BY <1>1, <1>3
  <2>4. 1 * sq <= B * sq /\ 1 * sq = sq
    BY <1>1, <2>1, Mono
  <2>5. B * q \in Nat /\ B * sq \in Nat
    BY <1>1, <2>1
  <2> HIDE DEF a, q, sq
  <2>6. a < B * sq
    BY <1>1, <1>3, <2>1, <2>2, <2>3, <2>4, <2>5
  <2>7. B * (B * B) = B * B * B
    BY <1>1
  <2> QED BY <2>6, <2>7 DEF sq
<1> HIDE DEF a
<1>6. 0 < B * B * B
  <2> DEFINE most == B * B * B
  <2>1. most \in Nat /\ a < most
    BY <1>1, <1>5
  <2> HIDE DEF most
  <2>2. 0 < most
    BY <1>3, <2>1
  <2> QED BY <2>2 DEF most
<1> QED BY <1>1, <1>2, <1>3, <1>4, <1>5, <1>6 DEF B

LEMMA NodeRead ==
  ASSUME Finished, NEW n \in Nums(tree), tree.inodes[n].kind = "node"
  PROVE  LET i == inode(ilist, n) IN
         <<i.addr[1] \div BYTE, i.addr[1] % BYTE>> =
           CHOOSE dev \in Devices : Device(dev).addr = tree.inodes[n].addr
<1> DEFINE ino == tree.inodes[n]
           d == CHOOSE dev \in Devices : Device(dev).addr = ino.addr
<1>1. \E dev \in Devices : ino.addr = Device(dev).addr
  BY DEF Finished, Nodes
<1>2. d \in Devices /\ Device(d).addr = ino.addr
  BY <1>1
<1> HIDE DEF d
<1>3. ilist = OnIlist(tree) /\ TreeInv(tree) /\ tree.next_ino <= ninodes
  BY DEF Finished, MkInv, Sound
<1>4. n \in 1 .. ninodes /\ n \in DOMAIN tree.inodes /\ ino \in InodeType
  BY <1>3, Sizes DEF TreeInv, Nums, ROOTINO
<1>5. ilist[n] = pack_inode(ino)
  BY <1>3, <1>4 DEF OnIlist
<1>6. IsInode(ino)
  BY <1>4 DEF InodeType, IsInode
<1>7. \A k \in 1 .. NADDR : ino.addr[k] < BYTE * BYTE * BYTE
  BY <1>2, DeviceAddr
<1> HIDE DEF ino
<1>8. inode(ilist, n) = ino
  BY <1>5, <1>6, <1>7, InodeRead
<1>9. /\ d = <<d[1], d[2]>> /\ ino.addr[1] \div BYTE = d[1] /\ ino.addr[1] % BYTE = d[2]
  BY <1>2, DeviceAddr
<1>10. <<ino.addr[1] \div BYTE, ino.addr[1] % BYTE>> = d
  BY <1>9
<1> QED BY <1>8, <1>10 DEF d, ino

LEMMA FileRead ==
  ASSUME Finished, NEW n \in Nums(tree), tree.inodes[n].kind = "file"
  PROVE  /\ inode(ilist, n) = tree.inodes[n] /\ tree.inodes[n].exec \in BOOLEAN
         /\ data(image, inode(ilist, n)) = written[n]
<1>1. inode(ilist, n) = tree.inodes[n]
  BY ReadInode DEF Finished
<1>2. tree.inodes[n].exec \in BOOLEAN
  BY TreeFacts DEF TreeInv, InodeType
<1>3. n \in DOMAIN written
  BY DEF Finished, StoreInv, DirsWritten
<1>4. data(image, inode(ilist, n)) = written[n]
  BY <1>3 DEF Finished, RoundTrip
<1> QED BY <1>1, <1>2, <1>4

(* One thing found is extracted.                                           *)
LEMMA ExtractedOne ==
  ASSUME Finished, NEW seen, seen \subseteq AllThings, NEW h, Growing(h, seen), NEW x \in AllThings
  PROVE  Growing(Extracting(image, ilist, h, x), seen \cup {x})
<1> DEFINE p == x.path
           n == x.num
           i == inode(ilist, n)
           new == seen \cup {x}
           kind == tree.inodes[n].kind
           r == Extracting(image, ilist, h, x)
<1>1. p \in Seq(Names) /\ n \in Nums(tree) /\ Named(tree, p, n) /\ i.kind = kind /\ NumOf(p) = n
  <2>1. p \in Seq(Names) /\ n \in Nums(tree) /\ Named(tree, p, n)
    BY DEF AllThings, Thing
  <2> QED BY <2>1, KindRead, NumIs
<1>2. Front(p) \in DOMAIN tree.dirs
  BY <1>1 DEF Named
<1>3. kind \in {"file", "dir", "node"}
  BY <1>1, TreeFacts DEF TreeInv, InodeType
<1>4. \A k : PathsOf(new, k) = PathsOf(seen, k) \cup (IF kind = k THEN {p} ELSE {})
  BY PathsOfMore
<1>5. h.failed = FALSE
  BY DEF Growing
<1> HIDE DEF kind, new
<1>6. CASE kind = "dir"
  <2>1. r = makedirs(h, p)
    BY <1>1, <1>5, <1>6 DEF Extracting
  <2>2. p \in DOMAIN tree.dirs
    BY <1>1, <1>6, NamedDir DEF kind
  <2>3. Growing(r, seen) /\ p \in r.dirs
    BY <2>1, <2>2, DirsMade
  <2> HIDE DEF r
  <2>4. PathsOf(new, "file") = PathsOf(seen, "file") /\ PathsOf(new, "node") = PathsOf(seen, "node")
    BY <1>4, <1>6
  <2>5. PathsOf(new, "dir") = PathsOf(seen, "dir") \cup {p}
    BY <1>4, <1>6
  <2>6. Growing(r, new)
    BY <2>3, <2>4, <2>5 DEF Growing
  <2> QED BY <2>6 DEF r, new
<1>7. CASE kind = "file"
  <2> DEFINE m == makedirs(h, Front(p))
             f == [path \in PathsOf(seen, "file") |-> FileOf(path)]
             g == [path \in PathsOf(new, "file") |-> FileOf(path)]
             s == [path \in PathsOf(seen, "node") |-> DevOf(path)]
  <2>1. Growing(m, seen)
    BY <1>2, DirsMade
  <2>2. /\ m.failed = FALSE /\ m.files = f /\ m.dirs \subseteq DOMAIN tree.dirs
        /\ m = [dirs |-> m.dirs, files |-> f, specials |-> s, failed |-> FALSE]
    <3> HIDE DEF m
    <3> QED BY <2>1 DEF Growing
  <2>3. r = WithFile(m, p, data(image, i), i.exec)
    BY <1>1, <1>5, <1>7, <2>2, Zenon DEF Extracting
  <2> HIDE DEF m, r
  <2>4. p \notin m.dirs
    BY <1>1, <1>7, <2>2, NotADir DEF kind
  <2>5. FileOf(p) = [text |-> data(image, i), exec |-> i.exec] /\ i.exec \in BOOLEAN
    BY <1>1, <1>7, FileRead DEF FileOf, kind
  <2> DEFINE was == p \in DOMAIN m.files /\ m.files[p].exec
  <2>6. (i.exec \/ was) = i.exec
    <3>1. p \in DOMAIN m.files => m.files[p] = FileOf(p)
      BY <2>2
    <3>2. was => i.exec
      BY <2>5, <3>1
    <3> HIDE DEF was
    <3> QED BY <2>5, <3>2
  <2>7. r = [m EXCEPT !.files = Set(@, p, [text |-> data(image, i), exec |-> i.exec \/ was])]
    BY <2>3, <2>4, Zenon DEF WithFile
  <2>8. r = [m EXCEPT !.files = Set(f, p, FileOf(p))]
    <3> HIDE DEF was, f
    <3> QED BY <2>2, <2>5, <2>6, <2>7
  <2>9. Set(f, p, FileOf(p)) = g
    <3>1. PathsOf(new, "file") = PathsOf(seen, "file") \cup {p}
      BY <1>4, <1>7
    <3>2. DOMAIN f \cup {p} = PathsOf(new, "file")
      BY <3>1
    <3>3. \A y \in PathsOf(new, "file") : (IF y = p THEN FileOf(p) ELSE f[y]) = FileOf(y)
      BY <3>1
    <3> HIDE DEF f
    <3> QED BY <3>2, <3>3 DEF Set
  <2> HIDE DEF f, g, s
  <2>10. r = [dirs |-> m.dirs, files |-> g, specials |-> s, failed |-> FALSE]
    <3> DEFINE dirs == m.dirs
    <3>1. m = [dirs |-> dirs, files |-> f, specials |-> s, failed |-> FALSE]
      BY <2>2
    <3> HIDE DEF dirs
    <3>2. r = [[dirs |-> dirs, files |-> f, specials |-> s, failed |-> FALSE] EXCEPT !.files = g]
      BY <2>8, <2>9, <3>1, Zenon
    <3>3. r = [dirs |-> dirs, files |-> g, specials |-> s, failed |-> FALSE]
      BY <3>2
    <3> QED BY <3>3 DEF dirs
  <2>11. r.dirs = m.dirs /\ PathsOf(new, "node") = PathsOf(seen, "node")
         /\ PathsOf(new, "dir") = PathsOf(seen, "dir")
    BY <1>4, <1>7, <2>10
  <2>12. /\ r.dirs \subseteq DOMAIN tree.dirs /\ <<>> \in r.dirs
         /\ PathsOf(new, "dir") \subseteq r.dirs
    BY <2>1, <2>11 DEF Growing
  <2>13. r = [dirs     |-> r.dirs,
              files    |-> [path \in PathsOf(new, "file") |-> FileOf(path)],
              specials |-> [path \in PathsOf(new, "node") |-> DevOf(path)],
              failed   |-> FALSE]
    BY <2>10, <2>11, Zenon DEF g, s
  <2>14. Growing(r, new)
    BY <2>12, <2>13, Zenon DEF Growing
  <2> QED BY <2>14 DEF r, new
<1>8. CASE kind = "node"
  <2> DEFINE f == [path \in PathsOf(seen, "file") |-> FileOf(path)]
             s == [path \in PathsOf(seen, "node") |-> DevOf(path)]
             g == [path \in PathsOf(new, "node") |-> DevOf(path)]
             dirs == h.dirs
  <2>1. h = [dirs |-> dirs, files |-> f, specials |-> s, failed |-> FALSE]
    BY Zenon DEF Growing
  <2>2. r = [h EXCEPT !.specials = Set(@, p, <<i.addr[1] \div BYTE, i.addr[1] % BYTE>>)]
    <3>1. ~(i.kind = "dir") /\ ~(i.kind = "file") /\ ~h.failed
      BY <1>1, <1>5, <1>8
    <3> QED BY <3>1, Zenon DEF Extracting
  <2>3. <<i.addr[1] \div BYTE, i.addr[1] % BYTE>> = DevOf(p)
    BY <1>1, <1>8, NodeRead DEF DevOf, kind
  <2> HIDE DEF r, dirs, f, s, i
  <2>4. r = [h EXCEPT !.specials = Set(s, p, DevOf(p))]
    BY <2>1, <2>2, <2>3
  <2>5. Set(s, p, DevOf(p)) = g
    <3>1. PathsOf(new, "node") = PathsOf(seen, "node") \cup {p}
      BY <1>4, <1>8
    <3>2. DOMAIN s \cup {p} = PathsOf(new, "node")
      BY <3>1 DEF s
    <3>3. \A y \in PathsOf(new, "node") : (IF y = p THEN DevOf(p) ELSE s[y]) = DevOf(y)
      BY <3>1 DEF s
    <3> QED BY <3>2, <3>3 DEF Set
  <2> HIDE DEF g
  <2>6. r = [dirs |-> dirs, files |-> f, specials |-> g, failed |-> FALSE]
    <3>1. r = [[dirs |-> dirs, files |-> f, specials |-> s, failed |-> FALSE] EXCEPT !.specials = g]
      BY <2>1, <2>4, <2>5, Zenon
    <3> QED BY <3>1
  <2>7. /\ r.dirs = dirs /\ PathsOf(new, "file") = PathsOf(seen, "file")
        /\ PathsOf(new, "dir") = PathsOf(seen, "dir")
    BY <1>4, <1>8, <2>6
  <2>8. r.dirs \subseteq DOMAIN tree.dirs /\ <<>> \in r.dirs /\ PathsOf(new, "dir") \subseteq r.dirs
    BY <2>7 DEF Growing, dirs
  <2>9. r = [dirs     |-> r.dirs,
             files    |-> [path \in PathsOf(new, "file") |-> FileOf(path)],
             specials |-> [path \in PathsOf(new, "node") |-> DevOf(path)],
             failed   |-> FALSE]
    BY <2>6, <2>7, Zenon DEF f, g
  <2>10. Growing(r, new)
    BY <2>8, <2>9, Zenon DEF Growing
  <2> QED BY <2>10 DEF r, new
<1> QED BY <1>3, <1>6, <1>7, <1>8

(* The loop over what was found is defined.                                *)
Hosting(found, f, k) ==
  IF k = 0 THEN Empty ELSE Extracting(image, ilist, f[k - 1], found[k])

LEMMA HostOf ==
  ASSUME NEW n \in Nat, Len(walk(image, ilist)) = n
  PROVE  \E host :
           /\ host = [k \in 0 .. n |-> Hosting(walk(image, ilist), host, k)]
           /\ Extract(image, ilist) = host[n]
<1> DEFINE found == walk(image, ilist)
           Step(f, k) == Hosting(found, f, k)
           P == {m \in 0 .. n : \E f : f = [k \in 0 .. m |-> Step(f, k)]}
<1>1. 0 \in P
  <2> DEFINE f == [k \in 0 .. 0 |-> Empty]
  <2>1. f = [k \in 0 .. 0 |-> Step(f, k)]
    BY DEF Hosting
  <2> HIDE DEF f
  <2>2. \E h : h = [k \in 0 .. 0 |-> Step(h, k)]
    BY <2>1, Zenon
  <2> QED BY <2>2
<1>2. ASSUME NEW m \in 0 .. n - 1, m \in P
      PROVE  m + 1 \in P
  <2>1. PICK f : f = [k \in 0 .. m |-> Step(f, k)]
    BY <1>2
  <2> DEFINE g == [k \in 0 .. m + 1 |-> IF k = m + 1 THEN Step(f, m + 1) ELSE f[k]]
  <2>2. ASSUME NEW k \in 0 .. m + 1 PROVE g[k] = Step(g, k)
    <3>1. k # 0 => g[k - 1] = f[k - 1]
      OBVIOUS
    <3>2. g[k] = Step(f, k)
      <4>1. CASE k = m + 1
        BY <4>1
      <4>2. CASE k # m + 1
        <5>1. k \in 0 .. m /\ g[k] = f[k]
          BY <4>2
        <5> HIDE DEF g, Step
        <5> QED BY <2>1, <5>1, Zenon
      <4> QED BY <4>1, <4>2
    <3> HIDE DEF g, found
    <3>3. Step(g, k) = Step(f, k)
      BY <3>1, Zenon DEF Hosting
    <3> QED BY <3>2, <3>3
  <2>3. g = [k \in 0 .. m + 1 |-> Step(g, k)]
    <3> DEFINE h == g
    <3>1. \A k \in 0 .. m + 1 : g[k] = Step(h, k)
      BY <2>2
    <3>2. g = [k \in 0 .. m + 1 |-> g[k]]
      OBVIOUS
    <3> HIDE DEF h, g, Step
    <3>3. g = [k \in 0 .. m + 1 |-> Step(h, k)]
      BY <3>1, <3>2
    <3> QED BY <3>3 DEF h
  <2> HIDE DEF g
  <2>4. \E h : h = [k \in 0 .. m + 1 |-> Step(h, k)]
    BY <2>3, Zenon
  <2> QED BY <2>4
<1>3. n \in P
  <2> HIDE DEF P
  <2>1. 0 .. n \subseteq P
    BY <1>1, <1>2, UpTo
  <2> QED BY <2>1
<1> DEFINE host == CHOOSE f : f = [k \in 0 .. n |-> Step(f, k)]
<1>4. \E f : f = [k \in 0 .. n |-> Step(f, k)]
  BY <1>3
<1>5. host = [k \in 0 .. n |-> Step(host, k)]
  <2> HIDE DEF Step
  <2> QED BY <1>4, Zenon
<1>6. Extract(image, ilist) = host[n]
  BY Zenon DEF Extract, Hosting
<1> HIDE DEF host
<1> QED BY <1>5, <1>6, Zenon

LEMMA AllExtracted ==
  ASSUME Finished, Depth <= WalkDepth
  PROVE  Growing(Extract(image, ilist), AllThings)
<1> DEFINE found == walk(image, ilist)
           n == Len(found)
           Seen(k) == {found[j] : j \in 1 .. k}
<1>1. /\ found \in Seq(Thing) /\ \A x \in Thing : Has(found, x) <=> Named(tree, x.path, x.num)
      /\ n \in Nat
  BY WalkIs, LenProperties
<1>2. PICK host : /\ host = [k \in 0 .. n |-> Hosting(found, host, k)]
                  /\ Extract(image, ilist) = host[n]
  BY <1>1, HostOf
<1>3. Seen(n) = AllThings
  <2>1. ASSUME NEW x \in Seen(n) PROVE x \in AllThings
    <3>1. Has(found, x)
      BY DEF Has
    <3>2. x \in Thing
      <4> HIDE DEF found, Thing
      <4> QED BY <1>1, ElementOfSeq
    <3> HIDE DEF found
    <3> QED BY <1>1, <3>1, <3>2 DEF AllThings
  <2>2. ASSUME NEW x \in AllThings PROVE x \in Seen(n)
    <3>1. x \in Thing /\ Named(tree, x.path, x.num)
      BY DEF AllThings
    <3> HIDE DEF found
    <3>2. Has(found, x)
      BY <1>1, <3>1
    <3> QED BY <3>2 DEF Has
  <2> HIDE DEF Seen
  <2> QED BY <2>1, <2>2
<1> DEFINE P == {k \in 0 .. n : Growing(host[k], Seen(k))}
<1>4. 0 \in P
  <2>1. host[0] = Empty
    BY <1>1, <1>2 DEF Hosting
  <2>2. Seen(0) = {}
    OBVIOUS
  <2>3. \A kind : PathsOf({}, kind) = {}
    BY DEF PathsOf
  <2>4. <<>> \in DOMAIN tree.dirs
    BY TreeFacts DEF TreeInv
  <2>5. Growing(Empty, {})
    <3>1. /\ Empty.dirs = {<<>>}
          /\ Empty = [dirs |-> Empty.dirs, files |-> <<>>, specials |-> <<>>, failed |-> FALSE]
      BY DEF Empty
    <3>2. [path \in PathsOf({}, "file") |-> FileOf(path)] = <<>>
      BY <2>3
    <3>3. [path \in PathsOf({}, "node") |-> DevOf(path)] = <<>>
      BY <2>3
    <3> QED BY <2>3, <2>4, <3>1, <3>2, <3>3 DEF Growing
  <2> DEFINE zero == 0
  <2>6. zero \in 0 .. n /\ host[zero] = Empty /\ Seen(zero) = {}
    BY <1>1, <2>1, <2>2
  <2> HIDE DEF Seen, n, zero
  <2>7. Growing(host[zero], Seen(zero))
    BY <2>5, <2>6
  <2>8. zero \in P
    BY <2>6, <2>7
  <2> QED BY <2>8 DEF zero
<1>5. ASSUME NEW k \in 0 .. n - 1, k \in P PROVE k + 1 \in P
  <2> DEFINE x == found[k + 1]
  <2>1. k + 1 \in 1 .. n /\ k + 1 \in 0 .. n /\ k \in 0 .. n /\ (k + 1) - 1 = k /\ k + 1 # 0
    BY <1>1
  <2>2. x \in AllThings
    <3>1. x \in Seen(n)
      BY <2>1
    <3> QED BY <1>3, <3>1
  <2>3. Seen(k + 1) = Seen(k) \cup {x}
    <3>1. \A j : j \in 1 .. k + 1 <=> j \in 1 .. k \/ j = k + 1
      BY <2>1
    <3> HIDE DEF found
    <3> QED BY <3>1
  <2>4. Seen(k) \subseteq AllThings
    <3>1. Seen(k) \subseteq Seen(n)
      BY <1>1
    <3> HIDE DEF Seen
    <3> QED BY <1>3, <3>1
  <2>5. host[k + 1] = Extracting(image, ilist, host[k], x)
    <3> DEFINE c == k + 1
    <3>1. c \in 0 .. n /\ c # 0 /\ c - 1 = k /\ x = found[c]
      BY <2>1
    <3> HIDE DEF c, x, found, n
    <3>2. host[c] = Hosting(found, host, c)
      BY <1>2, <3>1, Zenon
    <3>3. host[c] = Extracting(image, ilist, host[k], x)
      BY <3>1, <3>2 DEF Hosting
    <3> QED BY <3>3 DEF c
  <2>6. Growing(host[k], Seen(k))
    BY <1>5
  <2> HIDE DEF Seen, x, n, found
  <2>7. Growing(host[k + 1], Seen(k + 1))
    BY <2>2, <2>3, <2>4, <2>5, <2>6, ExtractedOne
  <2> QED BY <2>1, <2>7
<1>6. n \in P
  <2> HIDE DEF P, n
  <2>1. 0 .. n \subseteq P
    BY <1>1, <1>4, <1>5, UpTo
  <2> QED BY <1>1, <2>1
<1> HIDE DEF Seen, n
<1> QED BY <1>2, <1>3, <1>6

(* That is the tree that was put in.                                       *)
LEMMA WhatComesOut ==
  ASSUME Finished, Depth <= WalkDepth
  PROVE  Extract(image, ilist) = Putting
<1> DEFINE h == Extract(image, ilist)
           Of(kind) == {p \in AllNamed : Last(p[1]) \notin {".", ".."} /\ tree.inodes[p[2]].kind = kind}
           Paths2(kind) == {p[1] : p \in Of(kind)}
<1>1. Growing(h, AllThings)
  BY AllExtracted
<1>2. Putting = [dirs     |-> DOMAIN tree.dirs,
                 files    |-> [path \in Paths2("file") |-> FileOf(path)],
                 specials |-> [path \in Paths2("node") |-> DevOf(path)],
                 failed   |-> FALSE]
  BY Zenon DEF Putting, AllNamed, NumOf, FileOf, DevOf
<1>3. ASSUME NEW kind PROVE Paths2(kind) = PathsOf(AllThings, kind)
  <2>1. ASSUME NEW q \in Of(kind) PROVE q[1] \in PathsOf(AllThings, kind)
    <3>1. PICK dir \in DOMAIN tree.dirs : \E i \in DOMAIN tree.entries[dir] :
            q = <<Append(dir, tree.entries[dir][i].name), tree.entries[dir][i].num>>
      BY AllNamedAre
    <3>2. PICK i \in DOMAIN tree.entries[dir] :
            q = <<Append(dir, tree.entries[dir][i].name), tree.entries[dir][i].num>>
      BY <3>1
    <3> DEFINE e == tree.entries[dir][i]
               All == Names \cup {".", ".."}
    <3>3. /\ e.num \in Nums(tree) /\ (e.name \in Names \/ e.name \in {".", ".."})
          /\ dir \in Seq(Names)
      BY EntrySays, TreeFacts
    <3>4. q = <<Append(dir, e.name), e.num>>
      BY <3>2
    <3> HIDE DEF e
    <3>5. q[1] = Append(dir, e.name) /\ q[2] = e.num
      BY <3>4
    <3>6. Last(q[1]) = e.name
      <4>1. dir \in Seq(All)
        BY <3>3, SeqOfMore
      <4>2. e.name \in All
        BY <3>3
      <4> HIDE DEF All
      <4> QED BY <3>5, <4>1, <4>2, AppendParts
    <3>7. e.name \in Names
      BY <3>3, <3>6
    <3>8. q[1] \in Seq(Names)
      BY <3>3, <3>5, <3>7, AppendProperties
    <3> DEFINE x == [path |-> q[1], num |-> e.num]
    <3>9. Named(tree, q[1], e.num)
      BY <3>4, <3>5, <3>8, NumIs
    <3>10. x \in AllThings /\ x.path = q[1] /\ tree.inodes[x.num].kind = kind
      BY <3>3, <3>5, <3>8, <3>9 DEF AllThings, Thing
    <3> HIDE DEF x
    <3> QED BY <3>10 DEF PathsOf
  <2>2. ASSUME NEW x \in AllThings, tree.inodes[x.num].kind = kind PROVE x.path \in Paths2(kind)
    <3> DEFINE q == <<x.path, x.num>>
    <3>1. x.path \in Seq(Names) /\ Named(tree, x.path, x.num)
      BY DEF AllThings, Thing
    <3>2. q \in AllNamed /\ q[1] = x.path /\ q[2] = x.num
      BY <3>1, NumIs
    <3>3. Last(x.path) \notin {".", ".."}
      <4>1. Last(x.path) \in Names
        BY <3>1, FrontAndLast DEF Named
      <4> QED BY <4>1, MkfsAssumption
    <3> HIDE DEF q
    <3>4. q \in Of(kind)
      BY <2>2, <3>2, <3>3
    <3> QED BY <3>2, <3>4
  <2>3. ASSUME NEW p \in PathsOf(AllThings, kind) PROVE p \in Paths2(kind)
    <3>1. PICK x \in AllThings : tree.inodes[x.num].kind = kind /\ p = x.path
      BY DEF PathsOf
    <3> HIDE DEF Paths2, Of
    <3> QED BY <2>2, <3>1
  <2>4. ASSUME NEW p \in Paths2(kind) PROVE p \in PathsOf(AllThings, kind)
    <3>1. PICK q \in Of(kind) : p = q[1]
      OBVIOUS
    <3> HIDE DEF Of
    <3> QED BY <2>1, <3>1
  <2> HIDE DEF Paths2, Of
  <2> QED BY <2>3, <2>4
<1>4. h.dirs = DOMAIN tree.dirs
  <2>1. ASSUME NEW p \in DOMAIN tree.dirs PROVE p \in h.dirs
    <3>1. CASE p = <<>>
      BY <1>1, <3>1 DEF Growing
    <3>2. CASE p # <<>>
      <4> DEFINE x == [path |-> p, num |-> tree.dirs[p]]
      <4>1. Named(tree, p, tree.dirs[p]) /\ p \in Seq(Names) /\ tree.dirs[p] \in Nums(tree)
        BY <3>2, TreeFacts DEF Placed
      <4>2. tree.inodes[tree.dirs[p]].kind = "dir"
        BY <4>1, TreeFacts DEF DirsInv
      <4>3. x \in AllThings /\ x.path = p /\ tree.inodes[x.num].kind = "dir"
        BY <4>1, <4>2 DEF AllThings, Thing
      <4> HIDE DEF x
      <4>4. p \in PathsOf(AllThings, "dir")
        BY <4>3 DEF PathsOf
      <4> QED BY <1>1, <4>4 DEF Growing
    <3> QED BY <3>1, <3>2
  <2> HIDE DEF h
  <2>2. h.dirs \subseteq DOMAIN tree.dirs
    BY <1>1 DEF Growing
  <2> QED BY <2>1, <2>2
<1>5. h = [dirs     |-> h.dirs,
           files    |-> [path \in PathsOf(AllThings, "file") |-> FileOf(path)],
           specials |-> [path \in PathsOf(AllThings, "node") |-> DevOf(path)],
           failed   |-> FALSE]
  BY <1>1, Zenon DEF Growing
<1> HIDE DEF h, Paths2, Of
<1>6. h = Putting
  BY <1>2, <1>3, <1>4, <1>5, Zenon
<1> QED BY <1>6 DEF h

-----------------------------------------------------------------------------
(* The inductive invariant of the names.                                   *)
FormedInv == Placed(tree) /\ Nodes(tree)

LEMMA PathDepth ==
  ASSUME NEW path \in Paths \ {<<>>}
  PROVE  path # <<>> /\ Len(path) <= Depth /\ Len(Front(path)) <= Depth
<1>1. PICK n \in 0 .. Depth : path \in [1 .. n -> Names]
  BY DEF Paths
<1>2. n \in Nat /\ Depth \in Nat /\ n <= Depth
  BY MkfsAssumption
<1>3. path \in Seq(Names) /\ Len(path) = n
  BY <1>1, <1>2
<1>4. Len(Front(path)) = n - 1
  BY <1>3, FrontAndLast
<1> QED BY <1>2, <1>3, <1>4

LEMMA NodesAsGrown ==
  ASSUME NEW t, NEW s, NEW kinds, Nodes(t), Grown(t, s, kinds), "node" \notin kinds
  PROVE  Nodes(s)
<1> SUFFICES ASSUME NEW n \in Nums(s), s.inodes[n].kind = "node"
             PROVE  \E dev \in Devices : s.inodes[n].addr = Device(dev).addr
  BY DEF Nodes
<1>1. n \in Nums(t)
  BY DEF Grown
<1>2. s.inodes[n].kind = t.inodes[n].kind /\ s.inodes[n].addr = t.inodes[n].addr
  BY <1>1 DEF Grown
<1> QED BY <1>1, <1>2 DEF Nodes

LEMMA NodesAsStored ==
  ASSUME NEW t, TreeInv(t), Nodes(t), NEW n \in Nums(t), t.inodes[n].kind # "node",
         NEW text, Len(text) \in Nat, NEW b \in Nat
  PROVE  LET s == [t EXCEPT !.inodes[n] = WithData(@, text, b)] IN
         Nodes(s) /\ s.dirs = t.dirs /\ s.entries = t.entries
<1> DEFINE s == [t EXCEPT !.inodes[n] = WithData(@, text, b)]
           new == WithData(t.inodes[n], text, b)
<1>1. t.inodes[n] \in InodeType /\ DOMAIN t.inodes = Nums(t)
  BY DEF TreeInv
<1>2. OnlyMoved(t.inodes[n], new, b, b + BlocksTaken(DataBlocks(text)))
  BY <1>1, DataInode, Zenon
<1>3. new.kind = t.inodes[n].kind
  BY <1>2 DEF OnlyMoved
<1>4. /\ s.inodes = [t.inodes EXCEPT ![n] = new] /\ s.next_ino = t.next_ino
      /\ s.dirs = t.dirs /\ s.entries = t.entries
  BY DEF TreeInv
<1> HIDE DEF s, new
<1>5. Nums(s) = Nums(t)
  BY <1>4 DEF Nums
<1>6. Nodes(s)
  <2> SUFFICES ASSUME NEW m \in Nums(s), s.inodes[m].kind = "node"
               PROVE  \E dev \in Devices : s.inodes[m].addr = Device(dev).addr
    BY DEF Nodes
  <2>1. m # n /\ s.inodes[m] = t.inodes[m] /\ m \in Nums(t)
    BY <1>1, <1>3, <1>4, <1>5
  <2> QED BY <2>1 DEF Nodes
<1> QED BY <1>4, <1>6 DEF s

(* s is t with one entry more in dir.                                      *)
OneMore(t, s, dir, n, name) ==
  s.dirs = t.dirs /\ s.entries = [t.entries EXCEPT ![dir] = Append(@, Entry(n, name))]

(* What a new inode, an entry and a link change.                           *)
LEMMA NamedWhere ==
  ASSUME NEW t, TreeInv(t), NEW ino, NEW dir, NEW n, NEW name
  PROVE  OneMore(t, WithEntry(WithInode(t, ino), dir, n, name), dir, n, name)
<1> DEFINE a == WithInode(t, ino)
           e == Entry(n, name)
<1>1. DOMAIN t = {"inodes", "dirs", "entries", "next_ino"}
  BY DEF TreeInv
<1>2. a.dirs = t.dirs /\ a.entries = t.entries /\ DOMAIN a = DOMAIN t
  BY <1>1 DEF WithInode
<1> HIDE DEF a, e
<1>3. WithEntry(a, dir, n, name) = [a EXCEPT !.entries[dir] = Append(@, e)]
  BY DEF WithEntry, e
<1>4. [a EXCEPT !.entries[dir] = Append(@, e)].dirs = t.dirs
  BY <1>1, <1>2
<1>5. [a EXCEPT !.entries[dir] = Append(@, e)].entries = [t.entries EXCEPT ![dir] = Append(@, e)]
  BY <1>1, <1>2
<1> QED BY <1>3, <1>4, <1>5 DEF a, e, OneMore

LEMMA LinkedWhere ==
  ASSUME NEW t, TreeInv(t), NEW dir, NEW n, NEW name
  PROVE  OneMore(t, WithLink(WithEntry(t, dir, n, name), n), dir, n, name)
<1> DEFINE e == Entry(n, name)
           a == WithEntry(t, dir, n, name)
<1>1. DOMAIN t = {"inodes", "dirs", "entries", "next_ino"}
  BY DEF TreeInv
<1> HIDE DEF e
<1>2. a = [t EXCEPT !.entries[dir] = Append(@, e)]
  BY DEF WithEntry, e
<1>3. a.dirs = t.dirs /\ a.entries = [t.entries EXCEPT ![dir] = Append(@, e)] /\ DOMAIN a = DOMAIN t
  BY <1>1, <1>2
<1> HIDE DEF a
<1>4. WithLink(a, n).dirs = a.dirs /\ WithLink(a, n).entries = a.entries
  BY <1>1, <1>3 DEF WithLink
<1> QED BY <1>3, <1>4 DEF a, e, OneMore

LEMMA FormedBecomes ==
  ASSUME FormedInv, NEW t, Becomes(t), Placed(t), Nodes(t)
  PROVE  FormedInv'
<1>1. tree' = t \/ tree' = tree
  BY DEF Becomes, Exit
<1> QED BY <1>1 DEF FormedInv, Placed, Nodes, Named, Nums

LEMMA FormedStart == Init => FormedInv
<1> SUFFICES ASSUME Init PROVE FormedInv
  OBVIOUS
<1>1. /\ tree.dirs = [path \in {<<>>} |-> ROOTINO] /\ tree.next_ino = ROOTINO + 1
      /\ tree.inodes = [n \in {ROOTINO} |-> Inode("dir", 2)]
  BY DEF Init
<1>2. Nums(tree) = {ROOTINO}
  BY <1>1 DEF Nums, ROOTINO
<1>3. tree.inodes[ROOTINO].kind = "dir"
  BY <1>1 DEF Inode
<1>4. Nodes(tree)
  BY <1>2, <1>3 DEF Nodes
<1>5. Placed(tree)
  <2>1. DOMAIN tree.dirs = {<<>>} /\ tree.dirs[<<>>] = ROOTINO
    BY <1>1
  <2>2. <<>> \in Seq(Names) /\ Len(<<>>) = 0 /\ Depth \in Nat
    BY EmptySeq, MkfsAssumption
  <2>3. Len(<<>>) <= Depth
    BY <2>2
  <2> QED BY <2>1, <2>2, <2>3 DEF Placed
<1> QED BY <1>4, <1>5 DEF FormedInv

LEMMA FormedKept == MkInv /\ StoreInv /\ FormedInv /\ [Next]_mvars => FormedInv'
<1> SUFFICES ASSUME MkInv, StoreInv, FormedInv, [Next]_mvars PROVE FormedInv'
  OBVIOUS
<1>0. /\ TreeInv(tree) /\ Counted(tree) /\ DirsInv(tree) /\ Placed(tree) /\ Nodes(tree)
      /\ next_block \in Nat /\ DOMAIN tree.entries = DOMAIN tree.dirs
  BY Sizes DEF MkInv, Sound, StoreInv, FormedInv, TreeInv
<1>1. ASSUME NEW path \in Paths \ {<<>>}, VisitDir(path) \/ SpecDir(path) PROVE FormedInv'
  <2>1. Becomes(getdir(tree, path))
    BY <1>1 DEF VisitDir, SpecDir
  <2> DEFINE t == getdir(tree, path)
  <2>2. Grown(tree, t, {"dir"}) /\ Placed(t)
    BY <1>0, PathTyped, PathDepth, GetDir
  <2> HIDE DEF t
  <2>3. Nodes(t)
    BY <1>0, <2>2, NodesAsGrown
  <2> QED BY <2>1, <2>2, <2>3, FormedBecomes DEF t
<1>2. ASSUME NEW dir \in Paths, NEW name \in Names, NEW file \in Files, VisitFile(dir, name, file)
      PROVE  FormedInv'
  <2> DEFINE ino == [Inode("file", 1) EXCEPT !.exec = file.exec]
             n == tree.next_ino
             t == WithEntry(WithInode(tree, ino), dir, n, name)
  <2>1. dir \in DOMAIN tree.dirs /\ (StoreData(t, n, file.text) \/ tree' = tree)
    BY <1>2 DEF VisitFile, Exit
  <2>2. CASE tree' = tree
    BY <2>2 DEF FormedInv, Placed, Nodes, Named, Nums
  <2>3. CASE StoreData(t, n, file.text)
    <3>1. Len(file.text) \in Nat /\ file.exec \in BOOLEAN
      <4>1. file.text \in Seq(Word) /\ file.exec \in BOOLEAN
        BY MkfsAssumption
      <4> HIDE DEF Word
      <4> QED BY <4>1, LenProperties
    <3>2. /\ ino \in InodeType /\ ino.nlink = 1 /\ ino.kind = "file"
          /\ \A i \in 1 .. NADDR : ino.addr[i] = 0
      <4>1. Inode("file", 1) \in InodeType
        BY DEF Inode, InodeType
      <4>2. /\ Inode("file", 1).nlink = 1 /\ Inode("file", 1).kind = "file"
            /\ \A i \in 1 .. NADDR : Inode("file", 1).addr[i] = 0
        BY DEF Inode
      <4> QED BY <3>1, <4>1, <4>2 DEF InodeType
    <3> HIDE DEF ino
    <3>3. TreeInv(t) /\ t.inodes[n] = ino /\ t.next_ino = n + 1
      BY <1>0, <2>1, <3>2, NewNamed
    <3>4. Grown(tree, t, {"file"})
      BY <1>0, <3>2, GrownByInode
    <3>5. OneMore(tree, t, dir, n, name)
      BY <1>0, NamedWhere, Zenon
    <3>6. n \in Nums(t) /\ t.inodes[n].kind # "node"
      BY <1>0, <3>2, <3>3 DEF Nums, TreeInv, ROOTINO
    <3> HIDE DEF t, n
    <3>7. Placed(t) /\ Nodes(t)
      <4>1. Placed(t)
        BY <1>0, <2>1, <3>5, PlacedByEntry DEF OneMore
      <4> QED BY <1>0, <3>4, <4>1, NodesAsGrown
    <3> DEFINE text == file.text
               s == [t EXCEPT !.inodes[n] = WithData(@, text, next_block)]
    <3>8. tree' = s
      BY <2>3 DEF StoreData
    <3>9. Len(text) \in Nat
      BY <3>1
    <3> HIDE DEF text
    <3>10. Nodes(s) /\ s.dirs = t.dirs /\ s.entries = t.entries
      BY <1>0, <3>3, <3>6, <3>7, <3>9, NodesAsStored
    <3> HIDE DEF s
    <3>11. Placed(s)
      BY <3>7, <3>10 DEF Placed, Named
    <3> QED BY <3>8, <3>10, <3>11 DEF FormedInv
  <2> QED BY <2>1, <2>2, <2>3
<1>3. ASSUME NEW path \in Paths \ {<<>>}, NEW dev \in Devices, SpecNode(path, dev) PROVE FormedInv'
  <2> DEFINE up == Front(path)
             t == getdir(tree, up)
             n == t.next_ino
             ino == Device(dev)
             s == WithEntry(WithInode(t, ino), up, n, Last(path))
  <2>1. Becomes(s)
    BY <1>3 DEF SpecNode
  <2>2. up \in Seq(Names) /\ Len(up) <= Depth
    BY PathTyped, PathDepth
  <2>3. ino.kind = "node"
    BY DEF Device, Inode
  <2>4. TreeInv(t) /\ Grown(tree, t, {"dir"}) /\ Placed(t) /\ up \in DOMAIN t.dirs
    BY <1>0, <2>2, GetDir
  <2> HIDE DEF t, up
  <2>5. Nodes(t)
    BY <1>0, <2>4, NodesAsGrown
  <2>6. OneMore(t, s, up, n, Last(path))
    BY <2>4, NamedWhere, Zenon
  <2>7. /\ s.inodes[n] = ino /\ \A m \in Nums(t) : s.inodes[m] = t.inodes[m]
        /\ Nums(s) = Nums(t) \cup {n}
    <3> DEFINE a == WithInode(t, ino)
    <3>1. /\ DOMAIN t = {"inodes", "dirs", "entries", "next_ino"} /\ n \in Nat /\ ROOTINO < n
          /\ DOMAIN t.inodes = Nums(t) /\ n \notin Nums(t)
      BY <2>4 DEF TreeInv, Nums, ROOTINO
    <3> HIDE DEF ino, n
    <3>2. a.inodes = Set(t.inodes, n, ino) /\ a.next_ino = n + 1 /\ DOMAIN a = DOMAIN t
      BY <3>1 DEF WithInode, n
    <3> HIDE DEF a
    <3> DEFINE e == Entry(n, Last(path))
               r == [a EXCEPT !.entries[up] = Append(@, e)]
    <3>3. s = r
      BY DEF WithEntry, a
    <3> HIDE DEF s, e
    <3>4. r.inodes = a.inodes /\ r.next_ino = a.next_ino
      BY <3>1, <3>2
    <3> HIDE DEF r
    <3>5. s.inodes = a.inodes /\ s.next_ino = a.next_ino
      BY <3>3, <3>4
    <3>6. /\ s.inodes[n] = ino /\ \A m \in Nums(t) : s.inodes[m] = t.inodes[m]
      BY <3>1, <3>2, <3>5 DEF Set
    <3>7. Nums(s) = Nums(t) \cup {n}
      BY <3>1, <3>2, <3>5 DEF Nums, ROOTINO, n
    <3> QED BY <3>6, <3>7
  <2> HIDE DEF s, n
  <2>8. Placed(s)
    BY <2>4, <2>6, PlacedByEntry DEF OneMore
  <2>9. Nodes(s)
    <3>1. \A m \in Nums(s) : m \in Nums(t) \/ s.inodes[m].addr = Device(dev).addr
      BY <2>7
    <3> QED BY <2>5, <2>7, <3>1 DEF Nodes
  <2> QED BY <2>1, <2>8, <2>9, FormedBecomes
<1>4. ASSUME NEW path \in Paths \ {<<>>}, NEW target \in Paths \ {<<>>}, SpecLink(path, target)
      PROVE  FormedInv'
  <2> DEFINE up == Front(path)
             t == getdir(tree, up)
             dir == Front(target)
             found == Found(t, dir, Last(target))
             n == t.entries[dir][Max(found)].num
             s == WithLink(WithEntry(t, up, n, Last(path)), n)
  <2>1. (found # {} /\ Becomes(s)) \/ Exit
    BY <1>4 DEF SpecLink, Found
  <2>2. CASE Exit
    BY <2>2 DEF Exit, FormedInv, Placed, Nodes, Named, Nums
  <2>3. CASE found # {} /\ Becomes(s)
    <3>1. up \in Seq(Names) /\ Len(up) <= Depth
      BY PathTyped, PathDepth
    <3>2. TreeInv(t) /\ Grown(tree, t, {"dir"}) /\ Placed(t) /\ up \in DOMAIN t.dirs
      BY <1>0, <3>1, GetDir
    <3> HIDE DEF t, up
    <3>3. n \in Nums(t)
      BY <2>3, <3>2, FoundThere
    <3> HIDE DEF n
    <3>4. Grown(t, s, {"dir"})
      BY <3>2, <3>3, GrownByName
    <3>5. OneMore(t, s, up, n, Last(path))
      BY <3>2, LinkedWhere, Zenon
    <3> HIDE DEF s
    <3>6. Placed(s)
      BY <3>2, <3>5, PlacedByEntry DEF OneMore
    <3>7. Grown(tree, s, {"dir"})
      BY <3>2, <3>4, GrownOn
    <3>8. Nodes(s)
      BY <1>0, <3>7, NodesAsGrown
    <3> QED BY <2>3, <3>6, <3>8, FormedBecomes
  <2> QED BY <2>1, <2>2, <2>3
<1>5. CASE StoreDir
  <2>1. PICK path \in DOMAIN tree.dirs :
          StoreData(tree, tree.dirs[path], tree.entries[path]) \/ tree' = tree
    BY <1>5 DEF StoreDir, Exit
  <2>2. CASE tree' = tree
    BY <2>2 DEF FormedInv, Placed, Nodes, Named, Nums
  <2>3. CASE StoreData(tree, tree.dirs[path], tree.entries[path])
    <3> DEFINE n == tree.dirs[path]
               text == tree.entries[path]
               s == [tree EXCEPT !.inodes[n] = WithData(@, text, next_block)]
    <3>1. tree' = s
      BY <2>3 DEF StoreData
    <3>2. n \in Nums(tree) /\ tree.inodes[n].kind # "node"
      BY <1>0 DEF TreeInv, DirsInv
    <3>3. Len(text) \in Nat
      BY <1>0, LenProperties DEF TreeInv
    <3> HIDE DEF n, text
    <3>4. Nodes(s) /\ s.dirs = tree.dirs /\ s.entries = tree.entries
      BY <1>0, <3>2, <3>3, NodesAsStored
    <3> HIDE DEF s
    <3>5. Placed(s)
      BY <1>0, <3>4 DEF Placed, Named
    <3> QED BY <3>1, <3>4, <3>5 DEF FormedInv
  <2> QED BY <2>1, <2>2, <2>3
<1>6. CASE \/ WalkEnds \/ SpecEnds \/ write_inodes \/ build_free_list \/ write_superblock
           \/ UNCHANGED mvars
  <2>1. tree' = tree
    BY <1>6 DEF WalkEnds, SpecEnds, write_inodes, build_free_list, write_superblock, mvars
  <2> QED BY <2>1 DEF FormedInv, Placed, Nodes, Named, Nums
<1> QED BY <1>1, <1>2, <1>3, <1>4, <1>5, <1>6 DEF Next

(* Every directory stands under its name where it belongs, and special     *)
(* files stay what the spec said.                                          *)
THEOREM FormedInvariance == Spec => []FormedInv
<1>1. Init => FormedInv
  BY FormedStart
<1>2. MkInv /\ StoreInv /\ FormedInv /\ [Next]_mvars => FormedInv'
  BY FormedKept
<1> QED BY <1>1, <1>2, MkInvariance, StoreInvariance, PTL DEF Spec

(* s5extract.py makes of the finished image the tree that was put in: every*)
(* directory, every file with its contents and its x bit, every special    *)
(* file with its device number, whatever the order, the links and the      *)
(* sizes, if nothing in it is deeper than walk() goes.                     *)
THEOREM TheTreeComesBack ==
  ASSUME Depth <= WalkDepth
  PROVE  Spec => []Extracted
<1>1. MkInv /\ StoreInv /\ FormedInv /\ RoundTrip => Extracted
  <2> SUFFICES ASSUME MkInv, StoreInv, FormedInv, RoundTrip, stage = "done", Plain
               PROVE  Extract(image, ilist) = Putting
    BY DEF Extracted
  <2>1. Finished
    BY DEF Finished, FormedInv
  <2> QED BY <2>1, WhatComesOut
<1> QED BY <1>1, MkInvariance, StoreInvariance, FormedInvariance, WhatWasPutInComesOut, PTL
=============================================================================
