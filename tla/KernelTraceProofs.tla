------------------------- MODULE KernelTraceProofs -------------------------
(***************************************************************************)
(* The trace leaves nothing out but the next few instructions, for every   *)
(* log.  The invariant is PathKept for the lines that have been read; the  *)
(* last line kept is the one a new fetch is compared with.                 *)
(*                                                                         *)
(* And for every symbol table the list of symbols is that of the kernel,   *)
(* each once, in order (SymInv), so that an address gets the name of the   *)
(* nearest below it.                                                       *)
(***************************************************************************)
EXTENDS KernelTrace, SequenceTheorems, FunctionTheorems, FiniteSetTheorems, TLAPS

Read == next - 1     \* so many lines have been looked at

KeptInOrder ==
  \A j \in 1 .. Len(ins) : /\ ins[j] \in 1 .. Read /\ Fetch(ins[j])
                           /\ \A k \in 1 .. j - 1 : ins[k] < ins[j]

NothingLost ==
  \A l \in 1 .. Read : Fetch(l) =>
    \E j \in 1 .. Len(ins) :
      /\ ins[j] <= l /\ Follows(l, ins[j])
      /\ j < Len(ins) => l < ins[j + 1]

(* Of the first n lines idx is the abort that was asked for, 0 for none.   *)
AbortAmong(n) ==
  /\ idx \in 0 .. Len(log)
  /\ idx # 0 => Abort(idx)
  /\ \A l \in 1 .. Len(log) :
       l <= n /\ Abort(l) => idx # 0 /\ IF first THEN idx <= l ELSE l <= idx

TInv ==
  /\ ins \in Seq(Nat) /\ idx \in Nat
  /\ log \in Seq(Line)
  /\ stage # "table" => next \in Nat \ {0}
  /\ stage \in {"table", "log"} => ins = <<>>
  /\ stage = "table" => idx = 0
  /\ stage = "log" => AbortAmong(Read) /\ (first => idx = 0 \/ Len(log) < next)
  /\ stage \in {"fetches", "named"} =>
       /\ AbortAmong(Len(log)) /\ idx # 0 /\ next <= idx
       /\ KeptInOrder /\ NothingLost
  /\ stage = "named" => next = idx

LEMMA FetchKept ==
  ASSUME TInv, ReadFetch
  PROVE  TInv'
<1>1. /\ ins \in Seq(Nat) /\ next \in Nat \ {0} /\ idx \in 1 .. Len(log) /\ next < idx
      /\ log \in Seq(Line) /\ KeptInOrder /\ NothingLost
      /\ next' = next + 1 /\ UNCHANGED <<stage, log, idx, first>> /\ stage = "fetches"
  BY DEF TInv, ReadFetch, AbortAmong
<1>0. AbortAmong(Len(log))'
  BY <1>1 DEF TInv, AbortAmong, Abort
<1>2. Read = next - 1 /\ Read' = next
  BY <1>1 DEF Read
<1>3. \A l : Fetch(l)' <=> Fetch(l)
  BY <1>1 DEF Fetch
<1>4. \A l, m : Follows(l, m)' <=> Follows(l, m)
  BY <1>1 DEF Follows
<1>5. CASE Fetch(next) /\ ~Near(next)
  <2>1. ins' = Append(ins, next)
    BY <1>5 DEF ReadFetch
  <2>2. /\ ins' \in Seq(Nat) /\ Len(ins') = Len(ins) + 1 /\ ins'[Len(ins')] = next
        /\ \A j \in 1 .. Len(ins) : ins'[j] = ins[j]
    BY <1>1, <2>1
  <2>3. KeptInOrder'
    <3> SUFFICES ASSUME NEW j \in 1 .. Len(ins')
                 PROVE  /\ ins'[j] \in 1 .. next /\ Fetch(ins'[j])
                        /\ \A k \in 1 .. j - 1 : ins'[k] < ins'[j]
      BY <1>2, <1>3 DEF KeptInOrder
    <3>1. \A k \in 1 .. Len(ins) : ins'[k] \in 1 .. Read /\ Fetch(ins'[k])
      BY <1>1, <2>2 DEF KeptInOrder
    <3>2. CASE j = Len(ins')
      BY <3>1, <3>2, <1>1, <1>2, <1>5, <2>2
    <3>3. CASE j # Len(ins')
      <4>1. j \in 1 .. Len(ins) /\ ins'[j] = ins[j]
        BY <3>3, <1>1, <2>2
      <4>2. \A k \in 1 .. j - 1 : ins'[k] = ins[k] /\ ins[k] < ins[j]
        BY <4>1, <1>1, <2>2 DEF KeptInOrder
      <4> QED BY <3>1, <4>1, <4>2, <1>1, <1>2
    <3> QED BY <3>2, <3>3
  <2>4. ASSUME NEW l \in 1 .. next, Fetch(l)
        PROVE  \E j \in 1 .. Len(ins') :
                 /\ ins'[j] <= l /\ Follows(l, ins'[j])
                 /\ j < Len(ins') => l < ins'[j + 1]
    <3>1. CASE l = next
      <4>1. Follows(next, next)
        <5>1. log[next] \in Line
          BY <1>1, ElementOfSeq
        <5>2. log[next].address \in Nat
          BY <5>1 DEF Line
        <5> QED BY <5>2 DEF Follows
      <4> QED BY <3>1, <4>1, <2>2, <1>1
    <3>2. CASE l # next
      <4>1. l \in 1 .. Read
        BY <3>2, <1>1, <1>2
      <4>2. PICK j \in 1 .. Len(ins) : /\ ins[j] <= l /\ Follows(l, ins[j])
                                       /\ j < Len(ins) => l < ins[j + 1]
        BY <4>1, <2>4, <1>1 DEF NothingLost
      <4>3. j \in 1 .. Len(ins') /\ ins'[j] = ins[j]
        BY <2>2, <1>1
      <4>4. ASSUME j < Len(ins') PROVE l < ins'[j + 1]
        <5>1. CASE j = Len(ins)
          BY <5>1, <2>2, <4>1, <1>2, <1>1
        <5>2. CASE j # Len(ins)
          <6>1. j < Len(ins) /\ j + 1 \in 1 .. Len(ins)
            BY <5>2, <1>1
          <6> QED BY <6>1, <4>2, <2>2
        <5> QED BY <5>1, <5>2
      <4> QED BY <4>2, <4>3, <4>4
    <3> QED BY <3>1, <3>2
  <2>5. NothingLost'
    BY <2>4, <1>2, <1>3, <1>4 DEF NothingLost
  <2> QED BY <1>0, <1>1, <2>2, <2>3, <2>5 DEF TInv
<1>6. CASE ~(Fetch(next) /\ ~Near(next))
  <2>1. ins' = ins
    BY <1>6 DEF ReadFetch
  <2>2. KeptInOrder'
    BY <1>1, <1>2, <1>3, <2>1 DEF KeptInOrder
  <2>3. ASSUME NEW l \in 1 .. next, Fetch(l)
        PROVE  \E j \in 1 .. Len(ins) :
                 /\ ins[j] <= l /\ Follows(l, ins[j])
                 /\ j < Len(ins) => l < ins[j + 1]
    <3>1. CASE l = next
      <4>1. ins # <<>> /\ Follows(next, ins[Len(ins)])
        BY <1>6, <2>3, <3>1 DEF Near
      <4>2. Len(ins) \in 1 .. Len(ins) /\ Len(ins) \in Nat
        BY <4>1, <1>1, EmptySeq
      <4>3. ins[Len(ins)] \in 1 .. Read
        BY <4>2, <1>1 DEF KeptInOrder
      <4> QED BY <4>1, <4>2, <4>3, <3>1, <1>1, <1>2
    <3>2. CASE l # next
      <4>1. l \in 1 .. Read
        BY <3>2, <1>1, <1>2
      <4> QED BY <4>1, <2>3, <1>1 DEF NothingLost
    <3> QED BY <3>1, <3>2
  <2>4. NothingLost'
    BY <2>1, <2>3, <1>2, <1>3, <1>4 DEF NothingLost
  <2> QED BY <1>0, <1>1, <2>1, <2>2, <2>4 DEF TInv
<1> QED BY <1>5, <1>6

LEMMA Step ==
  ASSUME TInv, [Next]_vars
  PROVE  TInv'
<1>1. CASE UNCHANGED vars
  BY <1>1 DEF TInv, vars, KeptInOrder, NothingLost, Fetch, Follows, Read, AbortAmong, Abort
<1>2. CASE ReadEntry
  BY <1>2 DEF TInv, ReadEntry
<1>3. CASE SortTable
  BY <1>3 DEF TInv, SortTable, AbortAmong, Read
<1>4. CASE FindAbort
  <2>1. /\ next \in 1 .. Len(log) /\ log \in Seq(Line) /\ AbortAmong(Read)
        /\ (first => idx = 0) /\ ins = <<>>
        /\ stage' = "log" /\ UNCHANGED <<log, first, ins>>
        /\ idx' = (IF Abort(next) THEN next ELSE idx)
        /\ next' = (IF Abort(next) /\ first THEN Len(log) + 1 ELSE next + 1)
    BY <1>4 DEF TInv, FindAbort
  <2>2. \A l : Abort(l)' <=> Abort(l)
    BY <2>1 DEF Abort
  <2>3. AbortAmong(Read)'
    BY <2>1, <2>2 DEF AbortAmong, Read
  <2>4. first' => idx' = 0 \/ Len(log') < next'
    BY <2>1
  <2>5. next' \in Nat \ {0} /\ idx' \in Nat
    BY <2>1 DEF AbortAmong
  <2> QED BY <2>1, <2>3, <2>4, <2>5 DEF TInv, AbortAmong, Read
<1>5. CASE AbortKnown
  <2>1. /\ AbortAmong(Read) /\ Len(log) < next /\ next \in Nat
        /\ ins = <<>> /\ log \in Seq(Line)
        /\ UNCHANGED <<log, first, ins, idx>> /\ next' = 1
        /\ stage' = (IF idx = 0 THEN "exit" ELSE "fetches")
    BY <1>5 DEF TInv, AbortKnown, Read
  <2>2. \A l \in 1 .. Len(log) : l <= Read
    BY <2>1 DEF Read
  <2>3. AbortAmong(Len(log))'
    BY <2>1, <2>2 DEF AbortAmong, Abort
  <2>4. KeptInOrder' /\ NothingLost'
    BY <2>1 DEF KeptInOrder, NothingLost, Read
  <2> QED BY <2>1, <2>3, <2>4 DEF TInv, AbortAmong
<1>6. CASE ReadFetch
  BY <1>6, FetchKept
<1>7. CASE NameThem
  BY <1>7 DEF TInv, NameThem, KeptInOrder, NothingLost, Fetch, Follows, Read, AbortAmong,
              Abort
<1> QED BY <1>1, <1>2, <1>3, <1>4, <1>5, <1>6, <1>7 DEF Next

(* Whatever the log, every instruction the kernel fetched before the abort *)
(* is in the trace or at most eight bytes past the last one in it          *)
(* (trace.py:64).                                                          *)
THEOREM TraceKeepsThePath == Spec => []PathKept
<1>1. Init => TInv
  BY TraceAssumption DEF Init, TInv
<1>2. TInv => PathKept
  BY DEF TInv, PathKept, KeptInOrder, NothingLost, Read, AbortAmong
<1> QED BY <1>1, <1>2, Step, PTL DEF Spec

-----------------------------------------------------------------------------
(* nm32.py: the table in order. *)
Sym == [value : Nat, name : Nat \ {0}, scnum : Int]

LEMMA PrecedesOrders ==
  ASSUME NEW s \in Sym, NEW t \in Sym, NEW u \in Sym
  PROVE  /\ Precedes(s, t) => ~Precedes(t, s) /\ s # t
         /\ Precedes(s, t) /\ Precedes(t, u) => Precedes(s, u)
         /\ Precedes(s, t) \/ Precedes(t, s) \/ s = t
<1>1. /\ s.value \in Nat /\ s.name \in Nat /\ s.scnum \in Int
      /\ t.value \in Nat /\ t.name \in Nat /\ t.scnum \in Int
      /\ u.value \in Nat /\ u.name \in Nat /\ u.scnum \in Int
  BY DEF Sym
<1>2. s.value = t.value /\ s.name = t.name /\ s.scnum = t.scnum => s = t
  BY DEF Sym
<1> QED BY <1>1, <1>2 DEF Precedes

(* A symbol is put in the place that is the number of those ahead of it,   *)
(* itself among them: that sorts them.                                     *)
LEMMA SomeOrderSorts ==
  ASSUME NEW found \in Seq(Sym)
  PROVE  \E o \in Bijection(1 .. Len(found), 1 .. Len(found)) : Puts(o, found)
<1> DEFINE n == Len(found)
           places == 1 .. n
           Ahead(i, j) == \/ Precedes(found[i], found[j])
                          \/ found[i] = found[j] /\ i <= j
           Group(j) == {i \in places : Ahead(i, j)}
           rank == [j \in places |-> Cardinality(Group(j))]
           o == [i \in places |-> CHOOSE j \in places : rank[j] = i]
<1>0. n \in Nat /\ \A i \in places : found[i] \in Sym
  <2>1. n \in Nat
    BY LenProperties
  <2>2. \A i \in 1 .. Len(found) : found[i] \in Sym
    BY ElementOfSeq
  <2> QED BY <2>1, <2>2
<1>1. IsFiniteSet(places) /\ Cardinality(places) = n
  <2>1. Cardinality(1 .. n) = IF 1 > n THEN 0 ELSE n - 1 + 1
    BY <1>0, FS_Interval
  <2>2. IsFiniteSet(1 .. n)
    BY <1>0, FS_Interval
  <2> HIDE DEF n
  <2> QED BY <1>0, <2>1, <2>2
<1>2. \A i, j, k \in places : /\ Ahead(i, i)
                              /\ Ahead(i, j) /\ Ahead(j, k) => Ahead(i, k)
                              /\ Ahead(i, j) \/ Ahead(j, i)
                              /\ Ahead(i, j) /\ Ahead(j, i) => i = j
  BY <1>0, PrecedesOrders
<1> HIDE DEF Ahead
<1>3. ASSUME NEW j \in places
      PROVE  IsFiniteSet(Group(j)) /\ Cardinality(Group(j)) \in 1 .. n
  <2>1. Group(j) \in SUBSET places /\ j \in Group(j)
    BY <1>2
  <2>2. IsFiniteSet(Group(j)) /\ Cardinality(Group(j)) <= n
    BY <2>1, <1>1, FS_Subset
  <2>3. Cardinality(Group(j)) \in Nat /\ Cardinality(Group(j)) # 0
    BY <2>1, <2>2, FS_EmptySet, FS_CardinalityType
  <2> QED BY <1>0, <2>2, <2>3
<1> HIDE DEF Group
<1>4. ASSUME NEW i \in places, NEW j \in places, i # j, Ahead(i, j)
      PROVE  rank[i] < rank[j]
  <2>1. Group(i) \in SUBSET Group(j) /\ j \in Group(j) /\ j \notin Group(i)
    BY <1>2, <1>4 DEF Group
  <2>2. Cardinality(Group(i)) <= Cardinality(Group(j)) /\ Cardinality(Group(i)) # Cardinality(Group(j))
    BY <2>1, <1>3, FS_Subset
  <2>3. Cardinality(Group(i)) \in Nat /\ Cardinality(Group(j)) \in Nat
    BY <1>0, <1>3
  <2> QED BY <2>2, <2>3
<1>5. rank \in [places -> places]
  BY <1>3
<1>6. \A i, j \in places : rank[i] = rank[j] => i = j
  <2> HIDE DEF rank
  <2> SUFFICES ASSUME NEW i \in places, NEW j \in places, i # j, rank[i] = rank[j]
               PROVE  FALSE
    OBVIOUS
  <2>1. rank[i] < rank[j] \/ rank[j] < rank[i]
    BY <1>2, <1>4
  <2> QED BY <2>1, <1>5
<1> HIDE DEF rank
<1>7. rank \in Injection(places, places)
  BY <1>5, <1>6, Fun_IsInj
<1>8. rank \in Surjection(places, places)
  BY <1>7, <1>1, FS_Injection
<1>9. \A i \in places : o[i] \in places /\ rank[o[i]] = i
  <2>1. \A i \in places : \E j \in places : rank[j] = i
    BY <1>8, Fun_SurjectionProperties
  <2> QED BY <2>1
<1> HIDE DEF o
<1>10. o \in Bijection(places, places)
  <2>1. o \in [places -> places]
    BY <1>9 DEF o
  <2>2. \A i, j \in places : o[i] = o[j] => i = j
    BY <1>9
  <2>3. \A j \in places : \E i \in places : o[i] = j
    BY <1>9, <1>5, <1>6
  <2> QED BY <2>1, <2>2, <2>3, Fun_IsBij
<1>11. Puts(o, found)
  <2> SUFFICES ASSUME NEW i \in places, NEW j \in places, i < j,
                      Precedes(found[o[j]], found[o[i]])
               PROVE  FALSE
    BY DEF Puts
  <2>1. Ahead(o[j], o[i]) /\ o[j] # o[i]
    BY <1>9, <1>0 DEF Ahead
  <2>2. j < i
    BY <2>1, <1>4, <1>9
  <2> QED BY <2>2, <1>0
<1> QED BY <1>10, <1>11

LEMMA SortRearranges ==
  ASSUME NEW found \in Seq(Sym)
  PROVE  \E o \in Bijection(1 .. Len(found), 1 .. Len(found)) :
           /\ Puts(o, found)
           /\ Sorted(found) = [i \in 1 .. Len(found) |-> found[o[i]]]
<1> DEFINE places == 1 .. Len(found)
           o == CHOOSE x \in Bijection(places, places) : Puts(x, found)
<1>1. o \in Bijection(places, places) /\ Puts(o, found)
  BY SomeOrderSorts
<1>2. Sorted(found) = [i \in places |-> found[o[i]]]
  BY DEF Sorted
<1> HIDE DEF o
<1> QED BY <1>1, <1>2

Ascending(found) ==
  \A i, j \in 1 .. Len(found) : i < j => found[i].value <= found[j].value

LEMMA SortAscends ==
  ASSUME NEW found \in Seq(Sym)
  PROVE  /\ Sorted(found) \in Seq(Sym) /\ Len(Sorted(found)) = Len(found)
         /\ Ascending(Sorted(found))
<1> DEFINE places == 1 .. Len(found)
           s == Sorted(found)
<1>1. PICK o \in Bijection(places, places) :
             Puts(o, found) /\ s = [i \in places |-> found[o[i]]]
  BY SortRearranges
<1>2. o \in [places -> places] /\ Len(found) \in Nat
  BY <1>1, Fun_BijectionProperties, LenProperties
<1>3. \A i \in places : s[i] = found[o[i]] /\ s[i] \in Sym
  BY <1>1, <1>2, ElementOfSeq
<1>4. s \in Seq(Sym) /\ Len(s) = Len(found)
  BY <1>1, <1>2, <1>3
<1> HIDE DEF s
<1>5. ASSUME NEW i \in places, NEW j \in places, i < j
      PROVE  s[i].value <= s[j].value
  <2>1. ~Precedes(s[j], s[i])
    BY <1>1, <1>3, <1>5 DEF Puts
  <2>2. s[i].value \in Nat /\ s[j].value \in Nat
    BY <1>3 DEF Sym
  <2> QED BY <2>1, <2>2 DEF Precedes
<1>6. Ascending(s)
  BY <1>4, <1>5 DEF Ascending
<1> QED BY <1>4, <1>6 DEF s

(* The symbols passed are the first of the table, up to the last of them.  *)
LEMMA LastPassed ==
  ASSUME NEW address \in Nat, syms \in Seq(Sym), Passed(address) # {}
  PROVE  \E k \in Passed(address) : \A i \in Passed(address) : i <= k
<1> DEFINE P == Passed(address)
           k == Cardinality(P)
<1>0. Len(syms) \in Nat
  BY LenProperties
<1>1. P \in SUBSET (1 .. Len(syms)) /\ IsFiniteSet(P) /\ k \in Nat
  <2>1. P \in SUBSET (1 .. Len(syms))
    BY DEF Passed
  <2>2. IsFiniteSet(1 .. Len(syms))
    BY <1>0, FS_Interval
  <2> QED BY <2>1, <2>2, FS_Subset, FS_CardinalityType
<1>2. \A i \in P : 1 .. i \in SUBSET P
  BY <1>0 DEF Passed
<1>3. ASSUME NEW i \in P PROVE i <= k
  <2>1. Cardinality(1 .. i) = i
    BY <1>0, <1>1, FS_Interval
  <2> QED BY <2>1, <1>1, <1>2, FS_Subset
<1>4. k \in P
  <2> SUFFICES ASSUME k \notin P PROVE FALSE
    OBVIOUS
  <2> HIDE DEF k
  <2>1. k >= 1
    BY <1>1, <1>3
  <2>2. P \in SUBSET (1 .. k - 1)
    BY <1>0, <1>1, <1>3
  <2>3. IsFiniteSet(1 .. k - 1) /\ Cardinality(1 .. k - 1) = k - 1
    <3> DEFINE m == k - 1
    <3>1. m \in Nat
      BY <1>1, <2>1
    <3> HIDE DEF m
    <3>2. IsFiniteSet(1 .. m) /\ Cardinality(1 .. m) = IF 1 > m THEN 0 ELSE m - 1 + 1
      BY <3>1, FS_Interval
    <3>3. IsFiniteSet(1 .. m) /\ Cardinality(1 .. m) = m
      BY <3>1, <3>2
    <3> QED BY <3>3 DEF m
  <2>4. k <= k - 1
    <3>1. Cardinality(P) <= Cardinality(1 .. k - 1)
      BY <2>2, <2>3, FS_Subset
    <3>2. Cardinality(P) = k
      BY DEF k
    <3> QED BY <2>3, <3>1, <3>2
  <2> QED BY <2>4, <1>1
<1> QED BY <1>3, <1>4

LEMMA NearestNamed ==
  ASSUME syms \in Seq(Sym), Ascending(syms), NEW address \in Nat, address < KernelTop
  PROVE  LET below == {p \in 1 .. Len(syms) : syms[p].value <= address} IN
         IF below = {} THEN Named(address) = Unknown
         ELSE /\ Named(address) \in {syms[p] : p \in below}
              /\ \A p \in below : syms[p].value <= Named(address).value
<1> DEFINE below == {p \in 1 .. Len(syms) : syms[p].value <= address}
<1>0. /\ KernelTop \in Nat /\ ~(address >= KernelTop) /\ Len(syms) \in Nat
      /\ \A p \in 1 .. Len(syms) : syms[p].value \in Nat
  <2>1. Len(syms) \in Nat /\ \A p \in 1 .. Len(syms) : syms[p] \in Sym
    BY LenProperties, ElementOfSeq
  <2> QED BY <2>1, TraceAssumption DEF Sym
<1>1. below = Passed(address)
  BY <1>0 DEF Passed, Ascending
<1>2. CASE below = {}
  <2>1. Named(address) = Unknown
    BY <1>0, <1>1, <1>2 DEF Named
  <2> QED BY <1>2, <2>1
<1>3. CASE below # {}
  <2> DEFINE k == CHOOSE i \in Passed(address) : \A j \in Passed(address) : j <= i
  <2>1. k \in Passed(address) /\ \A j \in Passed(address) : j <= k
    BY <1>1, <1>3, LastPassed
  <2>2. Named(address) = syms[k]
    BY <1>0, <1>1, <1>3 DEF Named, Best
  <2> HIDE DEF k
  <2>3. k \in below /\ \A p \in below : p <= k
    BY <2>1, <1>1
  <2>4. \A p \in below : syms[p].value <= syms[k].value
    BY <2>3, <1>0 DEF Ascending
  <2> QED BY <1>3, <2>2, <2>3, <2>4
<1> QED BY <1>2, <1>3

-----------------------------------------------------------------------------
(* Of the first n entries, every symbol that is wanted has one place.      *)
WantedAmong(n) == {i \in 1 .. n : ~table[i].aux /\ Wanted(table[i])}

LEMMA PlacesFilled ==
  ASSUME NEW S, NEW n, NEW f \in Bijection(S, 1 .. n)
  PROVE  /\ f \in [S -> 1 .. n]
         /\ \A i, j \in S : f[i] = f[j] => i = j
         /\ \A p \in 1 .. n : \E i \in S : f[i] = p
<1> DEFINE T == 1 .. n
<1>1. f \in Bijection(S, T)
  OBVIOUS
<1> HIDE DEF T
<1>2. /\ f \in [S -> T] /\ \A i, j \in S : f[i] = f[j] => i = j
      /\ \A p \in T : \E i \in S : f[i] = p
  BY <1>1, Fun_BijectionProperties
<1> QED BY <1>2 DEF T

Listed(n) ==
  \E place \in Bijection(WantedAmong(n), 1 .. Len(syms)) :
    \A i \in WantedAmong(n) : syms[place[i]] = Symbol(table[i])

SymInv ==
  /\ table \in Seq(Entry) /\ log \in Seq(Line) /\ syms \in Seq(Sym)
  /\ WellFormed(table)
  /\ stage = "table" => /\ next \in 1 .. Len(table) + 1
                        /\ next <= Len(table) => ~table[next].aux
                        /\ Listed(next - 1)
  /\ stage # "table" => Listed(Len(table)) /\ Ascending(syms)

LEMMA SymInvStarts ==
  ASSUME Init
  PROVE  SymInv
<1>1. table \in Seq(Entry) /\ log \in Seq(Line) /\ WellFormed(table)
  BY TraceAssumption DEF Init
<1>2. /\ stage = "table" /\ next = 1 /\ syms = <<>> /\ Len(syms) = 0
      /\ syms \in Seq(Sym) /\ Len(table) \in Nat
  BY <1>1, LenProperties, EmptySeq DEF Init
<1>3. next <= Len(table) => ~table[next].aux
  BY <1>1, <1>2, EmptySeq DEF WellFormed
<1>4. Listed(next - 1)
  <2> DEFINE none == [i \in {} |-> 0]
  <2>1. WantedAmong(next - 1) = {} /\ 1 .. Len(syms) = {}
    BY <1>2 DEF WantedAmong
  <2>2. none \in Bijection({}, {})
    BY Fun_IsBij
  <2> QED BY <2>1, <2>2 DEF Listed
<1> QED BY <1>1, <1>2, <1>3, <1>4 DEF SymInv

LEMMA EntryListed ==
  ASSUME SymInv, ReadEntry
  PROVE  SymInv'
<1> DEFINE entry == table[next]
           after == next + entry.numaux + 1
           w == WantedAmong(next - 1)
           w2 == WantedAmong(after - 1)
<1>1. /\ stage = "table" /\ next \in 1 .. Len(table) /\ Len(table) \in Nat
      /\ table \in Seq(Entry) /\ WellFormed(table) /\ ~entry.aux
      /\ syms \in Seq(Sym) /\ Listed(next - 1) /\ log \in Seq(Line)
      /\ UNCHANGED <<stage, table, log>>
  BY LenProperties DEF SymInv, ReadEntry
<1>2. /\ entry \in Entry /\ entry.numaux \in Nat
      /\ Symbol(entry) \in Sym
  <2>1. entry \in Entry
    BY <1>1, ElementOfSeq
  <2> HIDE DEF entry
  <2> QED BY <2>1 DEF Entry, Symbol, Sym
<1>3. next' = after
  <2>1. next' = After(next, entry)
    BY DEF ReadEntry
  <2>2. next \in Nat
    BY <1>1
  <2> HIDE DEF entry
  <2> QED BY <2>1, <2>2, <1>2 DEF After
<1>4. /\ after \in next + 1 .. Len(table) + 1
      /\ \A j \in next + 1 .. after - 1 : table[j].aux
      /\ after <= Len(table) => ~table[after].aux
  <2>1. /\ after <= Len(table) + 1
        /\ \A j \in next + 1 .. after - 1 : table[j].aux
        /\ after <= Len(table) => ~table[after].aux
    BY <1>1 DEF WellFormed
  <2>2. after \in Int /\ next + 1 <= after
    <3> HIDE DEF entry
    <3> QED BY <1>1, <1>2
  <2> HIDE DEF after
  <2> QED BY <1>1, <2>1, <2>2
<1>5. w2 = w \cup (IF Wanted(entry) THEN {next} ELSE {}) /\ next \notin w
  BY <1>1, <1>4 DEF WantedAmong
<1>6. \E place \in Bijection(w2, 1 .. Len(syms')) :
        \A i \in w2 : syms'[place[i]] = Symbol(table[i])
  <2>1. PICK place \in Bijection(w, 1 .. Len(syms)) :
               \A i \in w : syms[place[i]] = Symbol(table[i])
    BY <1>1 DEF Listed
  <2>2. CASE ~Wanted(entry)
    <3>1. w2 = w /\ syms' = syms
      BY <1>5, <2>2 DEF ReadEntry
    <3> QED BY <3>1, <2>1
  <2>3. CASE Wanted(entry)
    <3> DEFINE n == Len(syms)
               more == [i \in w2 |-> IF i = next THEN n + 1 ELSE place[i]]
    <3>1. w2 = w \cup {next} /\ syms' = Append(syms, Symbol(entry))
      BY <1>5, <2>3 DEF ReadEntry
    <3>2. /\ n \in Nat /\ Len(syms') = n + 1 /\ syms'[n + 1] = Symbol(entry)
          /\ \A p \in 1 .. n : syms'[p] = syms[p]
      BY <1>1, <1>2, <3>1, LenProperties, AppendProperties
    <3>3. /\ place \in [w -> 1 .. n]
          /\ \A i, j \in w : place[i] = place[j] => i = j
          /\ \A p \in 1 .. n : \E i \in w : place[i] = p
      <4> HIDE DEF w, n
      <4>1. place \in Bijection(w, 1 .. n)
        BY <2>1 DEF n
      <4> QED BY <4>1, PlacesFilled
    <3>4. more[next] = n + 1 /\ \A i \in w : more[i] = place[i]
      BY <3>1, <1>5
    <3>5. more \in [w2 -> 1 .. n + 1]
      BY <3>1, <3>2, <3>3
    <3> HIDE DEF more, w, w2, n
    <3>6. \A i, j \in w2 : more[i] = more[j] => i = j
      BY <3>1, <3>2, <3>3, <3>4
    <3>7. \A p \in 1 .. n + 1 : \E i \in w2 : more[i] = p
      BY <3>1, <3>2, <3>3, <3>4
    <3>8. more \in Bijection(w2, 1 .. n + 1)
      BY <3>5, <3>6, <3>7, Fun_IsBij
    <3>9. \A i \in w2 : syms'[more[i]] = Symbol(table[i])
      BY <2>1, <3>1, <3>2, <3>3, <3>4
    <3> QED BY <3>2, <3>8, <3>9
  <2> QED BY <2>2, <2>3
<1>7. Listed(next - 1)'
  BY <1>1, <1>3, <1>6 DEF Listed, WantedAmong
<1>8. syms' \in Seq(Sym)
  BY <1>1, <1>2, AppendProperties DEF ReadEntry
<1>9. next' \in 1 .. Len(table') + 1 /\ (next' <= Len(table') => ~table'[next'].aux)
  BY <1>1, <1>3, <1>4
<1> QED BY <1>1, <1>7, <1>8, <1>9 DEF SymInv

LEMMA TableSorted ==
  ASSUME SymInv, SortTable
  PROVE  SymInv'
<1> DEFINE w == WantedAmong(Len(table))
           places == 1 .. Len(syms)
<1>1. /\ Len(table) \in Nat /\ next - 1 = Len(table) /\ Listed(Len(table))
      /\ table \in Seq(Entry) /\ WellFormed(table) /\ log \in Seq(Line)
      /\ syms \in Seq(Sym) /\ syms' = Sorted(syms) /\ stage' = "log"
      /\ UNCHANGED <<table, log>>
  <2>1. /\ Len(table) \in Nat /\ next \in 1 .. Len(table) + 1 /\ next > Len(table)
        /\ Listed(next - 1)
    BY LenProperties DEF SymInv, SortTable
  <2>2. next - 1 = Len(table)
    BY <2>1
  <2> QED BY <2>1, <2>2 DEF SymInv, SortTable
<1>2. syms' \in Seq(Sym) /\ Len(syms') = Len(syms) /\ Ascending(syms')
  BY <1>1, SortAscends
<1>3. PICK place \in Bijection(w, places) : \A i \in w : syms[place[i]] = Symbol(table[i])
  BY <1>1 DEF Listed
<1>4. PICK o \in Bijection(places, places) : syms' = [i \in places |-> syms[o[i]]]
  BY <1>1, SortRearranges
<1> DEFINE back == Inverse(o, places, places)
           moved == [i \in w |-> back[place[i]]]
<1>5. back \in Bijection(places, places) /\ \A p \in places : o[back[p]] = p
  <2>1. back \in Bijection(places, places) /\ \A p \in places : back[o[p]] = p
    BY <1>4, Fun_BijInverse
  <2>2. \A p \in places : \E q \in places : o[q] = p
    BY <1>4, PlacesFilled
  <2> HIDE DEF back, places
  <2>3. ASSUME NEW p \in places PROVE o[back[p]] = p
    <3>1. PICK q \in places : o[q] = p
      BY <2>2
    <3> QED BY <3>1, <2>1
  <2> QED BY <2>1, <2>3
<1> HIDE DEF back
<1>6. moved \in Bijection(w, places)
  BY <1>3, <1>5, Fun_BijTransitive
<1>7. \A i \in w : syms'[moved[i]] = Symbol(table[i])
  <2>1. place \in [w -> places] /\ back \in [places -> places]
    BY <1>3, <1>5, Fun_BijectionProperties
  <2> HIDE DEF w, places
  <2> QED BY <2>1, <1>3, <1>4, <1>5
<1> HIDE DEF moved
<1>8. Listed(Len(table))'
  BY <1>1, <1>2, <1>6, <1>7 DEF Listed, WantedAmong
<1> QED BY <1>1, <1>2, <1>8 DEF SymInv

LEMMA SymStep ==
  ASSUME SymInv, [Next]_vars
  PROVE  SymInv'
<1>1. CASE ReadEntry
  BY <1>1, EntryListed
<1>2. CASE SortTable
  BY <1>2, TableSorted
<1>3. ASSUME UNCHANGED <<table, log, syms>>, stage # "table", stage' # "table"
      PROVE  SymInv'
  BY <1>3 DEF SymInv, Listed, WantedAmong
<1>4. CASE FindAbort \/ AbortKnown \/ ReadFetch \/ NameThem
  BY <1>3, <1>4 DEF FindAbort, AbortKnown, ReadFetch, NameThem
<1>5. CASE UNCHANGED vars
  <2>1. UNCHANGED <<stage, table, log, next, syms>>
    BY <1>5 DEF vars
  <2>2. (Listed(next - 1)' <=> Listed(next - 1)) /\ (Listed(Len(table))' <=> Listed(Len(table)))
    BY <2>1 DEF Listed, WantedAmong
  <2> QED BY <2>1, <2>2 DEF SymInv
<1> QED BY <1>1, <1>2, <1>4, <1>5 DEF Next

LEMMA SymInvariance == Spec => []SymInv
BY SymInvStarts, SymStep, PTL DEF Spec

(* Whatever the table, the list holds each external and static symbol of a *)
(* section once for each of its entries and nothing else: no auxiliary     *)
(* entry gets into it (nm32.py:37-41).                                     *)
THEOREM EverySymbolListed == Spec => []SymbolsListed
<1>1. ASSUME SymInv PROVE SymbolsListed
  <2> SUFFICES ASSUME stage # "table" PROVE SymbolsListed
    BY DEF SymbolsListed
  <2> DEFINE w == WantedAmong(Len(table))
  <2>1. PICK place \in Bijection(w, 1 .. Len(syms)) :
               \A i \in w : syms[place[i]] = Symbol(table[i])
    BY <1>1 DEF SymInv, Listed
  <2> HIDE DEF w
  <2>2. /\ place \in [w -> 1 .. Len(syms)]
        /\ \A i, j \in w : place[i] = place[j] => i = j
        /\ \A p \in 1 .. Len(syms) : \E i \in w : place[i] = p
    BY <2>1, PlacesFilled
  <2>3. w = {i \in 1 .. Len(table) : ~table[i].aux /\ Wanted(table[i])}
    BY DEF WantedAmong, w
  <2> QED BY <2>1, <2>2, <2>3 DEF SymbolsListed
<1> QED BY <1>1, SymInvariance, PTL

(* Whatever the table and the log, an address of the kernel is named after *)
(* the symbol nearest below it, because the list the first symbol above    *)
(* ends the search of is in the order of addresses (nm32.py:54-59).        *)
THEOREM NearestIsNamed == Spec => []NamedByNearest
<1>1. ASSUME SymInv PROVE NamedByNearest
  <2> SUFFICES ASSUME stage = "named",
                      NEW l \in 1 .. Len(log), log[l].address < KernelTop
               PROVE  LET address == log[l].address
                          below   == {p \in 1 .. Len(syms) : syms[p].value <= address}
                      IN  IF below = {} THEN Named(address) = Unknown
                          ELSE /\ Named(address) \in {syms[p] : p \in below}
                               /\ \A p \in below : syms[p].value <= Named(address).value
    BY DEF NamedByNearest
  <2>1. syms \in Seq(Sym) /\ Ascending(syms) /\ log \in Seq(Line)
    BY <1>1 DEF SymInv
  <2>2. log[l] \in Line
    BY <2>1, ElementOfSeq
  <2>3. log[l].address \in Nat
    BY <2>2 DEF Line
  <2> QED BY <2>1, <2>3, NearestNamed
<1> QED BY <1>1, SymInvariance, PTL
=============================================================================
