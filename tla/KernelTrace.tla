---------------------------- MODULE KernelTrace ----------------------------
(***************************************************************************)
(* tools/nm32.py and tools/trace.py: the symbol table of the kernel, and   *)
(* the log of the memory management unit read as a trace of what the       *)
(* kernel executed before it was aborted.                                  *)
(*                                                                         *)
(* An entry of the table keeps what the programs look at, and `aux': the   *)
(* linker wrote it as an auxiliary entry of the symbol before it, which    *)
(* nothing in its twenty bytes says.  A name is its rank in alphabetical   *)
(* order.  A line of the log is a translation, an abort or something else. *)
(* Of the addresses that are kept the last sixty are printed, or as many   *)
(* as were asked for; the cut is left out.                                 *)
(*                                                                         *)
(* A definition marked "a slip" is no part of the specification: it is a   *)
(* mistake the properties are tried against.                               *)
(***************************************************************************)
EXTENDS Integers, Sequences, Functions

CONSTANTS
  Inputs,     \* what is looked at together: [table, log]
  KernelTop   \* 0x100000: the kernel is below it

C_EXT  == 2
C_STAT == 3

Entry == [value : Nat, name : Nat \ {0}, scnum : Int, sclass : Nat, numaux : Nat,
          aux : BOOLEAN]
Line  == [kind : {"translate", "abort", "other"}, level : Nat, address : Nat]

(* Every symbol is followed by its auxiliary entries.                      *)
WellFormed(t) ==
  /\ t # <<>> => ~t[1].aux
  /\ \A i \in 1 .. Len(t) : ~t[i].aux =>
       LET after == i + t[i].numaux + 1 IN
       /\ after <= Len(t) + 1
       /\ \A j \in i + 1 .. after - 1 : t[j].aux
       /\ after <= Len(t) => ~t[after].aux

ASSUME TraceAssumption ==
  /\ KernelTop \in Nat
  /\ Inputs \subseteq [table : Seq(Entry), log : Seq(Line)]
  /\ \A input \in Inputs : WellFormed(input.table)

VARIABLES
  stage,      \* "table", "log", "fetches", "named", "exit"
  table, log,
  first,      \* --first
  next,       \* the entry, then the line, read next
  syms,       \* the symbols found
  idx,        \* the line of the abort that is reported
  ins         \* the lines whose address is kept

vars == <<stage, table, log, first, next, syms, idx, ins>>

Init ==
  /\ stage = "table"
  /\ \E input \in Inputs : table = input.table /\ log = input.log
  /\ first \in BOOLEAN
  /\ next = 1 /\ idx = 0
  /\ syms = <<>> /\ ins = <<>>

-----------------------------------------------------------------------------
(* nm32.py                                                                 *)

Wanted(entry) == entry.sclass \in {C_EXT, C_STAT} /\ entry.scnum > 0

Symbol(entry) == [value |-> entry.value, name |-> entry.name, scnum |-> entry.scnum]

(* A slip: every entry is taken for a symbol.                              *)
AfterOne(i, entry) == i + 1

After(i, entry) == i + 1 + entry.numaux

ReadEntry ==
  /\ stage = "table" /\ next <= Len(table)
  /\ syms' = IF Wanted(table[next]) THEN Append(syms, Symbol(table[next])) ELSE syms
  /\ next' = After(next, table[next])
  /\ UNCHANGED <<stage, table, log, first, idx, ins>>

(* The order of Python's tuples.                                           *)
Precedes(s, t) ==
  \/ s.value < t.value
  \/ s.value = t.value /\ (s.name < t.name \/ (s.name = t.name /\ s.scnum < t.scnum))

(* A slip: the table is in no order of addresses.                          *)
AsRead(found) == found

(* The sort leaves no symbol in front of one that precedes it.             *)
Puts(order, found) ==
  \A i, j \in 1 .. Len(found) : i < j => ~Precedes(found[order[j]], found[order[i]])

Sorted(found) ==
  LET places == 1 .. Len(found)
      order  == CHOOSE o \in Bijection(places, places) : Puts(o, found)
  IN  [i \in places |-> found[order[i]]]

SortTable ==
  /\ stage = "table" /\ next > Len(table)
  /\ syms' = Sorted(syms)
  /\ stage' = "log" /\ next' = 1
  /\ UNCHANGED <<table, log, first, idx, ins>>

(* The loop that stops at the first symbol above the address.              *)
Passed(address) ==
  {i \in 1 .. Len(syms) : \A j \in 1 .. i : syms[j].value <= address}

Best(address) == syms[CHOOSE i \in Passed(address) : \A j \in Passed(address) : j <= i]

Outside == [value |-> 0, name |-> 0, scnum |-> -1]     \* 'outside the kernel'
Unknown == [value |-> 0, name |-> 0, scnum |-> 0]      \* '?'

Named(address) ==
  CASE address >= KernelTop -> Outside
    [] address < KernelTop /\ Passed(address) = {} -> Unknown
    [] address < KernelTop /\ Passed(address) # {} -> Best(address)

-----------------------------------------------------------------------------
(* trace.py                                                                *)

Abort(l) == log[l].kind = "abort"

(* With --first the loop stops at the first abort.                         *)
FindAbort ==
  /\ stage = "log" /\ next <= Len(log)
  /\ idx' = IF Abort(next) THEN next ELSE idx
  /\ next' = IF Abort(next) /\ first THEN Len(log) + 1 ELSE next + 1
  /\ UNCHANGED <<stage, table, log, first, syms, ins>>

AbortKnown ==
  /\ stage = "log" /\ next > Len(log)
  /\ stage' = IF idx = 0 THEN "exit" ELSE "fetches"
  /\ next' = 1
  /\ UNCHANGED <<table, log, first, syms, idx, ins>>

Fetch(l) == log[l].kind = "translate" /\ log[l].level = 0

Follows(l, m) == log[l].address - log[m].address \in 0 .. 8

(* A slip: it is compared with the fetch before it.                        *)
NearPrevious(l) ==
  \E m \in 1 .. l - 1 : /\ Fetch(m) /\ Follows(l, m)
                        /\ \A n \in m + 1 .. l - 1 : ~Fetch(n)

(* The instruction is one of the few after the last that was kept.         *)
Near(l) == ins # <<>> /\ Follows(l, ins[Len(ins)])

ReadFetch ==
  /\ stage = "fetches" /\ next < idx
  /\ ins' = IF Fetch(next) /\ ~Near(next) THEN Append(ins, next) ELSE ins
  /\ next' = next + 1
  /\ UNCHANGED <<stage, table, log, first, syms, idx>>

NameThem ==
  /\ stage = "fetches" /\ next >= idx
  /\ stage' = "named"
  /\ UNCHANGED <<table, log, first, next, syms, idx, ins>>

Next == ReadEntry \/ SortTable \/ FindAbort \/ AbortKnown \/ ReadFetch \/ NameThem

Spec == Init /\ [][Next]_vars

-----------------------------------------------------------------------------
(* The symbols the table is searched for are the external and static ones  *)
(* of some section, all of them and as often as they are there: an         *)
(* auxiliary entry is never taken for one, whatever its bytes look like.   *)
SymbolsListed ==
  stage \notin {"table"} =>
    LET wanted == {i \in 1 .. Len(table) : ~table[i].aux /\ Wanted(table[i])} IN
    \E place \in [wanted -> 1 .. Len(syms)] :
      /\ \A p \in 1 .. Len(syms) : \E i \in wanted : place[i] = p
      /\ \A i, j \in wanted : place[i] = place[j] => i = j
      /\ \A i \in wanted : syms[place[i]] = Symbol(table[i])

(* "name the routine containing an address" (nm32.py:8): an address below  *)
(* the top gets the symbol nearest below it, "?" only when there is none.  *)
NamedByNearest ==
  stage = "named" =>
    \A l \in {m \in 1 .. Len(log) : m <= idx /\ log[m].address < KernelTop} :
      LET address == log[l].address
          below   == {p \in 1 .. Len(syms) : syms[p].value <= address}
      IN  IF below = {} THEN Named(address) = Unknown
          ELSE /\ Named(address) \in {syms[p] : p \in below}
               /\ \A p \in below : syms[p].value <= Named(address).value

(* The abort reported is the last of the log, the first with --first.      *)
(* Nothing the kernel executed before it is left out of the trace but      *)
(* instructions at most 8 bytes past the last one shown before them, and   *)
(* nothing is shown that it did not execute before it, in its order.       *)
PathKept ==
  stage = "named" =>
    /\ Abort(idx) /\ \A l \in 1 .. Len(log) :
                       Abort(l) => IF first THEN idx <= l ELSE l <= idx
    /\ \A j \in 1 .. Len(ins) : /\ ins[j] < idx /\ Fetch(ins[j])
                                /\ \A k \in 1 .. j - 1 : ins[k] < ins[j]
    /\ \A l \in 1 .. idx - 1 : Fetch(l) =>
         \E j \in 1 .. Len(ins) :
           /\ ins[j] <= l /\ Follows(l, ins[j])
           /\ j < Len(ins) => l < ins[j + 1]
=============================================================================
