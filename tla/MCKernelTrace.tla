--------------------------- MODULE MCKernelTrace ---------------------------
(***************************************************************************)
(* The tools on every table of at most three entries with one log, and on  *)
(* one table with every log of at most five lines.                         *)
(***************************************************************************)
EXTENDS KernelTrace

CONSTANTS MaxEntries, MaxLines

(* Two addresses, two names, a symbol without a section and one of another *)
(* class; an auxiliary entry has the bytes of any of them.                 *)
Bytes ==
  {[value |-> v, name |-> n, scnum |-> 1, sclass |-> C_EXT, numaux |-> a] :
     v \in {4, 12}, n \in {1, 2}, a \in {0, 1, 2}}
  \cup {[value |-> 4, name |-> 1, scnum |-> s, sclass |-> c, numaux |-> 0] :
     s \in {0, 2}, c \in {C_STAT, 6}}

MCEntries ==
  {[value |-> b.value, name |-> b.name, scnum |-> b.scnum, sclass |-> b.sclass,
    numaux |-> b.numaux, aux |-> x] : b \in Bytes, x \in BOOLEAN}

MCTables ==
  {t \in UNION {[1 .. n -> MCEntries] : n \in 0 .. MaxEntries} : WellFormed(t)}

(* A straight run, a call ahead and one back, data in between, and a fetch *)
(* outside the kernel.                                                     *)
MCLines ==
  {[kind |-> "translate", level |-> 0, address |-> a] : a \in {2, 8, 14, 20}}
  \cup {[kind |-> "translate", level |-> 1, address |-> 2],
        [kind |-> "abort", level |-> 0, address |-> 14]}

MCLogs == UNION {[1 .. n -> MCLines] : n \in 0 .. MaxLines}

MCTable ==
  <<[value |-> 12, name |-> 1, scnum |-> 1, sclass |-> C_EXT, numaux |-> 0, aux |-> FALSE],
    [value |-> 0,  name |-> 2, scnum |-> 1, sclass |-> C_STAT, numaux |-> 0, aux |-> FALSE]>>

MCLog ==
  <<[kind |-> "translate", level |-> 0, address |-> 2],
    [kind |-> "translate", level |-> 0, address |-> 14],
    [kind |-> "translate", level |-> 0, address |-> 4],
    [kind |-> "abort", level |-> 0, address |-> 12]>>

MCInputs == [table : MCTables, log : {MCLog}] \cup [table : {MCTable}, log : MCLogs]
=============================================================================
