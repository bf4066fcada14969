----------------------------- MODULE Coff2Genix -----------------------------
(***************************************************************************)
(* tools/coff2genix.py: the kernel's COFF file becomes the a.out that the  *)
(* ROM monitor can load, and the monitor (external) loads it: it lays the  *)
(* data down straight after the text, wherever it was linked               *)
(* (docs/STATUS.md, "Half a kilobyte of padding").                         *)
(*                                                                         *)
(* Of the headers a file keeps what the program looks at; `body' is the    *)
(* file byte by byte.                                                      *)
(*                                                                         *)
(* A definition marked "a slip" is no part of the specification: it is a   *)
(* mistake the properties are tried against.                               *)
(***************************************************************************)
EXTENDS Naturals, Sequences

CONSTANTS
  Byte,
  Files       \* what may be converted: [coff, opthdr, zmagic, scns, body]

Scn == [name : {".text", ".data", ".bss", ".comment"},
        paddr : Nat, size : Nat, ptr : Nat]

ASSUME CoffAssumption ==
  /\ 0 \in Byte
  /\ Files \subseteq [coff : BOOLEAN, opthdr : Nat, zmagic : BOOLEAN,
                      scns : Seq(Scn), body : Seq(Byte)]
  /\ \A f \in Files : \A i \in 1 .. Len(f.scns) :     \* what is in the file is there
       f.scns[i].name # ".bss" => f.scns[i].ptr + f.scns[i].size <= Len(f.body)

VARIABLES
  stage,      \* "headers", "sections", "converted", "loaded", "exit"
  file,
  next,       \* the section header read next
  sections,   \* name -> section, the last one of that name
  aout,       \* the a.out: a_text, a_data, a_bss, a_text_addr, and what follows
  memory      \* address -> byte, where the monitor has put something

vars == <<stage, file, next, sections, aout, memory>>

NoFile == [a_text |-> 0, a_data |-> 0, a_bss |-> 0, a_text_addr |-> 0, bytes |-> <<>>]

Init ==
  /\ stage = "headers"
  /\ file \in Files
  /\ next = 1
  /\ sections = [name \in {} |-> 0]
  /\ aout = NoFile
  /\ memory = [address \in {} |-> 0]

(* magic, opthdr, amagic                                                   *)
ReadHeaders ==
  /\ stage = "headers"
  /\ stage' = IF file.coff /\ file.opthdr = 40 /\ file.zmagic THEN "sections" ELSE "exit"
  /\ UNCHANGED <<file, next, sections, aout, memory>>

ReadSection ==
  /\ stage = "sections" /\ next <= Len(file.scns)
  /\ next' = next + 1
  /\ LET s == file.scns[next] IN
     sections' = [name \in DOMAIN sections \cup {s.name} |->
                    IF name = s.name THEN s ELSE sections[name]]
  /\ UNCHANGED <<stage, file, aout, memory>>

(* d[ptr:ptr + size]                                                       *)
Contents(s) == [i \in 1 .. s.size |-> file.body[s.ptr + i]]

(* A slip: as 5toG.c does it, here to two bytes instead of 512.            *)
RoundedUp(text, data) == ((text.size + 1) \div 2) * 2

(* The text and its padding end where the data was linked.                 *)
APadded(text, data) == data.paddr - text.paddr

Padded(bytes, n) == [i \in 1 .. n |-> IF i <= Len(bytes) THEN bytes[i] ELSE 0]

Complete == {".text", ".data", ".bss"} \subseteq DOMAIN sections

(* "data section overlaps the text"                                        *)
Overlap(text, data) == data.paddr < text.paddr + text.size

Convert ==
  /\ stage = "sections" /\ next > Len(file.scns)
  /\ LET text == sections[".text"]
         data == sections[".data"]
     IN  IF Complete /\ ~Overlap(text, data)
         THEN /\ stage' = "converted"
              /\ aout' = [a_text      |-> APadded(text, data),
                          a_data      |-> data.size,
                          a_bss       |-> sections[".bss"].size,
                          a_text_addr |-> text.paddr,
                          bytes       |-> Padded(Contents(text), APadded(text, data))
                                            \o Contents(data)]
         ELSE stage' = "exit" /\ UNCHANGED aout
  /\ UNCHANGED <<file, next, sections, memory>>

(* The monitor: text, data and zeros for the bss in a row.                 *)
RomLoads ==
  /\ stage = "converted"
  /\ LET from == aout.a_text_addr
         read == aout.a_text + aout.a_data
     IN  memory' = [address \in from .. from + read + aout.a_bss - 1 |->
                      IF address < from + read THEN aout.bytes[address - from + 1] ELSE 0]
  /\ stage' = "loaded"
  /\ UNCHANGED <<file, next, sections, aout>>

Next == ReadHeaders \/ ReadSection \/ Convert \/ RomLoads

Spec == Init /\ [][Next]_vars

-----------------------------------------------------------------------------
(* Every byte of text and data is at the address it was linked at, however *)
(* far apart the linker put the two ("the data section landed 512 bytes    *)
(* low, every kernel variable read somebody else's bytes", STATUS.md).     *)
LoadedAsLinked ==
  stage = "loaded" =>
    \A name \in {".text", ".data"} :
      LET s == sections[name] IN
      \A k \in 0 .. s.size - 1 :
        /\ s.paddr + k \in DOMAIN memory
        /\ memory[s.paddr + k] = file.body[s.ptr + k + 1]
=============================================================================
