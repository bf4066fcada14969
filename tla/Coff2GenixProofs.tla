-------------------------- MODULE Coff2GenixProofs --------------------------
(***************************************************************************)
(* The converted kernel is loaded where it was linked, for every file whose*)
(* sections are in it.  The invariant carries what the converter knows:    *)
(* the sections lie in the file (SectionsFit), and what it has written is  *)
(* text and data with the gap between them (Laid).                         *)
(***************************************************************************)
EXTENDS Coff2Genix, SequenceTheorems, TLAPS

SectionsFit ==
  \A name \in DOMAIN sections :
    /\ sections[name] \in Scn
    /\ name # ".bss" => sections[name].name = name
    /\ name # ".bss" => sections[name].ptr + sections[name].size <= Len(file.body)

Laid ==
  LET text == sections[".text"]
      data == sections[".data"]
  IN  /\ Complete /\ ~Overlap(text, data)
      /\ aout.a_text = APadded(text, data) /\ aout.a_data = data.size
      /\ aout.a_bss \in Nat /\ aout.a_text_addr = text.paddr
      /\ aout.bytes = Padded(Contents(text), APadded(text, data)) \o Contents(data)

CInv ==
  /\ file \in Files /\ next \in Nat \ {0}
  /\ SectionsFit
  /\ stage = "converted" => Laid
  /\ LoadedAsLinked

LEMMA ContentsType ==
  ASSUME file \in Files, NEW s \in Scn, s.ptr + s.size <= Len(file.body)
  PROVE  /\ Contents(s) \in Seq(Byte) /\ Len(Contents(s)) = s.size
         /\ \A i \in 1 .. s.size : Contents(s)[i] = file.body[s.ptr + i]
<1>1. file.body \in Seq(Byte)
  BY CoffAssumption
<1>2. s.ptr \in Nat /\ s.size \in Nat
  BY DEF Scn
<1>3. \A i \in 1 .. s.size : file.body[s.ptr + i] \in Byte
  BY <1>1, <1>2, ElementOfSeq
<1> QED BY <1>2, <1>3 DEF Contents

LEMMA PaddedType ==
  ASSUME NEW bytes \in Seq(Byte), NEW n \in Nat, Len(bytes) <= n
  PROVE  /\ Padded(bytes, n) \in Seq(Byte) /\ Len(Padded(bytes, n)) = n
         /\ \A i \in 1 .. Len(bytes) : Padded(bytes, n)[i] = bytes[i]
BY CoffAssumption, ElementOfSeq DEF Padded

(* The loader finds every byte at its place.                               *)
LEMMA Loads ==
  ASSUME CInv, RomLoads
  PROVE  LoadedAsLinked'
<1> DEFINE text == sections[".text"]
           data == sections[".data"]
           gap  == APadded(text, data)
           from == text.paddr
<1>1. Laid
  BY DEF CInv, RomLoads
<1>2. /\ text \in Scn /\ text.ptr + text.size <= Len(file.body)
      /\ data \in Scn /\ data.ptr + data.size <= Len(file.body)
  BY <1>1 DEF CInv, SectionsFit, Laid, Complete
<1>3. /\ text.paddr \in Nat /\ text.size \in Nat /\ data.paddr \in Nat /\ data.size \in Nat
      /\ gap \in Nat /\ text.size <= gap /\ data.paddr = from + gap
      /\ text.ptr \in Nat /\ data.ptr \in Nat
  <2>1. /\ text.paddr \in Nat /\ text.size \in Nat /\ text.ptr \in Nat
        /\ data.paddr \in Nat /\ data.size \in Nat /\ data.ptr \in Nat
    BY <1>2 DEF Scn
  <2>2. ~(data.paddr < text.paddr + text.size)
    BY <1>1 DEF Laid, Overlap
  <2>3. gap = data.paddr - text.paddr
    BY DEF APadded
  <2> HIDE DEF text, data, gap
  <2>4. from = text.paddr
    OBVIOUS
  <2> QED BY <2>1, <2>2, <2>3, <2>4
<1>4. /\ Contents(text) \in Seq(Byte) /\ Len(Contents(text)) = text.size
      /\ \A i \in 1 .. text.size : Contents(text)[i] = file.body[text.ptr + i]
      /\ Contents(data) \in Seq(Byte) /\ Len(Contents(data)) = data.size
      /\ \A i \in 1 .. data.size : Contents(data)[i] = file.body[data.ptr + i]
  BY <1>2, ContentsType DEF CInv
<1> DEFINE padded == Padded(Contents(text), gap)
<1>5. /\ padded \in Seq(Byte) /\ Len(padded) = gap
      /\ \A i \in 1 .. text.size : padded[i] = file.body[text.ptr + i]
  BY <1>3, <1>4, PaddedType
<1>6. /\ \A i \in 1 .. gap : aout.bytes[i] = padded[i]
      /\ \A i \in 1 .. data.size : aout.bytes[gap + i] = file.body[data.ptr + i]
  <2>1. aout.bytes = padded \o Contents(data)
    BY <1>1 DEF Laid
  <2>2. \A i \in 1 .. gap + data.size :
          aout.bytes[i] = IF i <= gap THEN padded[i] ELSE Contents(data)[i - gap]
    BY <2>1, <1>4, <1>5, ConcatProperties
  <2>3. \A i \in 1 .. gap : aout.bytes[i] = padded[i]
    BY <2>2, <1>3
  <2>4. ASSUME NEW i \in 1 .. data.size PROVE aout.bytes[gap + i] = file.body[data.ptr + i]
    <3>1. gap + i \in 1 .. gap + data.size /\ ~(gap + i <= gap) /\ (gap + i) - gap = i
      BY <1>3
    <3>2. aout.bytes[gap + i] = Contents(data)[(gap + i) - gap]
      BY <3>1, <2>2
    <3> QED BY <3>1, <3>2, <1>4
  <2> QED BY <2>3, <2>4
<1>7. /\ aout.a_text = gap /\ aout.a_data = data.size /\ aout.a_text_addr = from
      /\ aout.a_bss \in Nat
  BY <1>1 DEF Laid
<1> HIDE DEF gap, from, padded
<1>8. memory' = [address \in from .. from + (gap + data.size) + aout.a_bss - 1 |->
                   IF address < from + (gap + data.size)
                   THEN aout.bytes[address - from + 1] ELSE 0]
  BY <1>7 DEF RomLoads
<1>9. from \in Nat
  BY <1>3 DEF from
<1> DEFINE last == from + (gap + data.size) + aout.a_bss - 1
<1>10. ASSUME NEW address \in from .. last, address < from + (gap + data.size)
       PROVE  address \in DOMAIN memory' /\ memory'[address] = aout.bytes[address - from + 1]
  BY <1>8, <1>10
<1> HIDE DEF last
<1>11. \A k \in 0 .. text.size - 1 :
         from + k \in DOMAIN memory' /\ memory'[from + k] = file.body[text.ptr + k + 1]
  <2> TAKE k \in 0 .. text.size - 1
  <2> DEFINE address == from + k
  <2>1. /\ address \in from .. last
        /\ address < from + (gap + data.size) /\ address - from + 1 = k + 1
        /\ k + 1 \in 1 .. gap /\ k + 1 \in 1 .. text.size
    BY <1>3, <1>7, <1>9 DEF last
  <2> HIDE DEF address
  <2>2. address \in DOMAIN memory' /\ memory'[address] = aout.bytes[address - from + 1]
    BY <2>1, <1>10
  <2>3. aout.bytes[k + 1] = padded[k + 1] /\ padded[k + 1] = file.body[text.ptr + (k + 1)]
    BY <2>1, <1>5, <1>6
  <2>4. text.ptr + (k + 1) = text.ptr + k + 1
    BY <1>3
  <2> QED BY <2>1, <2>2, <2>3, <2>4 DEF address
<1>12. \A k \in 0 .. data.size - 1 :
         data.paddr + k \in DOMAIN memory'
         /\ memory'[data.paddr + k] = file.body[data.ptr + k + 1]
  <2> TAKE k \in 0 .. data.size - 1
  <2> DEFINE address == data.paddr + k
  <2>0. data.paddr = from + gap /\ gap \in Nat
    BY <1>3
  <2>1. /\ address \in from .. last
        /\ address < from + (gap + data.size)
        /\ address - from + 1 = gap + (k + 1) /\ k + 1 \in 1 .. data.size
    BY <1>3, <1>7, <1>9, <2>0 DEF last
  <2> HIDE DEF address
  <2>2. /\ address \in DOMAIN memory'
        /\ memory'[address] = aout.bytes[address - from + 1]
    BY <2>1, <1>10
  <2>3. aout.bytes[gap + (k + 1)] = file.body[data.ptr + (k + 1)]
    BY <2>1, <1>6
  <2>4. data.ptr + (k + 1) = data.ptr + k + 1
    BY <1>3
  <2> QED BY <2>1, <2>2, <2>3, <2>4 DEF address
<1>13. UNCHANGED <<sections, file>>
  BY DEF RomLoads
<1> QED BY <1>11, <1>12, <1>13 DEF LoadedAsLinked, from

LEMMA Step ==
  ASSUME CInv, [Next]_vars
  PROVE  CInv'
<1>1. CASE UNCHANGED vars
  BY <1>1 DEF CInv, vars, SectionsFit, Laid, LoadedAsLinked, Complete, Contents
<1>2. CASE ReadHeaders
  BY <1>2 DEF CInv, ReadHeaders, SectionsFit, Laid, LoadedAsLinked
<1>3. CASE ReadSection
  <2> DEFINE s == file.scns[next]
  <2>1. file \in Files /\ next \in 1 .. Len(file.scns) /\ file.scns \in Seq(Scn)
    BY <1>3, CoffAssumption DEF CInv, ReadSection
  <2>2. s \in Scn /\ (s.name # ".bss" => s.ptr + s.size <= Len(file.body))
    BY <2>1, ElementOfSeq, CoffAssumption
  <2>3. sections' = [name \in DOMAIN sections \cup {s.name} |->
                       IF name = s.name THEN s ELSE sections[name]]
    BY <1>3 DEF ReadSection
  <2>4. SectionsFit'
    BY <1>3, <2>2, <2>3 DEF CInv, SectionsFit, ReadSection
  <2>5. stage' = "sections"
    BY <1>3 DEF ReadSection
  <2> QED BY <1>3, <2>4, <2>5 DEF CInv, ReadSection, LoadedAsLinked
<1>4. CASE Convert
  <2>1. stage' \in {"exit", "converted"} /\ UNCHANGED <<file, next, sections, memory>>
    BY <1>4 DEF Convert
  <2>2. ASSUME stage' = "converted" PROVE Laid'
    <3>1. Complete /\ ~Overlap(sections[".text"], sections[".data"])
      BY <1>4, <2>2 DEF Convert
    <3>2. sections[".bss"] \in Scn
      BY <3>1 DEF CInv, SectionsFit, Complete
    <3>3. sections[".bss"].size \in Nat
      BY <3>2 DEF Scn
    <3>4. aout' = [a_text      |-> APadded(sections[".text"], sections[".data"]),
                   a_data      |-> sections[".data"].size,
                   a_bss       |-> sections[".bss"].size,
                   a_text_addr |-> sections[".text"].paddr,
                   bytes       |-> Padded(Contents(sections[".text"]),
                                          APadded(sections[".text"], sections[".data"]))
                                     \o Contents(sections[".data"])]
      BY <1>4, <2>2 DEF Convert
    <3>5. Contents(sections[".text"])' = Contents(sections[".text"])
          /\ Contents(sections[".data"])' = Contents(sections[".data"])
      BY <2>1 DEF Contents
    <3> HIDE <1>4
    <3> QED BY <2>1, <3>1, <3>3, <3>4, <3>5 DEF Laid, Complete, Overlap, APadded
  <2> QED BY <2>1, <2>2 DEF CInv, SectionsFit, LoadedAsLinked
<1>5. CASE RomLoads
  BY <1>5, Loads DEF CInv, RomLoads, SectionsFit
<1> QED BY <1>1, <1>2, <1>3, <1>4, <1>5 DEF Next

(* Text and data of every kernel are at the addresses they were linked at  *)
(* when the monitor has loaded the a.out (coff2genix.py:49).               *)
THEOREM Loaded == Spec => []LoadedAsLinked
<1>1. Init => CInv
  BY DEF Init, CInv, SectionsFit, LoadedAsLinked
<1>2. CInv => LoadedAsLinked
  BY DEF CInv
<1> QED BY <1>1, <1>2, Step, PTL DEF Spec
=============================================================================
