---------------------------- MODULE MCCoff2Genix ----------------------------
(***************************************************************************)
(* An instance of Coff2Genix for TLC: text and data of up to three bytes   *)
(* at addresses up to 5, that is, data below, upon, right behind or apart  *)
(* from the text; sections in two orders, one missing, one of them twice.  *)
(***************************************************************************)
EXTENDS Coff2Genix

MCByte == 0 .. 9

Scns(a, n, b, m) ==
  LET text == [name |-> ".text", paddr |-> a, size |-> n, ptr |-> 2]
      data == [name |-> ".data", paddr |-> b, size |-> m, ptr |-> 5]
      bss  == [name |-> ".bss",  paddr |-> b + m, size |-> 2, ptr |-> 0]
      note == [name |-> ".comment", paddr |-> 0, size |-> 1, ptr |-> 0]
  IN  {<<text, data, bss>>, <<note, bss, data, text>>, <<text, data>>,
       <<[data EXCEPT !.ptr = 0], text, bss, data>>}

Good(scns) == [coff |-> TRUE, opthdr |-> 40, zmagic |-> TRUE, scns |-> scns,
               body |-> <<1, 2, 3, 4, 5, 6, 7, 8, 9>>]

MCFiles ==
  LET good == {Good(scns) : scns \in
                 UNION {Scns(a, n, b, m) : a \in {1, 3}, n \in 0 .. 3, b \in 0 .. 5, m \in 0 .. 3}}
      one  == Good(CHOOSE scns \in Scns(1, 3, 5, 3) : TRUE)
  IN  good \cup {[one EXCEPT !.coff = FALSE], [one EXCEPT !.opthdr = 28],
                 [one EXCEPT !.zmagic = FALSE]}
=============================================================================
