-------------------------------- MODULE Icu --------------------------------
(***************************************************************************)
(* One input line of the NS32202 interrupt controller, as the machine uses *)
(* it.  The controller itself is a MAME device outside the repository: it  *)
(* is modelled from the lines sys16.cpp drives and from the trigger modes  *)
(* the header of that file and docs/STATUS.md give for each of them        *)
(* (ELTG = 0xcbe5, TPL = 0x2040).                                          *)
(*                                                                         *)
(* An edge line latches the transition to its active level until the       *)
(* processor takes the interrupt; a level line asks for as long as it is   *)
(* active.  Driving an edge line to a level it already has is no edge.     *)
(***************************************************************************)
EXTENDS Naturals

DISK    == 3     \* line numbers
CONSOLE == 9

EdgeTriggered == {1, 3, 4, 10, 12, 13}   \* ELTG: the clear bits
ActiveHigh    == {6, 13}                 \* TPL: the set bits

Line == [level : {0, 1}, latched : BOOLEAN]

Active(n, level) == level = (IF n \in ActiveHigh THEN 1 ELSE 0)

(* The line at rest: its inactive level, nothing latched.                  *)
Idle(n) == [level |-> IF n \in ActiveHigh THEN 0 ELSE 1, latched |-> FALSE]

(* ir_w<n>(level) *)
Driven(line, n, level) ==
  [level   |-> level,
   latched |-> line.latched \/ (Active(n, level) /\ ~Active(n, line.level))]

Requests(line, n) ==
  IF n \in EdgeTriggered THEN line.latched ELSE Active(n, line.level)

(* The processor takes the interrupt: an edge is forgotten.                *)
Taken(line) == [line EXCEPT !.latched = FALSE]
=============================================================================
