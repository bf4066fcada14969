----------------------------- MODULE MCSession -----------------------------
(***************************************************************************)
(* Instances of Session for TLC.  Everyday: two sessions through run.sh on *)
(* $GENIX_WORK and two of genixterm.py by itself on the package, started   *)
(* and left in every order.  The others are the smallest sets of sessions  *)
(* in which something else goes wrong.                                     *)
(***************************************************************************)
EXTENDS Session, TLC

RunSh(mode, desktop) ==
  [script |-> "run.sh", mode |-> mode, desktop |-> desktop,
   work |-> "run", pack |-> "dc1 of run"]

GenixTerm(mode) ==
  [script |-> "genixterm", mode |-> mode, desktop |-> FALSE,
   work |-> "here", pack |-> "dc1 of here"]

Everyday == "a" :> RunSh("window", TRUE)  @@ "b" :> RunSh("terminal", FALSE)
         @@ "c" :> GenixTerm("terminal")  @@ "d" :> GenixTerm("check")

OnlyChecks == "a" :> RunSh("check", FALSE) @@ "b" :> RunSh("check", FALSE)

OneTerminal == "a" :> RunSh("terminal", TRUE)
=============================================================================
