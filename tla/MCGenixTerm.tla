---------------------------- MODULE MCGenixTerm ----------------------------
(***************************************************************************)
(* Instances of GenixTerm for TLC: one session of genixterm.py, run for a  *)
(* check or for --exec, or by a user who types one of a few scripts.  A    *)
(* script may break off anywhere, since nothing obliges the user to type.  *)
(***************************************************************************)
EXTENDS GenixTerm, TLC

Alone(mode) == "a" :> [script |-> "genixterm", mode |-> mode, desktop |-> FALSE,
                       work |-> "here", pack |-> "dc1 of here"]

Headless == Alone("check")
Terminal == Alone("terminal")

Nothing == {<<>>}

(* The three ways to leave, in the middle of a line and before one, and a  *)
(* user who boots by himself, or keeps genixterm.py from it.               *)
Words == {<<"a", "Ctrl-]", "q">>, <<"Ctrl-]", "]", "eof">>, <<"Ctrl-]", "x">>,
          <<"k", "cr", "a">>}

Quiet == {<<>>, <<"text", "text">>}
=============================================================================
