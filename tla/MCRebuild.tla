----------------------------- MODULE MCRebuild -----------------------------
(* The six drives of mkdisk.py, with trees of no blocks up to more than     *)
(* any of them holds.                                                       *)
EXTENDS Rebuild

MCDrives == {DRIVES[name] : name \in DOMAIN DRIVES}

MCTrees == {1000 * n : n \in 0 .. 60}
=============================================================================
