------------------------------- MODULE MCMkfs -------------------------------
(***************************************************************************)
(* A small instance of Mkfs for TLC: blocks of three words, one direct     *)
(* block number in an inode, and a free list in pieces of two, so that a   *)
(* file of five blocks needs double indirection and a directory of four    *)
(* entries an indirect block.  In some runs of the program the inodes give *)
(* out, in some the blocks, and in some exactly nothing is left.           *)
(***************************************************************************)
EXTENDS Mkfs

Text(n) == [i \in 1 .. n |-> Entry(i, "text")]

MCFiles == {[text |-> Text(n), exec |-> n = 4] : n \in {0, 4, 16, 40}}

MCDevices == {<<1, 2>>}
=============================================================================
