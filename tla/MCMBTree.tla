------------------------------- MODULE MCMBTree -------------------------------
(***************************************************************************)
(* Instances of MBTree for TLC.                                            *)
(***************************************************************************)
EXTENDS MBTree

FiveKeys == 1 .. 5
EightKeys == 1 .. 8
TenKeys == 1 .. 10

(* Rows all alike, for the shape of the tree does not depend on them, and  *)
(* rows told apart by their keys.                                          *)
SameRow(k) == 0
OwnRow(k) == k

(* After a left split nothing is promised of data. *)
NotYetSplitLeft == ~leftsplit

===============================================================================
