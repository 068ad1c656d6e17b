----------------------------- MODULE MCMBTreeTids -----------------------------
(***************************************************************************)
(* Instances of MBTreeTids for TLC.                                        *)
(***************************************************************************)
EXTENDS MBTreeTids

TenKeys == 1 .. 10

(* Rows told apart by their keys. *)
OwnRow(k) == k

(* Once keys came in another order nothing is promised of tids. *)
StillAscending == ascending

===============================================================================
