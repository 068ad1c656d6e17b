------------------------------ MODULE MCRangeVO ------------------------------
(***************************************************************************)
(* An instance of RangeVO for TLC.                                         *)
(***************************************************************************)
EXTENDS RangeVO

(* Zero is among the keys. *)
SixKeys == -1 .. 4

OwnRow(k) == k

(* The tids of the rows of -1 and 2 have the same line number, that of the *)
(* row of 3 has line number 100.                                           *)
Line(k) == CASE k = 2 -> 1 [] k = 3 -> 100 [] OTHER -> k + 2

(* Once an inner node was split to the left or lost a key nothing is       *)
(* promised.                                                               *)
StillOrderly == orderly

(* Nothing is said of tids once keys came in another order: states that    *)
(* differ in no more than such tids are not told apart.                    *)
WithoutLostTids == <<vars, stale, orderly, ascending, IF ascending THEN tids ELSE <<>>>>

===============================================================================
