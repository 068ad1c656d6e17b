------------------------------ MODULE MCAuthScan ------------------------------
(***************************************************************************)
(* Instances of AuthScan for TLC.                                          *)
(***************************************************************************)
EXTENDS AuthScan

CONSTANTS one, two, empty, columns

(* Ranges of one row, of two rows and of none, and some columns of two.    *)
Rows(q) == CASE q = one -> 1 [] q = two -> 2 [] q = columns -> 2 [] OTHER -> 0
SomeColumns(q) == q = columns

===============================================================================
