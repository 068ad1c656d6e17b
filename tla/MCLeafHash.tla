------------------------------ MODULE MCLeafHash ------------------------------
(* Ranges of up to eight leaves, over a map of five buckets, where the     *)
(* threads of all but the widest ranges are apart, and over one of two,    *)
(* where both threads use both buckets and build chains of several pairs.  *)
EXTENDS LeafHash

===============================================================================
