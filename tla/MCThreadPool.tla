----------------------------- MODULE MCThreadPool -----------------------------
(* Finite instances of ThreadPool for TLC. *)
EXTENDS ThreadPool

CONSTANTS t1, t2, t3, d1, d2

ThreeTasks == {t1, t2, t3}
TwoDestroyers == {d1, d2}

===============================================================================
