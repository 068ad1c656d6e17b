------------------------------- MODULE KeyStore -------------------------------
(***************************************************************************)
(* What an index promises about its keys: a key is added once, removed     *)
(* once, and the answer (0, or -1 for "already there" and "not there")     *)
(* tells which.                                                            *)
(***************************************************************************)
EXTENDS Integers

CONSTANTS Keys

VARIABLES keys,   \* the keys a search finds
          answer  \* what the last call returned

Init == keys = {} /\ answer = 0

Add(k) == /\ keys' = keys \cup {k}
          /\ answer' = IF k \in keys THEN -1 ELSE 0

Remove(k) == /\ keys' = keys \ {k}
             /\ answer' = IF k \in keys THEN 0 ELSE -1

Next == \E k \in Keys : Add(k) \/ Remove(k)

Spec == Init /\ [][Next]_<<keys, answer>>

===============================================================================
