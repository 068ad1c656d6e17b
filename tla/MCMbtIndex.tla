----------------------------- MODULE MCMbtIndex -----------------------------
(* Two sessions and two indexes over four rows, two of them with one key,    *)
(* for MaxStatements statements; a threshold of two insertions, at most      *)
(* three nodes on a level and two columns in temp_node_id.  One range is     *)
(* narrow, one wide, one so wide that its size wraps.                        *)
EXTENDS MbtIndex, TLC

CONSTANT MaxStatements
VARIABLE statements

MCInit == Init /\ statements = 0

MCNext ==
  /\ statements < MaxStatements
  /\ statements' = statements + 1
  /\ Next

MCSpec == MCInit /\ [][MCNext]_<<vars, statements>>

FourRows == {<<1, 1>>, <<1, 2>>, <<2, 1>>, <<3, 1>>}
SomeRanges == {<<1, 1>>, <<-5, 2>>, <<-300, 300>>}
Symmetry == Permutations(Backends) \cup Permutations(Indexes)
=============================================================================
