---------------------------- MODULE MCTraceHistory ----------------------------
(* Finite instances of TraceHistory for TLC. *)
EXTENDS TraceHistory, TLC

CONSTANTS s1, s2, users, logs, quoted, other, plain, different

OneSession == {s1}
TwoSessions == {s1, s2}
SessionsAlike == Permutations(TwoSessions)
TwoTables == {users, logs}
OneTable == {users}
OneText == {quoted}
NoTables == {}
LogsOnly == {logs}
TwoTexts == {quoted, other}
TwoContents == {plain, different}

DropQuotes == [x \in OneText |-> plain]
DropNothing == [x \in TwoTexts |-> IF x = other THEN different ELSE plain]

===============================================================================
