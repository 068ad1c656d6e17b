------------------------------- MODULE AuthScan -------------------------------
(***************************************************************************)
(* Authenticated scans in one backend: AuthIndexNext of nodeIndexscan.c    *)
(* under the loop of ExecutePlan in execMain.c.                            *)
(*                                                                         *)
(* A scan asks the index for a verification object (VO) once, returns the  *)
(* rows behind its tids one by one, and at the end hands the VO to         *)
(* ExecutePlan, which sends it.  The VO, the position in it and the flag   *)
(* that says a scan is to begin are static variables of the file, shared   *)
(* by all scans of the backend: those of two cursors, and those of a       *)
(* statement and the next.  A portal stands for one open plan.             *)
(***************************************************************************)
EXTENDS Integers, Sequences

CONSTANTS Portals,     \* plans that can be open at a time
          Queries,     \* the range queries
          Size(_),     \* the rows in a query's range
          Projects(_), \* whether a query selects some of the columns only
          MaxOpens,    \* bound on the plans ever opened
          None         \* no query

ASSUME ScanAssumption == /\ None \notin Queries
                         /\ {"none", "garbage"} \cap Queries = {}
                         /\ \A r \in Queries : Size(r) \in Nat /\ Projects(r) \in BOOLEAN
                         /\ MaxOpens \in Nat

VARIABLES flag,         \* static: the next call begins a scan
          myvo,         \* static: the query whose VO is held, or None
          vector_index, \* static: the next item of the VO
          asked,        \* the query of a portal's plan, or None
          stage,        \* "closed", "open" or "done"
          rows,         \* the rows a portal has returned, by query and item
          vo,           \* what it sent as its VO: a query's, "none" or "garbage"
          slotFlag,     \* flag of the slot that ExecutePlan sees
          slotSet,      \* this call of ExecutePlan has set its slot
          opens,        \* the plans opened so far
          whole,        \* history: the plan was not stopped at a row count
          disturbed     \* history: a scan was left, or two were interleaved

statics == <<flag, myvo, vector_index>>
vars == <<statics, asked, stage, rows, vo, slotFlag, slotSet, opens, whole, disturbed>>

Init == /\ flag = TRUE /\ myvo = None /\ vector_index = 0
        /\ asked = [p \in Portals |-> None]
        /\ stage = [p \in Portals |-> "closed"]
        /\ rows = [p \in Portals |-> <<>>]
        /\ vo = [p \in Portals |-> "none"]
        /\ slotFlag = [p \in Portals |-> FALSE]
        /\ slotSet = [p \in Portals |-> FALSE]
        /\ opens = 0
        /\ whole = [p \in Portals |-> TRUE]
        /\ disturbed = FALSE

Begun(p) == stage[p] = "open" /\ rows[p] # <<>>
Disturbs(p) == \E q \in Portals \ {p} : Begun(q)

-------------------------------------------------------------------------------
(* ExecInitAuthSeqScan.  Nothing sets the flag of the new slots, which is  *)
(* whatever palloc's memory held.                                          *)
Open(p, r) ==
  /\ stage[p] = "closed" /\ opens < MaxOpens
  /\ opens' = opens + 1
  /\ asked' = [asked EXCEPT ![p] = r]
  /\ stage' = [stage EXCEPT ![p] = "open"]
  /\ \E junk \in BOOLEAN : slotFlag' = [slotFlag EXCEPT ![p] = junk]
  /\ UNCHANGED <<statics, rows, vo, slotSet, whole, disturbed>>

(* The VO a call of AuthIndexNext works with, and its place in it: its own *)
(* when the flag says that a scan begins, else the one that is held.       *)
Held(p) == IF flag THEN asked[p] ELSE myvo

(* Mutant of Index: the position is not reset when a scan begins. *)
IndexKept == vector_index

Index == IF flag THEN 0 ELSE vector_index

(* Mutant of NextRow: the end of the VO is missed by one. *)
NextRowPastEnd(p) ==
  /\ stage[p] = "open"
  /\ Index <= Size(Held(p))
  /\ flag' = FALSE
  /\ myvo' = Held(p)
  /\ vector_index' = Index + 1
  /\ rows' = [rows EXCEPT ![p] = Append(@, <<Held(p), Index>>)]
  /\ slotSet' = [slotSet EXCEPT ![p] = TRUE]
  /\ disturbed' = (disturbed \/ Disturbs(p))
  /\ UNCHANGED <<asked, stage, vo, slotFlag, opens, whole>>

(* AuthIndexNext finds another tid, and ExecutePlan sends its row. *)
NextRow(p) ==
  /\ stage[p] = "open"
  /\ Index < Size(Held(p))
  /\ flag' = FALSE
  /\ myvo' = Held(p)
  /\ vector_index' = Index + 1
  /\ rows' = [rows EXCEPT ![p] = Append(@, <<Held(p), Index>>)]
  /\ slotSet' = [slotSet EXCEPT ![p] = TRUE]
  /\ disturbed' = (disturbed \/ Disturbs(p))
  /\ UNCHANGED <<asked, stage, vo, slotFlag, opens, whole>>

(* What the printVO loop sends: the VO in the scan slot, where ExecScan    *)
(* hands that slot up; with a projection the slot is another one, and what *)
(* it holds is junk.                                                       *)
Sent(p, q, slot_flag) == IF ~slot_flag THEN "none"
                         ELSE IF slotSet[p] /\ ~Projects(asked[p]) THEN q
                         ELSE "garbage"

(* Mutants of LastRow: the flag stays down; the slot is not marked. *)
LastRowFlagDown(p) ==
  /\ stage[p] = "open"
  /\ Index = Size(Held(p))
  /\ flag' = FALSE
  /\ myvo' = None
  /\ vector_index' = Index
  /\ slotFlag' = IF Projects(asked[p]) THEN slotFlag ELSE [slotFlag EXCEPT ![p] = TRUE]
  /\ vo' = [vo EXCEPT ![p] = Sent(p, Held(p), slotFlag'[p])]
  /\ stage' = [stage EXCEPT ![p] = "done"]
  /\ disturbed' = (disturbed \/ Disturbs(p))
  /\ UNCHANGED <<asked, rows, slotSet, opens, whole>>

LastRowUnmarked(p) ==
  /\ stage[p] = "open"
  /\ Index = Size(Held(p))
  /\ flag' = TRUE
  /\ myvo' = None
  /\ vector_index' = Index
  /\ slotFlag' = slotFlag
  /\ vo' = [vo EXCEPT ![p] = Sent(p, Held(p), slotFlag'[p])]
  /\ stage' = [stage EXCEPT ![p] = "done"]
  /\ disturbed' = (disturbed \/ Disturbs(p))
  /\ UNCHANGED <<asked, rows, slotSet, opens, whole>>

(* AuthIndexNext comes to the end of the VO and puts it in the scan slot;  *)
(* ExecutePlan leaves its loop and sends it through the slot of the last   *)
(* row of this call.  A call without a row has no such slot.               *)
LastRow(p) ==
  /\ stage[p] = "open"
  /\ Index = Size(Held(p))
  /\ flag' = TRUE
  /\ myvo' = None
  /\ vector_index' = Index
  /\ slotFlag' = IF Projects(asked[p]) THEN slotFlag ELSE [slotFlag EXCEPT ![p] = TRUE]
  /\ vo' = [vo EXCEPT ![p] = Sent(p, Held(p), slotFlag'[p])]
  /\ stage' = [stage EXCEPT ![p] = "done"]
  /\ disturbed' = (disturbed \/ Disturbs(p))
  /\ UNCHANGED <<asked, rows, slotSet, opens, whole>>

(* ExecutePlan has the number of rows it was asked for and looks at the    *)
(* flag of the slot although the scan did not come to its end.             *)
EnoughRows(p) ==
  /\ stage[p] = "open" /\ slotSet[p]
  /\ vo' = IF slotFlag[p] THEN [vo EXCEPT ![p] = "garbage"] ELSE vo
  /\ slotSet' = [slotSet EXCEPT ![p] = FALSE]
  /\ whole' = [whole EXCEPT ![p] = FALSE]
  /\ UNCHANGED <<statics, asked, stage, rows, slotFlag, opens, disturbed>>

(* ExecEndAuthIndexScan, at the end of the plan or when the portal is      *)
(* dropped, after an error or a cancel too: no static variable is reset.   *)
Close(p) ==
  /\ stage[p] # "closed"
  /\ stage' = [stage EXCEPT ![p] = "closed"]
  /\ asked' = [asked EXCEPT ![p] = None]
  /\ rows' = [rows EXCEPT ![p] = <<>>]
  /\ vo' = [vo EXCEPT ![p] = "none"]
  /\ slotFlag' = [slotFlag EXCEPT ![p] = FALSE]
  /\ slotSet' = [slotSet EXCEPT ![p] = FALSE]
  /\ whole' = [whole EXCEPT ![p] = TRUE]
  /\ disturbed' = (disturbed \/ Begun(p))
  /\ UNCHANGED <<statics, opens>>

(* Without a slot or with junk in it, ExecutePlan follows pointers that    *)
(* were never set: the backend may die of it, and another takes its place. *)
Die(p) ==
  /\ vo[p] = "garbage"
  /\ flag' = TRUE /\ myvo' = None /\ vector_index' = 0
  /\ asked' = [q \in Portals |-> None]
  /\ stage' = [q \in Portals |-> "closed"]
  /\ rows' = [q \in Portals |-> <<>>]
  /\ vo' = [q \in Portals |-> "none"]
  /\ slotFlag' = [q \in Portals |-> FALSE]
  /\ slotSet' = [q \in Portals |-> FALSE]
  /\ whole' = [q \in Portals |-> TRUE]
  /\ disturbed' = FALSE
  /\ UNCHANGED opens

Next == \E p \in Portals :
          \/ \E r \in Queries : Open(p, r)
          \/ NextRow(p)
          \/ LastRow(p)
          \/ EnoughRows(p)
          \/ Close(p)
          \/ Die(p)

Spec == Init /\ [][Next]_vars

-------------------------------------------------------------------------------
(* Properties *)

(* The variables have their types, and the position stays inside the VO    *)
(* that is held.                                                           *)
TypeOK ==
  /\ flag \in BOOLEAN
  /\ myvo \in Queries \cup {None}
  /\ vector_index \in Nat
  /\ myvo # None => vector_index <= Size(myvo)
  /\ asked \in [Portals -> Queries \cup {None}]
  /\ stage \in [Portals -> {"closed", "open", "done"}]
  /\ rows \in [Portals -> Seq((Queries \cup {None}) \X Nat)]
  /\ vo \in [Portals -> Queries \cup {"none", "garbage"}]
  /\ slotFlag \in [Portals -> BOOLEAN]
  /\ slotSet \in [Portals -> BOOLEAN]
  /\ opens \in 0 .. MaxOpens
  /\ whole \in [Portals -> BOOLEAN]
  /\ disturbed \in BOOLEAN

(* The rows that are the answer to q, or its beginning. *)
Answer(q, n) == [i \in 1 .. n |-> <<q, i - 1>>]

(* Every plan returns rows of its own range, each once and in order, and   *)
(* all of them when it comes to its end.                                   *)
ScansReturnTheirRows ==
  \A p \in Portals : stage[p] # "closed" =>
    /\ rows[p] = Answer(asked[p], Len(rows[p]))
    /\ stage[p] = "done" => Len(rows[p]) = Size(asked[p])

(* Scans that follow each other, each run to its end, do not meet in the   *)
(* static variables: what one leaves there is what the next must find.     *)
SerialScansReturnTheirRows == ~disturbed => ScansReturnTheirRows

(* In such a sequence, a query for all columns of a range with rows in it, *)
(* run by a single call, is answered with its own VO.                      *)
SerialScansSendTheirVo ==
  ~disturbed =>
    \A p \in Portals :
      stage[p] = "done" /\ whole[p] /\ ~Projects(asked[p]) /\ Size(asked[p]) > 0
        => vo[p] = asked[p]

(* The flag is down exactly while a scan is under way, and then the VO and *)
(* the position are its own.                                               *)
StaticsBelongToTheScan ==
  ~disturbed =>
    /\ flag <=> ~\E p \in Portals : Begun(p)
    /\ \A p \in Portals : Begun(p) => myvo = asked[p] /\ vector_index = Len(rows[p])

===============================================================================
