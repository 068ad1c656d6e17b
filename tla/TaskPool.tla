------------------------------- MODULE TaskPool -------------------------------
(***************************************************************************)
(* What the thread pool of libpq (threadpool.c) promises its caller: a     *)
(* bounded first-in first-out store of tasks.  A task that was accepted is *)
(* begun at most once and in the order of acceptance; once the pool is     *)
(* closed nothing more is accepted; a cancelled pool begins nothing more,  *)
(* a draining one still begins what it had accepted.                       *)
(***************************************************************************)
EXTENDS Naturals, Sequences

CONSTANTS Tasks, Capacity

VARIABLES pending,  \* accepted tasks not begun yet, oldest first
          begun,    \* tasks handed to a worker, in that order
          finished, \* tasks whose function has returned
          mode      \* "open", "draining" or "cancelled"

vars == <<pending, begun, finished, mode>>

Elements(s) == {s[i] : i \in 1 .. Len(s)}

Init == /\ pending = <<>>
        /\ begun = <<>>
        /\ finished = {}
        /\ mode = "open"

Accept(t) == /\ mode = "open"
             /\ Len(pending) < Capacity
             /\ t \notin Elements(pending) \cup Elements(begun)
             /\ pending' = Append(pending, t)
             /\ UNCHANGED <<begun, finished, mode>>

Begin == /\ mode # "cancelled"
         /\ pending # <<>>
         /\ begun' = Append(begun, Head(pending))
         /\ pending' = Tail(pending)
         /\ UNCHANGED <<finished, mode>>

Finish(t) == /\ t \in Elements(begun) \ finished
             /\ finished' = finished \cup {t}
             /\ UNCHANGED <<pending, begun, mode>>

Close == /\ mode = "open"
         /\ mode' \in {"draining", "cancelled"}
         /\ UNCHANGED <<pending, begun, finished>>

Next == \/ \E t \in Tasks : Accept(t) \/ Finish(t)
        \/ Begin
        \/ Close

Spec == Init /\ [][Next]_vars

===============================================================================
