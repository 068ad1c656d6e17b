------------------------------ MODULE VoTransfer ------------------------------
(***************************************************************************)
(* The way of a VO to the client: printVO of src/backend/access/common/    *)
(* printtup.c cuts it into pieces, and pqParseInput3 of                    *)
(* src/interfaces/libpq/fe-protocol3.c puts the pieces together, rebuilds  *)
(* the root and compares it with the root it was sent before.              *)
(*                                                                         *)
(* A client process may have several connections and read them in turn.    *)
(* mbt_count (pieces to come), vo_object (the buffer) and mbroot (the root *)
(* to compare with) are variables of the process, not of a connection.     *)
(* The messages of a connection arrive in order; instead of the rest of a  *)
(* reply there may be an error message, or nothing more.                   *)
(***************************************************************************)
EXTENDS Integers, FiniteSets

CONSTANTS Conns,       \* connections of one client process
          MaxPieces,   \* bound on the pieces of a VO
          MaxCommands  \* bound on the commands sent

ASSUME TransferAssumption == MaxPieces \in Nat \ {0} /\ MaxCommands \in Nat

VARIABLES reply,      \* per connection: the command being answered, and the
                      \* number of the message to be read next
          mbt_count,
          vo_object,
          mbroot,     \* "null", "uninit" (allocated, never written), "sent"
          verdict,    \* per command: the buffer its root was rebuilt from
          broken,     \* the process wrote outside a buffer or through NULL
          commands,   \* commands sent so far
          lost,       \* history: commands whose reply was cut short
          disturbed   \* history: a VO was cut short, or two were interleaved

client == <<mbt_count, vo_object, mbroot, verdict, broken>>
vars == <<reply, client, commands, lost, disturbed>>

Commands == 1 .. MaxCommands
Blank == [of |-> 0, piece |-> 0]
Piece(q, i) == [of |-> q, piece |-> i]
Pieces == [of : Commands, piece : 1 .. MaxPieces] \cup {Blank}
NoBuffer == [i \in {} |-> Blank]
Buffers == UNION {[1 .. n -> Pieces] : n \in 0 .. MaxPieces}

Replies == [kind : {"none", "select", "insert"}, of : 0 .. MaxCommands,
            count : 0 .. MaxPieces, next : 1 .. MaxPieces + 2, traced : BOOLEAN]
NoReply == [kind |-> "none", of |-> 0, count |-> 0, next |-> 1, traced |-> FALSE]

Init == /\ reply = [c \in Conns |-> NoReply]
        /\ mbt_count = 0 /\ vo_object = NoBuffer /\ mbroot = "null"
        /\ verdict = [q \in Commands |-> NoBuffer]
        /\ broken = FALSE
        /\ commands = 0 /\ lost = {} /\ disturbed = FALSE

-------------------------------------------------------------------------------
(* Commands and the server's messages *)

(* A connection in the middle of a VO *)
Begun(c) == /\ reply[c].kind = "select"
            /\ 1 < reply[c].next /\ reply[c].next <= reply[c].count

Send(c, kind, count, traced) ==
  /\ ~broken
  /\ reply[c] = NoReply
  /\ commands < MaxCommands
  /\ commands' = commands + 1
  /\ reply' = [reply EXCEPT ![c] = [kind |-> kind, of |-> commands + 1, count |-> count,
                                    next |-> 1, traced |-> traced]]
  /\ UNCHANGED <<client, lost, disturbed>>

(* An authenticated query: ExecutePlan sends hashmap_num pieces, then the  *)
(* command is complete.  There are none if the flag of the last slot is    *)
(* not set, as after a projection, or the answer is empty.                 *)
Select(c) == \E n \in 0 .. MaxPieces : Send(c, "select", n, FALSE)

(* An INSERT is reported complete without a root; the root is in the tag   *)
(* of the INSERT into the history table that follows, unless that fails.   *)
Insert(c) == \E traced \in BOOLEAN : Send(c, "insert", 0, traced)

(* The rest of the reply never comes: the connection is lost, or 'E' is    *)
(* read in its place.  Neither touches the variables of the process.       *)
CutShort(c) ==
  /\ ~broken
  /\ reply[c] # NoReply
  /\ reply' = [reply EXCEPT ![c] = NoReply]
  /\ lost' = lost \cup {reply[c].of}
  /\ disturbed' = (disturbed \/ Begun(c))
  /\ UNCHANGED <<client, commands>>

-------------------------------------------------------------------------------
(* pqParseInput3 *)

(* Mutant of Begins: with one piece still to come. *)
BeginsSoon == mbt_count <= 1

(* 'U': a count of zero says that a VO begins.  The place of a piece is    *)
(* told by the count it carries and the count that is left.                *)
Begins == mbt_count = 0
Remaining(c) == IF Begins THEN reply[c].count ELSE mbt_count

Buffer(c) == IF Begins THEN [i \in 1 .. reply[c].count |-> Blank] ELSE vo_object
PlaceOf(c) == reply[c].count - Remaining(c) + 1

(* Mutants of Complete: the VO is taken to be complete a piece too soon,   *)
(* or never.                                                               *)
CompleteSoon(c) == Remaining(c) <= 2
CompleteNever(c) == Remaining(c) < 1

Complete(c) == Remaining(c) <= 1

ReadPiece(c) ==
  LET r == reply[c]
      filled == [Buffer(c) EXCEPT ![PlaceOf(c)] = Piece(r.of, r.next)]
  IN  /\ ~broken
      /\ r.kind = "select" /\ r.next <= r.count
      /\ reply' = [reply EXCEPT ![c].next = @ + 1]
      /\ disturbed' = (disturbed \/ \E d \in Conns \ {c} : Begun(d))
      /\ UNCHANGED <<mbroot, commands, lost>>
      /\ \/ /\ PlaceOf(c) \notin DOMAIN Buffer(c)
            /\ broken' = TRUE
            /\ UNCHANGED <<mbt_count, vo_object, verdict>>
         \/ /\ PlaceOf(c) \in DOMAIN Buffer(c)
            /\ mbt_count' = Remaining(c) - 1
            /\ broken' = (Complete(c) /\ mbroot = "null")
            /\ vo_object' = IF Complete(c) THEN NoBuffer ELSE filled
            /\ verdict' = IF Complete(c) THEN [verdict EXCEPT ![r.of] = filled] ELSE verdict

(* 'C' with a root in its tag, or without one *)
TakeRoot(sent) == mbroot' = CASE sent -> "sent"
                              [] ~sent /\ mbroot = "null" -> "uninit"
                              [] OTHER -> mbroot

ReadComplete(c) ==
  /\ ~broken
  /\ reply[c].kind = "select" /\ reply[c].next = reply[c].count + 1
  /\ reply' = [reply EXCEPT ![c] = NoReply]
  /\ TakeRoot(FALSE)
  /\ UNCHANGED <<mbt_count, vo_object, verdict, broken, commands, lost, disturbed>>

(* The INSERT's own tag, then that of the INSERT into the history *)
ReadInserted(c) ==
  /\ ~broken
  /\ reply[c].kind = "insert"
  /\ reply' = [reply EXCEPT ![c] = IF @.next = 1 /\ @.traced THEN [@ EXCEPT !.next = 2]
                                                             ELSE NoReply]
  /\ TakeRoot(reply[c].next = 2)
  /\ UNCHANGED <<mbt_count, vo_object, verdict, broken, commands, lost, disturbed>>

Read(c) == ReadPiece(c) \/ ReadComplete(c) \/ ReadInserted(c)

Next == \E c \in Conns : Select(c) \/ Insert(c) \/ CutShort(c) \/ Read(c)

Spec == Init /\ [][Next]_vars

(* An application that waits for a result reads until it is there. *)
FairSpec == Spec /\ \A c \in Conns : WF_vars(Read(c))

-------------------------------------------------------------------------------
(* Properties *)

WholeVo(q, n) == [i \in 1 .. n |-> Piece(q, i)]

(* The counter is a count of pieces, and the buffer is of its size. *)
TypeOK == /\ reply \in [Conns -> Replies]
          /\ mbt_count \in 0 .. MaxPieces
          /\ vo_object \in Buffers
          /\ mbroot \in {"null", "uninit", "sent"}
          /\ verdict \in [Commands -> Buffers]
          /\ broken \in BOOLEAN
          /\ commands \in 0 .. MaxCommands
          /\ lost \subseteq Commands
          /\ disturbed \in BOOLEAN

(* The counter and the buffer are those of the one transfer under way. *)
Synced ==
  /\ \A c, d \in Conns : Begun(c) /\ Begun(d) => c = d
  /\ (\A c \in Conns : ~Begun(c)) => mbt_count = 0 /\ vo_object = NoBuffer
  /\ \A c \in Conns : Begun(c) =>
       LET r == reply[c]
       IN  /\ mbt_count = r.count - r.next + 1
           /\ vo_object = [i \in 1 .. r.count |->
                             IF i < r.next THEN Piece(r.of, i) ELSE Blank]

(* As long as no VO was cut short and no two were read in turn, the one    *)
(* counter and the one buffer of the process are those of the transfer     *)
(* under way: the count is what is still to come of it, the buffer holds   *)
(* what came.  Without a transfer they are zero and empty.                 *)
CounterFollowsTransfer == ~disturbed /\ ~broken => Synced

(* On a client that was not disturbed every root is rebuilt from the VO of *)
(* the command it is shown with, all its pieces in order.                  *)
VerdictOnOwnVo ==
  ~disturbed => \A q \in Commands :
    verdict[q] = NoBuffer \/ \E n \in 1 .. MaxPieces : verdict[q] = WholeVo(q, n)

(* A client that was not disturbed fails only if an authenticated query    *)
(* was the first command whose end it saw: there is no root to compare.    *)
CalmClientLives == broken => disturbed \/ mbroot = "null"

(* Every query whose answer comes with a VO gets its verdict, unless the    *)
(* reply is cut short, the client was disturbed, or it failed.  Queries     *)
(* without a VO get none: the count never comes down to zero for them.      *)
EveryVoGetsItsVerdict ==
  \A q \in Commands :
    (\E c \in Conns : reply[c].of = q /\ reply[c].count > 0)
      ~> (verdict[q] # NoBuffer \/ q \in lost \/ disturbed \/ broken)

===============================================================================
