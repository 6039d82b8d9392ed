------------------------ MODULE OrdersConsoleProofs ------------------------
(***************************************************************************)
(* OrdersConsole for any number of orders, clicks and losses: the types,   *)
(* that an order which works on the exchange is listed, that a filled one  *)
(* shows among the positions, that the operator reopens no order, and that *)
(* what the console counts agrees with what it lists.                      *)
(***************************************************************************)
EXTENDS OrdersConsole, SumLemmas

(* The types, with the locals of the executor typed at every step. *)
Seen == UNION {[S -> Row] : S \in SUBSET Order}
Listed == UNION {[S -> BOOLEAN] : S \in SUBSET Order}
Answer == [state : {"none", "live", "dead"}, matched : 0..2]
Stack == [pc : Pc, o : Order \cup {NoOrder}, seen : Seen, answer : Answer]
Page == [list : Listed, confirm : Order \cup {NoOrder, AllOrders},
         pending : Order \cup {NoOrder}]

Shape ==
    /\ row \in [Order -> Row]
    /\ pos \in [Order -> Position]
    /\ clob \in [Order -> Answer]
    /\ exec \in Stack
    /\ exec.pc \notin {"idle", "poll"} => exec.o \in Order
    /\ exec.pc \in {"poll", "write", "book"} \/ exec.seen = <<>>
    /\ exec.pc \in {"write", "book"} => exec.o \in DOMAIN exec.seen
    /\ lost \in SUBSET (Order \X {"ack", "work", "book"})
    /\ page \in Page
    /\ wire \in SUBSET (Order \cup {AllOrders})

(***************************************************************************)
(* The inductive invariant.  A row that says the order was not yet sent,   *)
(* in the table or in the list the executor read, is right about it unless *)
(* the answer was lost; so whoever closes such a row, the poller or the    *)
(* reconciler, closes no order that works.                                 *)
(***************************************************************************)
InFlightStatus == {"PENDING_SUBMISSION", "SENT"}
Unsent(o) == clob[o].state = "none" \/ <<o, "ack">> \in lost
AckDue(o) == exec.pc = "ack" /\ exec.o = o

SendInv ==
    /\ \A o \in Order : clob[o].matched = 2 => clob[o].state = "dead"
    /\ \A o \in Order : row[o].status = "none" => clob[o].state = "none"
    /\ \A o \in Order : row[o].status \in InFlightStatus => Unsent(o) \/ AckDue(o)
    /\ \A o \in DOMAIN exec.seen :
          exec.seen[o].status \in {"OPEN", "PARTIALLY_FILLED"} \/ Unsent(o)
    /\ exec.pc \in {"send", "post"} =>
          row[exec.o].status # "none" /\ clob[exec.o].state = "none"
    /\ exec.pc = "reject" => Unsent(exec.o)
    /\ exec.pc = "write" /\ NewStatus(exec.answer) \in CLOSED_STATUSES =>
          clob[exec.o].state = "dead"

(* Between the two writes of the poll the order is ahead of its position. *)
Between(o) == exec.pc = "book" /\ exec.o = o

BookInv ==
    /\ \A o \in Order : row[o].status = "FILLED" => row[o].filled = 2
    /\ \A o \in DOMAIN exec.seen : Between(o) \/ exec.seen[o].filled = row[o].filled
    /\ \A o \in Order :
          <<o, "book">> \in lost \/ Between(o) \/ pos[o].bought = row[o].filled
    /\ exec.pc = "book" /\ <<exec.o, "book">> \notin lost =>
          /\ pos[exec.o].bought = exec.seen[exec.o].filled
          /\ row[exec.o].filled = exec.answer.matched
-----------------------------------------------------------------------------
(* A list of no rows has its type. *)
LEMMA EmptyList == <<>> \in Seen /\ <<>> \in Listed /\ DOMAIN <<>> = {}
<1>1. <<>> \in [{} -> Row] /\ <<>> \in [{} -> BOOLEAN] /\ DOMAIN <<>> = {}
  OBVIOUS
<1> QED
  BY <1>1 DEF Seen, Listed

(* The rows read and not yet handled. *)
LEMMA SeenType ==
  ASSUME NEW seen \in Seen
  PROVE  /\ DOMAIN seen \subseteq Order
         /\ \A o \in DOMAIN seen : seen[o] \in Row
BY DEF Seen

LEMMA ContinueType ==
  ASSUME exec \in Stack, NEW o
  PROVE  /\ Continue(o) \in Stack
         /\ Continue(o).pc \in {"idle", "poll"}
         /\ Continue(o).pc = "poll" \/ Continue(o).seen = <<>>
         /\ Continue(o).seen = [p \in DOMAIN exec.seen \ {o} |-> exec.seen[p]]
<1>1. exec.seen \in Seen
  BY DEF Stack
<1>2. Without(o) \in [DOMAIN exec.seen \ {o} -> Row]
  BY <1>1, SeenType DEF Without
<1>3. Without(o) \in Seen
  BY <1>1, <1>2, SeenType DEF Seen
<1>4. Idle \in Stack
  BY EmptyList DEF Idle, Stack, Pc, NoAnswer, Answer
<1> QED
  BY <1>3, <1>4 DEF Continue, Idle, Stack, Pc, Without

(* A status the executor writes is a status. *)
LEMMA NewStatusType ==
  ASSUME NEW answer
  PROVE  NewStatus(answer) \in {"FILLED", "PARTIALLY_FILLED", "CANCELED", "OPEN"}
BY DEF NewStatus

(* The list the page fetches. *)
LEMMA BlotterType == ActiveBlotter \in Listed
<1>1. ListFor("active", ListLimit, AnyDay) \in SUBSET Order
  BY DEF ListFor, GetOrders, With
<1>2. ActiveBlotter \in [ListFor("active", ListLimit, AnyDay) -> BOOLEAN]
  BY DEF ActiveBlotter
<1> QED
  BY <1>1, <1>2 DEF Listed
-----------------------------------------------------------------------------
(* The types hold in every reachable state. *)
LEMMA AtType ==
  ASSUME NEW pc \in Pc, NEW o \in Order
  PROVE  At(pc, o) \in Stack /\ At(pc, o) = [Idle EXCEPT !.pc = pc, !.o = o]
<1>1. Idle \in [pc : {"idle"}, o : {NoOrder}, seen : Seen, answer : Answer]
  BY EmptyList DEF Idle, NoAnswer, Answer
<1> QED
  BY <1>1 DEF At, Stack

LEMMA InitShape == Init => Shape
<1> SUFFICES ASSUME Init PROVE Shape
  OBVIOUS
<1>1. exec \in Stack
  BY EmptyList DEF Init, Idle, Stack, Pc, NoAnswer, Answer
<1>2. page \in Page
  BY EmptyList DEF Init, FreshPage, Page
<1>3. row \in [Order -> Row] /\ pos \in [Order -> Position] /\ clob \in [Order -> Answer]
  BY DEF Init, NoRow, Row, NoPosition, Position, NoAnswer, Answer
<1> QED
  BY <1>1, <1>2, <1>3 DEF Init, Shape, Idle

LEMMA OrderIsTyped ==
  ASSUME NEW o \in Order
  PROVE  o \in Nat /\ o # NoOrder /\ o # AllOrders
BY BoundAssumption DEF Order, NoOrder, AllOrders

(* A status written keeps the table's type. *)
LEMMA WriteType ==
  ASSUME row \in [Order -> Row], NEW o \in Order,
         NEW status \in ACTIVE_STATUSES \cup CLOSED_STATUSES, Write(o, status)
  PROVE  row' \in [Order -> Row]
BY DEF Write, Row

LEMMA RequestedType ==
  ASSUME row \in [Order -> Row], NEW o \in Order
  PROVE  Requested(o) \in {"CANCEL_REQUESTED", row[o].status}
BY DEF Requested, Row

LEMMA PlaceShape ==
  ASSUME Shape, InsertOrder \/ MarkSent \/ PostAccepted \/ PostRefused \/ PostLost
                \/ MarkOpen \/ BookWorking \/ MarkRejected
  PROVE  Shape'
<1> USE DEF Shape, console, books
<1>1. Idle \in Stack
  BY EmptyList DEF Idle, Stack, Pc, NoAnswer, Answer
<1>2. \A pc \in Pc, o \in Order : At(pc, o) \in Stack /\ At(pc, o).pc = pc
                                  /\ At(pc, o).o = o /\ At(pc, o).seen = <<>>
  BY AtType, <1>1 DEF Idle, At, Stack
<1>3. {"PENDING_SUBMISSION", "SENT", "OPEN", "REJECTED"} \subseteq
          ACTIVE_STATUSES \cup CLOSED_STATUSES
  BY DEF ACTIVE_STATUSES, CLOSED_STATUSES
<1>4. {"send", "post", "ack", "reject", "work"} \subseteq Pc
  BY DEF Pc
<1>5. CASE InsertOrder
  BY <1>2, <1>3, <1>4, <1>5, WriteType DEF InsertOrder
<1>6. CASE MarkSent
  BY <1>2, <1>3, <1>4, <1>6, WriteType DEF MarkSent
<1>7. CASE PostAccepted
  <2>1. clob' \in [Order -> Answer]
    BY <1>7 DEF PostAccepted, Answer
  <2> QED
    BY <1>2, <1>4, <1>7, <2>1 DEF PostAccepted
<1>8. CASE PostRefused
  BY <1>2, <1>4, <1>8 DEF PostRefused
<1>9. CASE PostLost
  <2>1. clob' \in [Order -> Answer]
    BY <1>9 DEF PostLost, Answer
  <2>2. lost' \in SUBSET (Order \X {"ack", "work", "book"})
    BY <1>9 DEF PostLost
  <2> QED
    BY <1>2, <1>4, <1>9, <2>1, <2>2 DEF PostLost
<1>10. CASE MarkOpen
  BY <1>2, <1>3, <1>4, <1>10, WriteType DEF MarkOpen
<1>11. CASE BookWorking
  <2>1. exec.o \in Order /\ pos \in [Order -> Position]
    BY <1>11 DEF BookWorking
  <2>2. pos' = [pos EXCEPT ![exec.o].working = @ + 2]
    BY <1>11 DEF BookWorking
  <2>3. pos[exec.o] \in Position /\ pos[exec.o].working + 2 \in Int
    BY <2>1 DEF Position
  <2>4. pos' = [pos EXCEPT ![exec.o] = [pos[exec.o] EXCEPT !.working = pos[exec.o].working + 2]]
    BY <2>1, <2>2
  <2>5. [pos[exec.o] EXCEPT !.working = pos[exec.o].working + 2] \in Position
    BY <2>3 DEF Position
  <2>6. pos' \in [Order -> Position]
    BY <2>1, <2>4, <2>5
  <2> QED
    BY <1>1, <1>11, <2>6 DEF BookWorking, Idle
<1>12. CASE MarkRejected
  BY <1>1, <1>3, <1>12, WriteType DEF MarkRejected, Idle
<1> QED
  BY <1>5, <1>6, <1>7, <1>8, <1>9, <1>10, <1>11, <1>12

LEMMA PollShape ==
  ASSUME Shape,
         ListOpen \/ UpdateOrder \/ UpdatePosition \/ Restart
         \/ \E o \in Order : Poll(o) \/ PollFailed(o) \/ Zombie(o)
  PROVE  Shape'
<1> USE DEF Shape, console, books
<1>1. /\ Idle \in Stack /\ Idle.pc = "idle" /\ Idle.seen = <<>>
  BY EmptyList DEF Idle, Stack, Pc, NoAnswer, Answer
<1>2. CASE ListOpen
  <2>1. With(BotOpen) \in SUBSET Order
    BY DEF With
  <2>2. [p \in With(BotOpen) |-> row[p]] \in [With(BotOpen) -> Row]
    BY <2>1
  <2>3. [p \in With(BotOpen) |-> row[p]] \in Seen
    BY <2>1, <2>2 DEF Seen
  <2>4. exec' \in Stack /\ exec'.pc = "poll"
    BY <1>1, <1>2, <2>3 DEF ListOpen, Stack, Pc
  <2> QED
    BY <1>2, <2>4 DEF ListOpen
<1>3. ASSUME NEW o \in Order, Poll(o) PROVE Shape'
  <2>1. CASE Changed(o)
    <3>1. o \in DOMAIN exec.seen
      BY <1>3 DEF Poll, Oldest
    <3>2. exec' = [exec EXCEPT !.pc = "write", !.o = o, !.answer = clob[o]]
      BY <1>3, <2>1 DEF Poll
    <3> QED
      BY <1>3, <3>1, <3>2 DEF Poll, Stack, Pc
  <2>2. CASE ~Changed(o)
    BY <1>3, <2>2, ContinueType DEF Poll
  <2> QED
    BY <2>1, <2>2
<1>4. ASSUME NEW o \in Order, PollFailed(o) PROVE Shape'
  BY <1>4, ContinueType DEF PollFailed
<1>5. ASSUME NEW o \in Order, Zombie(o) PROVE Shape'
  <2>1. "REJECTED" \in ACTIVE_STATUSES \cup CLOSED_STATUSES
    BY DEF CLOSED_STATUSES
  <2> QED
    BY <1>5, <2>1, WriteType, ContinueType DEF Zombie
<1>6. CASE UpdateOrder
  <2>1. NewStatus(exec.answer) \in ACTIVE_STATUSES \cup CLOSED_STATUSES
    BY NewStatusType DEF ACTIVE_STATUSES, CLOSED_STATUSES
  <2>2. exec.answer \in Answer
    BY DEF Stack
  <2>3. row' \in [Order -> Row]
    BY <1>6, <2>1, <2>2 DEF UpdateOrder, Row, Answer
  <2> QED
    BY <1>6, <2>3 DEF UpdateOrder, Stack, Pc
<1>7. CASE UpdatePosition
  <2>1. /\ exec.answer \in Answer /\ exec.seen[exec.o] \in Row
    BY <1>7, SeenType DEF UpdatePosition, Stack
  <2>2. pos' \in [Order -> Position]
    BY <1>7, <2>1 DEF UpdatePosition, Answer, Row, Position
  <2> QED
    BY <1>7, <2>2, ContinueType DEF UpdatePosition
<1>8. CASE Restart
  <2>1. lost' \in SUBSET (Order \X {"ack", "work", "book"})
    BY <1>8 DEF Restart
  <2> QED
    BY <1>1, <1>8, <2>1 DEF Restart
<1> QED
  BY <1>2, <1>3, <1>4, <1>5, <1>6, <1>7, <1>8

LEMMA ConsoleShape ==
  ASSUME Shape, SendInv, Operator \/ Server \/ \E o \in Order : Match(o) \/ Expire(o)
  PROVE  Shape'
<1> USE DEF Shape, console, books
<1>1. Refetched \in Listed
  BY BlotterType DEF Refetched, Page
<1>2. CASE FetchActive
  BY <1>2, BlotterType DEF FetchActive, Page
<1>3. CASE LeaveTab
  BY <1>3 DEF LeaveTab, Page
<1>4. CASE AskCancelAll
  BY <1>4 DEF AskCancelAll, Page
<1>5. CASE Abort
  BY <1>5 DEF Abort, Page
<1>6. CASE Confirm
  BY <1>6 DEF Confirm, Page
<1>7. CASE ConfirmAll
  BY <1>7 DEF ConfirmAll
<1>8. ASSUME NEW o \in Order, AskCancel(o) PROVE Shape'
  BY <1>8 DEF AskCancel, Page
<1>9. ASSUME NEW o \in Order, CancelOne(o) PROVE Shape'
  <2>1. row' \in [Order -> Row]
    BY <1>9, RequestedType DEF CancelOne, Write, Row, ACTIVE_STATUSES
  <2> QED
    BY <1>1, <1>9, <2>1 DEF CancelOne, Page
<1>10. CASE CancelAll
  <2>1. row' \in [Order -> Row]
    BY <1>10 DEF CancelAll, Row, ACTIVE_STATUSES
  <2> QED
    BY <1>1, <1>10, <2>1 DEF CancelAll, Page
<1>11. ASSUME NEW o \in wire, CancelLost(o) PROVE Shape'
  BY <1>11 DEF CancelLost, Page
<1>12. ASSUME NEW o \in Order, Match(o) PROVE Shape'
  <2>1. clob[o].matched + 1 \in 0..2
    BY <1>12 DEF SendInv, Match, Answer
  <2>2. clob' \in [Order -> Answer]
    BY <1>12, <2>1 DEF Match, Answer
  <2> QED
    BY <1>12, <2>2 DEF Match
<1>13. ASSUME NEW o \in Order, Expire(o) PROVE Shape'
  <2>1. clob' \in [Order -> Answer]
    BY <1>13 DEF Expire, Answer
  <2> QED
    BY <1>13, <2>1 DEF Expire
<1> QED
  BY <1>2, <1>3, <1>4, <1>5, <1>6, <1>7, <1>8, <1>9, <1>10, <1>11, <1>12, <1>13
     DEF Operator, Server
-----------------------------------------------------------------------------
(* SendInv is kept: first by the actions that change nothing it is about,  *)
(* then by the ones that write a row, and by the exchange.                 *)
LEMMA InitSendInv == Init => SendInv
<1> SUFFICES ASSUME Init PROVE SendInv
  OBVIOUS
<1>1. DOMAIN exec.seen = {} /\ exec.pc = "idle"
  BY EmptyList DEF Init, Idle
<1>2. \A o \in Order : clob[o] = NoAnswer /\ row[o].status = "none"
  BY DEF Init, NoRow
<1> QED
  BY <1>1, <1>2 DEF SendInv, NoAnswer, InFlightStatus

LEMMA PlaceSendInv ==
  ASSUME Shape, SendInv, InsertOrder \/ MarkSent \/ PostAccepted \/ PostRefused \/ PostLost
                \/ MarkOpen \/ BookWorking \/ MarkRejected
  PROVE  SendInv'
<1> USE DEF SendInv, Unsent, AckDue, InFlightStatus, books
<1>1. /\ row \in [Order -> Row] /\ clob \in [Order -> Answer]
      /\ exec.pc \notin {"idle", "poll"} => exec.o \in Order
      /\ \A pc \in Pc, o \in Order : At(pc, o).pc = pc /\ At(pc, o).o = o
                                     /\ DOMAIN At(pc, o).seen = {}
      /\ Idle.pc = "idle" /\ DOMAIN Idle.seen = {}
  BY EmptyList DEF Shape, At, Idle
<1>2. {"send", "post", "ack", "reject", "work"} \subseteq Pc
  BY DEF Pc
<1>3. CASE InsertOrder
  <2>1. PICK o \in Order : /\ Inserted = 1..(o - 1) /\ Write(o, "PENDING_SUBMISSION")
                           /\ exec' = At("send", o)
    BY <1>3 DEF InsertOrder
  <2>2. row[o].status = "none"
    <3>1. o \notin 1..(o - 1)
      BY OrderIsTyped
    <3> QED
      BY <2>1, <3>1 DEF Inserted
  <2> QED
    BY <1>1, <1>2, <1>3, <2>1, <2>2 DEF InsertOrder, Write, Row
<1>4. CASE MarkSent
  BY <1>1, <1>2, <1>4 DEF MarkSent, Write, Row
<1>5. CASE PostAccepted
  BY <1>1, <1>2, <1>5 DEF PostAccepted, Answer
<1>6. CASE PostRefused
  BY <1>1, <1>2, <1>6 DEF PostRefused
<1>7. CASE PostLost
  BY <1>1, <1>2, <1>7 DEF PostLost, Answer
<1>8. CASE MarkOpen
  BY <1>1, <1>2, <1>8 DEF MarkOpen, Write, Row
<1>9. CASE BookWorking
  BY <1>1, <1>9 DEF BookWorking
<1>10. CASE MarkRejected
  BY <1>1, <1>10 DEF MarkRejected, Write, Row
<1> QED
  BY <1>3, <1>4, <1>5, <1>6, <1>7, <1>8, <1>9, <1>10

LEMMA PollSendInv ==
  ASSUME Shape, SendInv,
         ListOpen \/ UpdateOrder \/ UpdatePosition \/ Restart
         \/ \E o \in Order : Poll(o) \/ PollFailed(o) \/ Zombie(o)
  PROVE  SendInv'
<1> USE DEF SendInv, Unsent, AckDue, InFlightStatus, books
<1>1. /\ row \in [Order -> Row] /\ clob \in [Order -> Answer]
      /\ exec \in Stack
      /\ exec.pc \notin {"idle", "poll"} => exec.o \in Order
      /\ exec.pc \in {"write", "book"} => exec.o \in DOMAIN exec.seen
      /\ Idle \in Stack /\ Idle.pc = "idle" /\ DOMAIN Idle.seen = {}
  BY EmptyList DEF Shape, Idle, Stack, Pc, NoAnswer, Answer
<1>2. \A p : /\ Continue(p).pc \in {"idle", "poll"}
             /\ DOMAIN Continue(p).seen = DOMAIN exec.seen \ {p}
             /\ \A q \in DOMAIN exec.seen \ {p} : Continue(p).seen[q] = exec.seen[q]
  <2> TAKE p
  <2>1. /\ Continue(p).pc \in {"idle", "poll"}
        /\ Continue(p).seen = [q \in DOMAIN exec.seen \ {p} |-> exec.seen[q]]
    BY <1>1, ContinueType
  <2> QED
    BY <2>1
<1>3. CASE ListOpen
  <2>1. /\ exec'.pc = "poll" /\ DOMAIN exec'.seen = With(BotOpen)
        /\ \A p \in With(BotOpen) : exec'.seen[p] = row[p]
        /\ exec.pc = "idle" /\ With(BotOpen) \subseteq Order
    BY <1>1, <1>3 DEF ListOpen, With, Idle
  <2>2. \A p \in With(BotOpen) :
           row[p].status \in {"OPEN", "PARTIALLY_FILLED"} \cup InFlightStatus
    BY DEF With, BotOpen
  <2> QED
    BY <1>1, <1>3, <2>1, <2>2 DEF ListOpen
<1>4. ASSUME NEW o \in Order, Poll(o) PROVE SendInv'
  <2>1. CASE Changed(o)
    <3>1. /\ exec'.pc = "write" /\ exec'.o = o /\ exec'.answer = clob[o]
          /\ exec'.seen = exec.seen
      BY <1>1, <1>4, <2>1 DEF Poll, Stack
    <3>2. NewStatus(clob[o]) \in CLOSED_STATUSES => clob[o].state = "dead"
      BY <1>1 DEF NewStatus, CLOSED_STATUSES, Answer
    <3> QED
      BY <1>1, <1>4, <3>1, <3>2 DEF Poll
  <2>2. CASE ~Changed(o)
    <3>1. /\ exec' = Continue(o) /\ exec.pc = "poll"
          /\ row' = row /\ pos' = pos /\ clob' = clob /\ lost' = lost
      BY <1>4, <2>2 DEF Poll
    <3> QED
      BY <1>1, <1>2, <3>1
  <2> QED
    BY <2>1, <2>2
<1>5. ASSUME NEW o \in Order, PollFailed(o) PROVE SendInv'
  BY <1>1, <1>2, <1>5 DEF PollFailed
<1>6. ASSUME NEW o \in Order, Zombie(o) PROVE SendInv'
  BY <1>1, <1>2, <1>6 DEF Zombie, Write, Row
<1>7. CASE UpdateOrder
  <2>1. /\ exec'.pc = "book" /\ exec'.o = exec.o /\ exec'.seen = exec.seen
    BY <1>1, <1>7 DEF UpdateOrder, Stack
  <2>2. NewStatus(exec.answer) \notin {"none", "PENDING_SUBMISSION", "SENT"}
    BY NewStatusType
  <2> QED
    BY <1>1, <1>7, <2>1, <2>2 DEF UpdateOrder
<1>8. CASE UpdatePosition
  BY <1>1, <1>2, <1>8 DEF UpdatePosition
<1>9. CASE Restart
  BY <1>1, <1>9 DEF Restart
<1> QED
  BY <1>3, <1>4, <1>5, <1>6, <1>7, <1>8, <1>9

LEMMA ConsoleSendInv ==
  ASSUME Shape, SendInv, Operator \/ Server \/ \E o \in Order : Match(o) \/ Expire(o)
  PROVE  SendInv'
<1> USE DEF SendInv, Unsent, AckDue, InFlightStatus, books
<1>1. /\ row \in [Order -> Row] /\ clob \in [Order -> Answer] /\ exec \in Stack
      /\ exec.pc \notin {"idle", "poll"} => exec.o \in Order
      /\ DOMAIN exec.seen \subseteq Order
  BY SeenType DEF Shape, Stack
<1>2. CASE Operator
  BY <1>2 DEF Operator, FetchActive, LeaveTab, AskCancelAll, Abort, Confirm, ConfirmAll,
              AskCancel
<1>3. ASSUME NEW o \in Order, CancelOne(o) PROVE SendInv'
  <2>1. \A p \in Order : row'[p].status \in {"CANCEL_REQUESTED", row[p].status}
    BY <1>1, <1>3, RequestedType DEF CancelOne, Write, Row
  <2>2. /\ row[exec.o].status # "none" => row'[exec.o].status # "none"
        /\ clob' = clob /\ exec' = exec /\ lost' = lost
    BY <1>1, <1>3 DEF CancelOne, Write, Row, Requested
  <2> QED
    BY <1>1, <2>1, <2>2
<1>4. CASE CancelAll
  <2>1. /\ row' = [o \in Order |-> [row[o] EXCEPT !.status =
                     IF @ \in Cancelable THEN "CANCEL_REQUESTED" ELSE @]]
        /\ clob' = clob /\ exec' = exec /\ lost' = lost
    BY <1>4 DEF CancelAll
  <2>2. \A o \in Order : row[o] \in Row
    BY <1>1
  <2>3. \A o \in Order : row'[o].status \in {"CANCEL_REQUESTED", row[o].status}
    BY <2>1, <2>2 DEF Row
  <2>4. \A o \in Order : row[o].status # "none" => row'[o].status # "none"
    BY <2>3
  <2>5. exec.pc \in {"send", "post"} => exec.o \in Order
    BY <1>1
  <2> QED
    BY <1>1, <2>1, <2>3, <2>4, <2>5
<1>5. ASSUME NEW o \in wire, CancelLost(o) PROVE SendInv'
  BY <1>5 DEF CancelLost
<1>6. ASSUME NEW o \in Order, Match(o) PROVE SendInv'
  <2>1. clob[o].matched \in {0, 1} /\ clob[o].state = "live"
    BY <1>1, <1>6 DEF Match, Answer
  <2>2. /\ clob'[o] = [state |-> IF clob[o].matched = 1 THEN "dead" ELSE "live",
                       matched |-> clob[o].matched + 1]
        /\ \A p \in Order \ {o} : clob'[p] = clob[p]
    BY <1>1, <1>6 DEF Match
  <2>3. /\ clob'[o].state \in {"live", "dead"}
        /\ clob'[o].matched = 2 => clob'[o].state = "dead"
    BY <2>1, <2>2
  <2> QED
    BY <1>1, <1>6, <2>1, <2>2, <2>3 DEF Match
<1>7. ASSUME NEW o \in Order, Expire(o) PROVE SendInv'
  BY <1>1, <1>7 DEF Expire, Answer
<1> QED
  BY <1>2, <1>3, <1>4, <1>5, <1>6, <1>7 DEF Server
-----------------------------------------------------------------------------
(* BookInv is kept: only the poll writes what has been filled.             *)
LEMMA InitBookInv == Init => BookInv
<1> SUFFICES ASSUME Init PROVE BookInv
  OBVIOUS
<1>1. DOMAIN exec.seen = {} /\ exec.pc = "idle"
  BY EmptyList DEF Init, Idle
<1>2. \A o \in Order : pos[o].bought = 0 /\ row[o].status = "none" /\ row[o].filled = 0
  BY DEF Init, NoRow, NoPosition
<1> QED
  BY <1>1, <1>2 DEF BookInv

LEMMA PlaceBookInv ==
  ASSUME Shape, BookInv, InsertOrder \/ MarkSent \/ PostAccepted \/ PostRefused \/ PostLost
                \/ MarkOpen \/ BookWorking \/ MarkRejected
  PROVE  BookInv'
<1> USE DEF BookInv, Between, books
<1>1. /\ row \in [Order -> Row] /\ pos \in [Order -> Position]
      /\ exec.pc \notin {"idle", "poll"} => exec.o \in Order
      /\ \A pc, o : At(pc, o).pc = pc /\ DOMAIN At(pc, o).seen = {}
      /\ Idle.pc = "idle" /\ DOMAIN Idle.seen = {}
  BY EmptyList DEF Shape, At, Idle
<1> DEFINE Same == \A p \in Order : /\ row'[p].filled = row[p].filled
                                    /\ row'[p].status = "FILLED" => row[p].status = "FILLED"
<1>2. \A o \in Order, status \in {"PENDING_SUBMISSION", "SENT", "OPEN", "REJECTED"} :
         Write(o, status) => Same
  BY <1>1 DEF Write, Row
<1> HIDE DEF Same
<1>3. CASE InsertOrder
  <2>1. Same
    BY <1>2, <1>3 DEF InsertOrder
  <2> QED
    BY <1>1, <1>3, <2>1 DEF InsertOrder, Same
<1>4. CASE MarkSent
  <2>1. Same
    BY <1>1, <1>2, <1>4 DEF MarkSent
  <2> QED
    BY <1>1, <1>4, <2>1 DEF MarkSent, Same
<1>5. CASE PostAccepted
  BY <1>1, <1>5 DEF PostAccepted
<1>6. CASE PostRefused
  BY <1>1, <1>6 DEF PostRefused
<1>7. CASE PostLost
  BY <1>1, <1>7 DEF PostLost
<1>8. CASE MarkOpen
  <2>1. Same
    BY <1>1, <1>2, <1>8 DEF MarkOpen
  <2> QED
    BY <1>1, <1>8, <2>1 DEF MarkOpen, Same
<1>9. CASE BookWorking
  <2>1. \A p \in Order : pos'[p].bought = pos[p].bought
    BY <1>1, <1>9 DEF BookWorking, Position
  <2> QED
    BY <1>1, <1>9, <2>1 DEF BookWorking
<1>10. CASE MarkRejected
  <2>1. Same
    BY <1>1, <1>2, <1>10 DEF MarkRejected
  <2> QED
    BY <1>1, <1>10, <2>1 DEF MarkRejected, Same
<1> QED
  BY <1>3, <1>4, <1>5, <1>6, <1>7, <1>8, <1>9, <1>10

LEMMA PollBookInv ==
  ASSUME Shape, BookInv,
         ListOpen \/ UpdateOrder \/ UpdatePosition \/ Restart
         \/ \E o \in Order : Poll(o) \/ PollFailed(o) \/ Zombie(o)
  PROVE  BookInv'
<1> USE DEF BookInv, Between, books
<1>1. /\ row \in [Order -> Row] /\ pos \in [Order -> Position]
      /\ exec \in Stack
      /\ exec.pc \notin {"idle", "poll"} => exec.o \in Order
      /\ exec.pc \in {"write", "book"} => exec.o \in DOMAIN exec.seen
      /\ DOMAIN exec.seen \subseteq Order
      /\ Idle \in Stack /\ Idle.pc = "idle" /\ DOMAIN Idle.seen = {}
  BY EmptyList, SeenType DEF Shape, Idle, Stack, Pc, NoAnswer, Answer
<1>2. \A p : /\ Continue(p).pc \in {"idle", "poll"}
             /\ DOMAIN Continue(p).seen = DOMAIN exec.seen \ {p}
             /\ \A q \in DOMAIN exec.seen \ {p} : Continue(p).seen[q] = exec.seen[q]
  <2> TAKE p
  <2>1. /\ Continue(p).pc \in {"idle", "poll"}
        /\ Continue(p).seen = [q \in DOMAIN exec.seen \ {p} |-> exec.seen[q]]
    BY <1>1, ContinueType
  <2> QED
    BY <2>1
<1>3. CASE ListOpen
  <2>1. /\ exec'.pc = "poll" /\ DOMAIN exec'.seen \subseteq Order
        /\ \A p \in DOMAIN exec'.seen : exec'.seen[p] = row[p]
        /\ exec.pc = "idle"
    BY <1>1, <1>3 DEF ListOpen, With, Idle
  <2> QED
    BY <1>1, <1>3, <2>1 DEF ListOpen
<1>4. ASSUME NEW o \in Order, Poll(o) PROVE BookInv'
  <2>1. CASE Changed(o)
    <3>1. exec'.pc = "write" /\ exec'.seen = exec.seen
      BY <1>1, <1>4, <2>1 DEF Poll, Stack
    <3> QED
      BY <1>1, <1>4, <3>1 DEF Poll
  <2>2. CASE ~Changed(o)
    <3>1. /\ exec' = Continue(o) /\ exec.pc = "poll"
          /\ row' = row /\ pos' = pos /\ clob' = clob /\ lost' = lost
      BY <1>4, <2>2 DEF Poll
    <3> QED
      BY <1>1, <1>2, <3>1
  <2> QED
    BY <2>1, <2>2
<1>5. ASSUME NEW o \in Order, PollFailed(o) PROVE BookInv'
  BY <1>1, <1>2, <1>5 DEF PollFailed
<1>6. ASSUME NEW o \in Order, Zombie(o) PROVE BookInv'
  BY <1>1, <1>2, <1>6 DEF Zombie, Write, Row
<1>7. CASE UpdateOrder
  <2>1. /\ exec'.pc = "book" /\ exec'.o = exec.o /\ exec'.seen = exec.seen
        /\ exec'.answer = exec.answer /\ exec.pc = "write"
    BY <1>1, <1>7 DEF UpdateOrder, Stack
  <2>2. NewStatus(exec.answer) = "FILLED" => exec.answer.matched = 2
    BY DEF NewStatus
  <2>3. /\ row'[exec.o] = [status |-> NewStatus(exec.answer), filled |-> exec.answer.matched]
        /\ \A p \in Order \ {exec.o} : row'[p] = row[p]
    BY <1>1, <1>7 DEF UpdateOrder
  <2> QED
    BY <1>1, <1>7, <2>1, <2>2, <2>3 DEF UpdateOrder
<1>8. CASE UpdatePosition
  <2>1. /\ exec.seen[exec.o].filled \in Int /\ exec.answer.matched \in Int
        /\ exec.pc = "book"
    BY <1>1, <1>8, SeenType DEF UpdatePosition, Stack, Answer, Row
  <2>2. /\ pos'[exec.o].bought =
              pos[exec.o].bought + (exec.answer.matched - exec.seen[exec.o].filled)
        /\ \A p \in Order \ {exec.o} : pos'[p] = pos[p]
    BY <1>1, <1>8 DEF UpdatePosition, Position
  <2>3. <<exec.o, "book">> \in lost \/ pos'[exec.o].bought = row[exec.o].filled
    BY <1>1, <2>1, <2>2
  <2>4. exec' = Continue(exec.o) /\ row' = row /\ lost' = lost
    BY <1>8 DEF UpdatePosition
  <2> QED
    BY <1>1, <1>2, <2>1, <2>2, <2>3, <2>4
<1>9. CASE Restart
  BY <1>1, <1>9 DEF Restart
<1> QED
  BY <1>3, <1>4, <1>5, <1>6, <1>7, <1>8, <1>9

LEMMA ConsoleBookInv ==
  ASSUME Shape, BookInv, Operator \/ Server \/ \E o \in Order : Match(o) \/ Expire(o)
  PROVE  BookInv'
<1> USE DEF BookInv, Between, books
<1>1. /\ row \in [Order -> Row] /\ exec \in Stack
      /\ exec.pc \notin {"idle", "poll"} => exec.o \in Order
      /\ DOMAIN exec.seen \subseteq Order
  BY SeenType DEF Shape, Stack
<1>2. CASE Operator
  BY <1>2 DEF Operator, FetchActive, LeaveTab, AskCancelAll, Abort, Confirm, ConfirmAll,
              AskCancel
<1>3. ASSUME NEW o \in Order, CancelOne(o) PROVE BookInv'
  <2>1. \A p \in Order : /\ row'[p].status \in {"CANCEL_REQUESTED", row[p].status}
                         /\ row'[p].filled = row[p].filled
    BY <1>1, <1>3, RequestedType DEF CancelOne, Write, Row
  <2>2. pos' = pos /\ exec' = exec /\ lost' = lost
    BY <1>3 DEF CancelOne
  <2>3. exec.pc = "book" => exec.o \in Order
    BY <1>1
  <2> QED
    BY <1>1, <2>1, <2>2, <2>3
<1>4. CASE CancelAll
  <2>1. /\ row' = [o \in Order |-> [row[o] EXCEPT !.status =
                     IF @ \in Cancelable THEN "CANCEL_REQUESTED" ELSE @]]
        /\ pos' = pos /\ exec' = exec /\ lost' = lost
    BY <1>4 DEF CancelAll
  <2>2. \A o \in Order : row[o] \in Row
    BY <1>1
  <2>3. \A o \in Order : /\ row'[o].status \in {"CANCEL_REQUESTED", row[o].status}
                         /\ row'[o].filled = row[o].filled
    BY <2>1, <2>2 DEF Row
  <2>4. exec.pc = "book" => exec.o \in Order
    BY <1>1
  <2>5. pos' = pos /\ exec' = exec /\ lost' = lost
    BY <2>1
  <2> QED
    BY <1>1, <2>3, <2>4, <2>5
<1>5. ASSUME NEW o \in wire, CancelLost(o) PROVE BookInv'
  BY <1>5 DEF CancelLost
<1>6. ASSUME NEW o \in Order, Match(o) \/ Expire(o) PROVE BookInv'
  BY <1>6 DEF Match, Expire
<1> QED
  BY <1>2, <1>3, <1>4, <1>5, <1>6 DEF Server
-----------------------------------------------------------------------------
(* LiveIsListed is kept: a row is closed by the bot alone, when the order  *)
(* was not taken, when the exchange has ended it, or when the answer that  *)
(* it was taken is lost.                                                   *)
LEMMA PlaceLive ==
  ASSUME Shape, SendInv, LiveIsListed,
         InsertOrder \/ MarkSent \/ PostAccepted \/ PostRefused \/ PostLost
         \/ MarkOpen \/ BookWorking \/ MarkRejected
  PROVE  LiveIsListed'
<1> USE DEF LiveIsListed, books
<1>1. /\ row \in [Order -> Row] /\ clob \in [Order -> Answer]
      /\ exec.pc \notin {"idle", "poll"} => exec.o \in Order
      /\ \A pc, o : At(pc, o).pc = pc /\ At(pc, o).o = o
      /\ Idle.pc = "idle"
  BY DEF Shape, At, Idle
<1>2. {"PENDING_SUBMISSION", "SENT", "OPEN"} \subseteq ACTIVE_STATUSES
  BY DEF ACTIVE_STATUSES
<1>3. CASE InsertOrder
  BY <1>1, <1>2, <1>3 DEF InsertOrder, Write, Idle
<1>4. CASE MarkSent
  BY <1>1, <1>2, <1>4 DEF MarkSent, Write
<1>5. CASE PostAccepted
  BY <1>1, <1>5 DEF PostAccepted
<1>6. CASE PostRefused
  BY <1>1, <1>6 DEF PostRefused
<1>7. CASE PostLost
  BY <1>1, <1>7 DEF PostLost
<1>8. CASE MarkOpen
  BY <1>1, <1>2, <1>8 DEF MarkOpen, Write
<1>9. CASE BookWorking
  BY <1>1, <1>9 DEF BookWorking
<1>10. CASE MarkRejected
  <2>1. Unsent(exec.o)
    BY <1>10 DEF SendInv, MarkRejected
  <2> QED
    BY <1>1, <1>10, <2>1 DEF MarkRejected, Write, Unsent
<1> QED
  BY <1>3, <1>4, <1>5, <1>6, <1>7, <1>8, <1>9, <1>10

LEMMA PollLive ==
  ASSUME Shape, SendInv, LiveIsListed,
         ListOpen \/ UpdateOrder \/ UpdatePosition \/ Restart
         \/ \E o \in Order : Poll(o) \/ PollFailed(o) \/ Zombie(o)
  PROVE  LiveIsListed'
<1> USE DEF LiveIsListed, books
<1>1. /\ row \in [Order -> Row] /\ clob \in [Order -> Answer] /\ exec \in Stack
      /\ exec.pc \notin {"idle", "poll"} => exec.o \in Order
      /\ Idle.pc = "idle"
  BY DEF Shape, Idle
<1>2. CASE ListOpen
  BY <1>1, <1>2 DEF ListOpen
<1>3. ASSUME NEW o \in Order, Poll(o) PROVE LiveIsListed'
  BY <1>1, <1>3 DEF Poll
<1>4. ASSUME NEW o \in Order, PollFailed(o) PROVE LiveIsListed'
  BY <1>1, <1>4 DEF PollFailed
<1>5. ASSUME NEW o \in Order, Zombie(o) PROVE LiveIsListed'
  <2>1. Unsent(o)
    BY <1>5 DEF Zombie, Oldest, Acknowledged, SendInv
  <2> QED
    BY <1>1, <1>5, <2>1 DEF Zombie, Write, Unsent
<1>6. CASE UpdateOrder
  <2>1. /\ exec'.pc = "book" /\ exec'.o = exec.o /\ exec.pc = "write"
        /\ exec.o \in Order
    BY <1>1, <1>6 DEF UpdateOrder, Stack
  <2>2. /\ row'[exec.o].status = NewStatus(exec.answer)
        /\ \A p \in Order \ {exec.o} : row'[p] = row[p]
        /\ clob' = clob /\ lost' = lost
    BY <1>1, <1>6, <2>1 DEF UpdateOrder
  <2>3. CASE NewStatus(exec.answer) \in CLOSED_STATUSES
    <3>1. clob[exec.o].state = "dead"
      BY <2>1, <2>3 DEF SendInv
    <3> QED
      BY <2>1, <2>2, <3>1
  <2>4. CASE NewStatus(exec.answer) \in ACTIVE_STATUSES
    BY <2>1, <2>2, <2>4
  <2> QED
    BY <2>3, <2>4, NewStatusType DEF ACTIVE_STATUSES, CLOSED_STATUSES
<1>7. CASE UpdatePosition
  BY <1>1, <1>7 DEF UpdatePosition
<1>8. CASE Restart
  BY <1>1, <1>8 DEF Restart
<1> QED
  BY <1>2, <1>3, <1>4, <1>5, <1>6, <1>7, <1>8

LEMMA ConsoleLive ==
  ASSUME Shape, SendInv, LiveIsListed,
         Operator \/ Server \/ \E o \in Order : Match(o) \/ Expire(o)
  PROVE  LiveIsListed'
<1> USE DEF LiveIsListed, books
<1>1. /\ row \in [Order -> Row] /\ clob \in [Order -> Answer]
  BY DEF Shape
<1>2. CASE Operator
  BY <1>2 DEF Operator, FetchActive, LeaveTab, AskCancelAll, Abort, Confirm, ConfirmAll,
              AskCancel
<1>3. ASSUME NEW o \in Order, CancelOne(o) PROVE LiveIsListed'
  <2>1. \A p \in Order : row'[p].status \in {"CANCEL_REQUESTED", row[p].status}
    BY <1>1, <1>3, RequestedType DEF CancelOne, Write, Row
  <2>2. clob' = clob /\ exec' = exec /\ lost' = lost
    BY <1>3 DEF CancelOne
  <2> QED
    BY <2>1, <2>2 DEF ACTIVE_STATUSES
<1>4. CASE CancelAll
  <2>1. \A o \in Order : row'[o] = [row[o] EXCEPT !.status =
                     IF @ \in Cancelable THEN "CANCEL_REQUESTED" ELSE @]
    BY <1>4 DEF CancelAll
  <2>2. \A o \in Order : row'[o].status \in {"CANCEL_REQUESTED", row[o].status}
    BY <1>1, <2>1 DEF Row
  <2>3. clob' = clob /\ exec' = exec /\ lost' = lost
    BY <1>4 DEF CancelAll
  <2> QED
    BY <2>2, <2>3 DEF ACTIVE_STATUSES
<1>5. ASSUME NEW o \in wire, CancelLost(o) PROVE LiveIsListed'
  BY <1>5 DEF CancelLost
<1>6. ASSUME NEW o \in Order, Match(o) \/ Expire(o) PROVE LiveIsListed'
  <2>1. clob[o].state = "live" /\ \A p \in Order \ {o} : clob'[p] = clob[p]
    BY <1>1, <1>6 DEF Match, Expire
  <2>2. row' = row /\ exec' = exec /\ lost' = lost
    BY <1>6 DEF Match, Expire
  <2> QED
    BY <2>1, <2>2
<1> QED
  BY <1>2, <1>3, <1>4, <1>5, <1>6 DEF Server
-----------------------------------------------------------------------------
IInv == Shape /\ SendInv /\ BookInv /\ LiveIsListed

LEMMA InitIInv == Init => IInv
<1> SUFFICES ASSUME Init PROVE IInv
  OBVIOUS
<1>1. LiveIsListed
  BY DEF Init, LiveIsListed, NoAnswer
<1> QED
  BY <1>1, InitShape, InitSendInv, InitBookInv DEF IInv

LEMMA NextIInv == IInv /\ [Next]_vars => IInv'
<1> SUFFICES ASSUME IInv, [Next]_vars PROVE IInv'
  OBVIOUS
<1> USE DEF IInv
<1>1. CASE InsertOrder \/ MarkSent \/ PostAccepted \/ PostRefused \/ PostLost
           \/ MarkOpen \/ BookWorking \/ MarkRejected
  BY <1>1, PlaceShape, PlaceSendInv, PlaceBookInv, PlaceLive
<1>2. CASE ListOpen \/ UpdateOrder \/ UpdatePosition \/ Restart
           \/ \E o \in Order : Poll(o) \/ PollFailed(o) \/ Zombie(o)
  BY <1>2, PollShape, PollSendInv, PollBookInv, PollLive
<1>3. CASE Operator \/ Server \/ \E o \in Order : Match(o) \/ Expire(o)
  BY <1>3, ConsoleShape, ConsoleSendInv, ConsoleBookInv, ConsoleLive
<1>4. CASE UNCHANGED vars
  BY <1>4 DEF vars, Shape, SendInv, BookInv, LiveIsListed, Unsent, AckDue, Between
<1> QED
  BY <1>1, <1>2, <1>3, <1>4 DEF Next, Executor

LEMMA Invariance == Spec => []IInv
BY InitIInv, NextIInv, PTL DEF Spec

(* Every variable keeps its type, whoever writes the rows and whatever is  *)
(* lost.                                                                   *)
THEOREM TypeSafety == Spec => []TypeOK
<1>1. Shape => TypeOK
  <2> SUFFICES ASSUME Shape PROVE TypeOK
    OBVIOUS
  <2>1. exec.pc \in Pc /\ exec.seen \in Seen
    BY DEF Shape, Stack
  <2>2. page.list \in Listed /\ page.confirm \in Order \cup {NoOrder, AllOrders}
        /\ page.pending \in Order \cup {NoOrder}
    BY DEF Shape, Page
  <2>3. DOMAIN page.list \subseteq Order
    BY <2>2 DEF Listed
  <2> QED
    BY <2>1, <2>2, <2>3, SeenType DEF Shape, TypeOK, Answer
<1> QED
  BY <1>1, Invariance, PTL DEF IInv

(* An order that works on the exchange is always among the active rows of  *)
(* GET /orders, unless the answer that it was taken was lost.              *)
THEOREM LiveSafety == Spec => []LiveIsListed
BY Invariance, PTL DEF IInv

(* A filled order always shows among the open positions, unless the bot    *)
(* died between its two writes (poll_order_status).                        *)
THEOREM FillSafety == Spec => []FillIsHeld
<1>1. IInv => FillIsHeld
  <2> SUFFICES ASSUME IInv, NEW o \in Order, row[o].status = "FILLED",
                      <<o, "book">> \notin lost, ~Between(o)
               PROVE  o \in DOMAIN PositionsBlotter
    BY DEF FillIsHeld, Between
  <2>1. pos[o].bought = 2
    BY DEF IInv, BookInv
  <2> QED
    BY <2>1 DEF PositionsBlotter, GetPositions
<1> QED
  BY <1>1, Invariance, PTL

(* Neither a late cancel of the operator nor a late write of the bot makes *)
(* a closed order wait for a cancel (DELETE /orders/:id, cancel-all).      *)
THEOREM ClosedKept == Spec => ClosedIsNotReopened
<1> DEFINE Kept == \A o \in Order : row[o].status \in CLOSED_STATUSES
                                       => row'[o].status # "CANCEL_REQUESTED"
<1>1. IInv /\ [Next]_vars => [Kept]_vars
  <2> SUFFICES ASSUME IInv, [Next]_vars, NEW o \in Order,
                      row[o].status \in CLOSED_STATUSES
               PROVE  row'[o].status # "CANCEL_REQUESTED" \/ UNCHANGED vars
    OBVIOUS
  <2>1. /\ row \in [Order -> Row]
        /\ exec.pc \notin {"idle", "poll"} => exec.o \in Order
    BY DEF IInv, Shape
  <2>2. row[o].status # "CANCEL_REQUESTED" /\ row[o].status \notin Cancelable
    BY DEF CLOSED_STATUSES, Cancelable, ACTIVE_STATUSES
  <2>3. CASE Executor
    <3>1. \A p \in Order, status \in {"PENDING_SUBMISSION", "SENT", "OPEN", "REJECTED"} :
             Write(p, status) => row'[o].status # "CANCEL_REQUESTED"
      BY <2>1, <2>2 DEF Write, Row
    <3>2. CASE InsertOrder \/ MarkSent \/ MarkOpen \/ MarkRejected
      BY <2>1, <3>1, <3>2 DEF InsertOrder, MarkSent, MarkOpen, MarkRejected
    <3>3. ASSUME NEW p \in Order, Zombie(p) PROVE row'[o].status # "CANCEL_REQUESTED"
      BY <3>1, <3>3 DEF Zombie
    <3>4. CASE UpdateOrder
      BY <2>1, <2>2, <3>4, NewStatusType DEF UpdateOrder
    <3>5. CASE PostAccepted \/ PostRefused \/ PostLost \/ BookWorking \/ ListOpen
               \/ UpdatePosition \/ \E p \in Order : Poll(p) \/ PollFailed(p)
      BY <2>2, <3>5 DEF PostAccepted, PostRefused, PostLost, BookWorking, ListOpen,
                        UpdatePosition, Poll, PollFailed, books
    <3> QED
      BY <2>3, <3>2, <3>3, <3>4, <3>5 DEF Executor
  <2>4. CASE Server
    <3>1. ASSUME NEW p \in Order, CancelOne(p) PROVE row'[o].status # "CANCEL_REQUESTED"
      BY <2>1, <2>2, <3>1 DEF CancelOne, Write, Requested, Row
    <3>2. CASE CancelAll
      BY <2>1, <2>2, <3>2 DEF CancelAll, Row
    <3>3. ASSUME NEW p \in wire, CancelLost(p) PROVE row' = row
      BY <3>3 DEF CancelLost, books
    <3> QED
      BY <2>2, <2>4, <3>1, <3>2, <3>3 DEF Server
  <2>5. CASE Operator \/ Restart \/ \E p \in Order : Match(p) \/ Expire(p)
    BY <2>2, <2>5 DEF Operator, FetchActive, LeaveTab, AskCancelAll, Abort, Confirm,
                      ConfirmAll, AskCancel, Restart, Match, Expire, books
  <2> QED
    BY <2>3, <2>4, <2>5 DEF Next
<1> QED
  BY <1>1, Invariance, PTL DEF ClosedIsNotReopened, Spec
-----------------------------------------------------------------------------
(* What the console counts and lists.                                      *)

LEMMA OrdersFinite ==
  /\ IsFiniteSet(Order) /\ Cardinality(Order) = MaxOrders
  /\ \A S \in SUBSET Order : IsFiniteSet(S) /\ Cardinality(S) \in Nat /\ (Cardinality(S) = 0 <=> S = {})
<1>1. 1 \in Int /\ MaxOrders \in Int /\ MaxOrders \in Nat
  BY BoundAssumption
<1>2. IsFiniteSet(1..MaxOrders) /\ Cardinality(1..MaxOrders) = IF 1 > MaxOrders THEN 0 ELSE MaxOrders - 1 + 1
  BY <1>1, FS_Interval
<1>3. IsFiniteSet(Order) /\ Cardinality(Order) = MaxOrders
  BY <1>1, <1>2 DEF Order
<1> QED
  BY <1>3, FS_Subset, FS_CardinalityType, FS_EmptySet

(* Disjoint lists: the counters add up. *)
LEMMA CountsAdd ==
  ASSUME NEW S \in SUBSET Order, NEW T \in SUBSET Order, S \cap T = {}
  PROVE  Cardinality(S \cup T) = Cardinality(S) + Cardinality(T)
<1>1. Cardinality(S) \in Nat /\ Cardinality(T) \in Nat /\ IsFiniteSet(S) /\ IsFiniteSet(T)
  BY OrdersFinite
<1>2. Cardinality(S \cup T) = Cardinality(S) + Cardinality(T) - Cardinality(S \cap T)
  BY <1>1, FS_Union
<1> QED
  BY <1>1, <1>2, FS_EmptySet

(* A list of orders that is not empty has a newest one. *)
LEMMA Newest ==
  ASSUME NEW S \in SUBSET Order, S # {}
  PROVE  \E o \in S : \A p \in S : ~(p > o)
<1> DEFINE A == {n \in Nat : \A T \in SUBSET (1..n) : T # {} => \E o \in T : \A p \in T : ~(p > o)}
<1>1. 0 \in A
  <2>1. 1..0 = {}
    OBVIOUS
  <2> QED
    BY <2>1
<1>2. ASSUME NEW n \in Nat, n \in A PROVE n + 1 \in A
  <2> SUFFICES ASSUME NEW T \in SUBSET (1..(n + 1)), T # {}
               PROVE  \E o \in T : \A p \in T : ~(p > o)
    OBVIOUS
  <2>1. CASE n + 1 \in T
    <3>1. \A p \in T : ~(p > n + 1)
      OBVIOUS
    <3> QED
      BY <2>1, <3>1
  <2>2. CASE n + 1 \notin T
    <3>1. T \in SUBSET (1..n)
      BY <2>2
    <3> QED
      BY <1>2, <3>1
  <2> QED
    BY <2>1, <2>2
<1>3. MaxOrders \in A
  <2> HIDE DEF A
  <2>1. Nat \subseteq A
    BY <1>1, <1>2, NatInductionOnSet
  <2> QED
    BY <2>1, BoundAssumption
<1> QED
  BY <1>3 DEF Order

(* No list holds more than the orders there are, and none of them is newer *)
(* than itself: a list that is not longer than the limit is complete.      *)
LEMMA Complete ==
  ASSUME NEW S \in SUBSET Order, NEW limit \in Nat, Cardinality(S) <= limit
  PROVE  {o \in S : Cardinality({p \in S : p > o}) < limit} = S
<1> SUFFICES ASSUME NEW o \in S PROVE Cardinality({p \in S : p > o}) < limit
  OBVIOUS
<1> DEFINE T == {p \in S : p > o}
<1>1. T \in SUBSET (S \ {o}) /\ S \ {o} \in SUBSET Order
  BY OrderIsTyped
<1>2. IsFiniteSet(S) /\ IsFiniteSet(S \ {o}) /\ Cardinality(S) \in Nat /\ Cardinality(T) \in Nat
  BY <1>1, OrdersFinite
<1>3. Cardinality(T) <= Cardinality(S \ {o})
  BY <1>1, <1>2, FS_Subset
<1>4. Cardinality(S \ {o}) = Cardinality(S) - 1
  BY <1>2, FS_RemoveElement
<1> HIDE DEF T
<1>5. Cardinality(T) < limit
  BY <1>2, <1>3, <1>4
<1> QED
  BY <1>5 DEF T

(* A list is empty only if there is nothing to list, whatever its limit.   *)
LEMMA FirstIsListed ==
  ASSUME NEW S \in SUBSET Order, NEW limit \in Nat \ {0}
  PROVE  {o \in S : Cardinality({p \in S : p > o}) < limit} = {} <=> S = {}
<1>1. CASE S = {}
  BY <1>1
<1>2. CASE S # {}
  <2>1. PICK o \in S : \A p \in S : ~(p > o)
    BY <1>2, Newest
  <2>2. {p \in S : p > o} = {}
    BY <2>1
  <2>3. Cardinality({p \in S : p > o}) = 0 /\ 0 < limit
    BY <2>2, FS_EmptySet
  <2>4. o \in {x \in S : Cardinality({p \in S : p > x}) < limit}
    BY <2>3
  <2> QED
    BY <2>4
<1> QED
  BY <1>1, <1>2

(* The rows that a list draws from. *)
LEMMA Draws ==
  ASSUME NEW limit
  PROVE  /\ ListFor("active", limit, AnyDay) =
              {o \in With(ACTIVE_STATUSES) : Cardinality({p \in With(ACTIVE_STATUSES) : p > o}) < limit}
         /\ ListFor("closed", limit, AnyDay) =
              {o \in With(CLOSED_STATUSES) : Cardinality({p \in With(CLOSED_STATUSES) : p > o}) < limit}
<1>1. dateRangeToParams(AnyDay).since = 0 /\ dateRangeToParams(AnyDay).until = 0
  BY DEF dateRangeToParams, AnyDay
<1>2. StatusGroup("active") = ACTIVE_STATUSES /\ StatusGroup("closed") = CLOSED_STATUSES
  BY DEF StatusGroup
<1>3. ASSUME NEW group
      PROVE  ListFor(group, limit, AnyDay) =
                {o \in With(StatusGroup(group)) :
                    Cardinality({p \in With(StatusGroup(group)) : p > o}) < limit}
  BY <1>1 DEF ListFor, GetOrders
<1>4. /\ ListFor("active", limit, AnyDay) =
            {o \in With(StatusGroup("active")) :
                 Cardinality({p \in With(StatusGroup("active")) : p > o}) < limit}
      /\ ListFor("closed", limit, AnyDay) =
            {o \in With(StatusGroup("closed")) :
                 Cardinality({p \in With(StatusGroup("closed")) : p > o}) < limit}
  BY <1>3
<1> QED
  BY <1>2, <1>4

(* A status is active or closed, and never both. *)
LEMMA Statuses ==
  ASSUME TypeOK
  PROVE  /\ With(ACTIVE_STATUSES) \cup With(CLOSED_STATUSES) = Inserted
         /\ With(ACTIVE_STATUSES) \cap With(CLOSED_STATUSES) = {}
         /\ With(CLOSED_STATUSES) =
              With({"FILLED"}) \cup With({"REJECTED"}) \cup With({"CANCELED"})
                  \cup With({"EXPIRED"}) \cup With({"ERROR"})
<1>1. \A o \in Order : row[o].status \in {"none"} \cup ACTIVE_STATUSES \cup CLOSED_STATUSES
  BY DEF TypeOK, Row
<1>2. ACTIVE_STATUSES \cap CLOSED_STATUSES = {} /\ "none" \notin ACTIVE_STATUSES \cup CLOSED_STATUSES
  BY DEF ACTIVE_STATUSES, CLOSED_STATUSES
<1>3. /\ With(ACTIVE_STATUSES) \cup With(CLOSED_STATUSES) = Inserted
      /\ With(ACTIVE_STATUSES) \cap With(CLOSED_STATUSES) = {}
  BY <1>1, <1>2 DEF With, Inserted
<1>4. With(CLOSED_STATUSES) =
              With({"FILLED"}) \cup With({"REJECTED"}) \cup With({"CANCELED"})
                  \cup With({"EXPIRED"}) \cup With({"ERROR"})
  BY DEF With, CLOSED_STATUSES
<1> QED
  BY <1>3, <1>4

(* A rate of 100 percent: the part is the whole. *)
LEMMA FullRate ==
  ASSUME NEW part \in Nat, NEW whole \in Nat, part <= whole, Rate(part, whole) = 1000
  PROVE  part = whole
<1>1. whole > 0 /\ (part * 1000) \div whole = 1000
  BY DEF Rate
<1>2. whole * 1000 <= part * 1000
  BY <1>1
<1> QED
  BY <1>2

(* The counters of the analytics tab: every order is counted once. *)
LEMMA CountersAdd ==
  ASSUME TypeOK
  PROVE  /\ Cardinality(With(CLOSED_STATUSES)) =
              Cardinality(With({"FILLED"})) + Cardinality(With({"REJECTED"}))
                  + Cardinality(With({"CANCELED"})) + Cardinality(With({"EXPIRED"}))
                  + Cardinality(With({"ERROR"}))
         /\ Cardinality(Inserted) =
              Cardinality(With(CLOSED_STATUSES)) + Cardinality(With(ACTIVE_STATUSES))
<1> DEFINE F == With({"FILLED"})
           R == With({"REJECTED"})
           C == With({"CANCELED"})
           X == With({"EXPIRED"})
           E == With({"ERROR"})
<1>1. /\ F \in SUBSET Order /\ R \in SUBSET Order /\ C \in SUBSET Order
      /\ X \in SUBSET Order /\ E \in SUBSET Order
  BY DEF With
<1>2. /\ F \cap R = {} /\ (F \cup R) \cap C = {} /\ (F \cup R \cup C) \cap X = {}
      /\ (F \cup R \cup C \cup X) \cap E = {}
  BY DEF With
<1>3. With(CLOSED_STATUSES) = F \cup R \cup C \cup X \cup E
  BY Statuses
<1> HIDE DEF F, R, C, X, E
<1>4. Cardinality(F \cup R) = Cardinality(F) + Cardinality(R)
  BY <1>1, <1>2, CountsAdd
<1>5. Cardinality(F \cup R \cup C) = Cardinality(F \cup R) + Cardinality(C)
  BY <1>1, <1>2, CountsAdd
<1>6. Cardinality(F \cup R \cup C \cup X) = Cardinality(F \cup R \cup C) + Cardinality(X)
  BY <1>1, <1>2, CountsAdd
<1>7. Cardinality(F \cup R \cup C \cup X \cup E) = Cardinality(F \cup R \cup C \cup X) + Cardinality(E)
  BY <1>1, <1>2, CountsAdd
<1>8. Cardinality(With(CLOSED_STATUSES)) = Cardinality(F) + Cardinality(R) + Cardinality(C)
                                              + Cardinality(X) + Cardinality(E)
  BY <1>3, <1>4, <1>5, <1>6, <1>7
<1>9. Cardinality(Inserted) = Cardinality(With(CLOSED_STATUSES)) + Cardinality(With(ACTIVE_STATUSES))
  <2>1. With(CLOSED_STATUSES) \in SUBSET Order /\ With(ACTIVE_STATUSES) \in SUBSET Order
    BY DEF With
  <2>2. Inserted = With(CLOSED_STATUSES) \cup With(ACTIVE_STATUSES)
        /\ With(CLOSED_STATUSES) \cap With(ACTIVE_STATUSES) = {}
    BY Statuses
  <2> QED
    BY <2>1, <2>2, CountsAdd
<1> QED
  BY <1>8, <1>9 DEF F, R, C, X, E

(* The icon and the badge of each status. *)
LEMMA Badges ==
  ASSUME NEW status \in ACTIVE_STATUSES \cup CLOSED_STATUSES
  PROVE  /\ statusIcon(status) \in {"check", "ban", "cross"} <=> status \in CLOSED_STATUSES
         /\ statusIcon(status) # "spinner" <=> status # "CANCEL_REQUESTED"
         /\ statusStyle(status) = "red" <=> statusIcon(status) = "cross"
         /\ statusStyle(status) = "emerald" <=> statusIcon(status) = "check"
         /\ statusStyle(status) = "orange" <=> statusIcon(status) = "spinner"
<1>1. status \in {"PENDING_SUBMISSION", "SENT", "OPEN", "PARTIALLY_FILLED", "CANCEL_REQUESTED",
                  "FILLED", "CANCELED", "REJECTED", "EXPIRED", "ERROR"}
  BY DEF ACTIVE_STATUSES, CLOSED_STATUSES
<1>2. statusStyle(status) =
          CASE status = "PENDING_SUBMISSION" -> "amber" [] status = "PARTIALLY_FILLED" -> "indigo"
            [] status = "CANCEL_REQUESTED" -> "orange" [] status = "FILLED" -> "emerald"
            [] status \in {"REJECTED", "ERROR"} -> "red" [] OTHER -> "slate"
  BY <1>1 DEF statusStyle, STATUS_STYLES
<1>3. statusIcon(status) =
          CASE status = "FILLED" -> "check" [] status \in {"CANCELED", "EXPIRED"} -> "ban"
            [] status \in {"REJECTED", "ERROR"} -> "cross" [] status = "CANCEL_REQUESTED" -> "spinner"
            [] status = "PARTIALLY_FILLED" -> "clock" [] OTHER -> "none"
  BY <1>1 DEF statusIcon
<1> QED
  BY <1>1, <1>2, <1>3 DEF CLOSED_STATUSES

(* A list of a status group below the limit is that group. *)
LEMMA ListsComplete ==
  ASSUME TypeOK, Cardinality(Inserted) <= ListLimit
  PROVE  /\ DOMAIN ActiveBlotter = With(ACTIVE_STATUSES)
         /\ ClosedBlotter = With(CLOSED_STATUSES)
<1>1. /\ With(ACTIVE_STATUSES) \in SUBSET Order /\ With(CLOSED_STATUSES) \in SUBSET Order
      /\ Inserted \in SUBSET Order
  BY DEF With, Inserted
<1>2. With(ACTIVE_STATUSES) \subseteq Inserted /\ With(CLOSED_STATUSES) \subseteq Inserted
  BY Statuses
<1>3. /\ IsFiniteSet(Inserted) /\ Cardinality(Inserted) \in Nat
      /\ Cardinality(With(ACTIVE_STATUSES)) \in Nat /\ Cardinality(With(CLOSED_STATUSES)) \in Nat
  BY <1>1, OrdersFinite
<1>4. /\ Cardinality(With(ACTIVE_STATUSES)) <= Cardinality(Inserted)
      /\ Cardinality(With(CLOSED_STATUSES)) <= Cardinality(Inserted)
  BY <1>2, <1>3, FS_Subset
<1>5. ListLimit \in Nat
  BY BoundAssumption
<1>6. /\ Cardinality(With(ACTIVE_STATUSES)) <= ListLimit
      /\ Cardinality(With(CLOSED_STATUSES)) <= ListLimit
  BY <1>3, <1>4, <1>5
<1>7. ListFor("active", ListLimit, AnyDay) = With(ACTIVE_STATUSES)
  BY <1>1, <1>5, <1>6, Complete, Draws
<1>8. ListFor("closed", ListLimit, AnyDay) = With(CLOSED_STATUSES)
  BY <1>1, <1>5, <1>6, Complete, Draws
<1> QED
  BY <1>7, <1>8 DEF ActiveBlotter, ClosedBlotter

(* A fill rate of 100 percent: every order was filled. *)
LEMMA AllFilled ==
  ASSUME TypeOK, OrderAnalyticsTab.fillRate = 1000
  PROVE  \A o \in Inserted : row[o].status = "FILLED"
<1>1. With({"FILLED"}) \in SUBSET Order /\ Inserted \in SUBSET Order /\ With({"FILLED"}) \subseteq Inserted
  BY DEF With, Inserted
<1>2. /\ IsFiniteSet(Inserted) /\ IsFiniteSet(With({"FILLED"}))
      /\ Cardinality(Inserted) \in Nat /\ Cardinality(With({"FILLED"})) \in Nat
  BY <1>1, OrdersFinite
<1>3. Cardinality(With({"FILLED"})) <= Cardinality(Inserted)
  BY <1>1, <1>2, FS_Subset
<1>4. Rate(Cardinality(With({"FILLED"})), Cardinality(Inserted)) = 1000
  BY DEF OrderAnalyticsTab, Analytics
<1>5. Cardinality(With({"FILLED"})) = Cardinality(Inserted)
  BY <1>2, <1>3, <1>4, FullRate
<1>6. With({"FILLED"}) = Inserted
  BY <1>1, <1>2, <1>5, FS_Subset
<1> QED
  BY <1>6 DEF With

LEMMA CountersRight == TypeOK => CountersAgree
<1> SUFFICES ASSUME TypeOK PROVE CountersAgree
  OBVIOUS
<1> DEFINE ended == StrategyBar.filled + StrategyBar.rejected + StrategyBar.other
<1>1. /\ With(ACTIVE_STATUSES) \in SUBSET Order /\ With(CLOSED_STATUSES) \in SUBSET Order
      /\ Inserted \in SUBSET Order /\ With({"FILLED"}) \in SUBSET Order
      /\ With({"REJECTED"}) \in SUBSET Order /\ With({"CANCELED"}) \in SUBSET Order
      /\ With({"EXPIRED"}) \in SUBSET Order /\ With({"ERROR"}) \in SUBSET Order
  BY DEF With, Inserted
<1>2. /\ Cardinality(With(ACTIVE_STATUSES)) \in Nat /\ Cardinality(With(CLOSED_STATUSES)) \in Nat
      /\ Cardinality(With({"FILLED"})) \in Nat /\ Cardinality(With({"REJECTED"})) \in Nat
      /\ Cardinality(With({"CANCELED"})) \in Nat /\ Cardinality(With({"EXPIRED"})) \in Nat
      /\ Cardinality(With({"ERROR"})) \in Nat
  BY <1>1, OrdersFinite
<1>3. ended = Cardinality(With(CLOSED_STATUSES))
  <2>1. ended = Cardinality(With({"FILLED"})) + Cardinality(With({"REJECTED"}))
                  + (Cardinality(With({"CANCELED"})) + Cardinality(With({"EXPIRED"}))
                  + Cardinality(With({"ERROR"})))
    BY DEF StrategyBar, Analytics
  <2> HIDE DEF ended
  <2> QED
    BY <1>2, <2>1, CountersAdd
<1>4. StrategyBar.active = Cardinality(With(ACTIVE_STATUSES))
  BY DEF StrategyBar, Analytics
<1>5. OrderAnalyticsTab.sent = Cardinality(Inserted)
  BY DEF OrderAnalyticsTab, Analytics
<1> HIDE DEF ended
<1>6. OrderAnalyticsTab.sent = ended + StrategyBar.active
  BY <1>3, <1>4, <1>5, CountersAdd
<1>7. /\ StatCards.counts.active = Cardinality(DOMAIN ActiveBlotter)
      /\ StatCards.counts.atRisk = DOMAIN ActiveBlotter
      /\ StatCards.counts.closed = Cardinality(ListFor("closed", 1, AnyDay))
      /\ TABS.active = Cardinality(DOMAIN ActiveBlotter)
      /\ TABS.positions = Cardinality(GetPositions)
      /\ StatCards.exposed <=> Cardinality(GetPositions) # 0
  BY DEF StatCards, TABS, Counts
<1>8. ASSUME NEW o \in Inserted
      PROVE  row[o].status \in ACTIVE_STATUSES \cup CLOSED_STATUSES
  BY Statuses DEF With
<1>9. ASSUME Cardinality(Inserted) <= ListLimit
      PROVE  /\ StrategyBar.active = StatCards.counts.active /\ ended = Cardinality(ClosedBlotter)
             /\ PortfolioAtRisk = StatCards.counts.atRisk
             /\ DOMAIN ActiveBlotter \cup ClosedBlotter = Inserted
             /\ \A o \in Inserted :
                  statusIcon(row[o].status) \in {"check", "ban", "cross"} <=> o \in ClosedBlotter
             /\ \A o \in DOMAIN ActiveBlotter :
                  ActiveBlotter[o] <=> statusIcon(row[o].status) # "spinner"
             /\ TABS.active = Cardinality(DOMAIN ActiveBlotter)
  <2>1. DOMAIN ActiveBlotter = With(ACTIVE_STATUSES) /\ ClosedBlotter = With(CLOSED_STATUSES)
    BY <1>9, ListsComplete
  <2>2. StrategyBar.active = StatCards.counts.active /\ ended = Cardinality(ClosedBlotter)
        /\ PortfolioAtRisk = StatCards.counts.atRisk
    BY <2>1, <1>3, <1>4, <1>7 DEF PortfolioAtRisk
  <2>3. DOMAIN ActiveBlotter \cup ClosedBlotter = Inserted
    BY <2>1, Statuses
  <2>4. ASSUME NEW o \in Inserted
        PROVE  statusIcon(row[o].status) \in {"check", "ban", "cross"} <=> o \in ClosedBlotter
    BY <1>8, <2>1, Badges DEF With, Inserted
  <2>5. ASSUME NEW o \in DOMAIN ActiveBlotter
        PROVE  ActiveBlotter[o] <=> statusIcon(row[o].status) # "spinner"
    <3>1. ActiveBlotter[o] = (row[o].status # "CANCEL_REQUESTED")
      BY DEF ActiveBlotter
    <3>2. row[o].status \in ACTIVE_STATUSES
      BY <2>1 DEF With
    <3> QED
      BY <3>1, <3>2, Badges
  <2> QED
    BY <2>2, <2>3, <2>4, <2>5, <1>7
<1>10. TABS.positions = Cardinality(DOMAIN PositionsBlotter)
  BY <1>7 DEF PositionsBlotter
<1>11. ASSUME ~StatCards.exposed PROVE \A o \in Order : pos[o].bought = 0
  <2>1. Cardinality(GetPositions) = 0
    BY <1>7, <1>11
  <2>2. GetPositions = {}
    BY <2>1, OrdersFinite DEF GetPositions
  <2> QED
    BY <2>2 DEF GetPositions
<1>12. ASSUME NEW o \in Inserted
       PROVE  /\ statusStyle(row[o].status) = "red" <=> statusIcon(row[o].status) = "cross"
              /\ statusStyle(row[o].status) = "emerald" <=> statusIcon(row[o].status) = "check"
              /\ statusStyle(row[o].status) = "orange" <=> statusIcon(row[o].status) = "spinner"
  BY <1>8, Badges
<1>13. StatCards.counts.closed = 0 <=> ClosedBlotter = {}
  <2>0. ASSUME NEW limit \in Nat \ {0}
        PROVE  (ListFor("closed", limit, AnyDay) = {}) <=> (With(CLOSED_STATUSES) = {})
    <3> DEFINE C == With(CLOSED_STATUSES)
    <3>1. ListFor("closed", limit, AnyDay) = {o \in C : Cardinality({p \in C : p > o}) < limit}
      BY Draws
    <3>2. C \in SUBSET Order
      BY <1>1
    <3> HIDE DEF C
    <3>3. ({o \in C : Cardinality({p \in C : p > o}) < limit} = {}) <=> (C = {})
      BY <3>2, FirstIsListed
    <3>4. (ListFor("closed", limit, AnyDay) = {}) <=> (C = {})
      BY <3>1, <3>3
    <3> QED
      BY <3>4 DEF C
  <2>1. (ListFor("closed", 1, AnyDay) = {}) <=> (With(CLOSED_STATUSES) = {})
    BY <2>0
  <2>2. (ClosedBlotter = {}) <=> (With(CLOSED_STATUSES) = {})
    BY <2>0, BoundAssumption DEF ClosedBlotter
  <2>3. ListFor("closed", 1, AnyDay) \in SUBSET Order
    BY <1>1, Draws
  <2>4. Cardinality(ListFor("closed", 1, AnyDay)) = 0 <=> ListFor("closed", 1, AnyDay) = {}
    BY <2>3, OrdersFinite
  <2> QED
    BY <2>1, <2>2, <2>4, <1>7
<1> QED
  BY <1>6, AllFilled, <1>9, <1>10, <1>11, <1>12, <1>13 DEF CountersAgree, ended

(* The filter of a day draws from all the rows created up to it, the next  *)
(* day's filter from all the others.                                       *)
LEMMA DaysRight == TypeOK => DaysPartition
<1> SUFFICES ASSUME TypeOK, NEW day \in Order
             PROVE  LET until == ListFor("all", MaxOrders, [from |-> 0, to |-> day])
                        after == ListFor("all", MaxOrders, [from |-> day + 1, to |-> 0])
                    IN  until \cup after = Inserted /\ until \cap after = {} /\ day \notin after
                        /\ (day \in Inserted => day \in until)
  BY DEF DaysPartition
<1> DEFINE Early == {o \in Inserted : o < day + 1}
           Late == {o \in Inserted : o >= day + 1}
<1>1. day \in Nat /\ day # 0 /\ MaxOrders \in Nat /\ (\A o \in Order : o \in Nat)
  BY BoundAssumption DEF Order
<1>2. With(StatusGroup("all")) = Inserted
  BY Statuses DEF With, StatusGroup
<1>3. Early \in SUBSET Order /\ Late \in SUBSET Order
  BY DEF Inserted
<1>4. Cardinality(Early) <= MaxOrders /\ Cardinality(Late) <= MaxOrders
  <2>1. IsFiniteSet(Order) /\ Cardinality(Order) = MaxOrders
    BY OrdersFinite
  <2> HIDE DEF Early, Late
  <2> QED
    BY <1>3, <2>1, FS_Subset
<1>5. ListFor("all", MaxOrders, [from |-> 0, to |-> day]) = Early
  <2>1. /\ dateRangeToParams([from |-> 0, to |-> day]).since = 0
        /\ dateRangeToParams([from |-> 0, to |-> day]).until = day + 1
    BY <1>1 DEF dateRangeToParams
  <2>2. Early = {o \in With(StatusGroup("all")) : (0 # 0 => o >= 0) /\ (day + 1 # 0 => o < day + 1)}
    BY <1>1, <1>2
  <2>3. GetOrders("all", MaxOrders, 0, day + 1) =
            {o \in Early : Cardinality({p \in Early : p > o}) < MaxOrders}
    BY <2>2 DEF GetOrders
  <2> HIDE DEF Early
  <2> QED
    BY <1>1, <1>3, <1>4, <2>1, <2>3, Complete DEF ListFor
<1>6. ListFor("all", MaxOrders, [from |-> day + 1, to |-> 0]) = Late
  <2>1. /\ dateRangeToParams([from |-> day + 1, to |-> 0]).since = day + 1
        /\ dateRangeToParams([from |-> day + 1, to |-> 0]).until = 0
    BY <1>1 DEF dateRangeToParams
  <2>2. Late = {o \in With(StatusGroup("all")) : (day + 1 # 0 => o >= day + 1) /\ (0 # 0 => o < 0)}
    BY <1>1, <1>2
  <2>3. GetOrders("all", MaxOrders, day + 1, 0) =
            {o \in Late : Cardinality({p \in Late : p > o}) < MaxOrders}
    BY <2>2 DEF GetOrders
  <2> HIDE DEF Late
  <2> QED
    BY <1>1, <1>3, <1>4, <2>1, <2>3, Complete DEF ListFor
<1>7. /\ Early \cup Late = Inserted /\ Early \cap Late = {} /\ day \notin Late
      /\ day \in Inserted => day \in Early
  <2>1. Inserted \subseteq Order
    BY DEF Inserted
  <2>2. \A o \in Inserted : o \in Nat
    BY <2>1, <1>1
  <2>3. \A o \in Inserted : (o < day + 1 \/ o >= day + 1) /\ ~(o < day + 1 /\ o >= day + 1)
    BY <2>2, <1>1
  <2>4. day < day + 1 /\ ~(day >= day + 1)
    BY <1>1
  <2> QED
    BY <2>3, <2>4
<1> HIDE DEF Early, Late
<1> QED
  BY <1>5, <1>6, <1>7

(* Whatever the console counts or lists, it counts and lists every order   *)
(* once, by status and by day, in every state the executor, the reconciler *)
(* and the operator can leave the rows in (orders.ts, execution.tsx).      *)
THEOREM ListsSafety == Spec => []ListsAgree
<1>1. TypeOK => ListsAgree
  BY CountersRight, DaysRight DEF ListsAgree
<1> QED
  BY <1>1, TypeSafety, PTL
=============================================================================
