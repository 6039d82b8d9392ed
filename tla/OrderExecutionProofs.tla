------------------------ MODULE OrderExecutionProofs ------------------------
(***************************************************************************)
(* The execution thread, for any number of signals, rows, attempts,        *)
(* crashes, failures and uses of the kill switch.  In this order:          *)
(*                                                                         *)
(*   - type correctness (TypeStep);                                        *)
(*   - the orders table is a ledger of intents: OneOriginalPerSignal,      *)
(*     RepricedOnce, RepricedIsClosed, and the refinement of OrderLedger,  *)
(*     all from the inductive invariant IInv;                              *)
(*   - the books agree: KillClosesOnlyDead, ExposureCapped and             *)
(*     BookedAtMostOnce, from the inductive invariant BooksInv.            *)
(***************************************************************************)
EXTENDS OrderExecution, SumLemmas

RowSteps == {"mark", "send", "submit", "ack", "book", "reject", "update", "settle", "recover"}

\* An order the executor is placing or polling is a row that is not claimed.
RowHeld == x.pc \in RowSteps => x.row \in Rows /\ Used(x.row) /\ ~row[x.row].repriced

-----------------------------------------------------------------------------
(* Types of the constants, and of what the executor's locals become.       *)

LEMMA ConstantTypes ==
    /\ NoOrder \in OrderRow /\ EmptyTable \in [Rows -> OrderRow]
    /\ Idle \in ExecutorState
BY NumberAssumption DEF NoOrder, OrderRow, EmptyTable, Idle, ExecutorState,
    Phases, Steps, Answers, Status, OpenStatus, TerminalStatus, NoRow, NoEoi

LEMMA EnterType ==
    ASSUME x \in ExecutorState, NEW p \in Phases
    PROVE  Enter(p) \in ExecutorState
<1> DEFINE c == IF p = "reconcile" THEN (x.cycle + 1) % ReconcileEvery ELSE x.cycle
<1>1. x.cycle \in Nat
  BY DEF ExecutorState
<1>2. (x.cycle + 1) % ReconcileEvery \in Nat
  BY <1>1, NumberAssumption
<1>3. c \in Nat
  BY <1>1, <1>2
<1>4. Enter(p) = [Idle EXCEPT !.phase = p, !.cycle = c]
  BY DEF Enter
<1> HIDE DEF c
<1> QED
  BY <1>3, <1>4, ConstantTypes DEF ExecutorState

LEMMA ResumeType == x \in ExecutorState => Resume \in ExecutorState
BY ConstantTypes, NumberAssumption DEF Resume, Idle, ExecutorState, Steps, Answers, NoRow

LEMMA AnswerType ==
    ASSUME NEW b \in BookOrder, NEW n \in Nat
    PROVE  Answer(b, n) \in Answers
BY DEF Answer, Answers, BookOrder

-----------------------------------------------------------------------------
(* Type correctness.                                                       *)

LEMMA WriteType ==
    ASSUME row \in [Rows -> OrderRow], NEW r, NEW st \in Status, Write(r, st)
    PROVE  row' \in [Rows -> OrderRow]
BY DEF Write, OrderRow

LEMMA StatusFacts == {"PENDING", "SENT", "OPEN", "CANCELED", "REJECTED"} \subseteq Status
BY DEF Status, OpenStatus, TerminalStatus

LEMMA DbErrorType ==
    ASSUME budget \in [crash : Nat, kill : Nat, ack : Nat, db : Nat], DbError
    PROVE  budget' \in [crash : Nat, kill : Nat, ack : Nat, db : Nat]
BY DEF DbError

LEMMA StepType ==
    ASSUME x \in ExecutorState, NEW pc \in Steps
    PROVE  [x EXCEPT !.pc = pc] \in ExecutorState
BY DEF ExecutorState

LEMMA DropRowType ==
    ASSUME x \in ExecutorState, NEW r
    PROVE  [x EXCEPT !.rows = @ \ {r}] \in ExecutorState
BY DEF ExecutorState

LEMMA DropSignalType ==
    ASSUME x \in ExecutorState, NEW s
    PROVE  [x EXCEPT !.sigs = @ \ {s}] \in ExecutorState
BY DEF ExecutorState

LEMMA TypeInit == Init => TypeOK
BY ConstantTypes, NumberAssumption DEF Init, TypeOK, SignalState, BookOrder, BookState, KillIdle

LEMMA TypeReconcile == TypeOK /\ Reconcile => TypeOK'
<1> SUFFICES ASSUME TypeOK, Reconcile PROVE TypeOK'
  OBVIOUS
<1>x. x \in ExecutorState
  BY DEF TypeOK
<1>r. row \in [Rows -> OrderRow]
  BY DEF TypeOK
<1>b. DbError => budget' \in [crash : Nat, kill : Nat, ack : Nat, db : Nat]
  BY DbErrorType DEF TypeOK
<1>1. Enter("signals") \in ExecutorState /\ Resume \in ExecutorState
  BY <1>x, EnterType, ResumeType DEF Phases
<1>2. CASE ReconcileList
  <2>1. [x EXCEPT !.pc = "fetch", !.seen = row, !.rows = OpenOrders] \in ExecutorState
    BY <1>x, <1>r DEF ExecutorState, OpenOrders, Steps
  <2>2. x' \in ExecutorState
    BY <1>1, <1>2, <2>1 DEF ReconcileList
  <2> QED
    BY <1>b, <1>2, <2>2 DEF ReconcileList, TypeOK, Tables, World
<1>3. CASE FetchLive
  <2>1. x' \in ExecutorState
    BY <1>x, <1>3 DEF FetchLive, ExecutorState, Steps
  <2> QED
    BY <1>3, <2>1 DEF FetchLive, TypeOK, Tables, World
<1>4. CASE FetchFails
  BY <1>1, <1>4 DEF FetchFails, TypeOK, Tables, World
<1>5. CASE RecoverCanceled
  <2>1. row' \in [Rows -> OrderRow]
    BY <1>r, <1>5, WriteType, StatusFacts DEF RecoverCanceled
  <2> QED
    BY <1>b, <1>1, <1>5, <2>1 DEF RecoverCanceled, TypeOK, World
<1>6. ASSUME NEW r \in Rows, RejectZombie(r) PROVE TypeOK'
  <2>1. row' \in [Rows -> OrderRow]
    BY <1>r, <1>6, WriteType, StatusFacts DEF RejectZombie
  <2>2. x' \in ExecutorState
    BY <1>x, <1>1, <1>6, DropRowType DEF RejectZombie
  <2> QED
    BY <1>b, <1>6, <2>1, <2>2 DEF RejectZombie, TypeOK, World
<1> QED
  BY <1>2, <1>3, <1>4, <1>5, <1>6 DEF Reconcile

LEMMA TypeProcess == TypeOK /\ Process => TypeOK'
<1> SUFFICES ASSUME TypeOK, Process PROVE TypeOK'
  OBVIOUS
<1>x. x \in ExecutorState
  BY DEF TypeOK
<1>1. CASE ListSignals
  <2>1. Enter("poll") \in ExecutorState
    BY <1>x, EnterType DEF Phases
  <2>2. [x EXCEPT !.pc = "next", !.sigs = ExecutableSignals] \in ExecutorState
    BY <1>x DEF ExecutorState, Steps, ExecutableSignals
  <2> QED
    BY <1>1, <2>1, <2>2 DEF ListSignals, TypeOK, Tables, World
<1>2. ASSUME NEW s \in Signals, GateRefuses(s) \/ SkipSignal(s) \/ OrderbookGone(s) \/ ApproveSignal(s)
      PROVE  TypeOK'
  <2>1. CASE GateRefuses(s) \/ SkipSignal(s)
    <3>1. x' \in ExecutorState
      BY <1>x, <2>1, DropSignalType DEF GateRefuses, SkipSignal, Drop
    <3>2. signal' \in [Signals -> SignalState]
      BY <2>1 DEF GateRefuses, SkipSignal, TypeOK, SignalState
    <3> QED
      BY <2>1, <3>1, <3>2 DEF GateRefuses, SkipSignal, TypeOK, World
  <2>2. CASE OrderbookGone(s)
    <3>1. x' \in ExecutorState
      BY <1>x, <2>2 DEF OrderbookGone, ExecutorState, Steps
    <3> QED
      BY <2>2, <3>1 DEF OrderbookGone, TypeOK, Tables, World
  <2>3. CASE ApproveSignal(s)
    <3>1. PICK n \in Sizes :
             x' = [x EXCEPT !.pc = "insert", !.sigs = @ \ {s}, !.sig = s, !.size = n]
      BY <2>3 DEF ApproveSignal
    <3>2. x' \in ExecutorState
      BY <1>x, <3>1, NumberAssumption DEF ExecutorState, Steps
    <3> QED
      BY <2>3, <3>2 DEF ApproveSignal, TypeOK, Tables, World
  <2> QED
    BY <1>2, <2>1, <2>2, <2>3
<1> QED
  BY <1>1, <1>2 DEF Process

LEMMA TypePlace == TypeOK /\ RowHeld /\ Place => TypeOK'
<1> SUFFICES ASSUME TypeOK, RowHeld, Place PROVE TypeOK'
  OBVIOUS
<1>x. x \in ExecutorState
  BY DEF TypeOK
<1>r. row \in [Rows -> OrderRow]
  BY DEF TypeOK
<1>b. DbError => budget' \in [crash : Nat, kill : Nat, ack : Nat, db : Nat]
  BY DbErrorType DEF TypeOK
<1>1. Enter("reconcile") \in ExecutorState /\ Resume \in ExecutorState
  BY <1>x, EnterType, ResumeType DEF Phases
<1>2. \A pc \in Steps : [x EXCEPT !.pc = pc] \in ExecutorState
  BY <1>x, StepType
<1>3. CASE InsertOrder
  <2>1. [NoOrder EXCEPT !.st = "PENDING", !.sig = x.sig, !.size = x.size, !.parent = x.parent]
            \in OrderRow
    BY <1>x, ConstantTypes, StatusFacts DEF OrderRow, ExecutorState
  <2>2. row' \in [Rows -> OrderRow]
    BY <1>r, <1>3, <2>1 DEF InsertOrder
  <2>3. ASSUME NEW r \in Rows, NEW pc \in Steps
        PROVE  [x EXCEPT !.pc = pc, !.row = r] \in ExecutorState
    BY <1>x DEF ExecutorState
  <2>4. \/ x' = Resume
        \/ \E r \in Rows : x' = [x EXCEPT !.pc = IF x.parent = NoRow THEN "mark" ELSE "send",
                                          !.row = r]
    BY <1>3 DEF InsertOrder
  <2>5. (IF x.parent = NoRow THEN "mark" ELSE "send") \in Steps
    BY DEF Steps
  <2>6. x' \in ExecutorState
    BY <1>1, <2>3, <2>4, <2>5
  <2> QED
    BY <1>b, <1>3, <2>2, <2>6 DEF InsertOrder, TypeOK, World
<1>4. CASE MarkExecuted
  <2>1. x' \in ExecutorState
    BY <1>1, <1>2, <1>4 DEF MarkExecuted, Steps
  <2>2. signal' \in [Signals -> SignalState]
    BY <1>4 DEF MarkExecuted, TypeOK, SignalState
  <2> QED
    BY <1>b, <1>4, <2>1, <2>2 DEF MarkExecuted, TypeOK, World
<1>5. CASE MarkSent
  <2>1. row' \in [Rows -> OrderRow]
    BY <1>r, <1>5, WriteType, StatusFacts DEF MarkSent
  <2>2. [x EXCEPT !.pc = "submit", !.try = 1] \in ExecutorState
    <3>1. 1 \in 0..MaxRetries
      BY NumberAssumption
    <3> QED
      BY <1>x, <3>1 DEF ExecutorState, Steps
  <2>3. x' \in ExecutorState
    BY <1>2, <1>5, <2>2 DEF MarkSent, Steps
  <2> QED
    BY <1>b, <1>5, <2>1, <2>3 DEF MarkSent, TypeOK, World
<1>6. CASE Submit
  <2>1. book' \in [Rows -> [Attempts -> BookOrder]]
    <3>1. book' = book \/ book' = [book EXCEPT ![x.row][x.try].st = "live"]
      BY <1>6 DEF Submit
    <3>2. book \in [Rows -> [Attempts -> BookOrder]]
      BY DEF TypeOK
    <3>3. ASSUME NEW b \in BookOrder PROVE [b EXCEPT !.st = "live"] \in BookOrder
      BY DEF BookOrder, BookState
    <3>4. \A r \in Rows : [book[r] EXCEPT ![x.try].st = "live"] \in [Attempts -> BookOrder]
      BY <3>2, <3>3
    <3>5. x.row \in Rows
      BY <1>6 DEF Submit, RowHeld, RowSteps
    <3> QED
      BY <3>1, <3>2, <3>4, <3>5
  <2>2. ASSUME RetryOrGiveUp PROVE x' \in ExecutorState
    <3>1. CASE x.try < MaxRetries
      <4>1. x.try + 1 \in 0..MaxRetries
        BY <1>x, <3>1, NumberAssumption DEF ExecutorState
      <4> QED
        BY <1>x, <2>2, <3>1, <4>1 DEF RetryOrGiveUp, ExecutorState
    <3>2. CASE ~(x.try < MaxRetries)
      BY <1>2, <2>2, <3>2 DEF RetryOrGiveUp, Steps
    <3> QED
      BY <3>1, <3>2
  <2>3. \A g \in BOOLEAN : [x EXCEPT !.pc = "reject", !.gone = g] \in ExecutorState
    BY <1>x DEF ExecutorState, Steps
  <2>4. x' \in ExecutorState
    BY <1>2, <1>6, <2>2, <2>3 DEF Submit, Steps
  <2>5. budget' \in [crash : Nat, kill : Nat, ack : Nat, db : Nat]
    <3>1. budget \in [crash : Nat, kill : Nat, ack : Nat, db : Nat]
      BY DEF TypeOK
    <3>2. budget' = budget \/ (budget.ack > 0 /\ budget' = [budget EXCEPT !.ack = @ - 1])
      BY <1>6 DEF Submit
    <3> QED
      BY <3>1, <3>2
  <2> QED
    BY <1>6, <2>1, <2>4, <2>5 DEF Submit, TypeOK, Tables
<1>7. CASE RecordOpen
  <2>1. x.row \in Rows
    BY <1>7 DEF RecordOpen, RowHeld, RowSteps
  <2>2. x.try \in Attempts \union {NoEoi} /\ row[x.row].size \in Int
    <3>1. x.try \in 0..MaxRetries
      BY <1>x DEF ExecutorState
    <3> QED
      BY <1>r, <2>1, <3>1, NumberAssumption DEF OrderRow, Attempts, NoEoi
  <2>3. \/ row' = row
        \/ row' = [row EXCEPT ![x.row].st = "OPEN", ![x.row].eoi = x.try,
                              ![x.row].working = row[x.row].size]
    BY <1>7 DEF RecordOpen
  <2>4. row' \in [Rows -> OrderRow]
    BY <1>r, <2>2, <2>3, StatusFacts DEF OrderRow
  <2>5. x' \in ExecutorState
    BY <1>2, <1>7 DEF RecordOpen, Steps
  <2> QED
    BY <1>b, <1>7, <2>4, <2>5 DEF RecordOpen, TypeOK, World
<1>8. CASE BookWorking
  <2>1. row[x.row].size \in Int
    BY <1>r, <1>8 DEF BookWorking, RowHeld, RowSteps, OrderRow
  <2>2. \/ pos' = pos
        \/ pos' = [pos EXCEPT ![TokenOf[x.sig]].working = @ + row[x.row].size]
    BY <1>8 DEF BookWorking
  <2>3. pos' \in [Tokens -> [bought : Int, working : Int]]
    BY <2>1, <2>2 DEF TypeOK
  <2> QED
    BY <1>b, <1>1, <1>8, <2>3 DEF BookWorking, TypeOK, World
<1>9. CASE RecordRejected
  <2>1. row' \in [Rows -> OrderRow]
    BY <1>r, <1>9, WriteType, StatusFacts DEF RecordRejected
  <2>2. x' \in ExecutorState
    BY <1>1, <1>2, <1>9 DEF RecordRejected, Steps
  <2> QED
    BY <1>b, <1>9, <2>1, <2>2 DEF RecordRejected, TypeOK, World
<1>10. CASE PruneMarket
  <2>1. signal' \in [Signals -> SignalState]
    BY <1>10 DEF PruneMarket, TypeOK, SignalState
  <2> QED
    BY <1>b, <1>1, <1>10, <2>1 DEF PruneMarket, TypeOK, World
<1> QED
  BY <1>3, <1>4, <1>5, <1>6, <1>7, <1>8, <1>9, <1>10 DEF Place

LEMMA TypePoll == TypeOK /\ RowHeld /\ Poll => TypeOK'
<1> SUFFICES ASSUME TypeOK, RowHeld, Poll PROVE TypeOK'
  OBVIOUS
<1>x. x \in ExecutorState
  BY DEF TypeOK
<1>r. row \in [Rows -> OrderRow]
  BY DEF TypeOK
<1>b. DbError => budget' \in [crash : Nat, kill : Nat, ack : Nat, db : Nat]
  BY DbErrorType DEF TypeOK
<1>1. Resume \in ExecutorState
  BY <1>x, ResumeType
<1>2. \A pc \in Steps : [x EXCEPT !.pc = pc] \in ExecutorState
  BY <1>x, StepType
<1>3. PollRaises => /\ x' \in ExecutorState
                    /\ budget' \in [crash : Nat, kill : Nat, ack : Nat, db : Nat]
  BY <1>b, <1>1, <1>2 DEF PollRaises, Steps
<1>4. CASE ListOpen
  <2>1. x' \in ExecutorState
    BY <1>x, <1>r, <1>4 DEF ListOpen, ExecutorState, Steps, OpenOrders
  <2> QED
    BY <1>4, <2>1 DEF ListOpen, TypeOK, Tables, World
<1>5. CASE WritePoll
  <2>1. x.data.st \in Status /\ x.data.filled \in Nat /\ x.data.remaining \in Int
    BY <1>x DEF ExecutorState, Answers, Status, OpenStatus, TerminalStatus
  <2>2. \/ row' = row
        \/ row' = [row EXCEPT ![x.row].st = x.data.st, ![x.row].filled = x.data.filled,
                              ![x.row].working = x.data.remaining]
    BY <1>5 DEF WritePoll
  <2>3. row' \in [Rows -> OrderRow]
    BY <1>r, <2>1, <2>2 DEF OrderRow
  <2>4. x' \in ExecutorState
    BY <1>2, <1>3, <1>5 DEF WritePoll, Steps
  <2> QED
    BY <1>3, <1>5, <2>3, <2>4 DEF WritePoll, TypeOK, World
<1>6. CASE Settle
  <2>1. x.row \in Rows
    BY <1>6 DEF Settle, RowHeld, RowSteps
  <2>2. /\ x.data.filled \in Int /\ x.data.remaining \in Int
        /\ x.seen[x.row].filled \in Int /\ x.seen[x.row].working \in Int
    BY <1>x, <2>1 DEF ExecutorState, OrderRow, Answers
  <2>3. Delta.bought \in Int /\ Delta.working \in Int
    BY <2>2 DEF Delta
  <2>4. \/ pos' = pos
        \/ pos' = [pos EXCEPT ![TokenOfRow(x.row)] =
                      [bought |-> @.bought + Delta.bought, working |-> @.working + Delta.working]]
    BY <1>6 DEF Settle
  <2>5. pos' \in [Tokens -> [bought : Int, working : Int]]
    BY <2>3, <2>4 DEF TypeOK
  <2>6. x' \in ExecutorState
    BY <1>1, <1>3, <1>6 DEF Settle
  <2> QED
    BY <1>3, <1>6, <2>5, <2>6 DEF Settle, TypeOK, World
<1>7. ASSUME NEW r \in Rows, PollAnswered(r) PROVE TypeOK'
  <2>1. x.seen[r].eoi \in Attempts /\ x.seen[r].size \in Nat
    BY <1>x, <1>7 DEF PollAnswered, ExecutorState, OrderRow
  <2>2. book[r][x.seen[r].eoi] \in BookOrder
    BY <2>1 DEF TypeOK
  <2> DEFINE a == Answer(book[r][x.seen[r].eoi], x.seen[r].size)
  <2>3. a \in Answers
    BY <2>1, <2>2, AnswerType
  <2>4. \/ x' = [x EXCEPT !.rows = @ \ {r}]
        \/ x' = [x EXCEPT !.rows = @ \ {r}, !.pc = "update", !.row = r, !.data = a]
    BY <1>7 DEF PollAnswered
  <2> HIDE DEF a
  <2>5. [x EXCEPT !.rows = @ \ {r}, !.pc = "update", !.row = r, !.data = a] \in ExecutorState
    BY <1>x, <2>3 DEF ExecutorState, Steps
  <2>6. x' \in ExecutorState
    BY <1>x, <2>4, <2>5, DropRowType
  <2> QED
    BY <1>7, <2>6 DEF PollAnswered, TypeOK, Tables, World
<1>8. ASSUME NEW r \in Rows, PollUnanswered(r) PROVE TypeOK'
  <2>1. x' \in ExecutorState
    BY <1>x, <1>8, DropRowType DEF PollUnanswered
  <2> QED
    BY <1>8, <2>1 DEF PollUnanswered, TypeOK, Tables, World
<1> QED
  BY <1>4, <1>5, <1>6, <1>7, <1>8 DEF Poll

LEMMA TypeReprice == TypeOK /\ Reprice => TypeOK'
<1> SUFFICES ASSUME TypeOK, Reprice PROVE TypeOK'
  OBVIOUS
<1>x. x \in ExecutorState
  BY DEF TypeOK
<1>r. row \in [Rows -> OrderRow]
  BY DEF TypeOK
<1>1. CASE ListExpired
  <2>1. x' \in ExecutorState
    BY <1>x, <1>1 DEF ListExpired, ExecutorState, Steps, ExpiredUnfilled
  <2> QED
    BY <1>1, <2>1 DEF ListExpired, TypeOK, Tables, World
<1>2. ASSUME NEW r \in Rows, ClaimExpired(r) PROVE TypeOK'
  <2>1. row' \in [Rows -> OrderRow]
    BY <1>r, <1>2 DEF ClaimExpired, OrderRow
  <2>2. row[r].sig \in Signals \union {NoSignal}
    BY <1>r DEF OrderRow
  <2>3. x' \in ExecutorState
    BY <1>x, <1>2, <2>2 DEF ClaimExpired, ExecutorState, Steps
  <2> QED
    BY <1>2, <2>1, <2>3 DEF ClaimExpired, TypeOK, World
<1>3. CASE EvaluateReprice
  <2>1. ASSUME NEW n \in Sizes PROVE [x EXCEPT !.pc = "insert", !.size = n] \in ExecutorState
    BY <1>x, NumberAssumption DEF ExecutorState, Steps
  <2>2. x' = Resume \/ \E n \in Sizes : x' = [x EXCEPT !.pc = "insert", !.size = n]
    BY <1>3 DEF EvaluateReprice
  <2>3. x' \in ExecutorState
    BY <1>x, <2>1, <2>2, ResumeType
  <2> QED
    BY <1>3, <2>3 DEF EvaluateReprice, TypeOK, Tables, World
<1> QED
  BY <1>1, <1>2, <1>3 DEF Reprice

LEMMA TypeKill == TypeOK /\ KillSwitch => TypeOK'
<1> SUFFICES ASSUME TypeOK, KillSwitch PROVE TypeOK'
  OBVIOUS
<1> DEFINE KillState == [pc : {"idle", "clob", "rows"}, rows : SUBSET Rows,
                         acked : SUBSET Rows, ok : BOOLEAN]
<1>k. kill \in KillState /\ KillIdle \in KillState
  BY DEF TypeOK, KillIdle
<1>b. budget \in [crash : Nat, kill : Nat, ack : Nat, db : Nat]
  BY DEF TypeOK
<1>1. CASE KillList
  <2>1. kill' \in KillState
    BY <1>1 DEF KillList, OpenOrders
  <2>2. budget' \in [crash : Nat, kill : Nat, ack : Nat, db : Nat]
    BY <1>b, <1>1 DEF KillList
  <2> QED
    BY <1>1, <2>1, <2>2 DEF KillList, TypeOK, Tables
<1>2. CASE KillClob
  <2>1. kill' \in KillState
    BY <1>k, <1>2 DEF KillClob
  <2>2. AllCanceled \in [Rows -> [Attempts -> BookOrder]]
    <3>1. ASSUME NEW b \in BookOrder PROVE [b EXCEPT !.st = "canceled"] \in BookOrder
      BY DEF BookOrder, BookState
    <3>2. book \in [Rows -> [Attempts -> BookOrder]]
      BY DEF TypeOK
    <3> QED
      BY <3>1, <3>2 DEF AllCanceled
  <2> QED
    BY <1>2, <2>1, <2>2 DEF KillClob, TypeOK, Tables
<1>3. CASE KillDone
  BY <1>k, <1>3 DEF KillDone, TypeOK, Tables
<1>4. ASSUME NEW r \in Rows, KillRow(r) PROVE TypeOK'
  <2>1. row' \in [Rows -> OrderRow]
    BY <1>4, WriteType, StatusFacts DEF KillRow, TypeOK
  <2>2. kill' \in KillState
    BY <1>k, <1>4 DEF KillRow
  <2>3. budget' \in [crash : Nat, kill : Nat, ack : Nat, db : Nat]
    BY <1>b, <1>4, DbErrorType DEF KillRow
  <2> QED
    BY <1>4, <2>1, <2>2, <2>3 DEF KillRow, TypeOK
<1> QED
  BY <1>1, <1>2, <1>3, <1>4 DEF KillSwitch

LEMMA TypeWorld == TypeOK /\ (Clock \/ Exchange \/ Pipeline \/ Crash) => TypeOK'
<1> SUFFICES ASSUME TypeOK, Clock \/ Exchange \/ Pipeline \/ Crash PROVE TypeOK'
  OBVIOUS
<1>k. book \in [Rows -> [Attempts -> BookOrder]]
  BY DEF TypeOK
<1>1. ASSUME NEW s \in Signals, AgeSignal(s) PROVE TypeOK'
  BY <1>1 DEF AgeSignal, TypeOK, Tables
<1>2. ASSUME NEW r \in Rows, Expire(r) PROVE TypeOK'
  <2>1. [k \in Attempts |-> IF Live(r, k) THEN [book[r][k] EXCEPT !.st = "expired"] ELSE book[r][k]]
            \in [Attempts -> BookOrder]
    BY <1>k DEF BookOrder, BookState
  <2>2. book' \in [Rows -> [Attempts -> BookOrder]]
    BY <1>k, <1>2, <2>1 DEF Expire
  <2> QED
    BY <1>2, <2>2 DEF Expire, TypeOK, Tables
<1>3. ASSUME NEW r \in Rows, PassCutoff(r) PROVE TypeOK'
  BY <1>3 DEF PassCutoff, TypeOK, Tables
<1>4. ASSUME NEW r \in Rows, NEW k \in Attempts, Match(r, k) PROVE TypeOK'
  <2>1. [st |-> IF book[r][k].filled + 1 = row[r].size THEN "matched" ELSE "live",
         filled |-> book[r][k].filled + 1] \in BookOrder
    BY <1>k DEF BookOrder, BookState
  <2>2. book' \in [Rows -> [Attempts -> BookOrder]]
    BY <1>k, <1>4, <2>1 DEF Match
  <2> QED
    BY <1>4, <2>2 DEF Match, TypeOK, Tables
<1>5. ASSUME NEW s \in Signals, EmitSignal(s) PROVE TypeOK'
  BY <1>5 DEF EmitSignal, TypeOK, World, SignalState
<1>6. CASE Crash
  BY <1>6, ConstantTypes DEF Crash, TypeOK, Tables, KillIdle
<1> QED
  BY <1>1, <1>2, <1>3, <1>4, <1>5, <1>6 DEF Clock, Exchange, Pipeline

LEMMA TypeStep == TypeOK /\ RowHeld /\ [Next]_vars => TypeOK'
<1>1. TypeOK /\ UNCHANGED vars => TypeOK'
  BY DEF TypeOK, vars
<1>2. TypeOK /\ (PhaseDone \/ CycleFails) => TypeOK'
  <2> SUFFICES ASSUME TypeOK, PhaseDone \/ CycleFails PROVE TypeOK'
    OBVIOUS
  <2>1. x \in ExecutorState
    BY DEF TypeOK
  <2>2. NextPhase(x.phase) \in Phases
    BY <2>1 DEF ExecutorState, NextPhase, Phases
  <2>3. x' \in ExecutorState
    BY <2>1, <2>2, EnterType DEF PhaseDone, CycleFails, Phases
  <2>4. budget' \in [crash : Nat, kill : Nat, ack : Nat, db : Nat]
    BY DbErrorType DEF PhaseDone, CycleFails, TypeOK
  <2> QED
    BY <2>3, <2>4 DEF PhaseDone, CycleFails, TypeOK, Tables, World
<1> QED
  BY <1>1, <1>2, TypeReconcile, TypeProcess, TypePlace, TypePoll, TypeReprice, TypeKill, TypeWorld
     DEF Next, Executor

-----------------------------------------------------------------------------
(* What the executor knows while it works.                                 *)

SigSteps == {"evaluate", "insert", "mark", "send", "submit", "ack", "book", "reject", "prune"}

\* What the executor holds while it is at a step: between two orders nothing;
\* a signal while it places an order; a claim while it reprices; a signal
\* without a row when it is about to insert the signal's own order.
NoneHeld  == x.pc \in {"list", "next", "fetch"} => x.row = NoRow /\ x.parent = NoRow
SigHeld   == x.pc \in SigSteps => x.sig \in Signals
ClaimHeld == /\ x.pc = "evaluate" => x.parent # NoRow
             /\ x.pc \in {"evaluate", "insert"} /\ x.parent # NoRow =>
                   /\ Used(x.parent) /\ row[x.parent].repriced
                   /\ row[x.parent].sig = x.sig
                   /\ \A q \in Rows : Used(q) => row[q].parent # x.parent
GateHeld  == x.pc = "insert" /\ x.parent = NoRow =>
                \A r \in Rows : Used(r) => row[r].sig # x.sig

\* The rows on the executor's list exist and are not claimed; those to be
\* repriced are still closed.
Listed == /\ x.row \notin x.rows
          /\ \A r \in x.rows : /\ Used(r) /\ ~row[r].repriced
                               /\ x.phase = "reprice" => row[r].st = "CANCELED"

KillListed == \A r \in kill.rows : Used(r)

SigOfRow == \A r \in Rows : Used(r) => row[r].sig \in Signals

ParentClaimed ==
    \A p \in Rows : Used(p) /\ row[p].parent # NoRow =>
        Used(row[p].parent) /\ row[row[p].parent].repriced

\* The invariant of the tables, and that of the executor's locals.
TableInv    == SigOfRow /\ ParentClaimed /\ OneOriginalPerSignal /\ RepricedOnce /\ RepricedIsClosed
ExecutorInv == NoneHeld /\ RowHeld /\ SigHeld /\ ClaimHeld /\ GateHeld /\ Listed

IInv == TypeOK /\ TableInv /\ ExecutorInv /\ KillListed

-----------------------------------------------------------------------------
(* Most steps leave the intents alone: they insert no row, claim none, and *)
(* open no row that was claimed.                                           *)

Quiet ==
    \A q \in Rows :
        /\ row'[q].st # "none" <=> row[q].st # "none"
        /\ row'[q].sig = row[q].sig /\ row'[q].parent = row[q].parent
        /\ row'[q].repriced = row[q].repriced
        /\ row[q].repriced => row'[q].st = "CANCELED"

LEMMA NoRowFact == NoRow \notin Rows
BY DEF NoRow, Rows

LEMMA UnchangedQuiet == RepricedIsClosed /\ UNCHANGED row => Quiet
BY DEF Quiet, RepricedIsClosed

LEMMA WriteQuiet ==
    ASSUME row \in [Rows -> OrderRow], RepricedIsClosed,
           NEW r \in Rows, Used(r), NEW st \in Status,
           st = "CANCELED" \/ ~row[r].repriced,
           Write(r, st)
    PROVE  Quiet
<1>1. st # "none"
  BY DEF Status, OpenStatus, TerminalStatus
<1> QED
  BY <1>1 DEF Quiet, Write, Used, RepricedIsClosed, OrderRow

\* The executor's own writes, to a row it holds.
LEMMA HeldQuiet ==
    ASSUME row \in [Rows -> OrderRow], RepricedIsClosed,
           x.row \in Rows, Used(x.row), ~row[x.row].repriced,
           NEW o \in OrderRow, o.st # "none", o.sig = row[x.row].sig,
           o.parent = row[x.row].parent, ~o.repriced,
           row' = [row EXCEPT ![x.row] = o]
    PROVE  Quiet
<1>1. o.repriced = row[x.row].repriced
  BY DEF OrderRow
<1> QED
  BY <1>1 DEF Quiet, Used, RepricedIsClosed

LEMMA QuietTables == TypeOK /\ TableInv /\ Quiet => TableInv'
<1> SUFFICES ASSUME TypeOK, TableInv, Quiet PROVE TableInv'
  OBVIOUS
<1>0. \A p \in Rows : row[p].parent \in Rows \union {NoRow}
  BY DEF TypeOK, OrderRow
<1>1. SigOfRow'
  BY DEF TableInv, Quiet, SigOfRow, Used
<1>2. ParentClaimed'
  BY <1>0 DEF TableInv, Quiet, ParentClaimed, Used
<1>3. OneOriginalPerSignal'
  BY DEF TableInv, Quiet, OneOriginalPerSignal, Used
<1>4. RepricedOnce'
  BY <1>0 DEF TableInv, Quiet, RepricedOnce, Used
<1>5. RepricedIsClosed'
  BY DEF TableInv, Quiet, RepricedIsClosed
<1> QED
  BY <1>1, <1>2, <1>3, <1>4, <1>5 DEF TableInv

-----------------------------------------------------------------------------
(* How the executor moves.                                                 *)

LEMMA EnterInv ==
    ASSUME NEW p \in Phases, x' = Enter(p)
    PROVE  ExecutorInv'
<1>1. x'.pc = "list" /\ x'.row = NoRow /\ x'.parent = NoRow /\ x'.rows = {}
  BY DEF Enter, Idle
<1> QED
  BY <1>1 DEF ExecutorInv, NoneHeld, RowHeld, SigHeld, ClaimHeld, GateHeld, Listed,
              RowSteps, SigSteps

LEMMA ListedKept ==
    ASSUME TypeOK, Listed, Quiet,
           x.phase = "reprice" => \A q \in x.rows : row'[q].st \in {row[q].st, "CANCELED"},
           x'.rows \subseteq x.rows, x'.phase = x.phase, x'.row \notin x'.rows
    PROVE  Listed'
<1>1. x.rows \subseteq Rows
  BY DEF TypeOK, ExecutorState
<1> QED
  BY <1>1 DEF Listed, Quiet, Used

LEMMA ResumeInv ==
    ASSUME TypeOK, Listed, Quiet,
           x.phase = "reprice" => \A q \in x.rows : row'[q].st \in {row[q].st, "CANCELED"},
           x' = Resume
    PROVE  ExecutorInv'
<1>1. x.rows \subseteq Rows
  BY DEF TypeOK, ExecutorState
<1>2. /\ x'.pc = "next" /\ x'.row = NoRow /\ x'.parent = NoRow
      /\ x'.rows = x.rows /\ x'.phase = x.phase
  BY DEF Resume, TypeOK, ExecutorState
<1>3. Listed'
  BY <1>1, <1>2, NoRowFact, ListedKept
<1> QED
  BY <1>2, <1>3 DEF ExecutorInv, NoneHeld, RowHeld, SigHeld, ClaimHeld, GateHeld,
                    RowSteps, SigSteps

\* From one step of placing or polling an order to the next.
LEMMA AdvanceInv ==
    ASSUME TypeOK, ExecutorInv, Quiet,
           x.phase = "reprice" => \A q \in x.rows : row'[q].st \in {row[q].st, "CANCELED"},
           x.pc \in RowSteps, x'.pc \in RowSteps,
           x'.pc \in SigSteps => x.pc \in SigSteps,
           x'.phase = x.phase, x'.rows = x.rows, x'.row = x.row, x'.sig = x.sig
    PROVE  ExecutorInv'
<1>1. Listed'
  BY ListedKept DEF ExecutorInv, Listed
<1>2. RowHeld'
  BY DEF ExecutorInv, RowHeld, Quiet, Used
<1>3. x.pc \in SigSteps => x.sig \in Signals
  BY DEF ExecutorInv, SigHeld
<1>4. SigHeld'
  BY <1>3 DEF SigHeld, SigSteps
<1> QED
  BY <1>1, <1>2, <1>4 DEF ExecutorInv, NoneHeld, ClaimHeld, GateHeld, RowSteps

\* Other threads: the executor's locals do not move.
LEMMA StillInv ==
    ASSUME TypeOK, ExecutorInv, Quiet,
           \A q \in Rows : row'[q].st \in {row[q].st, "CANCELED"},
           UNCHANGED x
    PROVE  ExecutorInv'
<1>1. x.rows \subseteq Rows /\ x.parent \in Rows \union {NoRow}
  BY DEF TypeOK, ExecutorState
<1>2. Listed'
  BY <1>1, ListedKept DEF ExecutorInv, Listed
<1>3. RowHeld'
  BY DEF ExecutorInv, RowHeld, Quiet, Used
<1>4. ClaimHeld'
  BY <1>1 DEF ExecutorInv, ClaimHeld, Quiet, Used
<1>5. GateHeld'
  BY DEF ExecutorInv, GateHeld, Quiet, Used
<1> QED
  BY <1>2, <1>3, <1>4, <1>5 DEF ExecutorInv, NoneHeld, SigHeld

-----------------------------------------------------------------------------
(* The executor's phases.  A step either is quiet and keeps what the       *)
(* executor knows, or it is a claim or an insertion, which come last.      *)

Settled == Quiet /\ ExecutorInv' /\ kill'.rows \subseteq kill.rows

LEMMA ReconcileSettled == IInv /\ Reconcile => Settled
<1> SUFFICES ASSUME IInv, Reconcile PROVE Settled
  OBVIOUS
<1>a. TypeOK /\ ExecutorInv /\ RepricedIsClosed /\ Listed
  BY DEF IInv, TableInv, ExecutorInv
<1>r. row \in [Rows -> OrderRow] /\ x.rows \subseteq Rows /\ x.row \in Rows \union {NoRow}
  BY <1>a DEF TypeOK, ExecutorState
<1>k. UNCHANGED kill
  BY DEF Reconcile, ReconcileList, FetchLive, FetchFails, RecoverCanceled, RejectZombie, World
<1>p. "signals" \in Phases
  BY DEF Phases
<1>u. ASSUME UNCHANGED row PROVE Quiet
  BY <1>a, <1>u, UnchangedQuiet
<1>1. CASE ReconcileList
  <2>1. Quiet
    BY <1>1, <1>u DEF ReconcileList, Tables
  <2>2. CASE x' = Enter("signals")
    BY <1>k, <1>p, <2>1, <2>2, EnterInv DEF Settled
  <2>3. CASE x' = [x EXCEPT !.pc = "fetch", !.seen = row, !.rows = OpenOrders]
    <3>1. /\ x.pc = "list" /\ x.phase = "reconcile" /\ x'.pc = "fetch" /\ x'.phase = x.phase
          /\ x'.row = x.row /\ x'.parent = x.parent /\ x'.rows = OpenOrders
      BY <1>1, <2>3, <1>a DEF ReconcileList, At, TypeOK, ExecutorState
    <3>2. x.row = NoRow /\ x.parent = NoRow
      BY <1>a, <3>1 DEF ExecutorInv, NoneHeld
    <3>3. \A r \in OpenOrders : r \in Rows /\ Used(r) /\ ~row[r].repriced
      BY <1>a DEF OpenOrders, Used, OpenStatus, RepricedIsClosed
    <3>4. Listed'
      BY <2>1, <3>1, <3>2, <3>3, NoRowFact DEF Listed, Quiet, Used
    <3> QED
      BY <1>k, <2>1, <3>1, <3>2, <3>4
         DEF Settled, ExecutorInv, NoneHeld, RowHeld, SigHeld, ClaimHeld, GateHeld, RowSteps, SigSteps
  <2> QED
    BY <1>1, <2>2, <2>3 DEF ReconcileList
<1>2. CASE FetchLive
  <2>1. Quiet
    BY <1>2, <1>u DEF FetchLive, Tables
  <2>2. /\ x.pc = "fetch" /\ x.phase = "reconcile" /\ x'.pc = "next" /\ x'.phase = x.phase
        /\ x'.row = x.row /\ x'.parent = x.parent /\ x'.rows \subseteq x.rows
    BY <1>2, <1>a DEF FetchLive, At, TypeOK, ExecutorState
  <2>3. x.row = NoRow /\ x.parent = NoRow
    BY <1>a, <2>2 DEF ExecutorInv, NoneHeld
  <2>4. Listed'
    BY <1>a, <1>r, <2>1, <2>2, <2>3, NoRowFact, ListedKept
  <2> QED
    BY <1>k, <2>1, <2>2, <2>3, <2>4
       DEF Settled, ExecutorInv, NoneHeld, RowHeld, SigHeld, ClaimHeld, GateHeld, RowSteps, SigSteps
<1>3. CASE FetchFails
  BY <1>3, <1>k, <1>p, <1>u, EnterInv DEF FetchFails, Settled, Tables
<1>4. CASE RecoverCanceled
  <2>1. x.row \in Rows /\ Used(x.row) /\ ~row[x.row].repriced
    BY <1>4, <1>a DEF RecoverCanceled, At, ExecutorInv, RowHeld, RowSteps
  <2>2. Quiet
    BY <1>4, <1>a, <1>r, <1>u, <2>1, WriteQuiet, StatusFacts DEF RecoverCanceled
  <2>3. x' = Resume \/ x' = Enter("signals")
    BY <1>4 DEF RecoverCanceled
  <2>4. x.phase # "reprice"
    BY <1>4 DEF RecoverCanceled, At
  <2> QED
    BY <1>a, <1>k, <1>p, <2>2, <2>3, <2>4, EnterInv, ResumeInv DEF Settled
<1>5. ASSUME NEW r \in Rows, RejectZombie(r) PROVE Settled
  <2>1. Used(r) /\ ~row[r].repriced /\ x.phase = "reconcile" /\ x.pc = "next"
    BY <1>5, <1>a DEF RejectZombie, At, Listed
  <2>2. Quiet
    BY <1>5, <1>a, <1>r, <1>u, <2>1, WriteQuiet, StatusFacts DEF RejectZombie
  <2>3. CASE x' = Enter("signals")
    BY <1>k, <1>p, <2>2, <2>3, EnterInv DEF Settled
  <2>4. CASE x' = [x EXCEPT !.rows = @ \ {r}]
    <3>1. /\ x'.pc = "next" /\ x'.phase = x.phase /\ x'.row = x.row /\ x'.parent = x.parent
          /\ x'.rows \subseteq x.rows
      BY <2>1, <2>4, <1>a DEF TypeOK, ExecutorState
    <3>2. Listed'
      BY <1>a, <2>1, <2>2, <3>1, ListedKept DEF Listed
    <3> QED
      BY <1>a, <1>k, <2>1, <2>2, <3>1, <3>2
         DEF Settled, ExecutorInv, NoneHeld, RowHeld, SigHeld, ClaimHeld, GateHeld, RowSteps, SigSteps
  <2> QED
    BY <1>5, <2>3, <2>4 DEF RejectZombie
<1> QED
  BY <1>1, <1>2, <1>3, <1>4, <1>5 DEF Reconcile

LEMMA ProcessSettled == IInv /\ Process => Settled
<1> SUFFICES ASSUME IInv, Process PROVE Settled
  OBVIOUS
<1>a. TypeOK /\ ExecutorInv /\ Listed
  BY DEF IInv, ExecutorInv
<1>k. UNCHANGED <<kill, row>>
  BY DEF Process, ListSignals, GateRefuses, SkipSignal, OrderbookGone, ApproveSignal, World, Tables
<1>q. Quiet
  BY <1>k, UnchangedQuiet DEF IInv, TableInv
<1>1. CASE ListSignals
  <2>1. CASE x' = Enter("poll")
    BY <1>k, <1>q, <2>1, EnterInv DEF Settled, Phases
  <2>2. CASE x' = [x EXCEPT !.pc = "next", !.sigs = ExecutableSignals]
    <3>1. /\ x.pc = "list" /\ x'.pc = "next" /\ x'.phase = x.phase /\ x.phase = "signals"
          /\ x'.row = x.row /\ x'.parent = x.parent /\ x'.rows = x.rows
      BY <1>1, <2>2, <1>a DEF ListSignals, At, TypeOK, ExecutorState
    <3>2. Listed'
      BY <1>a, <1>q, <3>1, ListedKept DEF Listed
    <3> QED
      BY <1>a, <1>k, <1>q, <3>1, <3>2
         DEF Settled, ExecutorInv, NoneHeld, RowHeld, SigHeld, ClaimHeld, GateHeld, RowSteps, SigSteps
  <2> QED
    BY <1>1, <2>1, <2>2 DEF ListSignals
<1>2. ASSUME NEW s \in Signals, GateRefuses(s) \/ SkipSignal(s) \/ OrderbookGone(s) \/ ApproveSignal(s)
      PROVE  Settled
  <2>1. /\ x.pc = "next" /\ x.phase = "signals" /\ x.row = NoRow /\ x.parent = NoRow
    BY <1>2, <1>a DEF GateRefuses, SkipSignal, OrderbookGone, ApproveSignal, Take, At, ExecutorInv, NoneHeld
  <2>2. \/ x' = [x EXCEPT !.sigs = @ \ {s}]
        \/ x' = [x EXCEPT !.pc = "prune", !.sigs = @ \ {s}, !.sig = s]
        \/ /\ \E n \in Sizes : x' = [x EXCEPT !.pc = "insert", !.sigs = @ \ {s}, !.sig = s, !.size = n]
           /\ GateOpen(s)
    BY <1>2 DEF GateRefuses, SkipSignal, OrderbookGone, ApproveSignal, Drop
  <2>3. /\ x'.phase = x.phase /\ x'.row = x.row /\ x'.parent = x.parent /\ x'.rows = x.rows
        /\ \/ x'.pc = "next"
           \/ x'.pc = "prune" /\ x'.sig = s
           \/ x'.pc = "insert" /\ x'.sig = s /\ GateOpen(s)
    BY <2>1, <2>2, <1>a DEF TypeOK, ExecutorState
  <2>4. Listed'
    BY <1>a, <1>q, <2>1, <2>3, ListedKept DEF Listed
  <2>5. GateHeld'
    BY <1>k, <2>3 DEF GateHeld, GateOpen, OrderExistsForSignal, Used
  <2> QED
    BY <1>k, <1>q, <2>1, <2>3, <2>4, <2>5
       DEF Settled, ExecutorInv, NoneHeld, RowHeld, SigHeld, ClaimHeld, RowSteps, SigSteps
<1> QED
  BY <1>1, <1>2 DEF Process

PlaceHeld == MarkExecuted \/ MarkSent \/ Submit \/ RecordOpen \/ BookWorking \/ RecordRejected \/ PruneMarket

LEMMA PlaceSettled == IInv /\ PlaceHeld => Settled
<1> SUFFICES ASSUME IInv, PlaceHeld PROVE Settled
  OBVIOUS
<1>a. TypeOK /\ ExecutorInv /\ RepricedIsClosed /\ Listed
  BY DEF IInv, TableInv, ExecutorInv
<1>r. row \in [Rows -> OrderRow] /\ x.rows \subseteq Rows
  BY <1>a DEF TypeOK, ExecutorState
<1>k. UNCHANGED kill
  BY DEF PlaceHeld, MarkExecuted, MarkSent, Submit, RecordOpen, BookWorking, RecordRejected, PruneMarket, World
<1>u. ASSUME UNCHANGED row PROVE Quiet
  BY <1>a, <1>u, UnchangedQuiet
<1>h. ASSUME x.pc \in RowSteps PROVE x.row \in Rows /\ Used(x.row) /\ ~row[x.row].repriced
  BY <1>a, <1>h DEF ExecutorInv, RowHeld
\* A write to the row that is held leaves the listed rows alone.
<1>w. ASSUME x.pc \in RowSteps, NEW o, row' = [row EXCEPT ![x.row] = o]
      PROVE  \A q \in x.rows : row'[q].st \in {row[q].st, "CANCELED"}
  BY <1>a, <1>r, <1>w DEF Listed
\* How the locals move.
<1>m. ASSUME Quiet, \A q \in x.rows : row'[q].st \in {row[q].st, "CANCELED"},
             x.pc \in RowSteps \intersect SigSteps, x'.pc \in RowSteps,
             x'.phase = x.phase, x'.rows = x.rows, x'.row = x.row, x'.sig = x.sig
      PROVE  Settled
  BY <1>a, <1>k, <1>m, AdvanceInv DEF Settled
<1>e. ASSUME Quiet, \A q \in x.rows : row'[q].st \in {row[q].st, "CANCELED"},
             x' = Resume \/ x' = Enter("reconcile")
      PROVE  Settled
  BY <1>a, <1>k, <1>e, ResumeInv, EnterInv DEF Settled, Phases
<1>1. CASE MarkExecuted
  <2>1. Quiet /\ UNCHANGED row
    BY <1>1, <1>u DEF MarkExecuted
  <2>2. \/ x' = Resume
        \/ /\ x'.pc = "send" /\ x'.phase = x.phase /\ x'.rows = x.rows
           /\ x'.row = x.row /\ x'.sig = x.sig
    BY <1>1, <1>a DEF MarkExecuted, TypeOK, ExecutorState
  <2>3. x.pc \in RowSteps \intersect SigSteps
    BY <1>1 DEF MarkExecuted, RowSteps, SigSteps
  <2>4. "send" \in RowSteps
    BY DEF RowSteps
  <2> QED
    BY <1>e, <1>m, <2>1, <2>2, <2>3, <2>4
<1>2. CASE MarkSent
  <2>1. x.pc \in RowSteps \intersect SigSteps
    BY <1>2 DEF MarkSent, RowSteps, SigSteps
  <2>2. Quiet
    BY <1>2, <1>a, <1>r, <1>h, <1>u, <2>1, WriteQuiet, StatusFacts DEF MarkSent
  <2>3. \A q \in x.rows : row'[q].st \in {row[q].st, "CANCELED"}
    BY <1>2, <1>w, <2>1 DEF MarkSent, Write
  <2>4. /\ x'.pc \in RowSteps /\ x'.phase = x.phase /\ x'.rows = x.rows
        /\ x'.row = x.row /\ x'.sig = x.sig
    BY <1>2, <1>a DEF MarkSent, TypeOK, ExecutorState, RowSteps
  <2> QED
    BY <1>m, <2>1, <2>2, <2>3, <2>4
<1>3. CASE Submit
  <2>1. x.pc \in RowSteps \intersect SigSteps /\ Quiet /\ UNCHANGED row
    BY <1>3, <1>u DEF Submit, RowSteps, SigSteps, Tables
  <2>2. \/ x' = [x EXCEPT !.pc = "ack"] \/ x' = [x EXCEPT !.try = @ + 1]
        \/ x' = [x EXCEPT !.pc = "reject"]
        \/ \E g \in BOOLEAN : x' = [x EXCEPT !.pc = "reject", !.gone = g]
    BY <1>3 DEF Submit, RetryOrGiveUp
  <2>3. /\ x'.pc \in {x.pc, "ack", "reject"} /\ x'.phase = x.phase /\ x'.rows = x.rows
        /\ x'.row = x.row /\ x'.sig = x.sig
    BY <2>2, <1>a DEF TypeOK, ExecutorState
  <2>4. x'.pc \in RowSteps
    BY <2>1, <2>3 DEF RowSteps
  <2> QED
    BY <1>m, <2>1, <2>3, <2>4
<1>4. CASE RecordOpen
  <2>1. x.pc \in RowSteps \intersect SigSteps
    BY <1>4 DEF RecordOpen, RowSteps, SigSteps
  <2>2. ASSUME row' = [row EXCEPT ![x.row].st = "OPEN", ![x.row].eoi = x.try,
                                  ![x.row].working = row[x.row].size]
        PROVE  Quiet /\ \A q \in x.rows : row'[q].st \in {row[q].st, "CANCELED"}
    <3> DEFINE o == [row[x.row] EXCEPT !.st = "OPEN", !.eoi = x.try, !.working = row[x.row].size]
    <3>1. row' = [row EXCEPT ![x.row] = o]
      BY <1>r, <2>2
    <3>2. /\ o.st # "none" /\ o.sig = row[x.row].sig /\ o.parent = row[x.row].parent
          /\ o.repriced = row[x.row].repriced
      BY <1>h, <1>r, <2>1 DEF OrderRow
    <3> HIDE DEF o
    <3>3. Quiet
      BY <1>a, <1>r, <1>h, <2>1, <3>1, <3>2 DEF Quiet, Used, RepricedIsClosed
    <3> QED
      BY <1>w, <2>1, <3>1, <3>3
  <2>3. Quiet /\ \A q \in x.rows : row'[q].st \in {row[q].st, "CANCELED"}
    BY <1>4, <1>u, <2>2 DEF RecordOpen
  <2>4. /\ x'.pc \in RowSteps /\ x'.phase = x.phase /\ x'.rows = x.rows
        /\ x'.row = x.row /\ x'.sig = x.sig
    BY <1>4, <1>a DEF RecordOpen, TypeOK, ExecutorState, RowSteps
  <2> QED
    BY <1>m, <2>1, <2>3, <2>4
<1>5. CASE BookWorking
  BY <1>5, <1>e, <1>u DEF BookWorking
<1>6. CASE RecordRejected
  <2>1. x.pc = "reject" /\ x.pc \in RowSteps
    BY <1>6 DEF RecordRejected, RowSteps
  <2>2. Quiet
    BY <1>6, <1>a, <1>r, <1>h, <1>u, <2>1, WriteQuiet, StatusFacts DEF RecordRejected
  <2>3. \A q \in x.rows : row'[q].st \in {row[q].st, "CANCELED"}
    BY <1>6, <1>w, <2>1 DEF RecordRejected, Write
  <2>4. CASE x' = [x EXCEPT !.pc = "prune"]
    <3>1. /\ x'.pc = "prune" /\ x'.phase = x.phase /\ x'.rows = x.rows
          /\ x'.row = x.row /\ x'.sig = x.sig
      BY <1>a, <2>4 DEF TypeOK, ExecutorState
    <3>2. x.sig \in Signals
      BY <1>a, <2>1 DEF ExecutorInv, SigHeld, SigSteps
    <3>3. Listed'
      BY <1>a, <2>2, <2>3, <3>1, ListedKept DEF Listed
    <3> QED
      BY <1>k, <2>2, <3>1, <3>2, <3>3
         DEF Settled, ExecutorInv, NoneHeld, RowHeld, SigHeld, ClaimHeld, GateHeld, RowSteps
  <2> QED
    BY <1>6, <1>e, <2>2, <2>3, <2>4 DEF RecordRejected
<1>7. CASE PruneMarket
  BY <1>7, <1>e, <1>u DEF PruneMarket
<1> QED
  BY <1>1, <1>2, <1>3, <1>4, <1>5, <1>6, <1>7 DEF PlaceHeld

LEMMA PollSettled == IInv /\ Poll => Settled
<1> SUFFICES ASSUME IInv, Poll PROVE Settled
  OBVIOUS
<1>a. TypeOK /\ ExecutorInv /\ RepricedIsClosed /\ Listed
  BY DEF IInv, TableInv, ExecutorInv
<1>r. row \in [Rows -> OrderRow] /\ x.rows \subseteq Rows
  BY <1>a DEF TypeOK, ExecutorState
<1>k. UNCHANGED kill
  BY DEF Poll, ListOpen, WritePoll, Settle, PollAnswered, PollUnanswered, World
<1>u. ASSUME UNCHANGED row PROVE Quiet
  BY <1>a, <1>u, UnchangedQuiet
<1>m. ASSUME Quiet, \A q \in x.rows : row'[q].st \in {row[q].st, "CANCELED"},
             x.pc \in {"update", "settle"},
             \/ x' = Resume
             \/ \E pc \in {"settle", "recover"} : x' = [x EXCEPT !.pc = pc]
      PROVE  Settled
  <2>1. CASE x' = Resume
    BY <1>a, <1>k, <1>m, <2>1, ResumeInv DEF Settled
  <2>2. CASE \E pc \in {"settle", "recover"} : x' = [x EXCEPT !.pc = pc]
    <3>1. /\ x'.pc \in {"settle", "recover"} /\ x'.phase = x.phase /\ x'.rows = x.rows
          /\ x'.row = x.row /\ x'.sig = x.sig
      BY <1>a, <2>2 DEF TypeOK, ExecutorState
    <3>2. x.pc \in RowSteps /\ x'.pc \in RowSteps /\ x'.pc \notin SigSteps
      BY <1>m, <3>1 DEF RowSteps, SigSteps
    <3> QED
      BY <1>a, <1>k, <1>m, <3>1, <3>2, AdvanceInv DEF Settled
  <2> QED
    BY <1>m, <2>1, <2>2
<1>1. CASE ListOpen
  <2>1. Quiet
    BY <1>1, <1>u DEF ListOpen, Tables
  <2>2. /\ x.pc = "list" /\ x.phase = "poll" /\ x'.pc = "next" /\ x'.phase = x.phase
        /\ x'.row = x.row /\ x'.parent = x.parent /\ x'.rows = OpenOrders
    BY <1>1, <1>a DEF ListOpen, At, TypeOK, ExecutorState
  <2>3. x.row = NoRow /\ x.parent = NoRow
    BY <1>a, <2>2 DEF ExecutorInv, NoneHeld
  <2>4. \A r \in OpenOrders : r \in Rows /\ Used(r) /\ ~row[r].repriced
    BY <1>a DEF OpenOrders, Used, OpenStatus, RepricedIsClosed
  <2>5. Listed'
    BY <2>1, <2>2, <2>3, <2>4, NoRowFact DEF Listed, Quiet, Used
  <2> QED
    BY <1>k, <2>1, <2>2, <2>3, <2>5
       DEF Settled, ExecutorInv, NoneHeld, RowHeld, SigHeld, ClaimHeld, GateHeld, RowSteps, SigSteps
<1>2. CASE WritePoll
  <2>1. x.row \in Rows /\ Used(x.row) /\ ~row[x.row].repriced
    BY <1>2, <1>a DEF WritePoll, ExecutorInv, RowHeld, RowSteps
  <2>2. x.data.st # "none"
    BY <1>a DEF TypeOK, ExecutorState, Answers
  <2>3. ASSUME row' = [row EXCEPT ![x.row].st = x.data.st, ![x.row].filled = x.data.filled,
                                  ![x.row].working = x.data.remaining]
        PROVE  Quiet /\ \A q \in x.rows : row'[q].st \in {row[q].st, "CANCELED"}
    <3> DEFINE o == [row[x.row] EXCEPT !.st = x.data.st, !.filled = x.data.filled,
                                       !.working = x.data.remaining]
    <3>1. row' = [row EXCEPT ![x.row] = o]
      BY <2>3, <1>r
    <3>2. /\ o.st # "none" /\ o.sig = row[x.row].sig /\ o.parent = row[x.row].parent
          /\ o.repriced = row[x.row].repriced
      BY <1>r, <2>1, <2>2 DEF OrderRow
    <3> HIDE DEF o
    <3>3. Quiet
      BY <1>a, <1>r, <2>1, <3>1, <3>2 DEF Quiet, Used, RepricedIsClosed
    <3> QED
      BY <1>a, <1>r, <3>1, <3>3 DEF Listed
  <2>4. Quiet /\ \A q \in x.rows : row'[q].st \in {row[q].st, "CANCELED"}
    BY <1>2, <1>u, <2>3 DEF WritePoll
  <2>5. \/ x' = Resume
        \/ \E pc \in {"settle", "recover"} : x' = [x EXCEPT !.pc = pc]
    BY <1>2 DEF WritePoll, PollRaises
  <2> QED
    BY <1>2, <1>m, <2>4, <2>5 DEF WritePoll
<1>3. CASE Settle
  <2>1. Quiet /\ UNCHANGED row
    BY <1>3, <1>u DEF Settle
  <2>2. \/ x' = Resume
        \/ \E pc \in {"settle", "recover"} : x' = [x EXCEPT !.pc = pc]
    BY <1>3 DEF Settle, PollRaises
  <2> QED
    BY <1>3, <1>m, <2>1, <2>2 DEF Settle
<1>4. ASSUME NEW r \in Rows, PollAnswered(r) \/ PollUnanswered(r) PROVE Settled
  <2>1. Quiet /\ UNCHANGED row
    BY <1>4, <1>u DEF PollAnswered, PollUnanswered, Tables
  <2>2. /\ x.pc = "next" /\ x.row = NoRow /\ x.parent = NoRow
        /\ r \in x.rows /\ Used(r) /\ ~row[r].repriced
    BY <1>4, <1>a DEF PollAnswered, PollUnanswered, ExecutorInv, NoneHeld, Listed
  <2>3. \/ x' = [x EXCEPT !.rows = @ \ {r}]
        \/ \E a : x' = [x EXCEPT !.rows = @ \ {r}, !.pc = "update", !.row = r, !.data = a]
    BY <1>4 DEF PollAnswered, PollUnanswered
  <2>4. /\ x'.phase = x.phase /\ x'.rows = x.rows \ {r} /\ x'.parent = x.parent
        /\ \/ x'.pc = "next" /\ x'.row = x.row
           \/ x'.pc = "update" /\ x'.row = r
    BY <1>a, <2>2, <2>3 DEF TypeOK, ExecutorState
  <2>5. Listed'
    BY <1>a, <1>r, <2>1, <2>2, <2>4, NoRowFact, ListedKept
  <2>6. RowHeld'
    BY <2>1, <2>2, <2>4 DEF RowHeld, RowSteps, Used
  <2> QED
    BY <1>k, <2>1, <2>2, <2>4, <2>5, <2>6
       DEF Settled, ExecutorInv, NoneHeld, SigHeld, ClaimHeld, GateHeld, SigSteps
<1> QED
  BY <1>1, <1>2, <1>3, <1>4 DEF Poll

LEMMA RepriceSettled == IInv /\ (ListExpired \/ EvaluateReprice) => Settled
<1> SUFFICES ASSUME IInv, ListExpired \/ EvaluateReprice PROVE Settled
  OBVIOUS
<1>a. TypeOK /\ ExecutorInv /\ Listed
  BY DEF IInv, ExecutorInv
<1>k. UNCHANGED <<kill, row>>
  BY DEF ListExpired, EvaluateReprice, World, Tables
<1>q. Quiet
  BY <1>k, UnchangedQuiet DEF IInv, TableInv
<1>1. CASE ListExpired
  <2>1. /\ x.pc = "list" /\ x'.pc = "next" /\ x'.row = x.row /\ x'.parent = x.parent
        /\ x'.rows = ExpiredUnfilled
    BY <1>1, <1>a DEF ListExpired, At, TypeOK, ExecutorState
  <2>2. x.row = NoRow /\ x.parent = NoRow
    BY <1>a, <2>1 DEF ExecutorInv, NoneHeld
  <2>3. \A r \in ExpiredUnfilled : r \in Rows /\ row[r].st = "CANCELED" /\ ~row[r].repriced
    BY DEF ExpiredUnfilled
  <2>4. Listed'
    BY <1>k, <2>1, <2>2, <2>3, NoRowFact DEF Listed, Used
  <2> QED
    BY <1>k, <1>q, <2>1, <2>2, <2>4
       DEF Settled, ExecutorInv, NoneHeld, RowHeld, SigHeld, ClaimHeld, GateHeld, RowSteps, SigSteps
<1>2. CASE EvaluateReprice
  <2>1. CASE x' = Resume
    BY <1>a, <1>k, <1>q, <2>1, ResumeInv DEF Settled
  <2>2. CASE \E n \in Sizes : x' = [x EXCEPT !.pc = "insert", !.size = n]
    <3>1. /\ x.pc = "evaluate" /\ x'.pc = "insert" /\ x'.phase = x.phase /\ x'.rows = x.rows
          /\ x'.row = x.row /\ x'.sig = x.sig /\ x'.parent = x.parent
      BY <1>2, <1>a, <2>2 DEF EvaluateReprice, TypeOK, ExecutorState
    <3>2. Listed'
      BY <1>a, <1>k, <1>q, <3>1, ListedKept DEF Listed
    <3>3. ClaimHeld' /\ GateHeld'
      BY <1>a, <1>k, <3>1 DEF ExecutorInv, ClaimHeld, GateHeld, Used
    <3>4. SigHeld'
      BY <1>a, <3>1 DEF ExecutorInv, SigHeld, SigSteps
    <3> QED
      BY <1>k, <1>q, <3>1, <3>2, <3>3, <3>4 DEF Settled, ExecutorInv, NoneHeld, RowHeld, RowSteps
  <2> QED
    BY <1>2, <2>1, <2>2 DEF EvaluateReprice
<1> QED
  BY <1>1, <1>2

LEMMA WalkSettled == IInv /\ (PhaseDone \/ CycleFails) => Settled
<1> SUFFICES ASSUME IInv, PhaseDone \/ CycleFails PROVE Settled
  OBVIOUS
<1>1. x.phase \in Phases
  BY DEF IInv, TypeOK, ExecutorState
<1>2. \E p \in Phases : x' = Enter(p)
  BY <1>1 DEF PhaseDone, CycleFails, NextPhase, Phases
<1>3. UNCHANGED <<row, kill>>
  BY DEF PhaseDone, CycleFails, Tables, World
<1> QED
  BY <1>2, <1>3, EnterInv, UnchangedQuiet DEF Settled, IInv, TableInv

-----------------------------------------------------------------------------
(* The other threads, and a restart.                                       *)

LEMMA KillKept == IInv /\ KillSwitch => Quiet /\ ExecutorInv' /\ KillListed'
<1> SUFFICES ASSUME IInv, KillSwitch PROVE Quiet /\ ExecutorInv' /\ KillListed'
  OBVIOUS
<1>a. TypeOK /\ ExecutorInv /\ RepricedIsClosed /\ KillListed
  BY DEF IInv, TableInv
<1>r. row \in [Rows -> OrderRow] /\ kill.rows \subseteq Rows
  BY <1>a DEF TypeOK
<1>x. UNCHANGED x
  BY DEF KillSwitch, KillList, KillClob, KillRow, KillDone
<1>u. ASSUME UNCHANGED row PROVE Quiet /\ ExecutorInv'
  BY <1>a, <1>x, <1>u, UnchangedQuiet, StillInv
<1>1. CASE KillList
  <2>1. kill'.rows = OpenOrders /\ UNCHANGED row
    BY <1>1 DEF KillList, Tables
  <2> QED
    BY <1>u, <2>1 DEF KillListed, OpenOrders, OpenStatus, Used
<1>2. CASE KillClob \/ KillDone
  <2>1. /\ UNCHANGED row
        /\ \/ kill' = KillIdle \/ kill' = [kill EXCEPT !.pc = "rows"]
           \/ kill' = [kill EXCEPT !.pc = "rows", !.ok = FALSE]
    BY <1>2 DEF KillClob, KillDone, Tables
  <2>2. kill'.rows \in {{}, kill.rows}
    <3>1. kill \in [pc : {"idle", "clob", "rows"}, rows : SUBSET Rows,
                    acked : SUBSET Rows, ok : BOOLEAN]
      BY <1>a DEF TypeOK
    <3>2. /\ [kill EXCEPT !.pc = "rows"].rows = kill.rows
          /\ [kill EXCEPT !.pc = "rows", !.ok = FALSE].rows = kill.rows
          /\ KillIdle.rows = {}
      BY <3>1 DEF KillIdle
    <3> HIDE DEF KillIdle
    <3> QED
      BY <2>1, <3>2
  <2> QED
    BY <1>a, <1>u, <2>1, <2>2 DEF KillListed, Used
<1>3. ASSUME NEW r \in Rows, KillRow(r) PROVE Quiet /\ ExecutorInv' /\ KillListed'
  <2>1. r \in kill.rows /\ Used(r) /\ kill'.rows \subseteq kill.rows
    BY <1>3, <1>a DEF KillRow, KillListed, KillIdle, TypeOK
  <2>2. Quiet /\ \A q \in Rows : row'[q].st \in {row[q].st, "CANCELED"}
    <3>1. CASE UNCHANGED row
      BY <1>u, <3>1
    <3>2. CASE Write(r, "CANCELED")
      <4>1. Quiet
        BY <1>a, <1>r, <2>1, <3>2, WriteQuiet, StatusFacts
      <4>2. \A q \in Rows : row'[q].st \in {row[q].st, "CANCELED"}
        BY <1>r, <3>2 DEF Write, OrderRow
      <4> QED
        BY <4>1, <4>2
    <3> QED
      BY <1>3, <3>1, <3>2 DEF KillRow
  <2> QED
    BY <1>a, <1>r, <1>x, <2>1, <2>2, StillInv DEF KillListed, Quiet, Used
<1> QED
  BY <1>1, <1>2, <1>3 DEF KillSwitch

LEMMA WorldKept ==
    IInv /\ (Clock \/ Exchange \/ Pipeline \/ Crash) => Quiet /\ ExecutorInv' /\ KillListed'
<1> SUFFICES ASSUME IInv, Clock \/ Exchange \/ Pipeline \/ Crash
             PROVE  Quiet /\ ExecutorInv' /\ KillListed'
  OBVIOUS
<1>1. UNCHANGED row /\ Quiet
  BY UnchangedQuiet DEF Clock, Exchange, Pipeline, Crash, AgeSignal, Expire, PassCutoff, Match,
     EmitSignal, Tables, IInv, TableInv
<1>2. CASE Clock \/ Exchange \/ Pipeline
  <2>1. UNCHANGED <<x, kill>>
    BY <1>2 DEF Clock, Exchange, Pipeline, AgeSignal, Expire, PassCutoff, Match, EmitSignal, World
  <2> QED
    BY <1>1, <2>1, StillInv DEF IInv, KillListed, Used
<1>3. CASE Crash
  <2>1. x'.pc = "list" /\ x'.row = NoRow /\ x'.parent = NoRow /\ x'.rows = {} /\ kill'.rows = {}
    BY <1>3 DEF Crash, Idle, KillIdle
  <2> QED
    BY <1>1, <2>1 DEF ExecutorInv, NoneHeld, RowHeld, SigHeld, ClaimHeld, GateHeld, Listed,
                      KillListed, RowSteps, SigSteps
<1> QED
  BY <1>2, <1>3

-----------------------------------------------------------------------------
(* The two steps that write to the ledger.                                 *)

\* The step in which the executor inserts row r.
Insert(r) ==
    /\ x.pc = "insert" /\ row[r].st = "none"
    /\ row' = [row EXCEPT ![r] = [NoOrder EXCEPT !.st = "PENDING", !.sig = x.sig,
                                                 !.size = x.size, !.parent = x.parent]]
    /\ x' = [x EXCEPT !.pc = IF x.parent = NoRow THEN "mark" ELSE "send", !.row = r]
    /\ UNCHANGED kill

LEMMA InsertOrNot == IInv /\ InsertOrder => Settled \/ \E r \in Rows : Insert(r)
<1> SUFFICES ASSUME IInv, InsertOrder PROVE Settled \/ \E r \in Rows : Insert(r)
  OBVIOUS
<1>1. UNCHANGED kill
  BY DEF InsertOrder, World
<1>2. CASE x' = Resume /\ UNCHANGED row
  <2>1. Quiet
    BY <1>2, UnchangedQuiet DEF IInv, TableInv
  <2> QED
    BY <1>1, <1>2, <2>1, ResumeInv DEF IInv, ExecutorInv, Settled
<1> QED
  BY <1>1, <1>2 DEF InsertOrder, Unused, Insert

\* What the new row is, and that the others are as they were.
LEMMA InsertedRow ==
    ASSUME TypeOK, NEW r \in Rows, Insert(r)
    PROVE  /\ row'[r].st = "PENDING" /\ row'[r].sig = x.sig /\ row'[r].parent = x.parent
           /\ ~row'[r].repriced
           /\ \A q \in Rows \ {r} : row'[q] = row[q]
           /\ ~Used(r) /\ Used(r)'
BY DEF Insert, NoOrder, TypeOK, Used

LEMMA InsertKept ==
    ASSUME IInv, NEW r \in Rows, Insert(r)
    PROVE  TableInv' /\ ExecutorInv' /\ KillListed'
<1>a. TypeOK /\ TableInv /\ ExecutorInv /\ KillListed
  BY DEF IInv
<1>n. /\ row'[r].st = "PENDING" /\ row'[r].sig = x.sig /\ row'[r].parent = x.parent
      /\ ~row'[r].repriced
      /\ \A q \in Rows \ {r} : row'[q] = row[q]
      /\ ~Used(r) /\ Used(r)'
  BY <1>a, InsertedRow
<1>u. \A q \in Rows \ {r} : Used(q)' <=> Used(q)
  BY <1>n DEF Used
<1>p. /\ x.parent \in Rows \union {NoRow} /\ x.rows \subseteq Rows
      /\ \A q \in Rows : row[q].parent \in Rows \union {NoRow}
  BY <1>a DEF TypeOK, ExecutorState, OrderRow
<1>c. x.pc = "insert" /\ x.sig \in Signals
  BY <1>a DEF Insert, ExecutorInv, SigHeld, SigSteps
<1>e. x.parent # NoRow => /\ Used(x.parent) /\ row[x.parent].repriced
                          /\ row[x.parent].sig = x.sig
                          /\ \A q \in Rows : Used(q) => row[q].parent # x.parent
  BY <1>a, <1>c DEF ExecutorInv, ClaimHeld
<1>g. x.parent = NoRow => \A q \in Rows : Used(q) => row[q].sig # x.sig
  BY <1>a, <1>c DEF ExecutorInv, GateHeld
\* A row that has a successor is used, so it is not the new one.
<1>s. \A q \in Rows \ {r} : Used(q) /\ row[q].parent # NoRow => row[q].parent \in Rows \ {r}
  BY <1>a, <1>n, <1>p DEF TableInv, ParentClaimed
<1>t. x.parent # NoRow => x.parent \in Rows \ {r}
  BY <1>e, <1>n, <1>p
<1>1. SigOfRow'
  BY <1>a, <1>c, <1>n, <1>u DEF TableInv, SigOfRow
<1>2. ParentClaimed'
  <2> SUFFICES ASSUME NEW p \in Rows, Used(p)', row'[p].parent # NoRow
               PROVE  Used(row[p].parent)' /\ row'[row'[p].parent].repriced
    BY <1>n DEF ParentClaimed, Used
  <2> QED
    BY <1>a, <1>e, <1>n, <1>s, <1>t, <1>u DEF TableInv, ParentClaimed, Used
<1>3. OneOriginalPerSignal'
  BY <1>a, <1>g, <1>n, <1>u DEF TableInv, OneOriginalPerSignal
<1>4. RepricedOnce'
  <2> SUFFICES ASSUME NEW p \in Rows, NEW q \in Rows, Used(p)', row'[p].parent # NoRow
               PROVE  /\ row'[p].sig = row'[row'[p].parent].sig
                      /\ Used(q)' /\ row'[q].parent = row'[p].parent => p = q
    BY DEF RepricedOnce
  <2>1. row'[p].sig = row'[row'[p].parent].sig
    BY <1>a, <1>e, <1>n, <1>s, <1>t, <1>u DEF TableInv, RepricedOnce
  <2>2. Used(q)' /\ row'[q].parent = row'[p].parent => p = q
    BY <1>a, <1>e, <1>n, <1>u DEF TableInv, RepricedOnce
  <2> QED
    BY <2>1, <2>2
<1>5. RepricedIsClosed'
  BY <1>a, <1>n DEF TableInv, RepricedIsClosed
<1>6. /\ x'.pc \in {"mark", "send"} /\ x'.row = r /\ x'.sig = x.sig /\ x'.rows = x.rows
      /\ x'.phase = x.phase
  BY <1>a DEF Insert, TypeOK, ExecutorState
<1>7. Listed'
  <2>1. \A q \in x.rows : q \in Rows \ {r} /\ Used(q)
    BY <1>a, <1>n, <1>p DEF ExecutorInv, Listed
  <2> QED
    BY <1>a, <1>n, <1>u, <1>6, <2>1 DEF ExecutorInv, Listed
<1>8. ExecutorInv'
  BY <1>c, <1>n, <1>6, <1>7
     DEF ExecutorInv, NoneHeld, RowHeld, SigHeld, ClaimHeld, GateHeld, RowSteps, SigSteps
<1>9. KillListed'
  BY <1>a, <1>n, <1>u DEF KillListed, Insert, TypeOK
<1> QED
  BY <1>1, <1>2, <1>3, <1>4, <1>5, <1>8, <1>9 DEF TableInv

LEMMA ClaimKept ==
    ASSUME IInv, NEW r \in Rows, ClaimExpired(r)
    PROVE  TableInv' /\ ExecutorInv' /\ KillListed'
<1>a. TypeOK /\ TableInv /\ ExecutorInv /\ KillListed /\ SigOfRow /\ ParentClaimed
  BY DEF IInv, TableInv
<1>c. /\ r \in x.rows /\ Used(r) /\ ~row[r].repriced /\ row[r].st = "CANCELED"
      /\ x.row = NoRow
  BY <1>a DEF ClaimExpired, At, ExecutorInv, Listed, NoneHeld
<1>n. /\ row'[r].repriced
      /\ \A q \in Rows : /\ row'[q].st = row[q].st /\ row'[q].sig = row[q].sig
                         /\ row'[q].parent = row[q].parent
                         /\ q # r => row'[q].repriced = row[q].repriced
  <2>1. row \in [Rows -> OrderRow] /\ row' = [row EXCEPT ![r].repriced = TRUE]
    BY <1>a DEF ClaimExpired, TypeOK
  <2> QED
    BY <2>1 DEF OrderRow
<1>p. \A q \in Rows : row[q].parent \in Rows \union {NoRow}
  BY <1>a DEF TypeOK, OrderRow
<1>x. /\ x'.pc = "evaluate" /\ x'.rows = x.rows \ {r} /\ x'.parent = r /\ x'.sig = row[r].sig
      /\ x'.phase = x.phase /\ x'.row = x.row
  BY <1>a DEF ClaimExpired, TypeOK, ExecutorState
<1>1. SigOfRow'
  BY <1>a, <1>n DEF SigOfRow, Used
<1>2. ParentClaimed'
  BY <1>a, <1>n, <1>p DEF ParentClaimed, Used
<1>3. OneOriginalPerSignal'
  BY <1>a, <1>n DEF TableInv, OneOriginalPerSignal, Used
<1>4. RepricedOnce'
  BY <1>a, <1>n, <1>p DEF TableInv, RepricedOnce, Used
<1>5. RepricedIsClosed'
  BY <1>a, <1>c, <1>n DEF TableInv, RepricedIsClosed
<1>6. \A q \in Rows : Used(q) => row[q].parent # r
  BY <1>a, <1>c, NoRowFact DEF ParentClaimed
<1>7. ClaimHeld'
  BY <1>c, <1>n, <1>x, <1>6, NoRowFact DEF ClaimHeld, Used
<1>8. Listed'
  <2>1. x.rows \subseteq Rows
    BY <1>a DEF TypeOK, ExecutorState
  <2> QED
    BY <1>a, <1>c, <1>n, <1>x, <2>1, NoRowFact DEF ExecutorInv, Listed, Used
<1>9. SigHeld'
  BY <1>a, <1>c, <1>x DEF SigOfRow, SigHeld
<1>10. KillListed'
  BY <1>a, <1>n DEF KillListed, ClaimExpired, World, TypeOK, Used
<1> QED
  BY <1>1, <1>2, <1>3, <1>4, <1>5, <1>7, <1>8, <1>9, <1>10, <1>x
     DEF TableInv, ExecutorInv, NoneHeld, RowHeld, GateHeld, RowSteps

-----------------------------------------------------------------------------
(* The theorems.                                                           *)

LEMMA SettledKept == IInv /\ Settled => TableInv' /\ ExecutorInv' /\ KillListed'
<1> SUFFICES ASSUME IInv, Settled PROVE TableInv' /\ ExecutorInv' /\ KillListed'
  OBVIOUS
<1>1. kill.rows \subseteq Rows
  BY DEF IInv, TypeOK
<1>2. KillListed'
  BY <1>1 DEF IInv, KillListed, Settled, Quiet, Used
<1> QED
  BY <1>2, QuietTables DEF IInv, Settled

\* Every step is quiet, an insertion or a claim.
LEMMA StepKinds ==
    IInv /\ [Next]_vars =>
        \/ Quiet /\ TableInv' /\ ExecutorInv' /\ KillListed'
        \/ \E r \in Rows : Insert(r)
        \/ \E r \in Rows : ClaimExpired(r)
<1> SUFFICES ASSUME IInv, [Next]_vars
             PROVE  \/ Quiet /\ TableInv' /\ ExecutorInv' /\ KillListed'
                    \/ \E r \in Rows : Insert(r)
                    \/ \E r \in Rows : ClaimExpired(r)
  OBVIOUS
<1>1. CASE UNCHANGED vars
  <2>1. UNCHANGED <<row, x, kill>>
    BY <1>1 DEF vars
  <2>2. Quiet
    BY <2>1, UnchangedQuiet DEF IInv, TableInv
  <2>3. ExecutorInv'
    BY <2>1, <2>2, StillInv DEF IInv
  <2> QED
    BY <2>1, <2>2, <2>3, SettledKept DEF Settled
<1>2. CASE Executor
  <2>1. Settled \/ (\E r \in Rows : Insert(r)) \/ \E r \in Rows : ClaimExpired(r)
    BY <1>2, ReconcileSettled, ProcessSettled, PlaceSettled, PollSettled, RepriceSettled,
       WalkSettled, InsertOrNot DEF Executor, Place, PlaceHeld, Reprice
  <2> QED
    BY <2>1, SettledKept DEF Settled
<1>3. CASE KillSwitch
  BY <1>3, KillKept, QuietTables DEF IInv
<1>4. CASE Clock \/ Exchange \/ Pipeline \/ Crash
  BY <1>4, WorldKept, QuietTables DEF IInv
<1> QED
  BY <1>1, <1>2, <1>3, <1>4 DEF Next

LEMMA StepInv == IInv /\ [Next]_vars => IInv'
<1> SUFFICES ASSUME IInv, [Next]_vars PROVE IInv'
  OBVIOUS
<1>1. TypeOK'
  BY TypeStep DEF IInv, ExecutorInv
<1>2. TableInv' /\ ExecutorInv' /\ KillListed'
  BY StepKinds, InsertKept, ClaimKept
<1> QED
  BY <1>1, <1>2 DEF IInv

LEMMA InitInv == Init => IInv
<1> SUFFICES ASSUME Init PROVE IInv
  OBVIOUS
<1>1. TypeOK
  BY TypeInit
<1>2. \A r \in Rows : ~Used(r) /\ ~row[r].repriced
  BY DEF Init, Used, EmptyTable, NoOrder
<1>3. x.pc = "list" /\ x.row = NoRow /\ x.parent = NoRow /\ x.rows = {} /\ kill.rows = {}
  BY DEF Init, Idle, KillIdle
<1> QED
  BY <1>1, <1>2, <1>3
     DEF IInv, TableInv, ExecutorInv, NoneHeld, RowHeld, SigHeld, ClaimHeld, GateHeld, Listed,
         KillListed, SigOfRow, ParentClaimed, OneOriginalPerSignal, RepricedOnce,
         RepricedIsClosed, RowSteps, SigSteps

\* The inductive invariant holds in every reachable state.
THEOREM Invariance == Spec => []IInv
<1>1. Init => IInv
  BY InitInv
<1>2. IInv /\ [Next]_vars => IInv'
  BY StepInv
<1> QED
  BY <1>1, <1>2, PTL DEF Spec

\* The variables keep their types; a submission makes at most MaxRetries attempts.
THEOREM TypeCorrect == Spec => []TypeOK
<1>1. IInv => TypeOK
  BY DEF IInv
<1> QED
  BY <1>1, Invariance, PTL

\* A signal is ordered at most once, reprices aside (pre-trade gate 4 and the
\* order in which place_order writes).
THEOREM OriginalOnce == Spec => []OneOriginalPerSignal
<1>1. IInv => OneOriginalPerSignal
  BY DEF IInv, TableInv
<1> QED
  BY <1>1, Invariance, PTL

\* An order is reposted at most once, for its own signal (mark_order_repriced
\* before the repost).
THEOREM RepostOnce == Spec => []RepricedOnce
<1>1. IInv => RepricedOnce
  BY DEF IInv, TableInv
<1> QED
  BY <1>1, Invariance, PTL

\* An order that was claimed for a reprice is not opened again by a poll, an
\* acknowledgement or a reconciliation that comes late.
THEOREM ClaimedStaysClosed == Spec => []RepricedIsClosed
<1>1. IInv => RepricedIsClosed
  BY DEF IInv, TableInv
<1> QED
  BY <1>1, Invariance, PTL

-----------------------------------------------------------------------------
(* The refinement of OrderLedger.                                          *)

\* What KeepsLedger puts for the ledger's two variables.
Entries  == {[id |-> r, sig |-> row[r].sig, prev |-> row[r].parent] : r \in {q \in Rows : Used(q)}}
Replaced == {r \in Rows : row[r].repriced}

LEMMA QuietLedger == Quiet => Entries' = Entries /\ Replaced' = Replaced
BY DEF Quiet, Entries, Replaced, Used

LEMMA EntryOfRow ==
    ASSUME NEW q \in Rows, Used(q)
    PROVE  [id |-> q, sig |-> row[q].sig, prev |-> row[q].parent] \in Entries
BY DEF Entries

LEMMA InsertLedger ==
    ASSUME IInv, NEW r \in Rows, Insert(r)
    PROVE  Ledger!LedgerNext
<1> DEFINE e == [id |-> r, sig |-> x.sig, prev |-> x.parent]
<1>a. TypeOK /\ ExecutorInv
  BY DEF IInv
<1>n. /\ row'[r].sig = x.sig /\ row'[r].parent = x.parent /\ ~row'[r].repriced
      /\ \A q \in Rows \ {r} : row'[q] = row[q]
      /\ ~Used(r) /\ Used(r)'
  BY <1>a, InsertedRow
<1>c. x.pc = "insert" /\ x.sig \in Signals /\ x.parent \in Rows \union {NoRow}
  BY <1>a DEF Insert, ExecutorInv, SigHeld, SigSteps, TypeOK, ExecutorState
<1>1. Entries' = Entries \union {e}
  BY <1>n DEF Entries, Used
<1>2. Replaced' = Replaced
  <2>1. ~row[r].repriced
    BY <1>n DEF IInv, TableInv, RepricedIsClosed, Used
  <2> QED
    BY <1>n, <2>1 DEF Replaced
<1>3. \A f \in Entries : f.id # r
  BY <1>n DEF Entries
<1>4. CASE x.parent = NoRow
  <2>1. \A f \in Entries : f.sig # x.sig
    BY <1>a, <1>c, <1>4 DEF ExecutorInv, GateHeld, Entries
  <2>2. PICK s \in Signals : s = x.sig
    BY <1>c
  <2>3. Ledger!Original(r, s)
    BY <1>1, <1>2, <1>3, <1>4, <2>1, <2>2 DEF Ledger!Original, Ledger!Fresh, Entries, Replaced
  <2> QED
    BY <2>3 DEF Ledger!LedgerNext
<1>5. CASE x.parent # NoRow
  <2>1. /\ Used(x.parent) /\ row[x.parent].repriced /\ row[x.parent].sig = x.sig
        /\ \A q \in Rows : Used(q) => row[q].parent # x.parent
    BY <1>a, <1>c, <1>5 DEF ExecutorInv, ClaimHeld
  <2>2. PICK f \in Entries : f.id = x.parent /\ f.sig = x.sig
    BY <1>c, <1>5, <2>1, EntryOfRow
  <2>3. x.parent \in Replaced
    BY <1>c, <1>5, <2>1 DEF Replaced
  <2>4. \A g \in Entries : g.prev # x.parent
    BY <2>1 DEF Entries
  <2>5. Ledger!Repost(r, f)
    BY <1>1, <1>2, <1>3, <2>2, <2>3, <2>4 DEF Ledger!Repost, Ledger!Fresh, Entries, Replaced
  <2> QED
    BY <2>2, <2>5 DEF Ledger!LedgerNext, Entries
<1> QED
  BY <1>4, <1>5

LEMMA ClaimLedger ==
    ASSUME IInv, NEW r \in Rows, ClaimExpired(r)
    PROVE  Ledger!LedgerNext
<1>1. Used(r) /\ ~row[r].repriced
  BY DEF IInv, ExecutorInv, Listed, ClaimExpired
<1>2. row \in [Rows -> OrderRow] /\ row' = [row EXCEPT ![r].repriced = TRUE]
  BY DEF IInv, TypeOK, ClaimExpired
<1>3. /\ row'[r].repriced
      /\ \A q \in Rows : /\ row'[q].st = row[q].st /\ row'[q].sig = row[q].sig
                         /\ row'[q].parent = row[q].parent
                         /\ q # r => row'[q].repriced = row[q].repriced
  BY <1>2 DEF OrderRow
<1>4. Entries' = Entries
  BY <1>3 DEF Entries, Used
<1>5. Replaced' = Replaced \union {r}
  BY <1>3 DEF Replaced
<1>6. \E e \in Entries : e.id = r
  BY <1>1, EntryOfRow
<1>7. Ledger!GiveUp(r)
  BY <1>1, <1>4, <1>5, <1>6 DEF Ledger!GiveUp, Ledger!Fresh, Entries, Replaced
<1> QED
  BY <1>7 DEF Ledger!LedgerNext

\* The execution layer implements the ledger: its orders table, read as entries
\* and claims, only ever takes the steps of OrderLedger.
THEOREM LedgerKept == Spec => KeepsLedger
<1>1. Init => Ledger!LedgerInit
  BY DEF Init, Ledger!LedgerInit, Used, EmptyTable, NoOrder
<1>2. IInv /\ [Next]_vars => [Ledger!LedgerNext]_(Ledger!LedgerVars)
  <2> SUFFICES ASSUME IInv, [Next]_vars
               PROVE  Ledger!LedgerNext \/ UNCHANGED Ledger!LedgerVars
    OBVIOUS
  <2>1. CASE Quiet
    BY <2>1, QuietLedger DEF Ledger!LedgerVars, Entries, Replaced
  <2> QED
    BY <2>1, StepKinds, InsertLedger, ClaimLedger
<1> QED
  BY <1>1, <1>2, Invariance, PTL DEF Spec, KeepsLedger, Ledger!LedgerSpec

-----------------------------------------------------------------------------
(* The books: what an order comes to, what it shows filled, what a         *)
(* position holds.  The numbers are kept in the tables, on the exchange    *)
(* and in the executor's locals, and no two of them are written at once.   *)

Polling  == {"reconcile", "poll"}
AckSteps == {"mark", "send", "submit", "ack"}

\* A row that was not inserted is blank.
BlankRows == \A r \in Rows : ~Used(r) => row[r] = NoOrder

\* An order is placed outside the two polling phases, and it has no exchange id
\* before the CLOB has acknowledged it.
PlacePhase == x.pc \in SigSteps => x.phase \notin Polling
Unacked    == x.pc \in AckSteps => row[x.row].eoi = NoEoi

\* The kill switch saw an exchange id on the rows it asked the CLOB to cancel.
KillAcked == \A r \in kill.acked : row[r].eoi # NoEoi

\* The orders that count against the portfolio cap, or that a step the executor
\* is already bound to take can make count again.
Candidates == CountedRows \cup {r \in x.rows : x.phase \in Polling}
                          \cup {r \in Rows : x.pc \in RowSteps /\ r = x.row}
SizeOf     == [r \in Rows |-> row[r].size]
Capped     == SumFunctionOnSet(SizeOf, Candidates) <= PortfolioCap
RoomHeld   == x.pc = "insert" => TotalOpenExposure + x.size <= PortfolioCap

\* What a row shows filled, its order on the exchange has matched.
FilledBacked ==
    \A r \in Rows : IF row[r].eoi = NoEoi THEN row[r].filled = 0
                    ELSE row[r].filled <= book[r][row[r].eoi].filled

\* The executor polls with the fill and the exchange id the row has now, however
\* old its list is; the answer it writes is no less than that and no more than
\* what the exchange has matched.
SeenFresh(r) == x.seen[r].eoi = row[r].eoi /\ x.seen[r].filled = row[r].filled
SeenHeld ==
    /\ x.phase \in Polling => \A r \in x.rows : SeenFresh(r)
    /\ x.pc = "update" => /\ SeenFresh(x.row) /\ row[x.row].eoi # NoEoi
                          /\ x.seen[x.row].filled <= x.data.filled
                          /\ x.data.filled <= book[x.row][row[x.row].eoi].filled
    /\ x.pc = "settle" => /\ x.data.filled = row[x.row].filled
                          /\ x.seen[x.row].filled <= x.data.filled

\* A position, with what is about to be added to it, shows no more bought than
\* the rows of its orders show filled.
FilledOf   == [r \in Rows |-> row[r].filled]
Pending(t) == IF x.pc = "settle" /\ TokenOfRow(x.row) = t THEN Delta.bought ELSE 0
Booked     == \A t \in Tokens :
                 pos[t].bought + Pending(t) <= SumFunctionOnSet(FilledOf, RowsOf(t))

KillInv  == KillAcked /\ KillClosesOnlyDead
CapInv   == Capped /\ RoomHeld
BookInv  == FilledBacked /\ SeenHeld /\ Booked
BooksInv == BlankRows /\ PlacePhase /\ Unacked /\ KillInv /\ CapInv /\ BookInv

-----------------------------------------------------------------------------
(* What a step does to the numbers the books are kept with.                *)

SameOrders ==
    \A q \in Rows :
        /\ row'[q].st # "none" <=> row[q].st # "none"
        /\ row'[q].sig = row[q].sig /\ row'[q].size = row[q].size
        /\ row'[q].eoi = row[q].eoi /\ row'[q].filled = row[q].filled
        /\ row[q].st = "none" => row'[q] = row[q]

\* Only the order that is held starts to count against the cap.
CountedKept ==
    \A q \in Rows : row'[q].st \in CountedStatus =>
        row[q].st \in CountedStatus \/ (x.pc \in RowSteps /\ q = x.row)

\* The executor's lists shrink, and it takes up no order it did not hold.
Walks ==
    /\ x'.pc \in AckSteps => x.pc \in AckSteps
    /\ x'.pc \in RowSteps => x.pc \in RowSteps /\ x'.row = x.row
    /\ x'.phase \in Polling =>
          x'.rows = {} \/ (x.phase \in Polling /\ x'.rows \subseteq x.rows /\ x'.seen = x.seen)
    /\ x'.pc \in SigSteps => x'.phase \notin Polling
    /\ x'.pc = "insert" => x.pc = "insert" /\ x'.size = x.size
    /\ x'.pc \in {"update", "settle"} => x' = x

Grows == \A r \in Rows, k \in Attempts : book'[r][k].filled >= book[r][k].filled

BoughtKept == \A t \in Tokens : pos'[t].bought = pos[t].bought

NoneRevived ==
    \A r \in Rows, k \in Attempts : Live(r, k)' => Live(r, k) \/ row[r].eoi = NoEoi

\* The delta that is about to be added to a position is added, or lost.
PosKept == \A t \in Tokens : pos'[t].bought + Pending(t)' <= pos[t].bought + Pending(t)

Steady == SameOrders /\ CountedKept /\ Walks /\ PosKept

\* The executor reads a list of open orders to poll.
Lists ==
    /\ SameOrders /\ CountedKept /\ BoughtKept
    /\ x.pc = "list" /\ x'.pc \in {"fetch", "next"} /\ x'.seen = row /\ x'.rows = OpenOrders
    /\ UNCHANGED row

\* The executor decides on an order that fits under the cap.
Chooses ==
    /\ UNCHANGED row /\ BoughtKept
    /\ x.pc \in {"next", "evaluate"} /\ x'.pc = "insert"
    /\ x.phase \notin Polling /\ x'.phase = x.phase
    /\ TotalOpenExposure + x'.size <= PortfolioCap

\* The CLOB answers for a listed order, and the answer says something new.
Answered(r) ==
    /\ UNCHANGED <<row, book>> /\ BoughtKept
    /\ x.pc = "next" /\ x.phase \in Polling /\ r \in x.rows /\ x.seen[r].eoi # NoEoi
    /\ x'.pc = "update" /\ x'.phase = x.phase /\ x'.rows = x.rows \ {r} /\ x'.row = r
    /\ x'.seen = x.seen /\ x'.data.filled = book[r][x.seen[r].eoi].filled

\* The acknowledgement of the CLOB is written down.
Acks ==
    /\ x.pc = "ack" /\ x' = [x EXCEPT !.pc = "book"] /\ BoughtKept /\ UNCHANGED <<book, kill>>
    /\ row' = [row EXCEPT ![x.row].st = "OPEN", ![x.row].eoi = x.try,
                          ![x.row].working = row[x.row].size]

\* The answer of a poll is written down.
Writes ==
    /\ x.pc = "update" /\ x' = [x EXCEPT !.pc = "settle"] /\ BoughtKept /\ UNCHANGED book
    /\ row' = [row EXCEPT ![x.row].st = x.data.st, ![x.row].filled = x.data.filled,
                          ![x.row].working = x.data.remaining]

-----------------------------------------------------------------------------

LEMMA UnchangedSame == UNCHANGED row => SameOrders /\ CountedKept
BY DEF SameOrders, CountedKept

LEMMA WriteSame ==
    ASSUME row \in [Rows -> OrderRow], NEW r \in Rows, Used(r), NEW st \in Status, Write(r, st)
    PROVE  /\ SameOrders
           /\ \/ st \notin CountedStatus
              \/ x.pc \in RowSteps /\ r = x.row
              => CountedKept
<1>1. st # "none"
  BY DEF Status, OpenStatus, TerminalStatus
<1>2. \A q \in Rows : row'[q] = IF q = r THEN [row[r] EXCEPT !.st = st] ELSE row[q]
  BY DEF Write
<1>3. row[r] \in OrderRow
  OBVIOUS
<1>4. SameOrders
  BY <1>1, <1>2, <1>3 DEF SameOrders, Used, OrderRow
<1>5. row'[r].st = st
  BY <1>2, <1>3 DEF OrderRow
<1>6. st \notin CountedStatus \/ (x.pc \in RowSteps /\ r = x.row) => CountedKept
  BY <1>2, <1>5 DEF CountedKept
<1> QED
  BY <1>4, <1>6

LEMMA EnterWalks == ASSUME NEW p \in Phases, x' = Enter(p) PROVE Walks
<1>1. x'.pc = "list" /\ x'.rows = {}
  BY DEF Enter, Idle
<1> QED
  BY <1>1 DEF Walks, AckSteps, RowSteps, SigSteps

LEMMA ResumeWalks == ASSUME x \in ExecutorState, x' = Resume PROVE Walks
<1>1. x'.pc = "next" /\ x'.phase = x.phase /\ x'.rows = x.rows /\ x'.seen = x.seen
  BY DEF Resume, ExecutorState
<1> QED
  BY <1>1 DEF Walks, AckSteps, RowSteps, SigSteps

LEMMA StillWalks == ASSUME PlacePhase, UNCHANGED x PROVE Walks
BY DEF Walks, PlacePhase, AckSteps

\* A step that adds nothing to a position keeps PosKept: a delta that is pending
\* stays pending, or is lost.
LEMMA BoughtPos ==
    ASSUME TypeOK, RowHeld, SeenHeld, SameOrders, Walks, BoughtKept
    PROVE  PosKept
<1> SUFFICES ASSUME NEW t \in Tokens
             PROVE  pos'[t].bought + Pending(t)' <= pos[t].bought + Pending(t)
  BY DEF PosKept
<1>1. pos[t].bought \in Int /\ pos'[t].bought = pos[t].bought
  BY DEF TypeOK, BoughtKept
<1>2. x.pc = "settle" => x.row \in Rows
  BY DEF RowHeld, RowSteps
<1>3. x.pc = "settle" => /\ x.data.filled \in Nat /\ x.seen[x.row].filled \in Nat
                         /\ x.seen[x.row].filled <= x.data.filled
  BY <1>2 DEF TypeOK, ExecutorState, Answers, OrderRow, SeenHeld
<1>4. Pending(t) \in Nat
  BY <1>3 DEF Pending, Delta
<1>5. CASE x'.pc = "settle"
  <2>1. x' = x
    BY <1>5 DEF Walks
  <2>2. x.pc = "settle" /\ Delta' = Delta
    BY <1>5, <2>1 DEF Delta
  <2>3. TokenOfRow(x.row)' = TokenOfRow(x.row)
    BY <1>2, <2>1, <2>2 DEF TokenOfRow, SameOrders
  <2>4. Pending(t)' = Pending(t)
    BY <2>1, <2>2, <2>3 DEF Pending
  <2> QED
    BY <1>1, <1>4, <2>4
<1>6. CASE x'.pc # "settle"
  <2>1. Pending(t)' = 0
    BY <1>6 DEF Pending
  <2> QED
    BY <1>1, <1>4, <2>1
<1> QED
  BY <1>5, <1>6

-----------------------------------------------------------------------------
(* Every step is steady, or one of the steps named above.                  *)

Known == IInv /\ PlacePhase /\ SeenHeld

LEMMA KnownFacts ==
    ASSUME Known
    PROVE  /\ TypeOK /\ x \in ExecutorState /\ row \in [Rows -> OrderRow]
           /\ RowHeld /\ SeenHeld /\ PlacePhase /\ Listed /\ KillListed
           /\ x.rows \subseteq Rows /\ kill.rows \subseteq Rows
BY DEF Known, IInv, ExecutorInv, TypeOK, ExecutorState

\* A step that walks, leaves the bought side of the positions alone and keeps
\* the orders is steady.
LEMMA SteadyWalk ==
    ASSUME Known, SameOrders, CountedKept, Walks, BoughtKept PROVE Steady
BY KnownFacts, BoughtPos DEF Steady

LEMMA ReconcileKinds == Known /\ Reconcile => Steady \/ Lists
<1> SUFFICES ASSUME Known, Reconcile PROVE Steady \/ Lists
  OBVIOUS
<1>a. /\ TypeOK /\ x \in ExecutorState /\ row \in [Rows -> OrderRow] /\ RowHeld /\ PlacePhase
      /\ Listed
  BY KnownFacts
<1>b. BoughtKept
  BY DEF BoughtKept, Reconcile, ReconcileList, FetchLive, FetchFails, RecoverCanceled, RejectZombie,
         Tables
<1>p. "signals" \in Phases
  BY DEF Phases
<1>c. "CANCELED" \notin CountedStatus /\ "REJECTED" \notin CountedStatus
  BY DEF CountedStatus, OpenStatus
<1>1. CASE ReconcileList
  <2>1. CASE x' = Enter("signals")
    BY <1>1, <1>b, <1>p, <2>1, EnterWalks, UnchangedSame, SteadyWalk DEF ReconcileList, Tables
  <2>2. CASE x' = [x EXCEPT !.pc = "fetch", !.seen = row, !.rows = OpenOrders]
    <3>1. x.pc = "list" /\ x'.pc = "fetch" /\ x'.seen = row /\ x'.rows = OpenOrders
      BY <1>1, <1>a, <2>2 DEF ReconcileList, At, ExecutorState
    <3> QED
      BY <1>1, <1>b, <3>1, UnchangedSame DEF Lists, ReconcileList, Tables
  <2> QED
    BY <1>1, <2>1, <2>2 DEF ReconcileList
<1>2. CASE FetchLive
  <2>1. /\ x.pc = "fetch" /\ x'.pc = "next" /\ x'.phase = x.phase /\ x'.rows \subseteq x.rows
        /\ x'.seen = x.seen
    BY <1>2, <1>a DEF FetchLive, At, ExecutorState
  <2>2. Walks
    BY <2>1 DEF Walks, AckSteps, RowSteps, SigSteps
  <2> QED
    BY <1>2, <1>b, <2>2, UnchangedSame, SteadyWalk DEF FetchLive, Tables
<1>3. CASE FetchFails
  BY <1>3, <1>b, <1>p, EnterWalks, UnchangedSame, SteadyWalk DEF FetchFails, Tables
<1>4. CASE RecoverCanceled
  <2>1. x.row \in Rows /\ Used(x.row)
    BY <1>4, <1>a DEF RecoverCanceled, At, RowHeld, RowSteps
  <2>2. SameOrders /\ CountedKept
    BY <1>4, <1>a, <1>c, <2>1, WriteSame, UnchangedSame, StatusFacts DEF RecoverCanceled
  <2>3. Walks
    BY <1>4, <1>a, <1>p, EnterWalks, ResumeWalks DEF RecoverCanceled
  <2> QED
    BY <1>b, <2>2, <2>3, SteadyWalk
<1>5. ASSUME NEW r \in Rows, RejectZombie(r) PROVE Steady
  <2>1. Used(r)
    BY <1>5, <1>a DEF RejectZombie, Listed
  <2>2. SameOrders /\ CountedKept
    BY <1>5, <1>a, <1>c, <2>1, WriteSame, UnchangedSame, StatusFacts DEF RejectZombie
  <2>3. CASE x' = [x EXCEPT !.rows = @ \ {r}]
    <3>1. /\ x.pc = "next" /\ x'.pc = "next" /\ x'.phase = x.phase /\ x'.rows \subseteq x.rows
          /\ x'.seen = x.seen
      BY <1>5, <1>a, <2>3 DEF RejectZombie, At, ExecutorState
    <3>2. Walks
      BY <3>1 DEF Walks, AckSteps, RowSteps, SigSteps
    <3> QED
      BY <1>b, <2>2, <3>2, SteadyWalk
  <2>4. CASE x' = Enter("signals")
    BY <1>b, <1>p, <2>2, <2>4, EnterWalks, SteadyWalk
  <2> QED
    BY <1>5, <2>3, <2>4 DEF RejectZombie
<1> QED
  BY <1>1, <1>2, <1>3, <1>4, <1>5 DEF Reconcile

LEMMA RowsFinite == IsFiniteSet(Rows) /\ \A S \in SUBSET Rows : IsFiniteSet(S)
<1>1. IsFiniteSet(Rows)
  BY NumberAssumption, FS_Interval DEF Rows
<1> QED
  BY <1>1, FS_Subset

LEMMA TotalNat == TypeOK => TotalOpenExposure \in Nat
<1> SUFFICES ASSUME TypeOK PROVE TotalOpenExposure \in Nat
  OBVIOUS
<1>1. CountedRows \in SUBSET Rows
  BY DEF CountedRows
<1>2. \A r \in CountedRows : [q \in Rows |-> row[q].size][r] \in Nat
  BY DEF TypeOK, OrderRow, CountedRows
<1> QED
  BY <1>1, <1>2, RowsFinite, SumNat DEF TotalOpenExposure

LEMMA TotalNatNext == TypeOK' => TotalOpenExposure' \in Nat
<1>1. (TypeOK => TotalOpenExposure \in Nat)'
  BY TotalNat, PTL
<1> QED
  BY <1>1

LEMMA ProcessKinds == Known /\ Process => Steady \/ Chooses
<1> SUFFICES ASSUME Known, Process PROVE Steady \/ Chooses
  OBVIOUS
<1>a. TypeOK /\ x \in ExecutorState /\ PlacePhase
  BY KnownFacts
<1>b. BoughtKept /\ UNCHANGED row
  BY DEF BoughtKept, Process, ListSignals, GateRefuses, SkipSignal, OrderbookGone, ApproveSignal, Tables
<1>s. ASSUME Walks PROVE Steady
  BY <1>b, <1>s, UnchangedSame, SteadyWalk
<1>1. CASE ListSignals
  <2>1. CASE x' = Enter("poll")
    BY <1>s, <2>1, EnterWalks DEF Phases
  <2>2. CASE x' = [x EXCEPT !.pc = "next", !.sigs = ExecutableSignals]
    <3>1. x'.pc = "next" /\ x'.phase = "signals"
      BY <1>1, <1>a, <2>2 DEF ListSignals, At, ExecutorState
    <3> QED
      BY <1>s, <3>1 DEF Walks, AckSteps, RowSteps, SigSteps, Polling
  <2> QED
    BY <1>1, <2>1, <2>2 DEF ListSignals
<1>2. ASSUME NEW s \in Signals, GateRefuses(s) \/ SkipSignal(s) \/ OrderbookGone(s)
      PROVE  Steady
  <2>1. \/ x' = [x EXCEPT !.sigs = @ \ {s}]
        \/ x' = [x EXCEPT !.pc = "prune", !.sigs = @ \ {s}, !.sig = s]
    BY <1>2 DEF GateRefuses, SkipSignal, OrderbookGone, Drop
  <2>2. x.pc = "next" /\ x.phase = "signals"
    BY <1>2 DEF GateRefuses, SkipSignal, OrderbookGone, Take, At
  <2>3. x'.pc \in {"next", "prune"} /\ x'.phase = "signals"
    BY <1>a, <2>1, <2>2 DEF ExecutorState
  <2> QED
    BY <1>s, <2>3 DEF Walks, AckSteps, RowSteps, SigSteps, Polling
<1>3. ASSUME NEW s \in Signals, ApproveSignal(s)
      PROVE  Chooses
  <2>1. PICK n \in Sizes :
          /\ ~ExceedsCaps(TokenOf[s], n)
          /\ x' = [x EXCEPT !.pc = "insert", !.sigs = @ \ {s}, !.sig = s, !.size = n]
    BY <1>3 DEF ApproveSignal
  <2>2. x.pc = "next" /\ x.phase = "signals"
    BY <1>3 DEF ApproveSignal, Take, At
  <2>3. x'.pc = "insert" /\ x'.phase = x.phase /\ x'.size = n
    BY <1>a, <2>1 DEF ExecutorState
  <2>4. TotalOpenExposure + n <= PortfolioCap
    <3>1. n \in Nat /\ TotalOpenExposure \in Nat
      BY <1>a, NumberAssumption, TotalNat
    <3> QED
      BY <2>1, <3>1, NumberAssumption DEF ExceedsCaps
  <2> QED
    BY <1>b, <2>2, <2>3, <2>4 DEF Chooses, Polling
<1> QED
  BY <1>1, <1>2, <1>3 DEF Process

LEMMA PlaceKinds == Known /\ PlaceHeld => Steady \/ Acks
<1> SUFFICES ASSUME Known, PlaceHeld PROVE Steady \/ Acks
  OBVIOUS
<1>a. /\ TypeOK /\ x \in ExecutorState /\ row \in [Rows -> OrderRow] /\ RowHeld /\ PlacePhase
  BY KnownFacts
<1>h. x.pc \in RowSteps => x.row \in Rows /\ Used(x.row)
  BY <1>a DEF RowHeld
<1>b. BoughtKept
  <2>1. CASE BookWorking
    BY <1>a, <2>1 DEF BoughtKept, BookWorking, TypeOK
  <2> QED
    BY <2>1 DEF BoughtKept, PlaceHeld, MarkExecuted, MarkSent, Submit, RecordOpen, RecordRejected,
       PruneMarket, Tables
<1>e. x' = Resume \/ x' = Enter("reconcile") => Walks
  BY <1>a, EnterWalks, ResumeWalks DEF Phases
\* From one step of placing an order to the next.
<1>m. ASSUME x.pc \in SigSteps \intersect RowSteps,
             x'.pc \in {"send", "submit", "ack", "reject", "prune"},
             x'.pc \in AckSteps => x.pc \in AckSteps, x'.phase = x.phase, x'.row = x.row
      PROVE  Walks
  BY <1>a, <1>m DEF Walks, PlacePhase, SigSteps, RowSteps, AckSteps
<1>w. ASSUME x.pc \in RowSteps, NEW st \in Status, UNCHANGED row \/ Write(x.row, st)
      PROVE  SameOrders /\ CountedKept
  BY <1>a, <1>h, <1>w, WriteSame, UnchangedSame
<1>1. CASE MarkExecuted
  <2>1. \/ x' = Resume
        \/ x.pc = "mark" /\ x'.pc = "send" /\ x'.phase = x.phase /\ x'.row = x.row
    BY <1>1, <1>a DEF MarkExecuted, ExecutorState
  <2>2. Walks
    BY <1>e, <1>m, <2>1 DEF SigSteps, RowSteps, AckSteps
  <2> QED
    BY <1>1, <1>b, <2>2, UnchangedSame, SteadyWalk DEF MarkExecuted
<1>2. CASE MarkSent
  <2>1. x.pc = "send" /\ x'.pc \in {"submit", "reject"} /\ x'.phase = x.phase /\ x'.row = x.row
    BY <1>2, <1>a DEF MarkSent, ExecutorState
  <2>2. Walks
    BY <1>m, <2>1 DEF SigSteps, RowSteps, AckSteps
  <2>3. SameOrders /\ CountedKept
    BY <1>2, <1>w, <2>1, StatusFacts DEF MarkSent, RowSteps
  <2> QED
    BY <1>b, <2>2, <2>3, SteadyWalk
<1>3. CASE Submit
  <2>1. \/ x' = [x EXCEPT !.pc = "ack"] \/ x' = [x EXCEPT !.try = @ + 1]
        \/ x' = [x EXCEPT !.pc = "reject"]
        \/ \E g \in BOOLEAN : x' = [x EXCEPT !.pc = "reject", !.gone = g]
    BY <1>3 DEF Submit, RetryOrGiveUp
  <2>2. /\ x.pc = "submit" /\ x'.pc \in {"submit", "ack", "reject"} /\ x'.phase = x.phase
        /\ x'.row = x.row
    BY <1>3, <1>a, <2>1 DEF Submit, ExecutorState
  <2>3. Walks
    BY <1>m, <2>2 DEF SigSteps, RowSteps, AckSteps
  <2> QED
    BY <1>3, <1>b, <2>3, UnchangedSame, SteadyWalk DEF Submit, Tables
<1>4. CASE RecordOpen
  <2>1. CASE Acks
    BY <2>1
  <2>2. CASE x' = [x EXCEPT !.pc = "reject"] /\ UNCHANGED row
    <3>1. x.pc = "ack" /\ x'.pc = "reject" /\ x'.phase = x.phase /\ x'.row = x.row
      BY <1>4, <1>a, <2>2 DEF RecordOpen, ExecutorState
    <3>2. Walks
      BY <1>m, <3>1 DEF SigSteps, RowSteps, AckSteps
    <3> QED
      BY <1>b, <2>2, <3>2, UnchangedSame, SteadyWalk
  <2> QED
    BY <1>4, <1>b, <2>1, <2>2 DEF RecordOpen, Acks, World
<1>5. CASE BookWorking
  BY <1>5, <1>b, <1>e, UnchangedSame, SteadyWalk DEF BookWorking
<1>6. CASE RecordRejected
  <2>1. SameOrders /\ CountedKept
    BY <1>6, <1>w, StatusFacts DEF RecordRejected, RowSteps
  <2>2. \/ x' = Resume \/ x' = Enter("reconcile")
        \/ x.pc = "reject" /\ x'.pc = "prune" /\ x'.phase = "signals" /\ x'.row = x.row
    BY <1>6, <1>a DEF RecordRejected, ExecutorState
  <2>3. Walks
    BY <1>e, <2>2 DEF Walks, SigSteps, RowSteps, AckSteps, Polling
  <2> QED
    BY <1>b, <2>1, <2>3, SteadyWalk
<1>7. CASE PruneMarket
  BY <1>7, <1>b, <1>e, UnchangedSame, SteadyWalk DEF PruneMarket
<1> QED
  BY <1>1, <1>2, <1>3, <1>4, <1>5, <1>6, <1>7 DEF PlaceHeld

LEMMA PollKinds ==
    Known /\ Poll => Steady \/ Lists \/ Writes \/ \E r \in Rows : Answered(r)
<1> SUFFICES ASSUME Known, Poll
             PROVE  Steady \/ Lists \/ Writes \/ \E r \in Rows : Answered(r)
  OBVIOUS
<1>a. /\ TypeOK /\ x \in ExecutorState /\ row \in [Rows -> OrderRow] /\ RowHeld /\ PlacePhase
      /\ SeenHeld
  BY KnownFacts
<1>b. ASSUME ~Settle PROVE BoughtKept
  BY <1>b DEF BoughtKept, Poll, ListOpen, WritePoll, PollAnswered, PollUnanswered, Tables
\* A database error ends the poll of this row.
<1>e. ASSUME PollRaises, x.pc \in {"update", "settle"} PROVE Walks
  <2>1. CASE x' = Resume
    BY <1>a, <2>1, ResumeWalks
  <2>2. CASE x' = [x EXCEPT !.pc = "recover"]
    <3>1. /\ x'.pc = "recover" /\ x'.row = x.row /\ x'.phase = x.phase /\ x'.rows = x.rows
          /\ x'.seen = x.seen
      BY <1>a, <2>2 DEF ExecutorState
    <3> QED
      BY <1>e, <3>1 DEF Walks, AckSteps, RowSteps, SigSteps
  <2> QED
    BY <1>e, <2>1, <2>2 DEF PollRaises
<1>1. CASE ListOpen
  <2>1. x.pc = "list" /\ x'.pc = "next" /\ x'.seen = row /\ x'.rows = OpenOrders
    BY <1>1, <1>a DEF ListOpen, At, ExecutorState
  <2> QED
    BY <1>1, <1>b, <2>1, UnchangedSame DEF Lists, ListOpen, Tables, BoughtKept
<1>2. CASE WritePoll
  <2>1. BoughtKept
    BY <1>2 DEF WritePoll, BoughtKept
  <2>2. CASE PollRaises /\ UNCHANGED row
    <3>1. Walks
      BY <1>2, <1>e, <2>2 DEF WritePoll
    <3> QED
      BY <2>1, <2>2, <3>1, UnchangedSame, SteadyWalk
  <2> QED
    BY <1>2, <2>1, <2>2 DEF WritePoll, Writes, World
<1>3. CASE Settle
  <2>1. UNCHANGED row /\ x.pc = "settle" /\ x.row \in Rows
    BY <1>3, <1>a DEF Settle, RowHeld, RowSteps
  <2>2. Walks
    BY <1>3, <1>a, <1>e, ResumeWalks DEF Settle
  <2>3. CASE UNCHANGED pos
    BY <2>1, <2>2, <2>3, UnchangedSame, SteadyWalk DEF BoughtKept
  <2>4. CASE /\ x' = Resume
             /\ pos' = [pos EXCEPT ![TokenOfRow(x.row)] =
                           [bought  |-> @.bought + Delta.bought,
                            working |-> @.working + Delta.working]]
    <3>1. x'.pc = "next"
      BY <1>a, <2>4 DEF Resume, ExecutorState
    <3>2. ASSUME NEW t \in Tokens
          PROVE  pos'[t].bought + Pending(t)' = pos[t].bought + Pending(t)
      <4>1. Pending(t)' = 0 /\ pos[t].bought \in Int
        BY <1>a, <3>1 DEF Pending, TypeOK
      <4>2. CASE t = TokenOfRow(x.row)
        <5>1. pos'[t].bought = pos[t].bought + Delta.bought
          BY <1>a, <2>4, <4>2 DEF TypeOK
        <5>2. Delta.bought \in Int
          BY <1>a, <2>1 DEF Delta, ExecutorState, Answers, OrderRow
        <5>3. Pending(t) = Delta.bought
          BY <2>1, <4>2 DEF Pending
        <5> QED
          BY <4>1, <5>1, <5>2, <5>3
      <4>3. CASE t # TokenOfRow(x.row)
        BY <1>a, <2>4, <4>1, <4>3 DEF TypeOK, Pending
      <4> QED
        BY <4>2, <4>3
    <3>3. \A t \in Tokens : pos[t].bought + Pending(t) \in Int
      <4>1. x.data.filled \in Nat /\ x.seen[x.row].filled \in Nat
        BY <1>a, <2>1 DEF ExecutorState, Answers, OrderRow
      <4> QED
        BY <1>a, <4>1 DEF Pending, Delta, TypeOK
    <3> QED
      BY <2>1, <2>2, <3>2, <3>3, UnchangedSame DEF Steady, PosKept
  <2> QED
    BY <1>3, <2>3, <2>4 DEF Settle
<1>4. ASSUME NEW r \in Rows, PollAnswered(r) PROVE Steady \/ Answered(r)
  <2>1. /\ x.pc = "next" /\ x.phase \in Polling /\ r \in x.rows /\ x.seen[r].eoi # NoEoi
        /\ UNCHANGED <<row, book>> /\ BoughtKept
    BY <1>4 DEF PollAnswered, Polling, Tables, World, BoughtKept
  <2> DEFINE a == Answer(book[r][x.seen[r].eoi], x.seen[r].size)
  <2>2. CASE x' = [x EXCEPT !.rows = @ \ {r}]
    <3>1. /\ x'.pc = "next" /\ x'.phase = x.phase /\ x'.rows \subseteq x.rows /\ x'.seen = x.seen
      BY <1>a, <2>1, <2>2 DEF ExecutorState
    <3>2. Walks
      BY <2>1, <3>1 DEF Walks, AckSteps, RowSteps, SigSteps
    <3> QED
      BY <2>1, <3>2, UnchangedSame, SteadyWalk
  <2>3. CASE x' = [x EXCEPT !.rows = @ \ {r}, !.pc = "update", !.row = r, !.data = a]
    <3>1. a.filled = book[r][x.seen[r].eoi].filled
      BY DEF Answer
    <3> HIDE DEF a
    <3>2. /\ x'.pc = "update" /\ x'.phase = x.phase /\ x'.rows = x.rows \ {r} /\ x'.row = r
          /\ x'.seen = x.seen /\ x'.data = a
      BY <1>a, <2>3 DEF ExecutorState
    <3> QED
      BY <2>1, <3>1, <3>2 DEF Answered
  <2> QED
    BY <1>4, <2>2, <2>3 DEF PollAnswered
<1>5. ASSUME NEW r \in Rows, PollUnanswered(r) PROVE Steady
  <2>1. x.pc = "next" /\ x.phase \in Polling /\ x' = [x EXCEPT !.rows = @ \ {r}] /\ UNCHANGED row
    BY <1>5 DEF PollUnanswered, Polling, Tables
  <2>2. /\ x'.pc = "next" /\ x'.phase = x.phase /\ x'.rows \subseteq x.rows /\ x'.seen = x.seen
    BY <1>a, <2>1 DEF ExecutorState
  <2>3. Walks
    BY <2>1, <2>2 DEF Walks, AckSteps, RowSteps, SigSteps
  <2> QED
    BY <1>5, <2>1, <2>3, UnchangedSame, SteadyWalk DEF PollUnanswered, BoughtKept, Tables
<1> QED
  BY <1>1, <1>2, <1>3, <1>4, <1>5 DEF Poll

LEMMA RepriceKinds == Known /\ Reprice => Steady \/ Chooses
<1> SUFFICES ASSUME Known, Reprice PROVE Steady \/ Chooses
  OBVIOUS
<1>a. /\ TypeOK /\ x \in ExecutorState /\ row \in [Rows -> OrderRow] /\ PlacePhase /\ Listed
  BY KnownFacts
<1>b. BoughtKept
  BY DEF BoughtKept, Reprice, ListExpired, EvaluateReprice, ClaimExpired, Tables
<1>1. CASE ListExpired
  <2>1. x'.pc = "next" /\ x'.phase = "reprice"
    BY <1>1, <1>a DEF ListExpired, At, ExecutorState
  <2>2. Walks
    BY <2>1 DEF Walks, AckSteps, RowSteps, SigSteps, Polling
  <2> QED
    BY <1>1, <1>b, <2>2, UnchangedSame, SteadyWalk DEF ListExpired, Tables
<1>2. ASSUME NEW r \in Rows, ClaimExpired(r) PROVE Steady
  <2>1. x'.pc = "evaluate" /\ x'.phase = "reprice"
    BY <1>2, <1>a DEF ClaimExpired, At, ExecutorState
  <2>2. Walks
    BY <2>1 DEF Walks, AckSteps, RowSteps, SigSteps, Polling
  <2>3. Used(r)
    BY <1>2, <1>a DEF ClaimExpired, Listed
  <2>4. \A q \in Rows : row'[q] = IF q = r THEN [row[r] EXCEPT !.repriced = TRUE] ELSE row[q]
    BY <1>2, <1>a DEF ClaimExpired
  <2>5. row[r] \in OrderRow
    BY <1>a
  <2>6. /\ row'[r].st = row[r].st /\ row'[r].sig = row[r].sig /\ row'[r].size = row[r].size
        /\ row'[r].eoi = row[r].eoi /\ row'[r].filled = row[r].filled
    BY <2>4, <2>5 DEF OrderRow
  <2>7. SameOrders /\ CountedKept
    BY <2>3, <2>4, <2>6 DEF SameOrders, CountedKept, Used
  <2> QED
    BY <1>b, <2>2, <2>7, SteadyWalk
<1>3. CASE EvaluateReprice
  <2>1. x.pc = "evaluate" /\ x.phase \notin Polling /\ UNCHANGED row
    BY <1>3, <1>a DEF EvaluateReprice, PlacePhase, SigSteps, Tables
  <2>2. CASE x' = Resume
    BY <1>a, <1>b, <2>1, <2>2, ResumeWalks, UnchangedSame, SteadyWalk
  <2>3. CASE \E n \in Sizes : /\ ~ExceedsCaps(TokenOf[x.sig], n)
                              /\ x' = [x EXCEPT !.pc = "insert", !.size = n]
    <3>1. PICK n \in Sizes : /\ ~ExceedsCaps(TokenOf[x.sig], n)
                             /\ x' = [x EXCEPT !.pc = "insert", !.size = n]
      BY <2>3
    <3>2. x'.pc = "insert" /\ x'.phase = x.phase /\ x'.size = n
      BY <1>a, <3>1 DEF ExecutorState
    <3>3. n \in Nat /\ TotalOpenExposure \in Nat
      BY <1>a, NumberAssumption, TotalNat
    <3>4. TotalOpenExposure + n <= PortfolioCap
      BY <3>1, <3>3, NumberAssumption DEF ExceedsCaps
    <3> QED
      BY <1>b, <2>1, <3>2, <3>4 DEF Chooses
  <2> QED
    BY <1>3, <2>2, <2>3 DEF EvaluateReprice
<1> QED
  BY <1>1, <1>2, <1>3 DEF Reprice

LEMMA OtherKinds ==
    Known /\ (PhaseDone \/ CycleFails \/ KillSwitch \/ Clock \/ Exchange \/ Pipeline \/ Crash
              \/ UNCHANGED vars)
    => Steady
<1> SUFFICES ASSUME Known,
                    PhaseDone \/ CycleFails \/ KillSwitch \/ Clock \/ Exchange \/ Pipeline \/ Crash
                    \/ UNCHANGED vars
             PROVE  Steady
  OBVIOUS
<1>a. /\ TypeOK /\ x \in ExecutorState /\ row \in [Rows -> OrderRow] /\ PlacePhase /\ KillListed
      /\ kill.rows \subseteq Rows
  BY KnownFacts
<1>b. BoughtKept
  BY DEF BoughtKept, PhaseDone, CycleFails, KillSwitch, KillList, KillClob, KillRow, KillDone, Clock,
         Exchange, Pipeline, AgeSignal, Expire, PassCutoff, Match, EmitSignal, Crash, Tables, vars
<1>1. Walks
  <2>1. CASE PhaseDone \/ CycleFails \/ Crash
    <3>1. x' = Idle \/ \E p \in Phases : x' = Enter(p)
      BY <1>a, <2>1 DEF PhaseDone, CycleFails, Crash, NextPhase, Phases, ExecutorState
    <3>2. Idle.pc = "list" /\ Idle.rows = {}
      BY DEF Idle
    <3>3. x' = Idle => Walks
      BY <3>2 DEF Walks, AckSteps, RowSteps, SigSteps
    <3> QED
      BY <3>1, <3>3, EnterWalks
  <2>2. CASE KillSwitch \/ Clock \/ Exchange \/ Pipeline \/ UNCHANGED vars
    <3>1. UNCHANGED x
      BY <2>2 DEF KillSwitch, KillList, KillClob, KillRow, KillDone, Clock,
         Exchange, Pipeline, AgeSignal, Expire, PassCutoff, Match, EmitSignal, vars
    <3> QED
      BY <1>a, <3>1, StillWalks
  <2> QED
    BY <2>1, <2>2
<1>2. SameOrders /\ CountedKept
  <2>1. ASSUME NEW r \in Rows, KillRow(r) PROVE SameOrders /\ CountedKept
    <3>1. Used(r) /\ (UNCHANGED row \/ Write(r, "CANCELED"))
      BY <1>a, <2>1 DEF KillRow, KillListed
    <3>2. "CANCELED" \notin CountedStatus
      BY DEF CountedStatus, OpenStatus
    <3> QED
      BY <1>a, <3>1, <3>2, WriteSame, UnchangedSame, StatusFacts
  <2>2. UNCHANGED row \/ \E r \in Rows : KillRow(r)
    BY DEF PhaseDone, CycleFails, KillSwitch, KillList, KillClob, KillDone, Clock,
       Exchange, Pipeline, AgeSignal, Expire, PassCutoff, Match, EmitSignal, Crash, Tables, vars
  <2> QED
    BY <2>1, <2>2, UnchangedSame
<1> QED
  BY <1>b, <1>1, <1>2, SteadyWalk

LEMMA InsertKinds ==
    Known /\ InsertOrder => Steady \/ (BoughtKept /\ UNCHANGED <<book, kill>> /\ \E r \in Rows : Insert(r))
<1> SUFFICES ASSUME Known, InsertOrder
             PROVE  Steady \/ (BoughtKept /\ UNCHANGED <<book, kill>> /\ \E r \in Rows : Insert(r))
  OBVIOUS
<1>a. x \in ExecutorState
  BY KnownFacts
<1>b. BoughtKept /\ UNCHANGED <<book, kill>>
  BY DEF BoughtKept, InsertOrder, World
<1>1. CASE x' = Resume /\ UNCHANGED row
  BY <1>a, <1>b, <1>1, ResumeWalks, UnchangedSame, SteadyWalk
<1> QED
  BY <1>b, <1>1 DEF InsertOrder, Unused, Insert

LEMMA BookKinds ==
    Known /\ [Next]_vars =>
        \/ Steady \/ Lists \/ Chooses \/ Acks \/ Writes
        \/ \E r \in Rows : Answered(r)
        \/ BoughtKept /\ UNCHANGED <<book, kill>> /\ \E r \in Rows : Insert(r)
BY ReconcileKinds, ProcessKinds, PlaceKinds, PollKinds, RepriceKinds, OtherKinds, InsertKinds
   DEF Next, Executor, Place, PlaceHeld

-----------------------------------------------------------------------------
(* What a step does to the exchange.                                       *)

LEMMA BookGrows == Known /\ Unacked /\ [Next]_vars => Grows /\ NoneRevived
<1> SUFFICES ASSUME Known, Unacked, [Next]_vars PROVE Grows /\ NoneRevived
  OBVIOUS
<1>a. TypeOK /\ RowHeld /\ book \in [Rows -> [Attempts -> BookOrder]]
  BY KnownFacts DEF TypeOK
<1>t. \A r \in Rows, k \in Attempts : book[r][k].filled \in Nat
  BY <1>a DEF BookOrder
<1>u. CASE UNCHANGED book
  BY <1>t, <1>u DEF Grows, NoneRevived, Live
<1>1. CASE Submit
  <2>1. CASE book' = [book EXCEPT ![x.row][x.try].st = "live"]
    <3>1. x.row \in Rows /\ row[x.row].eoi = NoEoi
      BY <1>1, <1>a DEF Submit, RowHeld, RowSteps, Unacked, AckSteps
    <3>2. ASSUME NEW r \in Rows, NEW k \in Attempts
          PROVE  /\ book'[r][k].filled = book[r][k].filled
                 /\ r # x.row => book'[r][k] = book[r][k]
      BY <1>a, <2>1, <3>1 DEF BookOrder
    <3> QED
      BY <1>t, <3>1, <3>2 DEF Grows, NoneRevived, Live
  <2> QED
    BY <1>1, <1>u, <2>1 DEF Submit
<1>2. CASE KillClob
  <2>1. CASE book' = AllCanceled
    <3>1. ASSUME NEW r \in Rows, NEW k \in Attempts
          PROVE  book'[r][k].filled = book[r][k].filled /\ book'[r][k].st # "live"
      BY <1>a, <2>1 DEF AllCanceled, Live, BookOrder
    <3> QED
      BY <1>t, <3>1 DEF Grows, NoneRevived, Live
  <2> QED
    BY <1>2, <1>u, <2>1 DEF KillClob
<1>3. ASSUME NEW q \in Rows, Expire(q) PROVE Grows /\ NoneRevived
  <2>1. ASSUME NEW r \in Rows, NEW k \in Attempts
        PROVE  /\ book'[r][k].filled = book[r][k].filled
               /\ book'[r][k].st = "live" => book[r][k].st = "live"
    BY <1>a, <1>3 DEF Expire, Live, BookOrder
  <2> QED
    BY <1>t, <2>1 DEF Grows, NoneRevived, Live
<1>4. ASSUME NEW q \in Rows, NEW j \in Attempts, Match(q, j) PROVE Grows /\ NoneRevived
  <2>1. ASSUME NEW r \in Rows, NEW k \in Attempts
        PROVE  /\ book'[r][k].filled \in {book[r][k].filled, book[r][k].filled + 1}
               /\ book'[r][k].st = "live" => book[r][k].st = "live"
    BY <1>a, <1>4 DEF Match, Live, BookOrder
  <2> QED
    BY <1>t, <2>1 DEF Grows, NoneRevived, Live
<1>5. \/ UNCHANGED book \/ Submit \/ KillClob \/ \E q \in Rows : Expire(q)
      \/ \E q \in Rows, j \in Attempts : Match(q, j)
  BY DEF Next, Executor, Reconcile, ReconcileList, FetchLive, FetchFails, RecoverCanceled,
     RejectZombie, Process, ListSignals, GateRefuses, SkipSignal, OrderbookGone, ApproveSignal,
     Place, InsertOrder, MarkExecuted, MarkSent, RecordOpen, BookWorking, RecordRejected,
     PruneMarket, Poll, ListOpen, WritePoll, Settle, PollAnswered, PollUnanswered, Reprice,
     ListExpired, EvaluateReprice, ClaimExpired, PhaseDone, CycleFails, KillSwitch, KillList,
     KillDone, KillRow, Clock, AgeSignal, PassCutoff, Exchange, Pipeline, EmitSignal, Crash,
     World, vars
<1> QED
  BY <1>u, <1>1, <1>2, <1>3, <1>4, <1>5

-----------------------------------------------------------------------------
(* Rows that were not inserted are blank; orders are placed where and when *)
(* they should be.                                                         *)

LEMMA AckedRow ==
    ASSUME Known, Acks
    PROVE  /\ x.row \in Rows /\ Used(x.row)
           /\ \A q \in Rows \ {x.row} : row'[q] = row[q]
           /\ row'[x.row].st = "OPEN" /\ row'[x.row].eoi = x.try
           /\ row'[x.row].size = row[x.row].size /\ row'[x.row].filled = row[x.row].filled
           /\ row'[x.row].sig = row[x.row].sig
           /\ x'.pc = "book" /\ x'.phase = x.phase /\ x'.rows = x.rows /\ x'.row = x.row
<1>1. x.row \in Rows /\ Used(x.row)
  BY KnownFacts DEF Acks, RowHeld, RowSteps
<1>2. row[x.row] \in OrderRow /\ row \in [Rows -> OrderRow] /\ x \in ExecutorState
  BY <1>1, KnownFacts
<1> QED
  BY <1>1, <1>2 DEF Acks, OrderRow, ExecutorState

LEMMA WrittenRow ==
    ASSUME Known, Writes
    PROVE  /\ x.row \in Rows /\ Used(x.row)
           /\ \A q \in Rows \ {x.row} : row'[q] = row[q]
           /\ row'[x.row].st # "none" /\ row'[x.row].filled = x.data.filled
           /\ row'[x.row].size = row[x.row].size /\ row'[x.row].eoi = row[x.row].eoi
           /\ row'[x.row].sig = row[x.row].sig
           /\ x'.pc = "settle" /\ x'.phase = x.phase /\ x'.rows = x.rows /\ x'.row = x.row
           /\ x'.seen = x.seen /\ x'.data = x.data
<1>1. x.row \in Rows /\ Used(x.row)
  BY KnownFacts DEF Writes, RowHeld, RowSteps
<1>2. row[x.row] \in OrderRow /\ row \in [Rows -> OrderRow] /\ x \in ExecutorState
  BY <1>1, KnownFacts
<1>3. x.data.st # "none"
  BY <1>2 DEF ExecutorState, Answers
<1> QED
  BY <1>1, <1>2, <1>3 DEF Writes, OrderRow, ExecutorState

LEMMA NewRow ==
    ASSUME Known, NEW r \in Rows, Insert(r)
    PROVE  /\ row'[r] = [NoOrder EXCEPT !.st = "PENDING", !.sig = x.sig,
                                        !.size = x.size, !.parent = x.parent]
           /\ row'[r].st = "PENDING" /\ row'[r].eoi = NoEoi /\ row'[r].filled = 0
           /\ row'[r].size = x.size /\ row'[r].sig = x.sig
           /\ \A q \in Rows \ {r} : row'[q] = row[q]
           /\ ~Used(r)
           /\ x.pc = "insert" /\ x'.pc \in {"mark", "send"} /\ x'.row = r
           /\ x'.phase = x.phase /\ x'.rows = x.rows
<1>1. row \in [Rows -> OrderRow] /\ x \in ExecutorState
  BY KnownFacts
<1> QED
  BY <1>1 DEF Insert, NoOrder, ExecutorState, Used

LEMMA PlacedKept ==
    ASSUME Known, BlankRows, Unacked, [Next]_vars
    PROVE  BlankRows' /\ PlacePhase' /\ Unacked'
<1>a. /\ PlacePhase /\ RowHeld /\ x \in ExecutorState
  BY KnownFacts
<1>1. CASE Steady
  <2>1. BlankRows'
    BY <1>1 DEF Steady, SameOrders, BlankRows, Used
  <2>2. PlacePhase'
    BY <1>1 DEF Steady, Walks, PlacePhase
  <2>3. Unacked'
    <3>1. ASSUME x'.pc \in AckSteps
          PROVE  x.row \in Rows /\ x'.row = x.row /\ row[x.row].eoi = NoEoi
      BY <1>1, <1>a, <3>1 DEF Steady, Walks, AckSteps, RowSteps, RowHeld, Unacked
    <3> QED
      BY <1>1, <3>1 DEF Unacked, Steady, SameOrders
  <2> QED
    BY <2>1, <2>2, <2>3
<1>2. CASE Lists \/ Chooses \/ \E r \in Rows : Answered(r)
  <2>1. UNCHANGED row /\ x'.pc \in {"fetch", "next", "insert", "update"}
        /\ (x'.pc = "insert" => x'.phase \notin Polling)
    BY <1>2 DEF Lists, Chooses, Answered
  <2> QED
    BY <2>1 DEF BlankRows, PlacePhase, Unacked, AckSteps, SigSteps, Used
<1>3. CASE Acks
  <2>1. PlacePhase'
    BY <1>3, <1>a, AckedRow DEF PlacePhase, Acks, SigSteps
  <2> QED
    BY <1>3, <2>1, AckedRow DEF BlankRows, Unacked, AckSteps, Used
<1>4. CASE Writes
  BY <1>4, WrittenRow DEF BlankRows, PlacePhase, Unacked, AckSteps, SigSteps, Used
<1>5. ASSUME NEW r \in Rows, Insert(r) PROVE BlankRows' /\ PlacePhase' /\ Unacked'
  BY <1>5, <1>a, NewRow DEF BlankRows, PlacePhase, Unacked, SigSteps, Used
<1> QED
  BY <1>1, <1>2, <1>3, <1>4, <1>5, BookKinds

-----------------------------------------------------------------------------
(* The kill switch.                                                        *)

\* A step that is not the kill switch's own.
LEMMA KillStays ==
    ASSUME Known, KillInv, UNCHANGED kill, NoneRevived,
           \A r \in Rows : row[r].eoi # NoEoi => row'[r].eoi = row[r].eoi
    PROVE  KillInv'
<1>1. kill.acked \subseteq Rows /\ \A r \in Rows : row[r].eoi \in Attempts \cup {NoEoi}
  BY KnownFacts DEF TypeOK, OrderRow
<1>2. \A r \in kill.acked : row[r].eoi # NoEoi /\ row'[r].eoi = row[r].eoi /\ row[r].eoi \in Attempts
  BY <1>1 DEF KillInv, KillAcked
<1> QED
  BY <1>1, <1>2 DEF KillInv, KillAcked, KillClosesOnlyDead, NoneRevived

LEMMA KillKeeps ==
    ASSUME Known, BlankRows, Unacked, KillInv, [Next]_vars
    PROVE  KillInv'
<1>a. TypeOK /\ row \in [Rows -> OrderRow] /\ kill.acked \subseteq Rows
  BY KnownFacts DEF TypeOK
<1>b. NoneRevived
  BY BookGrows
<1>1. CASE KillSwitch
  <2>1. SameOrders
    BY <1>1, OtherKinds DEF Steady
  <2>2. CASE KillList
    <3>1. /\ kill'.acked = {r \in OpenOrders : row[r].eoi # NoEoi} /\ UNCHANGED row
          /\ kill'.pc = "rows" => kill'.acked = {}
      BY <2>2 DEF KillList, Tables
    <3> QED
      BY <3>1 DEF KillInv, KillAcked, KillClosesOnlyDead
  <2>3. CASE KillClob
    <3>1. kill'.acked = kill.acked /\ UNCHANGED row /\ (kill'.ok => book' = AllCanceled)
      BY <2>3, <1>a DEF KillClob, Tables, TypeOK
    <3>2. \A r \in kill.acked : row[r].eoi \in Attempts
      BY <1>a DEF KillInv, KillAcked, OrderRow
    <3>3. book' = AllCanceled => \A r \in kill.acked : book'[r][row[r].eoi].st # "live"
      BY <1>a, <3>2 DEF AllCanceled, Live, TypeOK, BookOrder
    <3> QED
      BY <3>1, <3>3 DEF KillInv, KillAcked, KillClosesOnlyDead, Live
  <2>4. ASSUME kill' = KillIdle PROVE KillInv'
    BY <2>4 DEF KillIdle, KillInv, KillAcked, KillClosesOnlyDead
  <2>5. ASSUME NEW r \in Rows, KillRow(r) PROVE KillInv'
    <3>1. CASE kill' = [kill EXCEPT !.rows = @ \ {r}]
      <4>1. kill'.acked = kill.acked /\ kill'.pc = kill.pc /\ kill'.ok = kill.ok /\ UNCHANGED book
        BY <1>a, <2>5, <3>1 DEF KillRow, TypeOK
      <4> QED
        BY <1>a, <2>1, <4>1 DEF SameOrders, KillInv, KillAcked, KillClosesOnlyDead, Live
    <3> QED
      BY <2>4, <2>5, <3>1 DEF KillRow
  <2> QED
    BY <1>1, <2>2, <2>3, <2>4, <2>5 DEF KillSwitch, KillDone
<1>2. CASE Crash
  BY <1>2 DEF Crash, KillIdle, KillInv, KillAcked, KillClosesOnlyDead
<1>3. CASE ~KillSwitch /\ ~Crash
  <2>1. UNCHANGED kill
    BY <1>3 DEF Next, Executor, Reconcile, ReconcileList, FetchLive, FetchFails, RecoverCanceled,
       RejectZombie, Process, ListSignals, GateRefuses, SkipSignal, OrderbookGone, ApproveSignal,
       Place, InsertOrder, MarkExecuted, MarkSent, Submit, RecordOpen, BookWorking, RecordRejected,
       PruneMarket, Poll, ListOpen, WritePoll, Settle, PollAnswered, PollUnanswered, Reprice,
       ListExpired, EvaluateReprice, ClaimExpired, PhaseDone, CycleFails, Clock, AgeSignal, Expire,
       PassCutoff, Exchange, Match, Pipeline, EmitSignal, World, vars
  <2>2. \A r \in Rows : row[r].eoi # NoEoi => row'[r].eoi = row[r].eoi
    <3>1. CASE Steady \/ Lists \/ Chooses \/ \E r \in Rows : Answered(r)
      BY <3>1 DEF Steady, SameOrders, Lists, Chooses, Answered
    <3>2. CASE Acks
      BY <3>2, AckedRow DEF Acks, Unacked, AckSteps
    <3>3. CASE Writes
      BY <3>3, WrittenRow
    <3>4. ASSUME NEW r \in Rows, Insert(r)
          PROVE  \A q \in Rows : row[q].eoi # NoEoi => row'[q].eoi = row[q].eoi
      <4>1. row[r].eoi = NoEoi
        BY <3>4, NewRow DEF BlankRows, NoOrder
      <4> QED
        BY <3>4, <4>1, NewRow
    <3> QED
      BY <3>1, <3>2, <3>3, <3>4, BookKinds
  <2> QED
    BY <1>b, <2>1, <2>2, KillStays
<1> QED
  BY <1>1, <1>2, <1>3

-----------------------------------------------------------------------------
(* The portfolio cap.                                                      *)

LEMMA CandidateFacts ==
    ASSUME TypeOK
    PROVE  /\ Candidates \in SUBSET Rows /\ CountedRows \in SUBSET Candidates
           /\ IsFiniteSet(Candidates) /\ IsFiniteSet(CountedRows)
           /\ \A r \in Rows : SizeOf[r] = row[r].size /\ SizeOf[r] \in Nat
           /\ TotalOpenExposure = SumFunctionOnSet(SizeOf, CountedRows)
<1>1. Candidates \in SUBSET Rows /\ CountedRows \in SUBSET Candidates
  BY DEF Candidates, CountedRows, TypeOK, ExecutorState
<1>2. \A r \in Rows : SizeOf[r] = row[r].size /\ SizeOf[r] \in Nat
  BY DEF SizeOf, TypeOK, OrderRow
<1> QED
  BY <1>1, <1>2, RowsFinite DEF TotalOpenExposure, SizeOf

\* Fewer rows of the same sizes come to no more.
LEMMA FewerRows ==
    ASSUME TypeOK, TypeOK', \A r \in Rows : row'[r].size = row[r].size,
           NEW S, NEW T, S \in SUBSET Rows, T \in SUBSET S
    PROVE  SumFunctionOnSet(SizeOf', T) <= SumFunctionOnSet(SizeOf, S)
<1>1. \A r \in Rows : SizeOf[r] = row[r].size /\ SizeOf[r] \in Nat
  BY CandidateFacts
<1>2. \A r \in Rows : SizeOf'[r] = row'[r].size
  BY DEF SizeOf
<1>3. IsFiniteSet(S) /\ IsFiniteSet(T)
  BY RowsFinite
<1>4. \A r \in T : SizeOf'[r] = SizeOf[r]
  BY <1>1, <1>2
<1>5. SumFunctionOnSet(SizeOf', T) = SumFunctionOnSet(SizeOf, T)
  BY <1>3, <1>4, SumSame
<1>6. SumFunctionOnSet(SizeOf, T) <= SumFunctionOnSet(SizeOf, S)
  BY <1>1, <1>3, SumSubset
<1> QED
  BY <1>5, <1>6

\* What a step must do to the candidates to keep the cap.
LEMMA FewerCandidates ==
    ASSUME TypeOK, TypeOK', CapInv, \A r \in Rows : row'[r].size = row[r].size,
           Candidates' \subseteq Candidates
    PROVE  Capped'
<1>1. Candidates \in SUBSET Rows
  BY CandidateFacts
<1>2. SumFunctionOnSet(SizeOf', Candidates') <= SumFunctionOnSet(SizeOf, Candidates)
  BY <1>1, FewerRows
<1>3. IsFiniteSet(Candidates) /\ \A r \in Candidates : SizeOf[r] \in Nat
  BY CandidateFacts
<1>4. SumFunctionOnSet(SizeOf, Candidates) \in Nat
  BY <1>3, SumNat
<1>5. Candidates' \in SUBSET Rows /\ IsFiniteSet(Candidates')
  BY <1>1, RowsFinite
<1>6. \A r \in Candidates' : SizeOf'[r] \in Nat
  BY <1>5 DEF SizeOf, TypeOK, OrderRow
<1>7. SumFunctionOnSet(SizeOf', Candidates') \in Nat
  BY <1>5, <1>6, SumNat
<1> QED
  BY <1>2, <1>4, <1>7, NumberAssumption DEF CapInv, Capped

LEMMA CapKept ==
    ASSUME Known, TypeOK', BlankRows, Unacked, CapInv, [Next]_vars
    PROVE  CapInv'
<1>a. /\ TypeOK /\ PlacePhase /\ RowHeld /\ x \in ExecutorState /\ Listed /\ x.rows \subseteq Rows
  BY KnownFacts
<1>c. /\ Candidates \in SUBSET Rows /\ CountedRows \in SUBSET Candidates
      /\ IsFiniteSet(Candidates) /\ IsFiniteSet(CountedRows)
      /\ \A r \in Rows : SizeOf[r] = row[r].size /\ SizeOf[r] \in Nat
      /\ TotalOpenExposure = SumFunctionOnSet(SizeOf, CountedRows)
  BY <1>a, CandidateFacts
<1>t. TotalOpenExposure' = SumFunctionOnSet(SizeOf', CountedRows')
  BY DEF TotalOpenExposure, SizeOf
\* Steps after which no order is about to be inserted.
<1>k. ASSUME \A r \in Rows : row'[r].size = row[r].size, Candidates' \subseteq Candidates,
             x'.pc # "insert"
      PROVE  CapInv'
  BY <1>a, <1>k, FewerCandidates DEF CapInv, RoomHeld
<1>1. CASE Steady
  <2>1. \A r \in Rows : row'[r].size = row[r].size
    BY <1>1 DEF Steady, SameOrders
  <2>2. Candidates' \subseteq Candidates
    <3>1. CountedRows' \subseteq Candidates
      BY <1>1 DEF Steady, CountedKept, CountedRows, Candidates
    <3>2. {r \in x.rows : x.phase \in Polling}' \subseteq Candidates
      BY <1>1 DEF Steady, Walks, Candidates
    <3>3. {r \in Rows : x.pc \in RowSteps /\ r = x.row}' \subseteq Candidates
      BY <1>1 DEF Steady, Walks, Candidates
    <3> QED
      BY <3>1, <3>2, <3>3 DEF Candidates
  <2>3. Capped'
    BY <1>a, <2>1, <2>2, FewerCandidates
  <2>4. RoomHeld'
    <3> SUFFICES ASSUME x'.pc = "insert" PROVE TotalOpenExposure' + x'.size <= PortfolioCap
      BY DEF RoomHeld
    <3>1. x.pc = "insert" /\ x'.size = x.size /\ x.pc \notin RowSteps
      BY <1>1 DEF Steady, Walks, RowSteps
    <3>2. CountedRows' \subseteq CountedRows
      BY <1>1, <3>1 DEF Steady, CountedKept, CountedRows
    <3>3. TotalOpenExposure' <= TotalOpenExposure
      BY <1>a, <1>c, <1>t, <2>1, <3>2, FewerRows
    <3>4. TotalOpenExposure' \in Nat /\ TotalOpenExposure \in Nat /\ x.size \in Nat
      BY <1>a, TotalNat, TotalNatNext DEF ExecutorState
    <3> QED
      BY <3>1, <3>3, <3>4, NumberAssumption DEF CapInv, RoomHeld
  <2> QED
    BY <2>3, <2>4 DEF CapInv
<1>2. CASE Lists
  <2>1. UNCHANGED row /\ x'.rows = OpenOrders /\ x'.pc \notin RowSteps /\ x'.pc # "insert"
    BY <1>2 DEF Lists, RowSteps
  <2>2. Candidates' \subseteq Candidates
    BY <2>1 DEF Candidates, CountedRows, OpenOrders, CountedStatus
  <2> QED
    BY <1>k, <2>1, <2>2
<1>3. CASE Chooses
  <2>1. /\ UNCHANGED row /\ x'.pc = "insert" /\ x'.pc \notin RowSteps /\ x'.phase \notin Polling
        /\ TotalOpenExposure + x'.size <= PortfolioCap
    BY <1>3 DEF Chooses, RowSteps
  <2>2. Candidates' \subseteq Candidates
    BY <2>1 DEF Candidates, CountedRows
  <2>3. Capped'
    BY <1>a, <2>1, <2>2, FewerCandidates
  <2>4. TotalOpenExposure' = TotalOpenExposure
    BY <2>1 DEF TotalOpenExposure, CountedRows
  <2> QED
    BY <2>1, <2>3, <2>4 DEF CapInv, RoomHeld
<1>4. ASSUME NEW r \in Rows, Answered(r) PROVE CapInv'
  <2>1. /\ UNCHANGED row /\ x'.pc = "update" /\ x'.rows \subseteq x.rows /\ x'.row = r
        /\ r \in x.rows /\ x.phase \in Polling /\ x'.phase = x.phase
    BY <1>4 DEF Answered
  <2>2. Candidates' \subseteq Candidates
    BY <2>1 DEF Candidates, CountedRows
  <2> QED
    BY <1>k, <2>1, <2>2
<1>5. CASE Acks \/ Writes
  <2>1. /\ x.row \in Rows /\ x.pc \in RowSteps /\ x'.pc # "insert"
        /\ \A q \in Rows \ {x.row} : row'[q] = row[q]
        /\ row'[x.row].size = row[x.row].size
        /\ x'.phase = x.phase /\ x'.rows = x.rows /\ x'.row = x.row
    BY <1>5, AckedRow, WrittenRow DEF Acks, Writes, RowSteps
  <2>2. Candidates' \subseteq Candidates
    BY <2>1 DEF Candidates, CountedRows
  <2> QED
    BY <1>k, <2>1, <2>2
<1>6. ASSUME NEW r \in Rows, Insert(r) PROVE CapInv'
  <2>1. /\ row'[r].size = x.size /\ \A q \in Rows \ {r} : row'[q] = row[q]
        /\ ~Used(r) /\ x.pc = "insert" /\ x'.pc # "insert" /\ x'.row = r
        /\ x'.phase = x.phase /\ x'.rows = x.rows
    BY <1>6, NewRow
  <2>2. x.phase \notin Polling
    BY <1>a, <2>1 DEF PlacePhase, SigSteps
  <2>3. r \notin CountedRows
    BY <2>1 DEF CountedRows, Used, CountedStatus, OpenStatus
  <2>4. Candidates' \subseteq CountedRows \cup {r}
    BY <2>1, <2>2 DEF Candidates, CountedRows
  <2> DEFINE S == CountedRows \cup {r}
  <2>5. \A q \in CountedRows : SizeOf'[q] = SizeOf[q]
    BY <1>c, <2>1, <2>3 DEF SizeOf
  <2>6. SizeOf'[r] = x.size /\ x.size \in Nat
    BY <1>a, <2>1 DEF SizeOf, ExecutorState
  <2>7. \A q \in S : SizeOf'[q] \in Nat
    BY <1>c, <2>5, <2>6
  <2>8. SumFunctionOnSet(SizeOf', S) = x.size + SumFunctionOnSet(SizeOf', CountedRows)
    <3> DEFINE f == SizeOf'
               C == CountedRows
    <3>1. IsFiniteSet(C) /\ r \notin C /\ \A q \in C \cup {r} : f[q] \in Int
      BY <1>c, <2>3, <2>7
    <3> HIDE DEF f, C
    <3>2. SumFunctionOnSet(f, C \cup {r}) = f[r] + SumFunctionOnSet(f, C)
      BY <3>1, SumAdd
    <3> QED
      BY <2>6, <3>2 DEF f, C
  <2>9. SumFunctionOnSet(SizeOf', CountedRows) = SumFunctionOnSet(SizeOf, CountedRows)
    BY <1>c, <2>5, SumSame
  <2>10. IsFiniteSet(S) /\ S \subseteq Rows
    BY <1>c, RowsFinite
  <2>11. SumFunctionOnSet(SizeOf', Candidates') <= SumFunctionOnSet(SizeOf', S)
    BY <2>4, <2>7, <2>10, SumSubset
  <2>12. SumFunctionOnSet(SizeOf', S) <= PortfolioCap
    <3>1. TotalOpenExposure + x.size <= PortfolioCap
      BY <2>1 DEF CapInv, RoomHeld
    <3>2. TotalOpenExposure \in Nat
      BY <1>a, TotalNat
    <3> QED
      BY <1>c, <2>6, <2>8, <2>9, <3>1, <3>2
  <2>13. /\ SumFunctionOnSet(SizeOf', Candidates') \in Nat
         /\ SumFunctionOnSet(SizeOf', S) \in Nat
    <3>1. SumFunctionOnSet(SizeOf', S) \in Nat
      BY <2>7, <2>10, SumNat
    <3>2. IsFiniteSet(Candidates') /\ \A q \in Candidates' : SizeOf'[q] \in Nat
      BY <2>4, <2>7, <2>10, RowsFinite
    <3> QED
      BY <3>1, <3>2, SumNat
  <2>14. Capped'
    BY <2>11, <2>12, <2>13, NumberAssumption DEF Capped
  <2> QED
    BY <2>1, <2>14 DEF CapInv, RoomHeld
<1> QED
  BY <1>1, <1>2, <1>3, <1>4, <1>5, <1>6, BookKinds

-----------------------------------------------------------------------------
(* Fills and positions.                                                    *)

LEMMA NewFills == TypeOK => /\ \A r \in Rows : FilledOf[r] = row[r].filled /\ FilledOf[r] \in Nat
                            /\ \A t \in Tokens : RowsOf(t) \in SUBSET Rows /\ IsFiniteSet(RowsOf(t))
<1> SUFFICES ASSUME TypeOK
             PROVE  /\ \A r \in Rows : FilledOf[r] = row[r].filled /\ FilledOf[r] \in Nat
                    /\ \A t \in Tokens : RowsOf(t) \in SUBSET Rows /\ IsFiniteSet(RowsOf(t))
  OBVIOUS
<1>1. \A r \in Rows : FilledOf[r] = row[r].filled /\ FilledOf[r] \in Nat
  BY DEF FilledOf, TypeOK, OrderRow
<1>2. \A t \in Tokens : RowsOf(t) \in SUBSET Rows
  BY DEF RowsOf
<1> QED
  BY <1>1, <1>2, RowsFinite

LEMMA FilledBackedKept ==
    ASSUME Known, TypeOK', BlankRows, Unacked, FilledBacked, [Next]_vars
    PROVE  FilledBacked'
<1>a. /\ TypeOK /\ SeenHeld /\ row \in [Rows -> OrderRow] /\ RowHeld
      /\ book \in [Rows -> [Attempts -> BookOrder]]
      /\ book' \in [Rows -> [Attempts -> BookOrder]] /\ row' \in [Rows -> OrderRow]
  BY KnownFacts DEF TypeOK
<1>g. Grows
  BY BookGrows
\* A row that keeps its fill and its exchange id stays backed.
<1>k. ASSUME NEW q \in Rows, row'[q].eoi = row[q].eoi, row'[q].filled = row[q].filled
      PROVE  IF row'[q].eoi = NoEoi THEN row'[q].filled = 0
             ELSE row'[q].filled <= book'[q][row'[q].eoi].filled
  <2>1. row[q].eoi \in Attempts \cup {NoEoi} /\ row[q].filled \in Nat
    BY <1>a DEF OrderRow
  <2>2. \A k \in Attempts : /\ book[q][k].filled \in Nat /\ book'[q][k].filled \in Nat
                            /\ book[q][k].filled <= book'[q][k].filled
    BY <1>a, <1>g DEF Grows, BookOrder
  <2>3. CASE row[q].eoi = NoEoi
    BY <1>k, <2>3 DEF FilledBacked
  <2>4. CASE row[q].eoi # NoEoi
    <3>1. row[q].filled <= book[q][row[q].eoi].filled
      BY <2>4 DEF FilledBacked
    <3> QED
      BY <1>k, <2>1, <2>2, <2>4, <3>1
  <2> QED
    BY <2>3, <2>4
<1>1. CASE Steady \/ Lists \/ Chooses \/ \E r \in Rows : Answered(r)
  <2>1. \A q \in Rows : row'[q].eoi = row[q].eoi /\ row'[q].filled = row[q].filled
    BY <1>1 DEF Steady, SameOrders, Lists, Chooses, Answered
  <2> QED
    BY <1>k, <2>1 DEF FilledBacked
<1>2. CASE Acks
  <2>1. row[x.row].eoi = NoEoi /\ x.row \in Rows
    BY <1>2, AckedRow DEF Acks, Unacked, AckSteps
  <2>2. row'[x.row].filled = 0
    BY <1>2, <2>1, AckedRow DEF FilledBacked
  <2>3. row'[x.row].eoi # NoEoi => book'[x.row][row'[x.row].eoi].filled \in Nat
    BY <1>a, <2>1 DEF OrderRow, BookOrder
  <2>4. \A q \in Rows \ {x.row} : row'[q] = row[q]
    BY <1>2, AckedRow
  <2> QED
    BY <1>k, <2>1, <2>2, <2>3, <2>4 DEF FilledBacked
<1>3. CASE Writes
  <2>1. /\ x.row \in Rows /\ \A q \in Rows \ {x.row} : row'[q] = row[q]
        /\ row'[x.row].filled = x.data.filled /\ row'[x.row].eoi = row[x.row].eoi
    BY <1>3, WrittenRow
  <2>2. /\ row[x.row].eoi # NoEoi /\ UNCHANGED book
        /\ x.data.filled <= book[x.row][row[x.row].eoi].filled
    BY <1>3, <1>a DEF Writes, SeenHeld
  <2> QED
    BY <1>k, <2>1, <2>2 DEF FilledBacked
<1>4. ASSUME NEW r \in Rows, Insert(r) PROVE FilledBacked'
  BY <1>4, <1>k, NewRow DEF FilledBacked
<1> QED
  BY <1>1, <1>2, <1>3, <1>4, BookKinds

LEMMA SeenHeldKept ==
    ASSUME Known, TypeOK', BlankRows, Unacked, FilledBacked, [Next]_vars
    PROVE  SeenHeld'
<1>a. /\ TypeOK /\ SeenHeld /\ PlacePhase /\ row \in [Rows -> OrderRow] /\ RowHeld /\ Listed
      /\ x \in ExecutorState /\ x.rows \subseteq Rows
      /\ book \in [Rows -> [Attempts -> BookOrder]]
      /\ book' \in [Rows -> [Attempts -> BookOrder]]
  BY KnownFacts DEF TypeOK
<1>g. Grows
  BY BookGrows
<1>1. CASE Steady
  <2>1. x'.phase \in Polling => \A r \in x'.rows : SeenFresh(r)'
    BY <1>1, <1>a DEF Steady, Walks, SameOrders, SeenFresh, SeenHeld
  <2>2. CASE x'.pc \notin {"update", "settle"}
    BY <2>1, <2>2 DEF SeenHeld
  <2>3. CASE x'.pc \in {"update", "settle"}
    <3>1. x' = x
      BY <1>1, <2>3 DEF Steady, Walks
    <3>2. x.row \in Rows /\ x.pc \in {"update", "settle"}
      BY <1>a, <2>3, <3>1 DEF RowHeld, RowSteps
    <3>3. row'[x.row].eoi = row[x.row].eoi /\ row'[x.row].filled = row[x.row].filled
      BY <1>1, <3>2 DEF Steady, SameOrders
    <3>4. x.pc = "update" => x.data.filled <= book'[x.row][row[x.row].eoi].filled
      <4> SUFFICES ASSUME x.pc = "update"
                   PROVE  x.data.filled <= book'[x.row][row[x.row].eoi].filled
        OBVIOUS
      <4>1. row[x.row].eoi \in Attempts
        BY <1>a, <3>2 DEF SeenHeld, OrderRow
      <4>2. /\ x.data.filled \in Nat /\ book[x.row][row[x.row].eoi].filled \in Nat
            /\ book'[x.row][row[x.row].eoi].filled \in Nat
        BY <1>a, <3>2, <4>1 DEF ExecutorState, Answers, BookOrder
      <4>3. /\ x.data.filled <= book[x.row][row[x.row].eoi].filled
            /\ book[x.row][row[x.row].eoi].filled <= book'[x.row][row[x.row].eoi].filled
        BY <1>a, <1>g, <3>2, <4>1 DEF SeenHeld, Grows
      <4> QED
        BY <4>2, <4>3
    <3> QED
      BY <1>a, <2>1, <3>1, <3>2, <3>3, <3>4 DEF SeenHeld, SeenFresh
  <2> QED
    BY <2>2, <2>3
<1>2. CASE Lists \/ Chooses
  <2>1. /\ UNCHANGED row /\ x'.pc \notin {"update", "settle"}
        /\ x'.phase \in Polling => x'.seen = row
    BY <1>2 DEF Lists, Chooses
  <2> QED
    BY <2>1 DEF SeenHeld, SeenFresh
<1>3. ASSUME NEW r \in Rows, Answered(r) PROVE SeenHeld'
  <2>1. /\ UNCHANGED <<row, book>> /\ x.phase \in Polling /\ r \in x.rows /\ x.seen[r].eoi # NoEoi
        /\ x'.pc = "update" /\ x'.rows \subseteq x.rows /\ x'.row = r /\ x'.seen = x.seen
        /\ x'.phase = x.phase /\ x'.data.filled = book[r][x.seen[r].eoi].filled
    BY <1>3 DEF Answered
  <2>2. x.seen[r].eoi = row[r].eoi /\ x.seen[r].filled = row[r].filled
    BY <1>a, <2>1 DEF SeenHeld, SeenFresh
  <2>3. row[r].filled <= book[r][row[r].eoi].filled
    BY <2>1, <2>2 DEF FilledBacked
  <2>4. book[r][row[r].eoi].filled \in Nat
    BY <1>a, <2>1, <2>2 DEF OrderRow, BookOrder
  <2>5. \A q \in x'.rows : SeenFresh(q)'
    BY <1>a, <2>1 DEF SeenHeld, SeenFresh
  <2>6. SeenFresh(r)'
    BY <2>1, <2>2 DEF SeenFresh
  <2> QED
    BY <2>1, <2>2, <2>3, <2>4, <2>5, <2>6 DEF SeenHeld
<1>4. CASE Acks
  <2>1. x'.pc = "book" /\ x'.phase \notin Polling
    BY <1>4, <1>a, AckedRow DEF Acks, PlacePhase, SigSteps
  <2> QED
    BY <2>1 DEF SeenHeld
<1>5. CASE Writes
  <2>1. /\ x.row \in Rows /\ \A q \in Rows \ {x.row} : row'[q] = row[q]
        /\ row'[x.row].filled = x.data.filled /\ x'.pc = "settle" /\ x'.phase = x.phase
        /\ x'.rows = x.rows /\ x'.row = x.row /\ x'.seen = x.seen /\ x'.data = x.data
    BY <1>5, WrittenRow
  <2>2. \A q \in x.rows : q \in Rows \ {x.row}
    BY <1>a DEF Listed
  <2>3. x'.phase \in Polling => \A q \in x'.rows : SeenFresh(q)'
    BY <1>a, <2>1, <2>2 DEF SeenHeld, SeenFresh
  <2>4. x.seen[x.row].filled <= x.data.filled
    BY <1>5, <1>a DEF Writes, SeenHeld
  <2> QED
    BY <2>1, <2>3, <2>4 DEF SeenHeld
<1>6. ASSUME NEW r \in Rows, Insert(r) PROVE SeenHeld'
  <2>1. x'.pc \in {"mark", "send"} /\ x'.phase \notin Polling
    BY <1>6, <1>a, NewRow DEF PlacePhase, SigSteps
  <2> QED
    BY <2>1 DEF SeenHeld
<1> QED
  BY <1>1, <1>2, <1>3, <1>4, <1>5, <1>6, BookKinds

\* The rows of a token and what they show filled, before and after a step that
\* inserts no row.
LEMMA SameRowsOf ==
    ASSUME TypeOK, \A q \in Rows : (Used(q)' <=> Used(q)) /\ row'[q].sig = row[q].sig
    PROVE  \A t \in Tokens : RowsOf(t)' = RowsOf(t)
BY DEF RowsOf, TokenOfRow

LEMMA PendingInt == TypeOK /\ RowHeld => \A t \in Tokens : Pending(t) \in Int
<1> SUFFICES ASSUME TypeOK, RowHeld, NEW t \in Tokens PROVE Pending(t) \in Int
  OBVIOUS
<1>1. x.pc = "settle" => x.row \in Rows /\ x.data.filled \in Nat /\ x.seen[x.row].filled \in Nat
  BY DEF RowHeld, RowSteps, TypeOK, ExecutorState, Answers, OrderRow
<1> QED
  BY <1>1 DEF Pending, Delta

LEMMA BookedKept ==
    ASSUME Known, TypeOK', BlankRows, Unacked, Booked, [Next]_vars
    PROVE  Booked'
<1>a. /\ TypeOK /\ SeenHeld /\ PlacePhase /\ row \in [Rows -> OrderRow] /\ RowHeld
      /\ x \in ExecutorState
      /\ \A r \in Rows : FilledOf[r] = row[r].filled /\ FilledOf[r] \in Nat
      /\ \A t \in Tokens : RowsOf(t) \in SUBSET Rows /\ IsFiniteSet(RowsOf(t))
  BY KnownFacts, NewFills
<1>f. \A r \in Rows : FilledOf'[r] = row'[r].filled
  BY DEF FilledOf
<1>i. \A t \in Tokens : pos[t].bought \in Int /\ pos'[t].bought \in Int
  BY <1>a DEF TypeOK
<1>s. \A t \in Tokens : SumFunctionOnSet(FilledOf, RowsOf(t)) \in Nat
  <2> TAKE t \in Tokens
  <2>1. IsFiniteSet(RowsOf(t)) /\ \A r \in RowsOf(t) : FilledOf[r] \in Nat
    BY <1>a
  <2> QED
    BY <2>1, SumNat
<1>n. (\A t \in Tokens : Pending(t) \in Int) /\ (\A t \in Tokens : Pending(t)' \in Int)
  <2>1. (TypeOK /\ RowHeld)'
    BY StepInv DEF Known, IInv, ExecutorInv
  <2>2. (TypeOK /\ RowHeld => \A t \in Tokens : Pending(t) \in Int)'
    BY PendingInt, PTL
  <2> QED
    BY <1>a, <2>1, <2>2, PendingInt
\* Steps after which the rows show what they showed before.
<1>k. ASSUME \A q \in Rows : /\ (Used(q)' <=> Used(q)) /\ row'[q].sig = row[q].sig
                             /\ row'[q].filled = row[q].filled,
             PosKept
      PROVE  Booked'
  <2> SUFFICES ASSUME NEW t \in Tokens
               PROVE  pos'[t].bought + Pending(t)' <= SumFunctionOnSet(FilledOf', RowsOf(t)')
    BY DEF Booked
  <2>1. RowsOf(t)' = RowsOf(t)
    BY <1>a, <1>k, SameRowsOf
  <2>2. \A r \in RowsOf(t) : FilledOf'[r] = FilledOf[r]
    BY <1>a, <1>f, <1>k
  <2>3. SumFunctionOnSet(FilledOf', RowsOf(t)) = SumFunctionOnSet(FilledOf, RowsOf(t))
    BY <1>a, <2>2, SumSame
  <2>4. pos[t].bought + Pending(t) <= SumFunctionOnSet(FilledOf, RowsOf(t))
    BY DEF Booked
  <2>5. pos'[t].bought + Pending(t)' <= pos[t].bought + Pending(t)
    BY <1>k DEF PosKept
  <2> QED
    BY <1>i, <1>n, <1>s, <2>1, <2>3, <2>4, <2>5
\* Steps that neither begin nor end the settling of a poll.
<1>p. ASSUME BoughtKept, x.pc # "settle", x'.pc # "settle" PROVE PosKept
  BY <1>i, <1>p DEF PosKept, BoughtKept, Pending
<1>1. CASE Steady
  BY <1>1, <1>k DEF Steady, SameOrders, Used
<1>2. CASE Lists \/ Chooses \/ \E r \in Rows : Answered(r)
  <2>1. UNCHANGED row /\ BoughtKept /\ x.pc # "settle" /\ x'.pc # "settle"
    BY <1>2 DEF Lists, Chooses, Answered
  <2> QED
    BY <1>k, <1>p, <2>1 DEF Used
<1>3. CASE Acks
  <2>1. BoughtKept /\ x.pc # "settle" /\ x'.pc # "settle"
    BY <1>3, AckedRow DEF Acks
  <2>2. \A q \in Rows : /\ (Used(q)' <=> Used(q)) /\ row'[q].sig = row[q].sig
                        /\ row'[q].filled = row[q].filled
    BY <1>3, AckedRow DEF Used
  <2> QED
    BY <1>k, <1>p, <2>1, <2>2
<1>4. CASE Writes
  <2>1. /\ x.row \in Rows /\ Used(x.row) /\ \A q \in Rows \ {x.row} : row'[q] = row[q]
        /\ row'[x.row].filled = x.data.filled /\ x'.pc = "settle" /\ x'.row = x.row
        /\ x'.seen = x.seen /\ x'.data = x.data /\ row'[x.row].st # "none"
        /\ row'[x.row].sig = row[x.row].sig
    BY <1>4, WrittenRow
  <2>2. /\ x.pc = "update" /\ BoughtKept /\ x.seen[x.row].filled = row[x.row].filled
    BY <1>4, <1>a DEF Writes, SeenHeld, SeenFresh
  <2>3. \A q \in Rows : (Used(q)' <=> Used(q)) /\ row'[q].sig = row[q].sig
    BY <2>1 DEF Used
  <2> SUFFICES ASSUME NEW t \in Tokens
               PROVE  pos'[t].bought + Pending(t)' <= SumFunctionOnSet(FilledOf', RowsOf(t)')
    BY DEF Booked
  <2>4. RowsOf(t)' = RowsOf(t)
    BY <1>a, <2>1, <2>3, SameRowsOf DEF Used
  <2>5. /\ pos'[t].bought = pos[t].bought /\ Pending(t) = 0
        /\ pos[t].bought <= SumFunctionOnSet(FilledOf, RowsOf(t))
    BY <1>i, <1>s, <2>2 DEF BoughtKept, Pending, Booked
  <2>6. CASE x.row \in RowsOf(t)
    <3>1. TokenOfRow(x.row)' = t
      BY <2>1, <2>6 DEF RowsOf, TokenOfRow
    <3>2. Pending(t)' = x.data.filled - row[x.row].filled
      BY <2>1, <2>2, <3>1 DEF Pending, Delta
    <3>3. \A q \in RowsOf(t) : FilledOf[q] \in Int /\ FilledOf'[q] \in Int
      BY <1>a, <1>f DEF TypeOK, OrderRow
    <3>4. \A q \in RowsOf(t) \ {x.row} : FilledOf[q] = FilledOf'[q]
      BY <1>a, <1>f, <2>1
    <3>5. SumFunctionOnSet(FilledOf', RowsOf(t))
             = SumFunctionOnSet(FilledOf, RowsOf(t)) + (FilledOf'[x.row] - FilledOf[x.row])
      <4> DEFINE f == FilledOf
                 g == FilledOf'
                 S == RowsOf(t)
      <4>1. /\ IsFiniteSet(S) /\ x.row \in S /\ (\A q \in S : f[q] \in Int /\ g[q] \in Int)
            /\ \A q \in S \ {x.row} : f[q] = g[q]
        BY <1>a, <2>6, <3>3, <3>4
      <4> HIDE DEF f, g, S
      <4>2. SumFunctionOnSet(g, S) = SumFunctionOnSet(f, S) + (g[x.row] - f[x.row])
        BY <4>1, SumChange
      <4> QED
        BY <4>2 DEF f, g, S
    <3>6. FilledOf'[x.row] = x.data.filled /\ FilledOf[x.row] = row[x.row].filled
      BY <1>a, <1>f, <2>1
    <3>7. x.data.filled \in Nat /\ row[x.row].filled \in Nat
      BY <1>a, <2>1 DEF ExecutorState, Answers, OrderRow
    <3> QED
      BY <1>i, <1>s, <2>4, <2>5, <3>2, <3>5, <3>6, <3>7
  <2>7. CASE x.row \notin RowsOf(t)
    <3>1. TokenOfRow(x.row)' # t
      BY <2>1, <2>7 DEF RowsOf, TokenOfRow, Used
    <3>2. Pending(t)' = 0
      BY <2>1, <3>1 DEF Pending
    <3>3. \A q \in RowsOf(t) : FilledOf'[q] = FilledOf[q]
      BY <1>a, <1>f, <2>1, <2>7
    <3>4. SumFunctionOnSet(FilledOf', RowsOf(t)) = SumFunctionOnSet(FilledOf, RowsOf(t))
      BY <1>a, <3>3, SumSame
    <3> QED
      BY <1>i, <1>s, <2>4, <2>5, <3>2, <3>4
  <2> QED
    BY <2>6, <2>7
<1>5. ASSUME NEW r \in Rows, Insert(r), BoughtKept PROVE Booked'
  <2>1. /\ row'[r].filled = 0 /\ \A q \in Rows \ {r} : row'[q] = row[q]
        /\ row'[r].sig = x.sig /\ row'[r].st = "PENDING"
        /\ ~Used(r) /\ x.pc = "insert" /\ x'.pc \in {"mark", "send"}
    BY <1>5, NewRow
  <2> SUFFICES ASSUME NEW t \in Tokens
               PROVE  pos'[t].bought + Pending(t)' <= SumFunctionOnSet(FilledOf', RowsOf(t)')
    BY DEF Booked
  <2>2. /\ pos'[t].bought = pos[t].bought /\ Pending(t) = 0 /\ Pending(t)' = 0
        /\ pos[t].bought <= SumFunctionOnSet(FilledOf, RowsOf(t))
    BY <1>5, <1>i, <1>s, <2>1 DEF BoughtKept, Pending, Booked
  <2>3. r \notin RowsOf(t)
    BY <2>1 DEF RowsOf
  <2>4. RowsOf(t)' \in {RowsOf(t), RowsOf(t) \cup {r}}
    BY <2>1, <2>3 DEF RowsOf, TokenOfRow, Used
  <2>5. \A q \in RowsOf(t) : FilledOf'[q] = FilledOf[q]
    BY <1>a, <1>f, <2>1, <2>3
  <2>6. SumFunctionOnSet(FilledOf', RowsOf(t)) = SumFunctionOnSet(FilledOf, RowsOf(t))
    BY <1>a, <2>5, SumSame
  <2>7. SumFunctionOnSet(FilledOf', RowsOf(t) \cup {r}) = SumFunctionOnSet(FilledOf', RowsOf(t))
    <3> DEFINE g == FilledOf'
               S == RowsOf(t)
    <3>1. IsFiniteSet(S) /\ r \notin S /\ (\A q \in S \cup {r} : g[q] \in Int) /\ g[r] = 0
      BY <1>a, <1>f, <2>1, <2>3, <2>5
    <3> HIDE DEF g, S
    <3>2. SumFunctionOnSet(g, S \cup {r}) = g[r] + SumFunctionOnSet(g, S)
      BY <3>1, SumAdd
    <3>3. SumFunctionOnSet(g, S) \in Int
      BY <3>1, SumInt
    <3>4. SumFunctionOnSet(g, S \cup {r}) = SumFunctionOnSet(g, S)
      BY <3>1, <3>2, <3>3
    <3> QED
      BY <3>4 DEF g, S
  <2>8. SumFunctionOnSet(FilledOf', RowsOf(t)') = SumFunctionOnSet(FilledOf, RowsOf(t))
    <3>1. CASE RowsOf(t)' = RowsOf(t)
      BY <2>6, <3>1
    <3>2. CASE RowsOf(t)' = RowsOf(t) \cup {r}
      BY <2>6, <2>7, <3>2
    <3> QED
      BY <2>4, <3>1, <3>2
  <2> QED
    BY <1>i, <1>s, <2>2, <2>8
<1> QED
  BY <1>1, <1>2, <1>3, <1>4, <1>5, BookKinds

-----------------------------------------------------------------------------
(* The invariant of the books, and what it says.                           *)

LEMMA BooksInit == Init => BooksInv
<1> SUFFICES ASSUME Init PROVE BooksInv
  OBVIOUS
<1>a. TypeOK
  BY TypeInit
<1>1. /\ \A r \in Rows : row[r] = NoOrder
      /\ x.pc = "list" /\ x.phase = "reconcile" /\ x.rows = {} /\ kill.acked = {}
      /\ kill.pc = "idle" /\ \A t \in Tokens : pos[t].bought = 0
  BY DEF Init, EmptyTable, Idle, KillIdle
<1>2. \A r \in Rows : row[r].eoi = NoEoi /\ row[r].filled = 0 /\ row[r].st = "none"
  BY <1>1 DEF NoOrder
<1>3. BlankRows /\ PlacePhase /\ Unacked /\ KillInv
  BY <1>1 DEF BlankRows, PlacePhase, Unacked, KillInv, KillAcked, KillClosesOnlyDead, SigSteps,
              AckSteps
<1>4. Candidates = {}
  BY <1>1, <1>2 DEF Candidates, CountedRows, CountedStatus, OpenStatus, RowSteps
<1>5. CapInv
  BY <1>1, <1>4, SumEmpty, NumberAssumption DEF CapInv, Capped, RoomHeld
<1>6. \A t \in Tokens : RowsOf(t) = {} /\ Pending(t) = 0
  BY <1>1, <1>2 DEF RowsOf, Used, Pending
<1>7. Booked
  BY <1>1, <1>6, SumEmpty DEF Booked
<1>8. FilledBacked /\ SeenHeld
  BY <1>1, <1>2 DEF FilledBacked, SeenHeld
<1> QED
  BY <1>3, <1>5, <1>7, <1>8 DEF BooksInv, BookInv

LEMMA BooksStep == IInv /\ BooksInv /\ [Next]_vars => BooksInv'
<1> SUFFICES ASSUME IInv, BooksInv, [Next]_vars PROVE BooksInv'
  OBVIOUS
<1>1. TypeOK'
  BY StepInv DEF IInv
<1>2. Known /\ BlankRows /\ Unacked /\ KillInv /\ CapInv /\ FilledBacked /\ Booked
  BY DEF Known, BooksInv, BookInv
<1> QED
  BY <1>1, <1>2, PlacedKept, KillKeeps, CapKept, FilledBackedKept, SeenHeldKept, BookedKept
     DEF BooksInv, BookInv

\* The numbers of the tables, the exchange and the executor agree in every
\* reachable state.
THEOREM BooksInvariance == Spec => [](IInv /\ BooksInv)
<1>1. Init => IInv /\ BooksInv
  BY InitInv, BooksInit
<1>2. IInv /\ BooksInv /\ [Next]_vars => (IInv /\ BooksInv)'
  BY StepInv, BooksStep
<1> QED
  BY <1>1, <1>2, PTL DEF Spec

\* The kill switch closes rows that have an exchange id only when none of them
\* can still trade (cancel_all_open_orders).
THEOREM KillIsSafe == Spec => []KillClosesOnlyDead
<1>1. BooksInv => KillClosesOnlyDead
  BY DEF BooksInv, KillInv
<1> QED
  BY <1>1, BooksInvariance, PTL

LEMMA CapHolds == IInv /\ BooksInv => ExposureCapped
<1> SUFFICES ASSUME IInv, BooksInv PROVE ExposureCapped
  OBVIOUS
<1>a. TypeOK
  BY DEF IInv
<1>1. /\ Candidates \in SUBSET Rows /\ CountedRows \in SUBSET Candidates
      /\ IsFiniteSet(Candidates) /\ \A r \in Candidates : SizeOf[r] \in Nat
      /\ TotalOpenExposure = SumFunctionOnSet(SizeOf, CountedRows)
  BY <1>a, CandidateFacts
<1>2. SumFunctionOnSet(SizeOf, CountedRows) <= SumFunctionOnSet(SizeOf, Candidates)
  BY <1>1, SumSubset
<1>3. SumFunctionOnSet(SizeOf, Candidates) \in Nat /\ TotalOpenExposure \in Nat
  BY <1>a, <1>1, SumNat, TotalNat
<1>4. SumFunctionOnSet(SizeOf, Candidates) <= PortfolioCap
  BY DEF BooksInv, CapInv, Capped
<1> QED
  BY <1>1, <1>2, <1>3, <1>4, NumberAssumption DEF ExposureCapped

\* The open and filled orders never come to more than the portfolio cap, in
\* whatever order the kill switch, polls, reconciliations and reprices write
\* (get_total_open_exposure, _exceeds_caps).
THEOREM CapIsKept == Spec => []ExposureCapped
BY CapHolds, BooksInvariance, PTL

\* What a row shows filled is part of what its attempts matched.
LEMMA FilledIsMatched ==
    ASSUME TypeOK, FilledBacked, NEW r \in Rows
    PROVE  row[r].filled <= Matched(r) /\ Matched(r) \in Nat /\ row[r].filled \in Nat
<1> DEFINE f == [k \in Attempts |-> book[r][k].filled]
<1>1. IsFiniteSet(Attempts)
  BY NumberAssumption, FS_Interval DEF Attempts
<1>2. \A k \in Attempts : f[k] = book[r][k].filled /\ f[k] \in Nat
  BY DEF TypeOK, BookOrder
<1>3. row[r].filled \in Nat /\ row[r].eoi \in Attempts \cup {NoEoi}
  BY DEF TypeOK, OrderRow
<1> HIDE DEF f
<1>4. SumFunctionOnSet(f, Attempts) \in Nat
  BY <1>1, <1>2, SumNat
<1>5. CASE row[r].eoi = NoEoi
  BY <1>4, <1>5 DEF FilledBacked, Matched, f
<1>6. CASE row[r].eoi # NoEoi
  <2>1. row[r].eoi \in Attempts /\ row[r].filled <= f[row[r].eoi]
    BY <1>2, <1>3, <1>6 DEF FilledBacked
  <2>2. SumFunctionOnSet(f, Attempts)
           = f[row[r].eoi] + SumFunctionOnSet(f, Attempts \ {row[r].eoi})
    BY <1>1, <1>2, <2>1, SumRemove
  <2>3. IsFiniteSet(Attempts \ {row[r].eoi})
    BY <1>1, FS_Subset
  <2>4. SumFunctionOnSet(f, Attempts \ {row[r].eoi}) \in Nat
    BY <1>2, <2>3, SumNat
  <2>5. row[r].filled <= SumFunctionOnSet(f, Attempts)
    BY <1>2, <1>3, <2>1, <2>2, <2>4
  <2> QED
    BY <1>3, <1>4, <2>5 DEF Matched, f
<1> QED
  BY <1>5, <1>6

LEMMA BookedHolds == IInv /\ BooksInv => BookedAtMostOnce
<1> SUFFICES ASSUME IInv, BooksInv, NEW t \in Tokens
             PROVE  pos[t].bought <= SumFunctionOnSet([r \in Rows |-> Matched(r)], RowsOf(t))
  BY DEF BookedAtMostOnce
<1> DEFINE m == [r \in Rows |-> Matched(r)]
<1>a. TypeOK /\ FilledBacked /\ SeenHeld /\ RowHeld
  BY DEF IInv, ExecutorInv, BooksInv, BookInv
<1>1. /\ IsFiniteSet(RowsOf(t)) /\ RowsOf(t) \in SUBSET Rows
      /\ \A r \in Rows : FilledOf[r] = row[r].filled
  BY <1>a, NewFills
<1>2. \A r \in RowsOf(t) : m[r] \in Nat /\ FilledOf[r] \in Nat /\ FilledOf[r] <= m[r]
  BY <1>a, <1>1, FilledIsMatched
<1> HIDE DEF m
<1>3. SumFunctionOnSet(FilledOf, RowsOf(t)) <= SumFunctionOnSet(m, RowsOf(t))
  BY <1>1, <1>2, SumMonotone
<1>4. SumFunctionOnSet(FilledOf, RowsOf(t)) \in Nat /\ SumFunctionOnSet(m, RowsOf(t)) \in Nat
  BY <1>1, <1>2, SumNat
<1>5. Pending(t) \in Nat /\ pos[t].bought \in Int
  <2>1. x.pc = "settle" => /\ x.data.filled \in Nat /\ x.seen[x.row].filled \in Nat
                           /\ x.seen[x.row].filled <= x.data.filled
    BY <1>a DEF RowHeld, RowSteps, TypeOK, ExecutorState, Answers, OrderRow, SeenHeld
  <2> QED
    BY <1>a, <2>1 DEF Pending, Delta, TypeOK
<1>6. pos[t].bought + Pending(t) <= SumFunctionOnSet(FilledOf, RowsOf(t))
  BY DEF BooksInv, BookInv, Booked
<1>7. pos[t].bought <= SumFunctionOnSet(m, RowsOf(t))
  BY <1>3, <1>4, <1>5, <1>6
<1> QED
  BY <1>7 DEF m

\* A fill reaches its position at most once, whatever crashes, fails or is polled
\* again: no position shows more bought than its orders matched on the exchange
\* (poll_order_status, update_position).
THEOREM FillIsBookedOnce == Spec => []BookedAtMostOnce
BY BookedHolds, BooksInvariance, PTL
=============================================================================
