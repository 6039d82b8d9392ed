------------------------- MODULE ExitManagerProofs -------------------------
(***************************************************************************)
(* The exit manager's invariants.                                          *)
(*                                                                         *)
(* The first half is about one life of the process: no two exits of a      *)
(* market work at a time, and the bot's books never show more sold than    *)
(* bought.  A restart clears the flags, and both facts with them, hence    *)
(* the assumption MaxRestarts = 0.                                         *)
(*                                                                         *)
(* The second half needs no such assumption: what the tables say of rows,  *)
(* fills, offers and peaks, whatever fails, is lost or dies in between.    *)
(***************************************************************************)
EXTENDS ExitManager, SumLemmas

\* A market whose flag is set: _on_snapshot leaves it alone.
Busy(m) == Watched(m) /\ index[m].pending

Working(r) == sell[r].st \in WorkingStatus

\* The poll asks the CLOB about rows with an exchange id only.
HasId == \A r \in Rows : Working(r) => sell[r].eoi \in Attempts

\* What the poll reads of an order is never more than the order's size.
BookInv ==
    \A r \in Rows, k \in Attempts :
        /\ book[r][k].filled <= sell[r].size
        /\ book[r][k].st = "live" => book[r][k].filled < sell[r].size
        /\ sell[r].st = "none" => sell[r].size = 0 /\ book[r][k].st = "none"

\* A working exit has its flag set, and the shares it can still sell are there.
WorkingInv ==
    \A r \in Rows : Working(r) =>
        /\ sell[r].mkt \in Markets /\ sell[r].eoi \in Attempts
        /\ Busy(sell[r].mkt)
        /\ sell[r].filled < sell[r].size
        /\ sell[r].filled <= book[r][sell[r].eoi].filled
        /\ ~(poll.pc = "settle" /\ poll.row = r) =>
              sell[r].size - sell[r].filled <= Net(sell[r].mkt)
        /\ \A q \in Rows : Working(q) /\ sell[q].mkt = sell[r].mkt => q = r

\* Nothing of market m works, or is being written down.
Quiet(m) ==
    /\ \A r \in Rows : ~(Working(r) /\ sell[r].mkt = m)
    /\ ~(poll.pc \in {"write", "settle", "recover"} /\ poll.mkt = m)

\* The flag is the mutex: without it, nothing works, and the copy in the index
\* is not more than what is held.
IndexInv ==
    \A m \in Markets :
        /\ ~Busy(m) => Quiet(m)
        /\ Watched(m) /\ ~index[m].pending => index[m].net <= Net(m)

Polling == {"write", "settle", "recover"}

Placing == {"insert", "reserve", "send", "submit", "ack", "reject", "release"}

\* What the NATS thread holds in its hands.
NatsInv ==
    /\ nats.pc # "idle" => nats.mkt \in Markets
    /\ nats.pc \in {"persist", "evaluate"} =>
          ~Busy(nats.mkt) /\ 0 < nats.net /\ nats.net <= Net(nats.mkt)
    /\ nats.pc \in Placing =>
          /\ Busy(nats.mkt) /\ Quiet(nats.mkt) /\ index[nats.mkt].net <= Net(nats.mkt)
          /\ 0 < nats.net /\ nats.net <= Net(nats.mkt)
    /\ nats.pc \in Placing \ {"insert"} =>
          /\ nats.row \in Rows
          /\ sell[nats.row].mkt = nats.mkt /\ sell[nats.row].size = nats.net
          /\ sell[nats.row].st \in {"PENDING", "SENT", "REJECTED"}
          /\ sell[nats.row].filled = 0
    /\ nats.pc \in {"submit", "ack"} => nats.try \in Attempts
    /\ nats.pc \in {"reserve", "send", "submit"} =>
          \A k \in Attempts : (nats.pc = "submit" => nats.try <= k) =>
              book[nats.row][k].st = "none" /\ book[nats.row][k].filled = 0
    /\ nats.pc = "refresh" =>
          /\ nats.net <= 0 => Quiet(nats.mkt)
          /\ ~Busy(nats.mkt) => nats.net <= Net(nats.mkt)

\* What the executor holds in its hands.
PollInv ==
    /\ poll.pc = "notify" => poll.mkt \in Markets
    /\ poll.pc \in {"write", "settle", "recover"} =>
          /\ poll.mkt \in Markets /\ poll.row \in Rows
          /\ Busy(poll.mkt) /\ Net(poll.mkt) > 0
          /\ sell[poll.row].mkt = poll.mkt
          /\ sell[poll.row].st \notin {"PENDING", "SENT", "none"}
          /\ \A q \in Rows : Working(q) /\ sell[q].mkt = poll.mkt => q = poll.row
    /\ poll.pc = "write" =>
          /\ Working(poll.row)
          /\ poll.sold = poll.filled - sell[poll.row].filled
          /\ sell[poll.row].filled <= poll.filled
          /\ poll.filled <= book[poll.row][sell[poll.row].eoi].filled
          /\ poll.st \in WorkingStatus => poll.filled < sell[poll.row].size
    /\ poll.pc = "settle" =>
          /\ 0 <= poll.sold
          /\ poll.sold + (sell[poll.row].size - sell[poll.row].filled) <= Net(poll.mkt)
          /\ sell[poll.row].filled <= sell[poll.row].size

OneLife == budget.restart = 0

IInv == /\ TypeOK /\ OneLife /\ NeverShort
        /\ BookInv /\ WorkingInv /\ IndexInv /\ NatsInv /\ PollInv

-----------------------------------------------------------------------------
(* Types.                                                                  *)

LEMMA ConstantTypes ==
    /\ NoOrder \in SellRow /\ NotWatched \in IndexEntry
    /\ NatsIdle \in NatsState /\ PollIdle \in PollState
    /\ Attempts \union {NoEoi} = 0..MaxRetries
BY ExitAssumption DEF NoOrder, SellRow, NotWatched, IndexEntry, NatsIdle, NatsState, NatsSteps,
    PollIdle, PollState, PollSteps, NoRow, NoEoi, Attempts

LEMMA TypeInit == Init => TypeOK
BY ConstantTypes, ExitAssumption DEF Init, TypeOK, Position, BookOrder, Budget

LEMMA SpendType ==
    ASSUME budget \in Budget, NEW what \in {"fill", "restart", "ack", "notice", "db"}, Spend(what)
    PROVE  budget' \in Budget
BY DEF Spend, Budget

LEMMA GotoType ==
    ASSUME nats \in NatsState, NEW pc \in NatsSteps, Goto(pc)
    PROVE  nats' \in NatsState
BY DEF Goto, NatsState

LEMMA RetryType ==
    ASSUME nats \in NatsState, RetryOrGiveUp
    PROVE  nats' \in NatsState
<1>1. nats.try \in 0..MaxRetries
  BY DEF NatsState
<1>2. CASE nats.try < MaxRetries
  <2>1. nats.try + 1 \in 0..MaxRetries
    BY <1>1, <1>2, ExitAssumption
  <2> QED
    BY <1>2, <2>1 DEF RetryOrGiveUp, NatsState
<1>3. CASE ~(nats.try < MaxRetries)
  BY <1>3 DEF RetryOrGiveUp, NatsState, NatsSteps
<1> QED
  BY <1>2, <1>3

LEMMA WriteType ==
    ASSUME sell \in [Rows -> SellRow], NEW r, NEW st \in Status, Write(r, st)
    PROVE  sell' \in [Rows -> SellRow]
BY DEF Write, SellRow

LEMMA ResetType ==
    ASSUME index \in [Markets -> IndexEntry], ResetPending
    PROVE  index' \in [Markets -> IndexEntry]
BY DEF ResetPending, IndexEntry

LEMMA FreshType ==
    ASSUME NEW net \in Nat, NEW stored \in Nat
    PROVE  FreshEntry(net, stored) \in IndexEntry
BY ExitAssumption DEF FreshEntry, IndexEntry

\* One order of the book replaced by another.
LEMMA BookChange ==
    ASSUME book \in [Rows -> [Attempts -> BookOrder]], NEW r, NEW k, NEW b \in BookOrder
    PROVE  [book EXCEPT ![r][k] = b] \in [Rows -> [Attempts -> BookOrder]]
OBVIOUS

LEMMA StatusFacts == {"PENDING", "SENT", "OPEN", "PARTIAL", "FILLED", "CANCELED", "REJECTED"} = Status
BY DEF Status, WorkingStatus

LEMMA TypeSnapshot == TypeOK /\ (Snapshot \/ PersistPeak \/ Hold \/ TriggerExit) => TypeOK'
<1> SUFFICES ASSUME TypeOK, Snapshot \/ PersistPeak \/ Hold \/ TriggerExit PROVE TypeOK'
  OBVIOUS
<1>i. index \in [Markets -> IndexEntry]
  BY DEF TypeOK
<1>n. nats \in NatsState
  BY DEF TypeOK
<1>h. held \in [Markets -> Position]
  BY DEF TypeOK
<1>b. DbError => budget' \in Budget
  BY SpendType DEF TypeOK, DbError
<1>1. ASSUME NEW m \in Markets, NEW price \in Prices, OnSnapshot(m, price) PROVE TypeOK'
  <2>1. index' \in [Markets -> IndexEntry]
    BY <1>i, <1>1, ExitAssumption DEF OnSnapshot, IndexEntry, Larger
  <2>2. price \in Nat /\ index[m].net \in Int
    BY <1>i, ExitAssumption DEF IndexEntry
  <2>3. ASSUME NEW pc \in NatsSteps
        PROVE  [NatsIdle EXCEPT !.pc = pc, !.mkt = m, !.price = price, !.net = index[m].net]
                   \in NatsState
    BY <2>2, ConstantTypes DEF NatsState
  <2>4. (IF price > index[m].peak THEN "persist" ELSE "evaluate") \in NatsSteps
    BY DEF NatsSteps
  <2>5. nats' \in NatsState
    BY <1>1, <2>3, <2>4 DEF OnSnapshot
  <2> QED
    BY <1>1, <2>1, <2>5 DEF OnSnapshot, TypeOK, ExecutorSide
<1>2. CASE PersistPeak
  <2>1. held' \in [Markets -> Position]
    BY <1>h, <1>n, <1>2 DEF PersistPeak, Position, Larger, NatsState
  <2>2. nats' \in NatsState
    BY <1>n, <1>2, GotoType DEF PersistPeak, NatsSteps
  <2> QED
    BY <1>b, <1>2, <2>1, <2>2 DEF PersistPeak, TypeOK, ExecutorSide
<1>3. CASE Hold
  BY <1>3, ConstantTypes DEF Hold, TypeOK, ExecutorSide
<1>4. CASE TriggerExit
  <2>1. index' \in [Markets -> IndexEntry]
    BY <1>i, <1>4 DEF TriggerExit, IndexEntry
  <2>2. nats' \in NatsState
    BY <1>n, <1>4, GotoType DEF TriggerExit, NatsSteps
  <2> QED
    BY <1>4, <2>1, <2>2 DEF TriggerExit, TypeOK, ExecutorSide
<1> QED
  BY <1>1, <1>2, <1>3, <1>4 DEF Snapshot

LEMMA TypePlace == TypeOK /\ PlaceExit => TypeOK'
<1> SUFFICES ASSUME TypeOK, PlaceExit PROVE TypeOK'
  OBVIOUS
<1>i. ResetPending => index' \in [Markets -> IndexEntry]
  BY ResetType DEF TypeOK
<1>n. nats \in NatsState
  BY DEF TypeOK
<1>h. held \in [Markets -> Position]
  BY DEF TypeOK
<1>s. sell \in [Rows -> SellRow]
  BY DEF TypeOK
<1>b. (DbError \/ Spend("ack")) => budget' \in Budget
  BY SpendType DEF TypeOK, DbError
<1>g. ASSUME NEW pc \in NatsSteps, Goto(pc) PROVE nats' \in NatsState
  BY <1>n, <1>g, GotoType
<1>1. CASE InsertExit
  <2>1. [NoOrder EXCEPT !.st = "PENDING", !.mkt = nats.mkt, !.size = nats.net] \in SellRow
    BY <1>n, ConstantTypes, StatusFacts DEF SellRow, NatsState
  <2>2. sell' \in [Rows -> SellRow]
    BY <1>s, <1>1, <2>1 DEF InsertExit
  <2>3. \A r \in Rows : [nats EXCEPT !.pc = "reserve", !.row = r] \in NatsState
    BY <1>n DEF NatsState, NatsSteps
  <2>4. nats' \in NatsState
    BY <1>1, <2>3, ConstantTypes DEF InsertExit
  <2> QED
    BY <1>i, <1>b, <1>1, <2>2, <2>4 DEF InsertExit, TypeOK, ExecutorSide
<1>2. CASE Reserve
  <2>1. held' \in [Markets -> Position]
    BY <1>h, <1>n, <1>2 DEF Reserve, Position, NatsState
  <2>2. nats' \in NatsState
    BY <1>2, <1>g DEF Reserve, NatsSteps
  <2> QED
    BY <1>b, <1>2, <2>1, <2>2 DEF Reserve, TypeOK, ExecutorSide
<1>3. CASE MarkSent
  <2>1. sell' \in [Rows -> SellRow]
    BY <1>s, <1>3, WriteType, StatusFacts DEF MarkSent
  <2>2. [nats EXCEPT !.pc = "submit", !.try = 1] \in NatsState
    <3>1. 1 \in 0..MaxRetries /\ "submit" \in NatsSteps
      BY ExitAssumption DEF NatsSteps
    <3> QED
      BY <1>n, <3>1 DEF NatsState
  <2>3. nats' \in NatsState
    BY <1>3, <1>g, <2>2 DEF MarkSent, NatsSteps
  <2> QED
    BY <1>b, <1>3, <2>1, <2>3 DEF MarkSent, TypeOK, ExecutorSide
<1>4. CASE Submit
  <2>1. nats' \in NatsState
    BY <1>n, <1>4, <1>g, RetryType DEF Submit, NatsSteps
  <2>2. book' \in [Rows -> [Attempts -> BookOrder]]
    <3>1. book \in [Rows -> [Attempts -> BookOrder]]
      BY DEF TypeOK
    <3>2. ASSUME NEW r, NEW k
          PROVE  [book EXCEPT ![r][k].st = "live"] \in [Rows -> [Attempts -> BookOrder]]
      <4>1. CASE r \in Rows /\ k \in Attempts
        <5>1. [book[r][k] EXCEPT !.st = "live"] \in BookOrder
          BY <3>1, <4>1 DEF BookOrder
        <5> QED
          BY <3>1, <4>1, <5>1
      <4>2. CASE ~(r \in Rows /\ k \in Attempts)
        BY <3>1, <4>2
      <4> QED
        BY <4>1, <4>2
    <3>3. book' = book \/ book' = [book EXCEPT ![nats.row][nats.try].st = "live"]
      BY <1>4 DEF Submit
    <3> QED
      BY <3>1, <3>2, <3>3
  <2> QED
    BY <1>b, <1>4, <2>1, <2>2 DEF Submit, TypeOK, ExecutorSide
<1>5. CASE RecordOpen
  <2>1. nats.try \in Attempts \union {NoEoi} /\ nats.net \in Int
    BY <1>n, ConstantTypes DEF NatsState
  <2>2. sell' \in [Rows -> SellRow]
    BY <1>s, <1>5, <2>1, StatusFacts DEF RecordOpen, SellRow
  <2>3. nats' \in NatsState
    BY <1>5, <1>g, ConstantTypes DEF RecordOpen, NatsSteps
  <2> QED
    BY <1>b, <1>5, <2>2, <2>3 DEF RecordOpen, TypeOK, ExecutorSide
<1>6. CASE RecordRejected
  <2>1. sell' \in [Rows -> SellRow]
    BY <1>s, <1>6, WriteType, StatusFacts DEF RecordRejected
  <2>2. nats' \in NatsState
    BY <1>6, <1>g, ConstantTypes DEF RecordRejected, NatsSteps
  <2> QED
    BY <1>i, <1>b, <1>6, <2>1, <2>2 DEF RecordRejected, TypeOK, ExecutorSide
<1>7. CASE Release
  <2>1. held' \in [Markets -> Position]
    BY <1>h, <1>n, <1>7 DEF Release, Position, NatsState
  <2> QED
    BY <1>i, <1>b, <1>7, <2>1, ConstantTypes DEF Release, TypeOK, ExecutorSide
<1> QED
  BY <1>1, <1>2, <1>3, <1>4, <1>5, <1>6, <1>7 DEF PlaceExit

LEMMA TypeFill == TypeOK /\ (Fill \/ Refresh \/ Restart) => TypeOK'
<1> SUFFICES ASSUME TypeOK, Fill \/ Refresh \/ Restart PROVE TypeOK'
  OBVIOUS
<1>i. index \in [Markets -> IndexEntry]
  BY DEF TypeOK
<1>n. nats \in NatsState
  BY DEF TypeOK
<1>h. held \in [Markets -> Position]
  BY DEF TypeOK
<1>b. DbError => budget' \in Budget
  BY SpendType DEF TypeOK, DbError
<1>1. ASSUME NEW m \in Markets, HearFill(m) PROVE TypeOK'
  <2>1. Net(m) \in Int /\ held[m].peak \in Nat
    BY <1>h DEF Net, Position
  <2>2. nats' \in NatsState
    BY <1>n, <1>1, <2>1, ConstantTypes DEF HearFill, NatsState, NatsSteps
  <2>3. notices' \in [Markets -> Nat]
    BY <1>1 DEF HearFill, TypeOK
  <2> QED
    BY <1>b, <1>1, <2>2, <2>3 DEF HearFill, TypeOK
<1>2. CASE Refresh
  <2>1. nats.net > 0 => Refreshed(nats.mkt) \in IndexEntry \/ nats.mkt \notin Markets
    BY <1>i, <1>n, FreshType DEF Refreshed, IndexEntry, NatsState
  <2>2. index' \in [Markets -> IndexEntry]
    BY <1>i, <1>2, <2>1, ConstantTypes DEF Refresh
  <2> QED
    BY <1>2, <2>2, ConstantTypes DEF Refresh, TypeOK, ExecutorSide
<1>3. CASE Restart
  <2>1. Seeded \in [Markets -> IndexEntry]
    <3>1. ASSUME NEW m \in Markets, Net(m) > 0 PROVE FreshEntry(Net(m), held[m].peak) \in IndexEntry
      BY <1>h, <3>1, FreshType DEF Net, Position
    <3> QED
      BY <3>1, ConstantTypes DEF Seeded
  <2>2. index' \in [Markets -> IndexEntry]
    BY <1>3, <2>1, ConstantTypes DEF Restart
  <2>3. budget' \in Budget
    <3>1. budget \in Budget
      BY DEF TypeOK
    <3>2. \/ budget' = [budget EXCEPT !.restart = @ - 1]
          \/ budget.notice > 0 /\ budget' = [budget EXCEPT !.restart = @ - 1, !.notice = @ - 1]
          \/ budget.db > 0 /\ budget' = [budget EXCEPT !.restart = @ - 1, !.db = @ - 1]
      BY <1>3 DEF Restart
    <3>3. budget.restart > 0
      BY <1>3 DEF Restart
    <3>4. budget.restart - 1 \in Nat
      BY <3>1, <3>3 DEF Budget
    <3>5. budget.notice > 0 => budget.notice - 1 \in Nat
      BY <3>1 DEF Budget
    <3>6. budget.db > 0 => budget.db - 1 \in Nat
      BY <3>1 DEF Budget
    <3> QED
      BY <3>1, <3>2, <3>4, <3>5, <3>6 DEF Budget
  <2>4. mode' \in [enabled : BOOLEAN, hears : BOOLEAN]
    <3>1. PICK e \in BOOLEAN, h \in BOOLEAN : mode' = [enabled |-> e, hears |-> h]
      BY <1>3, Zenon DEF Restart
    <3> QED
      BY <3>1, Zenon
  <2>5. [m \in Markets |-> 0] \in [Markets -> Nat]
    OBVIOUS
  <2> QED
    BY <1>3, <2>2, <2>3, <2>4, <2>5, ConstantTypes DEF Restart, TypeOK
<1> QED
  BY <1>1, <1>2, <1>3 DEF Fill

LEMMA TypeExecutor == TypeOK /\ HasId /\ (Entry \/ Executor) => TypeOK'
<1> SUFFICES ASSUME TypeOK, HasId, Entry \/ Executor PROVE TypeOK'
  OBVIOUS
<1>p. poll \in PollState
  BY DEF TypeOK
<1>h. held \in [Markets -> Position]
  BY DEF TypeOK
<1>s. sell \in [Rows -> SellRow]
  BY DEF TypeOK
<1>b. DbError \/ Spend("fill") \/ Spend("notice") => budget' \in Budget
  BY SpendType DEF TypeOK, DbError
<1>r. PollRaises => poll' \in PollState /\ budget' \in Budget
  <2>1. [poll EXCEPT !.pc = "recover"] \in PollState
    BY <1>p DEF PollState, PollSteps
  <2> QED
    BY <1>b, <2>1, ConstantTypes DEF PollRaises
<1>1. ASSUME NEW m \in Markets, NEW complete \in BOOLEAN, EntryFill(m, complete) PROVE TypeOK'
  <2>1. held' \in [Markets -> Position]
    BY <1>h, <1>1 DEF EntryFill, Position
  <2>2. poll' \in PollState
    BY <1>p, <1>1 DEF EntryFill, PollState, PollSteps
  <2> QED
    BY <1>b, <1>1, <2>1, <2>2 DEF EntryFill, TypeOK, NatsSide
<1>2. ASSUME NEW r \in Rows, PollExit(r) PROVE TypeOK'
  <2>1. sell[r] \in SellRow /\ sell[r].eoi \in Attempts
    BY <1>s, <1>2 DEF PollExit, HasId, Working
  <2>2. book[r][sell[r].eoi] \in BookOrder
    BY <2>1 DEF TypeOK
  <2>3. Answer(book[r][sell[r].eoi], sell[r].size) \in {"OPEN", "PARTIAL", "FILLED", "CANCELED"}
    BY DEF Answer
  <2>4. poll' \in PollState
    <3>1. ASSUME NEW a \in {"OPEN", "PARTIAL", "FILLED", "CANCELED"}, NEW f \in Nat,
                 NEW mk \in Markets \union {NoMarket},
                 NEW n1 \in Int, NEW n2 \in Int, NEW n3 \in Int
          PROVE  [poll EXCEPT !.pc = "write", !.mkt = mk, !.row = r, !.st = a, !.filled = f,
                              !.remaining = n1, !.sold = n2, !.working = n3] \in PollState
      BY <1>p DEF PollState, PollSteps
    <3> DEFINE o == sell[r]
               b == book[r][o.eoi]
    <3>2. /\ b.filled \in Nat /\ o.mkt \in Markets \union {NoMarket}
          /\ o.size - b.filled \in Int /\ b.filled - o.filled \in Int
          /\ o.size - b.filled - o.working \in Int
      BY <2>1, <2>2 DEF SellRow, BookOrder
    <3>3. Answer(b, o.size) \in {"OPEN", "PARTIAL", "FILLED", "CANCELED"}
      BY <2>3
    <3>4. poll' = [poll EXCEPT !.pc = "write", !.mkt = o.mkt, !.row = r,
                          !.st = Answer(b, o.size), !.filled = b.filled,
                          !.remaining = o.size - b.filled,
                          !.sold = b.filled - o.filled,
                          !.working = o.size - b.filled - o.working]
      BY <1>2 DEF PollExit
    <3> HIDE DEF o, b
    <3> QED
      BY <3>1, <3>2, <3>3, <3>4
  <2> QED
    BY <1>2, <2>4 DEF PollExit, TypeOK, NatsSide
<1>3. CASE WriteExit
  <2>1. sell' \in [Rows -> SellRow]
    BY <1>s, <1>p, <1>3, StatusFacts DEF WriteExit, SellRow, PollState
  <2>2. poll' \in PollState /\ budget' \in Budget
    BY <1>p, <1>r, <1>3 DEF WriteExit, PollState, PollSteps, TypeOK
  <2> QED
    BY <1>3, <2>1, <2>2 DEF WriteExit, TypeOK, NatsSide
<1>4. CASE SettleExit
  <2>1. held' \in [Markets -> Position]
    BY <1>h, <1>p, <1>4 DEF SettleExit, Position, PollState
  <2>2. [poll EXCEPT !.pc = "notify"] \in PollState
    BY <1>p DEF PollState, PollSteps
  <2>3. poll' \in PollState /\ budget' \in Budget
    BY <1>r, <1>4, <2>2, ConstantTypes DEF SettleExit, TypeOK
  <2> QED
    BY <1>4, <2>1, <2>3 DEF SettleExit, TypeOK, NatsSide
<1>5. CASE RecoverCanceled
  <2>1. sell' \in [Rows -> SellRow]
    BY <1>s, <1>5, WriteType, StatusFacts DEF RecoverCanceled
  <2> QED
    BY <1>b, <1>5, <2>1, ConstantTypes DEF RecoverCanceled, TypeOK, NatsSide
<1>6. CASE Notify
  <2>1. notices' \in [Markets -> Nat]
    BY <1>6 DEF Notify, TypeOK
  <2> QED
    BY <1>b, <1>6, <2>1, ConstantTypes DEF Notify, TypeOK, NatsSide
<1>7. ASSUME NEW r \in Rows, SweepZombie(r) PROVE TypeOK'
  <2>1. sell' \in [Rows -> SellRow]
    BY <1>s, <1>7, WriteType, StatusFacts DEF SweepZombie
  <2> QED
    BY <1>b, <1>7, <2>1 DEF SweepZombie, TypeOK, NatsSide
<1> QED
  BY <1>1, <1>2, <1>3, <1>4, <1>5, <1>6, <1>7 DEF Entry, Executor

LEMMA TypeExchange == TypeOK /\ Exchange => TypeOK'
<1> SUFFICES ASSUME TypeOK, NEW r \in Rows, NEW k \in Attempts, Match(r, k) \/ EndOrder(r, k)
             PROVE  TypeOK'
  BY DEF Exchange
<1>1. book' \in [Rows -> [Attempts -> BookOrder]]
  <2>1. book \in [Rows -> [Attempts -> BookOrder]]
    BY DEF TypeOK
  <2>2. CASE Match(r, k)
    <3> DEFINE b == [st |-> IF book[r][k].filled + 1 = sell[r].size THEN "matched" ELSE "live",
                     filled |-> book[r][k].filled + 1]
    <3>1. book' = [book EXCEPT ![r][k] = b]
      BY <2>2 DEF Match
    <3>2. b \in BookOrder
      BY <2>1 DEF BookOrder
    <3> HIDE DEF b
    <3> QED
      BY <2>1, <3>1, <3>2, BookChange
  <2>3. CASE EndOrder(r, k)
    <3>1. [book[r][k] EXCEPT !.st = "ended"] \in BookOrder
      BY <2>1 DEF BookOrder
    <3> QED
      BY <2>1, <2>3, <3>1 DEF EndOrder
  <2> QED
    BY <2>2, <2>3
<1> QED
  BY <1>1 DEF Match, EndOrder, TypeOK, NatsSide

LEMMA TypeStep == TypeOK /\ HasId /\ [Next]_vars => TypeOK'
<1>1. TypeOK /\ UNCHANGED vars => TypeOK'
  BY DEF vars, TypeOK
<1> QED
  BY <1>1, TypeSnapshot, TypePlace, TypeFill, TypeExecutor, TypeExchange DEF Next, Nats

-----------------------------------------------------------------------------
(* The invariant.                                                          *)

\* The parts of the invariant that a step of the NATS thread which leaves rows,
\* book and the executor alone keeps, as long as no flag and no position moves.
Others == BookInv /\ WorkingInv /\ PollInv

LEMMA Frame ==
    ASSUME Others, UNCHANGED <<sell, book, poll>>,
           \A m \in Markets : (Busy(m)' <=> Busy(m)) /\ Net(m)' = Net(m)
    PROVE  Others' /\ \A m \in Markets : Quiet(m)' <=> Quiet(m)
<1>1. \A r \in Rows : Working(r)' <=> Working(r)
  BY DEF Working
<1>2. BookInv'
  BY DEF Others, BookInv
<1>3. WorkingInv'
  BY <1>1 DEF Others, WorkingInv
<1>4. PollInv'
  BY <1>1 DEF Others, PollInv
<1>5. \A m \in Markets : Quiet(m)' <=> Quiet(m)
  BY <1>1 DEF Quiet
<1> QED
  BY <1>2, <1>3, <1>4, <1>5 DEF Others

\* Nothing of what a step leaves alone can break.
LEMMA KeepsOneLife ==
    ASSUME TypeOK, OneLife, [Next]_vars
    PROVE  OneLife' /\ ~Restart
<1>1. ~Restart
  BY DEF OneLife, Restart
<1>2. ASSUME NEW what \in {"fill", "ack", "notice", "db"}, Spend(what) PROVE budget'.restart = 0
  BY <1>2 DEF OneLife, Spend, TypeOK, Budget
<1>3. budget' = budget \/ \E what \in {"fill", "ack", "notice", "db"} : Spend(what)
  <2>1. CASE Snapshot \/ Fill
    BY <2>1 DEF Snapshot, OnSnapshot, Fill, HearFill, DbError
  <2>2. CASE Nats
    BY <2>2 DEF Nats, PersistPeak, Hold, TriggerExit, PlaceExit, InsertExit, Reserve, MarkSent,
                Submit, RecordOpen, RecordRejected, Release, Refresh, DbError
  <2>3. CASE Entry \/ Executor
    BY <2>3 DEF Entry, EntryFill, Executor, PollExit, WriteExit, SettleExit, RecoverCanceled,
                Notify, SweepZombie, PollRaises, DbError
  <2>4. CASE Exchange
    BY <2>4 DEF Exchange, Match, EndOrder
  <2>5. CASE UNCHANGED vars
    BY <2>5 DEF vars
  <2> QED
    BY <1>1, <2>1, <2>2, <2>3, <2>4, <2>5 DEF Next
<1> QED
  BY <1>1, <1>2, <1>3 DEF OneLife

\* The invariant but for the types and the restarts.
Core == NeverShort /\ Others /\ IndexInv /\ NatsInv

LEMMA InvSnapshot ==
    ASSUME TypeOK, Core, NEW m \in Markets, NEW price \in Prices, OnSnapshot(m, price)
    PROVE  Core'
<1>i. index \in [Markets -> IndexEntry]
  BY DEF TypeOK
<1>1. \A q \in Markets : /\ index'[q].net = index[q].net
                         /\ index'[q].pending = index[q].pending
  BY <1>i DEF OnSnapshot, IndexEntry
<1>2. \A q \in Markets : (Busy(q)' <=> Busy(q)) /\ Net(q)' = Net(q)
  BY <1>1 DEF Busy, Watched, Net, OnSnapshot
<1>3. Others' /\ \A q \in Markets : Quiet(q)' <=> Quiet(q)
  BY <1>2, Frame DEF OnSnapshot, ExecutorSide, Core
<1>4. NeverShort'
  BY DEF Core, NeverShort, OnSnapshot
<1>5. IndexInv'
  BY <1>1, <1>2, <1>3 DEF Core, IndexInv, Watched
<1>6. NatsInv'
  <2>1. nats'.pc \in {"persist", "evaluate"} /\ nats'.mkt = m /\ nats'.net = index[m].net
    BY DEF OnSnapshot, NatsIdle
  <2>2. ~Busy(m) /\ 0 < index[m].net /\ index[m].net <= Net(m)
    BY DEF OnSnapshot, CanExit, Busy, Watched, Core, IndexInv
  <2> QED
    BY <1>2, <2>1, <2>2 DEF NatsInv, Placing
<1> QED
  BY <1>3, <1>4, <1>5, <1>6 DEF Core

LEMMA InvPersistPeak == ASSUME TypeOK, Core, PersistPeak PROVE Core'
<1>h. held \in [Markets -> Position]
  BY DEF TypeOK
<1>1. \A q \in Markets : held'[q].bought = held[q].bought /\ held'[q].sold = held[q].sold
  BY <1>h DEF PersistPeak, Position
<1>2. \A q \in Markets : (Busy(q)' <=> Busy(q)) /\ Net(q)' = Net(q)
  BY <1>1 DEF Busy, Watched, Net, PersistPeak
<1>3. Others' /\ \A q \in Markets : Quiet(q)' <=> Quiet(q)
  BY <1>2, Frame DEF PersistPeak, ExecutorSide, Core
<1>4. NeverShort'
  BY <1>1 DEF Core, NeverShort
<1>5. IndexInv'
  BY <1>2, <1>3 DEF Core, IndexInv, Watched, PersistPeak
<1>6. nats.pc = "persist" /\ nats' = [nats EXCEPT !.pc = "evaluate"] /\ nats \in NatsState
  BY DEF PersistPeak, Goto, TypeOK
<1>7. nats'.pc = "evaluate" /\ nats'.mkt = nats.mkt /\ nats'.net = nats.net
  BY <1>6 DEF NatsState
<1>8. NatsInv'
  BY <1>2, <1>6, <1>7 DEF Core, NatsInv, Placing
<1> QED
  BY <1>3, <1>4, <1>5, <1>8 DEF Core

LEMMA InvHold == ASSUME TypeOK, Core, Hold PROVE Core'
<1>2. \A q \in Markets : (Busy(q)' <=> Busy(q)) /\ Net(q)' = Net(q)
  BY DEF Busy, Watched, Net, Hold
<1>3. Others' /\ \A q \in Markets : Quiet(q)' <=> Quiet(q)
  BY <1>2, Frame DEF Hold, ExecutorSide, Core
<1>4. NeverShort' /\ IndexInv'
  BY <1>2, <1>3 DEF Core, NeverShort, IndexInv, Watched, Hold
<1>5. NatsInv'
  BY DEF Hold, NatsIdle, NatsInv, Placing
<1> QED
  BY <1>3, <1>4, <1>5 DEF Core

\* The flag goes up: nothing works in that market, so nothing is claimed of it.
LEMMA InvTriggerExit == ASSUME TypeOK, Core, TriggerExit PROVE Core'
<1>m. PICK m \in Markets : m = nats.mkt
  BY DEF TriggerExit, Core, NatsInv
<1>1. ~Busy(m) /\ Quiet(m) /\ 0 < nats.net /\ nats.net <= Net(m)
  BY <1>m DEF TriggerExit, Core, NatsInv, IndexInv
<1>2. index \in [Markets -> IndexEntry] /\ nats \in NatsState
  BY DEF TypeOK
<1>3. /\ \A q \in Markets : index'[q].net = index[q].net
      /\ index'[m].pending = TRUE
      /\ \A q \in Markets \ {m} : index'[q] = index[q]
  BY <1>m, <1>2 DEF TriggerExit, IndexEntry
<1>4. Watched(m)
  BY <1>m DEF TriggerExit, CanExit
<1>a. Busy(m)' /\ \A q \in Markets \ {m} : Busy(q)' <=> Busy(q)
  BY <1>1, <1>3, <1>4 DEF Busy, Watched
<1>b. UNCHANGED <<held, sell, book, poll>>
  BY DEF TriggerExit, ExecutorSide
<1>c. /\ \A q \in Markets : Net(q)' = Net(q) /\ (Quiet(q)' <=> Quiet(q))
      /\ \A r \in Rows : Working(r)' <=> Working(r)
  BY <1>b DEF Net, Quiet, Working
<1>5. /\ Busy(m)'
      /\ \A q \in Markets \ {m} : Busy(q)' <=> Busy(q)
      /\ \A q \in Markets : Net(q)' = Net(q) /\ (Busy(q) => Busy(q)')
      /\ \A q \in Markets : Quiet(q)' <=> Quiet(q)
      /\ \A r \in Rows : Working(r)' <=> Working(r)
  BY <1>a, <1>c
<1>6. Others'
  <2>1. BookInv'
    BY DEF Core, Others, BookInv, TriggerExit
  <2>2. WorkingInv'
    BY <1>5 DEF Core, Others, WorkingInv, TriggerExit, ExecutorSide
  <2>3. PollInv'
    BY <1>5 DEF Core, Others, PollInv, TriggerExit, ExecutorSide
  <2> QED
    BY <2>1, <2>2, <2>3 DEF Others
<1>7. NeverShort'
  BY DEF Core, NeverShort, TriggerExit
<1>8. IndexInv'
  BY <1>1, <1>3, <1>5 DEF Core, IndexInv, Watched
<1>9. nats'.pc = "insert" /\ nats'.mkt = m /\ nats'.net = nats.net
  BY <1>m, <1>2 DEF TriggerExit, Goto, NatsState
<1>10. index'[m].net <= Net(m)'
  BY <1>1, <1>3, <1>4, <1>5 DEF Core, IndexInv, Busy
<1>11. NatsInv'
  BY <1>1, <1>5, <1>9, <1>10 DEF NatsInv, Placing
<1> QED
  BY <1>6, <1>7, <1>8, <1>11 DEF Core

LEMMA InvHearFill == ASSUME TypeOK, Core, NEW m \in Markets, HearFill(m) PROVE Core'
<1>1. \A q \in Markets : (Busy(q)' <=> Busy(q)) /\ Net(q)' = Net(q)
  BY DEF Busy, Watched, Net, HearFill
<1>2. Others' /\ \A q \in Markets : Quiet(q)' <=> Quiet(q)
  BY <1>1, Frame DEF HearFill, Core
<1>3. NeverShort' /\ IndexInv'
  BY <1>1, <1>2 DEF Core, NeverShort, IndexInv, Watched, HearFill
<1>4. NatsInv'
  <2>1. CASE UNCHANGED nats
    BY <2>1 DEF NatsInv, HearFill, Placing
  <2>2. CASE nats' = [NatsIdle EXCEPT !.pc = "refresh", !.mkt = m, !.net = Net(m),
                                      !.peak = held[m].peak]
    <3>1. nats'.pc = "refresh" /\ nats'.mkt = m /\ nats'.net = Net(m)
      BY <2>2 DEF NatsIdle
    <3>2. ASSUME Net(m) <= 0 PROVE Quiet(m)
      <4>1. Net(m) \in Int
        BY DEF Net, TypeOK, Position
      <4>2. ASSUME NEW r \in Rows, Working(r), sell[r].mkt = m PROVE FALSE
        <5>1. sell[r].filled < sell[r].size /\ sell[r].size \in Int /\ sell[r].filled \in Int
          BY <4>2 DEF Core, Others, WorkingInv, TypeOK, SellRow
        <5>2. CASE poll.pc = "settle" /\ poll.row = r
          BY <3>2, <4>1, <4>2, <5>2 DEF Core, Others, PollInv
        <5>3. CASE ~(poll.pc = "settle" /\ poll.row = r)
          BY <3>2, <4>1, <4>2, <5>1, <5>3 DEF Core, Others, WorkingInv
        <5> QED
          BY <5>2, <5>3
      <4>3. ~(poll.pc \in {"write", "settle", "recover"} /\ poll.mkt = m)
        BY <3>2, <4>1 DEF Core, Others, PollInv
      <4> QED
        BY <4>2, <4>3 DEF Quiet
    <3>3. Net(m)' = Net(m) /\ Net(m) \in Int
      BY <1>1 DEF Net, TypeOK, Position
    <3> QED
      BY <1>2, <3>1, <3>2, <3>3 DEF NatsInv, Placing
  <2> QED
    BY <2>1, <2>2 DEF HearFill
<1> QED
  BY <1>2, <1>3, <1>4 DEF Core

\* A refresh takes an entry off the index only when nothing of it works, and
\* otherwise leaves its flag as it was.
LEMMA InvRefresh == ASSUME TypeOK, Core, Refresh PROVE Core'
<1>m. PICK m \in Markets : m = nats.mkt
  BY DEF Refresh, Core, NatsInv
<1>1. (nats.net <= 0 => Quiet(m)) /\ (~Busy(m) => nats.net <= Net(m))
  BY <1>m DEF Refresh, Core, NatsInv
<1>2. index \in [Markets -> IndexEntry] /\ nats.net \in Int
  BY DEF TypeOK, NatsState
<1>3. \A q \in Markets \ {m} : index'[q] = index[q]
  BY <1>m, <1>2 DEF Refresh
<1>4. \A q \in Markets : Net(q)' = Net(q) /\ (Quiet(q)' <=> Quiet(q))
  BY DEF Net, Quiet, Working, Refresh, ExecutorSide
<1>5. \A q \in Markets \ {m} : Busy(q)' <=> Busy(q)
  BY <1>3 DEF Busy, Watched
<1>6. CASE nats.net > 0
  <2>1. /\ index'[m].net = nats.net
        /\ Busy(m) => index'[m].pending
        /\ ~Busy(m) => ~index'[m].pending
    BY <1>m, <1>2, <1>6 DEF Refresh, Refreshed, FreshEntry, Watched, Busy, IndexEntry
  <2>2. Busy(m)' <=> Busy(m)
    <3>1. Busy(m)' <=> index'[m].net > 0 /\ index'[m].pending
      BY DEF Busy, Watched, Refresh
    <3> QED
      BY <1>2, <1>6, <2>1, <3>1
  <2>3. Others'
    <3>1. \A q \in Markets : (Busy(q)' <=> Busy(q)) /\ Net(q)' = Net(q)
      BY <1>4, <1>5, <2>2
    <3>2. UNCHANGED <<sell, book, poll>> /\ Others
      BY DEF Core, Refresh, ExecutorSide
    <3> QED
      BY <3>1, <3>2, Frame
  <2>4. NeverShort'
    BY DEF Core, NeverShort, Refresh
  <2>5. IndexInv'
    BY <1>1, <1>2, <1>3, <1>4, <1>5, <2>1, <2>2 DEF Core, IndexInv, Watched, Busy
  <2>6. NatsInv'
    BY DEF Refresh, NatsIdle, NatsInv, Placing
  <2> QED
    BY <2>3, <2>4, <2>5, <2>6 DEF Core
<1>7. CASE ~(nats.net > 0)
  <2>1. index'[m] = NotWatched /\ Quiet(m)
    BY <1>m, <1>1, <1>2, <1>7 DEF Refresh
  <2>2. index'[m].net = 0
    BY <2>1 DEF NotWatched
  <2>3. \A r \in Rows : Working(r) => sell[r].mkt # m
    BY <2>1 DEF Quiet
  <2>4. Others'
    <3>1. BookInv'
      BY DEF Core, Others, BookInv, Refresh
    <3>2. WorkingInv'
      BY <1>4, <1>5, <2>3 DEF Core, Others, WorkingInv, Working, Refresh, ExecutorSide
    <3>3. poll' = poll /\ sell' = sell /\ book' = book
      BY DEF Refresh, ExecutorSide
    <3>4. poll.pc \in {"write", "settle", "recover"} => poll.mkt # m
      BY <2>1 DEF Quiet
    <3>5. PollInv'
      BY <1>4, <1>5, <3>3, <3>4 DEF Core, Others, PollInv, Working
    <3> QED
      BY <3>1, <3>2, <3>5 DEF Others
  <2>5. NeverShort'
    BY DEF Core, NeverShort, Refresh
  <2>6. IndexInv'
    BY <1>1, <1>3, <1>4, <1>5, <2>1, <2>2 DEF Core, IndexInv, Watched
  <2>7. NatsInv'
    BY DEF Refresh, NatsIdle, NatsInv, Placing
  <2> QED
    BY <2>4, <2>5, <2>6, <2>7 DEF Core
<1> QED
  BY <1>6, <1>7

-----------------------------------------------------------------------------
(* place_exit_order: market and row are its own.                           *)

\* A step that changes at most one row, which works neither before nor after and
\* is not being polled, and no flag but that of a quiet market.
LEMMA PlaceFrame ==
    ASSUME Core, poll' = poll, BookInv', NEW r,
           \A q \in Rows : q # r => sell'[q] = sell[q],
           r \in Rows => ~Working(r) /\ ~Working(r)',
           poll.pc \in Polling => poll.row # r,
           \A q \in Rows, k \in Attempts : q # r => book'[q][k] = book[q][k],
           \A m \in Markets : Net(m)' = Net(m) /\ (Busy(m) /\ ~Quiet(m) => Busy(m)')
    PROVE  Others' /\ \A m \in Markets : Quiet(m)' <=> Quiet(m)
<1>1. \A q \in Rows : /\ Working(q)' <=> Working(q)
                      /\ Working(q) => sell'[q] = sell[q] /\ q # r
  BY DEF Working
<1>2. \A m \in Markets : Quiet(m)' <=> Quiet(m)
  BY <1>1 DEF Quiet
<1>3. WorkingInv'
  <2> SUFFICES ASSUME NEW q \in Rows, Working(q)'
               PROVE  (/\ sell[q].mkt \in Markets /\ sell[q].eoi \in Attempts
                       /\ Busy(sell[q].mkt)
                       /\ sell[q].filled < sell[q].size
                       /\ sell[q].filled <= book[q][sell[q].eoi].filled
                       /\ ~(poll.pc = "settle" /\ poll.row = q) =>
                             sell[q].size - sell[q].filled <= Net(sell[q].mkt)
                       /\ \A p \in Rows : Working(p) /\ sell[p].mkt = sell[q].mkt => p = q)'
    BY DEF WorkingInv
  <2>1. Working(q) /\ sell'[q] = sell[q] /\ q # r
    BY <1>1
  <2>2. PICK m \in Markets : m = sell[q].mkt
    BY <2>1 DEF Core, Others, WorkingInv
  <2>3. Busy(m)' /\ Net(m)' = Net(m)
    BY <2>1, <2>2 DEF Core, Others, WorkingInv, Quiet
  <2>4. index'[sell'[q].mkt].net > 0 /\ index'[sell'[q].mkt].pending
    BY <2>1, <2>2, <2>3 DEF Busy, Watched
  <2>5. \A p \in Rows : Working(p)' /\ sell'[p].mkt = sell'[q].mkt => p = q
    BY <1>1, <2>1 DEF Core, Others, WorkingInv
  <2>6. ~(poll.pc = "settle" /\ poll.row = q) => sell[q].size - sell[q].filled <= Net(m)'
    BY <2>1, <2>2, <2>3 DEF Core, Others, WorkingInv
  <2> QED
    BY <2>1, <2>2, <2>4, <2>5, <2>6 DEF Core, Others, WorkingInv, Busy, Watched, Net
<1>4. PollInv'
  <2>1. CASE poll.pc \in Polling
    <3>1. PICK m \in Markets, q \in Rows : m = poll.mkt /\ q = poll.row
      BY <2>1 DEF Polling, Core, Others, PollInv
    <3>2. sell'[q] = sell[q] /\ q # r
      BY <2>1, <3>1
    <3>3. Busy(m)' /\ Net(m)' = Net(m)
      BY <2>1, <3>1 DEF Polling, Core, Others, PollInv, Quiet
    <3>4. Busy(poll.mkt)' /\ Net(poll.mkt)' = Net(m)
      BY <3>1, <3>3 DEF Busy, Watched, Net
    <3>5. \A p \in Rows : Working(p)' /\ sell'[p].mkt = m => p = q
      BY <1>1, <2>1, <3>1 DEF Polling, Core, Others, PollInv
    <3>6. Working(q)' <=> Working(q)
      BY <1>1
    <3>7. \A k \in Attempts : book'[q][k] = book[q][k]
      BY <3>2
    <3> QED
      BY <2>1, <3>1, <3>2, <3>3, <3>4, <3>5, <3>6, <3>7
      DEF Core, Others, PollInv, Polling, WorkingInv
  <2>2. CASE poll.pc \notin Polling
    BY <2>2 DEF Core, Others, PollInv, Polling
  <2> QED
    BY <2>1, <2>2
<1> QED
  BY <1>2, <1>3, <1>4 DEF Others

LEMMA PlaceFacts ==
    ASSUME Core, nats.pc \in Placing
    PROVE  /\ nats.mkt \in Markets /\ Busy(nats.mkt) /\ Quiet(nats.mkt)
           /\ poll.pc \in Polling => poll.mkt # nats.mkt
           /\ nats.pc # "insert" => /\ nats.row \in Rows /\ ~Working(nats.row)
                                    /\ poll.pc \in Polling => poll.row # nats.row
<1>1. nats.mkt \in Markets /\ Busy(nats.mkt) /\ Quiet(nats.mkt)
  BY DEF Core, NatsInv, Placing
<1>2. poll.pc \in Polling => poll.mkt # nats.mkt
  BY <1>1 DEF Quiet, Polling
<1>3. nats.pc # "insert" => nats.row \in Rows /\ ~Working(nats.row)
  BY DEF Core, NatsInv, Placing, Working, WorkingStatus
<1>4. nats.pc # "insert" /\ poll.pc \in Polling => poll.row # nats.row
  BY <1>2 DEF Core, NatsInv, Others, PollInv, Polling
<1> QED
  BY <1>1, <1>2, <1>3, <1>4

\* The flag goes down, and nothing else in the index changes.
LEMMA ResetFacts ==
    ASSUME TypeOK, Core, nats.pc \in Placing, ResetPending
    PROVE  \A m \in Markets :
               /\ index'[m].net = index[m].net
               /\ m # nats.mkt => index'[m] = index[m]
               /\ m = nats.mkt => ~Busy(m)'
               /\ Busy(m) /\ ~Quiet(m) => Busy(m)'
<1> SUFFICES ASSUME NEW m \in Markets
             PROVE  /\ index'[m].net = index[m].net
                    /\ m # nats.mkt => index'[m] = index[m]
                    /\ m = nats.mkt => ~Busy(m)'
                    /\ Busy(m) /\ ~Quiet(m) => Busy(m)'
  OBVIOUS
<1>1. index[m] \in IndexEntry
  BY DEF TypeOK
<1>2. CASE m = nats.mkt
  <2>1. Busy(m) /\ Quiet(m)
    BY <1>2, PlaceFacts
  <2>2. index'[m] = [index[m] EXCEPT !.pending = FALSE]
    BY <1>2, <2>1 DEF ResetPending, Busy
  <2>3. index'[m].net = index[m].net /\ index'[m].pending = FALSE
    BY <1>1, <2>2 DEF IndexEntry
  <2> QED
    BY <1>2, <2>1, <2>3 DEF Busy
<1>3. CASE m # nats.mkt
  <2>1. index'[m] = index[m]
    BY <1>3 DEF ResetPending
  <2> QED
    BY <1>3, <2>1 DEF Busy, Watched
<1> QED
  BY <1>2, <1>3

\* After an exit that was given up the index is in order again.
LEMMA GivenUp ==
    ASSUME TypeOK, Core, nats.pc \in Placing, ResetPending, nats' = NatsIdle,
           \A m \in Markets : Net(m)' = Net(m) /\ (Quiet(m)' <=> Quiet(m))
    PROVE  IndexInv' /\ NatsInv'
<1>1. NatsInv'
  BY DEF NatsIdle, NatsInv, Placing
<1>2. IndexInv'
  <2> SUFFICES ASSUME NEW m \in Markets
               PROVE  /\ ~Busy(m)' => Quiet(m)'
                      /\ Watched(m)' /\ ~index'[m].pending => index'[m].net <= Net(m)'
    BY DEF IndexInv
  <2>1. CASE m = nats.mkt
    BY <2>1, PlaceFacts, ResetFacts DEF Core, NatsInv
  <2>2. CASE m # nats.mkt
    BY <2>2, ResetFacts DEF Core, IndexInv, Busy, Watched
  <2> QED
    BY <2>1, <2>2
<1> QED
  BY <1>1, <1>2

\* The position changes in working_sell alone.
LEMMA SellingOnly ==
    ASSUME TypeOK, NEW m, NEW n, held' = [held EXCEPT ![m].selling = n] \/ held' = held
    PROVE  \A q \in Markets : /\ held'[q].bought = held[q].bought /\ held'[q].sold = held[q].sold
                              /\ Net(q)' = Net(q)
<1>1. held \in [Markets -> Position]
  BY DEF TypeOK
<1>2. \A q \in Markets : held'[q].bought = held[q].bought /\ held'[q].sold = held[q].sold
  BY <1>1 DEF Position
<1> QED
  BY <1>2 DEF Net

LEMMA InvInsertExit == ASSUME TypeOK, Core, InsertExit PROVE Core'
<1>1. nats.pc \in Placing /\ UNCHANGED <<held, book, poll>>
  BY DEF InsertExit, Placing, ExecutorSide
<1>2. NeverShort' /\ \A m \in Markets : Net(m)' = Net(m)
  BY <1>1 DEF Core, NeverShort, Net
<1>3. CASE UNCHANGED sell /\ ResetPending /\ nats' = NatsIdle
  <2>1. BookInv'
    BY <1>1, <1>3 DEF Core, Others, BookInv
  <2>2. Others' /\ \A m \in Markets : Quiet(m)' <=> Quiet(m)
    <3>1. NoRow \notin Rows
      BY DEF NoRow, Rows
    <3>2. poll.pc \in Polling => poll.row # NoRow
      BY <3>1 DEF Core, Others, PollInv, Polling
    <3> QED
      BY <1>1, <1>2, <1>3, <2>1, <3>1, <3>2, ResetFacts, PlaceFrame
  <2> QED
    BY <1>1, <1>2, <1>3, <2>2, GivenUp DEF Core
<1>4. ASSUME NEW r \in Rows, Unused(r), UNCHANGED index,
             sell' = [sell EXCEPT ![r] = [NoOrder EXCEPT
                         !.st = "PENDING", !.mkt = nats.mkt, !.size = nats.net]],
             nats' = [nats EXCEPT !.pc = "reserve", !.row = r]
      PROVE  Core'
  <2>1. sell \in [Rows -> SellRow] /\ nats \in NatsState
    BY DEF TypeOK
  <2>2. /\ sell'[r].st = "PENDING" /\ sell'[r].mkt = nats.mkt /\ sell'[r].size = nats.net
        /\ sell'[r].filled = 0
        /\ \A q \in Rows : q # r => sell'[q] = sell[q]
    BY <1>4, <2>1 DEF NoOrder
  <2>3. /\ nats'.pc = "reserve" /\ nats'.row = r
        /\ nats'.mkt = nats.mkt /\ nats'.net = nats.net
    BY <1>4, <2>1 DEF NatsState
  <2>4. \A k \in Attempts : book[r][k].st = "none" /\ book[r][k].filled = 0
    <3>1. \A k \in Attempts : book[r][k].filled \in Nat
      BY DEF TypeOK, BookOrder
    <3> QED
      BY <1>4, <3>1 DEF Core, Others, BookInv, Unused
  <2>5. 0 < nats.net /\ nats.net \in Int
    BY <1>1, <2>1 DEF Core, NatsInv, NatsState
  <2>6. BookInv'
    BY <1>1, <2>2, <2>4, <2>5 DEF Core, Others, BookInv
  <2>7. ~Working(r) /\ ~Working(r)' /\ (poll.pc \in Polling => poll.row # r)
    BY <1>4, <2>2 DEF Working, WorkingStatus, Unused, Core, Others, PollInv, Polling
  <2>8. \A m \in Markets : Busy(m)' <=> Busy(m)
    BY <1>4 DEF Busy, Watched
  <2>9. Others' /\ \A m \in Markets : Quiet(m)' <=> Quiet(m)
    BY <1>1, <1>2, <2>2, <2>6, <2>7, <2>8, PlaceFrame
  <2>10. IndexInv'
    BY <1>2, <1>4, <2>8, <2>9 DEF Core, IndexInv, Watched
  <2>11. NatsInv'
    <3>1. PICK m \in Markets : m = nats.mkt
      BY <1>1, PlaceFacts
    <3>2. Busy(m)' /\ Quiet(m)' /\ nats.net <= Net(m)' /\ index'[m].net <= Net(m)'
      BY <1>1, <1>2, <1>4, <2>8, <2>9, <3>1 DEF Core, NatsInv
    <3> QED
      BY <1>1, <2>2, <2>3, <2>4, <2>5, <3>1, <3>2 DEF NatsInv, Placing
  <2> QED
    BY <1>2, <2>9, <2>10, <2>11 DEF Core
<1> QED
  BY <1>3, <1>4 DEF InsertExit

\* A step within place_exit_order after the insert, which leaves the index alone.
LEMMA PlaceGoesOn ==
    ASSUME TypeOK, Core, nats.pc \in Placing \ {"insert"}, UNCHANGED index,
           nats'.pc \in Placing \ {"insert"}, nats'.mkt = nats.mkt, nats'.net = nats.net,
           nats'.row = nats.row,
           sell'[nats.row].mkt = sell[nats.row].mkt, sell'[nats.row].size = sell[nats.row].size,
           sell'[nats.row].filled = sell[nats.row].filled,
           sell'[nats.row].st \in {"PENDING", "SENT", "REJECTED"},
           nats'.pc \in {"submit", "ack"} => nats'.try \in Attempts,
           nats'.pc \in {"reserve", "send", "submit"} =>
               \A k \in Attempts : (nats'.pc = "submit" => nats'.try <= k) =>
                   book'[nats.row][k].st = "none" /\ book'[nats.row][k].filled = 0,
           \A m \in Markets : Net(m)' = Net(m) /\ (Quiet(m)' <=> Quiet(m))
    PROVE  IndexInv' /\ NatsInv'
<1>1. \A m \in Markets : Busy(m)' <=> Busy(m)
  BY DEF Busy, Watched
<1>2. IndexInv'
  BY <1>1 DEF Core, IndexInv, Watched
<1>3. PICK m \in Markets : m = nats.mkt
  BY PlaceFacts
<1>4. Busy(m)' /\ Quiet(m)' /\ nats.net <= Net(m)' /\ index'[m].net <= Net(m)'
  BY <1>1, <1>3 DEF Core, NatsInv
<1>5. NatsInv'
  BY <1>3, <1>4 DEF Core, NatsInv, Placing
<1> QED
  BY <1>2, <1>5

\* The row of the exit being placed changes its status alone, if anything.
LEMMA PlaceRow ==
    ASSUME TypeOK, Core, nats.pc \in Placing \ {"insert"}, NEW st \in {"SENT", "REJECTED"},
           UNCHANGED sell \/ Write(nats.row, st)
    PROVE  /\ sell'[nats.row].mkt = sell[nats.row].mkt
           /\ sell'[nats.row].size = sell[nats.row].size
           /\ sell'[nats.row].filled = sell[nats.row].filled
           /\ sell'[nats.row].st \in {"PENDING", "SENT", "REJECTED"}
           /\ \A q \in Rows : q # nats.row => sell'[q] = sell[q]
           /\ \A q \in Rows : sell'[q].size = sell[q].size /\ (sell'[q].st = "none" => sell[q].st = "none")
<1>1. nats.row \in Rows /\ sell[nats.row].st \in {"PENDING", "SENT", "REJECTED"}
  BY DEF Core, NatsInv
<1>2. sell \in [Rows -> SellRow]
  BY DEF TypeOK
<1>3. CASE UNCHANGED sell
  BY <1>1, <1>3
<1>4. CASE Write(nats.row, st)
  BY <1>1, <1>2, <1>4 DEF Write, SellRow
<1> QED
  BY <1>3, <1>4

\* What such a step keeps.
LEMMA PlaceKeeps ==
    ASSUME TypeOK, Core, nats.pc \in Placing \ {"insert"}, NEW st \in {"SENT", "REJECTED"},
           UNCHANGED sell \/ Write(nats.row, st), UNCHANGED <<book, poll>>,
           UNCHANGED index \/ ResetPending,
           \A m \in Markets : Net(m)' = Net(m)
    PROVE  Others' /\ \A m \in Markets : Quiet(m)' <=> Quiet(m)
<1>1. BookInv'
  BY PlaceRow DEF Core, Others, BookInv
<1>2. nats.row \in Rows /\ ~Working(nats.row) /\ (poll.pc \in Polling => poll.row # nats.row)
  BY PlaceFacts
<1>5. PICK r \in Rows : r = nats.row
  BY <1>2
<1>3. ~Working(r)'
  BY <1>5, PlaceRow DEF Working, WorkingStatus
<1>4. \A m \in Markets : Busy(m) /\ ~Quiet(m) => Busy(m)'
  BY ResetFacts DEF Busy, Watched
<1>6. \A q \in Rows : q # r => sell'[q] = sell[q]
  BY <1>5, PlaceRow
<1> QED
  BY <1>1, <1>2, <1>3, <1>4, <1>5, <1>6, PlaceFrame

LEMMA InvReserve == ASSUME TypeOK, Core, Reserve PROVE Core'
<1>1. nats.pc \in Placing \ {"insert"} /\ UNCHANGED <<sell, book, index, poll>>
  BY DEF Reserve, Placing, ExecutorSide
<1>2. \A m \in Markets : /\ held'[m].bought = held[m].bought /\ held'[m].sold = held[m].sold
                         /\ Net(m)' = Net(m)
  BY SellingOnly DEF Reserve
<1>3. NeverShort'
  BY <1>2 DEF Core, NeverShort
<1>4. Others' /\ \A m \in Markets : Quiet(m)' <=> Quiet(m)
  BY <1>1, <1>2, PlaceKeeps
<1>5. /\ nats.pc = "reserve" /\ nats'.pc = "send" /\ nats'.mkt = nats.mkt
      /\ nats'.net = nats.net /\ nats'.row = nats.row
  BY DEF Reserve, Goto, TypeOK, NatsState
<1>6. IndexInv' /\ NatsInv'
  <2>1. sell[nats.row].st \in {"PENDING", "SENT", "REJECTED"}
    BY <1>1 DEF Core, NatsInv
  <2>2. \A k \in Attempts : book[nats.row][k].st = "none" /\ book[nats.row][k].filled = 0
    BY <1>5 DEF Core, NatsInv
  <2>3. nats'.pc \in Placing \ {"insert"}
    BY <1>5 DEF Placing
  <2> QED
    BY <1>1, <1>2, <1>4, <1>5, <2>1, <2>2, <2>3, PlaceGoesOn
<1> QED
  BY <1>3, <1>4, <1>6 DEF Core

LEMMA InvMarkSent == ASSUME TypeOK, Core, MarkSent PROVE Core'
<1>1. /\ nats.pc \in Placing \ {"insert"} /\ UNCHANGED <<held, book, index, poll>>
      /\ UNCHANGED sell \/ Write(nats.row, "SENT")
  BY DEF MarkSent, Placing, ExecutorSide
<1>2. NeverShort' /\ \A m \in Markets : Net(m)' = Net(m)
  BY <1>1 DEF Core, NeverShort, Net
<1>4. Others' /\ \A m \in Markets : Quiet(m)' <=> Quiet(m)
  BY <1>1, <1>2, PlaceKeeps
<1>5. /\ nats.pc = "send" /\ nats'.pc \in {"submit", "reject"} /\ nats'.mkt = nats.mkt
      /\ nats'.net = nats.net /\ nats'.row = nats.row
      /\ nats'.pc = "submit" => nats'.try = 1
  BY DEF MarkSent, Goto, TypeOK, NatsState
<1>6. IndexInv' /\ NatsInv'
  <2>1. \A k \in Attempts : book[nats.row][k].st = "none" /\ book[nats.row][k].filled = 0
    BY <1>5 DEF Core, NatsInv
  <2>2. nats'.pc \in Placing \ {"insert"} /\ 1 \in Attempts
    BY <1>5, ExitAssumption DEF Placing, Attempts
  <2>3. /\ sell'[nats.row].mkt = sell[nats.row].mkt
        /\ sell'[nats.row].size = sell[nats.row].size
        /\ sell'[nats.row].filled = sell[nats.row].filled
        /\ sell'[nats.row].st \in {"PENDING", "SENT", "REJECTED"}
    BY <1>1, PlaceRow
  <2> QED
    BY <1>1, <1>2, <1>4, <1>5, <2>1, <2>2, <2>3, PlaceGoesOn
<1> QED
  BY <1>2, <1>4, <1>6 DEF Core

LEMMA InvRecordRejected == ASSUME TypeOK, Core, RecordRejected PROVE Core'
<1>1. /\ nats.pc \in Placing \ {"insert"} /\ UNCHANGED <<held, book, poll>>
      /\ UNCHANGED index \/ ResetPending
      /\ UNCHANGED sell \/ Write(nats.row, "REJECTED")
  BY DEF RecordRejected, Placing, ExecutorSide
<1>2. NeverShort' /\ \A m \in Markets : Net(m)' = Net(m)
  BY <1>1 DEF Core, NeverShort, Net
<1>4. Others' /\ \A m \in Markets : Quiet(m)' <=> Quiet(m)
  BY <1>1, <1>2, PlaceKeeps
<1>5. CASE ResetPending /\ nats' = NatsIdle
  BY <1>1, <1>2, <1>4, <1>5, GivenUp DEF Core
<1>6. CASE Goto("release") /\ UNCHANGED index
  <2>1. /\ nats'.pc = "release" /\ nats'.mkt = nats.mkt
        /\ nats'.net = nats.net /\ nats'.row = nats.row
    BY <1>6 DEF Goto, TypeOK, NatsState
  <2>2. nats'.pc \in Placing \ {"insert"}
    BY <2>1 DEF Placing
  <2>3. /\ sell'[nats.row].mkt = sell[nats.row].mkt
        /\ sell'[nats.row].size = sell[nats.row].size
        /\ sell'[nats.row].filled = sell[nats.row].filled
        /\ sell'[nats.row].st \in {"PENDING", "SENT", "REJECTED"}
    BY <1>1, PlaceRow
  <2>4. IndexInv' /\ NatsInv'
    BY <1>1, <1>2, <1>4, <1>6, <2>1, <2>2, <2>3, PlaceGoesOn
  <2> QED
    BY <1>2, <1>4, <2>4 DEF Core
<1> QED
  BY <1>5, <1>6 DEF RecordRejected

LEMMA InvRelease == ASSUME TypeOK, Core, Release PROVE Core'
<1>1. /\ nats.pc \in Placing \ {"insert"} /\ UNCHANGED <<sell, book, poll>>
      /\ ResetPending /\ nats' = NatsIdle
  BY DEF Release, Placing, ExecutorSide
<1>2. \A m \in Markets : /\ held'[m].bought = held[m].bought /\ held'[m].sold = held[m].sold
                         /\ Net(m)' = Net(m)
  BY SellingOnly DEF Release
<1>3. NeverShort'
  BY <1>2 DEF Core, NeverShort
<1>4. Others' /\ \A m \in Markets : Quiet(m)' <=> Quiet(m)
  BY <1>1, <1>2, PlaceKeeps
<1> QED
  BY <1>1, <1>2, <1>3, <1>4, GivenUp DEF Core

\* The attempts after this one have not been made yet.
LEMMA InvSubmit == ASSUME TypeOK, Core, Submit PROVE Core'
<1>1. /\ nats.pc = "submit" /\ nats.pc \in Placing \ {"insert"}
      /\ UNCHANGED <<held, sell, index, poll>>
  BY DEF Submit, Placing, ExecutorSide
<1>2. NeverShort' /\ \A m \in Markets : Net(m)' = Net(m)
  BY <1>1 DEF Core, NeverShort, Net
<1>3. PICK r \in Rows, t \in Attempts : r = nats.row /\ t = nats.try
  BY <1>1 DEF Core, NatsInv
<1>4. /\ sell[r].size > 0 /\ sell[r].st \in {"PENDING", "SENT", "REJECTED"}
      /\ \A k \in Attempts : t <= k => book[r][k].st = "none" /\ book[r][k].filled = 0
  BY <1>1, <1>3 DEF Core, NatsInv
<1>5. t \in Int /\ t <= t
  BY DEF Attempts
<1>6. /\ \A q \in Rows, k \in Attempts : q # r \/ k # t => book'[q][k] = book[q][k]
      /\ book'[r][t].filled = 0
  <2>1. book \in [Rows -> [Attempts -> BookOrder]] /\ book[r][t].filled = 0
    BY <1>4, <1>5 DEF TypeOK
  <2>2. CASE UNCHANGED book
    BY <2>1, <2>2
  <2>3. CASE book' = [book EXCEPT ![r][t].st = "live"]
    BY <2>1, <2>3 DEF BookOrder
  <2> QED
    BY <1>3, <2>2, <2>3 DEF Submit
<1>7. BookInv'
  <2> SUFFICES ASSUME NEW q \in Rows, NEW k \in Attempts
               PROVE  (/\ book[q][k].filled <= sell[q].size
                       /\ book[q][k].st = "live" => book[q][k].filled < sell[q].size
                       /\ sell[q].st = "none" => sell[q].size = 0 /\ book[q][k].st = "none")'
    BY DEF BookInv
  <2>1. CASE q = r /\ k = t
    <3>1. sell[r].size \in Int
      BY DEF TypeOK, SellRow
    <3> QED
      BY <1>1, <1>4, <1>6, <2>1, <3>1
  <2>2. CASE ~(q = r /\ k = t)
    BY <1>1, <1>6, <2>2 DEF Core, Others, BookInv
  <2> QED
    BY <2>1, <2>2
<1>8. Others' /\ \A m \in Markets : Quiet(m)' <=> Quiet(m)
  <2>1. ~Working(r) /\ (poll.pc \in Polling => poll.row # r)
    BY <1>1, <1>3, PlaceFacts
  <2>2. ~Working(r)' /\ \A m \in Markets : Busy(m)' <=> Busy(m)
    BY <1>1, <2>1 DEF Working, Busy, Watched
  <2> QED
    BY <1>1, <1>2, <1>6, <1>7, <2>1, <2>2, PlaceFrame
<1>9. /\ nats'.pc \in {"ack", "submit", "reject"} /\ nats'.mkt = nats.mkt
      /\ nats'.net = nats.net /\ nats'.row = nats.row
      /\ nats'.pc = "ack" => nats'.try = t
      /\ nats'.pc = "submit" => nats'.try = t + 1 /\ t < MaxRetries
  <2>1. nats \in NatsState
    BY DEF TypeOK
  <2>2. CASE Goto("ack") \/ Goto("reject")
    BY <1>3, <2>1, <2>2 DEF Goto, NatsState
  <2>3. CASE RetryOrGiveUp
    BY <1>1, <1>3, <2>1, <2>3 DEF RetryOrGiveUp, NatsState
  <2> QED
    BY <2>2, <2>3 DEF Submit
<1>10. nats'.pc = "submit" => nats'.try \in Attempts
  BY <1>5, <1>9, ExitAssumption DEF Attempts
<1>11. nats'.pc = "submit" =>
          \A k \in Attempts : nats'.try <= k => book'[r][k].st = "none" /\ book'[r][k].filled = 0
  <2> SUFFICES ASSUME nats'.pc = "submit", NEW k \in Attempts, nats'.try <= k
               PROVE  book'[r][k].st = "none" /\ book'[r][k].filled = 0
    OBVIOUS
  <2>1. t <= k /\ k # t
    BY <1>9 DEF Attempts
  <2> QED
    BY <1>4, <1>6, <2>1
<1>12. IndexInv' /\ NatsInv'
  <2>1. nats'.pc \in Placing \ {"insert"}
    BY <1>9 DEF Placing
  <2>2. nats'.pc \in {"submit", "ack"} => nats'.try \in Attempts
    BY <1>9, <1>10
  <2>3. nats'.pc \in {"reserve", "send", "submit"} =>
            \A k \in Attempts : (nats'.pc = "submit" => nats'.try <= k) =>
                book'[nats.row][k].st = "none" /\ book'[nats.row][k].filled = 0
    BY <1>3, <1>9, <1>11
  <2> QED
    BY <1>1, <1>2, <1>3, <1>4, <1>8, <1>9, <2>1, <2>2, <2>3, PlaceGoesOn
<1> QED
  BY <1>2, <1>8, <1>12 DEF Core

\* The exit begins to work: it is the only one, and what it may sell is held.
LEMMA InvRecordOpen == ASSUME TypeOK, Core, RecordOpen PROVE Core'
<1>1. /\ nats.pc = "ack" /\ nats.pc \in Placing \ {"insert"}
      /\ UNCHANGED <<held, book, index, poll>>
  BY DEF RecordOpen, Placing, ExecutorSide
<1>2. NeverShort' /\ \A m \in Markets : Net(m)' = Net(m)
  BY <1>1 DEF Core, NeverShort, Net
<1>3. CASE Goto("reject") /\ UNCHANGED sell
  <2>1. Others' /\ \A m \in Markets : Quiet(m)' <=> Quiet(m)
    BY <1>1, <1>2, <1>3, PlaceKeeps
  <2>2. /\ nats'.pc = "reject" /\ nats'.mkt = nats.mkt
        /\ nats'.net = nats.net /\ nats'.row = nats.row
    BY <1>3 DEF Goto, TypeOK, NatsState
  <2>3. nats'.pc \in Placing \ {"insert"}
    BY <2>2 DEF Placing
  <2>4. sell[nats.row].st \in {"PENDING", "SENT", "REJECTED"}
    BY <1>1 DEF Core, NatsInv
  <2>5. IndexInv' /\ NatsInv'
    BY <1>1, <1>2, <1>3, <2>1, <2>2, <2>3, <2>4, PlaceGoesOn
  <2> QED
    BY <1>2, <2>1, <2>5 DEF Core
<1>4. CASE /\ sell' = [sell EXCEPT ![nats.row].st = "OPEN", ![nats.row].eoi = nats.try,
                                  ![nats.row].working = nats.net]
           /\ nats' = NatsIdle
  <2>1. PICK r \in Rows, t \in Attempts, m \in Markets :
            r = nats.row /\ t = nats.try /\ m = nats.mkt
    BY <1>1, PlaceFacts DEF Core, NatsInv
  <2>2. /\ Busy(m) /\ Quiet(m) /\ 0 < nats.net /\ nats.net <= Net(m)
        /\ sell[r].mkt = m /\ sell[r].size = nats.net /\ sell[r].filled = 0
        /\ sell[r].st \in {"PENDING", "SENT", "REJECTED"}
    BY <1>1, <2>1 DEF Core, NatsInv
  <2>3. /\ \A q \in Rows : q # r => sell'[q] = sell[q]
        /\ sell'[r].st = "OPEN" /\ sell'[r].eoi = t /\ sell'[r].mkt = m
        /\ sell'[r].size = nats.net /\ sell'[r].filled = 0
    <3>1. sell \in [Rows -> SellRow]
      BY DEF TypeOK
    <3> QED
      BY <1>4, <2>1, <2>2, <3>1 DEF SellRow
  <2>4. BookInv'
    BY <1>1, <2>2, <2>3 DEF Core, Others, BookInv
  <2>5. /\ \A q \in Rows : q # r => (Working(q)' <=> Working(q))
        /\ Working(r)' /\ ~Working(r)
    BY <2>2, <2>3 DEF Working, WorkingStatus
  <2>6. \A q \in Rows : Working(q) => sell[q].mkt # m
    BY <2>2 DEF Quiet
  <2>7. \A q \in Markets : Busy(q)' <=> Busy(q)
    BY <1>1 DEF Busy, Watched
  <2>8. \A q \in Markets : q # m => (Quiet(q)' <=> Quiet(q))
    BY <1>1, <2>3, <2>5 DEF Quiet
  <2>9. WorkingInv'
    <3> SUFFICES ASSUME NEW q \in Rows, Working(q)'
                 PROVE  (/\ sell[q].mkt \in Markets /\ sell[q].eoi \in Attempts
                         /\ Busy(sell[q].mkt)
                         /\ sell[q].filled < sell[q].size
                         /\ sell[q].filled <= book[q][sell[q].eoi].filled
                         /\ ~(poll.pc = "settle" /\ poll.row = q) =>
                               sell[q].size - sell[q].filled <= Net(sell[q].mkt)
                         /\ \A p \in Rows : Working(p) /\ sell[p].mkt = sell[q].mkt => p = q)'
      BY DEF WorkingInv
    <3>1. CASE q = r
      <4>1. book[r][t].filled \in Nat /\ nats.net \in Int /\ Net(m) \in Int
        BY DEF TypeOK, BookOrder, NatsState, Net, Position
      <4>2. \A p \in Rows : Working(p)' /\ sell'[p].mkt = m => p = r
        BY <2>3, <2>5, <2>6
      <4>3. Busy(m)' /\ Net(m)' = Net(m)
        BY <1>2, <2>2, <2>7
      <4>4. Busy(sell[q].mkt)' /\ Net(sell[q].mkt)' = Net(m)
        BY <2>3, <3>1, <4>3 DEF Busy, Watched, Net
      <4> QED
        BY <1>1, <2>2, <2>3, <3>1, <4>1, <4>2, <4>4
    <3>2. CASE q # r
      <4>1. Working(q) /\ sell'[q] = sell[q]
        BY <2>3, <2>5, <3>2
      <4>2. PICK n \in Markets : n = sell[q].mkt /\ n # m
        BY <2>6, <4>1 DEF Core, Others, WorkingInv
      <4>3. Busy(n)' /\ Net(n)' = Net(n)
        BY <1>2, <2>7, <4>1, <4>2 DEF Core, Others, WorkingInv
      <4>4. Busy(sell[q].mkt)' /\ Net(sell[q].mkt)' = Net(n)
        BY <4>1, <4>2, <4>3 DEF Busy, Watched, Net
      <4>5. \A p \in Rows : Working(p)' /\ sell'[p].mkt = n => p = q
        BY <2>3, <2>5, <4>1, <4>2 DEF Core, Others, WorkingInv
      <4> QED
        BY <1>1, <4>1, <4>2, <4>4, <4>5 DEF Core, Others, WorkingInv
    <3> QED
      BY <3>1, <3>2
  <2>10. PollInv'
    <3>1. CASE poll.pc \in Polling
      <4>1. PICK n \in Markets, q \in Rows : n = poll.mkt /\ q = poll.row
        BY <3>1 DEF Polling, Core, Others, PollInv
      <4>2. n # m /\ q # r
        BY <1>1, <2>1, <3>1, <4>1, PlaceFacts
      <4>3. Busy(n)' /\ Net(n)' = Net(n)
        BY <1>2, <2>7, <3>1, <4>1 DEF Polling, Core, Others, PollInv
      <4>4. Busy(poll.mkt)' /\ Net(poll.mkt)' = Net(n)
        BY <1>1, <4>1, <4>3 DEF Busy, Watched, Net
      <4>5. \A p \in Rows : Working(p)' /\ sell'[p].mkt = n => p = q
        BY <2>3, <2>5, <3>1, <4>1, <4>2 DEF Polling, Core, Others, PollInv
      <4>6. sell'[q] = sell[q] /\ (Working(q)' <=> Working(q))
        BY <2>3, <2>5, <4>2
      <4> QED
        BY <1>1, <3>1, <4>1, <4>4, <4>5, <4>6 DEF Core, Others, PollInv, Polling
    <3>2. CASE poll.pc \notin Polling
      BY <1>1, <3>2 DEF Core, Others, PollInv, Polling
    <3> QED
      BY <3>1, <3>2
  <2>11. IndexInv'
    <3> SUFFICES ASSUME NEW q \in Markets
                 PROVE  /\ ~Busy(q)' => Quiet(q)'
                        /\ Watched(q)' /\ ~index'[q].pending => index'[q].net <= Net(q)'
      BY DEF IndexInv
    <3>1. ~Busy(q)' => q # m
      BY <2>2, <2>7
    <3> QED
      BY <1>1, <1>2, <2>7, <2>8, <3>1 DEF Core, IndexInv, Watched
  <2>12. NatsInv'
    BY <1>4 DEF NatsIdle, NatsInv, Placing
  <2> QED
    BY <1>2, <2>4, <2>9, <2>10, <2>11, <2>12 DEF Core, Others
<1> QED
  BY <1>3, <1>4 DEF RecordOpen

-----------------------------------------------------------------------------
(* The executor and the exchange: index and NATS thread stand still.       *)

\* The executor takes shares only from markets whose flag is up and where an exit
\* works, and leaves the row alone that is being placed.
LEMMA OtherSide ==
    ASSUME TypeOK, Core, UNCHANGED <<index, nats>>,
           \A m \in Markets : /\ Net(m)' \in Int
                              /\ Quiet(m) => Quiet(m)'
                              /\ ~Busy(m) \/ Quiet(m) => Net(m) <= Net(m)',
           nats.pc \in Placing \ {"insert"} => sell'[nats.row] = sell[nats.row],
           nats.pc \in {"reserve", "send", "submit"} =>
               \A k \in Attempts : book[nats.row][k].st = "none" =>
                   book'[nats.row][k] = book[nats.row][k]
    PROVE  IndexInv' /\ NatsInv'
<1>1. \A m \in Markets : (Busy(m)' <=> Busy(m)) /\ Net(m) \in Int /\ index[m].net \in Int
  BY DEF Busy, Watched, Net, TypeOK, Position, IndexEntry
<1>2. IndexInv'
  <2> SUFFICES ASSUME NEW m \in Markets
               PROVE  /\ ~Busy(m)' => Quiet(m)'
                      /\ Watched(m)' /\ ~index'[m].pending => index'[m].net <= Net(m)'
    BY DEF IndexInv
  <2>1. ~Busy(m)' => Quiet(m)'
    BY <1>1 DEF Core, IndexInv
  <2>2. ASSUME Watched(m)', ~index'[m].pending PROVE index'[m].net <= Net(m)'
    <3>1. index[m].net <= Net(m) /\ ~Busy(m)
      BY <2>2 DEF Core, IndexInv, Busy, Watched
    <3>2. Net(m) <= Net(m)'
      BY <3>1
    <3> QED
      BY <1>1, <3>1, <3>2
  <2> QED
    BY <2>1, <2>2
<1>3. NatsInv'
  <2>1. CASE nats.pc = "idle"
    BY <2>1 DEF NatsInv, Placing
  <2>2. CASE nats.pc # "idle"
    <3>1. PICK m \in Markets : m = nats.mkt
      BY <2>2 DEF Core, NatsInv
    <3>2. nats.net \in Int
      BY DEF TypeOK, NatsState
    <3>3. nats.pc \in {"persist", "evaluate"} =>
              ~Busy(m)' /\ 0 < nats.net /\ nats.net <= Net(m)'
      BY <1>1, <3>1, <3>2 DEF Core, NatsInv
    <3>4. nats.pc \in Placing =>
              /\ Busy(m)' /\ Quiet(m)' /\ index[m].net <= Net(m)'
              /\ 0 < nats.net /\ nats.net <= Net(m)'
      BY <1>1, <3>1, <3>2 DEF Core, NatsInv
    <3>5. nats.pc = "refresh" => /\ nats.net <= 0 => Quiet(m)'
                                 /\ ~Busy(m)' => nats.net <= Net(m)'
      BY <1>1, <3>1, <3>2 DEF Core, NatsInv
    <3>6. nats.pc \in {"reserve", "send", "submit"} =>
              \A k \in Attempts : (nats.pc = "submit" => nats.try <= k) =>
                  book'[nats.row][k].st = "none" /\ book'[nats.row][k].filled = 0
      BY DEF Core, NatsInv
    <3> QED
      BY <3>1, <3>3, <3>4, <3>5, <3>6 DEF Core, NatsInv
  <2> QED
    BY <2>1, <2>2
<1> QED
  BY <1>2, <1>3

LEMMA NetInt == TypeOK => \A m \in Markets : Net(m) \in Int /\ held[m].bought \in Int /\ held[m].sold \in Int
BY DEF TypeOK, Net, Position

LEMMA InvEntryFill ==
    ASSUME TypeOK, Core, NEW m \in Markets, NEW complete \in BOOLEAN, EntryFill(m, complete)
    PROVE  Core'
<1>1. UNCHANGED <<sell, book, index, nats>> /\ poll.pc = "idle" /\ poll'.pc \in {"idle", "notify"}
      /\ (poll'.pc = "notify" => poll'.mkt \in Markets)
  BY DEF EntryFill, NatsSide, TypeOK, PollState
<1>2. \A q \in Markets : /\ held'[q].sold = held[q].sold
                         /\ held'[q].bought = held[q].bought \/ held'[q].bought = held[q].bought + 1
  BY DEF EntryFill, TypeOK, Position
<1>3. \A q \in Markets : Net(q)' \in Int /\ Net(q) <= Net(q)'
  BY <1>2, NetInt DEF Net
<1>4. NeverShort'
  BY <1>2, NetInt DEF Core, NeverShort
<1>5. /\ \A q \in Rows : Working(q)' <=> Working(q)
      /\ \A q \in Markets : (Busy(q)' <=> Busy(q)) /\ (Quiet(q) => Quiet(q)')
  BY <1>1 DEF Working, Busy, Watched, Quiet
<1>6. BookInv' /\ PollInv'
  BY <1>1, <1>5 DEF Core, Others, BookInv, PollInv
<1>7. WorkingInv'
  <2> SUFFICES ASSUME NEW q \in Rows, Working(q)
               PROVE  sell[q].size - sell[q].filled <= Net(sell[q].mkt)'
    BY <1>1, <1>5 DEF Core, Others, WorkingInv
  <2>1. PICK n \in Markets : n = sell[q].mkt /\ sell[q].size - sell[q].filled <= Net(n)
    BY <1>1 DEF Core, Others, WorkingInv
  <2>2. sell[q].size - sell[q].filled \in Int /\ Net(n) \in Int
    BY NetInt DEF TypeOK, SellRow
  <2>3. sell[q].size - sell[q].filled <= Net(n)'
    BY <1>3, <2>1, <2>2
  <2> QED
    BY <1>1, <2>1, <2>3 DEF Net
<1>8. IndexInv' /\ NatsInv'
  BY <1>1, <1>3, <1>5, OtherSide
<1> QED
  BY <1>4, <1>6, <1>7, <1>8 DEF Core, Others

LEMMA InvPollExit == ASSUME TypeOK, Core, NEW r \in Rows, PollExit(r) PROVE Core'
<1>1. /\ UNCHANGED <<held, sell, book, index, nats>>
      /\ poll.pc = "idle" /\ Working(r)
  BY DEF PollExit, NatsSide, Working
<1>2. PICK m \in Markets, k \in Attempts : m = sell[r].mkt /\ k = sell[r].eoi
  BY <1>1 DEF Core, Others, WorkingInv
<1>3. /\ poll'.pc = "write" /\ poll'.row = r /\ poll'.mkt = m
      /\ poll'.st = Answer(book[r][k], sell[r].size)
      /\ poll'.filled = book[r][k].filled
      /\ poll'.sold = book[r][k].filled - sell[r].filled
  BY <1>2 DEF PollExit, TypeOK, PollState
<1>4. /\ Busy(m) /\ sell[r].filled < sell[r].size /\ sell[r].filled <= book[r][k].filled
      /\ sell[r].size - sell[r].filled <= Net(m)
      /\ \A q \in Rows : Working(q) /\ sell[q].mkt = m => q = r
  BY <1>1, <1>2 DEF Core, Others, WorkingInv
<1>5. Net(m) > 0
  BY <1>4, NetInt DEF TypeOK, SellRow
<1>6. poll'.st \in WorkingStatus => book[r][k].filled < sell[r].size
  <2>1. book[r][k].filled <= sell[r].size /\ book[r][k].filled \in Int /\ sell[r].size \in Int
    BY DEF Core, Others, BookInv, TypeOK, BookOrder, SellRow
  <2>2. poll'.st \in WorkingStatus => book[r][k].filled # sell[r].size
    BY <1>3 DEF Answer, WorkingStatus
  <2> QED
    BY <2>1, <2>2
<1>7. /\ \A q \in Rows : Working(q)' <=> Working(q)
      /\ \A q \in Markets : (Busy(q)' <=> Busy(q)) /\ Net(q)' = Net(q)
  BY <1>1 DEF Working, Busy, Watched, Net
<1>8. \A q \in Markets : Quiet(q) => Quiet(q)'
  BY <1>1, <1>2, <1>3, <1>7 DEF Quiet
<1>9. NeverShort' /\ BookInv'
  BY <1>1 DEF Core, Others, NeverShort, BookInv
<1>10. WorkingInv'
  BY <1>1, <1>7 DEF Core, Others, WorkingInv
<1>11. PollInv'
  <2>1. sell[r].st \notin {"PENDING", "SENT", "none"}
    BY <1>1 DEF Working, WorkingStatus
  <2>2. Busy(poll.mkt)' /\ Net(poll.mkt)' = Net(m)
    BY <1>1, <1>3, <1>4 DEF Busy, Watched, Net
  <2>3. book[r][k].filled \in Int
    BY DEF TypeOK, BookOrder
  <2> QED
    BY <1>1, <1>2, <1>3, <1>4, <1>5, <1>6, <1>7, <2>1, <2>2, <2>3 DEF PollInv
<1>12. IndexInv' /\ NatsInv'
  BY <1>1, <1>7, <1>8, NetInt, OtherSide
<1> QED
  BY <1>9, <1>10, <1>11, <1>12 DEF Core, Others

\* A failed statement: the executor lets go, or goes on to close the row.
LEMMA InvPollRaises ==
    ASSUME TypeOK, Core, PollRaises, poll.pc \in {"write", "settle"},
           UNCHANGED <<held, sell, book, index, nats>>
    PROVE  Core'
<1>1. PICK m \in Markets, r \in Rows : m = poll.mkt /\ r = poll.row
  BY DEF Core, Others, PollInv
<1>2. poll' = PollIdle \/ (poll'.pc = "recover" /\ poll'.mkt = m /\ poll'.row = r)
  BY <1>1 DEF PollRaises, TypeOK, PollState
<1>3. PollIdle.pc = "idle"
  BY DEF PollIdle
<1>4. /\ \A q \in Rows : Working(q)' <=> Working(q)
      /\ \A q \in Markets : (Busy(q)' <=> Busy(q)) /\ Net(q)' = Net(q)
  BY DEF Working, Busy, Watched, Net
<1>5. \A q \in Markets : Quiet(q) => Quiet(q)'
  BY <1>1, <1>2, <1>3, <1>4 DEF Quiet
<1>6. NeverShort' /\ BookInv'
  BY DEF Core, Others, NeverShort, BookInv
<1>7. WorkingInv'
  <2>1. ASSUME Working(r), poll.pc = "settle"
        PROVE  sell[r].size - sell[r].filled <= Net(m)
    <3>1. 0 <= poll.sold /\ poll.sold + (sell[r].size - sell[r].filled) <= Net(m)
      BY <1>1, <2>1 DEF Core, Others, PollInv
    <3> QED
      BY <3>1, NetInt DEF TypeOK, SellRow, PollState
  <2>2. \A q \in Rows : Working(q) => sell[q].size - sell[q].filled <= Net(sell[q].mkt)
    <3>1. Working(r) => sell[r].mkt = m
      BY <1>1 DEF Core, Others, PollInv
    <3> QED
      BY <1>1, <2>1, <3>1 DEF Core, Others, WorkingInv
  <2> QED
    BY <1>4, <2>2 DEF Core, Others, WorkingInv
<1>8. PollInv'
  <2>1. CASE poll' = PollIdle
    BY <1>3, <2>1 DEF PollInv
  <2>2. CASE poll'.pc = "recover" /\ poll'.mkt = m /\ poll'.row = r
    <3>1. Busy(poll.mkt)' /\ Net(poll.mkt)' = Net(m)
      BY <1>1, <2>2 DEF Busy, Watched, Net, Core, Others, PollInv
    <3> QED
      BY <1>1, <1>4, <2>2, <3>1 DEF Core, Others, PollInv
  <2> QED
    BY <1>2, <2>1, <2>2
<1>9. IndexInv' /\ NatsInv'
  BY <1>4, <1>5, NetInt, OtherSide
<1> QED
  BY <1>6, <1>7, <1>8, <1>9 DEF Core, Others

\* The row being placed is not the one being polled.
LEMMA PollRowApart ==
    ASSUME Core, poll.pc \in Polling, nats.pc \in Placing \ {"insert"}
    PROVE  nats.row # poll.row
BY PlaceFacts

LEMMA InvWriteExit == ASSUME TypeOK, Core, WriteExit PROVE Core'
<1>1. poll.pc = "write" /\ UNCHANGED <<held, book, index, nats>>
  BY DEF WriteExit, NatsSide
<1>2. CASE PollRaises /\ UNCHANGED sell
  BY <1>1, <1>2, InvPollRaises
<1>3. CASE /\ sell' = [sell EXCEPT ![poll.row].st = poll.st, ![poll.row].filled = poll.filled,
                                  ![poll.row].working = poll.remaining]
           /\ poll' = [poll EXCEPT !.pc = "settle"]
  <2>1. PICK m \in Markets, r \in Rows : m = poll.mkt /\ r = poll.row
    BY <1>1 DEF Core, Others, PollInv
  <2>2. /\ Busy(m) /\ Net(m) > 0 /\ sell[r].mkt = m /\ Working(r)
        /\ poll.sold = poll.filled - sell[r].filled /\ sell[r].filled <= poll.filled
        /\ poll.filled <= book[r][sell[r].eoi].filled
        /\ poll.st \in WorkingStatus => poll.filled < sell[r].size
        /\ \A q \in Rows : Working(q) /\ sell[q].mkt = m => q = r
    BY <1>1, <2>1 DEF Core, Others, PollInv
  <2>3. /\ sell[r].eoi \in Attempts /\ sell[r].size - sell[r].filled <= Net(m)
    BY <1>1, <2>2 DEF Core, Others, WorkingInv
  <2>4. /\ \A q \in Rows : q # r => sell'[q] = sell[q]
        /\ sell'[r].st = poll.st /\ sell'[r].filled = poll.filled /\ sell'[r].mkt = m
        /\ sell'[r].size = sell[r].size /\ sell'[r].eoi = sell[r].eoi
    <3>1. sell \in [Rows -> SellRow]
      BY DEF TypeOK
    <3> QED
      BY <1>3, <2>1, <2>2, <3>1 DEF SellRow
  <2>5. /\ poll'.pc = "settle" /\ poll'.mkt = m /\ poll'.row = r /\ poll'.sold = poll.sold
        /\ poll.st \notin {"PENDING", "SENT", "none"}
    BY <1>3, <2>1 DEF TypeOK, PollState
  <2>6. /\ \A q \in Rows : q # r => (Working(q)' <=> Working(q))
        /\ \A q \in Markets : (Busy(q)' <=> Busy(q)) /\ Net(q)' = Net(q)
    BY <1>1, <2>4 DEF Working, Busy, Watched, Net
  <2>7. \A q \in Markets : Quiet(q) => Quiet(q)'
    BY <1>1, <2>1, <2>2, <2>4, <2>5, <2>6 DEF Quiet
  <2>8. NeverShort'
    BY <1>1 DEF Core, NeverShort
  <2>9. BookInv'
    BY <1>1, <2>4, <2>5 DEF Core, Others, BookInv
  <2>10. WorkingInv'
    <3> SUFFICES ASSUME NEW q \in Rows, Working(q)'
                 PROVE  (/\ sell[q].mkt \in Markets /\ sell[q].eoi \in Attempts
                         /\ Busy(sell[q].mkt)
                         /\ sell[q].filled < sell[q].size
                         /\ sell[q].filled <= book[q][sell[q].eoi].filled
                         /\ ~(poll.pc = "settle" /\ poll.row = q) =>
                               sell[q].size - sell[q].filled <= Net(sell[q].mkt)
                         /\ \A p \in Rows : Working(p) /\ sell[p].mkt = sell[q].mkt => p = q)'
      BY DEF WorkingInv
    <3>1. CASE q = r
      <4>1. poll.st \in WorkingStatus
        BY <2>4, <3>1 DEF Working
      <4>2. Busy(sell[q].mkt)'
        BY <1>1, <2>2, <2>4, <3>1 DEF Busy, Watched
      <4>3. \A p \in Rows : Working(p)' /\ sell'[p].mkt = m => p = r
        BY <2>2, <2>4, <2>6
      <4> QED
        BY <1>1, <2>2, <2>3, <2>4, <2>5, <3>1, <4>1, <4>2, <4>3
    <3>2. CASE q # r
      <4>1. Working(q) /\ sell'[q] = sell[q]
        BY <2>4, <2>6, <3>2
      <4>2. PICK n \in Markets : n = sell[q].mkt /\ n # m
        BY <2>2, <3>2, <4>1 DEF Core, Others, WorkingInv
      <4>3. Busy(sell[q].mkt)' /\ Net(sell[q].mkt)' = Net(n)
        BY <1>1, <4>1, <4>2 DEF Busy, Watched, Net, Core, Others, WorkingInv
      <4>4. \A p \in Rows : Working(p)' /\ sell'[p].mkt = n => p = q
        BY <2>4, <2>6, <4>1, <4>2 DEF Core, Others, WorkingInv
      <4>5. sell[q].size - sell[q].filled <= Net(n)
        BY <1>1, <4>1, <4>2 DEF Core, Others, WorkingInv
      <4> QED
        BY <1>1, <4>1, <4>2, <4>3, <4>4, <4>5 DEF Core, Others, WorkingInv
    <3> QED
      BY <3>1, <3>2
  <2>11. PollInv'
    <3>1. /\ sell[r].filled \in Int /\ sell[r].size \in Int /\ poll.filled \in Int
          /\ book[r][sell[r].eoi].filled \in Int
      BY <2>3 DEF TypeOK, SellRow, PollState, BookOrder
    <3>2. poll.filled <= sell[r].size
      <4>1. book[r][sell[r].eoi].filled <= sell[r].size
        BY <2>3 DEF Core, Others, BookInv
      <4> QED
        BY <2>2, <3>1, <4>1
    <3>3. 0 <= poll.sold /\ poll.sold + (sell[r].size - poll.filled) <= Net(m)
      BY <2>2, <2>3, <3>1, NetInt
    <3>4. Busy(poll.mkt)' /\ Net(poll.mkt)' = Net(m)
      BY <1>1, <2>2, <2>5 DEF Busy, Watched, Net
    <3>5. \A q \in Rows : Working(q)' /\ sell'[q].mkt = m => q = r
      BY <2>2, <2>4, <2>6
    <3> QED
      BY <2>1, <2>2, <2>4, <2>5, <3>2, <3>3, <3>4, <3>5 DEF PollInv
  <2>12. IndexInv' /\ NatsInv'
    <3>1. nats.pc \in Placing \ {"insert"} => sell'[nats.row] = sell[nats.row]
      <4>1. nats.pc \in Placing \ {"insert"} => nats.row \in Rows /\ nats.row # r
        BY <1>1, <2>1, PollRowApart, PlaceFacts DEF Polling
      <4> QED
        BY <2>4, <4>1
    <3> QED
      BY <1>1, <2>6, <2>7, <3>1, NetInt, OtherSide
  <2> QED
    BY <2>8, <2>9, <2>10, <2>11, <2>12 DEF Core, Others
<1> QED
  BY <1>2, <1>3 DEF WriteExit

LEMMA InvSettleExit == ASSUME TypeOK, Core, SettleExit PROVE Core'
<1>1. poll.pc = "settle" /\ UNCHANGED <<sell, book, index, nats>>
  BY DEF SettleExit, NatsSide
<1>2. CASE PollRaises /\ UNCHANGED held
  BY <1>1, <1>2, InvPollRaises
<1>3. CASE /\ held' = [held EXCEPT ![poll.mkt].sold = @ + poll.sold,
                                  ![poll.mkt].selling = @ + poll.working]
           /\ poll' = IF poll.st = "FILLED" THEN [poll EXCEPT !.pc = "notify"] ELSE PollIdle
  <2>1. PICK m \in Markets, r \in Rows : m = poll.mkt /\ r = poll.row
    BY <1>1 DEF Core, Others, PollInv
  <2>2. /\ Busy(m) /\ sell[r].mkt = m /\ 0 <= poll.sold
        /\ poll.sold + (sell[r].size - sell[r].filled) <= Net(m)
        /\ sell[r].filled <= sell[r].size
        /\ \A q \in Rows : Working(q) /\ sell[q].mkt = m => q = r
    BY <1>1, <2>1 DEF Core, Others, PollInv
  <2>3. /\ \A q \in Markets : held'[q].bought = held[q].bought
        /\ \A q \in Markets \ {m} : held'[q].sold = held[q].sold
        /\ held'[m].sold = held[m].sold + poll.sold
    BY <1>3, <2>1 DEF TypeOK, Position
  <2>4. sell[r].size \in Int /\ sell[r].filled \in Int /\ poll.sold \in Int
    BY DEF TypeOK, SellRow, PollState
  <2>5. /\ \A q \in Markets \ {m} : Net(q)' = Net(q)
        /\ Net(m)' = Net(m) - poll.sold
        /\ \A q \in Markets : Net(q)' \in Int
    <3>1. \A q \in Markets \ {m} : Net(q)' = Net(q)
      BY <2>3 DEF Net
    <3>2. Net(m)' = Net(m) - poll.sold
      BY <2>3, <2>4, NetInt DEF Net
    <3> QED
      BY <2>4, <3>1, <3>2, NetInt
  <2>6. sell[r].size - sell[r].filled <= Net(m)'
    BY <2>2, <2>4, <2>5, NetInt
  <2>7. NeverShort'
    <3>1. held'[m].sold <= held'[m].bought
      BY <2>2, <2>3, <2>4, NetInt DEF Net
    <3> QED
      BY <2>3, <3>1 DEF Core, NeverShort
  <2>8. BookInv'
    BY <1>1 DEF Core, Others, BookInv
  <2>9. poll'.pc \in {"idle", "notify"} /\ (poll'.pc = "notify" => poll'.mkt \in Markets)
    BY <1>3, <2>1 DEF PollIdle, TypeOK, PollState
  <2>10. PollInv'
    BY <2>9 DEF PollInv
  <2>11. /\ \A q \in Rows : Working(q)' <=> Working(q)
         /\ \A q \in Markets : (Busy(q)' <=> Busy(q)) /\ (Quiet(q) => Quiet(q)')
    BY <1>1, <2>9 DEF Working, Busy, Watched, Quiet
  <2>12. WorkingInv'
    <3> SUFFICES ASSUME NEW q \in Rows, Working(q)
                 PROVE  sell[q].size - sell[q].filled <= Net(sell[q].mkt)'
      BY <1>1, <2>11 DEF Core, Others, WorkingInv
    <3>1. PICK n \in Markets : n = sell[q].mkt
      BY DEF Core, Others, WorkingInv
    <3>2. sell[q].size - sell[q].filled <= Net(n)'
      <4>1. CASE q = r
        BY <2>2, <2>6, <3>1, <4>1
      <4>2. CASE q # r
        <5>1. n # m
          BY <2>2, <3>1, <4>2
        <5>2. sell[q].size - sell[q].filled <= Net(n)
          BY <2>1, <3>1, <4>2 DEF Core, Others, WorkingInv
        <5> QED
          BY <2>5, <5>1, <5>2
      <4> QED
        BY <4>1, <4>2
    <3> QED
      BY <1>1, <3>1, <3>2 DEF Net
  <2>13. IndexInv' /\ NatsInv'
    <3>1. ~Quiet(m) /\ Busy(m)
      BY <1>1, <2>1, <2>2 DEF Quiet
    <3>2. \A q \in Markets : ~Busy(q) \/ Quiet(q) => Net(q) <= Net(q)'
      BY <2>5, <3>1, NetInt
    <3> QED
      BY <1>1, <2>5, <2>11, <3>2, OtherSide
  <2> QED
    BY <2>7, <2>8, <2>10, <2>12, <2>13 DEF Core, Others
<1> QED
  BY <1>2, <1>3 DEF SettleExit

\* A row that did not do harm is closed.
LEMMA InvCloseRow ==
    ASSUME TypeOK, Core, NEW r \in Rows, NEW st \in {"CANCELED", "REJECTED"},
           UNCHANGED sell \/ (Write(r, st) /\ sell[r].st # "none"), poll'.pc = "idle",
           nats.pc \in Placing \ {"insert"} => nats.row # r,
           poll.pc # "settle", UNCHANGED <<held, book, index, nats>>
    PROVE  Core'
<1>1. /\ \A q \in Rows : q # r => sell'[q] = sell[q]
      /\ sell'[r].size = sell[r].size
      /\ sell' = sell \/ sell'[r].st = st
  BY DEF Write, TypeOK, SellRow
<1>2. \A q \in Rows : Working(q)' => sell'[q] = sell[q] /\ Working(q)
  BY <1>1 DEF Working, WorkingStatus
<1>3. \A q \in Markets : (Busy(q)' <=> Busy(q)) /\ Net(q)' = Net(q)
  BY DEF Busy, Watched, Net
<1>4. \A q \in Markets : Quiet(q) => Quiet(q)'
  BY <1>2 DEF Quiet
<1>5. NeverShort' /\ PollInv'
  BY DEF Core, NeverShort, PollInv
<1>6. BookInv'
  BY <1>1 DEF Core, Others, BookInv
<1>7. WorkingInv'
  <2> SUFFICES ASSUME NEW q \in Rows, Working(q), sell'[q] = sell[q]
               PROVE  (/\ sell[q].mkt \in Markets /\ sell[q].eoi \in Attempts
                       /\ Busy(sell[q].mkt)
                       /\ sell[q].filled < sell[q].size
                       /\ sell[q].filled <= book[q][sell[q].eoi].filled
                       /\ ~(poll.pc = "settle" /\ poll.row = q) =>
                             sell[q].size - sell[q].filled <= Net(sell[q].mkt)
                       /\ \A p \in Rows : Working(p) /\ sell[p].mkt = sell[q].mkt => p = q)'
    BY <1>2 DEF WorkingInv
  <2>1. \A p \in Rows : Working(p)' /\ sell'[p].mkt = sell'[q].mkt => p = q
    BY <1>2 DEF Core, Others, WorkingInv
  <2>2. Busy(sell[q].mkt)' /\ Net(sell[q].mkt)' = Net(sell[q].mkt)
    BY DEF Busy, Watched, Net, Core, Others, WorkingInv
  <2> QED
    BY <2>1, <2>2 DEF Core, Others, WorkingInv
<1>8. IndexInv' /\ NatsInv'
  <2>1. nats.pc \in Placing \ {"insert"} => sell'[nats.row] = sell[nats.row]
    BY <1>1, PlaceFacts
  <2> QED
    BY <1>3, <1>4, <2>1, NetInt, OtherSide
<1> QED
  BY <1>5, <1>6, <1>7, <1>8 DEF Core, Others

LEMMA InvRecoverCanceled == ASSUME TypeOK, Core, RecoverCanceled PROVE Core'
<1>1. poll.pc = "recover" /\ poll.pc \in Polling
  BY DEF RecoverCanceled, Polling
<1>2. PICK r \in Rows : r = poll.row /\ sell[r].st # "none"
  BY <1>1 DEF Core, Others, PollInv
<1>3. nats.pc \in Placing \ {"insert"} => nats.row # r
  BY <1>1, <1>2, PollRowApart
<1>4. /\ UNCHANGED sell \/ Write(r, "CANCELED")
      /\ UNCHANGED <<held, book, index, nats>> /\ poll'.pc = "idle"
  BY <1>2 DEF RecoverCanceled, NatsSide, PollIdle
<1> QED
  BY <1>1, <1>2, <1>3, <1>4, InvCloseRow

LEMMA InvNotify == ASSUME TypeOK, Core, Notify PROVE Core'
<1>1. /\ UNCHANGED sell /\ poll.pc = "notify"
      /\ UNCHANGED <<held, book, index, nats>> /\ poll'.pc = "idle"
  BY DEF Notify, NatsSide, PollIdle
<1>2. \A q \in Rows : Working(q)' <=> Working(q)
  BY <1>1 DEF Working
<1>3. \A q \in Markets : (Busy(q)' <=> Busy(q)) /\ Net(q)' = Net(q) /\ (Quiet(q) => Quiet(q)')
  BY <1>1, <1>2 DEF Busy, Watched, Net, Quiet
<1>4. NeverShort' /\ BookInv' /\ PollInv'
  BY <1>1 DEF Core, Others, NeverShort, BookInv, PollInv
<1>5. WorkingInv'
  BY <1>1, <1>2, <1>3 DEF Core, Others, WorkingInv
<1>6. IndexInv' /\ NatsInv'
  BY <1>1, <1>3, NetInt, OtherSide
<1> QED
  BY <1>4, <1>5, <1>6 DEF Core, Others

LEMMA InvSweepZombie == ASSUME TypeOK, Core, NEW r \in Rows, SweepZombie(r) PROVE Core'
<1>1. /\ UNCHANGED sell \/ Write(r, "REJECTED")
      /\ poll.pc = "idle" /\ poll' = poll /\ nats.row # r /\ sell[r].st # "none"
      /\ UNCHANGED <<held, book, index, nats>>
  BY DEF SweepZombie, NatsSide
<1> QED
  BY <1>1, InvCloseRow

\* The CLOB only ever adds to what an order filled, up to its size.
LEMMA InvExchange ==
    ASSUME TypeOK, Core, NEW r \in Rows, NEW k \in Attempts, Match(r, k) \/ EndOrder(r, k)
    PROVE  Core'
<1>1. book[r][k].st = "live" /\ UNCHANGED <<held, sell, poll, index, nats>>
  BY DEF Match, EndOrder, NatsSide
<1>2. \A q \in Rows, n \in Attempts : book[q][n] \in BookOrder
  BY DEF TypeOK
<1>3. /\ \A q \in Rows, n \in Attempts : q # r \/ n # k => book'[q][n] = book[q][n]
      /\ book[r][k].filled <= book'[r][k].filled
      /\ book'[r][k].filled <= book[r][k].filled + 1
      /\ book'[r][k].st = "live" => book'[r][k].filled # sell[r].size
      /\ book'[r][k].filled \in Int
  <2>1. book \in [Rows -> [Attempts -> BookOrder]] /\ book[r][k].filled \in Nat
    BY <1>2 DEF TypeOK, BookOrder
  <2>2. CASE Match(r, k)
    <3>1. book'[r][k] = [st |-> IF book[r][k].filled + 1 = sell[r].size THEN "matched" ELSE "live",
                         filled |-> book[r][k].filled + 1]
      BY <2>1, <2>2 DEF Match
    <3>2. \A q \in Rows, n \in Attempts : q # r \/ n # k => book'[q][n] = book[q][n]
      BY <2>1, <2>2 DEF Match
    <3> QED
      BY <2>1, <3>1, <3>2
  <2>3. CASE EndOrder(r, k)
    <3>1. book'[r][k].st = "ended" /\ book'[r][k].filled = book[r][k].filled
      BY <1>2, <2>1, <2>3 DEF EndOrder, BookOrder
    <3>2. \A q \in Rows, n \in Attempts : q # r \/ n # k => book'[q][n] = book[q][n]
      BY <2>1, <2>3 DEF EndOrder
    <3> QED
      BY <2>1, <3>1, <3>2
  <2> QED
    BY <2>2, <2>3
<1>4. \A q \in Rows, n \in Attempts : book[q][n].filled \in Int /\ sell[q].size \in Int
  BY <1>2 DEF BookOrder, TypeOK, SellRow
<1>5. BookInv'
  <2>1. book[r][k].filled < sell[r].size /\ sell[r].st # "none"
    BY <1>1 DEF Core, Others, BookInv
  <2>2. book'[r][k].filled <= sell[r].size
    BY <1>3, <1>4, <2>1
  <2>3. book'[r][k].st = "live" => book'[r][k].filled < sell[r].size
    BY <1>3, <1>4, <2>2
  <2> QED
    BY <1>1, <1>3, <2>1, <2>2, <2>3 DEF Core, Others, BookInv
<1>6. /\ \A q \in Rows : Working(q)' <=> Working(q)
      /\ \A q \in Markets : (Busy(q)' <=> Busy(q)) /\ Net(q)' = Net(q) /\ (Quiet(q) => Quiet(q)')
  BY <1>1 DEF Working, Busy, Watched, Net, Quiet
<1>7. NeverShort'
  BY <1>1 DEF Core, NeverShort
<1>8. \A q \in Rows, n \in Attempts, f \in Int :
          f <= book[q][n].filled => f <= book'[q][n].filled
  BY <1>3, <1>4
<1>9. \A q \in Rows : Working(q) => sell[q].filled <= book'[q][sell[q].eoi].filled
  <2>1. \A q \in Rows : sell[q].filled \in Int
    BY DEF TypeOK, SellRow
  <2> QED
    BY <1>8, <2>1 DEF Core, Others, WorkingInv
<1>10. WorkingInv'
  BY <1>1, <1>6, <1>9 DEF Core, Others, WorkingInv
<1>11. PollInv'
  <2>1. poll.pc = "write" => poll.filled <= book'[poll.row][sell[poll.row].eoi].filled
    <3>1. poll.filled \in Int
      BY DEF TypeOK, PollState
    <3> QED
      BY <1>8, <3>1 DEF Core, Others, PollInv, WorkingInv
  <2>2. poll.pc \in Polling => Busy(poll.mkt)' /\ Net(poll.mkt)' = Net(poll.mkt)
    BY <1>1 DEF Busy, Watched, Net, Core, Others, PollInv, Polling
  <2> QED
    BY <1>1, <1>6, <2>1, <2>2 DEF Core, Others, PollInv, Polling
<1>12. IndexInv' /\ NatsInv'
  <2>1. \A n \in Attempts : book[nats.row][n].st = "none" => book'[nats.row][n] = book[nats.row][n]
           \/ nats.row \notin Rows
    BY <1>1, <1>3
  <2>2. nats.pc \in {"reserve", "send", "submit"} => nats.row \in Rows
    BY DEF Core, NatsInv, Placing
  <2> QED
    BY <1>1, <1>6, <2>1, <2>2, NetInt, OtherSide
<1> QED
  BY <1>5, <1>7, <1>10, <1>11, <1>12 DEF Core, Others

-----------------------------------------------------------------------------
(* The theorems.                                                           *)

LEMMA InitInv == Init /\ MaxRestarts = 0 => IInv
<1> SUFFICES ASSUME Init, MaxRestarts = 0 PROVE IInv
  OBVIOUS
<1>1. TypeOK /\ OneLife
  BY TypeInit DEF Init, OneLife
<1>2. \A m \in Markets : held[m].bought = 0 /\ held[m].sold = 0 /\ index[m] = NotWatched
  BY DEF Init
<1>3. \A r \in Rows : sell[r].st = "none" /\ sell[r].size = 0 /\ ~Working(r)
  BY DEF Init, NoOrder, Working, WorkingStatus
<1>4. nats.pc = "idle" /\ poll.pc = "idle"
  BY DEF Init, NatsIdle, PollIdle
<1>5. BookInv
  BY <1>3 DEF Init, BookInv
<1>6. NeverShort /\ WorkingInv
  BY <1>2, <1>3 DEF NeverShort, WorkingInv
<1>7. IndexInv
  <2>1. \A m \in Markets : Quiet(m)
    BY <1>3, <1>4 DEF Quiet
  <2>2. \A m \in Markets : ~Watched(m)
    <3>1. NotWatched.net = 0
      BY DEF NotWatched
    <3>2. ASSUME NEW m \in Markets PROVE ~(index[m].net > 0)
      BY <1>2, <3>1
    <3> QED
      BY <3>2 DEF Watched
  <2> QED
    BY <2>1, <2>2 DEF IndexInv, Busy
<1>8. NatsInv /\ PollInv
  BY <1>4 DEF NatsInv, PollInv, Placing
<1> QED
  BY <1>1, <1>5, <1>6, <1>7, <1>8 DEF IInv

LEMMA StepInv == IInv /\ [Next]_vars => IInv'
<1> SUFFICES ASSUME IInv, [Next]_vars PROVE IInv'
  OBVIOUS
<1>1. TypeOK /\ Core /\ OneLife
  BY DEF IInv, Core, Others
<1>2. TypeOK'
  BY <1>1, TypeStep DEF Core, Others, WorkingInv, HasId
<1>3. OneLife' /\ ~Restart
  BY <1>1, KeepsOneLife
<1>4. Core'
  <2>1. CASE Snapshot \/ Fill
    BY <1>1, <2>1, InvSnapshot, InvHearFill DEF Snapshot, Fill
  <2>2. CASE Nats
    <3>1. CASE PlaceExit
      BY <1>1, <3>1, InvInsertExit, InvReserve, InvMarkSent, InvSubmit, InvRecordOpen,
         InvRecordRejected, InvRelease DEF PlaceExit
    <3> QED
      BY <1>1, <2>2, <3>1, InvPersistPeak, InvHold, InvTriggerExit, InvRefresh DEF Nats
  <2>3. CASE Entry \/ Executor
    BY <1>1, <2>3, InvEntryFill, InvPollExit, InvWriteExit, InvSettleExit, InvRecoverCanceled,
       InvNotify, InvSweepZombie DEF Entry, Executor
  <2>4. CASE Exchange
    BY <1>1, <2>4, InvExchange DEF Exchange
  <2>5. CASE UNCHANGED vars
    <3>1. UNCHANGED <<held, sell, book, index, nats, poll>>
      BY <2>5 DEF vars
    <3>2. \A m \in Markets : (Busy(m)' <=> Busy(m)) /\ Net(m)' = Net(m)
      BY <3>1 DEF Busy, Watched, Net
    <3>3. Others' /\ \A m \in Markets : Quiet(m)' <=> Quiet(m)
      BY <1>1, <3>1, <3>2, Frame DEF Core
    <3>4. IndexInv' /\ NatsInv' /\ NeverShort'
      BY <1>1, <3>1, <3>2, <3>3, NetInt, OtherSide DEF Core, NeverShort
    <3> QED
      BY <3>3, <3>4 DEF Core
  <2> QED
    BY <1>3, <2>1, <2>2, <2>3, <2>4, <2>5 DEF Next
<1> QED
  BY <1>2, <1>3, <1>4 DEF IInv, Core, Others

\* IInv is an inductive invariant of a process that is not restarted.
THEOREM Invariance == ASSUME MaxRestarts = 0 PROVE Spec => []IInv
<1>1. Init => IInv
  BY InitInv
<1> QED
  BY <1>1, StepInv, PTL DEF Spec

\* exit_pending is a mutex: no two exits of a market work at a time.
THEOREM ExitMutex == ASSUME MaxRestarts = 0 PROVE Spec => []OneExitOpen
<1>1. IInv => OneExitOpen
  BY DEF IInv, WorkingInv, OneExitOpen, Working
<1> QED
  BY <1>1, Invariance, PTL

\* No exit sells what the position no longer has.
THEOREM NoShortPosition == ASSUME MaxRestarts = 0 PROVE Spec => []NeverShort
<1>1. IInv => NeverShort
  BY DEF IInv
<1> QED
  BY <1>1, Invariance, PTL

-----------------------------------------------------------------------------
(* Across restarts: what the tables and the two threads' hands say.        *)

\* The rows, whatever fails or dies: a row that the CLOB never acknowledged shows no
\* fill and nothing on offer; one that it did shows no more than the CLOB filled,
\* and offers the rest.
RowOK(r) ==
    /\ sell[r].st = "none" => sell[r] = NoOrder
    /\ sell[r].eoi = NoEoi => /\ sell[r].filled = 0 /\ sell[r].working = 0
                              /\ ~Working(r)
    /\ sell[r].eoi # NoEoi => /\ sell[r].mkt \in Markets
                              /\ sell[r].st \notin {"none", "PENDING", "SENT"}
                              /\ sell[r].filled <= book[r][sell[r].eoi].filled
                              /\ sell[r].working = sell[r].size - sell[r].filled

RowInv == \A r \in Rows : RowOK(r)

\* The row that the NATS thread is placing is its own: the sweep leaves it alone.
PlaceInv ==
    /\ nats.pc # "idle" => nats.mkt \in Markets
    /\ nats.pc \notin {"idle", "refresh"} => nats.net > 0
    /\ nats.pc \in Placing \ {"insert"} =>
          /\ nats.row \in Rows
          /\ sell[nats.row].mkt = nats.mkt /\ sell[nats.row].size = nats.net
          /\ sell[nats.row].eoi = NoEoi
          /\ sell[nats.row].st \in IF nats.pc = "release" THEN {"REJECTED"} ELSE {"PENDING", "SENT"}
    /\ nats.pc \in {"submit", "ack"} => nats.try \in Attempts
    /\ nats.pc \in {"reserve", "send", "submit"} =>
          \A k \in Attempts : (nats.pc = "submit" => nats.try <= k) =>
              book[nats.row][k].st = "none" /\ book[nats.row][k].filled = 0

\* The row that the executor polls is its own: until it is written it still works,
\* and the answer is about what the row showed when it was read.
AnswerInv ==
    /\ poll.pc = "notify" => poll.mkt \in Markets
    /\ poll.pc \in Polling =>
          /\ poll.mkt \in Markets /\ poll.row \in Rows
          /\ sell[poll.row].mkt = poll.mkt /\ sell[poll.row].eoi # NoEoi
    /\ poll.pc = "write" =>
          /\ Working(poll.row)
          /\ sell[poll.row].filled <= poll.filled
          /\ poll.filled <= book[poll.row][sell[poll.row].eoi].filled
          /\ poll.sold = poll.filled - sell[poll.row].filled
          /\ poll.remaining = sell[poll.row].size - poll.filled
    /\ poll.pc \in {"write", "settle"} => 0 <= poll.sold /\ poll.working = 0 - poll.sold

LedgerInv == BookInv /\ RowInv /\ PlaceInv /\ AnswerInv

\* The shares that the exits of market m show filled, or have on offer.
RowsOf(m)      == {r \in Rows : sell[r].mkt = m}
RowsFilled(m)  == SumFunctionOnSet([r \in Rows |-> sell[r].filled], RowsOf(m))
RowsWorking(m) == SumFunctionOnSet([r \in Rows |-> sell[r].working], RowsOf(m))

\* What the executor has written to the row, and not to the position yet.
Unsettled(m) == IF poll.pc = "settle" /\ poll.mkt = m THEN poll.sold ELSE 0

\* What the NATS thread has reserved, and the row does not show yet.
Reserved(m) ==
    IF nats.pc \in Placing \ {"insert", "reserve"} /\ nats.mkt = m THEN nats.net ELSE 0

\* The row knows first: what is booked, and what is about to be, is in the rows.
SoldInv == \A m \in Markets : held[m].sold + Unsettled(m) <= RowsFilled(m)

\* The position knows first: what is on offer, or about to be, is in working_sell.
OfferInv == \A m \in Markets : RowsWorking(m) + Reserved(m) + Unsettled(m) <= held[m].selling

\* The peak in memory and the peak in the table.
PeakInv ==
    /\ budget.db <= MaxDbErrors
    /\ \A m \in Markets : held[m].peak = 0 \/ held[m].peak >= Cost
    /\ nats.pc = "persist" =>
          /\ nats.mkt \in Markets /\ Watched(nats.mkt)
          /\ nats.price = index[nats.mkt].peak
    /\ nats.pc = "refresh" => nats.mkt \in Markets /\ nats.peak = held[nats.mkt].peak
    /\ PeakStored

-----------------------------------------------------------------------------
(* The rows and the book, whatever fails or dies.                          *)

\* What a step that takes nothing back of the CLOB's fills keeps.
BookGrows == \A r \in Rows, k \in Attempts : book[r][k].filled <= book'[r][k].filled

LEMMA StatusNames == WorkingStatus = {"OPEN", "PARTIAL"}
BY DEF WorkingStatus

LEMMA RowTypes ==
    ASSUME TypeOK, NEW r \in Rows
    PROVE  /\ sell[r] \in SellRow
           /\ sell[r].size \in Int /\ sell[r].filled \in Nat /\ sell[r].working \in Int
           /\ sell[r].eoi \in Attempts \union {NoEoi} /\ NoEoi \notin Attempts
           /\ sell[r].mkt \in Markets \union {NoMarket}
           /\ \A k \in Attempts : book[r][k] \in BookOrder /\ book[r][k].filled \in Nat
BY ExitAssumption DEF TypeOK, SellRow, BookOrder, NoEoi, Attempts

\* A row that a step leaves alone stays in order.
LEMMA RowStays ==
    ASSUME TypeOK, TypeOK', BookGrows, NEW r \in Rows, RowOK(r), sell'[r] = sell[r]
    PROVE  RowOK(r)'
<1>1. sell[r].eoi # NoEoi => sell[r].eoi \in Attempts
  BY RowTypes
<1>2. sell[r].eoi # NoEoi => /\ book[r][sell[r].eoi].filled <= book'[r][sell[r].eoi].filled
                             /\ book[r][sell[r].eoi].filled \in Nat
                             /\ book'[r][sell[r].eoi].filled \in Nat
  <2>1. (\A k \in Attempts : book[r][k].filled \in Nat)'
    <3>1. (\A q \in Rows, k \in Attempts : book[q][k].filled \in Nat)'
      BY DEF TypeOK, BookOrder
    <3> QED
      BY <3>1
  <2> QED
    BY <1>1, <2>1, RowTypes DEF BookGrows
<1>3. sell[r].filled \in Nat
  BY RowTypes
<1> QED
  BY <1>2, <1>3 DEF RowOK, Working

\* The executor's part, when the step leaves it and its row alone.
LEMMA AnswerStays ==
    ASSUME TypeOK, TypeOK', BookGrows, AnswerInv, UNCHANGED poll,
           poll.pc \in Polling => sell'[poll.row] = sell[poll.row]
    PROVE  AnswerInv'
<1>1. CASE poll.pc \in Polling
  <2>1. poll.row \in Rows /\ sell[poll.row].eoi \in Attempts
    BY <1>1, RowTypes DEF AnswerInv
  <2> DEFINE b == book[poll.row][sell[poll.row].eoi].filled
             c == book'[poll.row][sell[poll.row].eoi].filled
  <2>2. b <= c /\ b \in Nat /\ c \in Nat
    <3>1. (\A q \in Rows, k \in Attempts : book[q][k].filled \in Nat)'
      BY DEF TypeOK, BookOrder
    <3> QED
      BY <2>1, <3>1, RowTypes DEF BookGrows
  <2>3. sell'[poll.row] = sell[poll.row] /\ poll' = poll
    BY <1>1
  <2>4. poll.filled \in Nat
    BY DEF TypeOK, PollState
  <2>5. poll.pc = "write" => poll.filled <= b
    BY DEF AnswerInv
  <2>6. poll.pc = "write" => poll.filled <= c
    BY <2>2, <2>4, <2>5
  <2> HIDE DEF b
  <2> QED
    BY <2>3, <2>6 DEF AnswerInv, Working
<1>2. CASE poll.pc \notin Polling
  BY <1>2 DEF AnswerInv, Polling
<1> QED
  BY <1>1, <1>2

\* The NATS thread's part, when the step leaves it, its row and the book alone.
LEMMA PlaceStays ==
    ASSUME PlaceInv, UNCHANGED nats,
           nats.pc \in Placing \ {"insert"} =>
               /\ sell'[nats.row].mkt = sell[nats.row].mkt
               /\ sell'[nats.row].size = sell[nats.row].size
               /\ sell'[nats.row].eoi = sell[nats.row].eoi
               /\ sell'[nats.row].st = sell[nats.row].st,
           nats.pc \in {"reserve", "send", "submit"} =>
               \A k \in Attempts : (nats.pc = "submit" => nats.try <= k) =>
                   book'[nats.row][k] = book[nats.row][k]
    PROVE  PlaceInv'
<1>1. CASE nats.pc \in Placing \ {"insert"}
  BY <1>1 DEF PlaceInv
<1>2. CASE nats.pc \notin Placing \ {"insert"}
  BY <1>2 DEF PlaceInv, Placing
<1> QED
  BY <1>1, <1>2

\* Sizes, and which rows are free, are all that BookInv needs of the rows.
LEMMA BookStays ==
    ASSUME BookInv, UNCHANGED book,
           \A r \in Rows : sell'[r].size = sell[r].size /\ (sell'[r].st = "none" => sell[r].st = "none")
    PROVE  BookInv'
BY DEF BookInv

\* A step of the NATS thread that does not touch rows, book and executor.
LEMMA LedgerFrame ==
    ASSUME TypeOK, TypeOK', LedgerInv, UNCHANGED <<sell, book, poll>>, PlaceInv'
    PROVE  LedgerInv'
<1>1. BookGrows
  <2>1. \A r \in Rows, k \in Attempts : book[r][k].filled \in Nat
    BY RowTypes
  <2> QED
    BY <2>1 DEF BookGrows
<1>2. RowInv'
  BY <1>1, RowStays DEF LedgerInv, RowInv
<1>3. AnswerInv'
  BY <1>1, AnswerStays DEF LedgerInv
<1>4. BookInv'
  BY BookStays DEF LedgerInv
<1> QED
  BY <1>2, <1>3, <1>4 DEF LedgerInv

\* The steps of the NATS thread outside place_exit_order.
LEMMA LedgerLooking ==
    ASSUME TypeOK, TypeOK', LedgerInv,
           Snapshot \/ Fill \/ PersistPeak \/ Hold \/ TriggerExit \/ Refresh
    PROVE  LedgerInv'
<1>n. nats \in NatsState
  BY DEF TypeOK
<1>p. PlaceInv
  BY DEF LedgerInv
<1>1. ASSUME NEW m \in Markets, NEW price \in Prices, OnSnapshot(m, price) PROVE LedgerInv'
  <2>1. /\ nats'.pc \in {"persist", "evaluate"} /\ nats'.mkt = m /\ nats'.net = index[m].net
        /\ index[m].net > 0
    BY <1>1 DEF OnSnapshot, NatsIdle, CanExit, Watched
  <2>2. PlaceInv'
    BY <2>1 DEF PlaceInv, Placing
  <2> QED
    BY <1>1, <2>2, LedgerFrame DEF OnSnapshot, ExecutorSide
<1>2. ASSUME NEW m \in Markets, HearFill(m) PROVE LedgerInv'
  <2>1. nats' = nats \/ (nats'.pc = "refresh" /\ nats'.mkt = m)
    BY <1>2 DEF HearFill, NatsIdle
  <2>2. nats.pc = "idle"
    BY <1>2 DEF HearFill
  <2>3. PlaceInv'
    BY <2>1, <2>2 DEF PlaceInv, Placing
  <2> QED
    BY <1>2, <2>3, LedgerFrame DEF HearFill
<1>3. CASE PersistPeak
  <2>1. nats.pc = "persist" /\ nats'.pc = "evaluate" /\ nats'.mkt = nats.mkt /\ nats'.net = nats.net
    BY <1>n, <1>3 DEF PersistPeak, Goto, NatsState
  <2>2. PlaceInv'
    BY <1>p, <2>1 DEF PlaceInv, Placing
  <2> QED
    BY <1>3, <2>2, LedgerFrame DEF PersistPeak, ExecutorSide
<1>4. CASE Hold \/ Refresh
  <2>1. nats'.pc = "idle"
    BY <1>4 DEF Hold, Refresh, NatsIdle
  <2>2. PlaceInv'
    BY <2>1 DEF PlaceInv, Placing
  <2> QED
    BY <1>4, <2>2, LedgerFrame DEF Hold, Refresh, ExecutorSide
<1>5. CASE TriggerExit
  <2>1. nats.pc = "evaluate" /\ nats'.pc = "insert" /\ nats'.mkt = nats.mkt /\ nats'.net = nats.net
    BY <1>n, <1>5 DEF TriggerExit, Goto, NatsState
  <2>2. PlaceInv'
    BY <1>p, <2>1 DEF PlaceInv, Placing
  <2> QED
    BY <1>5, <2>2, LedgerFrame DEF TriggerExit, ExecutorSide
<1> QED
  BY <1>1, <1>2, <1>3, <1>4, <1>5 DEF Snapshot, Fill

\* A step that writes a row without an exchange id, in this way or that.
LEMMA LedgerRow ==
    ASSUME TypeOK, TypeOK', LedgerInv, UNCHANGED poll, BookGrows, NEW r \in Rows,
           sell[r].eoi = NoEoi,
           \A q \in Rows \ {r} : sell'[q] = sell[q],
           RowOK(r)'
    PROVE  RowInv' /\ AnswerInv'
<1>1. RowInv'
  <2>1. ASSUME NEW q \in Rows PROVE RowOK(q)'
    <3>1. CASE q = r
      BY <3>1
    <3>2. CASE q # r
      BY <3>2, RowStays DEF LedgerInv, RowInv
    <3> QED
      BY <3>1, <3>2
  <2> QED
    BY <2>1 DEF RowInv
<1>2. AnswerInv'
  <2>1. poll.pc \in Polling => poll.row \in Rows \ {r}
    BY DEF LedgerInv, AnswerInv
  <2> QED
    BY <2>1, AnswerStays DEF LedgerInv
<1> QED
  BY <1>1, <1>2

LEMMA SameBookGrows == ASSUME TypeOK, UNCHANGED book PROVE BookGrows
<1>1. \A r \in Rows, k \in Attempts : book[r][k].filled \in Nat
  BY RowTypes
<1> QED
  BY <1>1 DEF BookGrows

\* The insert takes a free row.
LEMMA LedgerInsert == ASSUME TypeOK, TypeOK', LedgerInv, InsertExit PROVE LedgerInv'
<1>n. nats \in NatsState /\ nats.mkt \in Markets /\ nats.net > 0 /\ nats.net \in Int
  BY DEF TypeOK, LedgerInv, PlaceInv, NatsState, InsertExit
<1>1. CASE UNCHANGED sell /\ nats' = NatsIdle
  <2>1. PlaceInv'
    BY <1>1 DEF PlaceInv, Placing, NatsIdle
  <2> QED
    BY <1>1, <2>1, LedgerFrame DEF InsertExit, ExecutorSide
<1>2. ASSUME NEW r \in Rows, Unused(r),
             sell' = [sell EXCEPT ![r] = [NoOrder EXCEPT !.st = "PENDING", !.mkt = nats.mkt,
                                                          !.size = nats.net]],
             nats' = [nats EXCEPT !.pc = "reserve", !.row = r]
      PROVE  LedgerInv'
  <2>0. sell \in [Rows -> SellRow] /\ UNCHANGED <<book, poll>>
    BY DEF TypeOK, InsertExit, ExecutorSide
  <2>1. sell[r].st = "none" /\ sell[r] = NoOrder
    BY <1>2 DEF Unused, LedgerInv, RowInv, RowOK
  <2>2. \A q \in Rows \ {r} : sell'[q] = sell[q]
    BY <1>2, <2>0
  <2>3. /\ sell'[r].st = "PENDING" /\ sell'[r].mkt = nats.mkt /\ sell'[r].size = nats.net
        /\ sell'[r].eoi = NoEoi /\ sell'[r].filled = 0 /\ sell'[r].working = 0
    BY <1>2, <2>0 DEF NoOrder
  <2>4. RowOK(r)'
    BY <2>3, StatusNames DEF RowOK, Working
  <2>5. sell[r].eoi = NoEoi
    BY <2>1 DEF NoOrder
  <2>6. RowInv' /\ AnswerInv'
    BY <2>0, <2>2, <2>4, <2>5, LedgerRow, SameBookGrows
  <2>7. \A k \in Attempts : book[r][k].filled <= 0 /\ book[r][k].st = "none" /\ book[r][k].filled \in Nat
    <3>1. sell[r].size = 0
      BY <2>1 DEF NoOrder
    <3>2. \A k \in Attempts : book[r][k].filled <= sell[r].size /\ book[r][k].st = "none"
      BY <2>1 DEF LedgerInv, BookInv
    <3>3. \A k \in Attempts : book[r][k].filled \in Nat
      BY RowTypes
    <3> QED
      BY <3>1, <3>2, <3>3
  <2>8. BookInv'
    <3>1. ASSUME NEW q \in Rows, NEW k \in Attempts
          PROVE  /\ book[q][k].filled <= sell'[q].size
                 /\ book[q][k].st = "live" => book[q][k].filled < sell'[q].size
                 /\ sell'[q].st = "none" => sell'[q].size = 0 /\ book[q][k].st = "none"
      <4>1. CASE q = r
        BY <1>n, <2>3, <2>7, <4>1
      <4>2. CASE q # r
        BY <2>2, <4>2 DEF LedgerInv, BookInv
      <4> QED
        BY <4>1, <4>2
    <3> QED
      BY <2>0, <3>1 DEF BookInv
  <2>9. PlaceInv'
    <3>1. nats'.pc = "reserve" /\ nats'.row = r /\ nats'.mkt = nats.mkt /\ nats'.net = nats.net
      BY <1>n, <1>2 DEF NatsState
    <3>2. \A k \in Attempts : book[r][k].filled = 0
      BY <2>7
    <3> QED
      BY <1>n, <2>0, <2>3, <2>7, <3>1, <3>2 DEF PlaceInv, Placing
  <2> QED
    BY <2>6, <2>8, <2>9 DEF LedgerInv
<1> QED
  BY <1>1, <1>2 DEF InsertExit

\* What the steps of place_exit_order after the insert find.
LEMMA PlacingRow ==
    ASSUME TypeOK, LedgerInv, nats.pc \in Placing \ {"insert"}
    PROVE  /\ nats \in NatsState /\ sell \in [Rows -> SellRow]
           /\ nats.row \in Rows /\ nats.mkt \in Markets /\ nats.net > 0 /\ nats.net \in Int
           /\ sell[nats.row].mkt = nats.mkt /\ sell[nats.row].size = nats.net
           /\ sell[nats.row].eoi = NoEoi /\ RowOK(nats.row)
           /\ sell[nats.row].filled = 0 /\ sell[nats.row].working = 0
           /\ sell[nats.row].st # "none"
           /\ poll.pc \in Polling => poll.row \in Rows \ {nats.row}
<1>1. nats \in NatsState /\ sell \in [Rows -> SellRow] /\ nats.net \in Int
  BY DEF TypeOK, NatsState
<1>2. PlaceInv /\ RowInv /\ AnswerInv
  BY DEF LedgerInv
<1>3. /\ nats.row \in Rows /\ nats.mkt \in Markets /\ nats.net > 0
      /\ sell[nats.row].mkt = nats.mkt /\ sell[nats.row].size = nats.net
      /\ sell[nats.row].eoi = NoEoi
      /\ sell[nats.row].st \in {"REJECTED", "PENDING", "SENT"}
  BY <1>2 DEF PlaceInv, Placing
<1>4. RowOK(nats.row) /\ sell[nats.row].filled = 0 /\ sell[nats.row].working = 0
  BY <1>2, <1>3 DEF RowInv, RowOK
<1>5. poll.pc \in Polling => poll.row \in Rows \ {nats.row}
  BY <1>2, <1>3 DEF AnswerInv
<1> QED
  BY <1>1, <1>3, <1>4, <1>5

\* A new status for a row that has no exchange id.
LEMMA StatusWritten ==
    ASSUME TypeOK, NEW r \in Rows, RowOK(r), sell[r].st # "none", sell[r].eoi = NoEoi,
           NEW st \in {"SENT", "REJECTED"}, Write(r, st)
    PROVE  /\ \A q \in Rows \ {r} : sell'[q] = sell[q]
           /\ \A q \in Rows : /\ sell'[q].size = sell[q].size /\ sell'[q].mkt = sell[q].mkt
                              /\ sell'[q].filled = sell[q].filled /\ sell'[q].eoi = sell[q].eoi
                              /\ sell'[q].working = sell[q].working
                              /\ sell'[q].st = "none" => sell[q].st = "none"
           /\ sell'[r].st = st /\ RowOK(r)'
<1>1. sell \in [Rows -> SellRow]
  BY DEF TypeOK
<1>2. sell' = [sell EXCEPT ![r] = [sell[r] EXCEPT !.st = st]]
  BY <1>1 DEF Write
<1>3. \A q \in Rows \ {r} : sell'[q] = sell[q]
  BY <1>1, <1>2
<1>4. sell'[r] = [sell[r] EXCEPT !.st = st] /\ sell[r] \in SellRow
  BY <1>1, <1>2
<1>5. /\ sell'[r].size = sell[r].size /\ sell'[r].filled = sell[r].filled /\ sell'[r].mkt = sell[r].mkt
      /\ sell'[r].eoi = sell[r].eoi /\ sell'[r].working = sell[r].working /\ sell'[r].st = st
  BY <1>4 DEF SellRow
<1>6. RowOK(r)'
  BY <1>5, StatusNames DEF RowOK, Working
<1> QED
  BY <1>3, <1>5, <1>6

\* A step of place_exit_order that at most writes a status to its row, and goes on
\* to a step that may find the row in that status, or ends.
LEMMA LedgerPlace ==
    ASSUME TypeOK, TypeOK', LedgerInv, nats.pc \in Placing \ {"insert"},
           UNCHANGED <<book, poll>>,
           \/ UNCHANGED sell
           \/ Write(nats.row, "SENT")
           \/ Write(nats.row, "REJECTED"),
           \/ nats' = NatsIdle
           \/ /\ nats'.pc \in Placing \ {"insert"}
              /\ nats'.row = nats.row /\ nats'.mkt = nats.mkt /\ nats'.net = nats.net
              /\ sell'[nats.row].st \in IF nats'.pc = "release" THEN {"REJECTED"}
                                                               ELSE {"PENDING", "SENT"}
              /\ nats'.pc \in {"submit", "ack"} => nats'.try \in Attempts
              /\ nats'.pc \in {"reserve", "send", "submit"} => nats.pc \in {"reserve", "send"}
    PROVE  LedgerInv'
<1>1. /\ nats.row \in Rows /\ nats.mkt \in Markets /\ nats.net > 0
      /\ sell[nats.row].mkt = nats.mkt /\ sell[nats.row].size = nats.net
      /\ sell[nats.row].eoi = NoEoi /\ RowOK(nats.row) /\ sell[nats.row].st # "none"
  BY PlacingRow
<1>r. PICK r \in Rows : r = nats.row
  BY <1>1
<1>2. /\ \A q \in Rows \ {r} : sell'[q] = sell[q]
      /\ \A q \in Rows : /\ sell'[q].size = sell[q].size /\ sell'[q].mkt = sell[q].mkt
                         /\ sell'[q].eoi = sell[q].eoi
                         /\ sell'[q].st = "none" => sell[q].st = "none"
      /\ RowOK(r)'
  <2>1. CASE UNCHANGED sell
    BY <1>1, <1>r, <2>1, RowStays, SameBookGrows
  <2>2. CASE Write(nats.row, "SENT") \/ Write(nats.row, "REJECTED")
    BY <1>1, <1>r, <2>2, StatusWritten
  <2> QED
    BY <2>1, <2>2
<1>3. RowInv' /\ AnswerInv'
  BY <1>1, <1>r, <1>2, LedgerRow, SameBookGrows
<1>4. BookInv'
  BY <1>2, BookStays DEF LedgerInv
<1>5. PlaceInv'
  <2>1. CASE nats' = NatsIdle
    BY <2>1 DEF PlaceInv, Placing, NatsIdle
  <2>2. CASE nats' # NatsIdle
    <3>1. nats.pc \in {"reserve", "send"} =>
              \A k \in Attempts : book[nats.row][k].st = "none" /\ book[nats.row][k].filled = 0
      BY DEF LedgerInv, PlaceInv
    <3> QED
      BY <1>1, <1>r, <1>2, <2>2, <3>1 DEF PlaceInv, Placing
  <2> QED
    BY <2>1, <2>2
<1> QED
  BY <1>3, <1>4, <1>5 DEF LedgerInv

LEMMA LedgerPlacing ==
    ASSUME TypeOK, TypeOK', LedgerInv, Reserve \/ MarkSent \/ RecordRejected \/ Release
    PROVE  LedgerInv'
<1>1. nats \in NatsState
  BY DEF TypeOK
<1>2. nats.pc \in Placing \ {"insert"} =>
          sell[nats.row].st \in IF nats.pc = "release" THEN {"REJECTED"} ELSE {"PENDING", "SENT"}
  BY DEF LedgerInv, PlaceInv
<1>3. nats.pc \in Placing \ {"insert"} =>
          nats.row \in Rows /\ RowOK(nats.row) /\ sell[nats.row].st # "none" /\ sell[nats.row].eoi = NoEoi
  BY PlacingRow
<1>4. CASE Reserve
  <2>1. /\ nats.pc = "reserve" /\ nats'.pc = "send" /\ nats'.row = nats.row
        /\ nats'.mkt = nats.mkt /\ nats'.net = nats.net
    BY <1>1, <1>4 DEF Reserve, Goto, NatsState
  <2>2. nats.pc \in Placing \ {"insert"} /\ nats'.pc \in Placing \ {"insert"}
    BY <2>1 DEF Placing
  <2> QED
    BY <1>2, <1>4, <2>1, <2>2, LedgerPlace DEF Reserve, ExecutorSide
<1>5. CASE MarkSent
  <2>1. nats.pc = "send" /\ nats'.row = nats.row /\ nats'.mkt = nats.mkt /\ nats'.net = nats.net
    BY <1>1, <1>5 DEF MarkSent, Goto, NatsState
  <2>2. nats.pc \in Placing \ {"insert"}
    BY <2>1 DEF Placing
  <2>3. \/ Write(nats.row, "SENT") /\ nats'.pc = "submit" /\ nats'.try = 1
        \/ UNCHANGED sell /\ nats'.pc = "reject"
    BY <1>1, <1>5 DEF MarkSent, Goto, NatsState
  <2>4. Write(nats.row, "SENT") => sell'[nats.row].st = "SENT"
    BY <1>3, <2>2, StatusWritten
  <2>5. nats'.pc \in Placing \ {"insert"} /\ 1 \in Attempts
    BY <2>3, ExitAssumption DEF Placing, Attempts
  <2>6. UNCHANGED <<book, poll>>
    BY <1>5 DEF MarkSent, ExecutorSide
  <2>7. /\ sell'[nats.row].st \in IF nats'.pc = "release" THEN {"REJECTED"} ELSE {"PENDING", "SENT"}
        /\ nats'.pc \in {"submit", "ack"} => nats'.try \in Attempts
    BY <1>2, <2>1, <2>2, <2>3, <2>4, <2>5
  <2>8. UNCHANGED sell \/ Write(nats.row, "SENT")
    BY <2>3
  <2> QED
    BY <2>1, <2>2, <2>5, <2>6, <2>7, <2>8, LedgerPlace
<1>6. CASE RecordRejected
  <2>1. nats.pc = "reject" /\ UNCHANGED <<book, poll>>
    BY <1>6 DEF RecordRejected, ExecutorSide
  <2>2. nats.pc \in Placing \ {"insert"}
    BY <2>1 DEF Placing
  <2>3. \/ Write(nats.row, "REJECTED") /\ nats'.pc = "release" /\ nats'.row = nats.row
           /\ nats'.mkt = nats.mkt /\ nats'.net = nats.net
        \/ UNCHANGED sell /\ nats' = NatsIdle
    BY <1>1, <1>6 DEF RecordRejected, Goto, NatsState
  <2>4. Write(nats.row, "REJECTED") => sell'[nats.row].st = "REJECTED"
    BY <1>3, <2>2, StatusWritten
  <2>5. "release" \in Placing \ {"insert"}
    BY DEF Placing
  <2> QED
    BY <2>1, <2>2, <2>3, <2>4, <2>5, LedgerPlace
<1>7. CASE Release
  <2>1. nats.pc \in Placing \ {"insert"} /\ nats' = NatsIdle /\ UNCHANGED <<sell, book, poll>>
    BY <1>7 DEF Release, ExecutorSide, Placing
  <2> QED
    BY <2>1, LedgerPlace
<1> QED
  BY <1>4, <1>5, <1>6, <1>7

\* An attempt makes an order that the row does not know of yet.
LEMMA LedgerSubmit == ASSUME TypeOK, TypeOK', LedgerInv, Submit PROVE LedgerInv'
<1>0. nats.pc = "submit" /\ nats.try \in Attempts /\ UNCHANGED <<sell, poll>>
  BY DEF Submit, LedgerInv, PlaceInv, ExecutorSide
<1>1. /\ nats \in NatsState /\ nats.row \in Rows /\ nats.mkt \in Markets /\ nats.net > 0
      /\ sell[nats.row].mkt = nats.mkt /\ sell[nats.row].size = nats.net
      /\ sell[nats.row].eoi = NoEoi /\ sell[nats.row].st \in {"PENDING", "SENT"}
  <2>1. nats.pc \in Placing \ {"insert"}
    BY <1>0 DEF Placing
  <2> QED
    BY <1>0, <2>1, PlacingRow DEF LedgerInv, PlaceInv
<1>2. book \in [Rows -> [Attempts -> BookOrder]] /\ nats.net \in Int /\ nats.try \in Int
  BY <1>1 DEF TypeOK, NatsState
<1>3. \A k \in Attempts : nats.try <= k => book[nats.row][k].st = "none" /\ book[nats.row][k].filled = 0
  BY <1>0 DEF LedgerInv, PlaceInv
<1>4. \A r \in Rows, k \in Attempts :
          /\ book'[r][k].filled = book[r][k].filled
          /\ book'[r][k] = book[r][k] \/ (r = nats.row /\ k = nats.try)
  <2>1. CASE UNCHANGED book
    BY <2>1
  <2>2. CASE book' = [book EXCEPT ![nats.row][nats.try].st = "live"]
    BY <1>0, <1>1, <1>2, <2>2 DEF BookOrder
  <2> QED
    BY <2>1, <2>2 DEF Submit
<1>5. BookGrows
  <2>1. \A r \in Rows, k \in Attempts : book[r][k].filled \in Nat
    BY RowTypes
  <2> QED
    BY <1>4, <2>1 DEF BookGrows
<1>6. RowInv' /\ AnswerInv'
  BY <1>0, <1>5, RowStays, AnswerStays DEF LedgerInv, RowInv
<1>7. BookInv'
  <2>1. ASSUME NEW r \in Rows, NEW k \in Attempts
        PROVE  /\ book'[r][k].filled <= sell[r].size
               /\ book'[r][k].st = "live" => book'[r][k].filled < sell[r].size
               /\ sell[r].st = "none" => sell[r].size = 0 /\ book'[r][k].st = "none"
    <3>1. CASE r = nats.row /\ k = nats.try
      BY <1>0, <1>1, <1>2, <1>3, <1>4, <3>1
    <3>2. CASE ~(r = nats.row /\ k = nats.try)
      BY <1>4, <3>2 DEF LedgerInv, BookInv
    <3> QED
      BY <3>1, <3>2
  <2> QED
    BY <1>0, <2>1 DEF BookInv
<1>8. PlaceInv'
  <2>1. /\ nats'.mkt = nats.mkt /\ nats'.net = nats.net /\ nats'.row = nats.row
        /\ \/ nats'.pc = "submit" /\ nats'.try = nats.try + 1 /\ nats.try < MaxRetries
           \/ nats'.pc = "ack" /\ nats'.try = nats.try
           \/ nats'.pc = "reject"
    BY <1>0, <1>1 DEF Submit, Goto, RetryOrGiveUp, NatsState
  <2>2. nats'.pc \in {"submit", "ack"} => nats'.try \in Attempts
    BY <1>0, <2>1, ExitAssumption DEF Attempts
  <2>3. nats'.pc = "submit" => \A k \in Attempts : nats'.try <= k =>
            book'[nats.row][k].st = "none" /\ book'[nats.row][k].filled = 0
    <3> SUFFICES ASSUME nats'.pc = "submit", NEW k \in Attempts, nats'.try <= k
                 PROVE  book'[nats.row][k].st = "none" /\ book'[nats.row][k].filled = 0
      OBVIOUS
    <3>1. nats'.try = nats.try + 1
      BY <2>1
    <3>2. nats.try <= k /\ k # nats.try
      BY <1>2, <3>1 DEF Attempts
    <3> QED
      BY <1>1, <1>3, <1>4, <3>2
  <2> QED
    BY <1>0, <1>1, <2>1, <2>2, <2>3 DEF PlaceInv, Placing
<1> QED
  BY <1>6, <1>7, <1>8 DEF LedgerInv

\* The acknowledgement: from here on the row has an order on the CLOB.
LEMMA LedgerRecordOpen == ASSUME TypeOK, TypeOK', LedgerInv, RecordOpen PROVE LedgerInv'
<1>0. nats.pc = "ack" /\ nats.pc \in Placing \ {"insert"} /\ nats.try \in Attempts
      /\ UNCHANGED <<book, poll>>
  BY DEF RecordOpen, LedgerInv, PlaceInv, ExecutorSide, Placing
<1>1. /\ nats \in NatsState /\ sell \in [Rows -> SellRow] /\ nats.row \in Rows /\ nats.mkt \in Markets
      /\ nats.net \in Int /\ sell[nats.row].mkt = nats.mkt /\ sell[nats.row].size = nats.net
      /\ sell[nats.row].eoi = NoEoi /\ sell[nats.row].filled = 0 /\ RowOK(nats.row)
      /\ sell[nats.row].st \in {"PENDING", "SENT"}
  BY <1>0, PlacingRow DEF LedgerInv, PlaceInv
<1>2. CASE UNCHANGED sell /\ Goto("reject")
  <2>1. /\ nats'.pc = "reject" /\ nats'.row = nats.row /\ nats'.mkt = nats.mkt /\ nats'.net = nats.net
    BY <1>1, <1>2 DEF Goto, NatsState
  <2>2. "reject" \in Placing \ {"insert"}
    BY DEF Placing
  <2> QED
    BY <1>0, <1>1, <1>2, <2>1, <2>2, LedgerPlace
<1>3. CASE /\ sell' = [sell EXCEPT ![nats.row].st = "OPEN", ![nats.row].eoi = nats.try,
                                   ![nats.row].working = nats.net]
           /\ nats' = NatsIdle
  <2>r. PICK r \in Rows : r = nats.row
    BY <1>1
  <2>1. \A q \in Rows \ {r} : sell'[q] = sell[q]
    BY <1>1, <1>3, <2>r
  <2>2. /\ sell'[nats.row].st = "OPEN" /\ sell'[nats.row].eoi = nats.try
        /\ sell'[nats.row].working = nats.net /\ sell'[nats.row].filled = 0
        /\ sell'[nats.row].size = nats.net /\ sell'[nats.row].mkt = nats.mkt
    BY <1>1, <1>3 DEF SellRow
  <2>3. book[nats.row][nats.try].filled \in Nat /\ NoEoi \notin Attempts
    BY <1>0, <1>1, RowTypes
  <2>4. RowOK(r)'
    BY <1>0, <1>1, <2>r, <2>2, <2>3 DEF RowOK
  <2>5. RowInv' /\ AnswerInv'
    BY <1>0, <1>1, <2>r, <2>1, <2>4, LedgerRow, SameBookGrows
  <2>6. \A q \in Rows : sell'[q].size = sell[q].size /\ (sell'[q].st = "none" => sell[q].st = "none")
    BY <1>1, <2>r, <2>1, <2>2
  <2>7. BookInv'
    BY <1>0, <2>6, BookStays DEF LedgerInv
  <2>8. PlaceInv'
    BY <1>3 DEF PlaceInv, Placing, NatsIdle
  <2> QED
    BY <2>5, <2>7, <2>8 DEF LedgerInv
<1> QED
  BY <1>2, <1>3 DEF RecordOpen

\* The executor's steps leave the row that is being placed alone.
LEMMA LedgerExecutorRow ==
    ASSUME TypeOK, TypeOK', LedgerInv, UNCHANGED <<book, nats>>, NEW r \in Rows,
           \A q \in Rows \ {r} : sell'[q] = sell[q],
           RowOK(r)', sell'[r].size = sell[r].size, sell'[r].st # "none",
           sell[r].eoi # NoEoi \/ nats.row # r \/ nats.pc \notin Placing \ {"insert"}
    PROVE  RowInv' /\ BookInv' /\ PlaceInv'
<1>1. RowInv'
  <2>1. ASSUME NEW q \in Rows PROVE RowOK(q)'
    <3>1. CASE q = r
      BY <3>1
    <3>2. CASE q # r
      BY <3>2, RowStays, SameBookGrows DEF LedgerInv, RowInv
    <3> QED
      BY <3>1, <3>2
  <2> QED
    BY <2>1 DEF RowInv
<1>2. BookInv'
  <2>1. \A q \in Rows : sell'[q].size = sell[q].size /\ (sell'[q].st = "none" => sell[q].st = "none")
    OBVIOUS
  <2> QED
    BY <2>1, BookStays DEF LedgerInv
<1>3. PlaceInv'
  <2>1. nats.pc \in Placing \ {"insert"} => sell'[nats.row] = sell[nats.row]
    <3>1. nats.pc \in Placing \ {"insert"} => nats.row \in Rows /\ sell[nats.row].eoi = NoEoi
      BY DEF LedgerInv, PlaceInv
    <3> QED
      BY <3>1
  <2> QED
    BY <2>1, PlaceStays DEF LedgerInv
<1> QED
  BY <1>1, <1>2, <1>3

\* A step of the executor that does not touch rows and book.
LEMMA LedgerExecutorFrame ==
    ASSUME TypeOK, TypeOK', LedgerInv, UNCHANGED <<sell, book, nats>>, AnswerInv'
    PROVE  LedgerInv'
<1>1. RowInv'
  BY RowStays, SameBookGrows DEF LedgerInv, RowInv
<1>2. BookInv' /\ PlaceInv'
  BY BookStays, PlaceStays DEF LedgerInv
<1> QED
  BY <1>1, <1>2 DEF LedgerInv

\* What the executor has in hand when it writes, settles or recovers.
LEMMA PolledRow ==
    ASSUME TypeOK, LedgerInv, poll.pc \in Polling
    PROVE  /\ poll \in PollState /\ sell \in [Rows -> SellRow]
           /\ poll.row \in Rows /\ poll.mkt \in Markets
           /\ sell[poll.row].mkt = poll.mkt /\ sell[poll.row].eoi # NoEoi
           /\ sell[poll.row].eoi \in Attempts /\ RowOK(poll.row)
<1>1. poll.row \in Rows /\ poll.mkt \in Markets /\ sell[poll.row].mkt = poll.mkt
      /\ sell[poll.row].eoi # NoEoi
  BY DEF LedgerInv, AnswerInv
<1>2. sell[poll.row].eoi \in Attempts /\ RowOK(poll.row)
  BY <1>1, RowTypes DEF LedgerInv, RowInv
<1> QED
  BY <1>1, <1>2 DEF TypeOK

\* A database error during a poll ends it or leaves the row to the recovery.
LEMMA AnswerRaises ==
    ASSUME TypeOK, LedgerInv, poll.pc \in Polling, PollRaises, UNCHANGED sell
    PROVE  AnswerInv'
<1>1. CASE poll' = PollIdle
  BY <1>1 DEF AnswerInv, Polling, PollIdle
<1>2. CASE poll' = [poll EXCEPT !.pc = "recover"]
  <2>1. poll'.pc = "recover" /\ poll'.row = poll.row /\ poll'.mkt = poll.mkt
    BY <1>2, PolledRow DEF PollState
  <2> QED
    BY <2>1, PolledRow DEF AnswerInv
<1> QED
  BY <1>1, <1>2 DEF PollRaises

LEMMA LedgerEntry ==
    ASSUME TypeOK, TypeOK', LedgerInv, Entry \/ Notify PROVE LedgerInv'
<1>1. poll \in PollState
  BY DEF TypeOK
<1>2. UNCHANGED <<sell, book, nats>>
  BY DEF Entry, EntryFill, Notify, NatsSide
<1>3. \/ poll' = PollIdle \/ (poll' = poll /\ poll.pc = "idle")
      \/ poll'.pc = "notify" /\ poll'.mkt \in Markets
  <2>1. CASE Notify
    BY <2>1 DEF Notify
  <2>2. ASSUME NEW m \in Markets, NEW complete \in BOOLEAN, EntryFill(m, complete)
        PROVE  \/ poll'.pc = "notify" /\ poll'.mkt = m
               \/ poll' = poll /\ poll.pc = "idle"
    <3>1. CASE complete
      BY <1>1, <2>2, <3>1 DEF EntryFill, PollState
    <3>2. CASE ~complete
      BY <2>2, <3>2 DEF EntryFill
    <3> QED
      BY <3>1, <3>2
  <2> QED
    BY <2>1, <2>2 DEF Entry
<1>4. AnswerInv'
  BY <1>3 DEF AnswerInv, Polling, PollIdle
<1> QED
  BY <1>2, <1>4, LedgerExecutorFrame

LEMMA LedgerPoll ==
    ASSUME TypeOK, TypeOK', LedgerInv, NEW r \in Rows, PollExit(r) PROVE LedgerInv'
<1>1. /\ sell[r].st \in WorkingStatus /\ UNCHANGED <<sell, book, nats>> /\ poll \in PollState
  BY DEF PollExit, NatsSide, TypeOK
<1>2. RowOK(r) /\ sell[r].eoi # NoEoi /\ sell[r].mkt \in Markets /\ sell[r].eoi \in Attempts
      /\ sell[r].filled <= book[r][sell[r].eoi].filled
      /\ sell[r].working = sell[r].size - sell[r].filled
  <2>1. RowOK(r) /\ Working(r)
    BY <1>1 DEF LedgerInv, RowInv, Working
  <2>2. sell[r].eoi # NoEoi
    BY <2>1 DEF RowOK
  <2> QED
    BY <2>1, <2>2, RowTypes DEF RowOK
<1> DEFINE o == sell[r]
           b == book[r][o.eoi]
<1>3. poll' = [poll EXCEPT !.pc = "write", !.mkt = o.mkt, !.row = r,
                          !.st = Answer(b, o.size), !.filled = b.filled,
                          !.remaining = o.size - b.filled,
                          !.sold = b.filled - o.filled,
                          !.working = o.size - b.filled - o.working]
  BY DEF PollExit
<1>4. /\ poll'.pc = "write" /\ poll'.mkt = o.mkt /\ poll'.row = r /\ poll'.filled = b.filled
      /\ poll'.remaining = o.size - b.filled /\ poll'.sold = b.filled - o.filled
      /\ poll'.working = o.size - b.filled - o.working
  <2> HIDE DEF o, b
  <2> QED
    BY <1>1, <1>3 DEF PollState
<1>5. b.filled \in Nat /\ o.filled \in Nat /\ o.size \in Int /\ o.working \in Int
  BY <1>2, RowTypes
<1>6. AnswerInv'
  <2>1. 0 <= b.filled - o.filled /\ o.filled <= b.filled
        /\ o.size - b.filled - o.working = 0 - (b.filled - o.filled)
    <3>1. o.filled <= b.filled /\ o.working = o.size - o.filled
      BY <1>2
    <3> HIDE DEF o, b
    <3> QED
      BY <1>5, <3>1
  <2>2. /\ poll'.mkt \in Markets /\ poll'.row \in Rows
        /\ sell'[poll'.row] = o /\ book'[poll'.row][sell'[poll'.row].eoi] = b
    BY <1>1, <1>2, <1>4
  <2>3. 0 <= poll'.sold /\ poll'.working = 0 - poll'.sold /\ o.filled <= poll'.filled
        /\ poll'.filled <= b.filled
    BY <1>4, <1>5, <2>1
  <2>4. o.mkt = poll'.mkt /\ o.eoi # NoEoi /\ o.st \in WorkingStatus
    BY <1>1, <1>2, <1>4
  <2> HIDE DEF o, b
  <2> QED
    BY <1>4, <2>2, <2>3, <2>4 DEF AnswerInv, Working
<1> QED
  BY <1>1, <1>6, LedgerExecutorFrame

\* The answer is written: the row shows what the CLOB had filled when it was asked.
LEMMA LedgerWrite == ASSUME TypeOK, TypeOK', LedgerInv, WriteExit PROVE LedgerInv'
<1>0. poll.pc = "write" /\ poll.pc \in Polling /\ UNCHANGED <<book, nats>>
  BY DEF WriteExit, NatsSide, Polling
<1>1. PICK r \in Rows : r = poll.row
  BY <1>0, PolledRow
<1>2. /\ poll \in PollState /\ sell \in [Rows -> SellRow] /\ poll.mkt \in Markets
      /\ sell[r].mkt = poll.mkt /\ sell[r].eoi # NoEoi /\ sell[r].eoi \in Attempts /\ RowOK(r)
  BY <1>0, <1>1, PolledRow
<1>3. CASE PollRaises /\ UNCHANGED sell
  <2>1. AnswerInv'
    BY <1>0, <1>3, AnswerRaises
  <2> QED
    BY <1>0, <1>3, <2>1, LedgerExecutorFrame
<1>4. CASE /\ sell' = [sell EXCEPT ![poll.row].st = poll.st, ![poll.row].filled = poll.filled,
                                   ![poll.row].working = poll.remaining]
           /\ poll' = [poll EXCEPT !.pc = "settle"]
  <2>1. \A q \in Rows \ {r} : sell'[q] = sell[q]
    BY <1>1, <1>2, <1>4
  <2>2. /\ sell'[r].st = poll.st /\ sell'[r].filled = poll.filled
        /\ sell'[r].working = poll.remaining /\ sell'[r].size = sell[r].size
        /\ sell'[r].eoi = sell[r].eoi /\ sell'[r].mkt = sell[r].mkt
    BY <1>1, <1>2, <1>4 DEF SellRow
  <2>3. /\ poll'.pc = "settle" /\ poll'.row = poll.row /\ poll'.mkt = poll.mkt
        /\ poll'.sold = poll.sold /\ poll'.working = poll.working
    BY <1>2, <1>4 DEF PollState
  <2>4. /\ poll.filled <= book[r][sell[r].eoi].filled
        /\ poll.remaining = sell[r].size - poll.filled
        /\ 0 <= poll.sold /\ poll.working = 0 - poll.sold
    BY <1>0, <1>1 DEF LedgerInv, AnswerInv
  <2>5. poll.st \notin {"none", "PENDING", "SENT"}
    BY <1>2 DEF PollState
  <2>6. RowOK(r)'
    BY <1>0, <1>2, <2>2, <2>4, <2>5 DEF RowOK
  <2>7. RowInv' /\ BookInv' /\ PlaceInv'
    BY <1>0, <1>2, <2>1, <2>2, <2>5, <2>6, LedgerExecutorRow
  <2>8. AnswerInv'
    BY <1>1, <1>2, <2>2, <2>3, <2>4 DEF AnswerInv
  <2> QED
    BY <2>7, <2>8 DEF LedgerInv
<1> QED
  BY <1>3, <1>4 DEF WriteExit

LEMMA LedgerSettle == ASSUME TypeOK, TypeOK', LedgerInv, SettleExit PROVE LedgerInv'
<1>0. poll.pc = "settle" /\ poll.pc \in Polling /\ UNCHANGED <<sell, book, nats>>
  BY DEF SettleExit, NatsSide, Polling
<1>1. AnswerInv'
  <2>1. CASE PollRaises
    BY <1>0, <2>1, AnswerRaises
  <2>2. CASE poll' = PollIdle
    BY <2>2 DEF AnswerInv, Polling, PollIdle
  <2>3. CASE poll' = [poll EXCEPT !.pc = "notify"]
    <3>1. poll'.pc = "notify" /\ poll'.mkt = poll.mkt /\ poll.mkt \in Markets
      BY <1>0, <2>3, PolledRow DEF PollState
    <3> QED
      BY <3>1 DEF AnswerInv, Polling
  <2> QED
    BY <2>1, <2>2, <2>3 DEF SettleExit
<1> QED
  BY <1>0, <1>1, LedgerExecutorFrame

\* A row that the executor closes without an answer.
LEMMA LedgerClose ==
    ASSUME TypeOK, TypeOK', LedgerInv, RecoverCanceled \/ \E r \in Rows : SweepZombie(r)
    PROVE  LedgerInv'
<1>0. UNCHANGED <<book, nats>>
  BY DEF RecoverCanceled, SweepZombie, NatsSide
<1>1. ASSUME NEW r \in Rows, NEW st \in {"CANCELED", "REJECTED"}, Write(r, st),
             RowOK(r), sell[r].st # "none",
             sell[r].eoi # NoEoi \/ nats.row # r
      PROVE  RowInv' /\ BookInv' /\ PlaceInv' /\ \A q \in Rows : sell'[q].mkt = sell[q].mkt
                                              /\ sell'[q].eoi = sell[q].eoi
  <2>1. sell \in [Rows -> SellRow]
    BY DEF TypeOK
  <2>2. sell' = [sell EXCEPT ![r] = [sell[r] EXCEPT !.st = st]]
    BY <1>1, <2>1 DEF Write
  <2>3. \A q \in Rows \ {r} : sell'[q] = sell[q]
    BY <2>1, <2>2
  <2>4. sell'[r] = [sell[r] EXCEPT !.st = st] /\ sell[r] \in SellRow
    BY <2>1, <2>2
  <2>5. /\ sell'[r].size = sell[r].size /\ sell'[r].filled = sell[r].filled
        /\ sell'[r].mkt = sell[r].mkt /\ sell'[r].eoi = sell[r].eoi
        /\ sell'[r].working = sell[r].working /\ sell'[r].st = st
    BY <2>4 DEF SellRow
  <2>6. RowOK(r)'
    BY <1>0, <1>1, <2>5, StatusNames DEF RowOK, Working
  <2>7. RowInv' /\ BookInv' /\ PlaceInv'
    BY <1>0, <1>1, <2>3, <2>5, <2>6, LedgerExecutorRow
  <2> QED
    BY <2>3, <2>5, <2>7
<1>2. CASE RecoverCanceled
  <2>1. poll.pc \in Polling /\ poll' = PollIdle
    BY <1>2 DEF RecoverCanceled, Polling
  <2>2. AnswerInv'
    BY <2>1 DEF AnswerInv, Polling, PollIdle
  <2>3. CASE UNCHANGED sell
    BY <1>0, <2>2, <2>3, LedgerExecutorFrame
  <2>4. CASE Write(poll.row, "CANCELED")
    <3>1. poll.row \in Rows /\ RowOK(poll.row) /\ sell[poll.row].eoi # NoEoi
      BY <2>1, PolledRow
    <3>2. sell[poll.row].st # "none"
      BY <3>1 DEF RowOK
    <3> QED
      BY <1>1, <2>2, <2>4, <3>1, <3>2 DEF LedgerInv
  <2> QED
    BY <1>2, <2>3, <2>4 DEF RecoverCanceled
<1>3. ASSUME NEW r \in Rows, SweepZombie(r) PROVE LedgerInv'
  <2>1. sell[r].st \in {"PENDING", "SENT"} /\ nats.row # r /\ UNCHANGED poll /\ poll.pc = "idle"
    BY <1>3 DEF SweepZombie
  <2>2. AnswerInv'
    BY <2>1 DEF AnswerInv, Polling
  <2>3. CASE UNCHANGED sell
    BY <1>0, <2>2, <2>3, LedgerExecutorFrame
  <2>4. CASE Write(r, "REJECTED")
    BY <1>1, <2>1, <2>2, <2>4 DEF LedgerInv, RowInv
  <2> QED
    BY <1>3, <2>3, <2>4 DEF SweepZombie
<1> QED
  BY <1>2, <1>3

\* The exchange fills and ends orders, also those the bot has not been told of.
LEMMA LedgerExchange == ASSUME TypeOK, TypeOK', LedgerInv, Exchange PROVE LedgerInv'
<1>1. PICK r \in Rows, k \in Attempts : Match(r, k) \/ EndOrder(r, k)
  BY DEF Exchange
<1>2. UNCHANGED <<sell, poll, nats>> /\ book \in [Rows -> [Attempts -> BookOrder]]
  BY <1>1 DEF Match, EndOrder, NatsSide, TypeOK
<1>3. \A q \in Rows, j \in Attempts : book[q][j].filled \in Nat /\ sell[q].size \in Int
  BY RowTypes
<1>4. \A q \in Rows, j \in Attempts : ~(q = r /\ j = k) => book'[q][j] = book[q][j]
  BY <1>1, <1>2 DEF Match, EndOrder
<1>5. book[r][k].st = "live" /\ book[r][k].filled < sell[r].size /\ sell[r].st # "none"
  <2>1. book[r][k].st = "live"
    BY <1>1 DEF Match, EndOrder
  <2> QED
    BY <2>1 DEF LedgerInv, BookInv
<1>6. \/ /\ book'[r][k].filled = book[r][k].filled + 1
         /\ book'[r][k].st = IF book[r][k].filled + 1 = sell[r].size THEN "matched" ELSE "live"
      \/ book'[r][k].filled = book[r][k].filled /\ book'[r][k].st = "ended"
  <2>1. CASE Match(r, k)
    <3>1. book'[r][k] = [st |-> IF book[r][k].filled + 1 = sell[r].size THEN "matched" ELSE "live",
                         filled |-> book[r][k].filled + 1]
      BY <1>2, <2>1 DEF Match
    <3> QED
      BY <3>1
  <2>2. CASE EndOrder(r, k)
    <3>1. book'[r][k] = [book[r][k] EXCEPT !.st = "ended"] /\ book[r][k] \in BookOrder
      BY <1>2, <2>2 DEF EndOrder
    <3> QED
      BY <3>1 DEF BookOrder
  <2> QED
    BY <1>1, <2>1, <2>2
<1>7. BookGrows
  BY <1>3, <1>4, <1>6 DEF BookGrows
<1>8. RowInv' /\ AnswerInv'
  BY <1>2, <1>7, RowStays, AnswerStays DEF LedgerInv, RowInv
<1>9. BookInv'
  <2>1. ASSUME NEW q \in Rows, NEW j \in Attempts
        PROVE  /\ book'[q][j].filled <= sell[q].size
               /\ book'[q][j].st = "live" => book'[q][j].filled < sell[q].size
               /\ sell[q].st = "none" => sell[q].size = 0 /\ book'[q][j].st = "none"
    <3>1. CASE q = r /\ j = k
      BY <1>3, <1>5, <1>6, <3>1
    <3>2. CASE ~(q = r /\ j = k)
      BY <1>4, <3>2 DEF LedgerInv, BookInv
    <3> QED
      BY <3>1, <3>2
  <2> QED
    BY <1>2, <2>1 DEF BookInv
<1>10. PlaceInv'
  <2>1. nats.pc \in {"reserve", "send", "submit"} =>
            \A j \in Attempts : (nats.pc = "submit" => nats.try <= j) =>
                book'[nats.row][j] = book[nats.row][j]
    <3> SUFFICES ASSUME nats.pc \in {"reserve", "send", "submit"}, NEW j \in Attempts,
                        nats.pc = "submit" => nats.try <= j
                 PROVE  book'[nats.row][j] = book[nats.row][j]
      OBVIOUS
    <3>1. nats.row \in Rows /\ book[nats.row][j].st = "none"
      BY DEF LedgerInv, PlaceInv, Placing
    <3>2. ~(nats.row = r /\ j = k)
      BY <1>5, <3>1
    <3> QED
      BY <1>4, <3>1, <3>2
  <2>2. nats' = nats /\ PlaceInv /\ sell' = sell
    BY <1>2 DEF LedgerInv
  <2> QED
    BY <2>1, <2>2, PlaceStays
<1> QED
  BY <1>8, <1>9, <1>10 DEF LedgerInv

\* A restart forgets what the two threads had in hand; the tables stay.
LEMMA LedgerRestart == ASSUME TypeOK, TypeOK', LedgerInv, Restart PROVE LedgerInv'
<1>1. nats' = NatsIdle /\ poll' = PollIdle /\ UNCHANGED <<sell, book>>
  BY DEF Restart
<1>2. PlaceInv' /\ AnswerInv'
  BY <1>1 DEF PlaceInv, AnswerInv, Placing, Polling, NatsIdle, PollIdle
<1>3. RowInv'
  BY <1>1, RowStays, SameBookGrows DEF LedgerInv, RowInv
<1>4. BookInv'
  BY <1>1, BookStays DEF LedgerInv
<1> QED
  BY <1>2, <1>3, <1>4 DEF LedgerInv

LEMMA LedgerHasId == TypeOK /\ LedgerInv => HasId
BY RowTypes DEF LedgerInv, RowInv, RowOK, HasId

LEMMA LedgerInit == Init => TypeOK /\ LedgerInv
<1> SUFFICES ASSUME Init PROVE TypeOK /\ LedgerInv
  OBVIOUS
<1>1. \A r \in Rows : sell[r] = NoOrder
  BY DEF Init
<1>2. RowInv
  BY <1>1, StatusNames DEF RowInv, RowOK, NoOrder, Working
<1>3. BookInv
  BY <1>1 DEF Init, BookInv, NoOrder
<1>4. PlaceInv /\ AnswerInv
  BY DEF Init, PlaceInv, AnswerInv, Placing, Polling, NatsIdle, PollIdle
<1> QED
  BY <1>2, <1>3, <1>4, TypeInit DEF LedgerInv

LEMMA LedgerStep == TypeOK /\ LedgerInv /\ [Next]_vars => TypeOK' /\ LedgerInv'
<1> SUFFICES ASSUME TypeOK, LedgerInv, [Next]_vars PROVE TypeOK' /\ LedgerInv'
  OBVIOUS
<1>1. TypeOK'
  BY LedgerHasId, TypeStep
<1>2. CASE Snapshot \/ Fill \/ Nats
  BY <1>1, <1>2, LedgerLooking, LedgerInsert, LedgerPlacing, LedgerSubmit, LedgerRecordOpen
     DEF Nats, PlaceExit
<1>3. CASE Entry \/ Executor
  BY <1>1, <1>3, LedgerEntry, LedgerPoll, LedgerWrite, LedgerSettle, LedgerClose DEF Executor
<1>4. CASE Exchange \/ Restart
  BY <1>1, <1>4, LedgerExchange, LedgerRestart
<1>5. CASE UNCHANGED vars
  <2>1. UNCHANGED <<sell, book, nats, poll>>
    BY <1>5 DEF vars
  <2>2. PlaceInv'
    BY <2>1, PlaceStays DEF LedgerInv
  <2> QED
    BY <1>1, <2>1, <2>2, LedgerFrame
<1> QED
  BY <1>2, <1>3, <1>4, <1>5 DEF Next

-----------------------------------------------------------------------------
(* What the rows of a market add up to.                                    *)

LEMMA RowsFinite == IsFiniteSet(Rows) /\ \A m : IsFiniteSet(RowsOf(m)) /\ RowsOf(m) \subseteq Rows
<1>1. IsFiniteSet(Rows)
  <2>1. 1 \in Int /\ MaxRows \in Int
    BY ExitAssumption
  <2> QED
    BY <2>1, FS_Interval DEF Rows
<1> QED
  BY <1>1, FS_Subset DEF RowsOf

LEMMA SumTypes ==
    ASSUME TypeOK, NEW m
    PROVE  RowsFilled(m) \in Nat /\ RowsWorking(m) \in Int
<1> DEFINE S == RowsOf(m)
           f == [r \in Rows |-> sell[r].filled]
           g == [r \in Rows |-> sell[r].working]
<1>1. IsFiniteSet(S) /\ \A r \in S : f[r] \in Nat /\ g[r] \in Int
  BY RowsFinite, RowTypes
<1>2. SumFunctionOnSet(f, S) \in Nat /\ SumFunctionOnSet(g, S) \in Int
  <2> HIDE DEF S, f, g
  <2> QED
    BY <1>1, SumNat, SumInt
<1> QED
  BY <1>2 DEF RowsFilled, RowsWorking

\* A row that stays in its market moves the sums of that market only.
LEMMA RowChanged ==
    ASSUME TypeOK, TypeOK', NEW r \in Rows,
           \A q \in Rows : sell'[q].mkt = sell[q].mkt,
           \A q \in Rows \ {r} : sell'[q].filled = sell[q].filled /\ sell'[q].working = sell[q].working,
           NEW m
    PROVE  /\ RowsFilled(m)' = RowsFilled(m) + (IF sell[r].mkt = m THEN sell'[r].filled - sell[r].filled
                                                                    ELSE 0)
           /\ RowsWorking(m)' = RowsWorking(m) + (IF sell[r].mkt = m
                                                  THEN sell'[r].working - sell[r].working ELSE 0)
<1> DEFINE S == RowsOf(m)
           f == [q \in Rows |-> sell[q].filled]
           g == [q \in Rows |-> sell[q].working]
           fn == [q \in Rows |-> sell'[q].filled]
           gn == [q \in Rows |-> sell'[q].working]
<1>1. {q \in Rows : sell'[q].mkt = m} = S
  BY DEF RowsOf
<1>2. IsFiniteSet(S) /\ S \subseteq Rows /\ (r \in S <=> sell[r].mkt = m)
  BY RowsFinite DEF RowsOf
<1>3. \A q \in Rows : f[q] \in Int /\ g[q] \in Int
  BY RowTypes
<1>4. \A q \in Rows : fn[q] \in Int /\ gn[q] \in Int
  <2>1. (\A q \in Rows : sell[q].filled \in Int /\ sell[q].working \in Int)'
    BY DEF TypeOK, SellRow
  <2> QED
    BY <2>1
<1>5. \A q \in Rows \ {r} : f[q] = fn[q] /\ g[q] = gn[q]
  OBVIOUS
<1>6. f[r] = sell[r].filled /\ g[r] = sell[r].working /\ fn[r] = sell'[r].filled /\ gn[r] = sell'[r].working
  OBVIOUS
<1>7. /\ RowsFilled(m) = SumFunctionOnSet(f, S) /\ RowsWorking(m) = SumFunctionOnSet(g, S)
      /\ RowsFilled(m)' = SumFunctionOnSet(fn, S) /\ RowsWorking(m)' = SumFunctionOnSet(gn, S)
  BY <1>1 DEF RowsFilled, RowsWorking, RowsOf
<1> HIDE DEF S, f, g, fn, gn
<1>8. CASE r \in S
  <2>1. SumFunctionOnSet(fn, S) = SumFunctionOnSet(f, S) + (fn[r] - f[r])
    BY <1>2, <1>3, <1>4, <1>5, <1>8, SumChange
  <2>2. SumFunctionOnSet(gn, S) = SumFunctionOnSet(g, S) + (gn[r] - g[r])
    BY <1>2, <1>3, <1>4, <1>5, <1>8, SumChange
  <2> QED
    BY <1>2, <1>6, <1>7, <1>8, <2>1, <2>2
<1>9. CASE r \notin S
  <2>1. \A q \in S : f[q] = fn[q] /\ g[q] = gn[q]
    BY <1>2, <1>5, <1>9
  <2>2. SumFunctionOnSet(fn, S) = SumFunctionOnSet(f, S) /\ SumFunctionOnSet(gn, S) = SumFunctionOnSet(g, S)
    BY <1>2, <2>1, SumSame
  <2>3. SumFunctionOnSet(f, S) \in Int /\ SumFunctionOnSet(g, S) \in Int
    BY <1>2, <1>3, SumInt
  <2> QED
    BY <1>2, <1>7, <1>9, <2>2, <2>3
<1> QED
  BY <1>8, <1>9

\* Nothing moves as long as fills and offers do not.
LEMMA RowsSame ==
    ASSUME TypeOK, TypeOK',
           \A q \in Rows : /\ sell'[q].mkt = sell[q].mkt /\ sell'[q].filled = sell[q].filled
                           /\ sell'[q].working = sell[q].working,
           NEW m
    PROVE  RowsFilled(m)' = RowsFilled(m) /\ RowsWorking(m)' = RowsWorking(m)
<1>1. 1 \in Rows
  BY ExitAssumption DEF Rows
<1>2. sell[1].filled \in Nat /\ sell[1].working \in Int /\ RowsFilled(m) \in Int /\ RowsWorking(m) \in Int
  BY <1>1, RowTypes, SumTypes
<1>3. sell'[1].filled = sell[1].filled /\ sell'[1].working = sell[1].working
  BY <1>1
<1>4. /\ RowsFilled(m)' = RowsFilled(m) + (IF sell[1].mkt = m THEN sell'[1].filled - sell[1].filled ELSE 0)
      /\ RowsWorking(m)' = RowsWorking(m) + (IF sell[1].mkt = m THEN sell'[1].working - sell[1].working
                                                                ELSE 0)
  BY <1>1, RowChanged
<1> QED
  BY <1>2, <1>3, <1>4

\* A new row adds nothing, whatever market it joins.
LEMMA RowInserted ==
    ASSUME TypeOK, TypeOK', NEW r \in Rows, sell[r] = NoOrder,
           \A q \in Rows \ {r} : sell'[q] = sell[q],
           sell'[r].filled = 0, sell'[r].working = 0, NEW m \in Markets
    PROVE  RowsFilled(m)' = RowsFilled(m) /\ RowsWorking(m)' = RowsWorking(m)
<1> DEFINE S == RowsOf(m)
           T == {q \in Rows : sell'[q].mkt = m}
           f == [q \in Rows |-> sell[q].filled]
           g == [q \in Rows |-> sell[q].working]
           fn == [q \in Rows |-> sell'[q].filled]
           gn == [q \in Rows |-> sell'[q].working]
<1>1. r \notin S /\ (T = S \/ T = S \cup {r})
  BY MarketAssumption DEF RowsOf, NoOrder
<1>2. IsFiniteSet(S) /\ S \subseteq Rows
  BY RowsFinite
<1>3. \A q \in Rows : fn[q] \in Int /\ gn[q] \in Int
  <2>1. (\A q \in Rows : sell[q].filled \in Int /\ sell[q].working \in Int)'
    BY DEF TypeOK, SellRow
  <2> QED
    BY <2>1
<1>4. \A q \in Rows \ {r} : f[q] = fn[q] /\ g[q] = gn[q]
  OBVIOUS
<1>5. fn[r] = 0 /\ gn[r] = 0
  OBVIOUS
<1>6. /\ RowsFilled(m) = SumFunctionOnSet(f, S) /\ RowsWorking(m) = SumFunctionOnSet(g, S)
      /\ RowsFilled(m)' = SumFunctionOnSet(fn, T) /\ RowsWorking(m)' = SumFunctionOnSet(gn, T)
  BY DEF RowsFilled, RowsWorking, RowsOf
<1> HIDE DEF S, T, f, g, fn, gn
<1>7. SumFunctionOnSet(fn, S) = SumFunctionOnSet(f, S) /\ SumFunctionOnSet(gn, S) = SumFunctionOnSet(g, S)
  <2>1. \A q \in S : f[q] = fn[q] /\ g[q] = gn[q]
    BY <1>1, <1>2, <1>4
  <2> QED
    BY <1>2, <2>1, SumSame
<1>8. SumFunctionOnSet(fn, S) \in Int /\ SumFunctionOnSet(gn, S) \in Int
  BY <1>2, <1>3, SumInt
<1>9. /\ SumFunctionOnSet(fn, S \cup {r}) = fn[r] + SumFunctionOnSet(fn, S)
      /\ SumFunctionOnSet(gn, S \cup {r}) = gn[r] + SumFunctionOnSet(gn, S)
  <2>1. \A q \in S \cup {r} : fn[q] \in Int /\ gn[q] \in Int
    BY <1>2, <1>3
  <2> QED
    BY <1>1, <1>2, <2>1, SumAdd
<1>10. CASE T = S
  BY <1>6, <1>7, <1>10
<1>11. CASE T = S \cup {r}
  BY <1>5, <1>6, <1>7, <1>8, <1>9, <1>11
<1> QED
  BY <1>1, <1>10, <1>11

-----------------------------------------------------------------------------
(* The steps, by what they do to rows and positions.                       *)

\* The fills and offers of no market move, and no position.
Calm ==
    \A m \in Markets :
        /\ RowsFilled(m)' = RowsFilled(m) /\ RowsWorking(m)' = RowsWorking(m)
        /\ held'[m].sold = held[m].sold /\ held'[m].selling = held[m].selling

\* What a thread has in hand stays or is dropped.
Drops(m) == Unsettled(m)' = Unsettled(m) \/ Unsettled(m)' = 0
Yields(m) == Reserved(m)' = Reserved(m) \/ Reserved(m)' = 0

\* The poll writes the answer to the row.
Writes ==
    /\ poll.pc = "write" /\ poll'.pc = "settle" /\ poll'.mkt = poll.mkt /\ poll'.sold = poll.sold
    /\ UNCHANGED <<held, nats>>
    /\ \A m \in Markets :
          /\ RowsFilled(m)' = RowsFilled(m) + (IF m = poll.mkt THEN poll.sold ELSE 0)
          /\ RowsWorking(m)' = RowsWorking(m) - (IF m = poll.mkt THEN poll.sold ELSE 0)

\* The poll books what the answer added.
Settles ==
    /\ poll.pc = "settle" /\ poll'.pc # "settle" /\ UNCHANGED <<sell, nats>>
    /\ \A m \in Markets :
          /\ held'[m].sold = held[m].sold + (IF m = poll.mkt THEN poll.sold ELSE 0)
          /\ held'[m].selling = held[m].selling - (IF m = poll.mkt THEN poll.sold ELSE 0)

\* The row takes over what was reserved for it.
Opens ==
    /\ nats.pc = "ack" /\ nats' = NatsIdle /\ UNCHANGED <<held, poll>>
    /\ \A m \in Markets :
          /\ RowsFilled(m)' = RowsFilled(m)
          /\ RowsWorking(m)' = RowsWorking(m) + (IF m = nats.mkt THEN nats.net ELSE 0)

\* The reservation is taken, or given back.
Takes ==
    /\ nats.pc = "reserve" /\ nats'.pc = "send" /\ nats'.mkt = nats.mkt /\ nats'.net = nats.net
    /\ UNCHANGED <<sell, poll>>
    /\ \A m \in Markets :
          /\ held'[m].sold = held[m].sold
          /\ held'[m].selling = held[m].selling + (IF m = nats.mkt THEN nats.net ELSE 0)

GivesBack ==
    /\ nats.pc = "release" /\ nats' = NatsIdle /\ UNCHANGED <<sell, poll>>
    /\ \A m \in Markets :
          /\ held'[m].sold = held[m].sold
          /\ held'[m].selling = held[m].selling - (IF m = nats.mkt THEN nats.net ELSE 0)

\* Anything else; a reservation that is not taken needs a database error.
Rests ==
    /\ Calm
    /\ \A m \in Markets : Drops(m) /\ (Yields(m) \/ budget.db > 0)

LEMMA HeldTypes ==
    ASSUME TypeOK
    PROVE  \A m \in Markets : held[m].sold \in Int /\ held[m].selling \in Int /\ held[m].bought \in Nat
BY DEF TypeOK, Position

\* A step that leaves markets, fills and offers of the rows alone.
LEMMA CalmRows ==
    ASSUME TypeOK, TypeOK',
           \A q \in Rows : /\ sell'[q].mkt = sell[q].mkt /\ sell'[q].filled = sell[q].filled
                           /\ sell'[q].working = sell[q].working,
           \A m \in Markets : held'[m].sold = held[m].sold /\ held'[m].selling = held[m].selling
    PROVE  Calm
BY RowsSame DEF Calm

LEMMA KindsLooking ==
    ASSUME TypeOK, TypeOK', LedgerInv,
           Snapshot \/ Fill \/ PersistPeak \/ Hold \/ TriggerExit \/ Refresh
    PROVE  Rests
<1>n. nats \in NatsState /\ held \in [Markets -> Position]
  BY DEF TypeOK
<1>1. UNCHANGED <<sell, poll>>
  BY DEF Snapshot, OnSnapshot, Fill, HearFill, PersistPeak, Hold, TriggerExit, Refresh, ExecutorSide
<1>2. \A m \in Markets : held'[m].sold = held[m].sold /\ held'[m].selling = held[m].selling
  <2>1. CASE PersistPeak
    BY <1>n, <2>1 DEF PersistPeak, Position
  <2>2. CASE ~PersistPeak
    BY <2>2 DEF Snapshot, OnSnapshot, Fill, HearFill, Hold, TriggerExit, Refresh
  <2> QED
    BY <2>1, <2>2
<1>3. nats'.pc \in {"persist", "evaluate", "refresh", "idle", "insert"}
  <2>1. CASE Snapshot \/ Fill
    BY <2>1 DEF Snapshot, OnSnapshot, Fill, HearFill, NatsIdle
  <2>2. CASE PersistPeak \/ TriggerExit
    BY <1>n, <2>2 DEF PersistPeak, TriggerExit, Goto, NatsState
  <2>3. CASE Hold \/ Refresh
    BY <2>3 DEF Hold, Refresh, NatsIdle
  <2> QED
    BY <2>1, <2>2, <2>3
<1>4. Calm
  BY <1>1, <1>2, CalmRows
<1>5. \A m \in Markets : Drops(m) /\ Yields(m)
  BY <1>1, <1>3 DEF Drops, Yields, Unsettled, Reserved, Placing
<1> QED
  BY <1>4, <1>5 DEF Rests

LEMMA KindsPlacing ==
    ASSUME TypeOK, TypeOK', LedgerInv, PlaceExit
    PROVE  Rests \/ Opens \/ Takes \/ GivesBack
<1>n. nats \in NatsState /\ held \in [Markets -> Position] /\ sell \in [Rows -> SellRow]
  BY DEF TypeOK
<1>0. UNCHANGED poll /\ \A m \in Markets : Drops(m)
  BY DEF PlaceExit, InsertExit, Reserve, MarkSent, Submit, RecordOpen, RecordRejected, Release,
         ExecutorSide, Drops, Unsettled
<1>1. CASE InsertExit
  <2>1. nats'.pc \in {"idle", "reserve"} /\ UNCHANGED held
    <3>1. nats' = NatsIdle \/ \E r \in Rows : nats' = [nats EXCEPT !.pc = "reserve", !.row = r]
      BY <1>1 DEF InsertExit
    <3>2. ASSUME NEW r \in Rows, nats' = [nats EXCEPT !.pc = "reserve", !.row = r]
          PROVE  nats'.pc = "reserve"
      BY <1>n, <3>2 DEF NatsState
    <3>3. UNCHANGED held
      BY <1>1 DEF InsertExit
    <3>4. NatsIdle.pc = "idle"
      BY DEF NatsIdle
    <3>5. CASE nats' = NatsIdle
      BY <3>3, <3>4, <3>5
    <3>6. CASE \E r \in Rows : nats' = [nats EXCEPT !.pc = "reserve", !.row = r]
      <4>1. nats'.pc = "reserve"
        BY <3>2, <3>6, Zenon
      <4> QED
        BY <3>3, <4>1
    <3> QED
      BY <3>1, <3>5, <3>6
  <2>2. \A m \in Markets : Yields(m)
    BY <2>1 DEF Yields, Reserved, Placing
  <2>3. CASE UNCHANGED sell
    BY <1>0, <2>1, <2>2, <2>3, CalmRows DEF Rests
  <2>4. ASSUME NEW r \in Rows, Unused(r),
               sell' = [sell EXCEPT ![r] = [NoOrder EXCEPT !.st = "PENDING", !.mkt = nats.mkt,
                                                           !.size = nats.net]]
        PROVE  Rests
    <3>1. sell[r] = NoOrder
      BY <2>4 DEF Unused, LedgerInv, RowInv, RowOK
    <3>2. \A q \in Rows \ {r} : sell'[q] = sell[q]
      BY <1>n, <2>4
    <3>3. sell'[r].filled = 0 /\ sell'[r].working = 0
      BY <1>n, <2>4 DEF NoOrder
    <3>4. Calm
      BY <2>1, <3>1, <3>2, <3>3, RowInserted DEF Calm
    <3> QED
      BY <1>0, <2>2, <3>4 DEF Rests
  <2> QED
    BY <1>1, <2>3, <2>4 DEF InsertExit
<1>2. ASSUME nats.pc \in Placing \ {"insert", "reserve"},
             nats' = NatsIdle \/ (nats'.mkt = nats.mkt /\ nats'.net = nats.net),
             UNCHANGED held,
             UNCHANGED sell \/ \E st \in {"SENT", "REJECTED"} : Write(nats.row, st)
      PROVE  Rests
  <2>1. \A q \in Rows : /\ sell'[q].mkt = sell[q].mkt /\ sell'[q].filled = sell[q].filled
                        /\ sell'[q].working = sell[q].working
    <3>1. CASE UNCHANGED sell
      BY <3>1
    <3>2. ASSUME NEW st \in {"SENT", "REJECTED"}, Write(nats.row, st)
          PROVE  \A q \in Rows : /\ sell'[q].mkt = sell[q].mkt /\ sell'[q].filled = sell[q].filled
                                 /\ sell'[q].working = sell[q].working
      BY <1>2, <3>2, PlacingRow, StatusWritten
    <3> QED
      BY <1>2, <3>1, <3>2
  <2>2. Calm
    BY <1>2, <2>1, CalmRows
  <2>3. \A m \in Markets : Yields(m)
    BY <1>2 DEF Yields, Reserved, NatsIdle
  <2> QED
    BY <1>0, <2>2, <2>3 DEF Rests
<1>3. CASE Reserve
  <2>1. nats.pc = "reserve" /\ nats'.pc = "send" /\ nats'.mkt = nats.mkt /\ nats'.net = nats.net
        /\ UNCHANGED sell
    BY <1>n, <1>3 DEF Reserve, Goto, NatsState
  <2>2. nats.mkt \in Markets
    BY <2>1 DEF LedgerInv, PlaceInv
  <2>3. CASE held' = [held EXCEPT ![nats.mkt].selling = @ + nats.net]
    <3>1. \A m \in Markets :
              /\ held'[m].sold = held[m].sold
              /\ held'[m].selling = IF m = nats.mkt THEN held[m].selling + nats.net ELSE held[m].selling
      BY <1>n, <2>2, <2>3 DEF Position
    <3>2. \A m \in Markets : held[m].selling \in Int /\ nats.net \in Int
      BY <1>n, HeldTypes DEF NatsState
    <3>3. \A m \in Markets :
              held'[m].selling = held[m].selling + (IF m = nats.mkt THEN nats.net ELSE 0)
      BY <3>1, <3>2
    <3> QED
      BY <1>0, <2>1, <3>1, <3>3 DEF Takes
  <2>4. CASE DbError /\ UNCHANGED held
    <3>1. budget.db > 0
      BY <2>4 DEF DbError, Spend
    <3>2. Calm
      BY <2>1, <2>4, CalmRows
    <3> QED
      BY <1>0, <3>1, <3>2 DEF Rests
  <2> QED
    BY <1>3, <2>3, <2>4 DEF Reserve
<1>4. CASE MarkSent
  BY <1>n, <1>2, <1>4 DEF MarkSent, Goto, NatsState, Placing
<1>5. CASE Submit
  BY <1>n, <1>2, <1>5 DEF Submit, Goto, RetryOrGiveUp, NatsState, Placing
<1>6. CASE RecordRejected
  <2>1. nats.pc = "reject" /\ UNCHANGED held
    BY <1>6 DEF RecordRejected
  <2>2. nats' = NatsIdle \/ (nats'.mkt = nats.mkt /\ nats'.net = nats.net)
    BY <1>n, <1>6 DEF RecordRejected, Goto, NatsState
  <2>3. UNCHANGED sell \/ Write(nats.row, "REJECTED")
    BY <1>6 DEF RecordRejected
  <2> QED
    BY <1>2, <2>1, <2>2, <2>3 DEF Placing, NatsIdle
<1>7. CASE RecordOpen
  <2>0. nats.pc = "ack" /\ nats.pc \in Placing \ {"insert"} /\ UNCHANGED held
    BY <1>7 DEF RecordOpen, Placing
  <2>1. CASE Goto("reject") /\ UNCHANGED sell
    BY <1>n, <1>2, <2>0, <2>1 DEF Goto, NatsState
  <2>2. CASE /\ sell' = [sell EXCEPT ![nats.row].st = "OPEN", ![nats.row].eoi = nats.try,
                                     ![nats.row].working = nats.net]
             /\ nats' = NatsIdle
    <3>1. PICK r \in Rows : r = nats.row
      BY <2>0, PlacingRow
    <3>2. sell[r].mkt = nats.mkt /\ sell[r].working = 0 /\ sell[r].filled = 0 /\ nats.net \in Int
      BY <2>0, <3>1, PlacingRow
    <3>3. \A q \in Rows : /\ sell'[q].mkt = sell[q].mkt /\ sell'[q].filled = sell[q].filled
                          /\ q # r => sell'[q].working = sell[q].working
      BY <1>n, <2>2, <3>1 DEF SellRow
    <3>4. sell'[r].working = nats.net
      BY <1>n, <2>2, <3>1 DEF SellRow
    <3>5. ASSUME NEW m \in Markets
          PROVE  /\ RowsFilled(m)' = RowsFilled(m)
                 /\ RowsWorking(m)' = RowsWorking(m) + (IF m = nats.mkt THEN nats.net ELSE 0)
      <4>1. /\ RowsFilled(m)' = RowsFilled(m) + (IF sell[r].mkt = m THEN sell'[r].filled - sell[r].filled
                                                                    ELSE 0)
            /\ RowsWorking(m)' = RowsWorking(m) + (IF sell[r].mkt = m
                                                  THEN sell'[r].working - sell[r].working ELSE 0)
        BY <3>3, RowChanged
      <4>2. RowsFilled(m) \in Int /\ RowsWorking(m) \in Int
        BY SumTypes
      <4>3. sell'[r].filled = 0
        BY <3>2, <3>3
      <4> QED
        BY <3>2, <3>4, <4>1, <4>2, <4>3
    <3> QED
      BY <1>0, <2>0, <2>2, <3>5 DEF Opens
  <2> QED
    BY <1>7, <2>1, <2>2 DEF RecordOpen
<1>8. CASE Release
  <2>0. nats.pc = "release" /\ nats' = NatsIdle /\ UNCHANGED sell /\ nats.mkt \in Markets
    BY <1>8 DEF Release, LedgerInv, PlaceInv
  <2>1. CASE UNCHANGED held
    BY <1>2, <2>0, <2>1 DEF Placing
  <2>2. CASE held' = [held EXCEPT ![nats.mkt].selling = @ - nats.net]
    <3>1. \A m \in Markets :
              /\ held'[m].sold = held[m].sold
              /\ held'[m].selling = IF m = nats.mkt THEN held[m].selling - nats.net ELSE held[m].selling
      BY <1>n, <2>0, <2>2 DEF Position
    <3>2. \A m \in Markets : held[m].selling \in Int /\ nats.net \in Int
      BY <1>n, HeldTypes DEF NatsState
    <3>3. \A m \in Markets :
              held'[m].selling = held[m].selling - (IF m = nats.mkt THEN nats.net ELSE 0)
      BY <3>1, <3>2
    <3> QED
      BY <1>0, <2>0, <3>1, <3>3 DEF GivesBack
  <2> QED
    BY <1>8, <2>1, <2>2 DEF Release
<1> QED
  BY <1>1, <1>3, <1>4, <1>5, <1>6, <1>7, <1>8 DEF PlaceExit

LEMMA KindsExecutor ==
    ASSUME TypeOK, TypeOK', LedgerInv, Entry \/ Executor
    PROVE  Rests \/ Writes \/ Settles
<1>n. /\ held \in [Markets -> Position] /\ sell \in [Rows -> SellRow] /\ poll \in PollState
  BY DEF TypeOK
<1>0. UNCHANGED nats /\ \A m \in Markets : Yields(m)
  BY DEF Entry, EntryFill, Executor, PollExit, WriteExit, SettleExit, RecoverCanceled, Notify,
         SweepZombie, NatsSide, Yields, Reserved
<1>1. ASSUME poll' = poll \/ poll'.pc # "settle", UNCHANGED held,
             \A q \in Rows : /\ sell'[q].mkt = sell[q].mkt /\ sell'[q].filled = sell[q].filled
                             /\ sell'[q].working = sell[q].working
      PROVE  Rests
  <2>1. Calm
    BY <1>1, CalmRows
  <2>2. \A m \in Markets : Drops(m)
    BY <1>1 DEF Drops, Unsettled
  <2> QED
    BY <1>0, <2>1, <2>2 DEF Rests
<1>2. ASSUME NEW m \in Markets, NEW complete \in BOOLEAN, EntryFill(m, complete) PROVE Rests
  <2>1. UNCHANGED sell /\ poll.pc = "idle"
    BY <1>2 DEF EntryFill
  <2>2. Calm
    <3>1. \A q \in Markets : held'[q].sold = held[q].sold /\ held'[q].selling = held[q].selling
      BY <1>n, <1>2 DEF EntryFill, Position
    <3> QED
      BY <2>1, <3>1, CalmRows
  <2>3. poll'.pc # "settle"
    BY <1>n, <1>2, <2>1 DEF EntryFill, PollState
  <2>4. \A q \in Markets : Drops(q)
    BY <2>3 DEF Drops, Unsettled
  <2> QED
    BY <1>0, <2>2, <2>4 DEF Rests
<1>3. ASSUME NEW r \in Rows, PollExit(r) PROVE Rests
  <2>1. poll'.pc = "write" /\ UNCHANGED <<held, sell>>
    BY <1>n, <1>3 DEF PollExit, PollState
  <2> QED
    BY <1>1, <2>1
<1>4. PollRaises => poll'.pc \in {"idle", "recover"}
  <2>1. PollIdle.pc = "idle" /\ [poll EXCEPT !.pc = "recover"].pc = "recover"
    BY <1>n DEF PollIdle, PollState
  <2> QED
    BY <2>1 DEF PollRaises
<1>5. CASE WriteExit
  <2>0. poll.pc = "write" /\ poll.pc \in Polling /\ UNCHANGED held
    BY <1>5 DEF WriteExit, Polling
  <2>1. CASE PollRaises /\ UNCHANGED sell
    BY <1>1, <1>4, <2>0, <2>1
  <2>2. CASE /\ sell' = [sell EXCEPT ![poll.row].st = poll.st, ![poll.row].filled = poll.filled,
                                     ![poll.row].working = poll.remaining]
             /\ poll' = [poll EXCEPT !.pc = "settle"]
    <3>1. PICK r \in Rows : r = poll.row
      BY <2>0, PolledRow
    <3>2. /\ sell[r].mkt = poll.mkt /\ sell[r].working = sell[r].size - sell[r].filled
      BY <2>0, <3>1, PolledRow DEF RowOK
    <3>3. /\ poll.sold = poll.filled - sell[r].filled
          /\ poll.remaining = sell[r].size - poll.filled
      BY <2>0, <3>1 DEF LedgerInv, AnswerInv
    <3>4. /\ poll'.pc = "settle" /\ poll'.mkt = poll.mkt /\ poll'.sold = poll.sold
      BY <1>n, <2>2 DEF PollState
    <3>5. \A q \in Rows : /\ sell'[q].mkt = sell[q].mkt
                          /\ q # r => sell'[q].working = sell[q].working
                                      /\ sell'[q].filled = sell[q].filled
      BY <1>n, <2>2, <3>1 DEF SellRow
    <3>6. sell'[r].filled = poll.filled /\ sell'[r].working = poll.remaining
      BY <1>n, <2>2, <3>1 DEF SellRow
    <3>7. /\ poll.filled \in Int /\ poll.sold \in Int /\ poll.remaining \in Int
          /\ sell[r].size \in Int /\ sell[r].filled \in Int
      BY <1>n, RowTypes DEF PollState
    <3>8. /\ sell'[r].filled - sell[r].filled = poll.sold
          /\ sell'[r].working - sell[r].working = 0 - poll.sold
      BY <3>2, <3>3, <3>6, <3>7
    <3>9. ASSUME NEW m \in Markets
          PROVE  /\ RowsFilled(m)' = RowsFilled(m) + (IF m = poll.mkt THEN poll.sold ELSE 0)
                 /\ RowsWorking(m)' = RowsWorking(m) - (IF m = poll.mkt THEN poll.sold ELSE 0)
      <4>1. /\ RowsFilled(m)' = RowsFilled(m) + (IF sell[r].mkt = m THEN sell'[r].filled - sell[r].filled
                                                                    ELSE 0)
            /\ RowsWorking(m)' = RowsWorking(m) + (IF sell[r].mkt = m
                                                  THEN sell'[r].working - sell[r].working ELSE 0)
        BY <3>5, RowChanged
      <4>2. RowsFilled(m) \in Int /\ RowsWorking(m) \in Int
        BY SumTypes
      <4> QED
        BY <3>2, <3>7, <3>8, <4>1, <4>2
    <3> QED
      BY <1>0, <2>0, <3>4, <3>9 DEF Writes
  <2> QED
    BY <1>5, <2>1, <2>2 DEF WriteExit
<1>6. CASE SettleExit
  <2>0. poll.pc = "settle" /\ poll.pc \in Polling /\ UNCHANGED sell
    BY <1>6 DEF SettleExit, Polling
  <2>1. CASE PollRaises /\ UNCHANGED held
    BY <1>1, <1>4, <2>0, <2>1
  <2>2. CASE /\ held' = [held EXCEPT ![poll.mkt].sold = @ + poll.sold,
                                     ![poll.mkt].selling = @ + poll.working]
             /\ poll' = IF poll.st = "FILLED" THEN [poll EXCEPT !.pc = "notify"] ELSE PollIdle
    <3>1. poll.mkt \in Markets
      BY <2>0, PolledRow
    <3>2. poll.working = 0 - poll.sold
      BY <2>0 DEF LedgerInv, AnswerInv
    <3>3. poll'.pc # "settle"
      <4>1. PollIdle.pc = "idle" /\ [poll EXCEPT !.pc = "notify"].pc = "notify"
        BY <1>n DEF PollIdle, PollState
      <4> QED
        BY <2>2, <4>1
    <3>4. \A m \in Markets :
              /\ held'[m].sold = IF m = poll.mkt THEN held[m].sold + poll.sold ELSE held[m].sold
              /\ held'[m].selling = IF m = poll.mkt THEN held[m].selling + poll.working
                                                    ELSE held[m].selling
      BY <1>n, <2>2, <3>1 DEF Position
    <3>5. \A m \in Markets :
              /\ held'[m].sold = held[m].sold + (IF m = poll.mkt THEN poll.sold ELSE 0)
              /\ held'[m].selling = held[m].selling - (IF m = poll.mkt THEN poll.sold ELSE 0)
      <4>1. poll.sold \in Int
        BY <1>n DEF PollState
      <4> QED
        BY <3>2, <3>4, <4>1, HeldTypes
    <3> QED
      BY <1>0, <2>0, <3>3, <3>5 DEF Settles
  <2> QED
    BY <1>6, <2>1, <2>2 DEF SettleExit
<1>7. CASE Notify
  BY <1>1, <1>7 DEF Notify, PollIdle
<1>8. ASSUME NEW r \in Rows, NEW st \in {"CANCELED", "REJECTED"}, Write(r, st) \/ UNCHANGED sell
      PROVE  \A q \in Rows : /\ sell'[q].mkt = sell[q].mkt /\ sell'[q].filled = sell[q].filled
                             /\ sell'[q].working = sell[q].working
  BY <1>n, <1>8 DEF Write, SellRow
<1>9. CASE RecoverCanceled
  <2>1. poll.row \in Rows
    <3>1. poll.pc \in Polling
      BY <1>9 DEF RecoverCanceled, Polling
    <3> QED
      BY <3>1, PolledRow
  <2>2. (Write(poll.row, "CANCELED") \/ UNCHANGED sell) /\ poll' = PollIdle /\ UNCHANGED held
    BY <1>9 DEF RecoverCanceled
  <2>3. poll'.pc # "settle"
    BY <2>2 DEF PollIdle
  <2> QED
    BY <1>1, <1>8, <2>1, <2>2, <2>3
<1>10. ASSUME NEW r \in Rows, SweepZombie(r) PROVE Rests
  <2>1. (Write(r, "REJECTED") \/ UNCHANGED sell) /\ UNCHANGED <<poll, held>>
    BY <1>10 DEF SweepZombie
  <2> QED
    BY <1>1, <1>8, <2>1
<1> QED
  BY <1>2, <1>3, <1>5, <1>6, <1>7, <1>9, <1>10 DEF Entry, Executor

LEMMA StepKinds ==
    ASSUME TypeOK, TypeOK', LedgerInv, [Next]_vars
    PROVE  Rests \/ Writes \/ Settles \/ Opens \/ Takes \/ GivesBack
<1>1. CASE Exchange \/ UNCHANGED vars
  <2>1. UNCHANGED <<held, sell, poll, nats>>
    BY <1>1 DEF Exchange, Match, EndOrder, NatsSide, vars
  <2>2. Calm
    BY <2>1, CalmRows
  <2> QED
    BY <2>1, <2>2 DEF Rests, Drops, Yields, Unsettled, Reserved
<1>2. CASE Restart
  <2>1. UNCHANGED <<held, sell>> /\ poll' = PollIdle /\ nats' = NatsIdle
    BY <1>2 DEF Restart
  <2>2. Calm
    BY <2>1, CalmRows
  <2> QED
    BY <2>1, <2>2 DEF Rests, Drops, Yields, Unsettled, Reserved, PollIdle, NatsIdle, Placing
<1> QED
  BY <1>1, <1>2, KindsLooking, KindsPlacing, KindsExecutor DEF Next, Nats

-----------------------------------------------------------------------------
(* Booked once.                                                            *)

\* A poll's answer is never negative, and neither is a reservation.
LEMMA InHandTypes ==
    ASSUME TypeOK, LedgerInv, NEW m \in Markets
    PROVE  /\ Unsettled(m) \in Int /\ Unsettled(m) >= 0
           /\ Reserved(m) \in Int /\ Reserved(m) >= 0
<1>1. poll.sold \in Int /\ nats.net \in Int
  BY DEF TypeOK, PollState, NatsState
<1>2. poll.pc = "settle" => 0 <= poll.sold
  BY DEF LedgerInv, AnswerInv
<1>3. nats.pc \in Placing => nats.net > 0
  BY DEF LedgerInv, PlaceInv, Placing
<1> QED
  BY <1>1, <1>2, <1>3 DEF Unsettled, Reserved

LEMMA SoldStep ==
    ASSUME TypeOK, TypeOK', LedgerInv, SoldInv, [Next]_vars
    PROVE  SoldInv'
<1> SUFFICES ASSUME NEW m \in Markets
             PROVE  held'[m].sold + Unsettled(m)' <= RowsFilled(m)'
  BY DEF SoldInv
<1>1. held[m].sold + Unsettled(m) <= RowsFilled(m)
  BY DEF SoldInv
<1>2. /\ held[m].sold \in Int /\ RowsFilled(m) \in Int
      /\ Unsettled(m) \in Int /\ Unsettled(m) >= 0 /\ poll.sold \in Int
  BY HeldTypes, SumTypes, InHandTypes DEF TypeOK, PollState
<1>3. CASE Rests
  BY <1>1, <1>2, <1>3 DEF Rests, Calm, Drops
<1>4. CASE Writes
  BY <1>1, <1>2, <1>4 DEF Writes, Unsettled
<1>5. CASE Settles
  <2>1. UNCHANGED sell /\ RowsFilled(m)' = RowsFilled(m)
    BY <1>5, RowsSame DEF Settles
  <2> QED
    BY <1>1, <1>2, <1>5, <2>1 DEF Settles, Unsettled
<1>6. CASE Opens
  BY <1>1, <1>2, <1>6 DEF Opens, Unsettled
<1>7. CASE Takes \/ GivesBack
  <2>1. UNCHANGED sell /\ RowsFilled(m)' = RowsFilled(m)
    BY <1>7, RowsSame DEF Takes, GivesBack
  <2> QED
    BY <1>1, <1>2, <1>7, <2>1 DEF Takes, GivesBack, Unsettled
<1> QED
  BY <1>3, <1>4, <1>5, <1>6, <1>7, StepKinds

-----------------------------------------------------------------------------
(* Nothing less than nothing on offer.                                     *)

LEMMA OfferStep ==
    ASSUME TypeOK, TypeOK', LedgerInv, OfferInv, budget.db = 0, [Next]_vars
    PROVE  OfferInv'
<1> SUFFICES ASSUME NEW m \in Markets
             PROVE  RowsWorking(m)' + Reserved(m)' + Unsettled(m)' <= held'[m].selling
  BY DEF OfferInv
<1>1. RowsWorking(m) + Reserved(m) + Unsettled(m) <= held[m].selling
  BY DEF OfferInv
<1>2. /\ held[m].selling \in Int /\ RowsWorking(m) \in Int
      /\ Unsettled(m) \in Int /\ Unsettled(m) >= 0 /\ poll.sold \in Int
      /\ Reserved(m) \in Int /\ Reserved(m) >= 0 /\ nats.net \in Int
  BY HeldTypes, SumTypes, InHandTypes DEF TypeOK, PollState, NatsState
<1>3. CASE Rests
  <2>1. /\ RowsWorking(m)' = RowsWorking(m) /\ held'[m].selling = held[m].selling
        /\ Unsettled(m)' = Unsettled(m) \/ Unsettled(m)' = 0
        /\ Reserved(m)' = Reserved(m) \/ Reserved(m)' = 0
    BY <1>3 DEF Rests, Calm, Drops, Yields
  <2> QED
    BY <1>1, <1>2, <2>1
<1>4. CASE Writes
  <2>1. Reserved(m)' = Reserved(m)
    BY <1>4 DEF Writes, Reserved
  <2>2. /\ Unsettled(m) = 0 /\ Unsettled(m)' = IF m = poll.mkt THEN poll.sold ELSE 0
        /\ RowsWorking(m)' = RowsWorking(m) - (IF m = poll.mkt THEN poll.sold ELSE 0)
        /\ held'[m].selling = held[m].selling
    BY <1>4 DEF Writes, Unsettled
  <2> QED
    BY <1>1, <1>2, <2>1, <2>2
<1>5. CASE Settles
  <2>1. UNCHANGED sell /\ RowsWorking(m)' = RowsWorking(m) /\ Reserved(m)' = Reserved(m)
    BY <1>5, RowsSame DEF Settles, Reserved
  <2>2. /\ Unsettled(m)' = 0 /\ Unsettled(m) = IF m = poll.mkt THEN poll.sold ELSE 0
        /\ held'[m].selling = held[m].selling - (IF m = poll.mkt THEN poll.sold ELSE 0)
    BY <1>5 DEF Settles, Unsettled
  <2> QED
    BY <1>1, <1>2, <2>1, <2>2
<1>6. CASE Opens
  <2>1. /\ Unsettled(m)' = Unsettled(m) /\ held'[m].selling = held[m].selling
        /\ Reserved(m)' = 0 /\ Reserved(m) = IF m = nats.mkt THEN nats.net ELSE 0
        /\ RowsWorking(m)' = RowsWorking(m) + (IF m = nats.mkt THEN nats.net ELSE 0)
    BY <1>6 DEF Opens, Unsettled, Reserved, Placing, NatsIdle
  <2> QED
    BY <1>1, <1>2, <2>1
<1>7. CASE Takes
  <2>1. UNCHANGED sell /\ RowsWorking(m)' = RowsWorking(m) /\ Unsettled(m)' = Unsettled(m)
    BY <1>7, RowsSame DEF Takes, Unsettled
  <2>2. /\ Reserved(m) = 0 /\ Reserved(m)' = IF m = nats.mkt THEN nats.net ELSE 0
        /\ held'[m].selling = held[m].selling + (IF m = nats.mkt THEN nats.net ELSE 0)
    BY <1>7 DEF Takes, Reserved, Placing
  <2> QED
    BY <1>1, <1>2, <2>1, <2>2
<1>8. CASE GivesBack
  <2>1. UNCHANGED sell /\ RowsWorking(m)' = RowsWorking(m) /\ Unsettled(m)' = Unsettled(m)
    BY <1>8, RowsSame DEF GivesBack, Unsettled
  <2>2. /\ Reserved(m)' = 0 /\ Reserved(m) = IF m = nats.mkt THEN nats.net ELSE 0
        /\ held'[m].selling = held[m].selling - (IF m = nats.mkt THEN nats.net ELSE 0)
    BY <1>8 DEF GivesBack, Reserved, Placing, NatsIdle
  <2> QED
    BY <1>1, <1>2, <2>1, <2>2
<1> QED
  BY <1>3, <1>4, <1>5, <1>6, <1>7, <1>8, StepKinds

\* A row that works offers what is left of it, never less than nothing.
LEMMA OffersAreNat == ASSUME TypeOK, LedgerInv, NEW m PROVE RowsWorking(m) \in Nat
<1>1. ASSUME NEW r \in Rows PROVE sell[r].working \in Nat
  <2>1. /\ sell[r].working \in Int /\ sell[r].size \in Int /\ sell[r].filled \in Nat
        /\ sell[r].eoi \in Attempts \union {NoEoi} /\ RowOK(r)
    BY RowTypes DEF LedgerInv, RowInv
  <2>2. CASE sell[r].eoi = NoEoi
    BY <2>1, <2>2 DEF RowOK
  <2>3. CASE sell[r].eoi # NoEoi
    <3> DEFINE b == book[r][sell[r].eoi].filled
    <3>1. b <= sell[r].size /\ b \in Nat
      BY <2>1, <2>3, RowTypes DEF LedgerInv, BookInv
    <3>2. sell[r].filled <= b /\ sell[r].working = sell[r].size - sell[r].filled
      BY <2>1, <2>3 DEF RowOK
    <3> HIDE DEF b
    <3> QED
      BY <2>1, <3>1, <3>2
  <2> QED
    BY <2>2, <2>3
<1> DEFINE S == RowsOf(m)
           g == [r \in Rows |-> sell[r].working]
<1>2. IsFiniteSet(S) /\ \A r \in S : g[r] \in Nat
  BY <1>1, RowsFinite
<1>3. SumFunctionOnSet(g, S) \in Nat
  <2> HIDE DEF S, g
  <2> QED
    BY <1>2, SumNat
<1> QED
  BY <1>3 DEF RowsWorking

LEMMA OfferIsAccurate == ASSUME TypeOK, LedgerInv, OfferInv PROVE SellingAccurate
<1> SUFFICES ASSUME NEW m \in Markets PROVE held[m].selling >= 0
  BY DEF SellingAccurate
<1>1. /\ RowsWorking(m) + Reserved(m) + Unsettled(m) <= held[m].selling
      /\ RowsWorking(m) \in Nat
      /\ Unsettled(m) \in Int /\ Unsettled(m) >= 0
      /\ Reserved(m) \in Int /\ Reserved(m) >= 0 /\ held[m].selling \in Int
  BY OffersAreNat, InHandTypes, HeldTypes DEF OfferInv
<1> QED
  BY <1>1

LEMMA InitSums ==
    ASSUME Init, NEW m \in Markets
    PROVE  /\ RowsFilled(m) = 0 /\ RowsWorking(m) = 0
           /\ held[m].sold = 0 /\ held[m].selling = 0
           /\ Unsettled(m) = 0 /\ Reserved(m) = 0
<1>1. RowsOf(m) = {}
  BY MarketAssumption DEF Init, RowsOf, NoOrder
<1>2. RowsFilled(m) = 0 /\ RowsWorking(m) = 0
  BY <1>1, SumEmpty DEF RowsFilled, RowsWorking
<1>3. held[m].sold = 0 /\ held[m].selling = 0
  BY DEF Init
<1>4. Unsettled(m) = 0 /\ Reserved(m) = 0
  BY DEF Init, Unsettled, Reserved, PollIdle, NatsIdle, Placing
<1> QED
  BY <1>2, <1>3, <1>4

\* No step gives a bounded event back.
LEMMA ErrorsSpent == ASSUME TypeOK, [Next]_vars PROVE budget'.db <= budget.db
<1>1. budget \in Budget
  BY DEF TypeOK
<1>2. ASSUME NEW what \in {"fill", "restart", "ack", "notice", "db"}, Spend(what)
      PROVE  budget'.db <= budget.db
  BY <1>1, <1>2 DEF Spend, Budget
<1>3. CASE Restart
  <2>1. \/ budget' = [budget EXCEPT !.restart = @ - 1]
        \/ budget' = [budget EXCEPT !.restart = @ - 1, !.notice = @ - 1]
        \/ budget' = [budget EXCEPT !.restart = @ - 1, !.db = @ - 1]
    BY <1>3 DEF Restart
  <2>2. ASSUME budget' = [budget EXCEPT !.restart = @ - 1] PROVE budget'.db = budget.db
    BY <1>1, <2>2 DEF Budget
  <2>3. ASSUME budget' = [budget EXCEPT !.restart = @ - 1, !.notice = @ - 1]
        PROVE  budget'.db = budget.db
    BY <1>1, <2>3 DEF Budget
  <2>4. ASSUME budget' = [budget EXCEPT !.restart = @ - 1, !.db = @ - 1]
        PROVE  budget'.db = budget.db - 1
    BY <1>1, <2>4 DEF Budget
  <2>5. budget'.db = budget.db \/ budget'.db = budget.db - 1
    BY <2>1, <2>2, <2>3, <2>4
  <2>6. budget.db \in Nat
    BY <1>1 DEF Budget
  <2> QED
    BY <2>5, <2>6
<1>4. CASE ~Restart
  <2>1. budget' = budget \/ \E what \in {"fill", "restart", "ack", "notice", "db"} : Spend(what)
    <3>1. CASE Snapshot \/ Fill
      BY <3>1 DEF Snapshot, OnSnapshot, Fill, HearFill, DbError
    <3>2. CASE Nats
      BY <3>2 DEF Nats, PersistPeak, Hold, TriggerExit, PlaceExit, InsertExit, Reserve, MarkSent,
                  Submit, RecordOpen, RecordRejected, Release, Refresh, DbError
    <3>3. CASE Entry \/ Executor
      BY <3>3 DEF Entry, EntryFill, Executor, PollExit, WriteExit, SettleExit, RecoverCanceled,
                  Notify, SweepZombie, PollRaises, DbError
    <3>4. CASE Exchange
      BY <3>4 DEF Exchange, Match, EndOrder
    <3>5. CASE UNCHANGED vars
      BY <3>5 DEF vars
    <3> QED
      BY <1>4, <3>1, <3>2, <3>3, <3>4, <3>5 DEF Next
  <2>2. CASE budget' = budget
    BY <1>1, <2>2 DEF Budget
  <2> QED
    BY <1>2, <2>1, <2>2
<1> QED
  BY <1>3, <1>4

-----------------------------------------------------------------------------
(* What is closed stays closed.                                            *)

Closed == {"FILLED", "CANCELED", "REJECTED"}

LEMMA ClosedStep ==
    ASSUME TypeOK, LedgerInv, [Next]_vars, NEW r \in Rows, sell[r].st \in Closed
    PROVE  sell'[r].st \in Closed
<1>s. sell \in [Rows -> SellRow]
  BY DEF TypeOK
<1>1. ASSUME NEW q, q \notin Rows \/ sell[q].st \notin Closed,
             \A p \in Rows : p # q => sell'[p] = sell[p]
      PROVE  sell'[r].st \in Closed
  BY <1>1
<1>2. ASSUME NEW q, NEW st \in Closed, Write(q, st) PROVE sell'[r].st \in Closed
  <2>1. sell' = [sell EXCEPT ![q] = [sell[q] EXCEPT !.st = st]]
    BY <1>s, <1>2 DEF Write
  <2>2. sell'[r] = sell[r] \/ (q = r /\ sell'[r] = [sell[r] EXCEPT !.st = st])
    BY <1>s, <2>1
  <2> QED
    BY <1>s, <2>2 DEF SellRow
<1>3. CASE UNCHANGED sell
  BY <1>3
<1>4. CASE PlaceExit
  <2>1. nats.pc \in {"submit", "send", "ack", "reject"} => sell[nats.row].st \notin Closed
    BY DEF LedgerInv, PlaceInv, Placing, Closed
  <2>2. CASE InsertExit
    <3>1. ASSUME NEW q \in Rows, Unused(q),
                 sell' = [sell EXCEPT ![q] = [NoOrder EXCEPT !.st = "PENDING", !.mkt = nats.mkt,
                                                             !.size = nats.net]]
          PROVE  sell'[r].st \in Closed
      <4>1. sell[q].st \notin Closed /\ \A p \in Rows : p # q => sell'[p] = sell[p]
        BY <1>s, <3>1 DEF Unused, Closed
      <4> QED
        BY <1>1, <4>1
    <3> QED
      BY <1>3, <2>2, <3>1 DEF InsertExit
  <2>3. CASE MarkSent
    <3>1. CASE Write(nats.row, "SENT")
      <4>1. nats.pc = "send" /\ \A p \in Rows : p # nats.row => sell'[p] = sell[p]
        BY <1>s, <2>3, <3>1 DEF MarkSent, Write
      <4> QED
        BY <1>1, <2>1, <4>1
    <3> QED
      BY <1>3, <2>3, <3>1 DEF MarkSent
  <2>4. CASE RecordOpen
    <3>1. nats.pc = "ack" /\ (UNCHANGED sell \/ \A p \in Rows : p # nats.row => sell'[p] = sell[p])
      BY <1>s, <2>4 DEF RecordOpen
    <3> QED
      BY <1>1, <1>3, <2>1, <3>1
  <2>5. CASE RecordRejected
    BY <1>2, <1>3, <2>5 DEF RecordRejected, Closed
  <2>6. CASE Reserve \/ Submit \/ Release
    BY <1>3, <2>6 DEF Reserve, Submit, Release
  <2> QED
    BY <1>4, <2>2, <2>3, <2>4, <2>5, <2>6 DEF PlaceExit
<1>5. CASE WriteExit
  <2>1. sell[poll.row].st \notin Closed
    BY <1>5 DEF WriteExit, LedgerInv, AnswerInv, Working, WorkingStatus, Closed
  <2>2. UNCHANGED sell \/ \A p \in Rows : p # poll.row => sell'[p] = sell[p]
    BY <1>s, <1>5 DEF WriteExit
  <2> QED
    BY <1>1, <1>3, <2>1, <2>2
<1>6. CASE RecoverCanceled
  BY <1>2, <1>3, <1>6 DEF RecoverCanceled, Closed
<1>7. ASSUME NEW q \in Rows, SweepZombie(q) PROVE sell'[r].st \in Closed
  BY <1>2, <1>3, <1>7 DEF SweepZombie, Closed
<1>8. CASE Snapshot \/ Fill \/ PersistPeak \/ Hold \/ TriggerExit \/ Refresh
  BY <1>3, <1>8 DEF Snapshot, OnSnapshot, Fill, HearFill, PersistPeak, Hold, TriggerExit, Refresh
<1>9. ASSUME Entry \/ SettleExit \/ Notify \/ (\E q \in Rows : PollExit(q))
      PROVE  sell'[r].st \in Closed
  BY <1>3, <1>9 DEF Entry, EntryFill, SettleExit, Notify, PollExit
<1>10. CASE Exchange \/ Restart \/ UNCHANGED vars
  BY <1>3, <1>10 DEF Exchange, Match, EndOrder, Restart, vars
<1> QED
  BY <1>4, <1>5, <1>6, <1>7, <1>8, <1>9, <1>10 DEF Next, Nats, Executor

-----------------------------------------------------------------------------
(* The peak.                                                               *)

\* What PeakStored says of one market.
PeakOK(m) ==
    Watched(m) =>
        /\ index[m].peak >= Larger(held[m].peak, Cost)
        /\ index[m].peak > Larger(held[m].peak, Cost) =>
               (nats.pc = "persist" /\ nats.mkt = m) \/ budget.db < MaxDbErrors

LEMMA PeakTypes ==
    ASSUME TypeOK
    PROVE  /\ \A m \in Markets : held[m].peak \in Nat /\ index[m].peak \in Nat /\ index[m].net \in Nat
           /\ nats.price \in Nat /\ nats.peak \in Nat /\ budget.db \in Nat
           /\ Cost \in Nat /\ MaxDbErrors \in Nat
BY ExitAssumption DEF TypeOK, Position, IndexEntry, NatsState, Budget

LEMMA PeakParts ==
    /\ PeakStored <=> \A m \in Markets : PeakOK(m)
    /\ PeakStored' <=> \A m \in Markets : PeakOK(m)'
BY DEF PeakStored, PeakOK

\* A step that moves no peak and takes the NATS thread out of neither of the steps
\* that hold one.
LEMMA PeakFrame ==
    ASSUME TypeOK, TypeOK', PeakInv, budget'.db <= budget.db,
           \A m \in Markets : /\ held'[m].peak = held[m].peak
                              /\ Watched(m)' <=> Watched(m)
                              /\ Watched(m) => index'[m].peak = index[m].peak,
           nats' = nats \/ (nats.pc # "persist" /\ nats'.pc \notin {"persist", "refresh"})
    PROVE  PeakInv'
<1>1. /\ budget.db \in Nat /\ budget'.db \in Nat /\ MaxDbErrors \in Nat /\ budget.db <= MaxDbErrors
  <2>1. (budget.db \in Nat)'
    BY DEF TypeOK, Budget
  <2> QED
    BY <2>1, PeakTypes DEF PeakInv
<1>2. budget'.db <= MaxDbErrors /\ (budget.db < MaxDbErrors => budget'.db < MaxDbErrors)
  BY <1>1
<1>3. ASSUME NEW m \in Markets PROVE PeakOK(m)'
  <2>1. PeakOK(m)
    BY PeakParts DEF PeakInv
  <2>2. Larger(held'[m].peak, Cost) = Larger(held[m].peak, Cost)
    OBVIOUS
  <2> QED
    BY <1>2, <2>1, <2>2 DEF PeakOK
<1>4. PeakStored'
  BY <1>3, PeakParts
<1>5. nats'.pc = "persist" => /\ nats'.mkt \in Markets /\ index'[nats'.mkt].net > 0
                              /\ nats'.price = index'[nats'.mkt].peak
  <2> SUFFICES ASSUME nats'.pc = "persist"
               PROVE  /\ nats.mkt \in Markets /\ index'[nats.mkt].net > 0 /\ nats' = nats
                      /\ nats.price = index'[nats.mkt].peak
    OBVIOUS
  <2>1. nats' = nats /\ nats.pc = "persist"
    OBVIOUS
  <2>2. PICK m \in Markets : m = nats.mkt
    BY <2>1 DEF PeakInv
  <2>3. Watched(m) /\ nats.price = index[m].peak
    BY <2>1, <2>2 DEF PeakInv
  <2>4. Watched(m)' /\ index'[m].peak = index[m].peak
    BY <2>3
  <2> QED
    BY <2>1, <2>2, <2>3, <2>4 DEF Watched
<1>6. nats'.pc = "refresh" => nats'.mkt \in Markets /\ nats'.peak = held'[nats'.mkt].peak
  BY DEF PeakInv
<1>7. \A m \in Markets : held'[m].peak = 0 \/ held'[m].peak >= Cost
  BY DEF PeakInv
<1> QED
  BY <1>2, <1>4, <1>5, <1>6, <1>7 DEF PeakInv, Watched

\* The snapshot ratchets the peak in memory first.
LEMMA PeakSnapshot ==
    ASSUME TypeOK, TypeOK', PeakInv, budget'.db <= budget.db, Snapshot
    PROVE  PeakInv'
<1>1. PICK m \in Markets, price \in Prices : OnSnapshot(m, price)
  BY DEF Snapshot
<1>2. /\ index \in [Markets -> IndexEntry] /\ price \in Nat /\ UNCHANGED <<held, budget>>
      /\ nats.pc = "idle" /\ Watched(m)
  BY <1>1, ExitAssumption DEF TypeOK, OnSnapshot, CanExit
<1>3. /\ \A q \in Markets : index'[q].net = index[q].net
      /\ \A q \in Markets \ {m} : index'[q] = index[q]
      /\ index'[m].peak = Larger(index[m].peak, price)
  BY <1>1, <1>2 DEF OnSnapshot, IndexEntry
<1>4. /\ nats'.pc = IF price > index[m].peak THEN "persist" ELSE "evaluate"
      /\ nats'.mkt = m /\ nats'.price = price
  BY <1>1 DEF OnSnapshot, NatsIdle
<1>5. ASSUME NEW q \in Markets PROVE PeakOK(q)'
  <2>1. PeakOK(q) /\ (Watched(q)' <=> Watched(q))
    BY <1>3, PeakParts DEF PeakInv, Watched
  <2>2. CASE q = m
    <3> DEFINE s == Larger(held[m].peak, Cost)
    <3>1. s \in Nat /\ index[m].peak \in Nat
      BY PeakTypes DEF Larger
    <3>2. index[m].peak >= s /\ (index[m].peak > s => budget.db < MaxDbErrors)
      BY <1>2, <2>1, <2>2 DEF PeakOK
    <3>3. Larger(held'[m].peak, Cost) = s
      BY <1>2
    <3> HIDE DEF s
    <3>4. CASE price > index[m].peak
      BY <1>2, <1>3, <1>4, <2>2, <3>1, <3>2, <3>3, <3>4 DEF PeakOK, Larger
    <3>5. CASE ~(price > index[m].peak)
      <4>1. index'[m].peak = index[m].peak
        BY <1>2, <1>3, <3>1, <3>5 DEF Larger
      <4> QED
        BY <1>2, <2>2, <3>2, <3>3, <4>1 DEF PeakOK
    <3> QED
      BY <3>4, <3>5
  <2>3. CASE q # m
    BY <1>2, <1>3, <2>1, <2>3 DEF PeakOK
  <2> QED
    BY <2>2, <2>3
<1>6. PeakStored'
  BY <1>5, PeakParts
<1>7. nats'.pc = "persist" => nats'.price = index'[m].peak /\ Watched(m)'
  BY <1>2, <1>3, <1>4, PeakTypes DEF Watched, Larger
<1> QED
  BY <1>2, <1>4, <1>6, <1>7 DEF PeakInv, Watched

\* The statement brings the table up to memory, or an error is spent.
LEMMA PeakPersist ==
    ASSUME TypeOK, TypeOK', PeakInv, budget'.db <= budget.db, PersistPeak
    PROVE  PeakInv'
<1>1. /\ nats \in NatsState /\ held \in [Markets -> Position] /\ nats.pc = "persist"
      /\ nats.mkt \in Markets /\ Watched(nats.mkt) /\ nats.price = index[nats.mkt].peak
      /\ UNCHANGED index /\ budget.db <= MaxDbErrors
  BY DEF TypeOK, PersistPeak, PeakInv
<1>2. nats'.pc = "evaluate"
  BY <1>1 DEF PersistPeak, Goto, NatsState
<1>3. PICK m \in Markets : m = nats.mkt
  BY <1>1
<1>4. CASE held' = [held EXCEPT ![nats.mkt].peak = Larger(@, nats.price)] /\ UNCHANGED budget
  <2>1. \A q \in Markets : held'[q].peak = IF q = m THEN Larger(held[m].peak, nats.price) ELSE held[q].peak
    BY <1>1, <1>3, <1>4 DEF Position
  <2>2. nats.price >= Larger(held[m].peak, Cost) /\ nats.price \in Nat /\ held[m].peak \in Nat /\ Cost \in Nat
    BY <1>1, <1>3, PeakTypes, PeakParts DEF PeakInv, PeakOK
  <2>3. held'[m].peak = nats.price /\ nats.price >= Cost
    BY <2>1, <2>2 DEF Larger
  <2>4. ASSUME NEW q \in Markets PROVE PeakOK(q)'
    <3>1. CASE q = m
      <4>1. Larger(held'[m].peak, Cost) = nats.price
        BY <2>2, <2>3 DEF Larger
      <4> QED
        BY <1>1, <1>3, <2>2, <3>1, <4>1 DEF PeakOK
    <3>2. CASE q # m
      <4>1. PeakOK(q) /\ held'[q].peak = held[q].peak
        BY <2>1, <3>2, PeakParts DEF PeakInv
      <4> QED
        BY <1>1, <1>2, <1>3, <1>4, <3>2, <4>1 DEF PeakOK, Watched
    <3> QED
      BY <3>1, <3>2
  <2>5. PeakStored'
    BY <2>4, PeakParts
  <2>6. \A q \in Markets : held'[q].peak = 0 \/ held'[q].peak >= Cost
    BY <2>1, <2>3 DEF PeakInv
  <2> QED
    BY <1>1, <1>2, <1>4, <2>5, <2>6 DEF PeakInv
<1>5. CASE DbError /\ UNCHANGED held
  <2>1. budget'.db < MaxDbErrors
    <3>1. budget'.db = budget.db - 1 /\ budget.db > 0
      BY <1>5 DEF DbError, Spend, TypeOK, Budget
    <3> QED
      BY <1>1, <3>1, PeakTypes
  <2>2. ASSUME NEW q \in Markets PROVE PeakOK(q)'
    <3>1. PeakOK(q)
      BY PeakParts DEF PeakInv
    <3> QED
      BY <1>1, <1>5, <2>1, <3>1 DEF PeakOK, Watched
  <2>3. PeakStored'
    BY <2>2, PeakParts
  <2>4. budget'.db <= MaxDbErrors
    <3>1. budget'.db \in Nat
      <4>1. (budget.db \in Nat)'
        BY DEF TypeOK, Budget
      <4> QED
        BY <4>1
    <3> QED
      BY <2>1, <3>1, PeakTypes
  <2> QED
    BY <1>2, <1>5, <2>3, <2>4 DEF PeakInv
<1> QED
  BY <1>4, <1>5 DEF PersistPeak

\* An entry made from the table has the peak of the table.
LEMMA FreshPeak ==
    ASSUME NEW stored \in Nat, stored = 0 \/ stored >= Cost, NEW net
    PROVE  FreshEntry(net, stored).net = net /\ FreshEntry(net, stored).peak = Larger(stored, Cost)
BY ExitAssumption DEF FreshEntry, Larger

LEMMA PeakRefresh ==
    ASSUME TypeOK, TypeOK', PeakInv, budget'.db <= budget.db, Refresh
    PROVE  PeakInv'
<1>1. /\ index \in [Markets -> IndexEntry] /\ nats.pc = "refresh" /\ nats.mkt \in Markets
      /\ nats.peak = held[nats.mkt].peak /\ nats.peak \in Nat /\ nats.net \in Int
      /\ nats.peak = 0 \/ nats.peak >= Cost
      /\ UNCHANGED <<held, budget>> /\ nats'.pc = "idle"
  BY PeakTypes DEF TypeOK, Refresh, PeakInv, NatsState, NatsIdle
<1>2. PICK m \in Markets : m = nats.mkt
  BY <1>1
<1>3. /\ \A q \in Markets \ {m} : index'[q] = index[q]
      /\ index'[m] = IF nats.net > 0 THEN Refreshed(m) ELSE NotWatched
  BY <1>1, <1>2 DEF Refresh
<1>4. ASSUME NEW q \in Markets PROVE PeakOK(q)'
  <2>1. PeakOK(q)
    BY PeakParts DEF PeakInv
  <2>2. CASE q # m
    BY <1>1, <1>3, <2>1, <2>2 DEF PeakOK, Watched
  <2>3. CASE q = m /\ nats.net > 0 /\ Watched(m)
    <3>1. index'[m].peak = index[m].peak
      BY <1>1, <1>3, <2>3 DEF Refreshed, IndexEntry
    <3> QED
      BY <1>1, <2>1, <2>3, <3>1 DEF PeakOK
  <2>4. CASE q = m /\ nats.net > 0 /\ ~Watched(m)
    <3>1. index'[m] = FreshEntry(nats.net, nats.peak)
      BY <1>3, <2>4 DEF Refreshed
    <3>2. index'[m].peak = Larger(held[m].peak, Cost)
      BY <1>1, <1>2, <3>1, FreshPeak
    <3>3. held'[m].peak = held[m].peak /\ Larger(held[m].peak, Cost) \in Nat
      BY <1>1, PeakTypes DEF Larger
    <3> QED
      BY <2>4, <3>2, <3>3 DEF PeakOK
  <2>5. CASE q = m /\ ~(nats.net > 0)
    <3>1. index'[m].net = 0
      BY <1>3, <2>5 DEF NotWatched
    <3> QED
      BY <2>5, <3>1 DEF PeakOK, Watched
  <2> QED
    BY <2>2, <2>3, <2>4, <2>5
<1>5. PeakStored'
  BY <1>4, PeakParts
<1> QED
  BY <1>1, <1>5 DEF PeakInv

\* A restart reads every peak from the table.
LEMMA PeakRestart ==
    ASSUME TypeOK, TypeOK', PeakInv, budget'.db <= budget.db, Restart
    PROVE  PeakInv'
<1>1. nats'.pc = "idle" /\ UNCHANGED held
  BY DEF Restart, NatsIdle
<1>2. index' = Seeded \/ index' = [m \in Markets |-> NotWatched]
  BY DEF Restart
<1>3. ASSUME NEW m \in Markets PROVE PeakOK(m)'
  <2>1. CASE index'[m] = NotWatched
    <3>1. index'[m].net = 0
      BY <2>1 DEF NotWatched
    <3> QED
      BY <3>1 DEF PeakOK, Watched
  <2>2. CASE index'[m] = FreshEntry(Net(m), held[m].peak)
    <3>1. index'[m].peak = Larger(held[m].peak, Cost) /\ Larger(held[m].peak, Cost) \in Nat
      BY <2>2, PeakTypes, FreshPeak DEF PeakInv, Larger
    <3>2. held'[m].peak = held[m].peak
      BY <1>1
    <3> QED
      BY <3>1, <3>2 DEF PeakOK
  <2> QED
    BY <1>2, <2>1, <2>2 DEF Seeded
<1>4. PeakStored'
  BY <1>3, PeakParts
<1>5. budget'.db <= MaxDbErrors
  <2>1. (budget.db \in Nat)'
    BY DEF TypeOK, Budget
  <2> QED
    BY <2>1, PeakTypes DEF PeakInv
<1> QED
  BY <1>1, <1>4, <1>5 DEF PeakInv

LEMMA PeakStep ==
    ASSUME TypeOK, TypeOK', PeakInv, [Next]_vars
    PROVE  PeakInv'
<1>0. /\ budget'.db <= budget.db /\ index \in [Markets -> IndexEntry] /\ nats \in NatsState
      /\ held \in [Markets -> Position]
  BY ErrorsSpent DEF TypeOK
<1>1. CASE Fill
  <2>1. PICK m \in Markets : HearFill(m)
    BY <1>1 DEF Fill
  <2>2. nats.pc = "idle" /\ UNCHANGED <<held, index>>
    BY <2>1 DEF HearFill
  <2>3. CASE UNCHANGED nats
    BY <1>0, <2>2, <2>3, PeakFrame DEF Watched
  <2>4. CASE nats' = [NatsIdle EXCEPT !.pc = "refresh", !.mkt = m, !.net = Net(m), !.peak = held[m].peak]
    <3>1. nats'.pc = "refresh" /\ nats'.mkt = m /\ nats'.peak = held[m].peak
      BY <2>4 DEF NatsIdle
    <3>2. budget'.db <= MaxDbErrors /\ (budget.db < MaxDbErrors => budget'.db < MaxDbErrors)
      <4>1. (budget.db \in Nat)'
        BY DEF TypeOK, Budget
      <4> QED
        BY <1>0, <4>1, PeakTypes DEF PeakInv
    <3>3. ASSUME NEW q \in Markets PROVE PeakOK(q)'
      <4>1. PeakOK(q)
        BY PeakParts DEF PeakInv
      <4> QED
        BY <2>2, <3>2, <4>1 DEF PeakOK, Watched
    <3>4. PeakStored'
      BY <3>3, PeakParts
    <3> QED
      BY <2>2, <3>1, <3>2, <3>4 DEF PeakInv
  <2> QED
    BY <2>1, <2>3, <2>4 DEF HearFill
<1>2. CASE Hold \/ TriggerExit
  <2>1. nats.pc = "evaluate" /\ UNCHANGED held
    BY <1>2 DEF Hold, TriggerExit
  <2>2. nats'.pc \in {"idle", "insert"}
    BY <1>0, <1>2 DEF Hold, TriggerExit, Goto, NatsIdle, NatsState
  <2>3. \A m \in Markets : index'[m].net = index[m].net /\ index'[m].peak = index[m].peak
    BY <1>0, <1>2 DEF Hold, TriggerExit, IndexEntry
  <2> QED
    BY <1>0, <2>1, <2>2, <2>3, PeakFrame DEF Watched
<1>3. CASE PlaceExit
  <2>1. \A m \in Markets : held'[m].peak = held[m].peak
    <3>1. CASE Reserve \/ Release
      BY <1>0, <3>1 DEF Reserve, Release, Position
    <3>2. CASE ~(Reserve \/ Release)
      BY <1>3, <3>2 DEF PlaceExit, InsertExit, MarkSent, Submit, RecordOpen, RecordRejected
    <3> QED
      BY <3>1, <3>2
  <2>2. \A m \in Markets : index'[m].net = index[m].net /\ index'[m].peak = index[m].peak
    <3>1. ResetPending \/ UNCHANGED index
      BY <1>3 DEF PlaceExit, InsertExit, Reserve, MarkSent, Submit, RecordOpen, RecordRejected, Release
    <3>2. ASSUME ResetPending, NEW m \in Markets
          PROVE  index'[m].net = index[m].net /\ index'[m].peak = index[m].peak
      BY <1>0, <3>2 DEF ResetPending, IndexEntry
    <3> QED
      BY <3>1, <3>2
  <2>3. nats.pc \notin {"persist", "refresh"}
    BY <1>3 DEF PlaceExit, InsertExit, Reserve, MarkSent, Submit, RecordOpen, RecordRejected, Release
  <2>4. nats'.pc \notin {"persist", "refresh"}
    <3>1. CASE InsertExit
      <4>1. nats' = NatsIdle \/ \E r \in Rows : nats' = [nats EXCEPT !.pc = "reserve", !.row = r]
        BY <3>1 DEF InsertExit
      <4>2. ASSUME NEW r \in Rows, nats' = [nats EXCEPT !.pc = "reserve", !.row = r]
            PROVE  nats'.pc = "reserve"
        BY <1>0, <4>2 DEF NatsState
      <4>3. NatsIdle.pc = "idle"
        BY DEF NatsIdle
      <4>4. CASE nats' = NatsIdle
        BY <4>3, <4>4
      <4>5. CASE \E r \in Rows : nats' = [nats EXCEPT !.pc = "reserve", !.row = r]
        <5>1. nats'.pc = "reserve"
          BY <4>2, <4>5, Zenon
        <5> QED
          BY <5>1
      <4> QED
        BY <4>1, <4>4, <4>5
    <3>2. CASE Reserve \/ MarkSent \/ Submit
      BY <1>0, <3>2 DEF Reserve, MarkSent, Submit, Goto, RetryOrGiveUp, NatsState
    <3>3. CASE RecordOpen \/ RecordRejected \/ Release
      BY <1>0, <3>3 DEF RecordOpen, RecordRejected, Release, Goto, NatsState, NatsIdle
    <3> QED
      BY <1>3, <3>1, <3>2, <3>3 DEF PlaceExit
  <2> QED
    BY <1>0, <2>1, <2>2, <2>3, <2>4, PeakFrame DEF Watched
<1>4. CASE Entry \/ Executor \/ Exchange \/ UNCHANGED vars
  <2>1. UNCHANGED <<index, nats>>
    BY <1>4 DEF Entry, EntryFill, Executor, PollExit, WriteExit, SettleExit, RecoverCanceled, Notify,
                SweepZombie, Exchange, Match, EndOrder, NatsSide, vars
  <2>2. \A m \in Markets : held'[m].peak = held[m].peak
    <3>1. ASSUME NEW q \in Markets, NEW complete \in BOOLEAN, EntryFill(q, complete)
          PROVE  \A m \in Markets : held'[m].peak = held[m].peak
      BY <1>0, <3>1 DEF EntryFill, Position
    <3>2. CASE SettleExit
      BY <1>0, <3>2 DEF SettleExit, Position
    <3>3. CASE UNCHANGED held
      BY <3>3
    <3> QED
      BY <1>4, <3>1, <3>2, <3>3 DEF Entry, Executor, PollExit, WriteExit, RecoverCanceled, Notify,
                SweepZombie, Exchange, Match, EndOrder, vars
  <2> QED
    BY <1>0, <2>1, <2>2, PeakFrame DEF Watched
<1> QED
  BY <1>0, <1>1, <1>2, <1>3, <1>4, PeakSnapshot, PeakPersist, PeakRefresh, PeakRestart DEF Next, Nats

-----------------------------------------------------------------------------
(* The theorems that hold across restarts.                                 *)

\* What is true of types, rows and the two threads' hands is inductive, whatever
\* fails, is lost or dies.
THEOREM LedgerInvariance == Spec => [](TypeOK /\ LedgerInv)
<1>1. Init => TypeOK /\ LedgerInv
  BY LedgerInit
<1>2. TypeOK /\ LedgerInv /\ [Next]_vars => (TypeOK /\ LedgerInv)'
  BY LedgerStep
<1> QED
  BY <1>1, <1>2, PTL DEF Spec

\* Every variable keeps its type, and an exit makes at most MaxRetries attempts.
THEOREM TypeCorrect == Spec => []TypeOK
BY LedgerInvariance, PTL

\* An exit that was closed does not work again (_apply_poll, the zombie sweep and
\* place_exit_order): the poll writes a row that still works, and the sweep leaves
\* the row that is being placed alone.
THEOREM NoRevival == Spec => ClosedStaysClosed
<1>1. TypeOK /\ LedgerInv /\ [Next]_vars =>
          [\A r \in Rows : sell[r].st \in {"FILLED", "CANCELED", "REJECTED"} =>
              sell'[r].st \in {"FILLED", "CANCELED", "REJECTED"}]_sell
  BY ClosedStep DEF Closed
<1> QED
  BY <1>1, LedgerInvariance, PTL DEF Spec, ClosedStaysClosed

\* A fill of an exit is booked at most once, whatever fails or dies between the row
\* and the position.
THEOREM ExitIsBookedOnce == Spec => []BookedOnce
<1>1. Init => SoldInv
  <2> SUFFICES ASSUME Init, NEW m \in Markets
               PROVE  held[m].sold + Unsettled(m) <= RowsFilled(m)
    BY DEF SoldInv
  <2> QED
    BY InitSums
<1>2. TypeOK /\ LedgerInv /\ TypeOK' /\ SoldInv /\ [Next]_vars => SoldInv'
  BY SoldStep
<1>3. TypeOK /\ LedgerInv /\ SoldInv => BookedOnce
  <2> SUFFICES ASSUME TypeOK, LedgerInv, SoldInv, NEW m \in Markets
               PROVE  held[m].sold <= RowsFilled(m)
    BY DEF BookedOnce, RowsFilled, RowsOf
  <2>1. /\ held[m].sold + Unsettled(m) <= RowsFilled(m)
        /\ held[m].sold \in Int /\ RowsFilled(m) \in Nat
        /\ Unsettled(m) \in Int /\ Unsettled(m) >= 0
    BY HeldTypes, SumTypes, InHandTypes DEF SoldInv
  <2> QED
    BY <2>1
<1> QED
  BY <1>1, <1>2, <1>3, LedgerInvariance, PTL DEF Spec

\* The reservation, its rollback and the poll's deltas balance as long as no
\* statement fails, also across restarts: no position has less than nothing on offer.
THEOREM OffersBalance == ASSUME MaxDbErrors = 0 PROVE Spec => []SellingAccurate
<1> DEFINE NoError == budget.db = 0
<1>1. Init => OfferInv /\ NoError
  <2> SUFFICES ASSUME Init PROVE OfferInv /\ NoError
    OBVIOUS
  <2>1. ASSUME NEW m \in Markets PROVE RowsWorking(m) + Reserved(m) + Unsettled(m) <= held[m].selling
    BY InitSums
  <2> QED
    BY <2>1 DEF Init, OfferInv
<1>2. TypeOK /\ TypeOK' /\ NoError /\ [Next]_vars => NoError'
  <2> SUFFICES ASSUME TypeOK, TypeOK', NoError, [Next]_vars PROVE NoError'
    OBVIOUS
  <2>1. budget'.db <= 0 /\ budget'.db \in Nat
    <3>1. (budget.db \in Nat)'
      BY DEF TypeOK, Budget
    <3> QED
      BY <3>1, ErrorsSpent
  <2> QED
    BY <2>1
<1>3. TypeOK /\ LedgerInv /\ TypeOK' /\ NoError /\ OfferInv /\ [Next]_vars => OfferInv'
  BY OfferStep
<1>4. TypeOK /\ LedgerInv /\ OfferInv => SellingAccurate
  BY OfferIsAccurate
<1> HIDE DEF NoError
<1> QED
  BY <1>1, <1>2, <1>3, <1>4, LedgerInvariance, PTL DEF Spec

\* The peak of a watched position outlives refreshes and restarts.
THEOREM PeakSurvives == Spec => []PeakStored
<1>1. Init => PeakInv
  <2> SUFFICES ASSUME Init PROVE PeakInv
    OBVIOUS
  <2>1. \A m \in Markets : index[m].net = 0 /\ held[m].peak = 0
    BY DEF Init, NotWatched
  <2>2. nats.pc = "idle" /\ budget.db = MaxDbErrors
    BY DEF Init, NatsIdle
  <2>3. PeakStored
    BY <2>1 DEF PeakStored, Watched
  <2> QED
    BY <2>1, <2>2, <2>3, ExitAssumption DEF PeakInv
<1>2. TypeOK /\ TypeOK' /\ PeakInv /\ [Next]_vars => PeakInv'
  BY PeakStep
<1>3. PeakInv => PeakStored
  BY DEF PeakInv
<1> QED
  BY <1>1, <1>2, <1>3, TypeCorrect, PTL DEF Spec
=============================================================================
