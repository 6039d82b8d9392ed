---------------------------- MODULE ExitManager ----------------------------
(***************************************************************************)
(* The exit manager: an index, in memory, of the positions the bot holds,  *)
(* and the SELL orders that close them.  Two threads meet here.            *)
(*                                                                         *)
(* The NATS thread runs the callbacks _on_snapshot and _on_fill, one at a  *)
(* time (nats_bus calls them from its event loop), with place_exit_order   *)
(* inside the first.  The executor thread books fills of entry and exit    *)
(* orders and announces a complete fill on the bus, which the NATS thread  *)
(* hears later, or never.  A step is a database statement or a CLOB call;  *)
(* the index is touched by the NATS thread alone once start has seeded it. *)
(*                                                                         *)
(* The markets are those of a directional strategy; a neg-risk position is *)
(* held to resolution, without an exit.  The operator's kill switch, which *)
(* writes the rows from a third thread, is OrderExecution's; here it shows *)
(* as the end of an order.                                                 *)
(***************************************************************************)
EXTENDS Integers, FiniteSetsExt

CONSTANTS
    Markets,        \* the bot trades one token of a market
    NoMarket,       \* "no market"
    Prices,         \* what a snapshot may say
    Cost,           \* the price all entries of a market are filled at
    Floor,          \* the giveback floor, Cost x (1 - EXIT_MAX_GIVEBACK_PCT)
    MaxRows,        \* bound: exit orders ever inserted
    MaxRetries,     \* ORDER_MAX_RETRIES
    MaxEntryFills,  \* bound: fills of entry orders
    MaxRestarts,    \* bound: restarts of the process
    MaxLostAcks,    \* bound: orders the CLOB took whose response was lost
    MaxLostNotices, \* bound: fill messages, or fill subscriptions, that are lost
    MaxDbErrors     \* bound: database statements that fail

ASSUME MarketAssumption == NoMarket \notin Markets
ASSUME ExitAssumption ==
    /\ Prices \subseteq Nat \ {0}
    /\ Cost \in Nat \ {0} /\ Floor \in Nat
    /\ MaxRows \in Nat \ {0} /\ MaxRetries \in Nat \ {0}
    /\ MaxEntryFills \in Nat /\ MaxRestarts \in Nat
    /\ MaxLostAcks \in Nat /\ MaxLostNotices \in Nat /\ MaxDbErrors \in Nat

VARIABLES
    held,     \* the positions table; selling is working_sell, peak 0 is NULL
    sell,     \* the exit orders among the orders, by id
    book,     \* the CLOB: for row r and attempt k the order that attempt made
    index,    \* _index; an entry without shares is one that is not there
    mode,     \* _enabled, and whether the fill subscription took
    nats,     \* the NATS thread
    poll,     \* the executor thread
    notices,  \* fill messages on their way, by market
    budget    \* what is left of each bounded event

vars == <<held, sell, book, index, mode, nats, poll, notices, budget>>

-----------------------------------------------------------------------------

Rows     == 1..MaxRows
NoRow    == 0
Attempts == 1..MaxRetries
NoEoi    == 0

Larger(a, b) == IF a > b THEN a ELSE b

\* Mutant of the next definition: get_open_orders selects canceled rows too.
MutantWorkingStatus == {"OPEN", "PARTIAL", "CANCELED"}

\* What get_open_orders selects and the poll does not pass over for want of an
\* exchange id.
WorkingStatus == {"OPEN", "PARTIAL"}
Status == WorkingStatus \union {"PENDING", "SENT", "FILLED", "CANCELED", "REJECTED"}

NoOrder == [st |-> "none", mkt |-> NoMarket, size |-> 0, eoi |-> NoEoi,
            filled |-> 0, working |-> 0]

NotWatched == [net |-> 0, peak |-> 0, pending |-> FALSE]

Watched(m) == index[m].net > 0

Net(m) == held[m].bought - held[m].sold

\* Mutant of the next definition: the stored peak is not looked at.
MutantFreshEntry(net, stored) == [net |-> net, peak |-> Cost, pending |-> FALSE]

\* An index entry made from the positions table: a peak that was never stored
\* is the average cost.
FreshEntry(net, stored) ==
    [net |-> net, peak |-> IF stored = 0 THEN Cost ELSE stored, pending |-> FALSE]

\* The NATS thread's locals: the market; of a snapshot its price and the copied
\* shares; of a refresh the shares and the peak that were read; the exit order.
NatsIdle == [pc |-> "idle", mkt |-> NoMarket, price |-> 0, net |-> 0, peak |-> 0,
             row |-> NoRow, try |-> 0]

\* The executor's: the market of a fill, or the row and the poll answer it is
\* writing, and what that adds to the position.
PollIdle == [pc |-> "idle", mkt |-> NoMarket, row |-> NoRow, st |-> "OPEN",
             filled |-> 0, remaining |-> 0, sold |-> 0, working |-> 0]

Init ==
    /\ held = [m \in Markets |-> [bought |-> 0, sold |-> 0, selling |-> 0, peak |-> 0]]
    /\ sell = [r \in Rows |-> NoOrder]
    /\ book = [r \in Rows |-> [k \in Attempts |-> [st |-> "none", filled |-> 0]]]
    /\ index = [m \in Markets |-> NotWatched]
    /\ mode = [enabled |-> TRUE, hears |-> TRUE]
    /\ nats = NatsIdle
    /\ poll = PollIdle
    /\ notices = [m \in Markets |-> 0]
    /\ budget = [fill |-> MaxEntryFills, restart |-> MaxRestarts, ack |-> MaxLostAcks,
                 notice |-> MaxLostNotices, db |-> MaxDbErrors]

-----------------------------------------------------------------------------

Spend(what)  == budget[what] > 0 /\ budget' = [budget EXCEPT ![what] = @ - 1]
DbError      == Spend("db")
Goto(pc)     == nats' = [nats EXCEPT !.pc = pc]
Write(r, st) == sell' = [sell EXCEPT ![r].st = st]

\* What the NATS thread leaves to the executor, and the other way round.
ExecutorSide == <<poll, notices, mode>>
NatsSide     == <<index, nats, mode>>

\* Mutant of the next definition: the flag is not looked at.
MutantCanExit(m) == mode.enabled /\ Watched(m)

\* An exit may be looked for: enabled, held, and none under way.
CanExit(m) == mode.enabled /\ Watched(m) /\ ~index[m].pending

\* _reset_exit_pending, if the position is still in the index.
ResetPending ==
    index' = [m \in Markets |->
                 IF m = nats.mkt /\ Watched(m) THEN [index[m] EXCEPT !.pending = FALSE]
                                               ELSE index[m]]

Unused(r) == sell[r].st = "none" /\ \A q \in Rows : q < r => sell[q].st # "none"

\* The bound on rows: no exit is triggered when the table is full.
RoomForRow == \E r \in Rows : sell[r].st = "none"

-----------------------------------------------------------------------------
(* _on_snapshot.                                                           *)

\* The peak is ratcheted and the entry copied under the lock.
OnSnapshot(m, price) ==
    /\ nats.pc = "idle"
    /\ CanExit(m)
    /\ index' = [index EXCEPT ![m].peak = Larger(@, price)]
    /\ nats' = [NatsIdle EXCEPT
                   !.pc = IF price > index[m].peak THEN "persist" ELSE "evaluate",
                   !.mkt = m, !.price = price, !.net = index[m].net]
    /\ UNCHANGED <<held, sell, book, budget, ExecutorSide>>

\* update_peak_price: best effort, once.
PersistPeak ==
    /\ nats.pc = "persist"
    /\ \/ held' = [held EXCEPT ![nats.mkt].peak = Larger(@, nats.price)] /\ UNCHANGED budget
       \/ DbError /\ UNCHANGED held
    /\ Goto("evaluate")
    /\ UNCHANGED <<sell, book, index, ExecutorSide>>

\* No rule asks for an exit, or the price is below the giveback floor, or
\* place_exit_order finds no tick size and the flag is reset at once.
Hold ==
    /\ nats.pc = "evaluate"
    /\ nats' = NatsIdle
    /\ UNCHANGED <<held, sell, book, index, budget, ExecutorSide>>

\* The rules (trailing stop, hold yield, spread compression) may ask for an exit
\* at any price; the flag is set before anything else happens.
TriggerExit ==
    /\ nats.pc = "evaluate"
    /\ nats.price >= Floor
    /\ CanExit(nats.mkt) /\ RoomForRow
    /\ index' = [index EXCEPT ![nats.mkt].pending = TRUE]
    /\ Goto("insert")
    /\ UNCHANGED <<held, sell, book, budget, ExecutorSide>>

-----------------------------------------------------------------------------
(* place_exit_order.                                                       *)

InsertExit ==
    /\ nats.pc = "insert"
    /\ \/ /\ \E r \in Rows :
                /\ Unused(r)
                /\ sell' = [sell EXCEPT ![r] = [NoOrder EXCEPT
                               !.st = "PENDING", !.mkt = nats.mkt, !.size = nats.net]]
                /\ nats' = [nats EXCEPT !.pc = "reserve", !.row = r]
          /\ UNCHANGED <<index, budget>>
       \/ DbError /\ ResetPending /\ nats' = NatsIdle /\ UNCHANGED sell
    /\ UNCHANGED <<held, book, ExecutorSide>>

\* Mutant of the next definition: the reservation is forgotten.
MutantReserve == nats.pc = "reserve" /\ Goto("send")
                 /\ UNCHANGED <<held, budget, sell, book, index, ExecutorSide>>

\* working_sell before the CLOB; a failure is logged and swallowed.
Reserve ==
    /\ nats.pc = "reserve"
    /\ \/ held' = [held EXCEPT ![nats.mkt].selling = @ + nats.net] /\ UNCHANGED budget
       \/ DbError /\ UNCHANGED held
    /\ Goto("send")
    /\ UNCHANGED <<sell, book, index, ExecutorSide>>

MarkSent ==
    /\ nats.pc = "send"
    /\ \/ Write(nats.row, "SENT") /\ nats' = [nats EXCEPT !.pc = "submit", !.try = 1] /\ UNCHANGED budget
       \/ DbError /\ Goto("reject") /\ UNCHANGED sell
    /\ UNCHANGED <<held, book, index, ExecutorSide>>


\* _backoff_retry: after a retryable failure the next attempt, or give up.
RetryOrGiveUp ==
    nats' = IF nats.try < MaxRetries THEN [nats EXCEPT !.try = @ + 1]
                                     ELSE [nats EXCEPT !.pc = "reject"]

\* One attempt of _submit, which signs and posts a fresh order.
Submit ==
    /\ nats.pc = "submit"
    /\ \/ /\ book' = [book EXCEPT ![nats.row][nats.try].st = "live"]
          /\ \/ Goto("ack") /\ UNCHANGED budget
             \/ Spend("ack") /\ RetryOrGiveUp
       \/ /\ RetryOrGiveUp \/ Goto("reject")
          /\ UNCHANGED <<book, budget>>
    /\ UNCHANGED <<held, sell, index, ExecutorSide>>

RecordOpen ==
    /\ nats.pc = "ack"
    /\ \/ /\ sell' = [sell EXCEPT ![nats.row].st = "OPEN", ![nats.row].eoi = nats.try,
                                  ![nats.row].working = nats.net]
          /\ nats' = NatsIdle
          /\ UNCHANGED budget
       \/ DbError /\ Goto("reject") /\ UNCHANGED sell
    /\ UNCHANGED <<held, book, index, ExecutorSide>>

\* The except branch; if this statement fails too, _on_snapshot has the last
\* word and nothing gives working_sell back.
RecordRejected ==
    /\ nats.pc = "reject"
    /\ \/ Write(nats.row, "REJECTED") /\ Goto("release") /\ UNCHANGED <<index, budget>>
       \/ DbError /\ ResetPending /\ nats' = NatsIdle /\ UNCHANGED sell
    /\ UNCHANGED <<held, book, ExecutorSide>>

\* working_sell given back, whether or not it was taken.
Release ==
    /\ nats.pc = "release"
    /\ \/ held' = [held EXCEPT ![nats.mkt].selling = @ - nats.net] /\ UNCHANGED budget
       \/ DbError /\ UNCHANGED held
    /\ ResetPending
    /\ nats' = NatsIdle
    /\ UNCHANGED <<sell, book, ExecutorSide>>

-----------------------------------------------------------------------------
(* _on_fill.                                                               *)

\* The position is read again; if that fails, the message is lost.
HearFill(m) ==
    /\ nats.pc = "idle"
    /\ notices[m] > 0
    /\ notices' = [notices EXCEPT ![m] = @ - 1]
    /\ \/ /\ nats' = [NatsIdle EXCEPT !.pc = "refresh", !.mkt = m,
                                      !.net = Net(m), !.peak = held[m].peak]
          /\ UNCHANGED budget
       \/ DbError /\ UNCHANGED nats
    /\ UNCHANGED <<held, sell, book, index, mode, poll>>

\* Mutant of the next definition: a refresh forgets the flag.
MutantRefreshed(m) == FreshEntry(nats.net, nats.peak)

\* A known entry keeps its peak and its flag.
Refreshed(m) ==
    IF Watched(m) THEN [index[m] EXCEPT !.net = nats.net] ELSE FreshEntry(nats.net, nats.peak)

Refresh ==
    /\ nats.pc = "refresh"
    /\ index' = [index EXCEPT ![nats.mkt] =
                    IF nats.net > 0 THEN Refreshed(nats.mkt) ELSE NotWatched]
    /\ nats' = NatsIdle
    /\ UNCHANGED <<held, sell, book, budget, ExecutorSide>>

-----------------------------------------------------------------------------
(* The executor: fills of entries and exits.                               *)

\* An entry order fills; complete tells whether that was all of it.
EntryFill(m, complete) ==
    /\ poll.pc = "idle"
    /\ Spend("fill")
    /\ held' = [held EXCEPT ![m].bought = @ + 1]
    /\ poll' = IF complete THEN [poll EXCEPT !.pc = "notify", !.mkt = m] ELSE poll
    /\ UNCHANGED <<sell, book, notices, NatsSide>>

\* Mutant of the next definition: the two fill tests in the wrong order.
MutantAnswer(b, n) ==
    IF b.filled > 0 THEN "PARTIAL"
    ELSE IF b.st = "ended" THEN "CANCELED" ELSE "OPEN"

\* The status poll_order_status derives for an order of size n.
Answer(b, n) ==
    IF b.st = "matched" \/ b.filled = n THEN "FILLED"
    ELSE IF b.filled > 0 THEN "PARTIAL"
    ELSE IF b.st = "ended" THEN "CANCELED" ELSE "OPEN"

PollExit(r) ==
    /\ poll.pc = "idle"
    /\ sell[r].st \in WorkingStatus
    /\ LET o == sell[r]
           b == book[r][o.eoi]
       IN  /\ Answer(b, o.size) # o.st \/ b.filled # o.filled
           /\ poll' = [poll EXCEPT !.pc = "write", !.mkt = o.mkt, !.row = r,
                          !.st = Answer(b, o.size), !.filled = b.filled,
                          !.remaining = o.size - b.filled,
                          !.sold = b.filled - o.filled,
                          !.working = o.size - b.filled - o.working]
    /\ UNCHANGED <<held, sell, book, notices, budget, NatsSide>>

\* A database error: the poll loop takes the next row; if it was the reconciler
\* that polled, its handler closes the row.
PollRaises == DbError /\ poll' \in {PollIdle, [poll EXCEPT !.pc = "recover"]}

\* Mutant of the next definition: the row does not learn what was filled.
MutantWriteExit ==
    /\ poll.pc = "write"
    /\ sell' = [sell EXCEPT ![poll.row].st = poll.st]
    /\ poll' = [poll EXCEPT !.pc = "settle"]
    /\ UNCHANGED <<held, book, notices, budget, NatsSide>>

WriteExit ==
    /\ poll.pc = "write"
    /\ \/ /\ sell' = [sell EXCEPT ![poll.row].st = poll.st, ![poll.row].filled = poll.filled,
                                  ![poll.row].working = poll.remaining]
          /\ poll' = [poll EXCEPT !.pc = "settle"]
          /\ UNCHANGED budget
       \/ PollRaises /\ UNCHANGED sell
    /\ UNCHANGED <<held, book, notices, NatsSide>>

SettleExit ==
    /\ poll.pc = "settle"
    /\ \/ /\ held' = [held EXCEPT ![poll.mkt].sold = @ + poll.sold,
                                  ![poll.mkt].selling = @ + poll.working]
          /\ poll' = IF poll.st = "FILLED" THEN [poll EXCEPT !.pc = "notify"] ELSE PollIdle
          /\ UNCHANGED budget
       \/ PollRaises /\ UNCHANGED held
    /\ UNCHANGED <<sell, book, notices, NatsSide>>

RecoverCanceled ==
    /\ poll.pc = "recover"
    /\ \/ Write(poll.row, "CANCELED") /\ UNCHANGED budget
       \/ DbError /\ UNCHANGED sell
    /\ poll' = PollIdle
    /\ UNCHANGED <<held, book, notices, NatsSide>>

\* pm.execution.filled: published if the CLOB told the fill price, delivered at
\* most once, and only to a subscription that took.
Notify ==
    /\ poll.pc = "notify"
    /\ \/ /\ notices' = [notices EXCEPT ![poll.mkt] = IF mode.hears THEN @ + 1 ELSE @]
          /\ UNCHANGED budget
       \/ Spend("notice") /\ UNCHANGED notices
    /\ poll' = PollIdle
    /\ UNCHANGED <<held, sell, book, NatsSide>>

\* The zombie sweep: a row without an exchange id, half an hour old.
SweepZombie(r) ==
    /\ poll.pc = "idle"
    /\ sell[r].st \in {"PENDING", "SENT"} /\ nats.row # r
    /\ \/ Write(r, "REJECTED") /\ UNCHANGED budget
       \/ DbError /\ UNCHANGED sell
    /\ UNCHANGED <<held, book, poll, notices, NatsSide>>

-----------------------------------------------------------------------------
(* The exchange and restarts.                                              *)

Match(r, k) ==
    /\ book[r][k].st = "live"
    /\ book' = [book EXCEPT ![r][k] =
                   [st |-> IF @.filled + 1 = sell[r].size THEN "matched" ELSE "live",
                    filled |-> @.filled + 1]]
    /\ UNCHANGED <<held, sell, poll, notices, budget, NatsSide>>

\* GTD, or a cancellation: the CLOB reports both as CANCELED.
EndOrder(r, k) ==
    /\ book[r][k].st = "live" /\ nats.row # r
    /\ book' = [book EXCEPT ![r][k].st = "ended"]
    /\ UNCHANGED <<held, sell, poll, notices, budget, NatsSide>>

Seeded ==
    [m \in Markets |-> IF Net(m) > 0 THEN FreshEntry(Net(m), held[m].peak) ELSE NotWatched]

\* The process dies and start runs again.  It may find the database (and leaves
\* without subscribing) or the CLOB client unavailable; and a fill subscription
\* made after the bus has connected never takes.
Restart ==
    /\ budget.restart > 0
    /\ nats' = NatsIdle /\ poll' = PollIdle
    /\ notices' = [m \in Markets |-> 0]
    /\ \/ /\ index' = Seeded
          /\ \E e \in BOOLEAN : mode' = [enabled |-> e, hears |-> TRUE]
          /\ budget' = [budget EXCEPT !.restart = @ - 1]
       \/ /\ index' = Seeded
          /\ \E e \in BOOLEAN : mode' = [enabled |-> e, hears |-> FALSE]
          /\ budget.notice > 0
          /\ budget' = [budget EXCEPT !.restart = @ - 1, !.notice = @ - 1]
       \/ /\ index' = [m \in Markets |-> NotWatched]
          /\ mode' = [enabled |-> FALSE, hears |-> FALSE]
          /\ budget.db > 0
          /\ budget' = [budget EXCEPT !.restart = @ - 1, !.db = @ - 1]
    /\ UNCHANGED <<held, sell, book>>

-----------------------------------------------------------------------------

PlaceExit == InsertExit \/ Reserve \/ MarkSent \/ Submit \/ RecordOpen \/ RecordRejected \/ Release
Snapshot  == \E m \in Markets, price \in Prices : OnSnapshot(m, price)
Fill      == \E m \in Markets : HearFill(m)
Nats      == PersistPeak \/ Hold \/ TriggerExit \/ PlaceExit \/ Refresh

Entry    == \E m \in Markets, complete \in BOOLEAN : EntryFill(m, complete)
Executor == WriteExit \/ SettleExit \/ RecoverCanceled \/ Notify
                \/ \E r \in Rows : PollExit(r) \/ SweepZombie(r)

Exchange == \E r \in Rows, k \in Attempts : Match(r, k) \/ EndOrder(r, k)

Next == Snapshot \/ Fill \/ Nats \/ Entry \/ Executor \/ Exchange \/ Restart

Spec == Init /\ [][Next]_vars

(***************************************************************************)
(* Fairness: both threads run, and the event loop gets round to a message  *)
(* that waits.  Snapshots, fills, matches and restarts may stop.           *)
(***************************************************************************)
FairSpec ==
    /\ Spec
    /\ WF_vars(Nats)
    /\ WF_vars(Executor)
    /\ \A m \in Markets : SF_vars(HearFill(m))

-----------------------------------------------------------------------------
(* What is checked.                                                        *)

Position   == [bought : Nat, sold : Int, selling : Int, peak : Nat]
SellRow    == [st : Status \union {"none"}, mkt : Markets \union {NoMarket}, size : Int,
               eoi : Attempts \union {NoEoi}, filled : Nat, working : Int]
BookOrder  == [st : {"none", "live", "matched", "ended"}, filled : Nat]
IndexEntry == [net : Nat, peak : Nat, pending : BOOLEAN]
NatsSteps  == {"idle", "persist", "evaluate", "insert", "reserve", "send", "submit", "ack",
               "reject", "release", "refresh"}
NatsState  == [pc : NatsSteps, mkt : Markets \union {NoMarket}, price : Nat, net : Int,
               peak : Nat, row : Rows \union {NoRow}, try : 0..MaxRetries]
PollSteps  == {"idle", "write", "settle", "recover", "notify"}
PollState  == [pc : PollSteps, mkt : Markets \union {NoMarket}, row : Rows \union {NoRow},
               st : {"OPEN", "PARTIAL", "FILLED", "CANCELED"},
               filled : Nat, remaining : Int, sold : Int, working : Int]
Budget     == [fill : Nat, restart : Nat, ack : Nat, notice : Nat, db : Nat]

\* Every variable has its type; in particular an order makes no more than
\* MaxRetries attempts (_backoff_retry).
TypeOK ==
    /\ held \in [Markets -> Position]
    /\ sell \in [Rows -> SellRow]
    /\ book \in [Rows -> [Attempts -> BookOrder]]
    /\ index \in [Markets -> IndexEntry]
    /\ mode \in [enabled : BOOLEAN, hears : BOOLEAN]
    /\ nats \in NatsState
    /\ poll \in PollState
    /\ notices \in [Markets -> Nat]
    /\ budget \in Budget

\* exit_pending: while one exit order of a market works on the CLOB, as far as the
\* bot knows, no second one is posted for it.
OneExitOpen ==
    \A p, q \in Rows :
        /\ sell[p].st \in WorkingStatus /\ sell[q].st \in WorkingStatus
        /\ sell[p].mkt = sell[q].mkt
        => p = q

\* What the exits sold, on the bot's books, was bought before: the shares copied
\* from the index were never more than the position still had.
NeverShort == \A m \in Markets : held[m].sold <= held[m].bought

\* An exit fill is booked at most once: a position never shows more sold than the
\* rows of its exits show filled, whatever fails or dies between the two writes.
BookedOnce ==
    \A m \in Markets :
        held[m].sold <= SumFunctionOnSet([r \in Rows |-> sell[r].filled],
                                         {r \in Rows : sell[r].mkt = m})

\* An exit that was closed does not work again: neither the poll whose answer is
\* older than the close revives it, nor the acknowledgement of a swept zombie.
ClosedStaysClosed ==
    [][\A r \in Rows :
          sell[r].st \in {"FILLED", "CANCELED", "REJECTED"} =>
              sell'[r].st \in {"FILLED", "CANCELED", "REJECTED"}]_sell

\* The peak of a watched position outlives refreshes and restarts: memory never
\* falls behind the table and, but for the moment between the ratchet and the
\* statement, is ahead of it only after a statement failed.
PeakStored ==
    \A m \in Markets : Watched(m) =>
        LET stored == Larger(held[m].peak, Cost) IN
        /\ index[m].peak >= stored
        /\ index[m].peak > stored =>
               (nats.pc = "persist" /\ nats.mkt = m) \/ budget.db < MaxDbErrors

\* A position that was sold out leaves the index, so that the next one of that
\* market starts afresh, unless it was bought again meanwhile.
SoldOutIsForgotten == \A m \in Markets : (Watched(m) /\ Net(m) = 0) ~> (~Watched(m) \/ Net(m) > 0)

\* place_exit_order: "On failure, the working_sell delta is rolled back so
\* position state stays accurate".  Reservation, rollback and the poll's deltas
\* balance: no position has less than nothing on offer.  It takes statements that
\* do not fail: a reservation that failed is rolled back as well.
SellingAccurate == \A m \in Markets : held[m].selling >= 0

-----------------------------------------------------------------------------
(* What the repository says and the code does not keep.                    *)

\* exit_pending: "cleared on exit-order failure".  With the thread idle, a flag
\* stands for an exit that works, or has sold what it was for.
PendingHasExit ==
    \A m \in Markets :
        index[m].pending /\ nats.pc = "idle" =>
            \E r \in Rows : sell[r].mkt = m /\ sell[r].st \in WorkingStatus \union {"FILLED"}

\* _PositionEntry.peak_price: "running maximum since entry", at first the cost.
PeakIsSinceEntry ==
    [][\A m \in Markets :
          nats.pc = "refresh" /\ nats.mkt = m /\ ~Watched(m) => index'[m].peak \in {0, Cost}]_index

\* The head of exit_manager.py: "so avg_cost / net_shares stay current".
IndexCurrent ==
    \A m \in Markets :
        nats.pc = "idle" /\ poll.pc = "idle" /\ notices[m] = 0 => index[m].net = Net(m)

=============================================================================
