--------------------------- MODULE OrderExecution ---------------------------
(***************************************************************************)
(* The execution thread of the bot: a signal becomes an order row, the row *)
(* an order on the exchange (the CLOB), its fills a position, and an       *)
(* expired order a repriced one.  The executor is one thread working       *)
(* through a cycle of four loops                                           *)
(*                                                                         *)
(*        reconcile -> signals -> poll -> reprice                          *)
(*                                                                         *)
(* and every database write and every CLOB call of those loops is a step   *)
(* of its own, so that the kill switch (a Flask or shutdown thread), the   *)
(* exchange, the clock and a crash of the process can come between any two *)
(* of them.  Orders and positions live in Postgres and survive a crash;    *)
(* the record x, the thread's locals, does not.                            *)
(***************************************************************************)
EXTENDS Naturals, Integers, FiniteSets, FiniteSetsExt

CONSTANTS
    Signals,        \* rows of the signals table
    Tokens,         \* outcome tokens; the bot keeps one market per token
    TokenOf,        \* the token a signal asks to buy
    NoSignal,       \* "no signal": the executor holds none
    MaxRows,        \* bound: order rows ever inserted
    MaxRetries,     \* ORDER_MAX_RETRIES: attempts of one submission
    Sizes,          \* what an order may come to after sizing and the min-share bump
    PortfolioCap,   \* MAX_PORTFOLIO_PCT x bankroll
    PositionCap,    \* MAX_POSITION_PCT x bankroll
    ReconcileEvery, \* _RECONCILE_EVERY
    MaxCrashes,     \* bound: restarts of the process
    MaxKills,       \* bound: uses of the kill switch
    MaxLostAcks,    \* bound: orders the CLOB took whose response was lost
    MaxDbErrors     \* bound: database statements (or client logins) that fail

ASSUME SignalAssumption ==
    /\ NoSignal \notin Signals
    /\ TokenOf \in [Signals -> Tokens]
ASSUME NumberAssumption ==
    /\ MaxRows \in Nat \ {0} /\ MaxRetries \in Nat \ {0}
    /\ Sizes \subseteq Nat \ {0}
    /\ PortfolioCap \in Nat /\ PositionCap \in Nat
    /\ ReconcileEvery \in Nat \ {0}
    /\ MaxCrashes \in Nat /\ MaxKills \in Nat
    /\ MaxLostAcks \in Nat /\ MaxDbErrors \in Nat

VARIABLES
    signal,   \* the signals table: where each signal stands
    stale,    \* signals older than MAX_SIGNAL_AGE_SECS
    row,      \* the orders table, by id
    expired,  \* rows whose expiration_ts has passed
    old,      \* rows created more than RECONCILER_ZOMBIE_CUTOFF_MINS ago
    book,     \* the CLOB: for row r and attempt k the order that attempt made
    pos,      \* the positions table, by token
    x,        \* the executor thread
    kill,     \* the thread running cancel_all_open_orders
    budget    \* what is left of each bounded event

vars == <<signal, stale, row, expired, old, book, pos, x, kill, budget>>

-----------------------------------------------------------------------------

Rows     == 1..MaxRows
NoRow    == 0
Attempts == 1..MaxRetries
NoEoi    == 0              \* exchange_order_id IS NULL

\* orders.status; PENDING is PENDING_SUBMISSION, PARTIAL is PARTIALLY_FILLED.
OpenStatus     == {"PENDING", "SENT", "OPEN", "PARTIAL"}
CountedStatus  == OpenStatus \union {"FILLED"}
TerminalStatus == {"FILLED", "CANCELED", "REJECTED"}
Status         == OpenStatus \union TerminalStatus

\* An order row.  Row r's exchange_order_id names attempt k of row r.
NoOrder == [st |-> "none", sig |-> NoSignal, size |-> 0, eoi |-> NoEoi,
            filled |-> 0, working |-> 0, parent |-> NoRow, repriced |-> FALSE]

OrderRow == [st : Status \union {"none"}, sig : Signals \union {NoSignal},
             size : Nat, eoi : Attempts \union {NoEoi}, filled : Nat,
             working : Int, parent : Rows \union {NoRow}, repriced : BOOLEAN]

\* An order on the exchange.  Both endings without a full match are reported
\* to the bot as status CANCELED.
BookState == {"none", "live", "matched", "canceled", "expired"}
BookOrder == [st : BookState, filled : Nat]

EmptyTable == [r \in Rows |-> NoOrder]

Phases == {"reconcile", "signals", "poll", "reprice"}
Steps  == {"list", "fetch", "next", "evaluate", "insert", "mark", "send",
           "submit", "ack", "book", "reject", "prune", "update", "settle", "recover"}

\* The executor's locals: phase and step of the loop it is in; cycles since the
\* last reconcile; the lists it iterates (sigs, rows) and the table contents
\* the list was read from (seen); the order it is placing (sig, parent, size,
\* row, try, gone) or the poll answer it is writing down (row, data).
Idle == [phase |-> "reconcile", pc |-> "list", cycle |-> 0,
         sigs |-> {}, rows |-> {}, seen |-> EmptyTable,
         sig |-> NoSignal, parent |-> NoRow, size |-> 0, row |-> NoRow,
         try |-> 0, gone |-> FALSE,
         data |-> [st |-> "OPEN", filled |-> 0, remaining |-> 0]]

KillIdle == [pc |-> "idle", rows |-> {}, acked |-> {}, ok |-> TRUE]

Init ==
    /\ signal = [s \in Signals |-> "unborn"]
    /\ stale = {}
    /\ row = EmptyTable
    /\ expired = {}
    /\ old = {}
    /\ book = [r \in Rows |-> [k \in Attempts |-> [st |-> "none", filled |-> 0]]]
    /\ pos = [t \in Tokens |-> [bought |-> 0, working |-> 0]]
    /\ x = Idle
    /\ kill = KillIdle
    /\ budget = [crash |-> MaxCrashes, kill |-> MaxKills,
                 ack |-> MaxLostAcks, db |-> MaxDbErrors]

-----------------------------------------------------------------------------
(* Queries of db.py.                                                       *)

\* get_open_orders.
OpenOrders == {r \in Rows : row[r].st \in OpenStatus}

Used(r) == row[r].st # "none"

TokenOfRow(r) == TokenOf[row[r].sig]

OrderExistsForSignal(s) ==
    \E r \in Rows : Used(r) /\ row[r].sig = s

OrderExistsForToken(t) ==
    \E r \in Rows : row[r].st \in CountedStatus /\ TokenOfRow(r) = t

\* The orders that count against the caps, and what they come to.
CountedRows == {r \in Rows : row[r].st \in CountedStatus}

TotalOpenExposure == SumFunctionOnSet([r \in Rows |-> row[r].size], CountedRows)

PositionExposure(t) == pos[t].bought + pos[t].working

\* Executable now: not executed and younger than the age limit.
ExecutableSignals == {s \in Signals : signal[s] = "queued" /\ s \notin stale}

\* Mutant of the next definition: the clock alone decides that an order expired.
MutantByClock ==
    {r \in Rows : Used(r) /\ row[r].filled = 0 /\ ~row[r].repriced /\ r \in expired}

\* get_expired_unfilled_orders: any CANCELED row without a fill whose
\* expiration has passed, whoever cancelled it.
ExpiredUnfilled ==
    {r \in Rows : /\ row[r].st = "CANCELED" /\ row[r].filled = 0
                  /\ ~row[r].repriced /\ r \in expired}

-----------------------------------------------------------------------------
(* Walking the executor.                                                   *)

At(phase, pc) == x.phase = phase /\ x.pc = pc

NextPhase(phase) ==
    CASE phase = "reconcile" -> "signals"
      [] phase = "signals"   -> "poll"
      [] phase = "poll"      -> "reprice"
      [] phase = "reprice"   -> "reconcile"

\* The executor about to start a phase, its lists and locals forgotten.  After
\* the last phase the cycle is over.
Enter(phase) ==
    [Idle EXCEPT !.phase = phase,
                 !.cycle = IF phase = "reconcile" THEN (x.cycle + 1) % ReconcileEvery
                           ELSE x.cycle]

\* The executor back at the head of the loop it is in.
Resume == [x EXCEPT !.pc = "next", !.sig = NoSignal, !.parent = NoRow,
                    !.size = 0, !.row = NoRow, !.try = 0, !.gone = FALSE,
                    !.data = Idle.data]

Write(r, st) == row' = [row EXCEPT ![r].st = st]

\* A database statement fails.
DbError == budget.db > 0 /\ budget' = [budget EXCEPT !.db = @ - 1]

Tables == <<signal, row, pos>>
World  == <<stale, expired, old, book, kill>>

PhaseDone ==
    /\ x.pc = "next"
    /\ x.rows = {} /\ x.sigs = {}
    /\ x' = Enter(NextPhase(x.phase))
    /\ UNCHANGED <<Tables, World, budget>>

\* A query, or at the head of a cycle get_client, raises outside every inner
\* handler: run_executor logs it and the rest of the cycle is skipped.
CycleFails ==
    /\ DbError
    /\ \/ x.pc \in {"list", "next"} /\ x.phase \in {"signals", "reprice"}
       \/ At("poll", "list") \/ At("reconcile", "list")
    /\ x' = Enter("reconcile")
    /\ UNCHANGED <<Tables, World>>

-----------------------------------------------------------------------------
(* reconcile_orders, on the first cycle and every ReconcileEvery-th.       *)

ReconcileList ==
    /\ At("reconcile", "list")
    /\ IF x.cycle # 0 \/ OpenOrders = {}
       THEN x' = Enter("signals") /\ UNCHANGED budget
       ELSE \/ /\ x' = [x EXCEPT !.pc = "fetch", !.seen = row, !.rows = OpenOrders]
               /\ UNCHANGED budget
            \/ DbError /\ x' = Enter("signals")
    /\ UNCHANGED <<Tables, World>>

\* Mutant of the next definition: rows without an exchange id are left alone.
MutantDrifted(r) ==
    /\ x.seen[r].eoi # NoEoi
    /\ book[r][x.seen[r].eoi].st # "live"

\* _classify against the CLOB's open orders: what it keeps is to be polled
\* ("terminal", a zombie with an exchange id) or rejected (a zombie without).
Drifted(r) ==
    LET o == x.seen[r] IN
    IF o.eoi = NoEoi \/ o.st \in {"PENDING", "SENT"}
    THEN r \in old
    ELSE book[r][o.eoi].st # "live"

FetchLive ==
    /\ At("reconcile", "fetch")
    /\ x' = [x EXCEPT !.pc = "next", !.rows = {r \in @ : Drifted(r)}]
    /\ UNCHANGED <<Tables, World, budget>>

FetchFails ==
    /\ At("reconcile", "fetch")
    /\ x' = Enter("signals")
    /\ UNCHANGED <<Tables, World, budget>>

\* A row that never got an exchange id and is past the cutoff.
RejectZombie(r) ==
    /\ At("reconcile", "next")
    /\ r \in x.rows /\ x.seen[r].eoi = NoEoi
    /\ \/ /\ Write(r, "REJECTED")
          /\ x' = [x EXCEPT !.rows = @ \ {r}]
          /\ UNCHANGED budget
       \/ /\ DbError
          /\ x' = Enter("signals") /\ UNCHANGED row
    /\ UNCHANGED <<signal, pos, World>>

\* poll_order_status raised under reconcile_orders, so a database error: the
\* handler closes the row.
RecoverCanceled ==
    /\ At("reconcile", "recover")
    /\ \/ /\ Write(x.row, "CANCELED")
          /\ x' = Resume
          /\ UNCHANGED budget
       \/ /\ DbError
          /\ x' = Enter("signals") /\ UNCHANGED row
    /\ UNCHANGED <<signal, pos, World>>

-----------------------------------------------------------------------------
(* _process_signals: the pre-trade gate, then place_order.                 *)

\* A paused executor skips the loop; the pause flag itself is not kept here.
ListSignals ==
    /\ At("signals", "list")
    /\ \/ x' = [x EXCEPT !.pc = "next", !.sigs = ExecutableSignals]
       \/ x' = Enter("poll")
    /\ UNCHANGED <<Tables, World, budget>>

Take(s) ==
    /\ At("signals", "next")
    /\ s \in x.sigs

Drop(s) == x' = [x EXCEPT !.sigs = @ \ {s}]

\* Mutant of the next definition: the gate only looks at the caps.
MutantGateOpen(s) ==
    /\ s \notin stale
    /\ TotalOpenExposure < PortfolioCap
    /\ PositionExposure(TokenOf[s]) < PositionCap

\* check(): one order per signal, one per token, room under both caps.
GateOpen(s) ==
    /\ s \notin stale
    /\ ~OrderExistsForSignal(s)
    /\ ~OrderExistsForToken(TokenOf[s])
    /\ TotalOpenExposure < PortfolioCap
    /\ PositionExposure(TokenOf[s]) < PositionCap

\* Mutant of the next definition: the portfolio cap is left to the gate, which
\* does not know the size.
MutantExceedsCaps(t, n) == PositionExposure(t) + n > PositionCap

\* _exceeds_caps, on the size the order finally has.
ExceedsCaps(t, n) ==
    \/ PositionExposure(t) + n > PositionCap
    \/ TotalOpenExposure + n > PortfolioCap

\* A stale signal leaves the queue, and so does one whose title deadline has
\* passed (gate 7 also says "stale").  Any other refusal, a missing bankroll or
\* tick size included, leaves it there for the next cycle.
GateRefuses(s) ==
    /\ Take(s)
    /\ \/ signal' = [signal EXCEPT ![s] = IF @ = "queued" THEN "executed" ELSE @]
       \/ s \notin stale /\ UNCHANGED signal
    /\ Drop(s)
    /\ UNCHANGED <<row, pos, World, budget>>

\* The bound on rows: nothing is placed when the table is full.
RoomForRow == \E r \in Rows : row[r].st = "none"

\* place_order gives up before the CLOB: no price, no token or a size over a
\* cap.  The signal leaves the queue with a skip reason.
SkipSignal(s) ==
    /\ Take(s) /\ GateOpen(s)
    /\ signal' = [signal EXCEPT ![s] = IF @ = "deleted" THEN @ ELSE "skipped"]
    /\ Drop(s)
    /\ UNCHANGED <<row, pos, World, budget>>

\* The tick-size lookup says that the orderbook does not exist.
OrderbookGone(s) ==
    /\ Take(s) /\ GateOpen(s)
    /\ x' = [x EXCEPT !.pc = "prune", !.sigs = @ \ {s}, !.sig = s]
    /\ UNCHANGED <<Tables, World, budget>>

ApproveSignal(s) ==
    /\ Take(s) /\ GateOpen(s) /\ RoomForRow
    /\ \E n \in Sizes :
          /\ ~ExceedsCaps(TokenOf[s], n)
          /\ x' = [x EXCEPT !.pc = "insert", !.sigs = @ \ {s}, !.sig = s, !.size = n]
    /\ UNCHANGED <<Tables, World, budget>>

-----------------------------------------------------------------------------
(* place_order, from the idempotency anchor to the position update.        *)

Unused(r) == row[r].st = "none" /\ \A q \in Rows : q < r => row[q].st # "none"

\* insert_order.  A signal that prune_dead_market deleted meanwhile fails the
\* foreign key, and nothing is placed.
InsertOrder ==
    /\ x.pc = "insert"
    /\ \/ /\ signal[x.sig] # "deleted"
          /\ \E r \in Rows :
                /\ Unused(r)
                /\ row' = [row EXCEPT ![r] = [NoOrder EXCEPT
                              !.st = "PENDING", !.sig = x.sig,
                              !.size = x.size, !.parent = x.parent]]
                /\ x' = [x EXCEPT !.pc = IF x.parent = NoRow THEN "mark" ELSE "send",
                                  !.row = r]
          /\ UNCHANGED budget
       \/ /\ signal[x.sig] = "deleted" /\ UNCHANGED budget
          /\ x' = Resume /\ UNCHANGED row
       \/ /\ DbError
          /\ x' = Resume /\ UNCHANGED row
    /\ UNCHANGED <<signal, pos, World>>

\* mark_signal_executed, a transaction of its own.  If it fails, place_order
\* returns with the row inserted and never submitted.
MarkExecuted ==
    /\ x.pc = "mark"
    /\ \/ /\ signal' = [signal EXCEPT ![x.sig] = IF @ = "deleted" THEN @ ELSE "executed"]
          /\ x' = [x EXCEPT !.pc = "send"]
          /\ UNCHANGED budget
       \/ /\ DbError
          /\ x' = Resume /\ UNCHANGED signal
    /\ UNCHANGED <<row, pos, World>>

MarkSent ==
    /\ x.pc = "send"
    /\ \/ /\ Write(x.row, "SENT")
          /\ x' = [x EXCEPT !.pc = "submit", !.try = 1]
          /\ UNCHANGED budget
       \/ /\ DbError
          /\ x' = [x EXCEPT !.pc = "reject"] /\ UNCHANGED row
    /\ UNCHANGED <<signal, pos, World>>

\* Mutant of the next definition: one attempt too many.
MutantRetryOrGiveUp ==
    x' = IF x.try <= MaxRetries THEN [x EXCEPT !.try = @ + 1]
                                ELSE [x EXCEPT !.pc = "reject"]

\* _backoff_retry: after a retryable failure the next attempt, or give up.
RetryOrGiveUp ==
    x' = IF x.try < MaxRetries THEN [x EXCEPT !.try = @ + 1]
                               ELSE [x EXCEPT !.pc = "reject"]

\* One attempt of _submit.  Every attempt signs and posts a fresh order.
Submit ==
    /\ x.pc = "submit"
    /\ \/ /\ book' = [book EXCEPT ![x.row][x.try].st = "live"]
          /\ \/ x' = [x EXCEPT !.pc = "ack"] /\ UNCHANGED budget
             \/ /\ budget.ack > 0 /\ budget' = [budget EXCEPT !.ack = @ - 1]
                /\ RetryOrGiveUp
       \/ /\ UNCHANGED <<book, budget>>
          /\ \/ RetryOrGiveUp                                        \* timeout, 5xx
             \/ \E g \in BOOLEAN : x' = [x EXCEPT !.pc = "reject", !.gone = g]
    /\ UNCHANGED <<Tables, stale, expired, old, kill>>

RecordOpen ==
    /\ x.pc = "ack"
    /\ \/ /\ row' = [row EXCEPT ![x.row].st = "OPEN", ![x.row].eoi = x.try,
                                ![x.row].working = row[x.row].size]
          /\ x' = [x EXCEPT !.pc = "book"]
          /\ UNCHANGED budget
       \/ /\ DbError
          /\ x' = [x EXCEPT !.pc = "reject"] /\ UNCHANGED row
    /\ UNCHANGED <<signal, pos, World>>

\* The working quantity of the new order; a failure is logged and swallowed.
BookWorking ==
    /\ x.pc = "book"
    /\ \/ /\ pos' = [pos EXCEPT ![TokenOf[x.sig]].working = @ + row[x.row].size]
          /\ UNCHANGED budget
       \/ DbError /\ UNCHANGED pos
    /\ x' = Resume
    /\ UNCHANGED <<signal, row, World>>

\* The except branch.  If the CLOB said the orderbook does not exist, a new
\* signal's market is pruned next.
RecordRejected ==
    /\ x.pc = "reject"
    /\ \/ /\ Write(x.row, "REJECTED")
          /\ x' = IF x.gone /\ x.phase = "signals" THEN [x EXCEPT !.pc = "prune"] ELSE Resume
          /\ UNCHANGED budget
       \/ /\ DbError
          /\ x' = Enter("reconcile") /\ UNCHANGED row
    /\ UNCHANGED <<signal, pos, World>>

\* The signals prune_dead_market deletes: the market's unexecuted ones, unless
\* one of them has an order row, when the foreign key fails the statement.
Doomed(s) ==
    LET D == {d \in Signals \ {s} : signal[d] = "queued" /\ TokenOf[d] = TokenOf[s]}
    IN  IF \E d \in D : OrderExistsForSignal(d) THEN {} ELSE D

\* mark_signal_skipped, whose failure ends the cycle, then prune_dead_market,
\* whose failure is swallowed.
PruneMarket ==
    /\ x.pc = "prune"
    /\ LET Skip(D) == [d \in Signals |-> IF d = x.sig /\ signal[d] # "deleted" THEN "skipped"
                                         ELSE IF d \in D THEN "deleted" ELSE signal[d]]
       IN  \/ signal' = Skip(Doomed(x.sig)) /\ x' = Resume /\ UNCHANGED budget
           \/ DbError /\ signal' = Skip({}) /\ x' = Resume
           \/ DbError /\ UNCHANGED signal /\ x' = Enter("reconcile")
    /\ UNCHANGED <<row, pos, World>>

-----------------------------------------------------------------------------
(* _poll_open_orders and poll_order_status, which reconcile_orders uses too. *)

ListOpen ==
    /\ At("poll", "list")
    /\ x' = [x EXCEPT !.pc = "next", !.seen = row, !.rows = OpenOrders]
    /\ UNCHANGED <<Tables, World, budget>>

\* The status the bot derives from the CLOB's answer for an order of size n.
\* An order that ended with part of it matched still reads as PARTIAL.
Answer(b, n) ==
    LET remaining == n - b.filled IN
    [st |-> IF b.st = "matched" \/ remaining = 0 THEN "FILLED"
            ELSE IF b.filled > 0 THEN "PARTIAL"
            ELSE IF b.st \in {"canceled", "expired"} THEN "CANCELED"
            ELSE "OPEN",
     filled |-> b.filled, remaining |-> remaining]

PollAnswered(r) ==
    /\ x.pc = "next" /\ x.phase \in {"reconcile", "poll"}
    /\ r \in x.rows /\ x.seen[r].eoi # NoEoi
    /\ LET o == x.seen[r]
           a == Answer(book[r][o.eoi], o.size)
       IN  IF a.st = o.st /\ a.filled = o.filled
           THEN x' = [x EXCEPT !.rows = @ \ {r}]
           ELSE x' = [x EXCEPT !.rows = @ \ {r}, !.pc = "update", !.row = r, !.data = a]
    /\ UNCHANGED <<Tables, World, budget>>

\* No exchange id to ask about, or every attempt of get_order failed.
PollUnanswered(r) ==
    /\ x.pc = "next" /\ r \in x.rows
    /\ x.phase = "poll" \/ (x.phase = "reconcile" /\ x.seen[r].eoi # NoEoi)
    /\ x' = [x EXCEPT !.rows = @ \ {r}]
    /\ UNCHANGED <<Tables, World, budget>>

\* A database error inside poll_order_status: the poll loop goes on to the next
\* row, the reconciler to its handler.
PollRaises == DbError /\ x' = IF x.phase = "reconcile" THEN [x EXCEPT !.pc = "recover"] ELSE Resume

\* update_order_status writes by clord_id, whatever the row says by now.
WritePoll ==
    /\ x.pc = "update"
    /\ \/ /\ row' = [row EXCEPT ![x.row].st = x.data.st, ![x.row].filled = x.data.filled,
                                ![x.row].working = x.data.remaining]
          /\ x' = [x EXCEPT !.pc = "settle"]
          /\ UNCHANGED budget
       \/ PollRaises /\ UNCHANGED row
    /\ UNCHANGED <<signal, pos, World>>

\* Mutant of the next definition: the whole fill, not what is new of it.
MutantDelta == [bought  |-> x.data.filled,
                working |-> x.data.remaining - x.seen[x.row].working]

\* What the position takes: the difference to the row as it was listed.
Delta == [bought  |-> x.data.filled - x.seen[x.row].filled,
          working |-> x.data.remaining - x.seen[x.row].working]

Settle ==
    /\ x.pc = "settle"
    /\ \/ /\ pos' = [pos EXCEPT ![TokenOfRow(x.row)] =
                        [bought  |-> @.bought + Delta.bought,
                         working |-> @.working + Delta.working]]
          /\ x' = Resume
          /\ UNCHANGED budget
       \/ PollRaises /\ UNCHANGED pos
    /\ UNCHANGED <<signal, row, World>>

-----------------------------------------------------------------------------
(* _reprice_expired_orders: claim first, then evaluate and post again.     *)

ListExpired ==
    /\ At("reprice", "list")
    /\ x' = [x EXCEPT !.pc = "next", !.rows = ExpiredUnfilled]
    /\ UNCHANGED <<Tables, World, budget>>

ClaimExpired(r) ==
    /\ At("reprice", "next")
    /\ r \in x.rows
    /\ row' = [row EXCEPT ![r].repriced = TRUE]
    /\ x' = [x EXCEPT !.pc = "evaluate", !.rows = @ \ {r}, !.parent = r, !.sig = row[r].sig]
    /\ UNCHANGED <<signal, pos, World, budget>>

\* The edge may be gone; check_reprice asks for room under the caps only.
EvaluateReprice ==
    /\ x.pc = "evaluate"
    /\ LET t == TokenOf[x.sig] IN
       \/ x' = Resume
       \/ /\ RoomForRow
          /\ TotalOpenExposure < PortfolioCap
          /\ PositionExposure(t) < PositionCap
          /\ \E n \in Sizes :
                ~ExceedsCaps(t, n) /\ x' = [x EXCEPT !.pc = "insert", !.size = n]
    /\ UNCHANGED <<Tables, World, budget>>

-----------------------------------------------------------------------------
(* cancel_all_open_orders, in a thread of its own.                         *)

KillList ==
    /\ kill.pc = "idle" /\ budget.kill > 0
    /\ budget' = [budget EXCEPT !.kill = @ - 1]
    /\ LET acked == {r \in OpenOrders : row[r].eoi # NoEoi}
       IN  kill' = [pc |-> IF acked = {} THEN "rows" ELSE "clob",
                    rows |-> OpenOrders, acked |-> acked, ok |-> TRUE]
    /\ UNCHANGED <<Tables, stale, expired, old, book, x>>

Live(r, k) == book[r][k].st = "live"

AllCanceled ==
    [r \in Rows |-> [k \in Attempts |->
        IF Live(r, k) THEN [book[r][k] EXCEPT !.st = "canceled"] ELSE book[r][k]]]

\* Mutant of the next definition: the outcome of the call is not looked at.
MutantKillClob ==
    /\ kill.pc = "clob"
    /\ book' \in {AllCanceled, book}
    /\ kill' = [kill EXCEPT !.pc = "rows"]
    /\ UNCHANGED <<Tables, stale, expired, old, x, budget>>

\* client.cancel_all(): done and acknowledged, done with the answer lost, or
\* not done.
KillClob ==
    /\ kill.pc = "clob"
    /\ \/ book' = AllCanceled /\ kill' = [kill EXCEPT !.pc = "rows"]
       \/ /\ book' \in {AllCanceled, book}
          /\ kill' = [kill EXCEPT !.pc = "rows", !.ok = FALSE]
    /\ UNCHANGED <<Tables, stale, expired, old, x, budget>>

KillRow(r) ==
    /\ kill.pc = "rows" /\ r \in kill.rows
    /\ \/ /\ IF r \notin kill.acked \/ kill.ok THEN Write(r, "CANCELED") ELSE UNCHANGED row
          /\ kill' = [kill EXCEPT !.rows = @ \ {r}]
          /\ UNCHANGED budget
       \/ /\ DbError
          /\ kill' = KillIdle /\ UNCHANGED row
    /\ UNCHANGED <<signal, pos, stale, expired, old, book, x>>

KillDone ==
    /\ kill.pc = "rows" /\ kill.rows = {}
    /\ kill' = KillIdle
    /\ UNCHANGED <<Tables, stale, expired, old, book, x, budget>>

-----------------------------------------------------------------------------
(* Outside the executor: the pipeline, the clock, the exchange, crashes.   *)

EmitSignal(s) ==
    /\ signal[s] = "unborn"
    /\ signal' = [signal EXCEPT ![s] = "queued"]
    /\ UNCHANGED <<row, pos, World, x, budget>>

AgeSignal(s) ==
    /\ signal[s] # "unborn" /\ s \notin stale
    /\ stale' = stale \union {s}
    /\ UNCHANGED <<Tables, expired, old, book, kill, x, budget>>

\* The watchdog ends a process whose cycle takes more than three minutes, so
\* the row being placed is younger than any order's lifetime and the cutoff.
InFlight(r) ==
    x.row = r /\ x.pc \in {"mark", "send", "submit", "ack", "book", "reject"}

\* GTD: the exchange drops what is left of the order at its expiration, which is
\* never before the signal is past its age limit of a minute.
Expire(r) ==
    /\ row[r].st # "none" /\ r \notin expired /\ ~InFlight(r)
    /\ row[r].sig \in stale
    /\ expired' = expired \union {r}
    /\ book' = [book EXCEPT ![r] = [k \in Attempts |->
                   IF Live(r, k) THEN [@[k] EXCEPT !.st = "expired"] ELSE @[k]]]
    /\ UNCHANGED <<Tables, stale, old, kill, x, budget>>

\* Followed only for rows whose age the reconciler asks about.
PassCutoff(r) ==
    /\ row[r].st \in OpenStatus /\ row[r].eoi = NoEoi
    /\ r \notin old /\ ~InFlight(r) /\ row[r].sig \in stale
    /\ old' = old \union {r}
    /\ UNCHANGED <<Tables, stale, expired, book, kill, x, budget>>

Match(r, k) ==
    /\ Live(r, k)
    /\ LET f == book[r][k].filled + 1 IN
       book' = [book EXCEPT ![r][k] =
                   [st |-> IF f = row[r].size THEN "matched" ELSE "live", filled |-> f]]
    /\ UNCHANGED <<Tables, stale, expired, old, kill, x, budget>>

\* The process dies and is started again: every thread starts over.
Crash ==
    /\ budget.crash > 0
    /\ budget' = [budget EXCEPT !.crash = @ - 1]
    /\ x' = Idle
    /\ kill' = KillIdle
    /\ UNCHANGED <<Tables, stale, expired, old, book>>

-----------------------------------------------------------------------------

Reconcile == \/ ReconcileList \/ FetchLive \/ FetchFails \/ RecoverCanceled
             \/ \E r \in Rows : RejectZombie(r)
Process   == ListSignals \/ \E s \in Signals : GateRefuses(s) \/ SkipSignal(s)
                                               \/ OrderbookGone(s) \/ ApproveSignal(s)
Place     == \/ InsertOrder \/ MarkExecuted \/ MarkSent \/ Submit \/ RecordOpen
             \/ BookWorking \/ RecordRejected \/ PruneMarket
Poll      == \/ ListOpen \/ WritePoll \/ Settle
             \/ \E r \in Rows : PollAnswered(r) \/ PollUnanswered(r)
Reprice   == ListExpired \/ EvaluateReprice \/ \E r \in Rows : ClaimExpired(r)
Executor  == Reconcile \/ Process \/ Place \/ Poll \/ Reprice \/ PhaseDone \/ CycleFails

KillSwitch == KillList \/ KillClob \/ KillDone \/ \E r \in Rows : KillRow(r)

Clock    == (\E s \in Signals : AgeSignal(s)) \/ \E r \in Rows : Expire(r) \/ PassCutoff(r)
Exchange == \E r \in Rows, k \in Attempts : Match(r, k)
Pipeline == \E s \in Signals : EmitSignal(s)

Next == Executor \/ KillSwitch \/ Clock \/ Exchange \/ Pipeline \/ Crash

Spec == Init /\ [][Next]_vars

(***************************************************************************)
(* Fairness: the executor thread runs, time passes, and a CLOB that is     *)
(* asked again and again answers in the end.                               *)
(***************************************************************************)
FairSpec ==
    /\ Spec
    /\ WF_vars(Executor)
    /\ SF_vars(FetchLive)
    /\ \A s \in Signals : WF_vars(AgeSignal(s))
    /\ \A r \in Rows : /\ WF_vars(PassCutoff(r)) /\ WF_vars(Expire(r))
                       /\ SF_vars(PollAnswered(r))

-----------------------------------------------------------------------------
(* What is checked.                                                        *)

SignalState == {"unborn", "queued", "executed", "skipped", "deleted"}

Answers == [st : {"OPEN", "PARTIAL", "FILLED", "CANCELED"}, filled : Nat, remaining : Int]

ExecutorState ==
    [phase : Phases, pc : Steps, cycle : Nat, sigs : SUBSET Signals,
     rows : SUBSET Rows, seen : [Rows -> OrderRow],
     sig : Signals \union {NoSignal}, parent : Rows \union {NoRow}, size : Nat,
     row : Rows \union {NoRow}, try : 0..MaxRetries, gone : BOOLEAN, data : Answers]

\* Every variable has its type; in particular a submission makes no more than
\* MaxRetries attempts, whatever fails (_backoff_retry).
TypeOK ==
    /\ signal \in [Signals -> SignalState]
    /\ stale \subseteq Signals
    /\ row \in [Rows -> OrderRow]
    /\ expired \subseteq Rows /\ old \subseteq Rows
    /\ book \in [Rows -> [Attempts -> BookOrder]]
    /\ pos \in [Tokens -> [bought : Int, working : Int]]
    /\ x \in ExecutorState
    /\ kill \in [pc : {"idle", "clob", "rows"}, rows : SUBSET Rows,
                 acked : SUBSET Rows, ok : BOOLEAN]
    /\ budget \in [crash : Nat, kill : Nat, ack : Nat, db : Nat]

\* Gate 4 with the row inserted before the signal is marked: a signal is ordered
\* at most once, reprices aside, whatever crashes, fails or is cancelled.
OneOriginalPerSignal ==
    \A p, q \in Rows :
        /\ Used(p) /\ row[p].parent = NoRow
        /\ Used(q) /\ row[q].parent = NoRow
        /\ row[p].sig = row[q].sig
        => p = q

\* The claim comes before the reprice: an expired order is reposted at most once,
\* for the signal it was placed for.
RepricedOnce ==
    \A p, q \in Rows :
        /\ Used(p) /\ row[p].parent # NoRow
        => /\ row[p].sig = row[row[p].parent].sig
           /\ (Used(q) /\ row[q].parent = row[p].parent => p = q)

\* An order that was claimed for a reprice is over, on the bot's books: no late
\* poll, acknowledgement or reconciliation opens it again beside its successor.
RepricedIsClosed == \A r \in Rows : row[r].repriced => row[r].st = "CANCELED"

\* The portfolio cap on the bot's own books (get_total_open_exposure), which
\* neither a crash, nor the kill switch, nor a row coming back to life undoes.
ExposureCapped == TotalOpenExposure <= PortfolioCap

RowsOf(t) == {r \in Rows : Used(r) /\ TokenOfRow(r) = t}

Matched(r) == SumFunctionOnSet([k \in Attempts |-> book[r][k].filled], Attempts)

\* Additive position deltas: a fill is booked at most once, so what a position
\* holds never exceeds what its orders matched (poll_order_status).
BookedAtMostOnce ==
    \A t \in Tokens :
        pos[t].bought <= SumFunctionOnSet([r \in Rows |-> Matched(r)], RowsOf(t))

\* The kill switch closes rows that have an exchange id only when none of them
\* can still trade.
KillClosesOnlyDead ==
    kill.pc = "rows" /\ kill.ok => \A r \in kill.acked : ~Live(r, row[r].eoi)

\* The orders table as a ledger of intents (module OrderLedger).
Ledger == INSTANCE OrderLedger WITH
    Ids      <- Rows,
    None     <- NoRow,
    entries  <- {[id |-> r, sig |-> row[r].sig, prev |-> row[r].parent] : r \in {q \in Rows : Used(q)}},
    replaced <- {r \in Rows : row[r].repriced}

\* The execution layer keeps the promise of the ledger.
KeepsLedger == Ledger!LedgerSpec

\* The zombie sweep: a row does not stay forever between insertion and the CLOB's
\* answer, even when the process died there (reconcile_orders).
InFlightResolved ==
    \A r \in Rows : row[r].st \in {"PENDING", "SENT"} ~> row[r].st \notin {"PENDING", "SENT"}

-----------------------------------------------------------------------------
(* What the repository says and the code does not keep.                    *)

\* The order state machine of EXECUTION_LOGIC.md: rows past their last status
\* stay there.
TerminalIsFinal ==
    [][\A r \in Rows : row[r].st \in TerminalStatus => row'[r].st = row[r].st]_row

\* cancel_all_open_orders: "DB state must never claim an order is canceled while
\* it is still live on the CLOB", here with every thread done with the order.
CanceledIsDead ==
    kill.pc = "idle" =>
        \A r \in Rows, k \in Attempts :
            row[r].st = "CANCELED" /\ ~InFlight(r) => ~Live(r, k)

\* get_expired_unfilled_orders: "GTD-expired (not user-canceled)".
RepricedWasExpired ==
    \A r \in Rows : Used(r) /\ row[r].parent # NoRow =>
        LET p == row[r].parent IN
        \E k \in Attempts : row[p].eoi = k /\ book[p][k].st = "expired"

\* Gate 4.5: "one position per outcome token".
OneOrderPerToken ==
    \A p, q \in Rows :
        /\ row[p].st \in CountedStatus /\ row[q].st \in CountedStatus
        /\ TokenOfRow(p) = TokenOfRow(q)
        => p = q

\* EXECUTION_LOGIC.md on retries: "the CLOB deduplicates on it".
OneClobOrderPerRow ==
    \A r \in Rows : \A j, k \in Attempts :
        book[r][j].st # "none" /\ book[r][k].st # "none" => j = k

\* _classify: "exchange_order_id is NULL -> never registered on CLOB".
NoEoiNeverRegistered ==
    \A r \in Rows, k \in Attempts :
        row[r].st \in OpenStatus /\ row[r].eoi = NoEoi /\ ~InFlight(r) => book[r][k].st = "none"

\* Gate 6: working quantity stands for pending orders; with none pending, and the
\* executor between two cycles, none is left.
WorkingIsPending ==
    \A t \in Tokens :
        /\ At("reconcile", "list")
        /\ \A r \in RowsOf(t) : row[r].st \in TerminalStatus
        => pos[t].working = 0

\* The order state machine: an order the exchange has ended reaches a terminal
\* status.
EndedIsClosed ==
    \A r \in Rows :
        /\ row[r].st \in OpenStatus /\ row[r].eoi # NoEoi
        /\ book[r][row[r].eoi].st \in {"matched", "canceled", "expired"}
        ~> row[r].st \in TerminalStatus

=============================================================================
