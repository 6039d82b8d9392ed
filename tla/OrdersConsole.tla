--------------------------- MODULE OrdersConsole ---------------------------
(***************************************************************************)
(* The order side of the execution console: the page an operator watches   *)
(* and cancels orders from, the API server behind it, and the executor of  *)
(* the bot, which writes the same rows and knows nothing of the page.      *)
(*                                                                         *)
(* A step is a database statement, a CLOB call, or what the operator does  *)
(* to the page.  The page shows a copy of the table that is up to thirty   *)
(* seconds old; a list is fetched in one step, since what it shows may be  *)
(* older than the table anyway.  An order is two shares of a token of its  *)
(* own, bought; its number is its id and, in the order of creation, its    *)
(* day.  The retries of a submission, reposts, the kill switch and the     *)
(* gate are OrderExecution's.                                              *)
(***************************************************************************)
EXTENDS Integers, FiniteSets, ApiClient

CONSTANTS
    MaxOrders,      \* bound: orders ever inserted
    ListLimit,      \* the LIMIT of GET /orders (200)
    MaxClicks,      \* bound: dialogs ever opened
    MaxLosses       \* bound: answers of the CLOB and processes that are lost

ASSUME BoundAssumption ==
    /\ MaxOrders \in Nat /\ ListLimit \in Nat \ {0}
    /\ MaxClicks \in Nat /\ MaxLosses \in Nat

Order == 1..MaxOrders
NoOrder == 0
AllOrders == -1     \* what the dialog of Cancel All and its request stand for

VARIABLES
    row,        \* orders: status and filled_qty
    pos,        \* positions: bought and working_buy
    clob,       \* the exchange's order, outside the process
    exec,       \* the executor's stack
    lost,       \* <<order, pc>>: the step of the bot that was lost
    page,       \* the console: list shown, open dialog, cancel in flight
    wire,       \* cancels on their way to the server
    budget      \* what is left of the bounded events

vars == <<row, pos, clob, exec, lost, page, wire, budget>>

(* The mutants are the plausible slips the properties are tried against. *)
MutantActiveStatuses == {"PENDING_SUBMISSION", "SENT", "PARTIALLY_FILLED", "CANCEL_REQUESTED"}

ACTIVE_STATUSES ==
    {"PENDING_SUBMISSION", "SENT", "OPEN", "PARTIALLY_FILLED", "CANCEL_REQUESTED"}
CLOSED_STATUSES == {"FILLED", "CANCELED", "REJECTED", "EXPIRED", "ERROR"}
Cancelable == ACTIVE_STATUSES \ {"CANCEL_REQUESTED"}

(* get_open_orders: what the bot itself takes for open. *)
BotOpen == {"PENDING_SUBMISSION", "SENT", "OPEN", "PARTIALLY_FILLED"}

Inserted == {o \in Order : row[o].status # "none"}
With(statuses) == {o \in Order : row[o].status \in statuses}

(***************************************************************************)
(* GET /orders: the newest rows of a status group, created in [since,      *)
(* until); 0 stands for no bound.                                          *)
(***************************************************************************)
StatusGroup(group) ==
    CASE group = "closed" -> CLOSED_STATUSES
      [] group = "all" -> ACTIVE_STATUSES \cup CLOSED_STATUSES
      [] OTHER -> ACTIVE_STATUSES

GetOrders(group, limit, since, until) ==
    LET meets == {o \in With(StatusGroup(group)) :
                      /\ since # 0 => o >= since
                      /\ until # 0 => o < until}
    IN  {o \in meets : Cardinality({p \in meets : p > o}) < limit}

(* The two dates of the filter, as parameters of the request. *)
dateRangeToParams(range) ==
    [since |-> range.from, until |-> IF range.to = 0 THEN 0 ELSE range.to + 1]

ListFor(group, limit, range) ==
    LET params == dateRangeToParams(range)
    IN  GetOrders(group, limit, params.since, params.until)

AnyDay == [from |-> 0, to |-> 0]

(***************************************************************************)
(* What the page computes from the rows of its lists.                      *)
(***************************************************************************)
(* A row of the blotter, and whether it has a Cancel button. *)
ActiveBlotter ==
    [o \in ListFor("active", ListLimit, AnyDay) |->
        row[o].status # "CANCEL_REQUESTED"]
ClosedBlotter == ListFor("closed", ListLimit, AnyDay)

(* The icon in front of a status. *)
statusIcon(status) ==
    CASE status = "FILLED" -> "check"
      [] status \in {"CANCELED", "EXPIRED"} -> "ban"
      [] status \in {"REJECTED", "ERROR"} -> "cross"
      [] status = "CANCEL_REQUESTED" -> "spinner"
      [] status \in {"SUBMITTED", "PARTIALLY_FILLED"} -> "clock"
      [] OTHER -> "none"

(* The colour of its badge; SENT and OPEN have none of their own. *)
STATUS_STYLES ==
    [PENDING_SUBMISSION |-> "amber", SUBMITTED |-> "sky", PARTIALLY_FILLED |-> "indigo",
     CANCEL_REQUESTED |-> "orange", FILLED |-> "emerald", CANCELED |-> "slate",
     REJECTED |-> "red", EXPIRED |-> "slate", ERROR |-> "red"]
statusStyle(status) ==
    IF status \in DOMAIN STATUS_STYLES THEN STATUS_STYLES[status] ELSE "slate"

MutantPortfolioAtRisk == With(BotOpen)

(* GET /portfolio sums the sizes of these rows. *)
PortfolioAtRisk == With(ACTIVE_STATUSES)

(* GET /positions: the WHERE clause. *)
MutantGetPositions == {o \in Order : pos[o].working > 0}

GetPositions == {o \in Order : pos[o].bought # 0 \/ pos[o].working > 0}

(* The Open Positions tab, and whether a row has something working. *)
PositionsBlotter == [o \in GetPositions |-> pos[o].working > 0]

(* What the page keeps of its lists: the closed one has a limit of 1.      *)
Counts ==
    [active |-> Cardinality(DOMAIN ActiveBlotter),
     atRisk |-> DOMAIN ActiveBlotter,
     closed |-> Cardinality(ListFor("closed", 1, AnyDay)),
     positions |-> Cardinality(GetPositions)]

(* The stat cards; without a position the one of the positions says "no    *)
(* exposure".  Two of the tabs have a counter.                             *)
StatCards == [counts |-> Counts, exposed |-> Counts.positions # 0]
TABS == [active |-> Counts.active, positions |-> Counts.positions]

(* GET /orders/analytics: one counter per kind of status. *)
Analytics ==
    [sent |-> Cardinality(Inserted),
     filled |-> Cardinality(With({"FILLED"})),
     rejected |-> Cardinality(With({"REJECTED"})),
     canceled |-> Cardinality(With({"CANCELED"})),
     expired |-> Cardinality(With({"EXPIRED"})),
     error |-> Cardinality(With({"ERROR"})),
     active |-> Cardinality(With(ACTIVE_STATUSES))]

(* A row of the table of strategies, which stands for all of them here. *)
StrategyBar ==
    LET n == Analytics
    IN  [filled |-> n.filled, rejected |-> n.rejected,
         other |-> n.canceled + n.expired + n.error, active |-> n.active]

(* The counters above it; a rate has no value before an order was sent. *)
Rate(part, whole) == IF whole = 0 THEN -1 ELSE (part * 1000) \div whole

OrderAnalyticsTab ==
    LET n == Analytics
    IN  [sent |-> n.sent,
         fillRate |-> Rate(n.filled, n.sent), rejectRate |-> Rate(n.rejected, n.sent)]
-----------------------------------------------------------------------------
NoRow == [status |-> "none", filled |-> 0]
NoPosition == [bought |-> 0, working |-> 0]
NoAnswer == [state |-> "none", matched |-> 0]
Idle == [pc |-> "idle", o |-> NoOrder, seen |-> <<>>, answer |-> NoAnswer]
At(pc, o) == [Idle EXCEPT !.pc = pc, !.o = o]
FreshPage == [list |-> <<>>, confirm |-> NoOrder, pending |-> NoOrder]

Init ==
    /\ row = [o \in Order |-> NoRow]
    /\ pos = [o \in Order |-> NoPosition]
    /\ clob = [o \in Order |-> NoAnswer]
    /\ exec = Idle
    /\ lost = {}
    /\ page = FreshPage
    /\ wire = {}
    /\ budget = [clicks |-> MaxClicks, losses |-> MaxLosses]

Write(o, status) == row' = [row EXCEPT ![o].status = status]

console == <<page, wire>>
books == <<row, pos>>

(***************************************************************************)
(* The executor places an order.                                           *)
(***************************************************************************)
InsertOrder ==
    /\ exec = Idle
    /\ \E o \in Order :
        /\ Inserted = 1..(o - 1)
        /\ Write(o, "PENDING_SUBMISSION")
        /\ exec' = At("send", o)
    /\ UNCHANGED <<pos, clob, lost, console, budget>>

MarkSent ==
    /\ exec.pc = "send"
    /\ Write(exec.o, "SENT")
    /\ exec' = At("post", exec.o)
    /\ UNCHANGED <<pos, clob, lost, console, budget>>

(* The CLOB takes the order, refuses it, or takes it and the answer is     *)
(* lost, which the bot takes for a refusal.                                *)
PostAccepted ==
    /\ exec.pc = "post"
    /\ clob' = [clob EXCEPT ![exec.o].state = "live"]
    /\ exec' = At("ack", exec.o)
    /\ UNCHANGED <<books, lost, console, budget>>

PostRefused ==
    /\ exec.pc = "post"
    /\ exec' = At("reject", exec.o)
    /\ UNCHANGED <<books, clob, lost, console, budget>>

PostLost ==
    /\ exec.pc = "post" /\ budget.losses > 0
    /\ budget' = [budget EXCEPT !.losses = @ - 1]
    /\ clob' = [clob EXCEPT ![exec.o].state = "live"]
    /\ lost' = lost \cup {<<exec.o, "ack">>}
    /\ exec' = At("reject", exec.o)
    /\ UNCHANGED <<books, console>>

MarkOpen ==
    /\ exec.pc = "ack"
    /\ Write(exec.o, "OPEN")
    /\ exec' = At("work", exec.o)
    /\ UNCHANGED <<pos, clob, lost, console, budget>>

BookWorking ==
    /\ exec.pc = "work"
    /\ pos' = [pos EXCEPT ![exec.o].working = @ + 2]
    /\ exec' = Idle
    /\ UNCHANGED <<row, clob, lost, console, budget>>

MarkRejected ==
    /\ exec.pc = "reject"
    /\ Write(exec.o, "REJECTED")
    /\ exec' = Idle
    /\ UNCHANGED <<pos, clob, lost, console, budget>>

(***************************************************************************)
(* The executor goes through the orders it takes for open: fill polling,   *)
(* and the reconciler for the rows a dead process left in flight.  The     *)
(* rows are read once, oldest first; what is written later does not look   *)
(* at them again.                                                          *)
(***************************************************************************)
ListOpen ==
    /\ exec = Idle /\ With(BotOpen) # {}
    /\ exec' = [Idle EXCEPT !.pc = "poll",
                           !.seen = [o \in With(BotOpen) |-> row[o]]]
    /\ UNCHANGED <<books, clob, lost, console, budget>>

Oldest(o) == o \in DOMAIN exec.seen /\ \A p \in DOMAIN exec.seen : o <= p
Without(o) == [p \in DOMAIN exec.seen \ {o} |-> exec.seen[p]]
Continue(o) == [Idle EXCEPT !.pc = IF Without(o) = <<>> THEN "idle" ELSE "poll",
                            !.seen = Without(o)]

NewStatus(answer) ==
    CASE answer.matched = 2 -> "FILLED"
      [] answer.matched = 1 -> "PARTIALLY_FILLED"
      [] OTHER -> IF answer.state = "dead" THEN "CANCELED" ELSE "OPEN"

Acknowledged(o) == exec.seen[o].status \in {"OPEN", "PARTIALLY_FILLED"}
Changed(o) == \/ NewStatus(clob[o]) # exec.seen[o].status
              \/ clob[o].matched # exec.seen[o].filled

(* get_order answers; if it says something new, two writes follow. *)
Poll(o) ==
    /\ exec.pc = "poll" /\ Oldest(o) /\ Acknowledged(o)
    /\ exec' = IF Changed(o)
               THEN [exec EXCEPT !.pc = "write", !.o = o, !.answer = clob[o]]
               ELSE Continue(o)
    /\ UNCHANGED <<books, clob, lost, console, budget>>

PollFailed(o) ==
    /\ exec.pc = "poll" /\ Oldest(o)
    /\ exec' = Continue(o)
    /\ UNCHANGED <<books, clob, lost, console, budget>>

(* The reconciler finds a row in flight past the cutoff: only a process    *)
(* that died leaves one.                                                   *)
Zombie(o) ==
    /\ exec.pc = "poll" /\ Oldest(o) /\ ~Acknowledged(o)
    /\ Write(o, "REJECTED")
    /\ exec' = Continue(o)
    /\ UNCHANGED <<pos, clob, lost, console, budget>>

UpdateOrder ==
    /\ exec.pc = "write"
    /\ row' = [row EXCEPT ![exec.o] = [status |-> NewStatus(exec.answer),
                                      filled |-> exec.answer.matched]]
    /\ exec' = [exec EXCEPT !.pc = "book"]
    /\ UNCHANGED <<pos, clob, lost, console, budget>>

UpdatePosition ==
    /\ exec.pc = "book"
    /\ LET delta == exec.answer.matched - exec.seen[exec.o].filled
       IN  pos' = [pos EXCEPT ![exec.o].bought = @ + delta,
                              ![exec.o].working = @ - delta]
    /\ exec' = Continue(exec.o)
    /\ UNCHANGED <<row, clob, lost, console, budget>>

(* The process dies; a step that had to follow another is lost with it.    *)
Restart ==
    /\ exec # Idle /\ budget.losses > 0
    /\ budget' = [budget EXCEPT !.losses = @ - 1]
    /\ lost' = IF exec.pc \in {"ack", "work", "book"}
               THEN lost \cup {<<exec.o, exec.pc>>} ELSE lost
    /\ exec' = Idle
    /\ UNCHANGED <<books, clob, console>>

Executor ==
    \/ InsertOrder \/ MarkSent \/ PostAccepted \/ PostRefused \/ PostLost
    \/ MarkOpen \/ BookWorking \/ MarkRejected
    \/ ListOpen \/ UpdateOrder \/ UpdatePosition
    \/ \E o \in Order : Poll(o) \/ PollFailed(o) \/ Zombie(o)

(***************************************************************************)
(* The exchange: a live order is matched share by share, expires, or is    *)
(* canceled by the exchange.                                               *)
(***************************************************************************)
Match(o) ==
    /\ clob[o].state = "live"
    /\ clob' = [clob EXCEPT ![o] =
                   [state |-> IF @.matched = 1 THEN "dead" ELSE "live",
                    matched |-> @.matched + 1]]
    /\ UNCHANGED <<books, exec, lost, console, budget>>

Expire(o) ==
    /\ clob[o].state = "live"
    /\ clob' = [clob EXCEPT ![o].state = "dead"]
    /\ UNCHANGED <<books, exec, lost, console, budget>>

(***************************************************************************)
(* The page.  The active list is fetched when the page opens and every     *)
(* thirty seconds, and again when one of its keys is invalidated.  A       *)
(* dialog covers the page, so one is open at most.                         *)
(***************************************************************************)
MutantFetchActive ==
    /\ page.list = <<>>
    /\ page' = [page EXCEPT !.list = ActiveBlotter]
    /\ UNCHANGED <<books, clob, exec, lost, wire, budget>>

FetchActive ==
    /\ page' = [page EXCEPT !.list = ActiveBlotter]
    /\ UNCHANGED <<books, clob, exec, lost, wire, budget>>

(* Leaving the tab unmounts the blotter, and its mutation with it: the     *)
(* next blotter knows nothing of a cancel that is still on its way.        *)
LeaveTab ==
    /\ page.pending # NoOrder /\ page.confirm = NoOrder
    /\ page' = [page EXCEPT !.pending = NoOrder]
    /\ UNCHANGED <<books, clob, exec, lost, wire, budget>>

AskCancel(o) ==
    /\ page.confirm = NoOrder
    /\ o \in DOMAIN page.list /\ page.list[o]
    /\ budget.clicks > 0 /\ budget' = [budget EXCEPT !.clicks = @ - 1]
    /\ page' = [page EXCEPT !.confirm = o]
    /\ UNCHANGED <<books, clob, exec, lost, wire>>

AskCancelAll ==
    /\ page.confirm = NoOrder /\ page.list # <<>>
    /\ budget.clicks > 0 /\ budget' = [budget EXCEPT !.clicks = @ - 1]
    /\ page' = [page EXCEPT !.confirm = AllOrders]
    /\ UNCHANGED <<books, clob, exec, lost, wire>>

Abort ==
    /\ page.confirm # NoOrder
    /\ page' = [page EXCEPT !.confirm = NoOrder]
    /\ UNCHANGED <<books, clob, exec, lost, wire, budget>>

Confirm ==
    /\ page.confirm \in Order /\ page.pending = NoOrder
    /\ page' = [page EXCEPT !.confirm = NoOrder, !.pending = page.confirm]
    /\ wire' = wire \cup {page.confirm}
    /\ UNCHANGED <<books, clob, exec, lost, budget>>

ConfirmAll ==
    /\ page.confirm = AllOrders /\ AllOrders \notin wire
    /\ wire' = wire \cup {AllOrders}
    /\ UNCHANGED <<books, clob, exec, lost, page, budget>>

(* onSuccess invalidates ["listOrders"]: is the list fetched again?        *)
Refetched ==
    IF Reaches(CancelInvalidates, ListOrders(<<"active">>))
    THEN ActiveBlotter ELSE page.list

(***************************************************************************)
(* DELETE /orders/:id and POST /orders/cancel-all: one UPDATE each.  The   *)
(* request carries no version of what the operator saw.  A request, or its *)
(* answer, may be lost; a dialog for all orders is closed by success only. *)
(***************************************************************************)
MutantRequested(o) == "CANCEL_REQUESTED"

Requested(o) ==
    IF row[o].status \in Cancelable THEN "CANCEL_REQUESTED" ELSE row[o].status

CancelOne(o) ==
    /\ o \in wire
    /\ Write(o, Requested(o))
    /\ wire' = wire \ {o}
    /\ page' = [page EXCEPT !.pending = IF @ = o THEN NoOrder ELSE @,
                           !.list = Refetched]
    /\ UNCHANGED <<pos, clob, exec, lost, budget>>

CancelAll ==
    /\ AllOrders \in wire
    /\ row' = [o \in Order |-> [row[o] EXCEPT !.status =
                                   IF @ \in Cancelable THEN "CANCEL_REQUESTED" ELSE @]]
    /\ wire' = wire \ {AllOrders}
    /\ \E answered \in BOOLEAN :
          page' = [page EXCEPT !.list = Refetched, !.confirm =
                     IF @ = AllOrders /\ answered THEN NoOrder ELSE @]
    /\ UNCHANGED <<pos, clob, exec, lost, budget>>

CancelLost(o) ==
    /\ o \in wire
    /\ wire' = wire \ {o}
    /\ page' = [page EXCEPT !.pending = IF @ = o THEN NoOrder ELSE @]
    /\ UNCHANGED <<books, clob, exec, lost, budget>>

Operator ==
    \/ FetchActive \/ LeaveTab \/ AskCancelAll \/ Abort \/ Confirm \/ ConfirmAll
    \/ \E o \in Order : AskCancel(o)

Server ==
    \/ CancelAll
    \/ \E o \in Order : CancelOne(o)
    \/ \E o \in wire : CancelLost(o)

Next ==
    \/ Executor \/ Restart
    \/ \E o \in Order : Match(o) \/ Expire(o)
    \/ Operator \/ Server

Spec == Init /\ [][Next]_vars

(* The executor's loop runs; the page polls; an order is good till a date. *)
FairSpec ==
    /\ Spec /\ WF_vars(Executor) /\ WF_vars(FetchActive)
    /\ WF_vars(\E o \in Order : Expire(o))
-----------------------------------------------------------------------------
Row == [status : {"none"} \cup ACTIVE_STATUSES \cup CLOSED_STATUSES, filled : 0..2]
Position == [bought : Int, working : Int]
Pc == {"idle", "send", "post", "ack", "work", "reject", "poll", "write", "book"}

(* The types of the variables; the locals of the executor are meaningful   *)
(* where its program counter says they are.                                *)
TypeOK ==
    /\ row \in [Order -> Row]
    /\ pos \in [Order -> Position]
    /\ clob \in [Order -> [state : {"none", "live", "dead"}, matched : 0..2]]
    /\ exec.pc \in Pc
    /\ exec.pc \notin {"idle", "poll"} => exec.o \in Order
    /\ DOMAIN exec.seen \subseteq Order
    /\ \A o \in DOMAIN exec.seen : exec.seen[o] \in Row
    /\ exec.pc \in {"write", "book"} => exec.o \in DOMAIN exec.seen
    /\ lost \subseteq Order \X {"ack", "work", "book"}
    /\ DOMAIN page.list \subseteq Order
    /\ page.confirm \in Order \cup {NoOrder, AllOrders}
    /\ page.pending \in Order \cup {NoOrder}
    /\ wire \subseteq Order \cup {AllOrders}

(* An order that works on the exchange is among the rows the server calls  *)
(* active, so that the operator can see it: whoever wrote its row last,    *)
(* executor, reconciler or operator, and unless its acceptance was lost.   *)
LiveIsListed ==
    \A o \in Order :
        /\ clob[o].state = "live"
        /\ <<o, "ack">> \notin lost /\ ~(exec.pc = "ack" /\ exec.o = o)
        => row[o].status \in ACTIVE_STATUSES

(* A filled order shows in the positions tab unless the process is between *)
(* the two writes of the poll or died there (poll_order_status writes the  *)
(* order first).                                                           *)
FillIsHeld ==
    \A o \in Order :
        /\ row[o].status = "FILLED"
        /\ <<o, "book">> \notin lost /\ ~(exec.pc = "book" /\ exec.o = o)
        => o \in DOMAIN PositionsBlotter

(* Every row the bot or the operator can produce is counted by the console *)
(* exactly once, and where it says: the counters of the analytics tab, the *)
(* stat cards, the tabs and the portfolio agree with the lists (below the  *)
(* LIMIT), and the colour of a status with its icon.                       *)
CountersAgree ==
    LET bar == StrategyBar
        tab == OrderAnalyticsTab
        stats == StatCards.counts
        active == ActiveBlotter
        closed == ClosedBlotter
        ended == bar.filled + bar.rejected + bar.other
        Ended(o) == statusIcon(row[o].status) \in {"check", "ban", "cross"}
    IN  /\ tab.sent = ended + bar.active
        /\ tab.fillRate = 1000 => \A o \in Inserted : row[o].status = "FILLED"
        /\ Cardinality(Inserted) <= ListLimit =>
              /\ bar.active = stats.active /\ ended = Cardinality(closed)
              /\ PortfolioAtRisk = stats.atRisk
              /\ DOMAIN active \cup closed = Inserted
              /\ \A o \in Inserted : Ended(o) <=> o \in closed
              /\ \A o \in DOMAIN active :
                    active[o] <=> statusIcon(row[o].status) # "spinner"
              /\ TABS.active = Cardinality(DOMAIN active)
        /\ TABS.positions = Cardinality(DOMAIN PositionsBlotter)
        /\ ~StatCards.exposed => \A o \in Order : pos[o].bought = 0
        /\ \A o \in Inserted :
              LET icon == statusIcon(row[o].status)
                  style == statusStyle(row[o].status)
              IN  /\ style = "red" <=> icon = "cross"
                  /\ style = "emerald" <=> icon = "check"
                  /\ style = "orange" <=> icon = "spinner"
        /\ stats.closed = 0 <=> closed = {}

(* The date filter is inclusive at both ends: the orders up to a day and   *)
(* those from the next day on are all the orders, and none is in both.     *)
DaysPartition ==
    \A day \in Order :
        LET until == ListFor("all", MaxOrders, [from |-> 0, to |-> day])
            after == ListFor("all", MaxOrders, [from |-> day + 1, to |-> 0])
        IN  until \cup after = Inserted /\ until \cap after = {} /\ day \notin after
            /\ (day \in Inserted => day \in until)

(* Whatever the console counts or lists, it counts and lists each order    *)
(* once: by status and by day (orders.ts, execution.tsx).                  *)
ListsAgree == CountersAgree /\ DaysPartition

(* An operator who clicks on a row of a list that is out of date never     *)
(* reopens an order that has been closed since (routes/orders.ts, DELETE). *)
ClosedIsNotReopened ==
    [][\A o \in Order : row[o].status \in CLOSED_STATUSES
                          => row'[o].status # "CANCEL_REQUESTED"]_vars

(* A closed order leaves the blotter (refetchInterval).                    *)
ClosedLeavesBlotter ==
    \A o \in Order : row[o].status \in CLOSED_STATUSES ~> o \notin DOMAIN page.list
-----------------------------------------------------------------------------
(* What the confirmation dialog promises of a cancel: "The executor will   *)
(* send the cancel to the exchange on its next cycle."  The bot reads no   *)
(* row in CANCEL_REQUESTED: it sends nothing, and when the order has ended *)
(* on the exchange by itself the row is still waiting for its cancel.      *)
CancelIsCarriedOut ==
    \A o \in Order :
        row[o].status = "CANCEL_REQUESTED" ~> row[o].status \in CLOSED_STATUSES

(* A cancel that was acknowledged stays until the order is closed.  The    *)
(* executor writes OPEN over it when it was reading the order's state.     *)
CancelIsKept ==
    [][\A o \in Order : row[o].status = "CANCEL_REQUESTED"
                          => row'[o].status \notin Cancelable]_vars

(* A fill reaches the order's row.  Not after a cancel was requested.      *)
FillReachesRow ==
    \A o \in Order : clob[o].matched = 2 ~> row[o].status \in CLOSED_STATUSES
=============================================================================
