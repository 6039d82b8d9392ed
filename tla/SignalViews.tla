---------------------------- MODULE SignalViews ----------------------------
(***************************************************************************)
(* What the API server reads from the table signals, and what the pages of *)
(* the dashboard make of it.  A table is a sequence in the order of        *)
(* insertion; the place of a row is its id.  Time is counted in half       *)
(* hours, so that a row may be recent and belong to the clock hour before. *)
(* Amounts and wording are left out.                                       *)
(***************************************************************************)
EXTENDS Preferences, Integers, FiniteSets, Sequences, FiniteSetsExt, TLC

CONSTANTS
    TagOf,          \* the first tag of a market, as a function
    UnknownMarket   \* stands for a market the watchlist has dropped

Hour == 2
Day == 24 * Hour
Anything == "any"

Signals(strategy, market) ==
    [strategy |-> strategy, market |-> market, hours |-> 0, limit |-> 0,
     resolved |-> Anything]

AtMost(asked, default, cap) ==
    LET value == IF asked = 0 THEN default ELSE asked
    IN  IF value < cap THEN value ELSE cap

(* The newest n of a set of rows. *)
Newest(rows, n) == {i \in rows : Cardinality({j \in rows : j > i}) < n}
Latest(rows) == IF rows = {} THEN 0 ELSE Max(rows)

(***************************************************************************)
(* The table signals: a row says when it was emitted, whether the executor *)
(* took or skipped it, and how the market resolved.                        *)
(***************************************************************************)
HourOf(row) == row.at \div Hour

Within(table, now, hours) ==
    {i \in DOMAIN table : table[i].at > now - hours * Hour}

Meets(row, wants) ==
    /\ wants.strategy \in {Anything, row.strategy}
    /\ wants.market \in {Anything, row.market}
    /\ wants.resolved = Anything \/ (wants.resolved = "true") = (row.outcome # "open")

(* GET /signals *)
GetSignals(table, now, wants) ==
    Newest({i \in Within(table, now, AtMost(wants.hours, 24, 336)) :
               Meets(table[i], wants)},
           AtMost(wants.limit, 100, 500))

(* GET /signals/counts: a strategy without a row has no entry. *)
GetCounts(table, now) ==
    LET rows == Within(table, now, 24)
    IN  [s \in {table[i].strategy : i \in rows} |->
            Cardinality({i \in rows : table[i].strategy = s})]

SumOf(f) == MapThenSumSet(LAMBDA x : f[x], DOMAIN f)

(* The badge of a row.  A skipped signal is marked executed as well.       *)

Badge(row) ==
    IF row.outcome # "open" THEN "Resolved"
    ELSE IF row.exec = "skipped" THEN "Skipped"
    ELSE IF row.exec # "new" THEN "Executed"
    ELSE "Active"

(* The signals page: seven days, one strategy or all. *)
SignalsTable(table, now, filter) ==
    GetSignals(table, now, [Signals(filter, Anything) EXCEPT !.hours = 168, !.limit = 200])

(* The overview: the feed of the newest eight, and the total of the counts.*)
ActionFeed(table, now) == GetSignals(table, now, [Signals(Anything, Anything) EXCEPT !.limit = 8])
totalSignals24h(table, now) == SumOf(GetCounts(table, now))

(* The newest signal of a market, on its page and in the manual form.      *)
MarketWants(market) == [Signals(Anything, market) EXCEPT !.hours = 168, !.limit = 5]
latestSignal(table, now, market) == Latest(GetSignals(table, now, MarketWants(market)))

(* The day a page shows for a row. *)
formatInTz(row, zone) == (row.at + TIMEZONES[zone]) \div Day

(***************************************************************************)
(* The performance page.  GET /strategies/performance looks at the rows    *)
(* since midnight, by UTC, only.                                           *)
(***************************************************************************)
Tally(table, rows) ==
    [signals |-> Cardinality(rows),
     resolved |-> Cardinality({i \in rows : table[i].outcome # "open"}),
     wins |-> Cardinality({i \in rows : table[i].outcome = "won"})]

Today(table, now) == {i \in DOMAIN table : table[i].at >= (now \div Day) * Day}

Strategies(table, now) ==
    LET rows == Today(table, now)
    IN  [s \in {table[i].strategy : i \in rows} |->
            Tally(table, {i \in rows : table[i].strategy = s})]

(* A slip: an inner join loses the rows of markets that were dropped.      *)
MutantCategoryOf(row) == IF row.market = UnknownMarket THEN "lost" ELSE TagOf[row.market]

CategoryOf(row) ==
    IF row.market = UnknownMarket THEN "uncategorized" ELSE TagOf[row.market]

Categories(table, now) ==
    LET rows == {i \in Today(table, now) : CategoryOf(table[i]) # "lost"}
        cells == {<<CategoryOf(table[i]), table[i].strategy>> : i \in rows}
    IN  [c \in cells |-> Tally(table, {i \in rows :
                            <<CategoryOf(table[i]), table[i].strategy>> = c})]

(* The server's rate, in ten thousandths, and its colour on the page.      *)
NoRate == -1
WinRate(wins, resolved) ==
    IF resolved = 0 THEN NoRate ELSE (20000 * wins + resolved) \div (2 * resolved)

winRateColor(rate) ==
    IF rate = NoRate THEN "muted"
    ELSE IF rate >= 6000 THEN "success"
    ELSE IF rate >= 4000 THEN "yellow"
    ELSE "destructive"

(* The two tables of the page show the rows of the answer, coloured.       *)
Coloured(tally) ==
    [signals |-> tally.signals, resolved |-> tally.resolved, wins |-> tally.wins,
     color |-> winRateColor(WinRate(tally.wins, tally.resolved))]
Scorecard(strategies) == [s \in DOMAIN strategies |-> Coloured(strategies[s])]
CategoryBreakdown(categories) == [c \in DOMAIN categories |-> Coloured(categories[c])]

SummaryCards(strategies) ==
    [signals |-> SumOf([s \in DOMAIN strategies |-> strategies[s].signals]),
     resolved |-> SumOf([s \in DOMAIN strategies |-> strategies[s].resolved]),
     wins |-> SumOf([s \in DOMAIN strategies |-> strategies[s].wins])]

(* The card of the overall rate is green from one half on, unrounded. *)
CardIsGreen(wins, resolved) == resolved > 0 /\ 2 * wins >= resolved

(* The accuracy of the last fourteen days that have a resolved signal.     *)
ResolvedWants ==
    [Signals(Anything, Anything) EXCEPT !.hours = 336, !.limit = 500, !.resolved = "true"]

buildTrend(table, rows, zone) ==
    LET days == {formatInTz(table[i], zone) : i \in rows}
        last == Newest(days, 14)
    IN  [d \in last |-> Tally(table, {i \in rows : formatInTz(table[i], zone) = d})]

(* The height of a bar of the chart, in percent, and whether it is green.  *)
BarHeight(wins, total) == (200 * wins + total) \div (2 * total)
TrendChart(trend) ==
    [d \in DOMAIN trend |-> BarHeight(trend[d].wins, trend[d].resolved) >= 50]
=============================================================================
