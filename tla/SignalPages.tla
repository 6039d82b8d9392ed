---------------------------- MODULE SignalPages ----------------------------
(***************************************************************************)
(* The signals of the strategies, from the bot and from the manual form of *)
(* the execution page, and the pages that show them.                       *)
(*                                                                         *)
(* The bot emits a signal with one INSERT ... WHERE NOT EXISTS; the API    *)
(* server looks first and inserts afterwards, so another insert may come   *)
(* between.  Only the index signals_dedup_hourly stands between the two.   *)
(* A query is asked in one step and its answer read and received in        *)
(* another; the cache entry, not the page, owns the request, and entries   *)
(* are shared by key.  Entries nobody looks at are kept: that they are     *)
(* dropped after a while adds nothing to what can be seen.                 *)
(***************************************************************************)
EXTENDS MarketViews, StatusPanels, BotSettings, ApiServer, DatabaseSchema, CustomFetch

CONSTANTS
    Market, Strategy,
    Emitted,        \* the signals the engines can find: strategy and market
    Filters,        \* the buttons of the signals page, Anything for ALL
    Manual,         \* the signals the operator thinks of
    Jumps,          \* how far the clock moves at once
    Offers,         \* the rows a batch of POST /markets is made of
    Words,          \* the words of the markets' questions and tags
    MaxSignals,     \* bound: rows of the table
    MaxPosts,       \* bound: submissions of the manual form
    MaxJumps,       \* bound: jumps of the clock
    MaxMarks        \* bound: marks on a row

(* What a body of POST /signals names, and a row of POST /markets. *)
SignalInput == Strategy \X Market
MarketInput ==
    [marketId : Market, conditionId : STRING, question : Words \cup {NoText},
     tags : SUBSET Words, score : Int]

ASSUME ConstantAssumption ==
    /\ Emitted \subseteq SignalInput /\ Manual \subseteq SignalInput
    /\ Filters \subseteq Strategy \cup {Anything}
    /\ Offers \subseteq MarketInput
    /\ Jumps \subseteq Nat \ {0}
    /\ MaxSignals \in Nat /\ MaxPosts \in Nat
    /\ MaxJumps \in Nat /\ MaxMarks \in Nat

NoMarket == "no market"
NoData == {0}       \* no row has this id

VARIABLES
    signals,    \* the table
    now,        \* the database's clock, in half hours
    posts,      \* the submissions of the manual form
    panel,      \* the form: market, the submission it follows, its message
    view,       \* which page is open, and its filter
    cache,      \* the rows last received under a key
    fetch,      \* the query a key's request is for, or NoQuery
    budget      \* what is left of the bounded events

vars == <<signals, now, posts, panel, view, cache, fetch, budget>>
browser == <<panel, view, cache, fetch>>

Post == 1..MaxPosts

(***************************************************************************)
(* The queries of the signals page.  The latest signal of the market in    *)
(* the form is a view of the table and not kept here.                      *)
(***************************************************************************)
ListQuery(filter) ==
    [request |-> ListSignals(<<"200", "168", filter>>), filter |-> filter]

Queries == {ListQuery(f) : f \in Filters}
Key(q) == q.request.key
Keys == {Key(q) : q \in Queries}
NoQuery == [request |-> HealthCheck, filter |-> Anything]

Wanted(v) == IF v.page = "signals" THEN {ListQuery(v.filter)} ELSE {}
Active == Wanted(view)
Shown(q) == cache[Key(q)]

FreshPanel == [market |-> NoMarket, mine |-> 0, message |-> [kind |-> "none"]]
NoPost == [server |-> "none", answered |-> FALSE, strategy |-> Anything, market |-> NoMarket,
           key |-> "", id |-> 0, response |-> [status |-> 0], settled |-> FALSE]
Home == [page |-> "execution", filter |-> Anything]

Init ==
    /\ signals = <<>> /\ now = 0
    /\ posts = [p \in Post |-> NoPost]
    /\ panel = FreshPanel
    /\ view = Home
    /\ cache = [k \in Keys |-> NoData]
    /\ fetch = [k \in Keys |-> NoQuery]
    /\ budget = [jumps |-> MaxJumps, marks |-> MaxMarks]

(***************************************************************************)
(* The table.                                                              *)
(***************************************************************************)
Recent(s, m) ==
    {i \in Within(signals, now, 1) : signals[i].strategy = s /\ signals[i].market = m}

(* The index: one row per strategy, market and clock hour. *)
MutantConflicts(s, m) == FALSE
Conflicts(s, m) ==
    \E i \in DOMAIN signals : /\ signals[i].strategy = s /\ signals[i].market = m
                              /\ HourOf(signals[i]) = now \div Hour

NewSignal(s, m) ==
    [strategy |-> s, market |-> m, at |-> now, exec |-> "new", outcome |-> "open"]

(* insert_signal of the bot. *)
BotInsert(s, m) ==
    /\ Len(signals) < MaxSignals /\ Recent(s, m) = {} /\ ~Conflicts(s, m)
    /\ signals' = Append(signals, NewSignal(s, m))
    /\ UNCHANGED <<now, posts, browser, budget>>

(* The executor takes or skips a signal; the outcome tracker resolves it.  *)
Mark(i) ==
    /\ budget.marks > 0 /\ i \in DOMAIN signals
    /\ \/ /\ signals[i].exec = "new"
          /\ \E exec \in {"executed", "skipped"} :
                signals' = [signals EXCEPT ![i].exec = exec]
       \/ /\ signals[i].outcome = "open" /\ signals[i].at < now
          /\ \E outcome \in {"won", "lost"} :
                signals' = [signals EXCEPT ![i].outcome = outcome]
    /\ budget' = [budget EXCEPT !.marks = @ - 1]
    /\ UNCHANGED <<now, posts, browser>>

Advance ==
    /\ budget.jumps > 0
    /\ \E d \in Jumps : now' = now + d
    /\ budget' = [budget EXCEPT !.jumps = @ - 1]
    /\ UNCHANGED <<signals, posts, browser>>

(***************************************************************************)
(* The manual form.                                                        *)
(***************************************************************************)
Following(p) == panel.mine = p
isPending == panel.mine # 0 /\ ~posts[panel.mine].settled

(* Clicking on a result of the search, and typing into the search.         *)
SelectMarket(m) ==
    /\ view.page = "execution" /\ panel.market = NoMarket /\ m # UnknownMarket
    /\ panel' = [panel EXCEPT !.market = m]
    /\ UNCHANGED <<signals, now, posts, view, cache, fetch, budget>>

TypeSearch ==
    /\ view.page = "execution" /\ panel.market # NoMarket
    /\ panel' = [panel EXCEPT !.market = NoMarket]
    /\ UNCHANGED <<signals, now, posts, view, cache, fetch, budget>>

(* A score that is missing is refused on the page; one that is too low the *)
(* browser does not submit.                                                *)
SubmitBadScore ==
    /\ view.page = "execution" /\ panel.market # NoMarket /\ ~isPending
    /\ panel' = [panel EXCEPT !.mine = 0, !.message = [kind |-> "bad score"]]
    /\ UNCHANGED <<signals, now, posts, view, cache, fetch, budget>>

(* Which key the browser holds by then is up to ApiKeySettings and to what *)
(* main.tsx found in the local storage.                                    *)
ApiKey == {"", "secret"}
Config(key) == setApiKey([baseUrl |-> None, token |-> None, apiKey |-> None], key)
Sent(key) == RequestHeaders(Config(key),
    [headers |-> [n \in {"content-type"} |-> "application/json"],
     body |-> "object", responseType |-> "auto"])
KeyOf(headers) == IF "x-api-key" \in DOMAIN headers THEN headers["x-api-key"] ELSE ""

Submit(s) ==
    /\ view.page = "execution" /\ panel.market # NoMarket /\ ~isPending
    /\ <<s, panel.market>> \in Manual
    /\ \E p \in Post, key \in ApiKey :
        /\ posts[p].server = "none" /\ \A o \in 1..(p - 1) : posts[o].server # "none"
        /\ posts' = [posts EXCEPT ![p] =
              [NoPost EXCEPT !.server = "sent", !.strategy = s,
                             !.market = panel.market, !.key = KeyOf(Sent(key))]]
        /\ panel' = [panel EXCEPT !.mine = p, !.message = [kind |-> "none"]]
    /\ UNCHANGED <<signals, now, view, cache, fetch, budget>>

(***************************************************************************)
(* POST /signals.                                                          *)
(***************************************************************************)
Json(status, text) ==
    [status |-> status, media |-> "json", emptyLength |-> FALSE, body |-> "stream",
     text |-> text, bom |-> FALSE, blob |-> TRUE, id |-> 0, fields |-> {}]
Created(id) == [Json(201, "object") EXCEPT !.id = id]
Failed(status) == [Json(status, "object") EXCEPT !.fields = {"error"}]

(* What stands in front of the server answers in its place: a page, a text *)
(* that claims to be JSON, or nothing.                                     *)
GatewayResponses ==
    {[Json(502, "plain") EXCEPT !.media = "text"], [Json(502, "broken") EXCEPT !.bom = TRUE],
     [Json(502, "") EXCEPT !.media = None, !.emptyLength = TRUE]}

Finished(post, response) ==
    [post EXCEPT !.server = "finished", !.answered = TRUE, !.key = "",
                 !.response = IF post.answered THEN post.response ELSE response]

(* The key is checked, then the body, then the last hour is looked at.     *)
Check(p) ==
    /\ posts[p].server = "sent"
    /\ posts' = [posts EXCEPT ![p] =
          IF ~Admitted(CreateSignal, "secret", @.key) THEN Finished(@, Failed(401))
          ELSE IF Recent(@.strategy, @.market) # {} THEN Finished(@, Created(-1))
          ELSE [@ EXCEPT !.server = "checked", !.key = ""]]
    /\ UNCHANGED <<signals, now, browser, budget>>

Insert(p) ==
    /\ posts[p].server = "checked" /\ Len(signals) < MaxSignals
    /\ LET post == posts[p]
           refused == Conflicts(post.strategy, post.market)
           id == Len(signals) + 1
       IN  /\ signals' = IF refused THEN signals
                         ELSE Append(signals, NewSignal(post.strategy, post.market))
           /\ posts' = [posts EXCEPT ![p] =
                 IF refused THEN Finished(@, Failed(500))
                 ELSE [Finished(@, Created(id)) EXCEPT !.id = id]]
    /\ UNCHANGED <<now, browser, budget>>

(* A statement fails. *)
ServerError(p) ==
    /\ posts[p].server \in {"sent", "checked"}
    /\ posts' = [posts EXCEPT ![p] = Finished(@, Failed(500))]
    /\ UNCHANGED <<signals, now, browser, budget>>

(* The gateway gives up; the server goes on with the request it has.       *)
GatewayError(p) ==
    /\ posts[p].server \in {"sent", "checked"} /\ ~posts[p].answered
    /\ \E response \in GatewayResponses :
          posts' = [posts EXCEPT ![p].answered = TRUE, ![p].response = response]
    /\ UNCHANGED <<signals, now, browser, budget>>

(* The message under the form: what became of the submission, by what      *)
(* customFetch returned or threw.                                          *)
Fields(response) == IF response.text \in JsonText THEN response.fields ELSE {}

Message(response) ==
    LET result == customFetch(response, "auto", "POST")
    IN  IF result.kind = "data"
        THEN [kind |-> IF response.id = -1 THEN "deduped" ELSE "created",
              id |-> response.id]
        ELSE [kind |-> result.kind, status |-> result.status,
              reason |-> IF result.data.as = "parsed"
                         THEN buildErrorMessage(Fields(response)) ELSE {}]

(* The answer arrives; a form that was left since does not hear of it.     *)
Settle(p) ==
    /\ posts[p].answered /\ ~posts[p].settled
    /\ posts' = [posts EXCEPT ![p].settled = TRUE, ![p].response = NoPost.response]
    /\ LET message == Message(posts[p].response)
       IN  panel' = IF ~Following(p) THEN panel
                    ELSE [panel EXCEPT !.message = message,
                             !.market = IF message.kind \in {"created", "deduped"}
                                        THEN NoMarket ELSE @]
    /\ UNCHANGED <<signals, now, view, cache, fetch, budget>>

(***************************************************************************)
(* The pages and the cache.  Moving to another page forgets the form.  A   *)
(* request of the generated client is cancelled when nobody waits for it   *)
(* any more.                                                               *)
(***************************************************************************)
Left(v) == [k \in Keys |-> IF fetch[k] \in Wanted(v) THEN fetch[k] ELSE NoQuery]

Destinations ==
    {[Home EXCEPT !.page = "signals", !.filter = f] : f \in Filters}
        \cup {Home}

(* What became of a submission is of interest while the form shows it.     *)
Forgotten(post) ==
    IF post.settled /\ post.server = "finished"
    THEN [NoPost EXCEPT !.server = "finished", !.answered = TRUE, !.settled = TRUE]
    ELSE post

Navigate ==
    /\ view' \in Destinations /\ view' # view
    /\ panel' = FreshPanel
    /\ fetch' = Left(view')
    /\ posts' = [p \in Post |-> Forgotten(posts[p])]
    /\ UNCHANGED <<signals, now, cache, budget>>

(* The page opens, thirty seconds have passed, the window gets the focus.  *)
Poll(q) ==
    /\ q \in Active /\ fetch[Key(q)] = NoQuery
    /\ fetch' = [fetch EXCEPT ![Key(q)] = q]
    /\ UNCHANGED <<signals, now, posts, panel, view, cache, budget>>

Receive(k) ==
    /\ fetch[k] # NoQuery
    /\ cache' = [cache EXCEPT ![k] = SignalsTable(signals, now, fetch[k].filter)]
    /\ fetch' = [fetch EXCEPT ![k] = NoQuery]
    /\ UNCHANGED <<signals, now, posts, panel, view, budget>>

FetchFailed(k) ==
    /\ fetch[k] # NoQuery
    /\ fetch' = [fetch EXCEPT ![k] = NoQuery]
    /\ UNCHANGED <<signals, now, posts, panel, view, cache, budget>>

Table ==
    \/ \E e \in Emitted : BotInsert(e[1], e[2])
    \/ \E i \in 1..MaxSignals : Mark(i)
    \/ Advance

Form ==
    \/ \E m \in Market : SelectMarket(m)
    \/ TypeSearch \/ SubmitBadScore
    \/ \E s \in Strategy : Submit(s)
    \/ \E p \in Post : Settle(p)

Server == \E p \in Post : Check(p) \/ Insert(p) \/ ServerError(p) \/ GatewayError(p)

Pages ==
    \/ Navigate
    \/ \E q \in Queries : Poll(q)
    \/ \E k \in Keys : Receive(k) \/ FetchFailed(k)

Next == Table \/ Form \/ Server \/ Pages

Spec == Init /\ [][Next]_vars
-----------------------------------------------------------------------------
Row == [strategy : Strategy, market : Market, at : Nat,
        exec : {"new", "executed", "skipped"}, outcome : {"open", "won", "lost"}]

(* The types of the variables. *)
TypeOK ==
    /\ signals \in Seq(Row) /\ now \in Nat
    /\ \A p \in Post :
          /\ posts[p].server \in {"none", "sent", "checked", "finished"}
          /\ posts[p].server \in {"sent", "checked"} =>
                posts[p].strategy \in Strategy /\ posts[p].market \in Market
          /\ posts[p].settled => posts[p].answered
          /\ posts[p].id \in {0} \cup DOMAIN signals
    /\ panel.market \in Market \cup {NoMarket} /\ panel.mine \in {0} \cup Post
    /\ view \in Destinations
    /\ \A k \in Keys : /\ cache[k] = NoData \/ cache[k] \subseteq DOMAIN signals
                       /\ fetch[k] \in Queries \cup {NoQuery}

(* Two processes emit the same signal at once: the table still holds one   *)
(* row per strategy, market and clock hour (insert_signal: "no TOCTOU race *)
(* between a separate check and insert").                                  *)
OnePerClockHour ==
    \A i, j \in DOMAIN signals :
        /\ signals[i].strategy = signals[j].strategy
        /\ signals[i].market = signals[j].market
        /\ HourOf(signals[i]) = HourOf(signals[j])
        => i = j

(* What the form says became of a submission did become of it: a number is *)
(* the number of the row it asked for, "deduped" says that such a row was  *)
(* there, and a refusal of the server is shown with the server's reason    *)
(* and left no row (ManualSignalPanel, through customFetch).               *)
PanelTellsTheTruth ==
    panel.mine # 0 /\ posts[panel.mine].settled =>
        LET post == posts[panel.mine]
            same == {i \in DOMAIN signals : /\ signals[i].strategy = post.strategy
                                            /\ signals[i].market = post.market}
            message == panel.message
        IN  /\ message.kind = "created" => message.id \in same /\ message.id = post.id
            /\ message.kind = "deduped" => same # {} /\ post.id = 0
            /\ message.kind \notin {"created", "deduped"} /\ message.status # 502 =>
                  post.id = 0 /\ message.reason = {"error"}

Answered == {posts[p].response : p \in {o \in Post : posts[o].answered /\ ~posts[o].settled}}

(* A caller makes the same of an answer in a browser and in React Native,  *)
(* and whether or not a byte order mark is in front of it (hasNoBody and   *)
(* stripBom).                                                              *)
DecodeIsPortable ==
    \A response \in Answered :
        LET result == customFetch(response, "auto", "POST")
        IN  /\ customFetch(InReactNative(response), "auto", "POST") = result
            /\ customFetch(stripBom(response), "auto", "POST") = result

(* A refusal reaches the caller as a refusal, with its status and what its *)
(* body says, however garbled: an unparsable body is handed on as it came  *)
(* (parseErrorBody).                                                       *)
RefusalIsKept ==
    \A response \in Answered :
        LET result == customFetch(response, "auto", "POST")
        IN  ~IsOk(response) =>
                /\ result.kind = "ApiError" /\ result.status = response.status
                /\ ~IsBlank(response.text) => result.data.text = response.text
                /\ result.data.as = "parsed" => response.text \in JsonText

(* What the server answers reaches the caller: in every runtime alike, and *)
(* as the success or the refusal it was (customFetch).                     *)
AnswersAreKept == DecodeIsPortable /\ RefusalIsKept

(* The list under a filter holds the rows of that filter only, whichever   *)
(* was selected before and whatever arrives late.                          *)
ShownMatchesSelection ==
    \A q \in Active :
        Shown(q) # NoData =>
            \A i \in Shown(q) : q.filter \in {Anything, signals[i].strategy}

(* What depends on nothing but the clock is checked before anything else   *)
(* has happened.                                                           *)
Quiet == signals = <<>> /\ panel = FreshPanel /\ posts = [p \in Post |-> NoPost]
(* What depends on no variable at all is evaluated once, at the start.     *)
AtStart == Init

(* The zones a browser may show the days in. *)
Zones == {resolveDefault(stored, local) : stored \in {"", "Tokyo"}, local \in {"New_York", "Mars"}}

(* The colours agree with each other for up to a hundred resolved signals: *)
(* the bar of the chart, which rounds, with the card, which does not, and  *)
(* the green of the scorecard with both.  (From 101 on 50 wins are a green *)
(* bar and a red card.)                                                    *)
RatesAgree ==
    \A resolved \in 1..100 : \A wins \in 0..resolved :
        /\ BarHeight(wins, resolved) >= 50 <=> CardIsGreen(wins, resolved)
        /\ winRateColor(WinRate(wins, resolved)) = "success" => CardIsGreen(wins, resolved)

(* The pages agree with each other about one table: the overview's total   *)
(* with its list, the filters with ALL, a market's signal with the list,   *)
(* the cards with the scorecard and the categories, the trend, in whatever *)
(* zone, with the resolved rows and, in UTC, its last bar with the cards;  *)
(* a badge says what happened to the signal.                               *)
ViewsAgree ==
    LET all == SignalsTable(signals, now, Anything)
        strategies == Strategies(signals, now)
        cards == SummaryCards(strategies)
        resolved == GetSignals(signals, now, ResolvedWants)
        trend == [z \in Zones |-> buildTrend(signals, resolved, z)]
        today == now \div Day
    IN  /\ totalSignals24h(signals, now)
                = Cardinality(GetSignals(signals, now, Signals(Anything, Anything)))
        /\ ActionFeed(signals, now) \subseteq all
        /\ all = UNION {SignalsTable(signals, now, s) : s \in Strategy}
        /\ \A m \in Market : latestSignal(signals, now, m)
                = Latest({i \in all : signals[i].market = m})
        /\ cards = Tally(signals, Today(signals, now))
        /\ cards = SummaryCards(CategoryBreakdown(Categories(signals, now)))
        /\ \A z \in Zones : SumOf([d \in DOMAIN trend[z] |-> trend[z][d].signals])
                = Cardinality({i \in all : signals[i].outcome # "open"})
        /\ cards.resolved = 0 <=> today \notin DOMAIN trend["UTC"]
        /\ cards.resolved # 0 =>
                /\ trend["UTC"][today].wins = cards.wins
                /\ TrendChart(trend["UTC"])[today] = CardIsGreen(cards.wins, cards.resolved)
        /\ \A s \in DOMAIN strategies : Scorecard(strategies)[s].signals <= cards.signals
        /\ \A i \in all : /\ Badge(signals[i]) = "Active" =>
                                signals[i].exec = "new" /\ signals[i].outcome = "open"
                          /\ Badge(signals[i]) = "Executed" => signals[i].exec = "executed"
        /\ Quiet => RatesAgree

(* After two posts the markets are those of the accepted batches, each as  *)
(* the last batch that named it says, but for the condition, which is the  *)
(* first one's; whoever searches for a word finds the markets that have    *)
(* it now, the best first, and the status panel counts them all or none.   *)
SnapshotInput == [market : Market, at : {now - 1, now, NoTime, NullTime}]
Batches == UNION {[1..n -> Offers] : n \in 0..2}
Descending(markets) ==
    LET list == ListMarketRows(markets)
    IN  \A i, j \in DOMAIN list : i < j => markets[list[i]].score >= markets[list[j]].score

BatchesAreApplied ==
    \A first, second \in Batches :
        LET before == Upsert(<<>>, first, 0)
            after == Upsert(before, second, 1)
            inputs == IF Refused(second) THEN {} ELSE Range(second)
        IN  /\ Refused(second) => after = before
            /\ DOMAIN after = DOMAIN before \cup {input.marketId : input \in inputs}
            /\ Descending(after)
            /\ \A up \in BOOLEAN :
                    SystemStatus(Health(after, <<>>, <<>>, up), FALSE).counts["markets"]
                        \in {NoCount, Len(ListMarketRows(after))}
            /\ \A input \in inputs :
                /\ {w \in Words : input.marketId \in filteredMarkets(after, w)}
                        = (input.tags \cup {input.question}) \ {NoText}
                /\ input.marketId \in DOMAIN before =>
                        after[input.marketId].conditionId = before[input.marketId].conditionId
            /\ \A m \in DOMAIN before :
                    m \notin {input.marketId : input \in inputs} => after[m] = before[m]

(* The data feed shows the newest snapshot of a market, the page of that   *)
(* market shows the same prices, and its chart has one point an hour: for  *)
(* two snapshots of one or of two markets, in one clock hour or in two, in *)
(* whatever order they are posted.  A snapshot without a time is the only  *)
(* one the two disagree about: it stays in the feed.  The markets are      *)
(* those of the last batch.                                                *)
DataFeedIsCurrent ==
    Quiet =>
    LET known == [m \in Market \ {UnknownMarket} |-> "some row"]
    IN  /\ BatchesAreApplied
        /\ \A first, second \in SnapshotInput :
            LET table == PostSnapshot(PostSnapshot(<<>>, first, now), second, now + 1)
                feed == SnapshotsTable(table, known)
                page == MarketPage(table, known, now + 1, first.market)
                timed == \A i \in DOMAIN table : table[i].at # NullTime
            IN  /\ \A i, j \in page.points :
                        HourOf(table[i]) = HourOf(table[j]) => table[i].at = table[j].at
                /\ timed => (first.market \in DOMAIN feed <=> page.points # {})
                /\ timed /\ first.market \in DOMAIN feed => feed[first.market] = page.latest
                /\ \A i \in page.latest, j \in page.points : table[j].at <= table[i].at

(* Two pages that show the same rows show the same of them: signals,       *)
(* markets and snapshots alike (the reads of the routes, and the pages).   *)
PagesAgree == ViewsAgree /\ DataFeedIsCurrent

(* The bot never bets more on a manual signal than the fraction in the     *)
(* form, nor more than the cap, and nothing below the floor of the CLOB;   *)
(* a larger fraction never makes a smaller bet.  What the form lets        *)
(* through the server does not refuse.  An empty field is no fraction at   *)
(* all: the bot bets the whole cap, as much as it does on any.             *)
Forms == [score : {Blank, 74, 75, 100}, kelly : {Blank, 0, 1, 10, 100, 250}]

SizeFollowsForm ==
    AtStart =>
    \A bankroll \in {0, 9999, 100000}, pct \in {5, 100, 1000} :
        LET Size(form) == SizeFromSignal(bankroll, pct, handleSubmit(form).kelly)
            asked == {form \in Forms : IsSubmitted(form) /\ handleSubmit(form).mutate}
        IN  \A form, other \in asked :
                /\ ~IsRefused(handleSubmit(form))
                /\ Size(form) * 1000 <= bankroll * pct
                /\ Size(form) = 0 \/ Size(form) >= MIN_ORDER_USDC
                /\ form.kelly # Blank => Size(form) * 1000 <= bankroll * form.kelly
                /\ form.kelly = Blank \/ other.kelly \in 1..form.kelly
                        => Size(other) <= Size(form)

(* The bet the bot places on a signal without a fraction is the "max per   *)
(* market" the console shows, but for the floor and the cent it rounds     *)
(* down, and the bankroll and both caps are those of the bot: after any    *)
(* two saves of each form, from rows nobody has written yet.  To open the  *)
(* form of a cap and save it as it is changes nothing.  What is free is    *)
(* never more than the bankroll, nor less than it without what is at risk. *)
(* (A row that is no number divides the two: the console shows no          *)
(* bankroll, while the bot bets the one of its environment.)               *)
Entries == {Blank, 0, 1, 33, 100, 101}
SavedTwice(Saved(_, _), first, second) == Saved(Saved(Absent, first), second)

CapsAreThoseShown ==
    AtStart =>
    \A first, second \in Entries, env \in {0, 25000} :
        LET bankrollRow == SavedTwice(SavedBankroll, 1000 * first, 1000 * second)
            pctRow == SavedTwice(SavedPct, first, second)
            bankroll == parseNumeric(PortfolioBankroll(bankrollRow, env))
            pct == RiskPct(pctRow, DEFAULT_POSITION_PCT)
            shown == MaxPerMarket(bankroll, pct)
            bet == SizeFromSignal(BotBankroll(bankrollRow, env),
                                  BotPct(pctRow, DEFAULT_POSITION_PCT), NoKelly)
        IN  /\ bankroll = BotBankroll(bankrollRow, env)
            /\ \A default \in {DEFAULT_POSITION_PCT, DEFAULT_PORTFOLIO_PCT} :
                /\ RiskPct(pctRow, default) = BotPct(pctRow, default)
                /\ RiskPct(SavedPct(pctRow, FilledPercent(RiskPct(pctRow, default))), default)
                        = RiskPct(pctRow, default)
            /\ bet \in {shown - 1, shown} \/ (bet = 0 /\ shown <= MIN_ORDER_USDC)
            /\ \A atRisk \in {0, bankroll, bankroll + 1} :
                LET summary == PortfolioSummary(bankroll, atRisk)
                IN  /\ summary.available \in 0..bankroll
                    /\ summary.available + atRisk >= bankroll
                    /\ bankroll > 0 => (summary.available = 0 <=> summary.deployedPct >= 1000)

(* The bot bets what the console says: by the fraction of the manual form, *)
(* and by the bankroll and the caps as they are shown and saved            *)
(* (_size_from_signal, get_bankroll, get_max_position_pct).                *)
BetIsAsShown == SizeFollowsForm /\ CapsAreThoseShown

(* Every request of the dashboard is answered by one handler, that no      *)
(* other route stands before, whatever a market is called; the handler     *)
(* reads every name it is sent and a body has every name it reads.  Two    *)
(* queries that share a cache entry ask for the same.  The key is asked    *)
(* for wherever the check of the key says that it counts, and never of a   *)
(* request that carries none.                                              *)
Called == {"7", "counts", "analytics", "performance"}
ServerKeys == {"", "secret", "other"}
RequestsOf(names) == UNION {DashboardRequests(m, id) : m, id \in names}

RequestsAreServed ==
    AtStart =>
    LET sent == RequestsOf(Called)
        queries == {s.request : s \in {t \in sent : t.request.method = "GET"}}
    IN  /\ \A s \in sent :
                LET route == Served(s.request)
                IN  /\ {r \in Range(router) : Handles(r, s.request)} = {route}
                    /\ s.names \subseteq route.reads
                    /\ s.request \in queries \/ s.names = route.reads
        /\ \A q, r \in queries : q.key = r.key => Url(q) = Url(r)
        /\ \A configured, provided \in ServerKeys :
                AuthCheck(configured, provided).match
                    <=> \A s \in sent : Admitted(s.request, configured, provided)
        /\ \A request \in FetchMutations, configured \in ServerKeys :
                Admitted(request, configured, "")

(* A start of the bot brings every database to the schema both programs    *)
(* use, whatever it was before and wherever the migration of the API       *)
(* server, or a writer that posts a signal twice, falls between two of its *)
(* statements; only a category can be missing, where the first of its      *)
(* transactions failed.  The index that keeps signals apart is there       *)
(* exactly when none are double, at the latest after a second start, but   *)
(* where an order refers to a double: those stay, and it is never there.   *)
(* A start that finds all in place changes nothing.                        *)
Databases ==
    {EmptyDatabase} \cup
    [tables : {Tables, Tables \ {"bot_config"}}, columns : {{}, signalColumns, Pushed.columns},
     unique : {{}, {"positions_unique_mts"}}, duplicates : {"none", "free", "ordered"}]

SchemaConverges ==
    AtStart =>
    \A db \in Databases, schemaRuns \in BOOLEAN, position \in 0..Len(MIGRATIONS),
       others \in {<<>>, migrate, <<PostTwice>>, migrate \o <<PostTwice>>} :
        LET started == init_schema(db, schemaRuns, position, others)
            again == init_schema(started, schemaRuns, 0, <<>>)
            missing == IF schemaRuns THEN {} ELSE categoryColumn \ db.columns
            isDouble(d) == d.duplicates # "none"
        IN  schemaRuns \/ db.tables # {} =>
            /\ started.columns = Columns \ missing
            /\ schemaRuns => started.tables = Tables
            /\ isDouble(started) <=> "signals_dedup_hourly" \notin started.unique
            /\ again.duplicates = IF started.duplicates = "ordered" THEN "ordered" ELSE "none"
            /\ again.unique = IF isDouble(again) THEN {"positions_unique_mts"} ELSE Indexes
            /\ init_schema(again, schemaRuns, 0, <<>>) = again

(* The dots of the connection panel tell what the last check that was      *)
(* stored has found, and its age tells which one that was: for three       *)
(* cycles of the executor, of which the first and the last are due for a   *)
(* check, with every way the client, the probes and the store may fail.    *)
(* What cannot be read is not shown as a result, the wallet is green only  *)
(* with the CLOB, and an error of a probe turns a dot red.  (A bot that    *)
(* gets no client stores no check: the dots stay, and only the age grows.) *)
LastStored(probes, every) ==
    Max({0} \cup {n \in DOMAIN probes : /\ \E i \in 1..n : probes[i].client
                                        /\ IsDue(n, every) /\ probes[n].stored})

ConnectionIsHonest ==
    AtStart =>
    \A first, last \in Probe, middle \in [client : BOOLEAN] :
        LET probes == <<first, [first EXCEPT !.client = middle.client], last>>
            bot == RunExecutor(probes, 3)
            n == LastStored(probes, 3)
        IN  \A parses \in BOOLEAN :
            LET dots == ConnStatus(Connection(bot.row, parses), bot.cycle)
                known == n # 0 /\ parses
            IN  /\ {dots.clob, dots.wallet} \cap {"success", "danger"} # {} <=> known
                /\ dots.age = IF known THEN bot.cycle - n ELSE NoAge
                /\ known => (dots.clob = "success" <=> probes[n].ok = "answer")
                /\ dots.wallet = "success" => dots.clob = "success"
                /\ dots.error # "none" => "danger" \in {dots.clob, dots.wallet}
=============================================================================
