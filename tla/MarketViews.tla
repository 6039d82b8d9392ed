----------------------------- MODULE MarketViews -----------------------------
(***************************************************************************)
(* The tables markets and snapshots: what POST /markets and POST           *)
(* /snapshots write, what the API server reads, and what the markets page, *)
(* the data feed and the page of a market show.  Prices and amounts are    *)
(* left out, and so is the LIMIT of GET /snapshots, which cuts by market   *)
(* id.                                                                     *)
(***************************************************************************)
EXTENDS SignalViews, SequencesExt

NoText == "null"
NullScore == -1
NullTime == -1000000    \* of a snapshot that was posted with "collectedAt": null
NoTime == -2000000      \* of a body without collectedAt

(***************************************************************************)
(* markets, a function of the market id.                                   *)
(***************************************************************************)
NewMarket(input, now) ==
    [conditionId |-> input.conditionId, question |-> input.question,
     tags |-> input.tags, score |-> input.score, addedAt |-> now, updatedAt |-> now]

(* ON CONFLICT DO UPDATE: the condition and the outcomes stay as they were *)
(* first inserted.                                                         *)
Merged(old, input, now) ==
    [old EXCEPT !.question = input.question, !.tags = input.tags,
                !.score = input.score, !.updatedAt = now]

(* POST /markets: an empty batch is refused, and the statement fails if it *)
(* would touch a row twice.                                                *)
Refused(batch) ==
    batch = <<>> \/ \E i, j \in DOMAIN batch :
                        i # j /\ batch[i].marketId = batch[j].marketId

Upsert(markets, batch, now) ==
    IF Refused(batch) THEN markets
    ELSE LET named == {batch[i].marketId : i \in DOMAIN batch}
             InputOf(m) == batch[CHOOSE i \in DOMAIN batch : batch[i].marketId = m]
         IN  [m \in DOMAIN markets \cup named |->
                IF m \notin named THEN markets[m]
                ELSE IF m \in DOMAIN markets THEN Merged(markets[m], InputOf(m), now)
                ELSE NewMarket(InputOf(m), now)]

(* GET /markets: by score, the best first, those without one last.         *)
ListMarketRows(markets) ==
    CHOOSE list \in SetToSeqs(DOMAIN markets) :
        \A i, j \in DOMAIN list : i < j => markets[list[i]].score >= markets[list[j]].score

(* The search of the markets page: the question or a tag contains the      *)
(* words.  A market without a question and without tags is never listed.   *)
(* Those that are keep the order of the rows.                              *)
Includes(text, search) == search = "" \/ text = search

filteredMarkets(markets, search) ==
    {m \in Range(ListMarketRows(markets)) :
        \/ markets[m].question # NoText /\ Includes(markets[m].question, search)
        \/ \E tag \in markets[m].tags : Includes(tag, search)}

(***************************************************************************)
(* snapshots, a sequence of rows with a market and a time of collection.   *)
(***************************************************************************)
(* POST /snapshots: the body may say when the snapshot was collected.      *)
PostSnapshot(table, body, now) ==
    IF body.market = NoText THEN table
    ELSE Append(table, [market |-> body.market,
                        at |-> IF body.at = NoTime THEN now ELSE body.at])

Known(table, markets) == {i \in DOMAIN table : table[i].market \in DOMAIN markets}

(* ORDER BY collected_at DESC puts a row without a time first. *)
SortsBefore(row, other) ==
    row.at = NullTime \/ (other.at # NullTime /\ row.at >= other.at)

(* DISTINCT ON: one of the rows that sort first. *)
DistinctOn(rows, table) ==
    {i \in rows : \A j \in rows : SortsBefore(table[i], table[j])}

(* GET /snapshots: the newest row of each market that is still known.      *)
ListSnapshotRows(table, markets) ==
    [m \in {table[i].market : i \in Known(table, markets)} |->
        DistinctOn({i \in DOMAIN table : table[i].market = m}, table)]

(* The data feed shows them all, one line each. *)
SnapshotsTable(table, markets) == ListSnapshotRows(table, markets)

(* GET /snapshots/:marketId: with hours, one row of each clock hour of the *)
(* window; without, the newest rows.                                       *)
GetHistory(table, markets, now, market, hours) ==
    LET rows == {i \in Known(table, markets) : table[i].market = market}
        window == {i \in rows : /\ table[i].at # NullTime
                                /\ table[i].at > now - AtMost(hours, 0, 720) * Hour}
    IN  IF hours = 0 THEN rows
        ELSE UNION {DistinctOn({i \in window : HourOf(table[i]) = h}, table) :
                       h \in {HourOf(table[i]) : i \in window}}

(* The page of a market: its latest prices and the points of the chart,    *)
(* from one answer.                                                        *)
MarketPage(table, markets, now, market) ==
    LET rows == GetHistory(table, markets, now, market, 168)
    IN  [latest |-> DistinctOn(rows, table), points |-> rows]
=============================================================================
