------------------------- MODULE SignalPagesProofs -------------------------
(***************************************************************************)
(* SignalPages for any markets, strategies, filters and bounds: the table  *)
(* never holds two rows of one strategy, market and clock hour, whoever    *)
(* inserts; what the form says of a submission is true; an answer reaches  *)
(* the form as what it was; a list shows the rows of its filter; the bot   *)
(* bets what the form and the portfolio say it will; the panel of the      *)
(* connection tells what the last stored check has found; the pages agree  *)
(* about a table that none of their limits cuts; and the start of the bot  *)
(* brings every database to the schema.                                    *)
(***************************************************************************)
EXTENDS SignalPages, SumLemmas, SequenceTheorems

(***************************************************************************)
(* The inductive invariant.  Neither process relies on what it has read:   *)
(* the insert itself meets the index.  What a submission asks for matters  *)
(* only while the server still has it.                                     *)
(***************************************************************************)
IsPost(post) ==
    /\ DOMAIN post = DOMAIN NoPost
    /\ post.server \in {"sent", "checked"} => post.strategy \in Strategy /\ post.market \in Market

PostInv == DOMAIN posts = Post /\ \A p \in Post : IsPost(posts[p])
NoneAhead == \A i \in DOMAIN signals : signals[i].at <= now
TableInv == signals \in Seq(Row) /\ now \in Nat /\ OnePerClockHour /\ NoneAhead
HourInv == PostInv /\ TableInv

(* An insert that meets no row of the clock hour keeps the table right.    *)
LEMMA InsertKeeps ==
  ASSUME TableInv, NEW s \in Strategy, NEW m \in Market, ~Conflicts(s, m),
         signals' = Append(signals, NewSignal(s, m)), now' = now
  PROVE  TableInv'
<1> DEFINE row == NewSignal(s, m)
<1>1. row \in Row /\ row.strategy = s /\ row.market = m /\ row.at = now
  BY DEF NewSignal, Row, TableInv
<1>2. signals' \in Seq(Row)
  BY <1>1 DEF TableInv
<1>3. /\ DOMAIN signals' = 1..(Len(signals) + 1) /\ DOMAIN signals = 1..Len(signals)
      /\ Len(signals) \in Nat
      /\ \A i \in DOMAIN signals : signals'[i] = signals[i]
      /\ signals'[Len(signals) + 1] = row
  BY <1>1 DEF TableInv
<1>4. \A i \in DOMAIN signals :
        ~(/\ signals[i].strategy = s /\ signals[i].market = m
          /\ HourOf(signals[i]) = HourOf(row))
  BY <1>1 DEF Conflicts, HourOf
<1>5. OnePerClockHour'
  <2> SUFFICES ASSUME NEW i \in DOMAIN signals', NEW j \in DOMAIN signals',
                      signals'[i].strategy = signals'[j].strategy,
                      signals'[i].market = signals'[j].market,
                      HourOf(signals'[i]) = HourOf(signals'[j])
               PROVE  i = j
    BY DEF OnePerClockHour, HourOf
  <2>1. CASE i \in DOMAIN signals /\ j \in DOMAIN signals
    BY <2>1, <1>3 DEF TableInv, OnePerClockHour
  <2>2. CASE i = Len(signals) + 1 /\ j \in DOMAIN signals
    BY <2>2, <1>1, <1>3, <1>4
  <2>3. CASE j = Len(signals) + 1 /\ i \in DOMAIN signals
    BY <2>3, <1>1, <1>3, <1>4
  <2>4. CASE i = Len(signals) + 1 /\ j = Len(signals) + 1
    BY <2>4
  <2> QED
    BY <2>1, <2>2, <2>3, <2>4, <1>3
<1>6. NoneAhead'
  BY <1>1, <1>3 DEF TableInv, NoneAhead
<1> QED
  BY <1>2, <1>5, <1>6 DEF TableInv

(* A mark changes nothing the index is about. *)
LEMMA MarkKeeps ==
  ASSUME TableInv, NEW i \in DOMAIN signals, NEW row \in Row,
         signals' = [signals EXCEPT ![i] = row], now' = now,
         row.strategy = signals[i].strategy, row.market = signals[i].market,
         row.at = signals[i].at
  PROVE  TableInv'
<1>1. signals' \in Seq(Row) /\ DOMAIN signals' = DOMAIN signals
  BY DEF TableInv
<1>2. \A j \in DOMAIN signals : /\ signals'[j].strategy = signals[j].strategy
                                /\ signals'[j].market = signals[j].market
                                /\ HourOf(signals'[j]) = HourOf(signals[j])
                                /\ signals'[j].at = signals[j].at
  BY DEF HourOf, TableInv
<1> QED
  BY <1>1, <1>2 DEF TableInv, OnePerClockHour, HourOf, NoneAhead

LEMMA TableInit == ASSUME Init PROVE HourInv
<1>1. signals \in Seq(Row) /\ DOMAIN signals = {} /\ now \in Nat
  BY DEF Init
<1>2. TableInv
  BY <1>1 DEF TableInv, OnePerClockHour, NoneAhead
<1>3. IsPost(NoPost)
  BY DEF IsPost, NoPost
<1>4. PostInv
  BY <1>3 DEF Init, PostInv
<1> QED
  BY <1>2, <1>4 DEF HourInv

(* A submission that is changed into a submission leaves the others.       *)
LEMMA OnePost ==
  ASSUME PostInv, NEW p \in Post, NEW post, IsPost(post), posts' = [posts EXCEPT ![p] = post]
  PROVE  PostInv'
BY DEF PostInv, IsPost, NoPost, Post

(* An answer ends a submission; the gateway's answer does not.             *)
LEMMA FinishedIsPost ==
  ASSUME NEW post, IsPost(post), NEW response
  PROVE  /\ IsPost(Finished(post, response))
         /\ IsPost([post EXCEPT !.answered = TRUE, !.response = response])
         /\ IsPost([post EXCEPT !.settled = TRUE, !.response = response])
         /\ \A id : IsPost([Finished(post, response) EXCEPT !.id = id])
         /\ post.server = "sent" => IsPost([post EXCEPT !.server = "checked", !.key = ""])
         /\ IsPost(Forgotten(post))
BY DEF IsPost, Finished, Forgotten, NoPost

(* A request that has ended is still a request. *)
LEMMA EndedIsPost ==
  ASSUME NEW post, IsPost(post), NEW response
  PROVE  IsPost(Finished(post, response))
BY FinishedIsPost

(* The table changes by an insert or by a mark.                            *)
LEMMA TableStep ==
  ASSUME ConstantAssumption, HourInv, [Next]_vars
  PROVE  TableInv'
<1> USE ConstantAssumption DEF HourInv
<1>1. ASSUME NEW e \in Emitted, BotInsert(e[1], e[2]) PROVE TableInv'
  <2>1. e[1] \in Strategy /\ e[2] \in Market
    BY DEF ConstantAssumption, SignalInput
  <2> QED
    BY <1>1, <2>1, InsertKeeps DEF BotInsert
<1>2. ASSUME NEW i \in 1..MaxSignals, Mark(i) PROVE TableInv'
  <2>1. i \in DOMAIN signals /\ signals[i] \in Row /\ now' = now
    BY <1>2 DEF Mark, TableInv
  <2>2. CASE \E exec \in {"executed", "skipped"} : signals' = [signals EXCEPT ![i].exec = exec]
    <3>1. PICK exec \in {"executed", "skipped"} : signals' = [signals EXCEPT ![i].exec = exec]
      BY <2>2
    <3> DEFINE row == [signals[i] EXCEPT !.exec = exec]
    <3>2. row \in Row /\ row.strategy = signals[i].strategy
            /\ row.market = signals[i].market /\ row.at = signals[i].at
      BY <2>1 DEF Row
    <3>3. signals' = [signals EXCEPT ![i] = row]
      BY <3>1
    <3> QED
      BY <2>1, <3>2, <3>3, MarkKeeps
  <2>3. CASE \E outcome \in {"won", "lost"} : signals' = [signals EXCEPT ![i].outcome = outcome]
    <3>1. PICK outcome \in {"won", "lost"} : signals' = [signals EXCEPT ![i].outcome = outcome]
      BY <2>3
    <3> DEFINE row == [signals[i] EXCEPT !.outcome = outcome]
    <3>2. row \in Row /\ row.strategy = signals[i].strategy
            /\ row.market = signals[i].market /\ row.at = signals[i].at
      BY <2>1 DEF Row
    <3>3. signals' = [signals EXCEPT ![i] = row]
      BY <3>1
    <3> QED
      BY <2>1, <3>2, <3>3, MarkKeeps
  <2> QED
    BY <1>2, <2>2, <2>3 DEF Mark
<1>3. ASSUME Advance PROVE TableInv'
  <2>1. now' \in Nat /\ now' >= now /\ UNCHANGED signals
    BY <1>3 DEF Advance, TableInv, ConstantAssumption
  <2>2. \A i \in DOMAIN signals : signals[i].at \in Nat
    <3>1. \A row \in Row : row.at \in Nat
      BY DEF Row
    <3> QED
      BY <3>1 DEF TableInv
  <2>3. OnePerClockHour'
    BY <2>1 DEF TableInv, OnePerClockHour, HourOf
  <2>4. NoneAhead'
    <3> SUFFICES ASSUME NEW i \in DOMAIN signals PROVE signals[i].at <= now'
      BY <2>1 DEF NoneAhead
    <3>1. signals[i].at <= now /\ now \in Nat
      BY DEF TableInv, NoneAhead
    <3> QED
      BY <2>1, <2>2, <3>1
  <2> QED
    BY <2>1, <2>3, <2>4 DEF TableInv
<1>4. ASSUME NEW p \in Post, Insert(p) PROVE TableInv'
  <2>1. posts[p].strategy \in Strategy /\ posts[p].market \in Market
    BY <1>4 DEF Insert, PostInv, IsPost
  <2>2. CASE Conflicts(posts[p].strategy, posts[p].market)
    <3>1. UNCHANGED <<signals, now>>
      BY <1>4, <2>2 DEF Insert
    <3> QED
      BY <3>1 DEF TableInv, OnePerClockHour, HourOf, NoneAhead
  <2>3. CASE ~Conflicts(posts[p].strategy, posts[p].market)
    <3>1. /\ signals' = Append(signals, NewSignal(posts[p].strategy, posts[p].market))
          /\ now' = now
      BY <1>4, <2>3 DEF Insert
    <3> QED
      BY <2>1, <2>3, <3>1, InsertKeeps
  <2> QED
    BY <2>2, <2>3
<1>5. ASSUME UNCHANGED <<signals, now>> PROVE TableInv'
  BY <1>5 DEF TableInv, OnePerClockHour, HourOf, NoneAhead
<1>6. CASE Form \/ Pages \/ UNCHANGED vars
  BY <1>5, <1>6 DEF Form, Pages, vars, SelectMarket, TypeSearch, SubmitBadScore, Submit, Settle,
                    Navigate, Poll, Receive, FetchFailed
<1>7. ASSUME NEW p \in Post, Check(p) \/ ServerError(p) \/ GatewayError(p) PROVE TableInv'
  BY <1>5, <1>7 DEF Check, ServerError, GatewayError
<1> QED
  BY <1>1, <1>2, <1>3, <1>4, <1>6, <1>7 DEF Next, Table, Server

(* Every submission stays one.                                             *)
LEMMA PostStep ==
  ASSUME HourInv, [Next]_vars
  PROVE  PostInv'
<1> USE DEF HourInv
<1>1. ASSUME UNCHANGED posts PROVE PostInv'
  BY <1>1 DEF PostInv, IsPost
<1>2. CASE Table \/ (Pages /\ ~Navigate) \/ UNCHANGED vars
  BY <1>1, <1>2 DEF Table, Pages, vars, BotInsert, Mark, Advance, Poll, Receive, FetchFailed
<1>3. CASE Navigate
  <2>1. posts' = [p \in Post |-> Forgotten(posts[p])]
    BY <1>3 DEF Navigate
  <2>2. \A p \in Post : IsPost(Forgotten(posts[p]))
    BY FinishedIsPost DEF PostInv
  <2> QED
    BY <2>1, <2>2 DEF PostInv
<1>4. ASSUME NEW s \in Strategy, Submit(s) PROVE PostInv'
  <2>1. PICK p \in Post, key \in ApiKey :
          posts' = [posts EXCEPT ![p] =
              [NoPost EXCEPT !.server = "sent", !.strategy = s,
                             !.market = panel.market, !.key = KeyOf(Sent(key))]]
    BY <1>4 DEF Submit
  <2>2. panel.market \in Market
    BY <1>4, ConstantAssumption DEF Submit, ConstantAssumption, SignalInput
  <2>3. IsPost([NoPost EXCEPT !.server = "sent", !.strategy = s,
                              !.market = panel.market, !.key = KeyOf(Sent(key))])
    BY <2>2 DEF IsPost, NoPost
  <2> QED
    BY <2>1, <2>3, OnePost
<1>5. ASSUME NEW p \in Post, Settle(p) PROVE PostInv'
  <2>1. posts' = [posts EXCEPT ![p] = [posts[p] EXCEPT !.settled = TRUE,
                                                       !.response = NoPost.response]]
    BY <1>5 DEF Settle
  <2> QED
    BY <2>1, FinishedIsPost, OnePost DEF PostInv
<1>6. ASSUME NEW p \in Post, Check(p) PROVE PostInv'
  <2>1. PICK post : post \in {Finished(posts[p], Failed(401)), Finished(posts[p], Created(-1)),
                              [posts[p] EXCEPT !.server = "checked", !.key = ""]}
                    /\ posts' = [posts EXCEPT ![p] = post] /\ posts[p].server = "sent"
    BY <1>6 DEF Check
  <2>2. IsPost(posts[p])
    BY DEF PostInv
  <2>3. IsPost(Finished(posts[p], Failed(401))) /\ IsPost(Finished(posts[p], Created(-1)))
    BY <2>2, EndedIsPost
  <2>4. IsPost([posts[p] EXCEPT !.server = "checked", !.key = ""])
    BY <2>1, <2>2, FinishedIsPost
  <2>5. IsPost(post)
    BY <2>1, <2>3, <2>4
  <2> QED
    BY <2>1, <2>5, OnePost
<1>7. ASSUME NEW p \in Post, Insert(p) PROVE PostInv'
  <2>1. PICK post : post \in {Finished(posts[p], Failed(500)),
                              [Finished(posts[p], Created(Len(signals) + 1))
                                    EXCEPT !.id = Len(signals) + 1]}
                    /\ posts' = [posts EXCEPT ![p] = post]
    BY <1>7 DEF Insert
  <2>2. IsPost(posts[p])
    BY DEF PostInv
  <2>3. IsPost(Finished(posts[p], Failed(500)))
    BY <2>2, EndedIsPost
  <2>4. IsPost([Finished(posts[p], Created(Len(signals) + 1)) EXCEPT !.id = Len(signals) + 1])
    BY <2>2, FinishedIsPost
  <2>5. IsPost(post)
    BY <2>1, <2>3, <2>4
  <2> QED
    BY <2>1, <2>5, OnePost
<1>8. ASSUME NEW p \in Post, ServerError(p) PROVE PostInv'
  <2>1. posts' = [posts EXCEPT ![p] = Finished(posts[p], Failed(500))]
    BY <1>8 DEF ServerError
  <2>2. IsPost(posts[p])
    BY DEF PostInv
  <2>3. IsPost(Finished(posts[p], Failed(500)))
    BY <2>2, EndedIsPost
  <2> QED
    BY <2>1, <2>3, OnePost
<1>9. ASSUME NEW p \in Post, GatewayError(p) PROVE PostInv'
  <2>1. PICK response : posts' = [posts EXCEPT ![p] = [posts[p] EXCEPT !.answered = TRUE,
                                                             !.response = response]]
    BY <1>9 DEF GatewayError
  <2> QED
    BY <2>1, FinishedIsPost, OnePost DEF PostInv
<1>10. CASE SubmitBadScore \/ TypeSearch \/ \E m \in Market : SelectMarket(m)
  BY <1>1, <1>10 DEF SubmitBadScore, TypeSearch, SelectMarket
<1> QED
  BY <1>2, <1>3, <1>4, <1>5, <1>6, <1>7, <1>8, <1>9, <1>10 DEF Next, Form, Server

(* The index signals_dedup_hourly is what keeps two processes that emit    *)
(* the same signal apart: there is one row per strategy, market and hour.  *)
THEOREM OneRowAnHour == Spec => []OnePerClockHour
<1>1. Init => HourInv
  BY TableInit
<1>2. HourInv /\ [Next]_vars => HourInv'
  BY ConstantAssumption, TableStep, PostStep DEF HourInv
<1>3. HourInv => OnePerClockHour
  BY DEF HourInv, TableInv
<1> QED
  BY <1>1, <1>2, <1>3, PTL DEF Spec
-----------------------------------------------------------------------------
(***************************************************************************)
(* What becomes of a submission.  The form learns it from an answer that   *)
(* may be late, and may come from the gateway while the server still works *)
(* on the request; what an answer of the server says is settled by then,   *)
(* so that the server is finished with the submission.                     *)
(***************************************************************************)
Same(post) == {i \in DOMAIN signals : /\ signals[i].strategy = post.strategy
                                      /\ signals[i].market = post.market}

(* What an answer says, true of the submission it answers. *)
IsTrue(post, response) ==
    \/ response \in GatewayResponses
    \/ /\ response \in {Failed(401), Failed(500)}
       /\ post.server = "finished" /\ post.id = 0
    \/ /\ response = Created(-1)
       /\ post.server = "finished" /\ post.id = 0 /\ Same(post) # {}
    \/ /\ response = Created(post.id)
       /\ post.server = "finished" /\ post.id \in Same(post)

Answerable(post) ==
    /\ post.server \in {"none", "sent", "checked", "finished"}
    /\ post.answered \in BOOLEAN /\ post.settled \in BOOLEAN
    /\ post.id \in {0} \cup DOMAIN signals
    /\ post.settled => post.answered
    /\ post.server # "finished" => post.id = 0
    /\ post.server = "none" => ~post.answered
    /\ post.answered /\ ~post.settled => IsTrue(post, post.response)

(* What the form says, true of the submission it follows. *)
Tells(message, post) ==
    \/ /\ message.kind = "created" /\ message.id = post.id
       /\ post.id \in Same(post) /\ post.server = "finished"
    \/ /\ message.kind = "deduped"
       /\ post.id = 0 /\ Same(post) # {} /\ post.server = "finished"
    \/ message.kind = "ApiError" /\ message.status = 502
    \/ /\ message.kind = "ApiError" /\ message.reason = {"error"}
       /\ post.id = 0 /\ post.server = "finished"

PanelInv ==
    /\ DOMAIN panel = {"market", "mine", "message"}
    /\ panel.market \in Market \cup {NoMarket}
    /\ panel.mine \in {0} \cup Post
    /\ panel.mine # 0 =>
          /\ posts[panel.mine].server # "none"
          /\ posts[panel.mine].settled => Tells(panel.message, posts[panel.mine])

FormInv ==
    /\ \A p \in Post : Answerable(posts[p])
    /\ PanelInv

(***************************************************************************)
(* What a page shows.  Each filter has an entry and a request of its own.  *)
(***************************************************************************)
Under(f) == {i \in DOMAIN signals : f \in {Anything, signals[i].strategy}}

PageInv ==
    /\ view \in Destinations
    /\ cache \in [Keys -> SUBSET (DOMAIN signals \cup {0})]
    /\ fetch \in [Keys -> Queries \cup {NoQuery}]
    /\ \A f \in Filters :
          LET k == Key(ListQuery(f))
          IN  /\ cache[k] = NoData \/ cache[k] \subseteq Under(f)
              /\ fetch[k] \in {ListQuery(f), NoQuery}

(* A row keeps its place, its strategy and its market. *)
Grows ==
    /\ DOMAIN signals \subseteq (DOMAIN signals)'
    /\ \A i \in DOMAIN signals : /\ signals'[i].strategy = signals[i].strategy
                                 /\ signals'[i].market = signals[i].market

LEMMA TableGrows ==
  ASSUME HourInv, [Next]_vars
  PROVE  Grows
<1> USE DEF HourInv
<1>0. ASSUME UNCHANGED signals PROVE Grows
  BY <1>0 DEF Grows
<1>1. ASSUME NEW s \in Strategy, NEW m \in Market, signals' = Append(signals, NewSignal(s, m))
      PROVE  Grows
  <2>1. NewSignal(s, m) \in Row
    BY DEF NewSignal, Row, TableInv
  <2> QED
    BY <1>1, <2>1 DEF Grows, TableInv
<1>2. ASSUME NEW e \in Emitted, BotInsert(e[1], e[2]) PROVE Grows
  <2>1. e[1] \in Strategy /\ e[2] \in Market
    BY ConstantAssumption DEF SignalInput
  <2> QED
    BY <1>1, <1>2, <2>1 DEF BotInsert
<1>3. ASSUME NEW i \in 1..MaxSignals, Mark(i) PROVE Grows
  <2>1. i \in DOMAIN signals /\ signals[i] \in Row
    BY <1>3 DEF Mark, TableInv
  <2>2. \A exec : [signals[i] EXCEPT !.exec = exec].strategy = signals[i].strategy
                  /\ [signals[i] EXCEPT !.exec = exec].market = signals[i].market
    BY <2>1 DEF Row
  <2>3. \A outcome : [signals[i] EXCEPT !.outcome = outcome].strategy = signals[i].strategy
                     /\ [signals[i] EXCEPT !.outcome = outcome].market = signals[i].market
    BY <2>1 DEF Row
  <2>4. PICK row : /\ signals' = [signals EXCEPT ![i] = row]
                   /\ row.strategy = signals[i].strategy /\ row.market = signals[i].market
    <3>1. CASE \E exec \in {"executed", "skipped"} : signals' = [signals EXCEPT ![i].exec = exec]
      <4>1. PICK exec : signals' = [signals EXCEPT ![i] = [signals[i] EXCEPT !.exec = exec]]
        BY <3>1
      <4> QED
        BY <2>2, <4>1
    <3>2. CASE \E outcome \in {"won", "lost"} : signals' = [signals EXCEPT ![i].outcome = outcome]
      <4>1. PICK outcome : signals' = [signals EXCEPT ![i] = [signals[i] EXCEPT !.outcome = outcome]]
        BY <3>2
      <4> QED
        BY <2>3, <4>1
    <3> QED
      BY <1>3, <3>1, <3>2 DEF Mark
  <2>5. DOMAIN signals' = DOMAIN signals
    BY <2>4
  <2>6. ASSUME NEW j \in DOMAIN signals
        PROVE  signals'[j].strategy = signals[j].strategy /\ signals'[j].market = signals[j].market
    BY <2>4
  <2> QED
    BY <2>5, <2>6 DEF Grows
<1>4. ASSUME NEW p \in Post, Insert(p) PROVE Grows
  <2>1. posts[p].strategy \in Strategy /\ posts[p].market \in Market
    BY <1>4 DEF Insert, PostInv, IsPost
  <2>2. \/ UNCHANGED signals
        \/ signals' = Append(signals, NewSignal(posts[p].strategy, posts[p].market))
    BY <1>4 DEF Insert
  <2> QED
    BY <1>0, <1>1, <2>1, <2>2
<1>5. CASE Form \/ Pages \/ Advance \/ UNCHANGED vars
  BY <1>0, <1>5 DEF Form, Pages, vars, SelectMarket, TypeSearch, SubmitBadScore, Submit, Settle,
                    Navigate, Poll, Receive, FetchFailed, Advance
<1>6. ASSUME NEW p \in Post, Check(p) \/ ServerError(p) \/ GatewayError(p) PROVE Grows
  BY <1>0, <1>6 DEF Check, ServerError, GatewayError
<1> QED
  BY <1>2, <1>3, <1>4, <1>5, <1>6 DEF Next, Table, Server

(* Each filter has a key of its own, and a request for its own rows. *)
LEMMA KeysDiffer ==
  /\ \A f, g : Key(ListQuery(f)) = Key(ListQuery(g)) => f = g
  /\ \A f : ListQuery(f) # NoQuery /\ ListQuery(f).filter = f
  /\ \A f \in Filters : ListQuery(f) \in Queries /\ Key(ListQuery(f)) \in Keys
<1>1. \A f : Key(ListQuery(f)) = <<<<"signals">>, <<"200", "168", f>>>>
  BY DEF Key, ListQuery, ListSignals, Query, QueryKey, NoParams
<1>2. ASSUME NEW f, NEW g, Key(ListQuery(f)) = Key(ListQuery(g)) PROVE f = g
  <2>1. <<<<"signals">>, <<"200", "168", f>>>> = <<<<"signals">>, <<"200", "168", g>>>>
    BY <1>1, <1>2
  <2> QED
    BY <2>1
<1>3. ASSUME NEW f PROVE ListQuery(f) # NoQuery /\ ListQuery(f).filter = f
  <2>1. ListQuery(f).request.path[1] = "signals"
    BY DEF ListQuery, ListSignals, Query
  <2>2. NoQuery.request.path[1] = "healthz"
    BY DEF NoQuery, HealthCheck, Query
  <2>3. ListQuery(f).filter = f
    BY DEF ListQuery
  <2> QED
    BY <2>1, <2>2, <2>3
<1>4. \A f \in Filters : ListQuery(f) \in Queries /\ Key(ListQuery(f)) \in Keys
  BY DEF Queries, Keys
<1> QED
  BY <1>2, <1>3, <1>4

(* GET /signals with a strategy answers rows of that strategy. *)
LEMMA AnswerMatches ==
  ASSUME NEW f
  PROVE  SignalsTable(signals, now, f) \subseteq Under(f)
<1> DEFINE wants == [Signals(f, Anything) EXCEPT !.hours = 168, !.limit = 200]
<1>1. wants.strategy = f
  BY DEF Signals
<1> HIDE DEF wants
<1>2. GetSignals(signals, now, wants) \subseteq {i \in DOMAIN signals : f \in {Anything, signals[i].strategy}}
  BY <1>1 DEF GetSignals, Newest, Within, Meets
<1> QED
  BY <1>2 DEF SignalsTable, Under, wants

LEMMA PageInit == ASSUME Init PROVE PageInv
<1>1. view \in Destinations
  BY DEF Init, Destinations
<1>2. cache \in [Keys -> SUBSET (DOMAIN signals \cup {0})]
  BY DEF Init, NoData
<1>3. fetch \in [Keys -> Queries \cup {NoQuery}]
  BY DEF Init
<1>4. ASSUME NEW f \in Filters
      PROVE  cache[Key(ListQuery(f))] = NoData /\ fetch[Key(ListQuery(f))] = NoQuery
  BY KeysDiffer DEF Init
<1> QED
  BY <1>1, <1>2, <1>3, <1>4 DEF PageInv

(* What a page was shown stays true of a table that grows. *)
LEMMA ShownStays ==
  ASSUME PageInv, Grows
  PROVE  /\ cache \in [Keys -> SUBSET ((DOMAIN signals)' \cup {0})]
         /\ \A f \in Filters : LET k == Key(ListQuery(f))
                               IN  cache[k] = NoData \/ cache[k] \subseteq Under(f)'
<1>1. \A f : Under(f) \subseteq Under(f)'
  <2> SUFFICES ASSUME NEW f, NEW i \in Under(f) PROVE i \in Under(f)'
    OBVIOUS
  <2>1. i \in DOMAIN signals /\ f \in {Anything, signals[i].strategy}
    BY DEF Under
  <2>2. i \in (DOMAIN signals)' /\ signals'[i].strategy = signals[i].strategy
    BY <2>1 DEF Grows
  <2> QED
    BY <2>1, <2>2 DEF Under
<1>2. cache \in [Keys -> SUBSET ((DOMAIN signals)' \cup {0})]
  BY DEF PageInv, Grows
<1> QED
  BY <1>1, <1>2 DEF PageInv

LEMMA PageStep ==
  ASSUME HourInv, PageInv, [Next]_vars
  PROVE  PageInv'
<1>1. Grows
  BY TableGrows
<1>2. /\ cache \in [Keys -> SUBSET ((DOMAIN signals)' \cup {0})]
      /\ \A f \in Filters : LET k == Key(ListQuery(f))
                            IN  cache[k] = NoData \/ cache[k] \subseteq Under(f)'
  BY <1>1, ShownStays
<1>3. ASSUME UNCHANGED <<view, cache, fetch>> PROVE PageInv'
  BY <1>2, <1>3 DEF PageInv
<1>4. CASE Table \/ Form \/ Server \/ UNCHANGED vars
  BY <1>3, <1>4 DEF Table, Form, Server, vars, browser, BotInsert, Mark, Advance, SelectMarket,
                    TypeSearch, SubmitBadScore, Submit, Settle, Check, Insert, ServerError,
                    GatewayError
<1>5. CASE Navigate
  <2>1. view' \in Destinations /\ UNCHANGED cache /\ fetch' = Left(view')
    BY <1>5 DEF Navigate
  <2>2. fetch' \in [Keys -> Queries \cup {NoQuery}]
        /\ \A k \in Keys : fetch'[k] \in {fetch[k], NoQuery}
    BY <2>1 DEF Left, PageInv
  <2>3. \A f \in Filters : fetch'[Key(ListQuery(f))] \in {ListQuery(f), NoQuery}
    BY <2>2, KeysDiffer DEF PageInv
  <2> QED
    BY <1>2, <2>1, <2>2, <2>3 DEF PageInv
<1>6. ASSUME NEW q \in Queries, Poll(q) PROVE PageInv'
  <2>1. PICK f \in Filters : q = ListQuery(f)
    BY DEF Queries
  <2>2. fetch' = [fetch EXCEPT ![Key(q)] = q] /\ UNCHANGED <<view, cache>>
    BY <1>6 DEF Poll
  <2>3. fetch' \in [Keys -> Queries \cup {NoQuery}]
    BY <2>2 DEF PageInv
  <2>4. ASSUME NEW g \in Filters PROVE fetch'[Key(ListQuery(g))] \in {ListQuery(g), NoQuery}
    <3>1. CASE g = f
      BY <2>1, <2>2, <3>1, KeysDiffer DEF PageInv
    <3>2. CASE g # f
      <4>1. Key(ListQuery(g)) # Key(q)
        BY <2>1, <3>2, KeysDiffer
      <4> QED
        BY <2>2, <4>1, KeysDiffer DEF PageInv
    <3> QED
      BY <3>1, <3>2
  <2> QED
    BY <1>2, <2>2, <2>3, <2>4 DEF PageInv
<1>7. ASSUME NEW k \in Keys, Receive(k) PROVE PageInv'
  <2>1. PICK f \in Filters : k = Key(ListQuery(f))
    BY DEF Keys, Queries
  <2>2. fetch[k] = ListQuery(f) /\ fetch[k].filter = f
    BY <1>7, <2>1, KeysDiffer DEF Receive, PageInv
  <2>3. /\ cache' = [cache EXCEPT ![k] = SignalsTable(signals, now, f)]
        /\ fetch' = [fetch EXCEPT ![k] = NoQuery] /\ UNCHANGED <<signals, view>>
    BY <1>7, <2>2 DEF Receive
  <2>4. SignalsTable(signals, now, f) \subseteq Under(f)
    BY AnswerMatches
  <2>5. Under(f) \subseteq DOMAIN signals
    BY DEF Under
  <2>6. cache' \in [Keys -> SUBSET (DOMAIN signals \cup {0})]
    BY <2>3, <2>4, <2>5 DEF PageInv
  <2>7. fetch' \in [Keys -> Queries \cup {NoQuery}]
    BY <2>3 DEF PageInv
  <2>8. ASSUME NEW g \in Filters
        PROVE  /\ cache'[Key(ListQuery(g))] = NoData \/ cache'[Key(ListQuery(g))] \subseteq Under(g)
               /\ fetch'[Key(ListQuery(g))] \in {ListQuery(g), NoQuery}
    <3>1. CASE g = f
      BY <2>1, <2>3, <2>4, <3>1, KeysDiffer DEF PageInv
    <3>2. CASE g # f
      <4>1. Key(ListQuery(g)) # k /\ Key(ListQuery(g)) \in Keys
        BY <2>1, <3>2, KeysDiffer
      <4> QED
        BY <2>3, <4>1 DEF PageInv
    <3> QED
      BY <3>1, <3>2
  <2>9. (\A g : Under(g)' = Under(g)) /\ (DOMAIN signals)' = DOMAIN signals
    BY <2>3 DEF Under
  <2> QED
    BY <2>3, <2>6, <2>7, <2>8, <2>9 DEF PageInv
<1>8. ASSUME NEW k \in Keys, FetchFailed(k) PROVE PageInv'
  <2>1. fetch' = [fetch EXCEPT ![k] = NoQuery] /\ UNCHANGED <<view, cache>>
    BY <1>8 DEF FetchFailed
  <2>2. fetch' \in [Keys -> Queries \cup {NoQuery}]
        /\ \A j \in Keys : fetch'[j] \in {fetch[j], NoQuery}
    BY <2>1 DEF PageInv
  <2>3. \A f \in Filters : fetch'[Key(ListQuery(f))] \in {ListQuery(f), NoQuery}
    BY <2>2, KeysDiffer DEF PageInv
  <2> QED
    BY <1>2, <2>1, <2>2, <2>3 DEF PageInv
<1> QED
  BY <1>4, <1>5, <1>6, <1>7, <1>8 DEF Next, Pages

(* The list under a filter holds rows of that filter only, whatever was    *)
(* asked before, shown in between, or arrives late.                        *)
THEOREM ListMatchesFilter == Spec => []ShownMatchesSelection
<1>1. Init => HourInv /\ PageInv
  BY TableInit, PageInit
<1>2. HourInv /\ PageInv /\ [Next]_vars => HourInv' /\ PageInv'
  BY ConstantAssumption, TableStep, PostStep, PageStep DEF HourInv
<1>3. ASSUME PageInv PROVE ShownMatchesSelection
  <2> SUFFICES ASSUME NEW q \in Active, Shown(q) # NoData, NEW i \in Shown(q)
               PROVE  q.filter \in {Anything, signals[i].strategy}
    BY DEF ShownMatchesSelection
  <2>1. view.page = "signals" /\ q = ListQuery(view.filter)
    BY DEF Active, Wanted
  <2>2. view.filter \in Filters
    <3>1. view # Home
      BY <2>1 DEF Home
    <3>2. PICK f \in Filters : view = [Home EXCEPT !.page = "signals", !.filter = f]
      BY <1>3, <3>1 DEF PageInv, Destinations
    <3>3. view.filter = f
      BY <3>2 DEF Home
    <3> QED
      BY <3>3
  <2>3. Shown(q) \subseteq Under(view.filter)
    BY <1>3, <2>1, <2>2 DEF PageInv, Shown
  <2> QED
    BY <2>1, <2>3, KeysDiffer DEF Under
<1> QED
  BY <1>1, <1>2, <1>3, PTL DEF Spec

(* What was said of a submission stays true while the table grows. *)
LEMMA SaidStays ==
  ASSUME Grows, NEW post
  PROVE  /\ Same(post) \subseteq Same(post)'
         /\ \A response : IsTrue(post, response) => IsTrue(post, response)'
         /\ Answerable(post) => Answerable(post)'
         /\ \A message : Tells(message, post) => Tells(message, post)'
<1>1. Same(post) \subseteq Same(post)'
  BY DEF Same, Grows
<1>2. \A response : IsTrue(post, response) => IsTrue(post, response)'
  BY <1>1 DEF IsTrue
<1>3. Answerable(post) => Answerable(post)'
  <2>1. DOMAIN signals \subseteq (DOMAIN signals)'
    BY DEF Grows
  <2> QED
    BY <1>2, <2>1 DEF Answerable
<1>4. \A message : Tells(message, post) => Tells(message, post)'
  BY <1>1 DEF Tells
<1> QED
  BY <1>1, <1>2, <1>3, <1>4

(* The server finishes with a submission that the gateway may have         *)
(* answered before.                                                        *)
LEMMA FinishTells ==
  ASSUME NEW post, IsPost(post), Answerable(post), post.server \in {"sent", "checked"},
         NEW response,
         response \in {Failed(401), Failed(500)} \/ (response = Created(-1) /\ Same(post) # {})
  PROVE  LET new == Finished(post, response)
         IN  Answerable(new) /\ new.server = "finished" /\ new.settled = post.settled
<1> DEFINE new == Finished(post, response)
<1>1. DOMAIN post = DOMAIN NoPost
  BY DEF IsPost
<1>2. /\ new.server = "finished" /\ new.answered = TRUE /\ new.settled = post.settled
      /\ new.id = post.id /\ new.strategy = post.strategy /\ new.market = post.market
      /\ new.response = IF post.answered THEN post.response ELSE response
  BY <1>1 DEF Finished, NoPost
<1>3. Same(new) = Same(post)
  BY <1>2 DEF Same
<1>4. post.id = 0
  BY DEF Answerable
<1> HIDE DEF new
<1>5. ASSUME ~new.settled PROVE IsTrue(new, new.response)
  <2>1. CASE post.answered
    <3>1. post.response \in GatewayResponses
      BY <1>2, <1>5, <2>1 DEF Answerable, IsTrue
    <3> QED
      BY <1>2, <2>1, <3>1 DEF IsTrue
  <2>2. CASE ~post.answered
    BY <1>2, <1>3, <1>4, <2>2 DEF IsTrue
  <2> QED
    BY <2>1, <2>2
<1>6. Answerable(new)
  BY <1>2, <1>4, <1>5 DEF Answerable
<1> QED
  BY <1>2, <1>6 DEF new

(* One submission changes; the others are as they were. *)
LEMMA OneChanges ==
  ASSUME PostInv, FormInv, Grows, NEW p \in Post, NEW new, posts' = [posts EXCEPT ![p] = new],
         Answerable(new)'
  PROVE  /\ posts'[p] = new
         /\ \A o \in Post : o # p => posts'[o] = posts[o]
         /\ \A o \in Post : Answerable(posts[o])'
<1>1. /\ posts'[p] = new
      /\ \A o \in Post : o # p => posts'[o] = posts[o]
  BY DEF PostInv
<1>2. ASSUME NEW o \in Post PROVE Answerable(posts[o])'
  <2>1. CASE o = p
    BY <1>1, <2>1 DEF Answerable, IsTrue, Same
  <2>2. CASE o # p
    <3>1. PICK post : post = posts[o]
      OBVIOUS
    <3>2. Answerable(post)'
      BY <3>1, SaidStays DEF FormInv
    <3>3. posts'[o] = post
      BY <1>1, <2>2, <3>1
    <3> QED
      BY <3>2, <3>3 DEF Answerable, IsTrue, Same
  <2> QED
    BY <2>1, <2>2
<1> QED
  BY <1>1, <1>2

(* What the form says of it stays true. *)
LEMMA OneAnswer ==
  ASSUME PostInv, FormInv, Grows, NEW p \in Post, NEW new, posts' = [posts EXCEPT ![p] = new],
         Answerable(new)', UNCHANGED panel, new.server # "none",
         panel.mine = p /\ new.settled => Tells(panel.message, new)'
  PROVE  FormInv'
<1>1. /\ posts'[p] = new
      /\ \A o \in Post : o # p => posts'[o] = posts[o]
  BY OneChanges
<1>2. \A o \in Post : Answerable(posts[o])'
  BY OneChanges
<1>3. ASSUME panel.mine # 0
      PROVE  /\ posts'[panel.mine].server # "none"
             /\ posts'[panel.mine].settled => Tells(panel.message, posts[panel.mine])'
  <2>0. panel.mine \in Post
    BY <1>3 DEF FormInv, PanelInv
  <2>1. CASE panel.mine = p
    BY <1>1, <2>1 DEF Tells, Same
  <2>2. CASE panel.mine # p
    <3>1. PICK post : post = posts[panel.mine]
      OBVIOUS
    <3>2. PICK message : message = panel.message
      OBVIOUS
    <3>3. post.server # "none" /\ (post.settled => Tells(message, post))
      BY <1>3, <3>1, <3>2 DEF FormInv, PanelInv
    <3>4. post.settled => Tells(message, post)'
      BY <3>3, SaidStays
    <3>5. posts'[panel.mine] = post /\ panel' = panel
      BY <1>1, <2>0, <2>2, <3>1
    <3>6. post.settled => Tells(panel.message, posts[panel.mine])'
      BY <3>2, <3>4, <3>5 DEF Tells, Same
    <3> QED
      BY <3>3, <3>5, <3>6
  <2> QED
    BY <2>1, <2>2
<1>4. PanelInv'
  BY <1>3 DEF FormInv, PanelInv
<1> QED
  BY <1>2, <1>4 DEF FormInv

(* What the form makes of an answer is what the answer says. *)
LEMMA MessageTells ==
  ASSUME TableInv, NEW post, NEW response, IsTrue(post, response)
  PROVE  Tells(Message(response), post)
<1>1. CASE response \in GatewayResponses
  <2>0. /\ [Json(502, "plain") EXCEPT !.media = "text"].status = 502
        /\ [Json(502, "broken") EXCEPT !.bom = TRUE].status = 502
        /\ [Json(502, "") EXCEPT !.media = None, !.emptyLength = TRUE].status = 502
    BY DEF Json
  <2>1. response.status = 502
    <3>1. \/ response = [Json(502, "plain") EXCEPT !.media = "text"]
          \/ response = [Json(502, "broken") EXCEPT !.bom = TRUE]
          \/ response = [Json(502, "") EXCEPT !.media = None, !.emptyLength = TRUE]
      BY <1>1, Zenon DEF GatewayResponses
    <3>2. CASE response = [Json(502, "plain") EXCEPT !.media = "text"]
      BY <2>0, <3>2
    <3>3. CASE response = [Json(502, "broken") EXCEPT !.bom = TRUE]
      BY <2>0, <3>3
    <3>4. CASE response = [Json(502, "") EXCEPT !.media = None, !.emptyLength = TRUE]
      BY <2>0, <3>4, Zenon
    <3> QED
      BY <3>1, <3>2, <3>3, <3>4, Zenon
  <2>2. ~IsOk(response)
    BY <2>1 DEF IsOk
  <2>3. /\ customFetch(response, "auto", "POST").kind = "ApiError"
        /\ customFetch(response, "auto", "POST").status = 502
    BY <2>1, <2>2 DEF customFetch, ApiError
  <2>4. Message(response).kind = "ApiError" /\ Message(response).status = 502
    BY <2>3 DEF Message
  <2> QED
    BY <2>4 DEF Tells
<1>2. CASE response \in {Failed(401), Failed(500)} /\ post.server = "finished" /\ post.id = 0
  <2>1. /\ response.status \in {401, 500} /\ response.media = "json" /\ response.text = "object"
        /\ response.fields = {"error"} /\ response.emptyLength = FALSE /\ response.body = "stream"
    BY <1>2 DEF Failed, Json
  <2>2. ~IsOk(response)
    BY <2>1 DEF IsOk
  <2>3. ~hasNoBody(response, "POST")
    BY <2>1 DEF hasNoBody, NO_BODY_STATUS
  <2>4. stripBom(response).bom = FALSE /\ stripBom(response).text = "object"
    BY <1>2 DEF stripBom, Failed, Json
  <2>5. parseErrorBody(response, "POST") = Parsed("object")
    BY <2>1, <2>3, <2>4 DEF parseErrorBody, isJsonMediaType, isTextMediaType, IsBlank, IsJson, JsonText
  <2>6. /\ customFetch(response, "auto", "POST").kind = "ApiError"
        /\ customFetch(response, "auto", "POST").data.as = "parsed"
    BY <2>2, <2>5 DEF customFetch, ApiError, Parsed
  <2>7. buildErrorMessage(Fields(response)) = {"error"}
    BY <2>1 DEF Fields, JsonText, buildErrorMessage
  <2>8. Message(response).kind = "ApiError" /\ Message(response).reason = {"error"}
    BY <2>6, <2>7 DEF Message
  <2> QED
    BY <1>2, <2>8 DEF Tells
<1>3. ASSUME NEW id, response = Created(id)
      PROVE  Message(response) = [kind |-> IF id = -1 THEN "deduped" ELSE "created", id |-> id]
  <2>1. /\ response.status = 201 /\ response.media = "json" /\ response.text = "object"
        /\ response.emptyLength = FALSE /\ response.body = "stream" /\ response.id = id
    BY <1>3 DEF Created, Json
  <2>2. IsOk(response)
    BY <2>1 DEF IsOk
  <2>3. ~hasNoBody(response, "POST")
    BY <2>1 DEF hasNoBody, NO_BODY_STATUS
  <2>4. stripBom(response).bom = FALSE /\ stripBom(response).text = "object"
    BY <1>3 DEF stripBom, Created, Json
  <2>5. parseJsonBody(response).kind = "data"
    BY <2>1, <2>4 DEF parseJsonBody, IsBlank, IsJson, JsonText, Data
  <2>6. customFetch(response, "auto", "POST") = parseJsonBody(response)
    BY <2>1, <2>2, <2>3 DEF customFetch, parseSuccessBody, inferResponseType, isJsonMediaType
  <2> QED
    BY <2>1, <2>5, <2>6 DEF Message
<1>4. CASE response = Created(-1) /\ post.server = "finished" /\ post.id = 0 /\ Same(post) # {}
  BY <1>3, <1>4 DEF Tells
<1>5. CASE response = Created(post.id) /\ post.server = "finished" /\ post.id \in Same(post)
  <2>1. post.id # -1
    BY <1>5 DEF Same, TableInv
  <2>2. Message(response) = [kind |-> "created", id |-> post.id]
    <3>1. response = Created(post.id)
      BY <1>5
    <3> QED
      BY <1>3, <2>1, <3>1
  <2>3. Message(response).kind = "created" /\ Message(response).id = post.id
    BY <2>2
  <2> QED
    BY <1>5, <2>3 DEF Tells
<1> QED
  BY <1>1, <1>2, <1>4, <1>5 DEF IsTrue

LEMMA FormInit == ASSUME Init PROVE FormInv
<1>1. \A p \in Post : posts[p] = NoPost
  BY DEF Init
<1>2. Answerable(NoPost)
  BY DEF Answerable, NoPost
<1>3. PanelInv
  BY DEF Init, PanelInv, FreshPanel
<1> QED
  BY <1>1, <1>2, <1>3 DEF FormInv

(* The table grows and the form shows what it showed. *)
LEMMA FormStays ==
  ASSUME FormInv, Grows, UNCHANGED posts,
         panel' = panel \/ (DOMAIN panel' = DOMAIN panel /\ panel'.mine = panel.mine
                            /\ panel'.message = panel.message
                            /\ panel'.market \in Market \cup {NoMarket})
  PROVE  FormInv'
<1>1. ASSUME NEW p \in Post PROVE Answerable(posts[p])'
  <2>1. PICK post : post = posts[p]
    OBVIOUS
  <2>2. Answerable(post)'
    BY <2>1, SaidStays DEF FormInv
  <2> QED
    BY <2>1, <2>2 DEF Answerable, IsTrue, Same
<1>2. ASSUME panel.mine # 0
      PROVE  /\ posts'[panel.mine].server # "none"
             /\ posts'[panel.mine].settled => Tells(panel.message, posts[panel.mine])'
  <2>1. PICK post : post = posts[panel.mine]
    OBVIOUS
  <2>2. PICK message : message = panel.message
    OBVIOUS
  <2>3. post.server # "none" /\ (post.settled => Tells(message, post))
    BY <1>2, <2>1, <2>2 DEF FormInv, PanelInv
  <2>4. post.settled => Tells(message, post)'
    BY <2>3, SaidStays
  <2>5. posts'[panel'.mine] = post /\ panel'.message = message /\ panel'.mine = panel.mine
    BY <2>1, <2>2
  <2> QED
    BY <2>3, <2>4, <2>5 DEF Tells, Same
<1>3. PanelInv'
  BY <1>2 DEF FormInv, PanelInv
<1> QED
  BY <1>1, <1>3 DEF FormInv

LEMMA SubmitKeeps ==
  ASSUME HourInv, FormInv, Grows, NEW s \in Strategy, Submit(s)
  PROVE  FormInv'
<1>1. PICK p \in Post, key \in ApiKey :
        /\ posts' = [posts EXCEPT ![p] =
              [NoPost EXCEPT !.server = "sent", !.strategy = s,
                             !.market = panel.market, !.key = KeyOf(Sent(key))]]
        /\ panel' = [panel EXCEPT !.mine = p, !.message = [kind |-> "none"]]
  BY DEF Submit
<1> DEFINE new == [NoPost EXCEPT !.server = "sent", !.strategy = s,
                                 !.market = panel.market, !.key = KeyOf(Sent(key))]
<1>2. new.server = "sent" /\ new.answered = FALSE /\ new.settled = FALSE /\ new.id = 0
  BY DEF NoPost
<1>3. PICK post : post = new
  OBVIOUS
<1> HIDE DEF new
<1>4. Answerable(post)'
  BY <1>2, <1>3 DEF Answerable
<1>5. posts' = [posts EXCEPT ![p] = post]
  BY <1>1, <1>3 DEF new
<1>6. posts'[p] = post /\ \A o \in Post : Answerable(posts[o])'
  BY <1>4, <1>5, OneChanges DEF HourInv
<1>7. /\ panel'.mine = p /\ panel'.market = panel.market /\ DOMAIN panel' = DOMAIN panel
  BY <1>1 DEF FormInv, PanelInv
<1>8. PanelInv'
  BY <1>2, <1>3, <1>6, <1>7 DEF FormInv, PanelInv
<1> QED
  BY <1>6, <1>8 DEF FormInv

LEMMA SettleKeeps ==
  ASSUME HourInv, FormInv, Grows, NEW p \in Post, Settle(p)
  PROVE  FormInv'
<1> DEFINE settled == [posts[p] EXCEPT !.settled = TRUE, !.response = NoPost.response]
           message == Message(posts[p].response)
<1>1. PICK new : new = settled
  OBVIOUS
<1>2. PICK said : said = message
  OBVIOUS
<1>3. posts' = [posts EXCEPT ![p] = new]
  BY <1>1 DEF Settle
<1>4. IsPost(posts[p]) /\ Answerable(posts[p]) /\ posts[p].answered /\ ~posts[p].settled
  BY DEF HourInv, PostInv, FormInv, Settle
<1>5. /\ new.server = posts[p].server /\ new.answered = TRUE /\ new.settled = TRUE
      /\ new.id = posts[p].id /\ new.strategy = posts[p].strategy /\ new.market = posts[p].market
  BY <1>1, <1>4 DEF IsPost, NoPost
<1>6. Answerable(new)
  BY <1>4, <1>5 DEF Answerable
<1>7. Answerable(new)'
  BY <1>6, SaidStays
<1>8. Tells(said, posts[p])
  BY <1>2, <1>4, MessageTells DEF HourInv, Answerable
<1>9. Tells(said, new)
  BY <1>5, <1>8 DEF Tells, Same
<1>10. Tells(said, new)'
  BY <1>9, SaidStays
<1>11. new.server # "none"
  BY <1>4, <1>5 DEF Answerable
<1>12. CASE ~Following(p)
  <2>1. panel' = panel /\ panel.mine # p
    BY <1>12 DEF Settle, Following
  <2> QED
    BY <1>3, <1>7, <1>11, <2>1, OneAnswer DEF HourInv
<1>13. CASE Following(p)
  <2>1. panel' = [panel EXCEPT !.message = said,
                      !.market = IF said.kind \in {"created", "deduped"} THEN NoMarket ELSE @]
    BY <1>2, <1>13 DEF Settle
  <2>2. /\ panel'.message = said /\ panel'.mine = p /\ DOMAIN panel' = DOMAIN panel
        /\ panel'.market \in {panel.market, NoMarket}
    BY <1>13, <2>1 DEF FormInv, PanelInv, Following
  <2>3. posts'[p] = new /\ \A o \in Post : Answerable(posts[o])'
    BY <1>3, <1>7, OneChanges DEF HourInv
  <2>4. Tells(panel.message, posts[panel.mine])'
    BY <1>10, <2>2, <2>3 DEF Tells, Same
  <2>5. PanelInv'
    BY <1>11, <2>2, <2>3, <2>4 DEF FormInv, PanelInv
  <2> QED
    BY <2>3, <2>5 DEF FormInv
<1> QED
  BY <1>12, <1>13

(* The page that is left forgets what it followed. *)
LEMMA NavigateKeeps ==
  ASSUME HourInv, FormInv, Grows, Navigate
  PROVE  FormInv'
<1>1. ASSUME NEW p \in Post PROVE Answerable(posts[p])'
  <2>1. PICK post : post = Forgotten(posts[p])
    OBVIOUS
  <2>2. Answerable(posts[p]) /\ IsPost(posts[p])
    BY DEF FormInv, HourInv, PostInv
  <2>3. Answerable(post)
    <3>1. CASE post = posts[p]
      BY <2>2, <3>1
    <3>2. CASE post = [NoPost EXCEPT !.server = "finished", !.answered = TRUE, !.settled = TRUE]
      BY <3>2 DEF Answerable, NoPost
    <3> QED
      BY <2>1, <3>1, <3>2 DEF Forgotten
  <2>4. Answerable(post)'
    BY <2>3, SaidStays
  <2>5. posts'[p] = post
    BY <2>1 DEF Navigate
  <2> QED
    BY <2>4, <2>5 DEF Answerable, IsTrue, Same
<1>2. PanelInv'
  BY DEF Navigate, PanelInv, FreshPanel
<1> QED
  BY <1>1, <1>2 DEF FormInv

(* A form that has its answer while the server still works on the request  *)
(* has it from the gateway.                                                *)
LEMMA EarlyAnswer ==
  ASSUME FormInv, NEW p \in Post, panel.mine = p, posts[p].settled,
         posts[p].server \in {"sent", "checked"}
  PROVE  panel.message.kind = "ApiError" /\ panel.message.status = 502
<1>1. p # 0
  BY DEF Post
<1>2. Tells(panel.message, posts[p])
  BY <1>1 DEF FormInv, PanelInv
<1> QED
  BY <1>2 DEF Tells

Ends(p, response) ==
    posts' = [posts EXCEPT ![p] = Finished(posts[p], response)] /\ UNCHANGED panel

LEMMA FinishKeeps ==
  ASSUME HourInv, FormInv, Grows, NEW p \in Post, posts[p].server \in {"sent", "checked"},
         NEW response,
         \/ response \in {Failed(401), Failed(500)}
         \/ (response = Created(-1) /\ Same(posts[p]) # {}),
         Ends(p, response)
  PROVE  FormInv'
<1>1. IsPost(posts[p]) /\ Answerable(posts[p])
  BY DEF HourInv, PostInv, FormInv
<1>2. PICK new : new = Finished(posts[p], response)
  OBVIOUS
<1>3. posts' = [posts EXCEPT ![p] = new] /\ UNCHANGED panel
  BY <1>2 DEF Ends
<1>4. Answerable(new) /\ new.server # "none" /\ new.settled = posts[p].settled
  BY <1>1, <1>2, FinishTells
<1>5. Answerable(new)'
  BY <1>4, SaidStays
<1>6. panel.mine = p /\ new.settled => Tells(panel.message, new)'
  BY <1>3, <1>4, EarlyAnswer DEF Tells
<1> QED
  BY <1>3, <1>4, <1>5, <1>6, OneAnswer DEF HourInv

LEMMA CheckKeeps ==
  ASSUME HourInv, FormInv, Grows, NEW p \in Post, Check(p)
  PROVE  FormInv'
<1>1. /\ IsPost(posts[p]) /\ Answerable(posts[p]) /\ posts[p].server = "sent"
      /\ UNCHANGED panel
  BY DEF HourInv, PostInv, FormInv, Check, browser
<1>2. CASE ~Admitted(CreateSignal, "secret", posts[p].key)
  <2>1. Ends(p, Failed(401))
    BY <1>1, <1>2 DEF Check, Ends
  <2> QED
    BY <1>1, <2>1, FinishKeeps
<1>3. CASE /\ Admitted(CreateSignal, "secret", posts[p].key)
           /\ Recent(posts[p].strategy, posts[p].market) # {}
  <2>1. Ends(p, Created(-1))
    BY <1>1, <1>3 DEF Check, Ends
  <2>2. Recent(posts[p].strategy, posts[p].market) \subseteq Same(posts[p])
    BY DEF Recent, Within, Same
  <2> QED
    BY <1>1, <1>3, <2>1, <2>2, FinishKeeps
<1>4. CASE /\ Admitted(CreateSignal, "secret", posts[p].key)
           /\ Recent(posts[p].strategy, posts[p].market) = {}
  <2>1. PICK new : new = [posts[p] EXCEPT !.server = "checked", !.key = ""]
    OBVIOUS
  <2>2. posts' = [posts EXCEPT ![p] = new]
    BY <1>4, <2>1 DEF Check
  <2>3. /\ new.server = "checked" /\ new.answered = posts[p].answered
        /\ new.settled = posts[p].settled /\ new.id = posts[p].id
        /\ new.response = posts[p].response
    BY <1>1, <2>1 DEF IsPost, NoPost
  <2>4. new.answered /\ ~new.settled => new.response \in GatewayResponses
    BY <1>1, <2>3 DEF Answerable, IsTrue
  <2>5. Answerable(new)
    BY <1>1, <2>3, <2>4 DEF Answerable, IsTrue
  <2>6. Answerable(new)'
    BY <2>5, SaidStays
  <2>7. panel.mine = p /\ new.settled => Tells(panel.message, new)'
    BY <1>1, <2>3, EarlyAnswer DEF Tells
  <2> QED
    BY <1>1, <2>2, <2>3, <2>6, <2>7, OneAnswer DEF HourInv
<1> QED
  BY <1>2, <1>3, <1>4

LEMMA ServerErrorKeeps ==
  ASSUME HourInv, FormInv, Grows, NEW p \in Post, ServerError(p)
  PROVE  FormInv'
<1>1. posts[p].server \in {"sent", "checked"} /\ Ends(p, Failed(500))
  BY DEF ServerError, browser, Ends
<1> QED
  BY <1>1, FinishKeeps

LEMMA InsertAnswers ==
  ASSUME HourInv, FormInv, Grows, NEW p \in Post, Insert(p)
  PROVE  FormInv'
<1> DEFINE id == Len(signals) + 1
<1>1. /\ IsPost(posts[p]) /\ Answerable(posts[p]) /\ posts[p].server = "checked"
      /\ UNCHANGED panel
  BY DEF HourInv, PostInv, FormInv, Insert, browser
<1>2. /\ posts[p].strategy \in Strategy /\ posts[p].market \in Market
      /\ Len(signals) \in Nat /\ DOMAIN signals = 1..Len(signals)
  BY <1>1 DEF IsPost, HourInv, TableInv
<1>3. panel.mine = p /\ posts[p].settled
          => panel.message.kind = "ApiError" /\ panel.message.status = 502
  BY <1>1, EarlyAnswer
<1>4. CASE Conflicts(posts[p].strategy, posts[p].market)
  <2>1. Ends(p, Failed(500))
    BY <1>1, <1>4 DEF Insert, Ends
  <2> QED
    BY <1>1, <2>1, FinishKeeps
<1>5. CASE ~Conflicts(posts[p].strategy, posts[p].market)
  <2>1. PICK new : new = [Finished(posts[p], Created(id)) EXCEPT !.id = id]
    OBVIOUS
  <2>2. /\ posts' = [posts EXCEPT ![p] = new]
        /\ signals' = Append(signals, NewSignal(posts[p].strategy, posts[p].market))
    BY <1>5, <2>1 DEF Insert
  <2>3. /\ new.server = "finished" /\ new.answered = TRUE /\ new.settled = posts[p].settled
        /\ new.id = id /\ new.strategy = posts[p].strategy /\ new.market = posts[p].market
        /\ new.response = IF posts[p].answered THEN posts[p].response ELSE Created(id)
    <3>1. DOMAIN posts[p] = DOMAIN NoPost
      BY <1>1 DEF IsPost
    <3> HIDE DEF id
    <3> QED
      BY <2>1, <3>1 DEF Finished, NoPost
  <2>4. id \in Same(new)'
    <3>1. NewSignal(posts[p].strategy, posts[p].market) \in Row
      BY <1>2 DEF NewSignal, Row, HourInv, TableInv
    <3>2. /\ NewSignal(posts[p].strategy, posts[p].market).strategy = posts[p].strategy
          /\ NewSignal(posts[p].strategy, posts[p].market).market = posts[p].market
      BY DEF NewSignal
    <3>3. id \in (DOMAIN signals)' /\ signals'[id] = NewSignal(posts[p].strategy, posts[p].market)
      BY <1>2, <2>2, <3>1 DEF HourInv, TableInv
    <3>4. PICK i : i = id
      OBVIOUS
    <3>5. i \in (DOMAIN signals)' /\ signals'[i].strategy = new.strategy
          /\ signals'[i].market = new.market
      BY <2>3, <3>2, <3>3, <3>4
    <3> HIDE DEF id
    <3>6. i \in {j \in (DOMAIN signals)' : /\ signals'[j].strategy = new.strategy
                                           /\ signals'[j].market = new.market}
      BY <3>5
    <3> QED
      BY <3>4, <3>6 DEF Same, id
  <2>5. posts[p].answered /\ ~posts[p].settled => posts[p].response \in GatewayResponses
    BY <1>1 DEF Answerable, IsTrue
  <2>6. new.id \in Same(new)'
    BY <2>3, <2>4
  <2>7. ~new.settled => IsTrue(new, new.response)'
    <3>1. CASE posts[p].answered
      BY <2>3, <2>5, <3>1 DEF IsTrue
    <3>2. CASE ~posts[p].answered
      <4>1. new.response = Created(new.id)
        BY <2>3, <3>2
      <4> QED
        BY <2>3, <2>6, <4>1 DEF IsTrue
    <3> QED
      BY <3>1, <3>2, <1>1 DEF Answerable
  <2>8. new.id \in (DOMAIN signals)'
    BY <2>6 DEF Same
  <2>9. Answerable(new)'
    BY <1>1, <2>3, <2>7, <2>8 DEF Answerable
  <2>10. panel.mine = p /\ new.settled => Tells(panel.message, new)'
    BY <1>1, <1>3, <2>3 DEF Tells
  <2> QED
    BY <1>1, <2>2, <2>3, <2>9, <2>10, OneAnswer DEF HourInv
<1> QED
  BY <1>4, <1>5

LEMMA GatewayKeeps ==
  ASSUME HourInv, FormInv, Grows, NEW p \in Post, GatewayError(p)
  PROVE  FormInv'
<1>1. PICK response \in GatewayResponses :
        posts' = [posts EXCEPT ![p] = [posts[p] EXCEPT !.answered = TRUE, !.response = response]]
  BY DEF GatewayError
<1>2. PICK new : new = [posts[p] EXCEPT !.answered = TRUE, !.response = response]
  OBVIOUS
<1>3. /\ IsPost(posts[p]) /\ Answerable(posts[p]) /\ posts[p].server \in {"sent", "checked"}
      /\ ~posts[p].answered /\ UNCHANGED panel
  BY DEF HourInv, PostInv, FormInv, GatewayError, browser
<1>4. /\ new.server = posts[p].server /\ new.answered = TRUE /\ new.response = response
      /\ new.settled = posts[p].settled /\ new.id = posts[p].id
  BY <1>2, <1>3 DEF IsPost, NoPost
<1>5. ~new.settled
  BY <1>3, <1>4 DEF Answerable
<1>6. Answerable(new)
  BY <1>3, <1>4 DEF Answerable, IsTrue
<1>7. Answerable(new)'
  BY <1>6, SaidStays
<1>8. posts' = [posts EXCEPT ![p] = new]
  BY <1>1, <1>2
<1> QED
  BY <1>3, <1>4, <1>5, <1>7, <1>8, OneAnswer DEF HourInv

LEMMA FormStep ==
  ASSUME HourInv, FormInv, [Next]_vars
  PROVE  FormInv'
<1>1. Grows
  BY TableGrows
<1>2. CASE Table \/ UNCHANGED vars \/ (\E q \in Queries : Poll(q))
           \/ (\E k \in Keys : Receive(k) \/ FetchFailed(k))
  <2>1. UNCHANGED <<posts, panel>>
    BY <1>2 DEF Table, vars, browser, BotInsert, Mark, Advance, Poll, Receive, FetchFailed
  <2> QED
    BY <1>1, <2>1, FormStays
<1>3. CASE TypeSearch \/ \E m \in Market : SelectMarket(m)
  <2>1. PICK m \in Market \cup {NoMarket} : panel' = [panel EXCEPT !.market = m]
    BY <1>3 DEF TypeSearch, SelectMarket
  <2>2. /\ DOMAIN panel' = DOMAIN panel /\ panel'.mine = panel.mine
        /\ panel'.message = panel.message /\ panel'.market = m
    BY <2>1 DEF FormInv, PanelInv
  <2>3. UNCHANGED posts
    BY <1>3 DEF TypeSearch, SelectMarket
  <2> QED
    BY <1>1, <2>2, <2>3, FormStays
<1>4. CASE SubmitBadScore
  <2>1. panel' = [panel EXCEPT !.mine = 0, !.message = [kind |-> "bad score"]]
        /\ UNCHANGED <<posts, signals>>
    BY <1>4 DEF SubmitBadScore
  <2>2. DOMAIN panel' = DOMAIN panel /\ panel'.mine = 0 /\ panel'.market = panel.market
    BY <2>1 DEF FormInv, PanelInv
  <2>3. PanelInv'
    BY <2>2 DEF FormInv, PanelInv
  <2>4. \A p \in Post : Answerable(posts[p])'
    BY <2>1 DEF FormInv, Answerable, IsTrue, Same
  <2> QED
    BY <2>3, <2>4 DEF FormInv
<1> QED
  BY <1>1, <1>2, <1>3, <1>4, SubmitKeeps, SettleKeeps, NavigateKeeps, CheckKeeps, InsertAnswers,
     ServerErrorKeeps, GatewayKeeps DEF Next, Form, Server, Pages

(* The two processes, the form and the pages together. *)
THEOREM PagesInvariance == Spec => [](HourInv /\ FormInv /\ PageInv)
<1>1. Init => HourInv /\ FormInv /\ PageInv
  BY TableInit, FormInit, PageInit
<1>2. HourInv /\ FormInv /\ PageInv /\ [Next]_vars => HourInv' /\ FormInv' /\ PageInv'
  BY ConstantAssumption, TableStep, PostStep, FormStep, PageStep DEF HourInv
<1> QED
  BY <1>1, <1>2, PTL DEF Spec

(* What the form says became of a submission did become of it, whichever   *)
(* of the server and the gateway answers first and whoever else inserts    *)
(* (ManualSignalPanel, through customFetch).                               *)
THEOREM PanelIsTrue == Spec => []PanelTellsTheTruth
<1>1. ASSUME FormInv PROVE PanelTellsTheTruth
  <2> SUFFICES ASSUME panel.mine # 0, posts[panel.mine].settled
               PROVE  LET post == posts[panel.mine]
                          message == panel.message
                      IN  /\ message.kind = "created" => message.id \in Same(post)
                                                         /\ message.id = post.id
                          /\ message.kind = "deduped" => Same(post) # {} /\ post.id = 0
                          /\ (message.kind \notin {"created", "deduped"} /\ message.status # 502)
                                => (post.id = 0 /\ message.reason = {"error"})
    BY DEF PanelTellsTheTruth, Same
  <2>1. Tells(panel.message, posts[panel.mine])
    BY <1>1 DEF FormInv, PanelInv
  <2> QED
    BY <2>1 DEF Tells
<1> QED
  BY <1>1, PagesInvariance, PTL

(* The types of the pages' variables. *)
THEOREM TypeCorrect == Spec => []TypeOK
<1>1. ASSUME HourInv, FormInv, PageInv PROVE TypeOK
  <2>1. ASSUME NEW k \in Keys
        PROVE  /\ cache[k] = NoData \/ cache[k] \subseteq DOMAIN signals
               /\ fetch[k] \in Queries \cup {NoQuery}
    <3>1. PICK f \in Filters : k = Key(ListQuery(f))
      BY DEF Keys, Queries
    <3> QED
      BY <1>1, <3>1 DEF PageInv, Under
  <2>2. ASSUME NEW p \in Post
        PROVE  /\ posts[p].server \in {"none", "sent", "checked", "finished"}
               /\ posts[p].server \in {"sent", "checked"} =>
                     posts[p].strategy \in Strategy /\ posts[p].market \in Market
               /\ posts[p].settled => posts[p].answered
               /\ posts[p].id \in {0} \cup DOMAIN signals
    BY <1>1 DEF FormInv, Answerable, HourInv, PostInv, IsPost
  <2>3. signals \in Seq(Row) /\ now \in Nat
    BY <1>1 DEF HourInv, TableInv
  <2>4. panel.market \in Market \cup {NoMarket} /\ panel.mine \in {0} \cup Post
    BY <1>1 DEF FormInv, PanelInv
  <2>5. view \in Destinations
    BY <1>1 DEF PageInv
  <2> QED
    BY <2>1, <2>2, <2>3, <2>4, <2>5 DEF TypeOK
<1> QED
  BY <1>1, PagesInvariance, PTL

(* An answer of the server's own, as customFetch sees it. *)
FromServer(response) ==
    /\ response.status \in {201, 401, 500} /\ response.media = "json"
    /\ response.text = "object" /\ response.emptyLength = FALSE

LEMMA ServerAnswerRead ==
  ASSUME NEW response,
         FromServer(response), response.body \in {"stream", "undefined"}
  PROVE  /\ response.status = 201 =>
                customFetch(response, "auto", "POST") = Data(Parsed("object"))
         /\ response.status # 201 =>
                customFetch(response, "auto", "POST") = ApiError(response, Parsed("object"))
<1>1. IsOk(response) <=> response.status = 201
  BY DEF IsOk, FromServer
<1>2. ~hasNoBody(response, "POST")
  BY DEF hasNoBody, NO_BODY_STATUS, FromServer
<1>3. IsJson(stripBom(response))
  BY DEF IsJson, stripBom, JsonText, FromServer
<1>4. parseJsonBody(response) = Data(Parsed("object"))
  BY <1>3 DEF parseJsonBody, IsBlank, FromServer
<1>5. parseSuccessBody(response, "auto", "POST") = parseJsonBody(response)
  BY <1>2 DEF parseSuccessBody, inferResponseType, isJsonMediaType, FromServer
<1>6. parseErrorBody(response, "POST") = Parsed("object")
  BY <1>2, <1>3 DEF parseErrorBody, isJsonMediaType, isTextMediaType, IsBlank,
                        FromServer
<1> QED
  BY <1>1, <1>4, <1>5, <1>6 DEF customFetch

(* The text of an answer that holds nothing. *)
Empty == ""

LEMMA Blanks == IsBlank(Empty) /\ ~IsBlank("plain") /\ ~IsBlank("broken") /\ ~IsBlank("object")
<1>1. IsBlank(Empty)
  BY Zenon DEF IsBlank, Empty
<1>2. ~IsBlank("plain")
  BY Zenon DEF IsBlank
<1>3. ~IsBlank("broken")
  BY Zenon DEF IsBlank
<1>4. ~IsBlank("object")
  BY Zenon DEF IsBlank
<1> QED
  BY <1>1, <1>2, <1>3, <1>4

(* An answer of the gateway, as customFetch sees it. *)
FromGateway(response) ==
    /\ response.status = 502 /\ "text" \in DOMAIN response
    /\ \/ (response.text = Empty /\ response.emptyLength = TRUE)
       \/ (response.text = "plain" /\ response.media = "text" /\ response.emptyLength = FALSE)
       \/ (response.text = "broken" /\ response.media = "json" /\ response.emptyLength = FALSE)

(* What stands in front of the server says nothing, a text, or a text that *)
(* claims to be JSON and is none.                                          *)
LEMMA GatewayAnswerRead ==
  ASSUME NEW response, FromGateway(response), response.body \in {"stream", "undefined"}
  PROVE  customFetch(response, "auto", "POST") =
            ApiError(response, IF response.text = Empty THEN Nothing ELSE Raw(response.text))
<1> USE DEF FromGateway
<1>1. ~IsOk(response)
  BY DEF IsOk
<1>2. hasNoBody(response, "POST") <=> response.text = Empty
  BY Blanks DEF hasNoBody, NO_BODY_STATUS
<1>3. ~IsJson(stripBom(response)) \/ response.text = Empty
  <2>1. CASE response.text \in {"plain", "broken"}
    <3>1. IsJson(stripBom(response)) => stripBom(response).text \in JsonText
      BY DEF IsJson
    <3>2. stripBom(response).text = response.text
      BY DEF stripBom
    <3> QED
      BY <2>1, <3>1, <3>2 DEF JsonText
  <2> QED
    BY <2>1
<1>4. parseErrorBody(response, "POST") =
          IF response.text = Empty THEN Nothing ELSE Raw(response.text)
  BY <1>2, <1>3 DEF parseErrorBody, isJsonMediaType, isTextMediaType, IsBlank
<1> QED
  BY <1>1, <1>4 DEF customFetch

Fields6 == {"status", "media", "emptyLength", "body", "text", "bom"}

LEMMA AnswerKinds ==
  ASSUME NEW post, NEW response, IsTrue(post, response)
  PROVE  /\ FromServer(response) \/ FromGateway(response)
         /\ response.body = "stream" /\ Fields6 \subseteq DOMAIN response
<1>1. CASE response = [Json(502, "plain") EXCEPT !.media = "text"]
  BY <1>1 DEF FromGateway, Json, Fields6
<1>2. CASE response = [Json(502, "broken") EXCEPT !.bom = TRUE]
  BY <1>2 DEF FromGateway, Json, Fields6
<1>3. CASE response = [Json(502, "") EXCEPT !.media = None, !.emptyLength = TRUE]
  BY <1>3 DEF FromGateway, Json, Fields6, Empty
<1>4. CASE response = Failed(401)
  BY <1>4 DEF FromServer, Failed, Json, Fields6
<1>5. CASE response = Failed(500)
  BY <1>5 DEF FromServer, Failed, Json, Fields6
<1>6. ASSUME NEW id, response = Created(id)
      PROVE  FromServer(response) /\ response.body = "stream" /\ Fields6 \subseteq DOMAIN response
  BY <1>6 DEF FromServer, Created, Json, Fields6
<1>7. \/ response = [Json(502, "plain") EXCEPT !.media = "text"]
      \/ response = [Json(502, "broken") EXCEPT !.bom = TRUE]
      \/ response = [Json(502, "") EXCEPT !.media = None, !.emptyLength = TRUE]
      \/ response = Failed(401) \/ response = Failed(500)
      \/ response = Created(-1) \/ response = Created(post.id)
  BY DEF IsTrue, GatewayResponses
<1> QED
  BY <1>1, <1>2, <1>3, <1>4, <1>5, <1>6, <1>7

(* The answer to the form reaches it as the success or the refusal it was, *)
(* in every runtime alike (customFetch, hasNoBody, stripBom).              *)
THEOREM AnswersReach == Spec => []AnswersAreKept
<1>1. ASSUME NEW response, FromServer(response), response.body \in {"stream", "undefined"}
      PROVE  customFetch(response, "auto", "POST") =
                IF response.status = 201 THEN Data(Parsed("object"))
                ELSE ApiError(response, Parsed("object"))
  BY <1>1, ServerAnswerRead
<1>2. ASSUME NEW response, FromGateway(response), response.body \in {"stream", "undefined"}
      PROVE  customFetch(response, "auto", "POST") =
                ApiError(response, IF response.text = Empty THEN Nothing ELSE Raw(response.text))
  BY <1>2, GatewayAnswerRead
<1>3. ASSUME FormInv PROVE AnswersAreKept
  <2> SUFFICES ASSUME NEW response \in Answered
               PROVE  LET result == customFetch(response, "auto", "POST")
                      IN  /\ customFetch(InReactNative(response), "auto", "POST") = result
                          /\ customFetch(stripBom(response), "auto", "POST") = result
                          /\ ~IsOk(response) =>
                                /\ result.kind = "ApiError" /\ result.status = response.status
                                /\ ~IsBlank(response.text) => result.data.text = response.text
                                /\ result.data.as = "parsed" => response.text \in JsonText
    BY DEF AnswersAreKept, DecodeIsPortable, RefusalIsKept
  <2>1. PICK p \in Post : /\ response = posts[p].response
                          /\ posts[p].answered /\ ~posts[p].settled
    BY DEF Answered
  <2>2. IsTrue(posts[p], response)
    BY <1>3, <2>1 DEF FormInv, Answerable
  <2>3. /\ FromServer(response) \/ FromGateway(response)
        /\ response.body = "stream" /\ Fields6 \subseteq DOMAIN response
    BY <2>2, AnswerKinds
  <2>4. PICK native : native = InReactNative(response)
    OBVIOUS
  <2>5. PICK plain : plain = stripBom(response)
    OBVIOUS
  <2>6. /\ native.status = response.status /\ native.media = response.media
        /\ native.text = response.text /\ native.emptyLength = response.emptyLength
        /\ native.body = "undefined" /\ "text" \in DOMAIN native
    BY <2>3, <2>4 DEF InReactNative, Fields6
  <2>7. /\ plain.status = response.status /\ plain.media = response.media
        /\ plain.text = response.text /\ plain.emptyLength = response.emptyLength
        /\ plain.body = "stream" /\ "text" \in DOMAIN plain
    BY <2>3, <2>5 DEF stripBom, Fields6
  <2>8. CASE FromServer(response)
    <3>1. FromServer(native) /\ FromServer(plain)
      BY <2>6, <2>7, <2>8 DEF FromServer
    <3>2. /\ customFetch(response, "auto", "POST") =
                IF response.status = 201 THEN Data(Parsed("object"))
                ELSE ApiError(response, Parsed("object"))
          /\ customFetch(native, "auto", "POST") =
                IF response.status = 201 THEN Data(Parsed("object"))
                ELSE ApiError(response, Parsed("object"))
          /\ customFetch(plain, "auto", "POST") =
                IF response.status = 201 THEN Data(Parsed("object"))
                ELSE ApiError(response, Parsed("object"))
      BY <1>1, <2>3, <2>6, <2>7, <2>8, <3>1 DEF ApiError
    <3>3. ~IsOk(response) => response.status # 201
      BY DEF IsOk
    <3>4. response.text = "object"
      BY <2>8 DEF FromServer
    <3> QED
      BY <2>4, <2>5, <3>2, <3>3, <3>4 DEF ApiError, Parsed, JsonText
  <2>9. CASE FromGateway(response)
    <3> DEFINE read == ApiError(response, IF response.text = Empty THEN Nothing ELSE Raw(response.text))
    <3>1. FromGateway(native) /\ FromGateway(plain)
      BY <2>6, <2>7, <2>9 DEF FromGateway
    <3>2. /\ customFetch(response, "auto", "POST") = read
          /\ customFetch(native, "auto", "POST") = read
          /\ customFetch(plain, "auto", "POST") = read
      BY <1>2, <2>3, <2>6, <2>7, <2>9, <3>1 DEF ApiError
    <3>3. /\ read.kind = "ApiError" /\ read.status = response.status
          /\ ~IsBlank(response.text) => read.data.text = response.text
          /\ read.data.as # "parsed"
      BY Blanks DEF ApiError, Nothing, Raw
    <3> HIDE DEF read
    <3> QED
      BY <2>4, <2>5, <3>2, <3>3
  <2> QED
    BY <2>3, <2>8, <2>9
<1> QED
  BY <1>3, PagesInvariance, PTL

-----------------------------------------------------------------------------
(***************************************************************************)
(* What the bot bets, for every bankroll, cap and form.  Money is cut to   *)
(* the cent, never rounded up.                                             *)
(***************************************************************************)
LEMMA Cut ==
  /\ \A x \in Nat : x \div 1000 \in Nat /\ (x \div 1000) * 1000 <= x
                    /\ x < (x \div 1000) * 1000 + 1000
  /\ \A x, y \in Nat : x <= y => x \div 1000 <= y \div 1000
OBVIOUS

(* Products of naturals: a solver needs them said once. *)
LEMMA Products ==
  ASSUME NEW b \in Nat, NEW x \in Nat, NEW y \in Nat
  PROVE  b * x \in Nat /\ (x <= y => b * x <= b * y)
OBVIOUS

(* A fraction of the form and the cap both bound the bet, and the cap is   *)
(* the bet of a form without a fraction.                                   *)
LEMMA SizeBounds ==
  ASSUME NEW bankroll \in Nat, NEW pct \in Nat, NEW kelly \in Nat
  PROVE  LET size == SizeFromSignal(bankroll, pct, kelly)
         IN  /\ size \in Nat /\ size * 1000 <= bankroll * pct
             /\ size = 0 \/ size >= MIN_ORDER_USDC
             /\ kelly # NoKelly => size * 1000 <= bankroll * kelly
<1>1. bankroll * pct \in Nat /\ bankroll * kelly \in Nat
  BY Products
<1>2. /\ Cents(bankroll, pct) \in Nat /\ Cents(bankroll, pct) * 1000 <= bankroll * pct
      /\ Cents(bankroll, kelly) \in Nat /\ Cents(bankroll, kelly) * 1000 <= bankroll * kelly
  BY <1>1, Cut DEF Cents
<1>3. SizeFromSignal(bankroll, pct, kelly) =
        LET size == IF kelly > 0 /\ Cents(bankroll, kelly) < Cents(bankroll, pct)
                    THEN Cents(bankroll, kelly) ELSE Cents(bankroll, pct)
        IN  IF size < 100 THEN 0 ELSE size
  BY DEF SizeFromSignal, MIN_ORDER_USDC
<1> DEFINE cap == Cents(bankroll, pct)
           raw == Cents(bankroll, kelly)
           most == bankroll * pct
           asked == bankroll * kelly
<1>4. cap \in Nat /\ raw \in Nat /\ cap * 1000 <= most /\ raw * 1000 <= asked
      /\ most \in Nat /\ asked \in Nat
  BY <1>1, <1>2
<1>5. SizeFromSignal(bankroll, pct, kelly) =
        LET size == IF kelly > 0 /\ raw < cap THEN raw ELSE cap
        IN  IF size < 100 THEN 0 ELSE size
  BY <1>3
<1> HIDE DEF cap, raw, most, asked
<1>6. LET size == SizeFromSignal(bankroll, pct, kelly)
      IN  /\ size \in Nat /\ size * 1000 <= most
          /\ size = 0 \/ size >= 100
          /\ kelly # 0 => size * 1000 <= asked
  BY <1>4, <1>5
<1> QED
  BY <1>6 DEF most, asked, NoKelly, MIN_ORDER_USDC

LEMMA SizeGrows ==
  ASSUME NEW bankroll \in Nat, NEW pct \in Nat, NEW kelly \in Nat, NEW less \in Nat,
         kelly = NoKelly \/ less \in 1..kelly
  PROVE  SizeFromSignal(bankroll, pct, less) <= SizeFromSignal(bankroll, pct, kelly)
<1> DEFINE cap == Cents(bankroll, pct)
           raw == Cents(bankroll, kelly)
           low == Cents(bankroll, less)
<1>1. bankroll * pct \in Nat /\ bankroll * kelly \in Nat /\ bankroll * less \in Nat
  BY Products
<1>2. cap \in Nat /\ raw \in Nat /\ low \in Nat
  BY <1>1, Cut DEF Cents
<1>3. kelly # 0 => low <= raw
  <2>1. kelly # 0 => bankroll * less <= bankroll * kelly
    BY Products DEF NoKelly
  <2> QED
    BY <1>1, <2>1, Cut DEF Cents
<1>4. SizeFromSignal(bankroll, pct, kelly) =
        LET size == IF kelly > 0 /\ raw < cap THEN raw ELSE cap
        IN  IF size < 100 THEN 0 ELSE size
  BY DEF SizeFromSignal, MIN_ORDER_USDC
<1>5. SizeFromSignal(bankroll, pct, less) =
        LET size == IF less > 0 /\ low < cap THEN low ELSE cap
        IN  IF size < 100 THEN 0 ELSE size
  BY DEF SizeFromSignal, MIN_ORDER_USDC
<1> HIDE DEF cap, raw, low
<1>6. kelly = 0 \/ (less > 0 /\ kelly > 0)
  BY DEF NoKelly
<1> QED
  BY <1>2, <1>3, <1>4, <1>5, <1>6

(* The fraction of a form that is let through. *)
LEMMA FormSent ==
  ASSUME NEW form \in [score : Int, kelly : Int], IsSubmitted(form), handleSubmit(form).mutate
  PROVE  /\ handleSubmit(form).signalScore >= 75
         /\ handleSubmit(form).kelly \in Nat
         /\ form.kelly = Blank <=> handleSubmit(form).kelly = NoKelly
         /\ form.kelly # Blank => handleSubmit(form).kelly = form.kelly
<1>1. form.score \in Int /\ form.kelly \in Int /\ form.score >= 75
  BY DEF handleSubmit
<1>2. form.kelly = -1 \/ form.kelly \in 1..250
  BY DEF IsSubmitted, Fits, Blank
<1>3. handleSubmit(form) = [mutate |-> TRUE, signalScore |-> form.score,
                            kelly |-> IF form.kelly = -1 THEN 0 ELSE form.kelly]
  BY <1>1 DEF handleSubmit, Blank, NoKelly
<1> QED
  BY <1>1, <1>2, <1>3 DEF Blank, NoKelly

(* The bot never bets more on a manual signal than the fraction in the     *)
(* form, nor more than the cap; it bets nothing below the floor, and no    *)
(* less for a larger fraction: for every bankroll, cap, score and fraction *)
(* (handleSubmit of the form, _size_from_signal of the bot).               *)
THEOREM BetFollowsForm ==
  ASSUME NEW bankroll \in Nat, NEW pct \in Nat,
         NEW form \in [score : Int, kelly : Int], IsSubmitted(form), handleSubmit(form).mutate,
         NEW other \in [score : Int, kelly : Int], IsSubmitted(other), handleSubmit(other).mutate
  PROVE  LET Size(f) == SizeFromSignal(bankroll, pct, handleSubmit(f).kelly)
         IN  /\ ~IsRefused(handleSubmit(form))
             /\ Size(form) * 1000 <= bankroll * pct
             /\ Size(form) = 0 \/ Size(form) >= MIN_ORDER_USDC
             /\ form.kelly # Blank => Size(form) * 1000 <= bankroll * form.kelly
             /\ form.kelly = Blank \/ other.kelly \in 1..form.kelly
                     => Size(other) <= Size(form)
<1> DEFINE kelly == handleSubmit(form).kelly
           less == handleSubmit(other).kelly
<1>1. /\ handleSubmit(form).signalScore >= 75 /\ kelly \in Nat
      /\ form.kelly = Blank <=> kelly = NoKelly
      /\ form.kelly # Blank => kelly = form.kelly
  BY FormSent
<1>2. /\ less \in Nat /\ (other.kelly = Blank <=> less = NoKelly)
      /\ other.kelly # Blank => less = other.kelly
  BY FormSent
<1>3. ~IsRefused(handleSubmit(form))
  <2>1. handleSubmit(form).signalScore \in Int
    BY DEF handleSubmit
  <2> QED
    BY <1>1, <2>1 DEF IsRefused
<1> HIDE DEF kelly, less
<1>4. form.kelly = Blank \/ other.kelly \in 1..form.kelly => kelly = NoKelly \/ less \in 1..kelly
  BY <1>1, <1>2 DEF Blank
<1>5. form.kelly = Blank \/ other.kelly \in 1..form.kelly
        => SizeFromSignal(bankroll, pct, less) <= SizeFromSignal(bankroll, pct, kelly)
  BY <1>1, <1>2, <1>4, SizeGrows
<1>6. /\ SizeFromSignal(bankroll, pct, kelly) * 1000 <= bankroll * pct
      /\ SizeFromSignal(bankroll, pct, kelly) = 0
            \/ SizeFromSignal(bankroll, pct, kelly) >= MIN_ORDER_USDC
      /\ kelly # NoKelly =>
            SizeFromSignal(bankroll, pct, kelly) * 1000 <= bankroll * kelly
  <2>1. kelly \in Nat
    BY <1>1
  <2> QED
    BY <2>1, SizeBounds
<1>7. form.kelly # Blank => SizeFromSignal(bankroll, pct, kelly) * 1000 <= bankroll * form.kelly
  BY <1>1, <1>6
<1> QED
  BY <1>3, <1>5, <1>6, <1>7 DEF kelly, less

(* The row that two saves of the form of a cap leave behind. *)
WholePercent(row) == row = Absent \/ \E percent \in 1..100 : row = 10 * percent

LEMMA PctSaved ==
  ASSUME NEW first \in Int, NEW second \in Int
  PROVE  WholePercent(SavedPct(SavedPct(Absent, first), second))
<1> USE DEF WholePercent
<1>1. ASSUME NEW row, NEW entry \in Int
      PROVE  SavedPct(row, entry) = row \/ (entry \in 1..100 /\ SavedPct(row, entry) = 10 * entry)
  <2>1. CASE Fits(entry, 1, 100) /\ entry > 0
    <3>1. entry \in 1..100
      BY <2>1 DEF Fits, Blank
    <3>2. SavedPct(row, entry) = 10 * entry
      BY <2>1 DEF SavedPct
    <3> QED
      BY <3>1, <3>2
  <2>2. CASE ~(Fits(entry, 1, 100) /\ entry > 0)
    BY <2>2 DEF SavedPct
  <2> QED
    BY <2>1, <2>2
<1>2. CASE second \in 1..100 /\ SavedPct(SavedPct(Absent, first), second) = 10 * second
  BY <1>2
<1>3. CASE SavedPct(SavedPct(Absent, first), second) = SavedPct(Absent, first)
  <2>1. CASE SavedPct(Absent, first) = Absent
    BY <1>3, <2>1
  <2>2. CASE first \in 1..100 /\ SavedPct(Absent, first) = 10 * first
    BY <1>3, <2>2
  <2> QED
    BY <1>1, <2>1, <2>2
<1> QED
  BY <1>1, <1>2, <1>3

(* The cap the bot keeps to is the one the console shows, and to save it   *)
(* as it is shown changes nothing.                                         *)
LEMMA CapRead ==
  ASSUME NEW pctRow,
         WholePercent(pctRow),
         NEW default \in {DEFAULT_POSITION_PCT, DEFAULT_PORTFOLIO_PCT}
  PROVE  /\ RiskPct(pctRow, default) = BotPct(pctRow, default)
         /\ RiskPct(pctRow, default) \in 1..1000
         /\ RiskPct(SavedPct(pctRow, FilledPercent(RiskPct(pctRow, default))), default)
                = RiskPct(pctRow, default)
<1> USE DEF WholePercent
<1>1. default \in {100, 330}
  BY DEF DEFAULT_POSITION_PCT, DEFAULT_PORTFOLIO_PCT
<1>2. CASE pctRow = Absent
  <2>1. RiskPct(pctRow, default) = default /\ BotPct(pctRow, default) = default
    BY <1>2 DEF RiskPct, BotPct, IsNumber, Absent
  <2>2. FilledPercent(default) \in 1..100 /\ 10 * FilledPercent(default) = default
    BY <1>1 DEF FilledPercent
  <2>3. SavedPct(pctRow, FilledPercent(default)) = default
    BY <2>2 DEF SavedPct, Fits
  <2>4. RiskPct(default, default) = default
    BY DEF RiskPct
  <2> QED
    BY <1>1, <2>1, <2>3, <2>4
<1>3. ASSUME NEW percent \in 1..100, pctRow = 10 * percent
      PROVE  /\ RiskPct(pctRow, default) = BotPct(pctRow, default)
             /\ RiskPct(pctRow, default) \in 1..1000
             /\ RiskPct(SavedPct(pctRow, FilledPercent(RiskPct(pctRow, default))), default)
                    = RiskPct(pctRow, default)
  <2>0. pctRow \in 1..1000
    BY <1>3
  <2>1. RiskPct(pctRow, default) = pctRow /\ BotPct(pctRow, default) = pctRow
    BY <2>0 DEF RiskPct, BotPct, IsNumber
  <2>2. FilledPercent(pctRow) = percent
    BY <1>3 DEF FilledPercent
  <2>3. SavedPct(pctRow, percent) = pctRow
    BY <1>3 DEF SavedPct, Fits
  <2> QED
    BY <2>0, <2>1, <2>2, <2>3
<1> QED
  BY <1>2, <1>3

(* The bankroll the bot bets with is the one the console shows. *)
LEMMA BankrollRead ==
  ASSUME NEW row \in Nat \cup {Absent}, NEW env \in Nat
  PROVE  /\ parseNumeric(PortfolioBankroll(row, env)) = BotBankroll(row, env)
         /\ BotBankroll(row, env) \in Nat
BY DEF parseNumeric, PortfolioBankroll, BotBankroll, IsNumber, Absent, Garbled

(* The bet on a signal without a fraction, and the cap shown: the bet is   *)
(* cut to the cent and the cap is rounded.                                 *)
LEMMA BetIsCap ==
  ASSUME NEW bankroll \in Nat, NEW pct \in Nat
  PROVE  LET shown == MaxPerMarket(bankroll, pct)
             bet == SizeFromSignal(bankroll, pct, NoKelly)
         IN  bet \in {shown - 1, shown} \/ (bet = 0 /\ shown <= MIN_ORDER_USDC)
<1> DEFINE most == bankroll * pct
           cap == most \div 1000
           shown == (most + 500) \div 1000
<1>1. most \in Nat
  BY Products
<1>2. /\ MaxPerMarket(bankroll, pct) = shown
      /\ SizeFromSignal(bankroll, pct, NoKelly) = IF cap < 100 THEN 0 ELSE cap
  BY DEF MaxPerMarket, SizeFromSignal, Cents, NoKelly, MIN_ORDER_USDC
<1> HIDE DEF most
<1>3. cap \in {shown - 1, shown} /\ cap \in Nat /\ shown \in Nat
  BY <1>1
<1> HIDE DEF cap, shown
<1> QED
  BY <1>2, <1>3 DEF MIN_ORDER_USDC

(* A share in thousandths is 1000 or more when the part is the whole or    *)
(* more.                                                                   *)
LEMMA FullShare ==
  ASSUME NEW part \in Nat, NEW whole \in Nat \ {0}
  PROVE  (1000 * part) \div whole >= 1000 <=> part >= whole
<1> DEFINE q == (1000 * part) \div whole
<1>1. q \in Int /\ q * whole <= 1000 * part /\ 1000 * part < q * whole + whole
  OBVIOUS
<1> HIDE DEF q
<1>2. ASSUME q >= 1000 PROVE part >= whole
  <2>1. 1000 * whole <= q * whole
    BY <1>1, <1>2
  <2> QED
    BY <1>1, <2>1
<1>3. ASSUME part >= whole PROVE q >= 1000
  <2> SUFFICES ASSUME q <= 999 PROVE FALSE
    BY <1>1
  <2>1. q * whole <= 999 * whole
    BY <1>1
  <2> QED
    BY <1>1, <1>3, <2>1
<1> QED
  BY <1>2, <1>3 DEF q

(* The summary of the portfolio: what is free is part of the bankroll, and *)
(* nothing is free exactly when all of it is at risk.                      *)
LEMMA SummaryAdds ==
  ASSUME NEW bankroll \in Nat, NEW atRisk \in Nat
  PROVE  LET summary == PortfolioSummary(bankroll, atRisk)
         IN  /\ summary.available \in 0..bankroll
             /\ summary.available + atRisk >= bankroll
             /\ bankroll > 0 => (summary.available = 0 <=> summary.deployedPct >= 1000)
<1>1. PortfolioSummary(bankroll, atRisk).available =
          IF bankroll > atRisk THEN bankroll - atRisk ELSE 0
  BY DEF PortfolioSummary
<1>2. bankroll > 0 => PortfolioSummary(bankroll, atRisk).deployedPct = (1000 * atRisk) \div bankroll
  BY DEF PortfolioSummary
<1>3. bankroll > 0 => ((1000 * atRisk) \div bankroll >= 1000 <=> atRisk >= bankroll)
  BY FullShare
<1> QED
  BY <1>1, <1>2, <1>3

(* The bankroll and the caps the bot bets with are those the console       *)
(* shows, after any two saves of each form, whatever was typed into it and *)
(* whatever the environment of the bot says; a save of what is shown       *)
(* changes nothing; and what is free is part of the bankroll (portfolio.ts *)
(* and config.ts, get_bankroll, get_max_position_pct).                     *)
THEOREM CapsAreShown ==
  ASSUME NEW first \in Int, NEW second \in Int, first >= -1, second >= -1,
         NEW env \in Nat, NEW atRisk \in Nat,
         NEW bankrollRow,
         bankrollRow = SavedBankroll(SavedBankroll(Absent, 1000 * first), 1000 * second),
         NEW pctRow,
         pctRow = SavedPct(SavedPct(Absent, first), second)
  PROVE  LET bankroll == parseNumeric(PortfolioBankroll(bankrollRow, env))
             pct == RiskPct(pctRow, DEFAULT_POSITION_PCT)
             shown == MaxPerMarket(bankroll, pct)
             bet == SizeFromSignal(BotBankroll(bankrollRow, env),
                                   BotPct(pctRow, DEFAULT_POSITION_PCT), NoKelly)
             summary == PortfolioSummary(bankroll, atRisk)
         IN  /\ bankroll \in Nat /\ bankroll = BotBankroll(bankrollRow, env)
             /\ \A default \in {DEFAULT_POSITION_PCT, DEFAULT_PORTFOLIO_PCT} :
                 /\ RiskPct(pctRow, default) = BotPct(pctRow, default)
                 /\ RiskPct(SavedPct(pctRow, FilledPercent(RiskPct(pctRow, default))), default)
                         = RiskPct(pctRow, default)
             /\ bet \in {shown - 1, shown} \/ (bet = 0 /\ shown <= MIN_ORDER_USDC)
             /\ summary.available \in 0..bankroll
             /\ summary.available + atRisk >= bankroll
             /\ bankroll > 0 => (summary.available = 0 <=> summary.deployedPct >= 1000)
<1>1. bankrollRow \in Nat \cup {Absent}
  BY DEF SavedBankroll, Absent
<1>2. WholePercent(pctRow)
  BY PctSaved
<1>3. PICK bankroll : bankroll = BotBankroll(bankrollRow, env)
  OBVIOUS
<1>4. bankroll \in Nat /\ parseNumeric(PortfolioBankroll(bankrollRow, env)) = bankroll
  <2>1. \A row \in Nat \cup {Absent} :
           /\ parseNumeric(PortfolioBankroll(row, env)) = BotBankroll(row, env)
           /\ BotBankroll(row, env) \in Nat
    BY BankrollRead
  <2> QED
    BY <1>1, <1>3, <2>1
<1>5. PICK pct : pct = BotPct(pctRow, DEFAULT_POSITION_PCT)
  OBVIOUS
<1>6. ASSUME NEW default \in {DEFAULT_POSITION_PCT, DEFAULT_PORTFOLIO_PCT}
      PROVE  /\ RiskPct(pctRow, default) = BotPct(pctRow, default)
             /\ RiskPct(pctRow, default) \in 1..1000
             /\ RiskPct(SavedPct(pctRow, FilledPercent(RiskPct(pctRow, default))), default)
                    = RiskPct(pctRow, default)
  BY <1>2, CapRead
<1>7. pct \in Nat /\ RiskPct(pctRow, DEFAULT_POSITION_PCT) = pct
  BY <1>5, <1>6
<1>8. LET shown == MaxPerMarket(bankroll, pct)
           bet == SizeFromSignal(bankroll, pct, NoKelly)
       IN  bet \in {shown - 1, shown} \/ (bet = 0 /\ shown <= MIN_ORDER_USDC)
  BY <1>4, <1>7, BetIsCap
<1>9. LET summary == PortfolioSummary(bankroll, atRisk)
       IN  /\ summary.available \in 0..bankroll
           /\ summary.available + atRisk >= bankroll
           /\ bankroll > 0 => (summary.available = 0 <=> summary.deployedPct >= 1000)
  BY <1>4, SummaryAdds
<1> QED
  BY <1>3, <1>4, <1>5, <1>6, <1>7, <1>8, <1>9

(* What the run evaluates on samples. *)
THEOREM BetShown == Spec => []BetIsAsShown
<1>1. SizeFollowsForm
  <2>1. {0, 9999, 100000} \subseteq Nat /\ {5, 100, 1000} \subseteq Nat
        /\ Forms \subseteq [score : Int, kelly : Int]
    BY DEF Forms, Blank
  <2> QED
    BY <2>1, BetFollowsForm DEF SizeFollowsForm
<1>2. CapsAreThoseShown
  <2> SUFFICES ASSUME NEW first \in Entries, NEW second \in Entries, NEW env \in {0, 25000},
                      NEW bankrollRow,
                      bankrollRow = SavedBankroll(SavedBankroll(Absent, 1000 * first), 1000 * second),
                      NEW pctRow,
                      pctRow = SavedPct(SavedPct(Absent, first), second)
               PROVE  LET bankroll == parseNumeric(PortfolioBankroll(bankrollRow, env))
                          pct == RiskPct(pctRow, DEFAULT_POSITION_PCT)
                          shown == MaxPerMarket(bankroll, pct)
                          bet == SizeFromSignal(BotBankroll(bankrollRow, env),
                                                BotPct(pctRow, DEFAULT_POSITION_PCT), NoKelly)
                      IN  /\ bankroll = BotBankroll(bankrollRow, env)
                          /\ \A default \in {DEFAULT_POSITION_PCT, DEFAULT_PORTFOLIO_PCT} :
                              /\ RiskPct(pctRow, default) = BotPct(pctRow, default)
                              /\ RiskPct(SavedPct(pctRow, FilledPercent(RiskPct(pctRow, default))),
                                         default) = RiskPct(pctRow, default)
                          /\ bet \in {shown - 1, shown} \/ (bet = 0 /\ shown <= MIN_ORDER_USDC)
                          /\ \A atRisk \in {0, bankroll, bankroll + 1} :
                              LET summary == PortfolioSummary(bankroll, atRisk)
                              IN  /\ summary.available \in 0..bankroll
                                  /\ summary.available + atRisk >= bankroll
                                  /\ bankroll > 0 =>
                                        (summary.available = 0 <=> summary.deployedPct >= 1000)
    BY DEF CapsAreThoseShown, SavedTwice
  <2>1. first \in Int /\ second \in Int /\ first >= -1 /\ second >= -1 /\ env \in Nat
    BY DEF Entries, Blank
  <2>2. parseNumeric(PortfolioBankroll(bankrollRow, env)) \in Nat
    BY <2>1, CapsAreShown
  <2>3. PICK bankroll : bankroll = parseNumeric(PortfolioBankroll(bankrollRow, env))
    OBVIOUS
  <2>4. {0, bankroll, bankroll + 1} \subseteq Nat
    BY <2>2, <2>3
  <2>5. ASSUME NEW atRisk \in {0, bankroll, bankroll + 1}
        PROVE  LET summary == PortfolioSummary(bankroll, atRisk)
               IN  /\ summary.available \in 0..bankroll
                   /\ summary.available + atRisk >= bankroll
                   /\ bankroll > 0 => (summary.available = 0 <=> summary.deployedPct >= 1000)
    BY <2>2, <2>3, <2>4, SummaryAdds
  <2>6. bankroll = BotBankroll(bankrollRow, env)
    BY <2>1, <2>3, CapsAreShown
  <2>7. \A default \in {DEFAULT_POSITION_PCT, DEFAULT_PORTFOLIO_PCT} :
          /\ RiskPct(pctRow, default) = BotPct(pctRow, default)
          /\ RiskPct(SavedPct(pctRow, FilledPercent(RiskPct(pctRow, default))), default)
                  = RiskPct(pctRow, default)
    <3>1. first \in Int /\ second \in Int
      BY <2>1
    <3>2. WholePercent(pctRow)
      BY <3>1, PctSaved
    <3> QED
      BY <3>2, CapRead
  <2>8. LET shown == MaxPerMarket(bankroll, RiskPct(pctRow, DEFAULT_POSITION_PCT))
            bet == SizeFromSignal(BotBankroll(bankrollRow, env),
                                  BotPct(pctRow, DEFAULT_POSITION_PCT), NoKelly)
        IN  bet \in {shown - 1, shown} \/ (bet = 0 /\ shown <= MIN_ORDER_USDC)
    BY <2>1, <2>3, CapsAreShown
  <2> QED
    BY <2>3, <2>5, <2>6, <2>7, <2>8
<1>3. BetIsAsShown
  BY <1>1, <1>2 DEF BetIsAsShown
<1> QED
  BY <1>3, PTL

-----------------------------------------------------------------------------
(***************************************************************************)
(* Folds over a sequence: FoldLeft chooses a function on sets of places    *)
(* that satisfies an equation.  A fold is named by its kind, the run of    *)
(* the executor with its period or the run of the statements of the        *)
(* schema, so that both are instances of one lemma.                        *)
(***************************************************************************)
Step(kind, state, item) ==
    IF kind.of = "executor" THEN CheckCycle(state, item, kind.every) ELSE run(state, item)
AfterIt(it, kind, base, seq, s) ==
    IF s = {} THEN base ELSE Step(kind, it[s \ {Max(s)}], seq[Max(s)])
Folds(it, kind, base, seq, D) == it = [s \in D |-> AfterIt(it, kind, base, seq, s)]

Folded(kind, base, seq) ==
    (CHOOSE it : Folds(it, kind, base, seq, SUBSET (DOMAIN seq)))[DOMAIN seq]

(* The equation has a solution: it is built for one number of items after  *)
(* another.                                                                *)
LEMMA FoldExists ==
  ASSUME NEW n \in Nat, NEW kind, NEW base, NEW seq
  PROVE  \E it : Folds(it, kind, base, seq, SUBSET (1..n))
<1> DEFINE S == 1..n
           A == {k \in Nat : \E it : Folds(it, kind, base, seq, UpTo(S, k))}
<1>1. IsFiniteSet(S)
  BY FS_Interval
<1> S \subseteq 0..n
  OBVIOUS
<1> HIDE DEF S
<1>2. \A T \in SUBSET S : IsFiniteSet(T) /\ Cardinality(T) \in Nat /\ (Cardinality(T) = 0 <=> T = {})
  BY <1>1, FS_Subset, FS_CardinalityType, FS_EmptySet
<1>3. 0 \in A
  <2>1. UpTo(S, 0) = {{}}
    BY <1>2, FS_EmptySet DEF UpTo
  <2>2. Folds([s \in {{}} |-> base], kind, base, seq, UpTo(S, 0))
    BY <2>1 DEF Folds, AfterIt
  <2> QED
    BY <2>2
<1>4. ASSUME NEW k \in Nat, k \in A
      PROVE  k + 1 \in A
  <2>1. PICK g : Folds(g, kind, base, seq, UpTo(S, k))
    BY <1>4
  <2> DEFINE h == [s \in UpTo(S, k + 1) |-> AfterIt(g, kind, base, seq, s)]
  <2>2. ASSUME NEW s \in UpTo(S, k + 1), s # {}
        PROVE  s \ {Max(s)} \in UpTo(S, k)
    <3> HIDE DEF h
    <3>1. Max(s) \in s
      BY <2>2, MaxExists DEF UpTo
    <3>2. Cardinality(s \ {Max(s)}) = Cardinality(s) - 1
      BY <1>2, <3>1, FS_RemoveElement DEF UpTo
    <3>3. s \in SUBSET S /\ Cardinality(s) <= k + 1 /\ Cardinality(s) \in Nat
      BY <1>2 DEF UpTo
    <3>4. PICK t : t = s \ {Max(s)}
      OBVIOUS
    <3>5. t \in SUBSET S
      BY <3>3, <3>4
    <3>6. Cardinality(t) = Cardinality(s) - 1
      BY <3>2, <3>4, Zenon
    <3>7. Cardinality(t) <= k
      BY <3>3, <3>6
    <3>8. t \in UpTo(S, k)
      BY <3>5, <3>7 DEF UpTo
    <3> QED
      BY <3>4, <3>8
  <2>3. \A s \in UpTo(S, k) : s \in UpTo(S, k + 1)
    BY <1>2 DEF UpTo
  <2>4. \A s \in UpTo(S, k) : g[s] = AfterIt(g, kind, base, seq, s)
    BY <2>1 DEF Folds
  <2>5. \A s \in UpTo(S, k) : h[s] = g[s]
    BY <2>3, <2>4
  <2>6. \A s \in UpTo(S, k + 1) : AfterIt(g, kind, base, seq, s) = AfterIt(h, kind, base, seq, s)
    <3> HIDE DEF h
    <3> QED
      BY <2>2, <2>5 DEF AfterIt
  <2>7. h = [s \in UpTo(S, k + 1) |-> AfterIt(h, kind, base, seq, s)]
    <3>1. \A s \in UpTo(S, k + 1) : h[s] = AfterIt(g, kind, base, seq, s)
      OBVIOUS
    <3>2. h = [s \in UpTo(S, k + 1) |-> h[s]]
      OBVIOUS
    <3> HIDE DEF h
    <3> QED
      BY <2>6, <3>1, <3>2
  <2>8. Folds(h, kind, base, seq, UpTo(S, k + 1))
    <3> HIDE DEF h
    <3> QED
      BY <2>7 DEF Folds
  <2> QED
    BY <2>8
<1>5. Cardinality(S) \in A
  <2> HIDE DEF A
  <2> QED
    BY <1>2, <1>3, <1>4, NatInductionOnSet
<1>6. UpTo(S, Cardinality(S)) = SUBSET S
  BY <1>1, <1>2, FS_Subset DEF UpTo
<1> QED
  BY <1>5, <1>6 DEF S

(* The states that the fold of a sequence of n items goes through.         *)
Passes(g, kind, base, seq, n) ==
    /\ g[0] = base /\ g[n] = Folded(kind, base, seq)
    /\ \A k \in 0..(n - 1) : g[k + 1] = Step(kind, g[k], seq[k + 1])

LEMMA FoldSteps ==
  ASSUME NEW n \in Nat, NEW kind, NEW base, NEW seq, DOMAIN seq = 1..n
  PROVE  \E g : Passes(g, kind, base, seq, n)
<1>1. PICK it : /\ Folds(it, kind, base, seq, SUBSET (1..n))
                /\ Folded(kind, base, seq) = it[1..n]
  BY FoldExists DEF Folded
<1>2. \A s \in SUBSET (1..n) : it[s] = AfterIt(it, kind, base, seq, s)
  BY <1>1 DEF Folds
<1> DEFINE g == [k \in 0..n |-> it[1..k]]
<1>3. g[0] = base
  <2>1. 1..0 = {}
    OBVIOUS
  <2>2. it[{}] = base
    BY <1>2 DEF AfterIt
  <2>3. it[1..0] = base
    BY <2>1, <2>2, Zenon
  <2> QED
    BY <2>3
<1>4. ASSUME NEW k \in 0..(n - 1) PROVE g[k + 1] = Step(kind, g[k], seq[k + 1])
  <2>1. /\ 1..(k + 1) \in SUBSET (1..n) /\ 1..(k + 1) # {}
        /\ (1..(k + 1)) \ {k + 1} = 1..k
    OBVIOUS
  <2>2. Max(1..(k + 1)) = k + 1
    <3>1. 1..(k + 1) \subseteq Nat /\ k + 1 \in 1..(k + 1) /\ \A x \in 1..(k + 1) : x <= k + 1
      OBVIOUS
    <3> QED
      BY <3>1, MaxIs
  <2>3. it[1..(k + 1)] = Step(kind, it[1..k], seq[k + 1])
    BY <1>2, <2>1, <2>2 DEF AfterIt
  <2> QED
    BY <2>3
<1>5. g[n] = it[1..n]
  OBVIOUS
<1> HIDE DEF g
<1> QED
  BY <1>1, <1>3, <1>4, <1>5 DEF Passes

-----------------------------------------------------------------------------
(***************************************************************************)
(* The connection panel, for any number of cycles and any period of the    *)
(* check.                                                                  *)
(***************************************************************************)
LEMMA RunIsFold ==
  ASSUME NEW probes, NEW every
  PROVE  RunExecutor(probes, every) = Folded([of |-> "executor", every |-> every], Start, probes)
BY DEF RunExecutor, FoldLeft, MapThenFoldSet, Folded, Folds, AfterIt, Step

(* What the executor has after k cycles: the check of the last cycle that  *)
(* was due, had a client and could store what it found.                    *)
Stores(probes, every, n) ==
    /\ \E i \in 1..n : probes[i].client
    /\ IsDue(n, every) /\ probes[n].stored
Stored(row, probes, every, k) ==
    \/ row = NoCheck /\ \A m \in 1..k : ~Stores(probes, every, m)
    \/ \E n \in 1..k : /\ Stores(probes, every, n) /\ row = run_check(probes[n], n)
                       /\ \A m \in (n + 1)..k : ~Stores(probes, every, m)
Recorded(bot, probes, every, k) ==
    /\ bot.cycle = k
    /\ bot.client <=> \E i \in 1..k : probes[i].client
    /\ Stored(bot.row, probes, every, k)

LEMMA CycleRecords ==
  ASSUME NEW probes, NEW every, NEW k \in Nat, NEW bot, Recorded(bot, probes, every, k)
  PROVE  Recorded(CheckCycle(bot, probes[k + 1], every), probes, every, k + 1)
<1> DEFINE next == CheckCycle(bot, probes[k + 1], every)
           client == bot.client \/ probes[k + 1].client
<1>1. /\ next.cycle = k + 1 /\ next.client = client
      /\ next.row = IF client /\ IsDue(k + 1, every) /\ probes[k + 1].stored
                    THEN run_check(probes[k + 1], k + 1) ELSE bot.row
  BY DEF CheckCycle, Recorded
<1>2. client <=> \E i \in 1..(k + 1) : probes[i].client
  BY DEF Recorded
<1>3. CASE Stores(probes, every, k + 1)
  <2>1. next.row = run_check(probes[k + 1], k + 1)
    BY <1>1, <1>2, <1>3 DEF Stores
  <2>2. Stored(next.row, probes, every, k + 1)
    <3> HIDE DEF next
    <3>1. k + 1 \in 1..(k + 1) /\ (k + 1 + 1)..(k + 1) = {}
      OBVIOUS
    <3> QED
      BY <1>3, <2>1, <3>1 DEF Stored
  <2> QED
    BY <1>1, <1>2, <2>2 DEF Recorded
<1>4. CASE ~Stores(probes, every, k + 1)
  <2>1. next.row = bot.row
    BY <1>1, <1>2, <1>4 DEF Stores
  <2>2. Stored(next.row, probes, every, k + 1)
    <3> HIDE DEF next
    <3>1. \A n \in Nat : \A m \in n..(k + 1) : m \in n..k \/ m = k + 1
      OBVIOUS
    <3>2. 1..k \subseteq 1..(k + 1)
      OBVIOUS
    <3> QED
      BY <1>4, <2>1, <3>1, <3>2 DEF Recorded, Stored
  <2> QED
    BY <1>1, <1>2, <2>2 DEF Recorded
<1> QED
  BY <1>3, <1>4

LEMMA RunRecords ==
  ASSUME NEW probes \in Seq(Probe), NEW every
  PROVE  Recorded(RunExecutor(probes, every), probes, every, Len(probes))
<1> DEFINE n == Len(probes)
<1>1. n \in Nat /\ DOMAIN probes = 1..n
  OBVIOUS
<1> HIDE DEF n
<1>2. PICK g : /\ g[0] = Start /\ RunExecutor(probes, every) = g[n]
               /\ \A k \in 0..(n - 1) : g[k + 1] = CheckCycle(g[k], probes[k + 1], every)
  <2>1. \E g : Passes(g, [of |-> "executor", every |-> every], Start, probes, n)
    BY <1>1, FoldSteps
  <2> QED
    BY <2>1, RunIsFold DEF Passes, Step
<1> DEFINE A == {k \in Nat : k <= n => Recorded(g[k], probes, every, k)}
<1>3. 0 \in A
  <2>1. Recorded(Start, probes, every, 0)
    BY DEF Recorded, Stored, Start
  <2> QED
    BY <1>2, <2>1
<1>4. ASSUME NEW k \in Nat, k \in A PROVE k + 1 \in A
  <2> SUFFICES ASSUME k + 1 <= n PROVE Recorded(g[k + 1], probes, every, k + 1)
    OBVIOUS
  <2>1. g[k + 1] = CheckCycle(g[k], probes[k + 1], every)
    BY <1>1, <1>2
  <2>2. Recorded(g[k], probes, every, k)
    BY <1>1, <1>4
  <2> QED
    BY <2>1, <2>2, CycleRecords
<1>5. n \in A
  <2> HIDE DEF A
  <2> QED
    BY <1>1, <1>3, <1>4, NatInductionOnSet
<1> QED
  BY <1>1, <1>2, <1>5 DEF n

LEMMA LastStoredIs ==
  ASSUME NEW probes \in Seq(Probe), NEW every, NEW row,
         Stored(row, probes, every, Len(probes))
  PROVE  \/ row = NoCheck /\ LastStored(probes, every) = 0
         \/ /\ LastStored(probes, every) \in DOMAIN probes
            /\ row = run_check(probes[LastStored(probes, every)], LastStored(probes, every))
<1> DEFINE k == Len(probes)
           S == {0} \cup {n \in DOMAIN probes : Stores(probes, every, n)}
<1>1. k \in Nat /\ DOMAIN probes = 1..k
  OBVIOUS
<1>2. LastStored(probes, every) = Max(S)
  BY DEF LastStored, Stores
<1>3. S \subseteq Nat /\ \A n \in S : n = 0 \/ (n \in 1..k /\ Stores(probes, every, n))
  BY <1>1
<1>4. 0 \in S /\ \A n \in 1..k : Stores(probes, every, n) => n \in S
  BY <1>1
<1>5. Stored(row, probes, every, k)
  OBVIOUS
<1> HIDE DEF S, k
<1>6. CASE row = NoCheck /\ \A m \in 1..k : ~Stores(probes, every, m)
  <2>1. \A n \in S : n <= 0
    BY <1>3, <1>6
  <2>2. Max(S) = 0
    BY <1>3, <1>4, <2>1, MaxIs
  <2> QED
    BY <1>2, <1>6, <2>2
<1>7. ASSUME NEW n \in 1..k, Stores(probes, every, n), row = run_check(probes[n], n),
             \A m \in (n + 1)..k : ~Stores(probes, every, m)
      PROVE  LastStored(probes, every) = n
  <2>1. \A m \in S : m <= n
    BY <1>1, <1>3, <1>7
  <2>2. n \in S
    BY <1>4, <1>7
  <2>3. Max(S) = n
    BY <1>3, <2>1, <2>2, MaxIs
  <2> QED
    BY <1>2, <2>3
<1> QED
  BY <1>1, <1>5, <1>6, <1>7 DEF Stored

(* The dots, when there is nothing to read and when there is. *)
LEMMA NothingRead ==
  ASSUME NEW row, NEW cycle, NEW parses \in BOOLEAN, row = NoCheck \/ ~parses
  PROVE  LET dots == ConnStatus(Connection(row, parses), cycle)
         IN  /\ dots.clob = "unknown" /\ dots.wallet = "unknown"
             /\ dots.age = NoAge /\ dots.error = "none"
<1>1. Connection(row, parses) = Null
  BY DEF Connection
<1> QED
  BY <1>1 DEF ConnStatus, ConnDot

ShowsCheck(dots, probe, n, cycle) ==
    /\ dots.clob = IF probe.ok = "answer" THEN "success" ELSE "danger"
    /\ dots.wallet = IF probe.ok = "answer" /\ probe.keys = "answer"
                     THEN "success" ELSE "danger"
    /\ dots.age = cycle - n
    /\ dots.error # "none" => probe.ok = "raises" \/ probe.keys = "raises"

LEMMA CheckRead ==
  ASSUME NEW probe \in Probe, NEW n \in Nat \ {0}, NEW cycle
  PROVE  ShowsCheck(ConnStatus(Connection(run_check(probe, n), TRUE), cycle), probe, n, cycle)
<1> USE DEF ShowsCheck
<1>1. PICK row : row = run_check(probe, n)
  OBVIOUS
<1>2. row.clobReachable <=> probe.ok = "answer"
  BY <1>1 DEF run_check
<1>3. row.walletAuthenticated <=> probe.ok = "answer" /\ probe.keys = "answer"
  BY <1>1 DEF run_check
<1>4. row.checkedAt = n
  BY <1>1 DEF run_check
<1>5. row.error # "none" => probe.ok = "raises" \/ probe.keys = "raises"
  BY <1>1 DEF run_check
<1>6. row # NoCheck /\ row # Null
  <2>1. NoCheck.checkedAt = 0 /\ Null.checkedAt = -1
    BY DEF NoCheck, Null
  <2> QED
    BY <1>4, <2>1
<1>7. Connection(row, TRUE) = row
  BY <1>6 DEF Connection
<1>8. LET dots == ConnStatus(row, cycle)
      IN  /\ dots.clob = IF row.clobReachable THEN "success" ELSE "danger"
          /\ dots.wallet = IF row.walletAuthenticated THEN "success" ELSE "danger"
          /\ dots.age = cycle - row.checkedAt /\ dots.error = row.error
  BY <1>6 DEF ConnStatus, ConnDot
<1> QED
  BY <1>1, <1>2, <1>3, <1>4, <1>5, <1>7, <1>8

(* What the panel shows after the cycles of probes. *)
HonestPanel(probes, every, parses) ==
    LET bot == RunExecutor(probes, every)
        n == LastStored(probes, every)
        dots == ConnStatus(Connection(bot.row, parses), bot.cycle)
        known == n # 0 /\ parses
    IN  /\ {dots.clob, dots.wallet} \cap {"success", "danger"} # {} <=> known
        /\ dots.age = IF known THEN bot.cycle - n ELSE NoAge
        /\ known => (dots.clob = "success" <=> probes[n].ok = "answer")
        /\ dots.wallet = "success" => dots.clob = "success"
        /\ dots.error # "none" => "danger" \in {dots.clob, dots.wallet}

(* The panel tells what the last stored check has found, and its age which *)
(* one that was, after any number of cycles, whatever the period of the    *)
(* check and however the client, the probes and the store fail             *)
(* (run_executor, run_check, GET /execution/status, ConnDot).              *)
THEOREM PanelIsHonest ==
  ASSUME NEW probes \in Seq(Probe), NEW every \in Nat \ {0}, NEW parses \in BOOLEAN
  PROVE  HonestPanel(probes, every, parses)
<1>1. PICK bot : bot = RunExecutor(probes, every)
  OBVIOUS
<1>2. PICK n : n = LastStored(probes, every)
  OBVIOUS
<1>3. bot.cycle = Len(probes) /\ Stored(bot.row, probes, every, Len(probes))
  BY <1>1, RunRecords DEF Recorded
<1>4. \/ bot.row = NoCheck /\ n = 0
      \/ n \in DOMAIN probes /\ bot.row = run_check(probes[n], n)
  BY <1>2, <1>3, LastStoredIs
<1>5. PICK dots : dots = ConnStatus(Connection(bot.row, parses), bot.cycle)
  OBVIOUS
<1> DEFINE known == n # 0 /\ parses
           Honest ==
             /\ {dots.clob, dots.wallet} \cap {"success", "danger"} # {} <=> known
             /\ dots.age = IF known THEN bot.cycle - n ELSE NoAge
             /\ known => (dots.clob = "success" <=> probes[n].ok = "answer")
             /\ dots.wallet = "success" => dots.clob = "success"
             /\ dots.error # "none" => "danger" \in {dots.clob, dots.wallet}
<1>6. ASSUME ~known PROVE Honest
  <2>1. bot.row = NoCheck \/ ~parses
    BY <1>4, <1>6
  <2>2. /\ dots.clob = "unknown" /\ dots.wallet = "unknown"
        /\ dots.age = NoAge /\ dots.error = "none"
    BY <1>5, <2>1, NothingRead
  <2> QED
    BY <1>6, <2>2
<1>7. ASSUME known PROVE Honest
  <2>1. n \in DOMAIN probes /\ bot.row = run_check(probes[n], n) /\ parses = TRUE
    BY <1>4, <1>7
  <2>2. PICK probe \in Probe : probe = probes[n]
    BY <2>1
  <2>3. n \in Nat \ {0}
    BY <2>1
  <2>4. dots = ConnStatus(Connection(run_check(probe, n), TRUE), bot.cycle)
    BY <1>5, <2>1, <2>2
  <2>5. ShowsCheck(dots, probe, n, bot.cycle)
    BY <2>3, <2>4, CheckRead
  <2> QED
    BY <1>7, <2>2, <2>5 DEF ShowsCheck
<1>8. Honest
  BY <1>6, <1>7
<1> QED
  BY <1>1, <1>2, <1>5, <1>8 DEF HonestPanel

(* What the run evaluates for three cycles. *)
THEOREM ConnectionShown == Spec => []ConnectionIsHonest
<1>1. ASSUME NEW first \in Probe, NEW last \in Probe, NEW middle \in [client : BOOLEAN]
      PROVE  <<first, [first EXCEPT !.client = middle.client], last>> \in Seq(Probe)
             /\ 3 \in Nat \ {0}
  <2>1. [first EXCEPT !.client = middle.client] \in Probe
    BY DEF Probe
  <2> QED
    BY <2>1
<1>2. ASSUME NEW first \in Probe, NEW last \in Probe, NEW middle \in [client : BOOLEAN],
             NEW parses \in BOOLEAN
      PROVE  HonestPanel(<<first, [first EXCEPT !.client = middle.client], last>>, 3, parses)
  <2>1. PICK probes : probes = <<first, [first EXCEPT !.client = middle.client], last>>
    OBVIOUS
  <2>2. probes \in Seq(Probe) /\ 3 \in Nat \ {0}
    BY <1>1, <2>1
  <2>3. HonestPanel(probes, 3, parses)
    BY <2>2, PanelIsHonest
  <2> QED
    BY <2>1, <2>3
<1>3. ConnectionIsHonest
  BY <1>2 DEF ConnectionIsHonest, HonestPanel
<1> QED
  BY <1>3, PTL
-----------------------------------------------------------------------------
(***************************************************************************)
(* The views of the table.  Each page asks for a window of its own, by age *)
(* and by number of rows, and counts what it gets.  The counts agree       *)
(* because the windows lie in one another and are not full, and because a  *)
(* sum over the keys of a set of rows counts each row once.                *)
(***************************************************************************)
(* The sum of a function over its domain.                                  *)
LEMMA SumOfIs == ASSUME NEW f PROVE SumOf(f) = SumFunctionOnSet(f, DOMAIN f)
BY DEF SumOf, MapThenSumSet, SumFunctionOnSet, FoldFunctionOnSet, MapThenFoldSet

(* A LIMIT that is not reached cuts nothing off.                           *)
LEMMA NewestAll ==
  ASSUME NEW S, IsFiniteSet(S), S \subseteq Int, NEW n \in Nat, Cardinality(S) <= n
  PROVE  Newest(S, n) = S
<1> SUFFICES ASSUME NEW i \in S PROVE Cardinality({j \in S : j > i}) < n
  BY DEF Newest
<1> DEFINE A == {j \in S : j > i}
<1>1. A \subseteq S /\ A # S
  <2>1. i \notin A
    OBVIOUS
  <2> QED
    BY <2>1
<1>2. Cardinality(A) < Cardinality(S) /\ Cardinality(A) \in Nat /\ Cardinality(S) \in Nat
  <2> HIDE DEF A
  <2>1. IsFiniteSet(A) /\ Cardinality(A) <= Cardinality(S)
        /\ (Cardinality(A) = Cardinality(S) => A = S)
    BY <1>1, FS_Subset
  <2> QED
    BY <1>1, <2>1, FS_CardinalityType
<1> QED
  BY <1>2

(* No LIMIT cuts off the newest row.                                       *)
LEMMA NewestLatest ==
  ASSUME NEW k \in Nat, NEW S, S \subseteq 1..k, NEW n \in Nat, n > 0
  PROVE  Latest(Newest(S, n)) = Latest(S)
<1>1. CASE S = {}
  BY <1>1 DEF Newest, Latest
<1>2. CASE S # {}
  <2> DEFINE m == Max(S)
  <2>1. m \in S /\ \A x \in S : x <= m
    <3>1. S \subseteq 0..k
      OBVIOUS
    <3> QED
      BY <1>2, <3>1, MaxExists
  <2>2. m \in Newest(S, n) /\ Newest(S, n) \subseteq S
    <3>1. {j \in S : j > m} = {}
      <4> HIDE DEF m
      <4> SUFFICES ASSUME NEW j \in S, j > m PROVE FALSE
        OBVIOUS
      <4>1. m \in Nat /\ j \in Nat /\ j <= m
        BY <2>1
      <4> QED
        BY <4>1
    <3>2. Cardinality({j \in S : j > m}) < n
      BY <3>1, FS_EmptySet
    <3> QED
      BY <2>1, <3>2 DEF Newest
  <2>3. Max(Newest(S, n)) = m
    <3> HIDE DEF m
    <3>1. Newest(S, n) \subseteq Nat
      <4> SUFFICES ASSUME NEW j \in Newest(S, n) PROVE j \in Nat
        OBVIOUS
      <4>1. j \in S
        BY <2>2
      <4> QED
        BY <4>1
    <3>2. \A x \in Newest(S, n) : x <= m
      BY <2>1, <2>2
    <3> QED
      BY <2>2, <3>1, <3>2, MaxIs
  <2> QED
    BY <1>2, <2>2, <2>3 DEF Latest
<1> QED
  BY <1>1, <1>2
(* The rows of the last seven days, and a table whose rows of the last     *)
(* seven days are all that a page of two weeks shows, no more than the     *)
(* smallest limit of a query: no row is from the future.                   *)
Week(table, t) == Within(table, t, 168)

OnOnePage(table, t) ==
    /\ table \in Seq(Row) /\ t \in Nat
    /\ \A i \in DOMAIN table : table[i].at <= t
    /\ Within(table, t, 336) = Week(table, t)
    /\ Cardinality(Week(table, t)) <= 100

(* The windows lie in one another, and what is in them can be counted.     *)
LEMMA WeekIs ==
  ASSUME NEW table, NEW t, OnOnePage(table, t)
  PROVE  /\ IsFiniteSet(Week(table, t)) /\ Week(table, t) \subseteq 1..Len(table) /\ Len(table) \in Nat
         /\ \A i \in Week(table, t) : table[i] \in Row /\ table[i].at \in Nat
         /\ \A S \in SUBSET Week(table, t) :
                IsFiniteSet(S) /\ Cardinality(S) \in Nat /\ Cardinality(S) <= 100
         /\ Within(table, t, 24) \subseteq Week(table, t)
         /\ Today(table, t) \subseteq Within(table, t, 24)
         /\ Within(table, t, 336) = Week(table, t)
<1> DEFINE W == Week(table, t)
<1>1. Len(table) \in Nat /\ DOMAIN table = 1..Len(table) /\ W \subseteq 1..Len(table)
  BY DEF OnOnePage, Week, Within
<1>2. IsFiniteSet(W)
  <2> HIDE DEF W
  <2> QED
    <3>1. IsFiniteSet(1..Len(table))
      BY <1>1, FS_Interval
    <3> QED
      BY <1>1, <3>1, FS_Subset
<1>3. \A i \in DOMAIN table : table[i] \in Row /\ table[i].at \in Nat
  <2>1. \A row \in Row : row.at \in Nat
    BY DEF Row
  <2> QED
    BY <2>1 DEF OnOnePage
<1>4. ASSUME NEW S \in SUBSET W
      PROVE IsFiniteSet(S) /\ Cardinality(S) \in Nat /\ Cardinality(S) <= 100
  <2>1. IsFiniteSet(S) /\ Cardinality(S) <= Cardinality(W)
    BY <1>2, FS_Subset
  <2>2. Cardinality(S) \in Nat /\ Cardinality(W) \in Nat /\ Cardinality(W) <= 100
    BY <1>2, <2>1, FS_CardinalityType DEF OnOnePage
  <2> QED
    BY <2>1, <2>2
<1>5. t \in Nat
  BY DEF OnOnePage
<1>6. Within(table, t, 24) \subseteq W
  BY <1>3, <1>5 DEF Week, Within, Hour
<1>7. Today(table, t) \subseteq Within(table, t, 24)
  BY <1>3, <1>5 DEF Today, Within, Hour, Day
<1> QED
  BY <1>1, <1>2, <1>3, <1>4, <1>6, <1>7 DEF OnOnePage, Week, Within

(* What the queries return when no limit is reached (GET /signals).        *)
LEMMA ListsShow ==
  ASSUME NEW table, NEW t, OnOnePage(table, t)
  PROVE  /\ \A f : SignalsTable(table, t, f)
                = {i \in Week(table, t) : f \in {Anything, table[i].strategy}}
         /\ GetSignals(table, t, Signals(Anything, Anything)) = Within(table, t, 24)
         /\ ActionFeed(table, t) = Newest(Within(table, t, 24), 8)
         /\ \A m : m # Anything => GetSignals(table, t, MarketWants(m))
                = Newest({i \in Week(table, t) : table[i].market = m}, 5)
         /\ GetSignals(table, t, ResolvedWants)
                = {i \in Week(table, t) : table[i].outcome # "open"}
<1> DEFINE W == Week(table, t)
<1>1. \A S \in SUBSET W : IsFiniteSet(S) /\ S \subseteq Int /\ Cardinality(S) <= 100
  BY WeekIs
<1>2. ASSUME NEW S \in SUBSET W, NEW n \in {100, 200, 500} PROVE Newest(S, n) = S
  <2>1. Cardinality(S) <= n
    BY <1>1, WeekIs
  <2> QED
    BY <1>1, <2>1, NewestAll
<1>3. AtMost(168, 24, 336) = 168 /\ AtMost(0, 24, 336) = 24 /\ AtMost(336, 24, 336) = 336
      /\ AtMost(200, 100, 500) = 200 /\ AtMost(0, 100, 500) = 100 /\ AtMost(8, 100, 500) = 8
      /\ AtMost(5, 100, 500) = 5 /\ AtMost(500, 100, 500) = 500
  BY DEF AtMost
<1>4. ASSUME NEW f PROVE SignalsTable(table, t, f) = {i \in W : f \in {Anything, table[i].strategy}}
  <2> DEFINE wants == [Signals(f, Anything) EXCEPT !.hours = 168, !.limit = 200]
  <2>1. wants.hours = 168 /\ wants.limit = 200 /\ wants.strategy = f /\ wants.market = Anything
        /\ wants.resolved = Anything
    BY DEF Signals
  <2> HIDE DEF wants
  <2>2. {i \in W : Meets(table[i], wants)} = {i \in W : f \in {Anything, table[i].strategy}}
    BY <2>1 DEF Meets
  <2>3. GetSignals(table, t, wants) = Newest({i \in W : Meets(table[i], wants)}, 200)
    BY <1>3, <2>1 DEF GetSignals, Week
  <2> QED
    BY <1>2, <2>2, <2>3 DEF SignalsTable, wants
<1>5. GetSignals(table, t, Signals(Anything, Anything)) = Within(table, t, 24)
  <2> DEFINE wants == Signals(Anything, Anything)
             D == Within(table, t, 24)
  <2>1. wants.hours = 0 /\ wants.limit = 0 /\ wants.strategy = Anything /\ wants.market = Anything
        /\ wants.resolved = Anything
    BY DEF Signals
  <2> HIDE DEF wants
  <2>2. {i \in D : Meets(table[i], wants)} = D
    BY <2>1 DEF Meets
  <2>3. GetSignals(table, t, wants) = Newest({i \in D : Meets(table[i], wants)}, 100)
    BY <1>3, <2>1 DEF GetSignals
  <2>4. D \in SUBSET W
    BY WeekIs
  <2> QED
    BY <1>2, <2>2, <2>3, <2>4 DEF wants
<1>6. ActionFeed(table, t) = Newest(Within(table, t, 24), 8)
  <2> DEFINE wants == [Signals(Anything, Anything) EXCEPT !.limit = 8]
             D == Within(table, t, 24)
  <2>1. wants.hours = 0 /\ wants.limit = 8 /\ wants.strategy = Anything /\ wants.market = Anything
        /\ wants.resolved = Anything
    BY DEF Signals
  <2> HIDE DEF wants
  <2>2. {i \in D : Meets(table[i], wants)} = D
    BY <2>1 DEF Meets
  <2>3. GetSignals(table, t, wants) = Newest({i \in D : Meets(table[i], wants)}, 8)
    BY <1>3, <2>1 DEF GetSignals
  <2> QED
    BY <2>2, <2>3 DEF ActionFeed, wants
<1>7. ASSUME NEW m, m # Anything
      PROVE  GetSignals(table, t, MarketWants(m)) = Newest({i \in W : table[i].market = m}, 5)
  <2> DEFINE wants == MarketWants(m)
  <2>1. wants.hours = 168 /\ wants.limit = 5 /\ wants.strategy = Anything /\ wants.market = m
        /\ wants.resolved = Anything
    BY DEF Signals, MarketWants
  <2> HIDE DEF wants
  <2>2. {i \in W : Meets(table[i], wants)} = {i \in W : table[i].market = m}
    BY <1>7, <2>1 DEF Meets
  <2>3. GetSignals(table, t, wants) = Newest({i \in W : Meets(table[i], wants)}, 5)
    BY <1>3, <2>1 DEF GetSignals, Week
  <2> QED
    BY <2>2, <2>3 DEF wants
<1>8. GetSignals(table, t, ResolvedWants) = {i \in W : table[i].outcome # "open"}
  <2> DEFINE wants == ResolvedWants
  <2>1. wants.hours = 336 /\ wants.limit = 500 /\ wants.strategy = Anything /\ wants.market = Anything
        /\ wants.resolved = "true" /\ Anything # "true"
    BY DEF Signals, ResolvedWants, Anything
  <2> HIDE DEF wants
  <2>2. {i \in W : Meets(table[i], wants)} = {i \in W : table[i].outcome # "open"}
    BY <2>1 DEF Meets
  <2>3. Within(table, t, 336) = W
    BY WeekIs
  <2>4. GetSignals(table, t, wants) = Newest({i \in W : Meets(table[i], wants)}, 500)
    <3>1. GetSignals(table, t, wants)
                = Newest({i \in Within(table, t, 336) : Meets(table[i], wants)}, 500)
      BY <1>3, <2>1 DEF GetSignals
    <3> HIDE DEF W
    <3> QED
      BY <2>3, <3>1
  <2> QED
    BY <1>2, <2>2, <2>4 DEF wants
<1> QED
  BY <1>4, <1>5, <1>6, <1>7, <1>8

(* Rows tallied by a key: by strategy, by category and strategy, by day.   *)
TalliesOf(table, R, key, tallies) ==
    /\ DOMAIN tallies = {key[i] : i \in R}
    /\ \A k \in DOMAIN tallies : LET tally == Tally(table, {i \in R : key[i] = k})
                                 IN  /\ tallies[k].signals = tally.signals
                                     /\ tallies[k].resolved = tally.resolved
                                     /\ tallies[k].wins = tally.wins

(* The tallies of all keys add up to the tally of the rows.                *)
LEMMA TalliesAdd ==
  ASSUME NEW table, NEW R, IsFiniteSet(R), NEW key, NEW tallies,
         TalliesOf(table, R, key, tallies)
  PROVE  /\ SummaryCards(tallies) = Tally(table, R)
         /\ SumOf([k \in DOMAIN tallies |-> tallies[k].signals]) = Cardinality(R)
<1> DEFINE K == {key[i] : i \in R}
           Resolved == {i \in R : table[i].outcome # "open"}
           Won == {i \in R : table[i].outcome = "won"}
           Count(T) == [k \in K |-> Cardinality({i \in T : key[i] = k})]
<1>1. IsFiniteSet(K)
  BY ImageFinite
<1>2. ASSUME NEW T \in SUBSET R PROVE SumFunctionOnSet(Count(T), K) = Cardinality(T)
  <2>1. \A i \in R : key[i] \in K
    OBVIOUS
  <2> HIDE DEF K
  <2> QED
    BY <1>1, <2>1, SumByKey
<1>3. DOMAIN tallies = K
  BY DEF TalliesOf
<1>4. ASSUME NEW k \in K
      PROVE  /\ tallies[k].signals = Count(R)[k]
             /\ tallies[k].resolved = Count(Resolved)[k]
             /\ tallies[k].wins = Count(Won)[k]
  <2> DEFINE S == {i \in R : key[i] = k}
  <2>1. /\ tallies[k].signals = Cardinality(S)
        /\ tallies[k].resolved = Cardinality({i \in S : table[i].outcome # "open"})
        /\ tallies[k].wins = Cardinality({i \in S : table[i].outcome = "won"})
    BY <1>3 DEF TalliesOf, Tally
  <2>2. /\ {i \in S : table[i].outcome # "open"} = {i \in Resolved : key[i] = k}
        /\ {i \in S : table[i].outcome = "won"} = {i \in Won : key[i] = k}
    OBVIOUS
  <2> QED
    BY <2>1, <2>2
<1>5. ASSUME NEW f, NEW T \in SUBSET R, DOMAIN f = K, \A k \in K : f[k] = Count(T)[k]
      PROVE  SumOf(f) = Cardinality(T)
  <2> DEFINE c == Count(T)
  <2>1. SumFunctionOnSet(c, K) = Cardinality(T)
    BY <1>2
  <2>2. \A k \in K : f[k] = c[k]
    BY <1>5
  <2> HIDE DEF c, K
  <2>3. SumFunctionOnSet(f, K) = SumFunctionOnSet(c, K)
    BY <1>1, <2>2, SumSame
  <2> QED
    BY <1>5, <2>1, <2>3, SumOfIs
<1> DEFINE fs == [k \in DOMAIN tallies |-> tallies[k].signals]
           fr == [k \in DOMAIN tallies |-> tallies[k].resolved]
           fw == [k \in DOMAIN tallies |-> tallies[k].wins]
<1>6. SumOf(fs) = Cardinality(R)
  <2>1. DOMAIN fs = K /\ \A k \in K : fs[k] = Count(R)[k]
    BY <1>3, <1>4
  <2> HIDE DEF fs, K
  <2> QED
    BY <1>5, <2>1
<1>7. SumOf(fr) = Cardinality(Resolved)
  <2>1. Resolved \in SUBSET R /\ DOMAIN fr = K /\ \A k \in K : fr[k] = Count(Resolved)[k]
    BY <1>3, <1>4
  <2> HIDE DEF fr, K, Resolved
  <2> QED
    BY <1>5, <2>1
<1>8. SumOf(fw) = Cardinality(Won)
  <2>1. Won \in SUBSET R /\ DOMAIN fw = K /\ \A k \in K : fw[k] = Count(Won)[k]
    BY <1>3, <1>4
  <2> HIDE DEF fw, K, Won
  <2> QED
    BY <1>5, <2>1
<1> QED
  BY <1>6, <1>7, <1>8 DEF SummaryCards, Tally

(* No market is in the category that would stand for a row the join loses. *)
KnownTags == \A m \in Market \ {UnknownMarket} : TagOf[m] # "lost"

(* The cards count the rows of today, summed over the strategies or over   *)
(* the categories.                                                         *)
LEMMA CardsShow ==
  ASSUME NEW table, NEW t, OnOnePage(table, t), KnownTags
  PROVE  /\ SummaryCards(Strategies(table, t)) = Tally(table, Today(table, t))
         /\ SummaryCards(CategoryBreakdown(Categories(table, t))) = Tally(table, Today(table, t))
<1> DEFINE D == Today(table, t)
<1>1. IsFiniteSet(D) /\ \A i \in D : table[i] \in Row
  BY WeekIs
<1>2. SummaryCards(Strategies(table, t)) = Tally(table, D)
  <2> DEFINE key == [i \in D |-> table[i].strategy]
  <2>1. TalliesOf(table, D, key, Strategies(table, t))
    <3>1. {table[i].strategy : i \in D} = {key[i] : i \in D}
      OBVIOUS
    <3>2. \A k : {i \in D : key[i] = k} = {i \in D : table[i].strategy = k}
      OBVIOUS
    <3>3. Strategies(table, t) = [s \in {key[i] : i \in D} |-> Tally(table, {i \in D : key[i] = s})]
      <4> HIDE DEF D
      <4> QED
        BY <3>1, <3>2 DEF Strategies, D
    <3> HIDE DEF key, D
    <3> QED
      BY <3>3 DEF TalliesOf
  <2> HIDE DEF key, D
  <2> QED
    BY <1>1, <2>1, TalliesAdd
<1>3. SummaryCards(CategoryBreakdown(Categories(table, t))) = Tally(table, D)
  <2> DEFINE key == [i \in D |-> <<CategoryOf(table[i]), table[i].strategy>>]
  <2>1. \A i \in D : CategoryOf(table[i]) # "lost"
    <3>1. \A row \in Row : row.market \in Market
      BY DEF Row
    <3> QED
      BY <1>1, <3>1 DEF CategoryOf, KnownTags
  <2>2. {i \in D : CategoryOf(table[i]) # "lost"} = D
    BY <2>1
  <2>3. {<<CategoryOf(table[i]), table[i].strategy>> : i \in D} = {key[i] : i \in D}
    OBVIOUS
  <2>4. \A k : {i \in D : key[i] = k} = {i \in D : <<CategoryOf(table[i]), table[i].strategy>> = k}
    OBVIOUS
  <2>5. Categories(table, t) = [s \in {key[i] : i \in D} |-> Tally(table, {i \in D : key[i] = s})]
    <3> HIDE DEF key
    <3> QED
      BY <2>2, <2>3, <2>4 DEF Categories
  <2> DEFINE cards == CategoryBreakdown(Categories(table, t))
  <2>6. TalliesOf(table, D, key, cards)
    <3> HIDE DEF key, D
    <3> QED
      BY <2>5 DEF TalliesOf, CategoryBreakdown, Coloured, Tally
  <2> HIDE DEF key, D, cards
  <2>7. SummaryCards(cards) = Tally(table, D)
    BY <1>1, <2>6, TalliesAdd
  <2> QED
    BY <2>7 DEF cards
<1> QED
  BY <1>2, <1>3

(* A quotient reaches a number when the dividend reaches its multiple.     *)
LEMMA QuotientReaches ==
  ASSUME NEW a \in Nat, NEW b \in Nat \ {0}, NEW c \in Nat
  PROVE  (a \div b) >= c <=> a >= b * c
<1> DEFINE q == a \div b
           r == a % b
<1>1. q \in Nat /\ r \in Nat /\ r < b /\ a = b * q + r
  OBVIOUS
<1> HIDE DEF q, r
<1>2. ASSUME q >= c PROVE a >= b * c
  <2>1. b * q = b * c + b * (q - c) /\ q - c \in Nat
    BY <1>1, <1>2
  <2>2. b * (q - c) \in Nat /\ b * c \in Nat
    BY <2>1
  <2> QED
    BY <1>1, <2>1, <2>2
<1>3. ASSUME ~(q >= c) PROVE ~(a >= b * c)
  <2>1. c - q - 1 \in Nat /\ b * c = b * q + b + b * (c - q - 1)
    BY <1>1, <1>3
  <2>2. b * (c - q - 1) \in Nat /\ b * q \in Nat
    BY <1>1, <2>1
  <2> QED
    BY <1>1, <2>1, <2>2
<1> QED
  BY <1>2, <1>3 DEF q

(* Up to a hundred resolved signals rounding does not turn a red card      *)
(* green.                                                                  *)
LEMMA ColoursAgree == RatesAgree
<1> SUFFICES ASSUME NEW resolved \in 1..100, NEW wins \in 0..resolved
             PROVE  /\ BarHeight(wins, resolved) >= 50 <=> CardIsGreen(wins, resolved)
                    /\ winRateColor(WinRate(wins, resolved)) = "success"
                            => CardIsGreen(wins, resolved)
  BY DEF RatesAgree
<1>0. resolved \in Nat /\ wins \in Nat /\ wins <= resolved /\ resolved >= 1 /\ resolved <= 100
  OBVIOUS
<1>1. BarHeight(wins, resolved) >= 50 <=> 200 * wins + resolved >= 100 * resolved
  <2> DEFINE a == 200 * wins + resolved
             b == 2 * resolved
  <2>1. a \in Nat /\ b \in Nat \ {0} /\ b * 50 = 100 * resolved
    BY <1>0
  <2>2. (a \div b) >= 50 <=> a >= b * 50
    <3> HIDE DEF a, b
    <3> QED
      BY <2>1, QuotientReaches
  <2> QED
    BY <2>1, <2>2 DEF BarHeight
<1>2. WinRate(wins, resolved) >= 6000 <=> 20000 * wins + resolved >= 12000 * resolved
  <2> DEFINE a == 20000 * wins + resolved
             b == 2 * resolved
  <2>1. a \in Nat /\ b \in Nat \ {0} /\ b * 6000 = 12000 * resolved
    BY <1>0
  <2>2. (a \div b) >= 6000 <=> a >= b * 6000
    <3> HIDE DEF a, b
    <3> QED
      BY <2>1, QuotientReaches
  <2> QED
    BY <1>0, <2>1, <2>2 DEF WinRate
<1>3. winRateColor(WinRate(wins, resolved)) = "success" => WinRate(wins, resolved) >= 6000
  BY DEF winRateColor, NoRate
<1>4. CardIsGreen(wins, resolved) <=> 2 * wins >= resolved
  BY <1>0 DEF CardIsGreen
<1> QED
  BY <1>0, <1>1, <1>2, <1>3, <1>4

(* The rows of the chart.                                                  *)
ResolvedRows(table, t) == {i \in Week(table, t) : table[i].outcome # "open"}

(* Rows of seven days are from at most eight days of any zone.             *)
LEMMA FewDays ==
  ASSUME NEW table, NEW t, OnOnePage(table, t), NEW z \in Int, NEW days,
         days = {(table[i].at + z) \div Day : i \in ResolvedRows(table, t)}
  PROVE  Newest(days, 14) = days
<1> DEFINE a == (t + z - 335) \div Day
           b == (t + z) \div Day
<1>1. t \in Nat /\ Day = 48
  BY DEF OnOnePage, Day, Hour
<1>2. a \in Int /\ b \in Int /\ b - a <= 7 /\ b >= a
  BY <1>1
<1>3. ASSUME NEW i \in ResolvedRows(table, t) PROVE (table[i].at + z) \div Day \in a..b
  <2>1. i \in Week(table, t)
    BY DEF ResolvedRows
  <2>2. i \in DOMAIN table /\ table[i].at > t - 168 * Hour
    BY <2>1 DEF Week, Within
  <2>3. table[i].at \in Nat /\ table[i].at <= t
    BY <2>1, <2>2, WeekIs DEF OnOnePage
  <2>4. PICK at \in Nat : at = table[i].at
    BY <2>3
  <2>5. at > t - 336 /\ at <= t
    BY <2>2, <2>3, <2>4 DEF Hour
  <2>6. (at + z) \div Day \in a..b
    BY <1>1, <2>5
  <2> QED
    BY <2>4, <2>6
<1>4. days \subseteq a..b
  BY <1>3
<1> HIDE DEF a, b
<1>5. IsFiniteSet(a..b) /\ Cardinality(a..b) <= 8
  BY <1>2, FS_Interval
<1>6. IsFiniteSet(days) /\ Cardinality(days) <= Cardinality(a..b)
  BY <1>4, <1>5, FS_Subset
<1>7. Cardinality(days) \in Nat /\ Cardinality(a..b) \in Nat
  BY <1>5, <1>6, FS_CardinalityType
<1>8. Cardinality(days) <= 14 /\ days \subseteq Int
  BY <1>2, <1>4, <1>5, <1>6, <1>7
<1> QED
  BY <1>6, <1>8, NewestAll

(* The chart drops no day, so its bars tally all resolved rows by day.     *)
LEMMA TrendShows ==
  ASSUME NEW table, NEW t, OnOnePage(table, t), NEW zone \in DOMAIN TIMEZONES
  PROVE  LET rows == ResolvedRows(table, t)
         IN  TalliesOf(table, rows, [i \in rows |-> formatInTz(table[i], zone)],
                       buildTrend(table, rows, zone))
<1> DEFINE rows == ResolvedRows(table, t)
           key == [i \in rows |-> formatInTz(table[i], zone)]
           days == {formatInTz(table[i], zone) : i \in rows}
<1>1. TIMEZONES[zone] \in Int
  BY DEF TIMEZONES
<1>2. Newest(days, 14) = days
  <2> DEFINE z == TIMEZONES[zone]
  <2>1. days = {(table[i].at + z) \div Day : i \in ResolvedRows(table, t)}
    BY DEF formatInTz
  <2> HIDE DEF z, days
  <2>2. z \in Int
    BY <1>1 DEF z
  <2> QED
    BY <2>1, <2>2, FewDays
<1>3. days = {key[i] : i \in rows}
  OBVIOUS
<1>4. \A d : {i \in rows : key[i] = d} = {i \in rows : formatInTz(table[i], zone) = d}
  OBVIOUS
<1>5. buildTrend(table, rows, zone)
        = [d \in {key[i] : i \in rows} |-> Tally(table, {i \in rows : key[i] = d})]
  <2> HIDE DEF rows, key
  <2> QED
    BY <1>2, <1>3, <1>4 DEF buildTrend
<1> HIDE DEF rows, key
<1>6. TalliesOf(table, rows, key, buildTrend(table, rows, zone))
  BY <1>5 DEF TalliesOf
<1> QED
  BY <1>6 DEF rows, key

(* In UTC the bar of today counts the rows the cards count, since no row   *)
(* is from the future.                                                     *)
LEMMA TodayShows ==
  ASSUME NEW table, NEW t, OnOnePage(table, t)
  PROVE  LET rows == ResolvedRows(table, t)
             trend == buildTrend(table, rows, "UTC")
             cards == Tally(table, Today(table, t))
             today == t \div Day
         IN  /\ cards.resolved = 0 <=> today \notin DOMAIN trend
             /\ cards.resolved # 0 =>
                    /\ trend[today].wins = cards.wins
                    /\ TrendChart(trend)[today] = CardIsGreen(cards.wins, cards.resolved)
<1> DEFINE rows == ResolvedRows(table, t)
           key == [i \in rows |-> formatInTz(table[i], "UTC")]
           trend == buildTrend(table, rows, "UTC")
           D == Today(table, t)
           cards == Tally(table, D)
           today == t \div Day
           S == {i \in D : table[i].outcome # "open"}
           Won == {i \in D : table[i].outcome = "won"}
<1>1. TalliesOf(table, rows, key, trend)
  BY TrendShows DEF TIMEZONES
<1>2. \A i \in rows : i \in Week(table, t) /\ i \in DOMAIN table /\ table[i].outcome # "open"
  BY DEF ResolvedRows, Week, Within
<1>3. ASSUME NEW i \in rows PROVE key[i] = today <=> i \in D
  <2>1. table[i].at \in Nat /\ table[i].at <= t /\ t \in Nat
    BY <1>2, WeekIs DEF OnOnePage
  <2>2. PICK at \in Nat : at = table[i].at
    BY <2>1
  <2>3. key[i] = at \div 48
    BY <2>2 DEF formatInTz, TIMEZONES, Day, Hour
  <2>4. i \in D <=> at >= (t \div 48) * 48
    BY <1>2, <2>2 DEF Today, Day, Hour
  <2>5. at \div 48 = t \div 48 <=> at >= (t \div 48) * 48
    BY <2>1, <2>2
  <2> QED
    BY <2>3, <2>4, <2>5 DEF Day, Hour
<1>4. D \subseteq Week(table, t)
  BY WeekIs
<1>5. {i \in rows : key[i] = today} = S
  <2>1. \A i \in S : i \in rows
    BY <1>4 DEF ResolvedRows
  <2> HIDE DEF rows, key, today, D
  <2> QED
    BY <1>2, <1>3, <2>1
<1>6. cards.resolved = Cardinality(S) /\ cards.wins = Cardinality(Won)
  BY DEF Tally
<1>7. DOMAIN trend = {key[i] : i \in rows}
  BY <1>1 DEF TalliesOf
<1>8. /\ IsFiniteSet(S) /\ Cardinality(S) \in Nat /\ Cardinality(S) <= 100
      /\ Cardinality(S) = 0 <=> S = {}
  <2>1. S \in SUBSET Week(table, t)
    BY <1>4
  <2> HIDE DEF S
  <2> QED
    BY <2>1, WeekIs, FS_EmptySet
<1>9. Won \subseteq S /\ Cardinality(Won) \in Nat /\ Cardinality(Won) <= Cardinality(S)
  <2>1. Won \subseteq S
    OBVIOUS
  <2> HIDE DEF Won, S
  <2> QED
    BY <1>8, <2>1, FS_Subset, FS_CardinalityType
<1>10. today \in DOMAIN trend <=> S # {}
  <2> HIDE DEF rows, key, today, S, trend
  <2> QED
    BY <1>5, <1>7
<1>11. ASSUME today \in DOMAIN trend
       PROVE  trend[today].resolved = Cardinality(S) /\ trend[today].wins = Cardinality(Won)
  <2> DEFINE tally == Tally(table, {i \in rows : key[i] = today})
  <2>1. trend[today].resolved = tally.resolved /\ trend[today].wins = tally.wins
    <3> HIDE DEF trend, today, rows, key
    <3> QED
      BY <1>1, <1>11 DEF TalliesOf
  <2>2. tally = Tally(table, S)
    BY <1>5
  <2>3. {i \in S : table[i].outcome # "open"} = S /\ {i \in S : table[i].outcome = "won"} = Won
    OBVIOUS
  <2>4. tally.resolved = Cardinality(S) /\ tally.wins = Cardinality(Won)
    <3> HIDE DEF tally, S, Won
    <3> QED
      BY <2>2, <2>3 DEF Tally
  <2> QED
    BY <2>1, <2>4
<1>12. ASSUME today \in DOMAIN trend
       PROVE  TrendChart(trend)[today] = CardIsGreen(Cardinality(Won), Cardinality(S))
  <2>1. PICK wins, resolved : wins = Cardinality(Won) /\ resolved = Cardinality(S)
    OBVIOUS
  <2>2. resolved \in 1..100 /\ wins \in 0..resolved
    BY <1>8, <1>9, <1>10, <1>12, <2>1
  <2>3. TrendChart(trend)[today] = (BarHeight(wins, resolved) >= 50)
    <3> HIDE DEF trend, today, S, Won
    <3> QED
      BY <1>11, <1>12, <2>1 DEF TrendChart
  <2>4. BarHeight(wins, resolved) >= 50 <=> CardIsGreen(wins, resolved)
    BY <2>2, ColoursAgree DEF RatesAgree
  <2>5. CardIsGreen(wins, resolved) \in BOOLEAN /\ (BarHeight(wins, resolved) >= 50) \in BOOLEAN
    BY <2>2 DEF CardIsGreen, BarHeight
  <2> QED
    BY <2>1, <2>3, <2>4, <2>5
<1> HIDE DEF rows, key, trend, cards, today, S, Won
<1>13. /\ cards.resolved = 0 <=> today \notin DOMAIN trend
       /\ cards.resolved # 0 =>
              /\ trend[today].wins = cards.wins
              /\ TrendChart(trend)[today] = CardIsGreen(cards.wins, cards.resolved)
  BY <1>6, <1>8, <1>10, <1>11, <1>12
<1> QED
  BY <1>13 DEF rows, key, trend, cards, today

(* What the pages need in order to show one and the same table.            *)
SmallTable ==
    /\ Within(signals, now, 336) = Within(signals, now, 168)
    /\ Cardinality(Within(signals, now, 168)) <= 100

(* The conjuncts of ViewsAgree, one by one.                                *)
LEMMA ViewsShow ==
  ASSUME OnOnePage(signals, now), KnownTags, Anything \notin Market
  PROVE  ViewsAgree
<1> DEFINE W == Week(signals, now)
           D == Within(signals, now, 24)
           T == Today(signals, now)
           all == SignalsTable(signals, now, Anything)
           strategies == Strategies(signals, now)
           cards == SummaryCards(strategies)
           resolved == GetSignals(signals, now, ResolvedWants)
           trend == [z \in Zones |-> buildTrend(signals, resolved, z)]
           today == now \div Day
           rows == ResolvedRows(signals, now)
<1>1. all = W
  <2>1. all = {i \in W : Anything \in {Anything, signals[i].strategy}}
    BY ListsShow
  <2> QED
    BY <2>1
<1>2. D \subseteq W /\ T \subseteq D /\ IsFiniteSet(D) /\ IsFiniteSet(T)
      /\ \A i \in W : signals[i] \in Row
  BY WeekIs
<1>3. totalSignals24h(signals, now) = Cardinality(GetSignals(signals, now, Signals(Anything, Anything)))
  <2> DEFINE key == [i \in D |-> signals[i].strategy]
             K == {key[i] : i \in D}
             c == [k \in K |-> Cardinality({i \in D : key[i] = k})]
  <2>1. /\ {signals[i].strategy : i \in D} = K
        /\ \A k : {i \in D : key[i] = k} = {i \in D : signals[i].strategy = k}
    OBVIOUS
  <2>2. GetCounts(signals, now) = c
    <3> HIDE DEF D, key, K
    <3> QED
      BY <2>1 DEF GetCounts, D
  <2>3. SumFunctionOnSet(c, K) = Cardinality(D)
    <3>1. IsFiniteSet(K) /\ \A i \in D : key[i] \in K
      <4> HIDE DEF D, key
      <4> QED
        BY <1>2, ImageFinite
    <3> HIDE DEF D, key, K
    <3> QED
      BY <1>2, <3>1, SumByKey
  <2>4. DOMAIN c = K
    OBVIOUS
  <2> HIDE DEF D, K, c
  <2>5. SumOf(c) = Cardinality(D)
    BY <2>3, <2>4, SumOfIs
  <2> QED
    BY <2>2, <2>5, ListsShow DEF totalSignals24h, D
<1>4. ActionFeed(signals, now) \subseteq all
  <2>1. ActionFeed(signals, now) = Newest(Within(signals, now, 24), 8)
    BY ListsShow
  <2>2. Within(signals, now, 24) \subseteq all
    BY <1>1, <1>2
  <2> QED
    BY <2>1, <2>2 DEF Newest
<1>5. all = UNION {SignalsTable(signals, now, s) : s \in Strategy}
  <2>1. \A s : SignalsTable(signals, now, s) = {i \in W : s \in {Anything, signals[i].strategy}}
    BY ListsShow
  <2>2. \A i \in W : signals[i].strategy \in Strategy
    BY <1>2 DEF Row
  <2>3. \A s : SignalsTable(signals, now, s) \subseteq W
    BY <2>1
  <2>4. \A i \in W : i \in SignalsTable(signals, now, signals[i].strategy)
    BY <2>1
  <2> HIDE DEF W, all
  <2> QED
    BY <1>1, <2>2, <2>3, <2>4
<1>6. ASSUME NEW m \in Market
      PROVE  latestSignal(signals, now, m) = Latest({i \in all : signals[i].market = m})
  <2> DEFINE S == {i \in W : signals[i].market = m}
  <2>1. GetSignals(signals, now, MarketWants(m)) = Newest(S, 5)
    BY ListsShow
  <2>2. Len(signals) \in Nat /\ S \subseteq 1..Len(signals)
    BY WeekIs
  <2>3. Latest(Newest(S, 5)) = Latest(S)
    <3> HIDE DEF S
    <3> QED
      <4>1. ASSUME NEW k \in Nat, S \subseteq 1..k PROVE Latest(Newest(S, 5)) = Latest(S)
        BY <4>1, 5 \in Nat, 5 > 0, NewestLatest, Zenon
      <4> QED
        BY <2>2, <4>1
  <2>4. S = {i \in all : signals[i].market = m}
    BY <1>1
  <2> QED
    BY <2>1, <2>3, <2>4 DEF latestSignal
<1>7. cards = Tally(signals, T) /\ cards = SummaryCards(CategoryBreakdown(Categories(signals, now)))
  BY CardsShow
<1>8. resolved = rows /\ rows = {i \in all : signals[i].outcome # "open"}
  BY <1>1, ListsShow DEF ResolvedRows
<1>9. ASSUME NEW z \in Zones
      PROVE  SumOf([d \in DOMAIN trend[z] |-> trend[z][d].signals])
                = Cardinality({i \in all : signals[i].outcome # "open"})
  <2> DEFINE key == [i \in rows |-> formatInTz(signals[i], z)]
             chart == buildTrend(signals, rows, z)
  <2>1. z \in DOMAIN TIMEZONES
    BY DEF Zones, resolveDefault, TIMEZONES
  <2>2. TalliesOf(signals, rows, key, chart)
    BY <2>1, TrendShows
  <2>3. IsFiniteSet(rows)
    BY WeekIs DEF ResolvedRows
  <2>4. trend[z] = chart
    BY <1>8
  <2>5. SumOf([d \in DOMAIN chart |-> chart[d].signals]) = Cardinality(rows)
    <3> HIDE DEF key, chart, rows
    <3> QED
      BY <2>2, <2>3, TalliesAdd
  <2> QED
    BY <1>8, <2>4, <2>5
<1>10. /\ cards.resolved = 0 <=> today \notin DOMAIN trend["UTC"]
       /\ cards.resolved # 0 =>
              /\ trend["UTC"][today].wins = cards.wins
              /\ TrendChart(trend["UTC"])[today] = CardIsGreen(cards.wins, cards.resolved)
  <2> DEFINE chart == buildTrend(signals, rows, "UTC")
  <2>1. "UTC" \in Zones
    BY DEF Zones, resolveDefault, TIMEZONES
  <2>2. trend["UTC"] = chart
    BY <1>8, <2>1
  <2> DEFINE tally == Tally(signals, T)
  <2>3. /\ tally.resolved = 0 <=> today \notin DOMAIN chart
        /\ tally.resolved # 0 =>
              /\ chart[today].wins = tally.wins
              /\ TrendChart(chart)[today] = CardIsGreen(tally.wins, tally.resolved)
    BY TodayShows
  <2> HIDE DEF chart, tally, trend, today, cards
  <2> QED
    BY <1>7, <2>2, <2>3 DEF tally
<1>11. \A s \in DOMAIN strategies : Scorecard(strategies)[s].signals <= cards.signals
  <2> SUFFICES ASSUME NEW s \in DOMAIN strategies
               PROVE  Scorecard(strategies)[s].signals <= cards.signals
    OBVIOUS
  <2> DEFINE S == {i \in T : signals[i].strategy = s}
  <2>1. strategies[s] = Tally(signals, S)
    BY DEF Strategies
  <2>2. Scorecard(strategies)[s].signals = Cardinality(S)
    <3> HIDE DEF strategies, S
    <3> QED
      BY <2>1 DEF Scorecard, Coloured, Tally
  <2>3. cards.signals = Cardinality(T)
    <3> HIDE DEF cards, T
    <3> QED
      BY <1>7 DEF Tally
  <2>4. S \subseteq T
    OBVIOUS
  <2>5. Cardinality(S) <= Cardinality(T)
    <3> HIDE DEF S, T
    <3> QED
      BY <1>2, <2>4, FS_Subset
  <2> QED
    BY <2>2, <2>3, <2>5
<1>12. \A i \in all : /\ Badge(signals[i]) = "Active" =>
                            signals[i].exec = "new" /\ signals[i].outcome = "open"
                      /\ Badge(signals[i]) = "Executed" => signals[i].exec = "executed"
  <2> SUFFICES ASSUME NEW i \in all
               PROVE  /\ Badge(signals[i]) = "Active" =>
                            signals[i].exec = "new" /\ signals[i].outcome = "open"
                      /\ Badge(signals[i]) = "Executed" => signals[i].exec = "executed"
    OBVIOUS
  <2>1. signals[i].exec \in {"new", "executed", "skipped"}
    BY <1>1, <1>2 DEF Row
  <2> QED
    BY <2>1 DEF Badge
<1> HIDE DEF all, strategies, cards, resolved, trend, today
<1> QED
  BY <1>3, <1>4, <1>5, <1>6, <1>7, <1>8, <1>9, <1>10, <1>11, <1>12, ColoursAgree, Zenon
     DEF ViewsAgree, all, strategies, cards, resolved, trend, today, T

(* The overview, the lists, the filters, a market's signal, the cards, the *)
(* scorecard, the categories, the trend and the badges agree about the     *)
(* table, whatever was inserted, marked or resolved before, as long as it  *)
(* holds at most a hundred rows of the last two weeks, all of the last one *)
(* (GET /signals, GET /strategies/performance and the pages that show      *)
(* them).                                                                  *)
THEOREM PagesShowOneTable ==
  ASSUME KnownTags, Anything \notin Market
  PROVE  Spec => [](SmallTable => ViewsAgree)
<1>1. ASSUME HourInv, SmallTable PROVE ViewsAgree
  <2>1. OnOnePage(signals, now)
    BY <1>1 DEF HourInv, TableInv, NoneAhead, SmallTable, OnOnePage, Week
  <2> QED
    BY <2>1, ViewsShow
<1> QED
  BY <1>1, PagesInvariance, PTL

-----------------------------------------------------------------------------
(***************************************************************************)
(* The data feed and the page of a market, for any snapshots.              *)
(***************************************************************************)
SnapshotRow == [market : Market, at : Int]
(* The rows that have a time are of the last week.                         *)
Fresh(table, t) ==
    \A i \in DOMAIN table : table[i].at = NullTime \/ table[i].at > t - 168 * Hour

(* One of some rows is the newest.                                         *)
IsNewest(table, rows, i) == i \in rows /\ \A j \in rows : table[j].at <= table[i].at

LEMMA NewestExists ==
  ASSUME NEW table \in Seq(SnapshotRow), NEW rows \in SUBSET (DOMAIN table), rows # {}
  PROVE  \E i : IsNewest(table, rows, i)
<1> DEFINE Until(k) == {i \in rows : i <= k}
           A == {k \in Nat : Until(k) = {} \/ \E i : IsNewest(table, Until(k), i)}
<1>1. PICK n \in Nat : DOMAIN table = 1..n
  OBVIOUS
<1>2. \A i \in rows : i \in 1..n /\ table[i].at \in Int
  <2>1. \A i \in DOMAIN table : table[i] \in SnapshotRow
    OBVIOUS
  <2> QED
    BY <1>1, <2>1 DEF SnapshotRow
<1>3. 0 \in A
  <2>1. Until(0) = {}
    BY <1>2
  <2> QED
    BY <2>1
<1>4. ASSUME NEW k \in Nat, k \in A PROVE k + 1 \in A
  <2>1. Until(k + 1) = IF k + 1 \in rows THEN Until(k) \cup {k + 1} ELSE Until(k)
    BY <1>2
  <2>2. PICK T : T = Until(k)
    OBVIOUS
  <2>3. T \subseteq rows /\ (T = {} \/ \E i : IsNewest(table, T, i))
    BY <1>4, <2>2
  <2>4. PICK U : U = Until(k + 1)
    OBVIOUS
  <2>5. U = {} \/ \E i : IsNewest(table, U, i)
    <3>1. CASE k + 1 \notin rows
      BY <2>1, <2>2, <2>3, <2>4, <3>1
    <3>2. CASE k + 1 \in rows /\ T = {}
      <4>1. U = {k + 1}
        BY <2>1, <2>2, <2>4, <3>2
      <4> QED
        BY <1>2, <3>2, <4>1 DEF IsNewest
    <3>3. CASE k + 1 \in rows /\ T # {}
      <4>1. PICK i : IsNewest(table, T, i)
        BY <2>3, <3>3
      <4>2. U = T \cup {k + 1}
        BY <2>1, <2>2, <2>4, <3>3
      <4>3. i \in T /\ table[i].at \in Int /\ table[k + 1].at \in Int
            /\ \A j \in T : table[j].at \in Int
        BY <1>2, <2>3, <3>3, <4>1 DEF IsNewest
      <4>4. CASE table[k + 1].at <= table[i].at
        BY <4>1, <4>2, <4>4 DEF IsNewest
      <4>5. CASE table[i].at <= table[k + 1].at
        <5>1. \A j \in T : table[j].at <= table[k + 1].at
          BY <4>1, <4>3, <4>5 DEF IsNewest
        <5> QED
          BY <4>2, <4>3, <5>1 DEF IsNewest
      <4> QED
        BY <4>3, <4>4, <4>5
    <3> QED
      BY <3>1, <3>2, <3>3
  <2>6. Until(k + 1) = {} \/ \E i : IsNewest(table, Until(k + 1), i)
    BY <2>4, <2>5
  <2>7. k + 1 \in Nat
    OBVIOUS
  <2> HIDE DEF Until
  <2> QED
    BY <2>6, <2>7
<1>5. n \in A
  <2> HIDE DEF A
  <2> QED
    BY <1>3, <1>4, NatInductionOnSet
<1>6. Until(n) = rows
  BY <1>1, <1>2
<1> QED
  BY <1>5, <1>6

(* What DataFeedIsCurrent says of a table and a market.                    *)
FeedAgrees(table, known, t, m) ==
    LET feed == SnapshotsTable(table, known)
        page == MarketPage(table, known, t, m)
        timed == \A i \in DOMAIN table : table[i].at # NullTime
    IN  /\ \A i, j \in page.points :
                HourOf(table[i]) = HourOf(table[j]) => table[i].at = table[j].at
        /\ timed => (m \in DOMAIN feed <=> page.points # {})
        /\ timed /\ m \in DOMAIN feed => feed[m] = page.latest
        /\ \A i \in page.latest, j \in page.points : table[j].at <= table[i].at

Hourly(table, rows) ==
    UNION {DistinctOn({i \in rows : HourOf(table[i]) = h}, table) :
              h \in {HourOf(table[i]) : i \in rows}}

LEMMA FeedShows ==
  ASSUME NEW table \in Seq(SnapshotRow), NEW known, NEW t \in Int, Fresh(table, t), NEW m
  PROVE  FeedAgrees(table, known, t, m)
<1> DEFINE R == {i \in Known(table, known) : table[i].market = m}
           W == {i \in R : table[i].at # NullTime /\ table[i].at > t - 168 * Hour}
           OfHour(h) == {i \in W : HourOf(table[i]) = h}
           P == Hourly(table, W)
           feed == SnapshotsTable(table, known)
           page == MarketPage(table, known, t, m)
           timed == \A i \in DOMAIN table : table[i].at # NullTime
<1>1. page = [latest |-> DistinctOn(P, table), points |-> P]
  <2>1. AtMost(168, 0, 720) = 168
    BY DEF AtMost
  <2>2. W = {i \in R : table[i].at # NullTime /\ table[i].at > t - AtMost(168, 0, 720) * Hour}
    BY <2>1
  <2>3. GetHistory(table, known, t, m, 168) = P
    <3> DEFINE V == {i \in R : table[i].at # NullTime
                               /\ table[i].at > t - AtMost(168, 0, 720) * Hour}
    <3>1. GetHistory(table, known, t, m, 168) = IF 168 = 0 THEN R ELSE Hourly(table, V)
      BY DEF GetHistory, Hourly
    <3>2. V = W
      BY <2>2
    <3> HIDE DEF V, W, R
    <3> QED
      BY <3>1, <3>2
  <2> QED
    BY <2>3 DEF MarketPage
<1>2. R \subseteq DOMAIN table /\ W \subseteq R /\ \A i \in DOMAIN table : table[i].at \in Int
  <2>1. \A i \in DOMAIN table : table[i] \in SnapshotRow
    OBVIOUS
  <2> QED
    BY <2>1 DEF Known, SnapshotRow
<1>3. \A i, j \in W : SortsBefore(table[i], table[j]) <=> table[j].at <= table[i].at
  BY <1>2 DEF SortsBefore
<1>4. \A i : i \in P <=> i \in W /\ \A j \in W : HourOf(table[j]) = HourOf(table[i]) => table[j].at <= table[i].at
  <2> HIDE DEF R, W
  <2>1. \A i : i \in P <=> \E h \in {HourOf(table[j]) : j \in W} : i \in DistinctOn(OfHour(h), table)
    BY DEF Hourly
  <2>2. \A i, h : i \in DistinctOn(OfHour(h), table)
                    <=> i \in W /\ HourOf(table[i]) = h
                        /\ \A j \in W : HourOf(table[j]) = h => table[j].at <= table[i].at
    BY <1>3 DEF DistinctOn
  <2> HIDE DEF P, OfHour
  <2> QED
    BY <2>1, <2>2
<1>5. ASSUME NEW i \in W
      PROVE  \E p \in P : HourOf(table[p]) = HourOf(table[i]) /\ table[i].at <= table[p].at
  <2> DEFINE S == OfHour(HourOf(table[i]))
  <2>1. S \subseteq DOMAIN table /\ i \in S /\ S \subseteq W
    BY <1>2
  <2>3. PICK p \in S : \A j \in S : table[j].at <= table[p].at
    <3> HIDE DEF S
    <3> QED
      BY <2>1, NewestExists DEF IsNewest
  <2>4. \A j \in W : HourOf(table[j]) = HourOf(table[i]) => j \in S
    OBVIOUS
  <2>5. HourOf(table[p]) = HourOf(table[i]) /\ p \in W
    BY <2>3
  <2> HIDE DEF R, W, P, S
  <2> QED
    BY <1>4, <2>1, <2>3, <2>4, <2>5
<1>6. timed => W = R
  BY <1>2 DEF Fresh
<1>7. m \in DOMAIN feed <=> R # {}
  BY DEF SnapshotsTable, ListSnapshotRows
<1>8. m \in DOMAIN feed =>
        /\ R = {i \in DOMAIN table : table[i].market = m}
        /\ feed[m] = DistinctOn(R, table)
  <2> SUFFICES ASSUME m \in DOMAIN feed
               PROVE  /\ R = {i \in DOMAIN table : table[i].market = m}
                      /\ feed[m] = DistinctOn(R, table)
    OBVIOUS
  <2>1. m \in DOMAIN known
    BY DEF SnapshotsTable, ListSnapshotRows, Known
  <2>2. R = {i \in DOMAIN table : table[i].market = m}
    BY <2>1 DEF Known
  <2>3. feed[m] = DistinctOn({i \in DOMAIN table : table[i].market = m}, table)
    BY DEF SnapshotsTable, ListSnapshotRows
  <2> HIDE DEF feed, R
  <2> QED
    BY <2>2, <2>3
<1>9. \A i : i \in DistinctOn(P, table) <=> i \in P /\ \A j \in P : table[j].at <= table[i].at
  <2> HIDE DEF R, W, P
  <2> QED
    BY <1>3, <1>4 DEF DistinctOn
<1>10. \A i : i \in DistinctOn(W, table) <=> i \in W /\ \A j \in W : table[j].at <= table[i].at
  <2> HIDE DEF R, W, P
  <2> QED
    BY <1>3 DEF DistinctOn
<1>11. DistinctOn(W, table) = DistinctOn(P, table)
  <2> HIDE DEF R, W, P
  <2>1. ASSUME NEW i \in DistinctOn(W, table) PROVE i \in DistinctOn(P, table)
    BY <1>4, <1>9, <1>10
  <2>2. ASSUME NEW i \in DistinctOn(P, table) PROVE i \in DistinctOn(W, table)
    <3>1. i \in P /\ i \in W /\ \A j \in P : table[j].at <= table[i].at
      BY <1>4, <1>9
    <3>2. ASSUME NEW j \in W PROVE table[j].at <= table[i].at
      <4>1. PICK p \in P : table[j].at <= table[p].at
        BY <1>5
      <4>2. table[p].at <= table[i].at
        BY <3>1
      <4>3. table[p].at \in Int /\ table[i].at \in Int /\ table[j].at \in Int
        BY <1>2, <1>4, <3>1
      <4> QED
        BY <4>1, <4>2, <4>3
    <3> QED
      BY <1>10, <3>1, <3>2
  <2> QED
    BY <2>1, <2>2
<1> HIDE DEF R, W, P, feed, page
<1>12. ASSUME NEW i \in P, NEW j \in P, HourOf(table[i]) = HourOf(table[j])
       PROVE  table[i].at = table[j].at
  <2>1. table[i].at <= table[j].at /\ table[j].at <= table[i].at
    BY <1>4, <1>12
  <2>2. table[i].at \in Int /\ table[j].at \in Int
    BY <1>2, <1>4
  <2> QED
    BY <2>1, <2>2
<1>13. W # {} <=> P # {}
  BY <1>4, <1>5
<1>14. page.points = P /\ page.latest = DistinctOn(P, table)
  BY <1>1
<1>15. timed => (m \in DOMAIN feed <=> page.points # {})
  BY <1>6, <1>7, <1>13, <1>14
<1>16. timed /\ m \in DOMAIN feed => feed[m] = page.latest
  BY <1>6, <1>8, <1>11, <1>14
<1>17. \A i \in page.latest, j \in page.points : table[j].at <= table[i].at
  BY <1>9, <1>14
<1> QED
  BY <1>12, <1>14, <1>15, <1>16, <1>17 DEF FeedAgrees, feed, page

(***************************************************************************)
(* The markets of any two batches: what an upsert leaves in a table, the   *)
(* order of its rows and the rows a search finds.                          *)
(***************************************************************************)
(* The words a market can be searched for: none of them is empty, or is    *)
(* the question of a market that has none.                                 *)
SearchWords == "" \notin Words /\ NoText \notin Words

MarketRow(row) ==
    /\ row.question \in Words \cup {NoText} /\ row.tags \in SUBSET Words /\ row.score \in Int
    /\ DOMAIN row = {"conditionId", "question", "tags", "score", "addedAt", "updatedAt"}
MarketRows(markets) ==
    IsFiniteSet(DOMAIN markets) /\ \A m \in DOMAIN markets : MarketRow(markets[m])

(* What a batch makes of a row of the table. *)
Says(row, input) ==
    row.question = input.question /\ row.tags = input.tags /\ row.score = input.score

Applied(markets, batch, after) ==
    IF Refused(batch) THEN after = markets
    ELSE /\ DOMAIN after = DOMAIN markets \cup {batch[i].marketId : i \in DOMAIN batch}
         /\ \A i \in DOMAIN batch :
                /\ Says(after[batch[i].marketId], batch[i])
                /\ batch[i].marketId \in DOMAIN markets =>
                        after[batch[i].marketId].conditionId
                            = markets[batch[i].marketId].conditionId
         /\ \A m \in DOMAIN markets \ {batch[i].marketId : i \in DOMAIN batch} :
                after[m] = markets[m]

LEMMA UpsertApplies ==
  ASSUME NEW markets, MarketRows(markets), NEW n \in Nat, NEW batch \in [1..n -> MarketInput],
         NEW t
  PROVE  /\ Applied(markets, batch, Upsert(markets, batch, t))
         /\ MarketRows(Upsert(markets, batch, t))
<1>1. CASE Refused(batch)
  BY <1>1 DEF Upsert, Applied
<1>2. CASE ~Refused(batch)
  <2> DEFINE named == {batch[i].marketId : i \in DOMAIN batch}
             InputOf(m) == batch[CHOOSE i \in DOMAIN batch : batch[i].marketId = m]
             RowOf(m) == IF m \notin named THEN markets[m]
                         ELSE IF m \in DOMAIN markets THEN Merged(markets[m], InputOf(m), t)
                         ELSE NewMarket(InputOf(m), t)
  <2>1. Upsert(markets, batch, t) = [m \in DOMAIN markets \cup named |-> RowOf(m)]
    BY <1>2 DEF Upsert
  <2>2. PICK after : after = Upsert(markets, batch, t)
    OBVIOUS
  <2>3. DOMAIN after = DOMAIN markets \cup named
        /\ \A m \in DOMAIN markets \cup named : after[m] = RowOf(m)
    BY <2>1, <2>2
  <2>4. \A i \in DOMAIN batch : InputOf(batch[i].marketId) = batch[i]
    BY <1>2 DEF Refused
  <2>5. \A i \in DOMAIN batch : batch[i] \in MarketInput
    OBVIOUS
  <2>6. ASSUME NEW input \in MarketInput
        PROVE  /\ Says(NewMarket(input, t), input)
               /\ MarketRow(NewMarket(input, t))
    BY DEF MarketInput, NewMarket, Says, MarketRow
  <2>7. ASSUME NEW input \in MarketInput, NEW row, MarketRow(row)
        PROVE  /\ Says(Merged(row, input, t), input)
               /\ Merged(row, input, t).conditionId = row.conditionId
               /\ MarketRow(Merged(row, input, t))
    BY <2>7 DEF MarketInput, Merged, Says, MarketRow
  <2>8. ASSUME NEW i \in DOMAIN batch
        PROVE  LET m == batch[i].marketId
               IN  /\ m \in named
                   /\ Says(after[m], batch[i]) /\ MarketRow(after[m])
                   /\ m \in DOMAIN markets => after[m].conditionId = markets[m].conditionId
    <3>1. PICK m : m = batch[i].marketId
      OBVIOUS
    <3>2. m \in named /\ InputOf(m) = batch[i] /\ batch[i] \in MarketInput
      BY <2>4, <2>5, <3>1
    <3>3. CASE m \in DOMAIN markets
      <4>1. MarketRow(markets[m])
        BY <3>3 DEF MarketRows
      <4>2. after[m] = Merged(markets[m], batch[i], t)
        BY <2>3, <3>2, <3>3
      <4> HIDE DEF named
      <4> QED
        BY <2>7, <3>1, <3>2, <4>1, <4>2
    <3>4. CASE m \notin DOMAIN markets
      <4>1. after[m] = NewMarket(batch[i], t)
        BY <2>3, <3>2, <3>4
      <4> HIDE DEF named
      <4> QED
        BY <2>6, <3>1, <3>2, <3>4, <4>1
    <3> QED
      BY <3>3, <3>4
  <2>9. \A m \in DOMAIN markets \ named : after[m] = markets[m]
    BY <2>3
  <2>10. IsFiniteSet(DOMAIN after)
    <3>1. IsFiniteSet(DOMAIN batch)
      <4>1. DOMAIN batch = 1..n
        OBVIOUS
      <4> QED
        BY <4>1, FS_Interval
    <3>2. \E f : f \in Surjection(DOMAIN batch, named)
      <4> WITNESS [i \in DOMAIN batch |-> batch[i].marketId]
      <4> QED
        BY DEF Surjection
    <3>3. IsFiniteSet(named)
      <4> HIDE DEF named
      <4> QED
        BY <3>1, <3>2, FS_Surjection
    <3>4. IsFiniteSet(DOMAIN markets)
      BY DEF MarketRows
    <3>5. IsFiniteSet(DOMAIN markets \cup named)
      <4> HIDE DEF named
      <4> QED
        BY <3>3, <3>4, FS_Union
    <3> HIDE DEF named, RowOf
    <3> QED
      BY <2>3, <3>5
  <2>11. \A m \in DOMAIN after : MarketRow(after[m])
    <3> SUFFICES ASSUME NEW m \in DOMAIN after PROVE MarketRow(after[m])
      OBVIOUS
    <3>1. CASE m \in named
      <4>1. PICK i \in DOMAIN batch : m = batch[i].marketId
        BY <3>1
      <4> HIDE DEF named
      <4> QED
        BY <2>8, <4>1
    <3>2. CASE m \in DOMAIN markets \ named
      BY <2>9, <3>2 DEF MarketRows
    <3> HIDE DEF named
    <3> QED
      BY <2>3, <3>1, <3>2
  <2>12. Applied(markets, batch, after)
    <3> HIDE DEF InputOf, RowOf
    <3> QED
      BY <1>2, <2>3, <2>8, <2>9 DEF Applied
  <2> QED
    BY <2>2, <2>10, <2>11, <2>12 DEF MarketRows
<1> QED
  BY <1>1, <1>2

(* The rows of GET /markets.                                               *)
ListedBy(list, set, markets) ==
    /\ list \in SetToSeqs(set)
    /\ \A i, j \in DOMAIN list : i < j => markets[list[i]].score >= markets[list[j]].score

LEMMA LowestExists ==
  ASSUME NEW markets, MarketRows(markets), NEW set \in SUBSET (DOMAIN markets), set # {}
  PROVE  \E e \in set : \A m \in set : markets[m].score >= markets[e].score
<1> DEFINE Low(T) == \E e \in T : \A m \in T : markets[m].score >= markets[e].score
           F == {T \in SUBSET set : T = {} \/ Low(T)}
<1>1. IsFiniteSet(set) /\ \A m \in set : markets[m].score \in Int
  BY FS_Subset DEF MarketRows, MarketRow
<1>2. ASSUME NEW T \in SUBSET set, NEW e \in set \ T, T \in F PROVE T \cup {e} \in F
  <2>1. CASE T = {}
    BY <1>1, <2>1
  <2>2. CASE T # {}
    <3>1. PICK low \in T : \A m \in T : markets[m].score >= markets[low].score
      BY <1>2, <2>2
    <3>2. markets[low].score \in Int /\ markets[e].score \in Int
          /\ \A m \in T : markets[m].score \in Int
      BY <1>1
    <3>3. Low(T \cup {e})
      <4>1. CASE markets[e].score >= markets[low].score
        BY <3>1, <4>1
      <4>2. CASE markets[low].score >= markets[e].score
        BY <3>1, <3>2, <4>2
      <4> QED
        BY <3>2, <4>1, <4>2
    <3> QED
      BY <3>3
  <2> QED
    BY <2>1, <2>2
<1>3. {} \in F
  OBVIOUS
<1>4. \A T \in SUBSET set : T \in F
  <2> HIDE DEF F
  <2> QED
    BY <1>1, <1>2, <1>3, SetInductionOnSet
<1> QED
  BY <1>4

LEMMA ListExists ==
  ASSUME NEW markets, MarketRows(markets)
  PROVE  \E list : ListedBy(list, DOMAIN markets, markets)
<1> DEFINE S == DOMAIN markets
           A == {n \in Nat : \A T \in SUBSET S :
                    Cardinality(T) = n => \E list : ListedBy(list, T, markets)}
<1>1. IsFiniteSet(S) /\ \A T \in SUBSET S : IsFiniteSet(T) /\ Cardinality(T) \in Nat
  BY FS_Subset, FS_CardinalityType DEF MarketRows
<1>2. 0 \in A
  <2> SUFFICES ASSUME NEW T \in SUBSET S, Cardinality(T) = 0
               PROVE  \E list : ListedBy(list, T, markets)
    OBVIOUS
  <2>1. T = {}
    BY <1>1, FS_EmptySet
  <2>2. << >> \in [1..Cardinality(T) -> T]
    BY <2>1, FS_EmptySet
  <2> QED
    BY <2>2, FS_EmptySet, <2>1 DEF ListedBy, SetToSeqs
<1>3. ASSUME NEW n \in Nat, n \in A PROVE n + 1 \in A
  <2> SUFFICES ASSUME NEW T \in SUBSET S, Cardinality(T) = n + 1
               PROVE  \E list : ListedBy(list, T, markets)
    OBVIOUS
  <2>1. T # {}
    BY FS_EmptySet
  <2>2. PICK e \in T : \A m \in T : markets[m].score >= markets[e].score
    BY <2>1, LowestExists
  <2>3. Cardinality(T \ {e}) = n
    BY <1>1, FS_RemoveElement
  <2>4. PICK list : ListedBy(list, T \ {e}, markets)
    BY <1>3, <2>3
  <2>5. list \in [1..n -> T \ {e}]
        /\ (\A i, j \in 1..n : i # j => list[i] # list[j])
        /\ \A i, j \in 1..n : i < j => markets[list[i]].score >= markets[list[j]].score
    BY <2>3, <2>4 DEF ListedBy, SetToSeqs
  <2>6. PICK longer : longer = [i \in 1..(n + 1) |-> IF i = n + 1 THEN e ELSE list[i]]
    OBVIOUS
  <2>7. longer \in [1..(n + 1) -> T]
    BY <2>5, <2>6
  <2>8. \A i, j \in 1..(n + 1) : i # j => longer[i] # longer[j]
    BY <2>5, <2>6
  <2>9. \A i, j \in 1..(n + 1) : i < j => markets[longer[i]].score >= markets[longer[j]].score
    BY <2>2, <2>5, <2>6
  <2> QED
    BY <2>7, <2>8, <2>9 DEF ListedBy, SetToSeqs
<1>4. Nat \subseteq A
  <2> HIDE DEF A
  <2> QED
    BY <1>2, <1>3, NatInductionOnSet
<1> QED
  BY <1>1, <1>4

LEMMA RowsAreSorted ==
  ASSUME NEW markets, MarketRows(markets)
  PROVE  /\ Descending(markets)
         /\ Len(ListMarketRows(markets)) = Cardinality(DOMAIN markets)
         /\ Range(ListMarketRows(markets)) = DOMAIN markets
<1> DEFINE S == DOMAIN markets
<1>1. PICK list : list = ListMarketRows(markets)
  OBVIOUS
<1>2. ListedBy(list, S, markets)
  BY <1>1, ListExists DEF ListMarketRows, ListedBy
<1>3. IsFiniteSet(S) /\ Cardinality(S) \in Nat
  BY FS_CardinalityType DEF MarketRows
<1>4. list \in [1..Cardinality(S) -> S] /\ \A i, j \in 1..Cardinality(S) : i # j => list[i] # list[j]
  BY <1>2 DEF ListedBy, SetToSeqs
<1>5. Len(list) = Cardinality(S)
  BY <1>3, <1>4
<1>6. Range(list) = S
  <2>1. list \in Injection(1..Cardinality(S), S)
    BY <1>4 DEF Injection, IsInjective
  <2>2. Cardinality(1..Cardinality(S)) = Cardinality(S)
    BY <1>3, FS_Interval
  <2>3. list \in Surjection(1..Cardinality(S), S)
    BY <1>3, <2>1, <2>2, FS_Injection
  <2>4. \A m \in S : \E i \in 1..Cardinality(S) : list[i] = m
    BY <2>3 DEF Surjection
  <2>5. DOMAIN list = 1..Cardinality(S) /\ \A i \in 1..Cardinality(S) : list[i] \in S
    BY <1>4
  <2> HIDE DEF S
  <2> QED
    BY <2>4, <2>5 DEF Range
<1> QED
  BY <1>1, <1>2, <1>5, <1>6 DEF Descending, ListedBy

(* What a search finds.                                                    *)
LEMMA SearchFinds ==
  ASSUME SearchWords, NEW markets, MarketRows(markets), NEW m \in DOMAIN markets
  PROVE  {w \in Words : m \in filteredMarkets(markets, w)}
            = (markets[m].tags \cup {markets[m].question}) \ {NoText}
<1>1. ASSUME NEW w \in Words, NEW text PROVE Includes(text, w) <=> text = w
  BY Zenon DEF Includes, SearchWords
<1>2. NoText \notin Words
  BY DEF SearchWords
<1>3. markets[m].question \in Words \cup {NoText} /\ markets[m].tags \in SUBSET Words
  BY DEF MarketRows, MarketRow
<1>4. ASSUME NEW w \in Words
      PROVE  m \in filteredMarkets(markets, w) <=> w = markets[m].question \/ w \in markets[m].tags
  <2>1. m \in Range(ListMarketRows(markets))
    BY RowsAreSorted
  <2>2. m \in filteredMarkets(markets, w) <=>
           \/ markets[m].question # NoText /\ Includes(markets[m].question, w)
           \/ \E tag \in markets[m].tags : Includes(tag, w)
    BY <2>1, Zenon DEF filteredMarkets
  <2> QED
    BY <1>1, <1>2, <2>2
<1> QED
  BY <1>2, <1>3, <1>4

LEMMA BatchesShow ==
  ASSUME ConstantAssumption, SearchWords
  PROVE  BatchesAreApplied
<1> SUFFICES ASSUME NEW first \in Batches, NEW second \in Batches
             PROVE  LET before == Upsert(<<>>, first, 0)
                        after == Upsert(before, second, 1)
                        inputs == IF Refused(second) THEN {} ELSE Range(second)
                    IN  /\ Refused(second) => after = before
                        /\ DOMAIN after = DOMAIN before \cup {input.marketId : input \in inputs}
                        /\ Descending(after)
                        /\ \A up \in BOOLEAN :
                                SystemStatus(Health(after, <<>>, <<>>, up), FALSE).counts["markets"]
                                    \in {NoCount, Len(ListMarketRows(after))}
                        /\ \A input \in inputs :
                            /\ {w \in Words : input.marketId \in filteredMarkets(after, w)}
                                    = (input.tags \cup {input.question}) \ {NoText}
                            /\ input.marketId \in DOMAIN before =>
                                    after[input.marketId].conditionId
                                        = before[input.marketId].conditionId
                        /\ \A m \in DOMAIN before :
                                m \notin {input.marketId : input \in inputs} => after[m] = before[m]
  BY Zenon DEF BatchesAreApplied
<1>0. ASSUME NEW batch \in Batches PROVE \E n \in Nat : batch \in [1..n -> MarketInput]
  <2>1. PICK n \in 0..2 : batch \in [1..n -> Offers]
    BY DEF Batches
  <2>2. batch \in [1..n -> MarketInput]
    BY <2>1 DEF ConstantAssumption
  <2> QED
    BY <2>1, <2>2
<1>1. PICK n \in Nat : first \in [1..n -> MarketInput]
  BY <1>0
<1>2. PICK k \in Nat : second \in [1..k -> MarketInput]
  BY <1>0
<1>3. PICK before : before = Upsert(<<>>, first, 0)
  OBVIOUS
<1>4. PICK after : after = Upsert(before, second, 1)
  OBVIOUS
<1>5. MarketRows(<<>>)
  BY FS_EmptySet DEF MarketRows
<1>6. MarketRows(before)
  BY <1>1, <1>3, <1>5, UpsertApplies
<1>7. MarketRows(after) /\ Applied(before, second, after)
  BY <1>2, <1>4, <1>6, UpsertApplies
<1>8. PICK inputs : inputs = IF Refused(second) THEN {} ELSE Range(second)
  OBVIOUS
<1>9. Refused(second) => after = before
  BY <1>7 DEF Applied
<1>10. DOMAIN after = DOMAIN before \cup {input.marketId : input \in inputs}
       /\ \A m \in DOMAIN before :
            m \notin {input.marketId : input \in inputs} => after[m] = before[m]
  <2>1. CASE Refused(second)
    BY <1>8, <1>9, <2>1
  <2>2. CASE ~Refused(second)
    <3>1. {input.marketId : input \in inputs} = {second[i].marketId : i \in DOMAIN second}
      BY <1>8, <2>2 DEF Range
    <3> QED
      BY <1>7, <2>2, <3>1 DEF Applied
  <2> QED
    BY <2>1, <2>2
<1>11. ASSUME NEW input \in inputs
       PROVE  /\ {w \in Words : input.marketId \in filteredMarkets(after, w)}
                    = (input.tags \cup {input.question}) \ {NoText}
              /\ input.marketId \in DOMAIN before =>
                    after[input.marketId].conditionId = before[input.marketId].conditionId
  <2>1. ~Refused(second)
    BY <1>8
  <2>2. PICK i \in DOMAIN second : input = second[i]
    BY <1>8, <2>1 DEF Range
  <2>3. PICK m : m = second[i].marketId
    OBVIOUS
  <2>4. m \in DOMAIN after /\ Says(after[m], second[i])
        /\ (m \in DOMAIN before => after[m].conditionId = before[m].conditionId)
    BY <1>7, <2>1, <2>3 DEF Applied
  <2>5. {w \in Words : m \in filteredMarkets(after, w)}
            = (after[m].tags \cup {after[m].question}) \ {NoText}
    BY <1>7, <2>4, SearchFinds
  <2> QED
    BY <2>2, <2>3, <2>4, <2>5 DEF Says
<1>12. Descending(after) /\ Len(ListMarketRows(after)) = Cardinality(DOMAIN after)
  BY <1>7, RowsAreSorted
<1>13. ASSUME NEW up \in BOOLEAN
       PROVE  SystemStatus(Health(after, <<>>, <<>>, up), FALSE).counts["markets"]
                    \in {NoCount, Cardinality(DOMAIN after)}
  BY DEF SystemStatus, Health
<1> QED
  BY <1>3, <1>4, <1>8, <1>9, <1>10, <1>11, <1>12, <1>13
(* A post adds one row or none.                                            *)
LEMMA PostAdds ==
  ASSUME NEW t \in Nat, NEW last \in {t, t + 1},
         NEW table \in Seq(SnapshotRow), Fresh(table, t + 1), NEW body \in SnapshotInput,
         now = t
  PROVE  /\ PostSnapshot(table, body, last) \in Seq(SnapshotRow)
         /\ Fresh(PostSnapshot(table, body, last), t + 1)
<1>1. CASE body.market = NoText
  BY <1>1 DEF PostSnapshot
<1>2. CASE body.market # NoText
  <2>1. PICK row : row = [market |-> body.market,
                          at |-> IF body.at = NoTime THEN last ELSE body.at]
    OBVIOUS
  <2>2. body.market \in Market /\ body.at \in {t - 1, t, NoTime, NullTime}
    BY DEF SnapshotInput
  <2>3. row.at = NullTime \/ row.at \in {t - 1, t, t + 1}
    BY <2>1, <2>2
  <2>4. row \in SnapshotRow
    BY <2>1, <2>2, <2>3 DEF SnapshotRow, NullTime
  <2>5. row.at = NullTime \/ row.at > (t + 1) - 168 * Hour
    BY <2>3 DEF Hour
  <2>6. PICK longer : longer = Append(table, row)
    OBVIOUS
  <2>7. longer \in Seq(SnapshotRow)
    BY <2>4, <2>6
  <2>8. ASSUME NEW i \in DOMAIN longer
        PROVE  longer[i].at = NullTime \/ longer[i].at > (t + 1) - 168 * Hour
    <3>1. (i \in DOMAIN table /\ longer[i] = table[i]) \/ longer[i] = row
      BY <2>4, <2>6
    <3> QED
      BY <2>5, <3>1 DEF Fresh
  <2>9. PostSnapshot(table, body, last) = longer
    BY <1>2, <2>1, <2>6 DEF PostSnapshot
  <2> QED
    BY <2>7, <2>8, <2>9 DEF Fresh
<1> QED
  BY <1>1, <1>2

LEMMA SnapshotsShow ==
  ASSUME now \in Nat, NEW first \in SnapshotInput, NEW second \in SnapshotInput, NEW known
  PROVE  LET table == PostSnapshot(PostSnapshot(<<>>, first, now), second, now + 1)
         IN  FeedAgrees(table, known, now + 1, first.market)
<1>1. PICK t : t = now
  OBVIOUS
<1>2. <<>> \in Seq(SnapshotRow) /\ Fresh(<<>>, t + 1)
  BY DEF Fresh
<1>3. PICK one : one = PostSnapshot(<<>>, first, t)
  OBVIOUS
<1>4. one \in Seq(SnapshotRow) /\ Fresh(one, t + 1)
  BY <1>1, <1>2, <1>3, PostAdds
<1>5. PICK two : two = PostSnapshot(one, second, t + 1)
  OBVIOUS
<1>6. two \in Seq(SnapshotRow) /\ Fresh(two, t + 1)
  BY <1>1, <1>4, <1>5, PostAdds
<1>7. FeedAgrees(two, known, t + 1, first.market)
  BY <1>1, <1>6, FeedShows
<1> QED
  BY <1>1, <1>3, <1>5, <1>7

LEMMA FeedIsCurrent ==
  ASSUME ConstantAssumption, SearchWords, now \in Nat
  PROVE  DataFeedIsCurrent
<1>1. BatchesAreApplied
  BY BatchesShow
<1> DEFINE known == [m \in Market \ {UnknownMarket} |-> "some row"]
<1>3. ASSUME NEW first \in SnapshotInput, NEW second \in SnapshotInput
      PROVE  LET table == PostSnapshot(PostSnapshot(<<>>, first, now), second, now + 1)
             IN  FeedAgrees(table, known, now + 1, first.market)
  BY SnapshotsShow
<1> QED
  BY <1>1, <1>3, Zenon DEF DataFeedIsCurrent, FeedAgrees

(* The pages agree about signals, markets and snapshots alike: at every    *)
(* state whose table ViewsShow speaks of.                                  *)
THEOREM PagesShowTheSame ==
  ASSUME KnownTags, Anything \notin Market, SearchWords
  PROVE  Spec => [](SmallTable => PagesAgree)
<1>1. ASSUME HourInv PROVE DataFeedIsCurrent
  <2>1. now \in Nat
    BY <1>1 DEF HourInv, TableInv
  <2> QED
    BY <2>1, ConstantAssumption, FeedIsCurrent
<1>2. (SmallTable => ViewsAgree) /\ DataFeedIsCurrent => (SmallTable => PagesAgree)
  BY DEF PagesAgree
<1> QED
  BY <1>1, <1>2, PagesInvariance, PagesShowOneTable, PTL

-----------------------------------------------------------------------------
(***************************************************************************)
(* The schema, for every database of the type, every place among the bot's *)
(* own migrations and every sequence of statements of other writers: the   *)
(* API server's migrations, other columns and doubled posts.               *)
(***************************************************************************)
(* The statements another writer may put between the migrations of the     *)
(* bot, the statements of the bot itself, and the tables that its columns  *)
(* belong to.                                                              *)
Dedup == "signals_dedup_hourly"
Other == {Add(c) : c \in Columns \ categoryColumn} \cup {CreateConfig, PostTwice}
Own == {Add(c) : c \in Columns \ categoryColumn}
          \cup {DeleteDuplicates, Drop(Dedup), CreateUnique(Dedup),
                CreateUnique("positions_unique_mts")}
Core == Tables \ {"bot_config"}

(* What each statement does to a database that has those tables.           *)
LEMMA RunAdd ==
  ASSUME NEW db \in Database, Core \subseteq db.tables, NEW c \in Columns
  PROVE  run(db, Add(c)) = [db EXCEPT !.columns = @ \cup {c}]
<1>1. c[1] \in Core
  BY DEF Columns, signalColumns, askColumns, repriceColumns, categoryColumn, peakColumns, Core, Tables
<1>2. Add(c).op = "add" /\ Add(c).what = c
  BY DEF Add
<1> QED
  BY <1>1, <1>2 DEF run, Succeeds, Effect

LEMMA RunConfig ==
  ASSUME NEW db \in Database
  PROVE  run(db, CreateConfig) = [db EXCEPT !.tables = @ \cup {"bot_config"}]
BY DEF run, Succeeds, Effect, CreateConfig

LEMMA RunDelete ==
  ASSUME NEW db \in Database, Core \subseteq db.tables
  PROVE  run(db, DeleteDuplicates)
            = [db EXCEPT !.duplicates = IF @ = "free" THEN "none" ELSE @]
BY DEF run, Succeeds, Effect, DeleteDuplicates, Core, Tables

LEMMA RunDrop ==
  ASSUME NEW db \in Database
  PROVE  run(db, Drop(Dedup)) = [db EXCEPT !.unique = @ \ {Dedup}]
<1>1. Range(<<Dedup>>) = {Dedup}
  BY DEF Range
<1> QED
  BY <1>1 DEF run, Succeeds, Effect, Drop

LEMMA RunUnique ==
  ASSUME NEW db \in Database, Core \subseteq db.tables, NEW index \in Indexes
  PROVE  run(db, CreateUnique(index))
            = IF index = Dedup => db.duplicates = "none"
              THEN [db EXCEPT !.unique = @ \cup {index}] ELSE db
<1>1. Range(<<index>>) = {index}
  BY DEF Range
<1>2. CreateUnique(index).op = "unique" /\ CreateUnique(index).what = <<index>>
  BY DEF CreateUnique
<1> QED
  BY <1>1, <1>2 DEF run, Succeeds, Effect, Core, Tables, Dedup

LEMMA RunPost ==
  ASSUME NEW db \in Database, Core \subseteq db.tables
  PROVE  run(db, PostTwice)
            = IF db.duplicates = "none" /\ Dedup \notin db.unique
              THEN [db EXCEPT !.duplicates = "free"] ELSE db
BY DEF run, Succeeds, Effect, PostTwice, Core, Tables, Dedup

(* The databases that a sequence of n statements goes through.             *)
RunsThrough(g, db, statements, n) ==
    /\ g[0] = db /\ RunAll(db, statements) = g[n]
    /\ \A k \in 0..(n - 1) : g[k + 1] = run(g[k], statements[k + 1])

LEMMA RunAllSteps ==
  ASSUME NEW db, NEW n \in Nat, NEW statements, DOMAIN statements = 1..n
  PROVE  \E g : RunsThrough(g, db, statements, n)
<1>1. RunAll(db, statements) = Folded([of |-> "schema"], db, statements)
  BY DEF RunAll, FoldLeft, MapThenFoldSet, Folded, Folds, AfterIt, Step
<1>2. \E g : Passes(g, [of |-> "schema"], db, statements, n)
  BY FoldSteps
<1> QED
  BY <1>1, <1>2 DEF Passes, Step, RunsThrough

(* A database that the migrations work on; and the unique index of the     *)
(* signals exists just when no two of them share an hour.                  *)
Positions == "positions_unique_mts"
Ready(db) == db \in Database /\ Core \subseteq db.tables
Distinct(db) == db.duplicates = "none" <=> Dedup \in db.unique

LEMMA KindsDiffer ==
  /\ DeleteDuplicates.op = "delete duplicates" /\ PostTwice.op = "post twice"
  /\ CreateConfig.op = "create config" /\ Drop(Dedup).op = "drop"
  /\ \A index \in Indexes : CreateUnique(index).op = "unique"
                            /\ CreateUnique(index).what = <<index>>
  /\ \A c : Add(c).op = "add"
  /\ Dedup \in Indexes /\ Positions \in Indexes /\ Dedup # Positions
  /\ CreateUnique(Dedup) # CreateUnique(Positions)
BY DEF DeleteDuplicates, PostTwice, CreateConfig, Drop, CreateUnique, Add, Dedup, Positions, Indexes

(* What a statement leaves as it was, whoever sends it.                    *)
Keeps(db, next, stmt) ==
    /\ Ready(next)
    /\ db.tables \subseteq next.tables
    /\ stmt \in Own => next.tables = db.tables
    /\ db.columns \subseteq next.columns /\ next.columns \subseteq db.columns \cup (Columns \ categoryColumn)
    /\ Positions \in db.unique => Positions \in next.unique
    /\ stmt \in {Drop(Dedup), CreateUnique(Dedup)} \/ (Dedup \in next.unique <=> Dedup \in db.unique)
    /\ \/ stmt \in {Drop(Dedup), CreateUnique(Dedup), DeleteDuplicates}
       \/ Distinct(db) => Distinct(next)
    /\ stmt \in {DeleteDuplicates, PostTwice} \/ next.duplicates = db.duplicates

LEMMA StatementKeeps ==
  ASSUME NEW db, Ready(db), NEW stmt \in Other \cup Own
  PROVE  Keeps(db, run(db, stmt), stmt)
<1> DEFINE next == run(db, stmt)
<1>0. db \in Database /\ Core \subseteq db.tables /\ db.duplicates \in {"none", "free", "ordered"}
      /\ db.columns \subseteq Columns /\ db.unique \subseteq Indexes /\ db.tables \subseteq Tables
  BY DEF Ready, Database
<1>1. ASSUME NEW c \in Columns \ categoryColumn, stmt = Add(c) PROVE Keeps(db, next, stmt)
  <2>1. next = [db EXCEPT !.columns = @ \cup {c}]
    BY <1>0, <1>1, RunAdd
  <2>2. Ready(next)
    BY <1>0, <2>1 DEF Ready, Database
  <2>3. /\ next.tables = db.tables /\ next.columns = db.columns \cup {c}
        /\ next.unique = db.unique /\ next.duplicates = db.duplicates
    BY <1>0, <2>1 DEF Database
  <2> HIDE DEF next
  <2> QED
    BY <2>2, <2>3 DEF Keeps, Distinct
<1>2. ASSUME stmt = CreateConfig PROVE Keeps(db, next, stmt)
  <2>1. next = [db EXCEPT !.tables = @ \cup {"bot_config"}]
    BY <1>0, <1>2, RunConfig
  <2>2. Ready(next)
    BY <1>0, <2>1 DEF Ready, Database, Tables
  <2>3. /\ next.tables = db.tables \cup {"bot_config"} /\ next.columns = db.columns
        /\ next.unique = db.unique /\ next.duplicates = db.duplicates
    BY <1>0, <2>1 DEF Database
  <2>4. stmt \notin Own
    BY <1>2, KindsDiffer DEF Own, Positions
  <2> HIDE DEF next
  <2> QED
    BY <2>2, <2>3, <2>4 DEF Keeps, Distinct
<1>3. ASSUME stmt = DeleteDuplicates PROVE Keeps(db, next, stmt)
  <2>1. next = [db EXCEPT !.duplicates = IF @ = "free" THEN "none" ELSE @]
    BY <1>0, <1>3, RunDelete
  <2>2. Ready(next)
    BY <1>0, <2>1 DEF Ready, Database
  <2>3. /\ next.tables = db.tables /\ next.columns = db.columns /\ next.unique = db.unique
    BY <1>0, <2>1 DEF Database
  <2> HIDE DEF next
  <2> QED
    BY <1>3, <2>2, <2>3 DEF Keeps
<1>4. ASSUME stmt = Drop(Dedup) PROVE Keeps(db, next, stmt)
  <2>1. next = [db EXCEPT !.unique = @ \ {Dedup}]
    BY <1>0, <1>4, RunDrop
  <2>2. Ready(next)
    BY <1>0, <2>1 DEF Ready, Database
  <2>3. /\ next.tables = db.tables /\ next.columns = db.columns
        /\ next.unique = db.unique \ {Dedup} /\ next.duplicates = db.duplicates
    BY <1>0, <2>1 DEF Database
  <2> HIDE DEF next
  <2> QED
    BY <1>4, <2>2, <2>3, KindsDiffer DEF Keeps
<1>5. ASSUME NEW index \in Indexes, stmt = CreateUnique(index) PROVE Keeps(db, next, stmt)
  <2>1. next = IF index = Dedup => db.duplicates = "none"
               THEN [db EXCEPT !.unique = @ \cup {index}] ELSE db
    BY <1>0, <1>5, RunUnique
  <2>2. Ready(next)
    BY <1>0, <2>1 DEF Ready, Database
  <2>3. /\ next.tables = db.tables /\ next.columns = db.columns /\ next.duplicates = db.duplicates
        /\ next.unique \in {db.unique, db.unique \cup {index}}
    BY <1>0, <2>1 DEF Database
  <2> HIDE DEF next
  <2> QED
    BY <1>5, <2>2, <2>3 DEF Keeps, Distinct
<1>6. ASSUME stmt = PostTwice PROVE Keeps(db, next, stmt)
  <2>1. next = IF db.duplicates = "none" /\ Dedup \notin db.unique
               THEN [db EXCEPT !.duplicates = "free"] ELSE db
    BY <1>0, <1>6, RunPost
  <2>2. Ready(next)
    BY <1>0, <2>1 DEF Ready, Database
  <2>3. /\ next.tables = db.tables /\ next.columns = db.columns /\ next.unique = db.unique
        /\ Distinct(db) => next.duplicates = db.duplicates
    BY <1>0, <2>1 DEF Database, Distinct
  <2> HIDE DEF next
  <2> QED
    BY <1>6, <2>2, <2>3 DEF Keeps, Distinct
<1> QED
  BY <1>1, <1>2, <1>3, <1>4, <1>5, <1>6, KindsDiffer DEF Other, Own, Positions

(* Where the j-th migration is in the interrupted sequence.                *)
Place(j, position, others) == IF j <= position THEN j ELSE j + Len(others)

LEMMA PlacesInOrder ==
  ASSUME NEW position \in 0..15, NEW others, Len(others) \in Nat, NEW j \in 1..15
  PROVE  /\ Place(j, position, others) \in Nat
         /\ \A i \in 1..15 : i < j => Place(i, position, others) < Place(j, position, others)
<1>1. PICK L \in Nat : L = Len(others)
  OBVIOUS
<1>2. ASSUME NEW i \in 1..15
      PROVE  /\ i \in Nat /\ Place(i, position, others) \in Nat
             /\ i <= position => Place(i, position, others) = i
             /\ i > position => Place(i, position, others) = i + L
  <2>1. CASE i <= position
    BY <2>1 DEF Place
  <2>2. CASE i > position
    <3>1. Place(i, position, others) = i + L
      BY <1>1, <2>2 DEF Place
    <3> QED
      BY <2>2, <3>1
  <2> QED
    BY <2>1, <2>2
<1>3. ASSUME NEW i \in 1..15, i < j
      PROVE  Place(i, position, others) < Place(j, position, others)
  <2>1. CASE j <= position
    <3>1. i <= position
      BY <1>3, <2>1
    <3> QED
      BY <1>2, <1>3, <2>1, <3>1
  <2>2. CASE j > position /\ i <= position
    <3>1. /\ Place(i, position, others) = i /\ Place(j, position, others) = j + L
          /\ i \in Nat /\ j \in Nat
      BY <1>2, <2>2
    <3> QED
      BY <1>1, <1>3, <3>1
  <2>3. CASE j > position /\ i > position
    <3>1. /\ Place(i, position, others) = i + L /\ Place(j, position, others) = j + L
          /\ i \in Nat /\ j \in Nat
      BY <1>2, <2>3
    <3> QED
      BY <1>1, <1>3, <3>1
  <2> QED
    BY <2>1, <2>2, <2>3
<1> QED
  BY <1>2, <1>3

(* The list of the migrations, by place.                                   *)
LEMMA MigrationsAre ==
  /\ MIGRATIONS \in Seq(Own) /\ Len(MIGRATIONS) = 15
  /\ MIGRATIONS[9] = DeleteDuplicates /\ MIGRATIONS[10] = Drop(Dedup)
  /\ MIGRATIONS[11] = CreateUnique(Dedup) /\ MIGRATIONS[12] = CreateUnique(Positions)
  /\ \A j \in (1..15) \ {9, 10, 11, 12} :
        \E c \in Columns \ categoryColumn : MIGRATIONS[j] = Add(c)
  /\ \A c \in Columns \ categoryColumn : \E j \in 1..15 : MIGRATIONS[j] = Add(c)
  /\ \A j \in 1..15 : MIGRATIONS[j] \in Own
<1> DEFINE c == <<<<"signals", "executed">>, <<"signals", "outcome">>,
                  <<"signals", "executed_skip_reason">>, <<"snapshots", "yes_ask">>,
                  <<"snapshots", "no_ask">>, <<"orders", "expiration_ts">>,
                  <<"orders", "reprice_of">>, <<"orders", "repriced">>, 0, 0, 0, 0,
                  <<"markets", "pruned_at">>, <<"positions", "peak_price">>,
                  <<"positions", "peak_observed_at">>>>
           A == (1..15) \ {9, 10, 11, 12}
           M == MIGRATIONS
<1>1. A = {1, 2, 3, 4, 5, 6, 7, 8, 13, 14, 15}
  OBVIOUS
<1>2. \A j \in A : M[j] = Add(c[j])
  BY <1>1 DEF MIGRATIONS
<1>3. Columns \ categoryColumn = {c[j] : j \in A}
  <2>1. {c[j] : j \in A} = {c[1], c[2], c[3], c[4], c[5], c[6], c[7], c[8], c[13], c[14], c[15]}
    BY <1>1
  <2>2. \A x \in Columns \ categoryColumn : x \in {c[j] : j \in A}
    BY <2>1 DEF Columns, signalColumns, askColumns, repriceColumns, categoryColumn, peakColumns
  <2>3. \A x \in {c[j] : j \in A} : x \in Columns \ categoryColumn
    BY <2>1 DEF Columns, signalColumns, askColumns, repriceColumns, categoryColumn, peakColumns
  <2> QED
    BY <2>2, <2>3
<1>4. /\ M[9] = DeleteDuplicates /\ M[10] = Drop(Dedup)
      /\ M[11] = CreateUnique(Dedup) /\ M[12] = CreateUnique(Positions)
  BY DEF MIGRATIONS, Dedup, Positions
<1>5. DOMAIN M = 1..15 /\ Len(M) = 15
  BY DEF MIGRATIONS
<1> HIDE DEF c
<1>6. \A j \in A : \E x \in Columns \ categoryColumn : M[j] = Add(x)
  BY <1>2, <1>3
<1>7. \A j \in 1..15 : M[j] \in Own
  BY <1>4, <1>6 DEF Own, Positions
<1>8. M = [j \in 1..15 |-> M[j]]
  BY DEF MIGRATIONS
<1>9. M \in Seq(Own)
  <2> HIDE DEF M
  <2> QED
    BY <1>7, <1>8
<1>10. \A x \in Columns \ categoryColumn : \E j \in 1..15 : M[j] = Add(x)
  BY <1>1, <1>2, <1>3
<1> QED
  BY <1>4, <1>5, <1>6, <1>7, <1>9, <1>10

(* The interrupted sequence: every migration at its place, the statements  *)
(* of the others elsewhere.                                                *)
LEMMA StatementsAre ==
  ASSUME NEW position \in 0..15, NEW others \in Seq(Other)
  PROVE  LET s == Interrupted(position, others)
         IN  /\ DOMAIN s = 1..(15 + Len(others)) /\ Len(others) \in Nat
             /\ \A k \in DOMAIN s : s[k] \in Other \cup Own
             /\ \A j \in 1..15 : /\ Place(j, position, others) \in DOMAIN s
                                 /\ s[Place(j, position, others)] = MIGRATIONS[j]
             /\ \A k \in DOMAIN s : \/ s[k] \in Other
                                    \/ \E j \in 1..15 : k = Place(j, position, others)
<1> DEFINE M == MIGRATIONS
           L == Len(others)
           s == Interrupted(position, others)
           a == SubSeq(M, 1, position)
           b == SubSeq(M, position + 1, Len(M))
           T == Other \cup Own
<1>1. M \in Seq(Own) /\ Len(M) = 15 /\ L \in Nat /\ position \in 0..15
  BY MigrationsAre
<1>0. \A i \in 1..15 : M[i] \in Own
  BY MigrationsAre
<1> HIDE DEF M
<1>2. a \in Seq(Own) /\ Len(a) = position /\ \A i \in 1..position : a[i] = M[i]
  <2>1. ASSUME NEW i \in 1..position PROVE M[i] \in Own
    <3>1. i \in 1..15
      OBVIOUS
    <3> QED
      BY <1>0, <3>1
  <2>2. /\ a \in Seq(Own)
        /\ Len(a) = IF 1 <= position THEN position - 1 + 1 ELSE 0
        /\ \A i \in 1 .. position - 1 + 1 : a[i] = M[1 + i - 1]
    <3> HIDE DEF a
    <3> QED
      BY <2>1, SubSeqProperties DEF a
  <2> HIDE DEF a
  <2> QED
    BY <2>2
<1>3. b \in Seq(Own) /\ Len(b) = 15 - position /\ \A i \in 1..(15 - position) : b[i] = M[position + i]
  <2>1. ASSUME NEW i \in (position + 1)..15 PROVE M[i] \in Own
    <3>1. i \in 1..15
      OBVIOUS
    <3> QED
      BY <1>0, <3>1
  <2>2. /\ b \in Seq(Own)
        /\ Len(b) = IF position + 1 <= 15 THEN 15 - (position + 1) + 1 ELSE 0
        /\ \A i \in 1 .. 15 - (position + 1) + 1 : b[i] = M[position + 1 + i - 1]
    <3>1. b = SubSeq(M, position + 1, 15)
      BY <1>1
    <3>2. position + 1 \in Int /\ 15 \in Int
      BY <1>1
    <3> HIDE DEF b
    <3> QED
      BY <2>1, <3>1, <3>2, SubSeqProperties
  <2> HIDE DEF b
  <2>3. Len(b) = 15 - position /\ 15 - (position + 1) + 1 = 15 - position
    BY <1>1, <2>2
  <2>4. \A i \in 1..(15 - position) : position + 1 + i - 1 = position + i
    BY <1>1
  <2> QED
    BY <2>2, <2>3, <2>4
<1>4. s = (a \o others) \o b
  BY DEF Interrupted, M
<1>5. a \in Seq(T) /\ others \in Seq(T) /\ b \in Seq(T)
  <2> HIDE DEF a, b
  <2>1. \A x \in Seq(Own) : x \in Seq(T)
    OBVIOUS
  <2>2. \A x \in Seq(Other) : x \in Seq(T)
    OBVIOUS
  <2> QED
    BY <1>2, <1>3, <2>1, <2>2
<1> HIDE DEF a, b, L, s, T
<1>6. /\ (a \o others) \in Seq(T) /\ Len(a \o others) = position + L
      /\ \A i \in 1..(position + L) :
            (a \o others)[i] = IF i <= position THEN a[i] ELSE others[i - position]
  BY <1>2, <1>5, ConcatProperties DEF L
<1>7. PICK c : c = a \o others
  OBVIOUS
<1>8. /\ s \in Seq(T) /\ Len(s) = 15 + L
      /\ \A i \in 1..(15 + L) : s[i] = IF i <= position + L THEN c[i] ELSE b[i - (position + L)]
  <2>1. c \in Seq(T) /\ Len(c) = position + L /\ s = c \o b
    BY <1>4, <1>6, <1>7
  <2>2. /\ (c \o b) \in Seq(T) /\ Len(c \o b) = Len(c) + Len(b)
        /\ \A i \in 1..(Len(c) + Len(b)) : (c \o b)[i] = IF i <= Len(c) THEN c[i] ELSE b[i - Len(c)]
    BY <1>5, <2>1, ConcatProperties
  <2>3. Len(c) + Len(b) = 15 + L
    BY <1>1, <1>3, <2>1
  <2> QED
    BY <2>1, <2>2, <2>3
<1>9. \A i \in 1..(15 + L) :
        s[i] = IF i <= position THEN M[i]
               ELSE IF i <= position + L THEN others[i - position] ELSE M[i - L]
  <2> SUFFICES ASSUME NEW i \in 1..(15 + L)
               PROVE  s[i] = IF i <= position THEN M[i]
                             ELSE IF i <= position + L THEN others[i - position] ELSE M[i - L]
    OBVIOUS
  <2>1. CASE i <= position
    <3>1. i \in 1..position /\ i \in 1..(position + L) /\ i <= position + L
      BY <1>1, <2>1
    <3>2. s[i] = c[i] /\ c[i] = a[i] /\ a[i] = M[i]
      BY <1>2, <1>6, <1>7, <1>8, <2>1, <3>1
    <3> QED
      BY <2>1, <3>2
  <2>2. CASE i > position /\ i <= position + L
    <3>1. i \in 1..(position + L) /\ ~(i <= position)
      BY <1>1, <2>2
    <3>2. s[i] = c[i] /\ c[i] = others[i - position]
      BY <1>6, <1>7, <1>8, <2>2, <3>1
    <3> QED
      BY <2>2, <3>1, <3>2
  <2>3. CASE i > position + L
    <3>1. s[i] = b[i - (position + L)]
      BY <1>1, <1>8, <2>3
    <3>2. i - (position + L) \in 1..(15 - position) /\ position + (i - (position + L)) = i - L
      BY <1>1, <2>3
    <3> QED
      BY <1>1, <1>3, <2>3, <3>1, <3>2
  <2> QED
    BY <1>1, <2>1, <2>2, <2>3
<1>10. DOMAIN s = 1..(15 + L) /\ \A k \in DOMAIN s : s[k] \in T
  BY <1>1, <1>8
<1>11. ASSUME NEW j \in 1..15
       PROVE  /\ Place(j, position, others) \in 1..(15 + L)
              /\ s[Place(j, position, others)] = M[j]
  <2>1. CASE j <= position
    <3>1. Place(j, position, others) = j
      BY <2>1 DEF Place
    <3>2. position \in Nat /\ position <= 15 /\ L \in Nat
      BY <1>1
    <3>3. j \in 1..(15 + L)
      BY <3>2
    <3>4. s[j] = M[j]
      BY <1>9, <2>1, <3>3
    <3> QED
      BY <3>1, <3>3, <3>4
  <2>2. CASE j > position
    <3>1. Place(j, position, others) = j + L
      BY <1>1, <2>2 DEF Place, L
    <3>2. j + L \in 1..(15 + L) /\ ~(j + L <= position) /\ ~(j + L <= position + L) /\ (j + L) - L = j
      BY <1>1, <2>2
    <3> QED
      BY <1>9, <3>1, <3>2
  <2> QED
    BY <1>1, <2>1, <2>2
<1>12. ASSUME NEW k \in 1..(15 + L)
       PROVE  s[k] \in Other \/ \E j \in 1..15 : k = Place(j, position, others)
  <2>1. CASE k <= position
    BY <1>1, <2>1 DEF Place
  <2>2. CASE k > position /\ k <= position + L
    <3>1. s[k] = others[k - position] /\ k - position \in 1..L
      BY <1>1, <1>9, <2>2
    <3>2. \A i \in 1..L : others[i] \in Other
      BY DEF L
    <3> QED
      BY <3>1, <3>2
  <2>3. CASE k > position + L
    <3>1. k - L \in 1..15 /\ ~(k - L <= position) /\ (k - L) + L = k
      BY <1>1, <2>3
    <3> QED
      BY <3>1 DEF Place, L
  <2> QED
    BY <1>1, <2>1, <2>2, <2>3
<1> QED
  BY <1>1, <1>10, <1>11, <1>12 DEF s, L, T, M

(* The statements about the double signals are at their place only.        *)
OnlyAt(stmt, k, position, others) ==
    /\ stmt = DeleteDuplicates => k = Place(9, position, others)
    /\ stmt = Drop(Dedup) => k = Place(10, position, others)
    /\ stmt = CreateUnique(Dedup) => k = Place(11, position, others)

LEMMA OnlyThere ==
  ASSUME NEW position \in 0..15, NEW others \in Seq(Other), NEW k \in Nat,
         k \in DOMAIN Interrupted(position, others)
  PROVE  OnlyAt(Interrupted(position, others)[k], k, position, others)
<1> DEFINE s == Interrupted(position, others)
<1>1. CASE s[k] \in Other
  <2>1. s[k].op \in {"add", "create config", "post twice"}
    BY <1>1, KindsDiffer DEF Other
  <2> QED
    BY <2>1, KindsDiffer DEF OnlyAt
<1>2. CASE \E j \in 1..15 : k = Place(j, position, others)
  <2>1. PICK j \in 1..15 : k = Place(j, position, others)
    BY <1>2
  <2>2. s[k] = MIGRATIONS[j]
    BY <2>1, StatementsAre
  <2>3. CASE j = 9
    <3>1. s[k].op = "delete duplicates"
      BY <2>2, <2>3, MigrationsAre, KindsDiffer
    <3> QED
      BY <2>1, <2>3, <3>1, KindsDiffer DEF OnlyAt
  <2>4. CASE j = 10
    <3>1. s[k].op = "drop"
      BY <2>2, <2>4, MigrationsAre, KindsDiffer
    <3> QED
      BY <2>1, <2>4, <3>1, KindsDiffer DEF OnlyAt
  <2>5. CASE j \in {11, 12}
    <3>1. j = 12 => s[k] = CreateUnique(Positions)
      BY <2>2, MigrationsAre
    <3>2. s[k].op = "unique"
      <4>1. CreateUnique(Dedup).op = "unique" /\ CreateUnique(Positions).op = "unique"
        BY KindsDiffer
      <4>2. j = 11 => s[k] = CreateUnique(Dedup)
        BY <2>2, MigrationsAre
      <4> QED
        BY <2>5, <3>1, <4>1, <4>2
    <3> QED
      BY <2>1, <2>5, <3>1, <3>2, KindsDiffer DEF OnlyAt
  <2>6. CASE j \notin {9, 10, 11, 12}
    <3>1. PICK c : MIGRATIONS[j] = Add(c)
      BY <2>6, MigrationsAre
    <3>2. s[k].op = "add"
      BY <2>2, <3>1, KindsDiffer
    <3> QED
      BY <3>2, KindsDiffer DEF OnlyAt
  <2> QED
    BY <2>3, <2>4, <2>5, <2>6
<1> QED
  BY <1>1, <1>2, StatementsAre

(* What has been done to the database after k statements. *)
Reached(db, start, position, others, k) ==
    /\ Ready(db)
    /\ start.tables \subseteq db.tables /\ (others = <<>> => db.tables = start.tables)
    /\ start.columns \subseteq db.columns
    /\ db.columns \subseteq start.columns \cup (Columns \ categoryColumn)
    /\ \A j \in 1..15, c \in Columns \ categoryColumn :
          Place(j, position, others) <= k /\ MIGRATIONS[j] = Add(c) => c \in db.columns
    /\ Place(10, position, others) <= k /\ k < Place(11, position, others) => Dedup \notin db.unique
    /\ Place(11, position, others) <= k => Distinct(db)
    /\ Place(12, position, others) <= k => Positions \in db.unique
    /\ others = <<>> => db.duplicates = IF k >= 9 /\ start.duplicates = "free" THEN "none"
                                        ELSE start.duplicates

(* One more statement.                                                     *)
LEMMA StatementReaches ==
  ASSUME NEW position \in 0..15, NEW others \in Seq(Other), NEW k \in Nat,
         k + 1 \in DOMAIN Interrupted(position, others), NEW db, NEW start, Ready(start),
         Reached(db, start, position, others, k)
  PROVE  Reached(run(db, Interrupted(position, others)[k + 1]), start, position, others, k + 1)
<1> DEFINE s == Interrupted(position, others)
           P(j) == Place(j, position, others)
           stmt == s[k + 1]
           next == run(db, stmt)
<1>1. /\ stmt \in Other \cup Own /\ DOMAIN s = 1..(15 + Len(others)) /\ Len(others) \in Nat
      /\ \A j \in 1..15 : P(j) \in DOMAIN s /\ s[P(j)] = MIGRATIONS[j]
      /\ s[k + 1] \in Other \/ \E j \in 1..15 : k + 1 = P(j)
  BY StatementsAre
<1>2. \A j \in 1..15 : P(j) \in Nat /\ \A i \in 1..15 : i < j => P(i) < P(j)
  <2>1. Len(others) \in Nat
    BY <1>1
  <2>2. ASSUME NEW j \in 1..15
        PROVE  P(j) \in Nat /\ \A i \in 1..15 : i < j => P(i) < P(j)
    BY <2>1, PlacesInOrder
  <2> QED
    BY <2>2
<1>3. /\ stmt = DeleteDuplicates => k + 1 = P(9)
      /\ stmt = Drop(Dedup) => k + 1 = P(10)
      /\ stmt = CreateUnique(Dedup) => k + 1 = P(11)
  <2>1. OnlyAt(Interrupted(position, others)[k + 1], k + 1, position, others)
    <3>1. k + 1 \in Nat
      OBVIOUS
    <3> HIDE DEF s, stmt, next, P
    <3> QED
      BY <3>1, OnlyThere
  <2> QED
    BY <2>1 DEF OnlyAt
<1>4. Keeps(db, next, stmt)
  BY <1>1, StatementKeeps DEF Reached
<1>5. ASSUME others = <<>> PROVE (\A j \in 1..15 : P(j) = j) /\ k + 1 \in 1..15
  <2>1. Len(others) = 0 /\ k + 1 \in DOMAIN s
    BY <1>5
  <2>2. \A j \in 1..15 : P(j) = j
    BY <2>1 DEF Place
  <2> QED
    BY <1>1, <2>1, <2>2
<1>6. db \in Database /\ Core \subseteq db.tables /\ Ready(next)
  BY <1>4 DEF Reached, Ready, Keeps
<1> HIDE DEF s, P, next
<1>7. \A j \in 1..15 : P(j) <= k + 1 => P(j) <= k \/ (k + 1 = P(j) /\ stmt = MIGRATIONS[j])
  <2> SUFFICES ASSUME NEW j \in 1..15, P(j) <= k + 1, ~(P(j) <= k)
               PROVE  k + 1 = P(j) /\ stmt = MIGRATIONS[j]
    OBVIOUS
  <2>1. P(j) \in Nat
    BY <1>2
  <2>2. k + 1 = P(j)
    BY <2>1
  <2> QED
    BY <1>1, <2>2
<1>a. others = <<>> => stmt \in Own
  <2> SUFFICES ASSUME others = <<>> PROVE stmt \in Own
    OBVIOUS
  <2>1. stmt = MIGRATIONS[k + 1]
    <3>1. k + 1 \in 1..15 /\ P(k + 1) = k + 1
      BY <1>5
    <3>2. s[P(k + 1)] = MIGRATIONS[k + 1]
      BY <1>1, <3>1
    <3> QED
      BY <3>1, <3>2
  <2> QED
    BY <1>5, <2>1, MigrationsAre
<1> HIDE DEF stmt
<1>8. /\ start.tables \subseteq next.tables /\ (others = <<>> => next.tables = start.tables)
      /\ start.columns \subseteq next.columns
      /\ next.columns \subseteq start.columns \cup (Columns \ categoryColumn)
  BY <1>4, <1>a DEF Reached, Keeps
<1>9. ASSUME NEW j \in 1..15, NEW c \in Columns \ categoryColumn, P(j) <= k + 1, MIGRATIONS[j] = Add(c)
      PROVE  c \in next.columns
  <2>1. CASE P(j) <= k
    BY <1>4, <1>9, <2>1 DEF Reached, Keeps, P
  <2>2. CASE stmt = MIGRATIONS[j]
    <3>1. next = [db EXCEPT !.columns = @ \cup {c}]
      BY <1>6, <1>9, <2>2, RunAdd DEF next
    <3> QED
      BY <1>6, <3>1 DEF Database
  <2> QED
    BY <1>7, <1>9, <2>1, <2>2
<1>10. ASSUME P(10) <= k + 1, k + 1 < P(11) PROVE Dedup \notin next.unique
  <2>0. P(10) \in Nat /\ P(11) \in Nat
    BY <1>2
  <2>1. CASE P(10) <= k
    <3>0. k < P(11)
      BY <1>10, <2>0
    <3>1. Dedup \notin db.unique
      BY <2>1, <3>0 DEF Reached, P
    <3>2. stmt \notin {Drop(Dedup), CreateUnique(Dedup)}
      BY <1>3, <1>10, <2>0, <2>1
    <3> QED
      BY <1>4, <3>1, <3>2 DEF Keeps
  <2>2. CASE stmt = MIGRATIONS[10]
    <3>1. next = [db EXCEPT !.unique = @ \ {Dedup}]
      BY <1>6, <2>2, MigrationsAre, RunDrop DEF next
    <3> QED
      BY <1>6, <3>1 DEF Database
  <2> QED
    BY <1>7, <1>10, <2>1, <2>2
<1>11. ASSUME P(11) <= k + 1 PROVE Distinct(next)
  <2>1. CASE P(11) <= k
    <3>1. Distinct(db)
      BY <2>1 DEF Reached, P
    <3>2. P(9) < P(11) /\ P(10) < P(11) /\ P(9) \in Nat /\ P(10) \in Nat /\ P(11) \in Nat
      BY <1>2
    <3>3. stmt \notin {Drop(Dedup), CreateUnique(Dedup), DeleteDuplicates}
      BY <1>3, <2>1, <3>2
    <3> QED
      BY <1>4, <3>1, <3>3 DEF Keeps
  <2>2. CASE k + 1 = P(11) /\ stmt = MIGRATIONS[11]
    <3>1. P(10) <= k /\ k < P(11)
      <4>1. P(10) < P(11) /\ P(10) \in Nat /\ P(11) \in Nat
        BY <1>2
      <4> QED
        BY <2>2, <4>1
    <3>2. Dedup \notin db.unique
      BY <3>1 DEF Reached, P
    <3>3. next = IF db.duplicates = "none" THEN [db EXCEPT !.unique = @ \cup {Dedup}] ELSE db
      BY <1>6, <2>2, MigrationsAre, RunUnique, KindsDiffer DEF next
    <3> QED
      BY <1>6, <3>2, <3>3 DEF Database, Distinct
  <2> QED
    BY <1>7, <1>11, <2>1, <2>2
<1>12. ASSUME P(12) <= k + 1 PROVE Positions \in next.unique
  <2>1. CASE P(12) <= k
    BY <1>4, <2>1 DEF Reached, Keeps, P
  <2>2. CASE stmt = MIGRATIONS[12]
    <3>1. next = [db EXCEPT !.unique = @ \cup {Positions}]
      BY <1>6, <2>2, MigrationsAre, RunUnique, KindsDiffer DEF next
    <3> QED
      BY <1>6, <3>1 DEF Database
  <2> QED
    BY <1>7, <1>12, <2>1, <2>2
<1>13. ASSUME others = <<>>
       PROVE  next.duplicates = IF k + 1 >= 9 /\ start.duplicates = "free" THEN "none"
                                ELSE start.duplicates
  <2>1. db.duplicates = IF k >= 9 /\ start.duplicates = "free" THEN "none" ELSE start.duplicates
    BY <1>13 DEF Reached
  <2>2. CASE k + 1 = 9
    <3>1. stmt = DeleteDuplicates
      BY <1>1, <1>5, <1>13, <2>2, MigrationsAre DEF stmt
    <3>2. next = [db EXCEPT !.duplicates = IF @ = "free" THEN "none" ELSE @]
      BY <1>6, <3>1, RunDelete DEF next
    <3> QED
      BY <1>6, <2>1, <2>2, <3>2 DEF Database
  <2>3. CASE k + 1 # 9
    <3>1. stmt # DeleteDuplicates
      BY <1>3, <1>5, <1>13, <2>3
    <3>2. stmt # PostTwice
      BY <1>a, <1>13, KindsDiffer DEF Own, Positions
    <3>3. next.duplicates = db.duplicates
      BY <1>4, <3>1, <3>2 DEF Keeps
    <3> QED
      BY <2>1, <2>3, <3>3
  <2> QED
    BY <2>2, <2>3
<1>14. Reached(next, start, position, others, k + 1)
  BY <1>6, <1>8, <1>9, <1>10, <1>11, <1>12, <1>13 DEF Reached, P
<1> QED
  BY <1>14 DEF next, stmt, s

(* What the whole sequence makes of a database.                            *)
Migrated(db, start, others) ==
    /\ Ready(db)
    /\ start.tables \subseteq db.tables /\ (others = <<>> => db.tables = start.tables)
    /\ db.columns = start.columns \cup (Columns \ categoryColumn)
    /\ Distinct(db) /\ Positions \in db.unique
    /\ others = <<>> =>
           db.duplicates = IF start.duplicates = "ordered" THEN "ordered" ELSE "none"

LEMMA SchemaRun ==
  ASSUME NEW start, Ready(start), NEW position \in 0..15, NEW others \in Seq(Other)
  PROVE  Migrated(RunAll(start, Interrupted(position, others)), start, others)
<1> DEFINE s == Interrupted(position, others)
           n == 15 + Len(others)
<1>0. /\ DOMAIN s = 1..n /\ Len(others) \in Nat
      /\ \A j \in 1..15 : Place(j, position, others) \in DOMAIN s
  BY StatementsAre
<1>1. DOMAIN s = 1..n /\ n \in Nat /\ n >= 15
  <2>1. n \in Nat /\ n >= 15
    <3>1. Len(others) \in Nat
      BY <1>0
    <3> QED
      BY <3>1
  <2> HIDE DEF s, n
  <2> QED
    BY <1>0, <2>1
<1>a. ASSUME NEW j \in 1..15 PROVE 1 <= Place(j, position, others) /\ Place(j, position, others) <= n
  <2>1. PICK i : i = Place(j, position, others)
    OBVIOUS
  <2>2. i \in 1..n
    BY <1>0, <2>1
  <2> HIDE DEF n
  <2> QED
    BY <1>1, <2>1, <2>2
<1> HIDE DEF s, n
<1>2. PICK g : /\ g[0] = start /\ RunAll(start, s) = g[n]
               /\ \A k \in 0..(n - 1) : g[k + 1] = run(g[k], s[k + 1])
  <2>1. \E g : RunsThrough(g, start, s, n)
    BY <1>1, RunAllSteps
  <2> QED
    BY <2>1 DEF RunsThrough
<1> DEFINE A == {k \in Nat : k <= n => Reached(g[k], start, position, others, k)}
<1>3. 0 \in A
  <2>1. \A j \in 1..15 : ~(Place(j, position, others) <= 0)
    <3> SUFFICES ASSUME NEW j \in 1..15, Place(j, position, others) <= 0 PROVE FALSE
      OBVIOUS
    <3>1. PICK place : place = Place(j, position, others)
      OBVIOUS
    <3>2. place \in Nat /\ place <= 0
      BY <1>0, <3>1 DEF Place
    <3>3. 1 <= place
      BY <1>a, <3>1
    <3> QED
      BY <3>2, <3>3
  <2>2. Reached(start, start, position, others, 0)
    BY <2>1 DEF Reached
  <2> QED
    BY <1>2, <2>2
<1>4. ASSUME NEW k \in Nat, k \in A PROVE k + 1 \in A
  <2> SUFFICES ASSUME k + 1 <= n PROVE Reached(g[k + 1], start, position, others, k + 1)
    OBVIOUS
  <2>1. Reached(g[k], start, position, others, k) /\ k + 1 \in DOMAIN s /\ g[k + 1] = run(g[k], s[k + 1])
    BY <1>1, <1>2, <1>4
  <2> HIDE DEF A
  <2> QED
    BY <2>1, StatementReaches DEF s
<1>5. n \in A
  <2> HIDE DEF A
  <2> QED
    BY <1>1, <1>3, <1>4, NatInductionOnSet
<1>6. PICK db : db = RunAll(start, s)
  OBVIOUS
<1>7. Reached(db, start, position, others, n)
  <2>1. g[n] = db
    BY <1>2, <1>6
  <2>2. Reached(g[n], start, position, others, n)
    BY <1>1, <1>5
  <2> QED
    BY <2>1, <2>2
<1>8. \A j \in 1..15 : Place(j, position, others) <= n
  BY <1>a
<1>9. Columns \ categoryColumn \subseteq db.columns
  <2> SUFFICES ASSUME NEW c \in Columns \ categoryColumn PROVE c \in db.columns
    OBVIOUS
  <2>1. PICK j \in 1..15 : MIGRATIONS[j] = Add(c)
    BY MigrationsAre
  <2> QED
    BY <1>7, <1>8, <2>1 DEF Reached
<1>10. db.columns = start.columns \cup (Columns \ categoryColumn)
  BY <1>7, <1>9 DEF Reached
<1>11. others = <<>> => db.duplicates = IF start.duplicates = "ordered" THEN "ordered" ELSE "none"
  <2>1. start.duplicates \in {"none", "free", "ordered"}
    BY DEF Ready, Database
  <2>2. n >= 9
    BY <1>1
  <2>3. others = <<>> => db.duplicates = IF n >= 9 /\ start.duplicates = "free" THEN "none"
                                         ELSE start.duplicates
    BY <1>7 DEF Reached
  <2> QED
    BY <2>1, <2>2, <2>3
<1>12. Distinct(db) /\ Positions \in db.unique
  BY <1>7, <1>8 DEF Reached
<1>13. Migrated(db, start, others)
  BY <1>7, <1>10, <1>11, <1>12 DEF Reached, Migrated
<1> QED
  BY <1>6, <1>13 DEF s

(* What SchemaConverges says of one database: it and its databases after   *)
(* the start, after the next start and after the one that follows.         *)
Converge(db, schemaRuns, started, again, third) ==
    /\ started.columns = Columns \ (IF schemaRuns THEN {} ELSE categoryColumn \ db.columns)
    /\ schemaRuns => started.tables = Tables
    /\ started.duplicates # "none" <=> Dedup \notin started.unique
    /\ again.duplicates = IF started.duplicates = "ordered" THEN "ordered" ELSE "none"
    /\ again.unique = IF again.duplicates # "none" THEN {Positions} ELSE Indexes
    /\ third = again

(* With SCHEMA_SQL before it, or without where it cannot run.              *)
Prepared(db, schemaRuns) == IF schemaRuns THEN SchemaSql(db) ELSE db

LEMMA PreparedIs ==
  ASSUME NEW db \in Database, NEW schemaRuns \in BOOLEAN, schemaRuns \/ Core \subseteq db.tables
  PROVE  LET start == Prepared(db, schemaRuns)
         IN  /\ Ready(start) /\ start.duplicates = db.duplicates
             /\ start.tables = IF schemaRuns THEN Tables ELSE db.tables
             /\ start.columns \cup (Columns \ categoryColumn)
                    = IF schemaRuns THEN Columns ELSE db.columns \cup (Columns \ categoryColumn)
<1>0. /\ db.tables \subseteq Tables /\ db.columns \subseteq Columns /\ db.unique \subseteq Indexes
      /\ db.duplicates \in {"none", "free", "ordered"}
  BY DEF Database
<1>1. CASE schemaRuns
  <2> DEFINE peaks == {c \in peakColumns : c[1] \in Tables \ db.tables}
             added == IF "positions" \in Tables \ db.tables THEN {Positions} ELSE {}
             new == signalColumns \cup categoryColumn \cup askColumns \cup repriceColumns \cup peaks
             start == SchemaSql(db)
  <2>1. start = [db EXCEPT !.tables = Tables,
                           !.columns = db.columns \cup signalColumns \cup categoryColumn \cup askColumns
                                            \cup repriceColumns \cup peaks,
                           !.unique = db.unique \cup added]
    BY DEF SchemaSql, Positions
  <2>2. /\ start.tables = Tables /\ start.columns = db.columns \cup new
        /\ start.unique = db.unique \cup added /\ start.duplicates = db.duplicates
    <3> HIDE DEF start, peaks, added
    <3> QED
      BY <2>1 DEF Database
  <2>3. new \subseteq Columns /\ categoryColumn \subseteq new /\ added \subseteq Indexes
    BY KindsDiffer DEF Columns
  <2>4. start \in Database
    <3>1. DOMAIN start = {"tables", "columns", "unique", "duplicates"}
          /\ start = [tables |-> start.tables, columns |-> start.columns,
                      unique |-> start.unique, duplicates |-> start.duplicates]
      <4> HIDE DEF peaks, added
      <4> QED
        BY <2>1 DEF Database
    <3> HIDE DEF start, new, added
    <3> QED
      BY <1>0, <2>2, <2>3, <3>1 DEF Database
  <2> HIDE DEF start, new, added
  <2>5. start.columns \cup (Columns \ categoryColumn) = Columns
    BY <1>0, <2>2, <2>3
  <2>6. Prepared(db, schemaRuns) = start
    BY <1>1 DEF Prepared, start
  <2> QED
    BY <1>1, <2>2, <2>4, <2>5, <2>6 DEF Ready, Core
<1>2. CASE ~schemaRuns
  BY <1>2 DEF Prepared, Ready
<1> QED
  BY <1>1, <1>2

(* What one start of the bot makes of a database.                          *)
Brought(started, db, schemaRuns, others) ==
    /\ Ready(started)
    /\ started.columns = IF schemaRuns THEN Columns ELSE db.columns \cup (Columns \ categoryColumn)
    /\ schemaRuns => started.tables = Tables
    /\ ~schemaRuns /\ others = <<>> => started.tables = db.tables
    /\ Distinct(started) /\ Positions \in started.unique
    /\ others = <<>> => started.duplicates = IF db.duplicates = "ordered" THEN "ordered" ELSE "none"

LEMMA SchemaBrings ==
  ASSUME NEW db \in Database, NEW schemaRuns \in BOOLEAN, schemaRuns \/ Core \subseteq db.tables,
         NEW position \in 0..15, NEW others \in Seq(Other)
  PROVE  Brought(init_schema(db, schemaRuns, position, others), db, schemaRuns, others)
<1>1. PICK start : start = Prepared(db, schemaRuns)
  OBVIOUS
<1>2. /\ Ready(start) /\ start.duplicates = db.duplicates
      /\ start.tables = IF schemaRuns THEN Tables ELSE db.tables
      /\ start.columns \cup (Columns \ categoryColumn)
            = IF schemaRuns THEN Columns ELSE db.columns \cup (Columns \ categoryColumn)
  BY <1>1, PreparedIs
<1>3. init_schema(db, schemaRuns, position, others) = RunAll(start, Interrupted(position, others))
  BY <1>1 DEF init_schema, Prepared
<1>4. PICK started : started = RunAll(start, Interrupted(position, others))
  OBVIOUS
<1>5. Migrated(started, start, others)
  BY <1>2, <1>4, SchemaRun
<1>6. started.tables \subseteq Tables
  BY <1>5 DEF Migrated, Ready, Database
<1>7. schemaRuns => started.tables = Tables
  BY <1>2, <1>5, <1>6 DEF Migrated
<1>8. Brought(started, db, schemaRuns, others)
  BY <1>2, <1>5, <1>7 DEF Migrated, Brought
<1> QED
  BY <1>3, <1>4, <1>8

(* From whatever database, and whatever the others put between two of its  *)
(* migrations, a start of the bot leaves every column it can add and the   *)
(* indexes that its data admits; the next start deletes the free doubles   *)
(* and adds the index that was refused; and the one after that changes     *)
(* nothing (init_schema, run against a live database beside migrate.mjs    *)
(* and the API server).                                                    *)
THEOREM AnySchemaConverges ==
  ASSUME NEW db \in Database, NEW schemaRuns \in BOOLEAN, schemaRuns \/ Core \subseteq db.tables,
         NEW position \in 0..Len(MIGRATIONS), NEW others \in Seq(Other)
  PROVE  LET started == init_schema(db, schemaRuns, position, others)
             again == init_schema(started, schemaRuns, 0, <<>>)
         IN  Converge(db, schemaRuns, started, again, init_schema(again, schemaRuns, 0, <<>>))
<1>0. position \in 0..15 /\ 0 \in 0..15 /\ <<>> \in Seq(Other)
  BY MigrationsAre
<1>1. PICK started : started = init_schema(db, schemaRuns, position, others)
  OBVIOUS
<1>2. PICK again : again = init_schema(started, schemaRuns, 0, <<>>)
  OBVIOUS
<1>3. PICK third : third = init_schema(again, schemaRuns, 0, <<>>)
  OBVIOUS
<1>4. Brought(started, db, schemaRuns, others)
  BY <1>0, <1>1, SchemaBrings
<1>5. Brought(again, started, schemaRuns, <<>>)
  <2>1. started \in Database /\ Core \subseteq started.tables
    BY <1>4 DEF Brought, Ready
  <2> QED
    BY <1>0, <1>2, <2>1, SchemaBrings
<1>6. Brought(third, again, schemaRuns, <<>>)
  <2>1. again \in Database /\ Core \subseteq again.tables
    BY <1>5 DEF Brought, Ready
  <2> QED
    BY <1>0, <1>3, <2>1, SchemaBrings
<1>7. ASSUME NEW d, Ready(d), Distinct(d), Positions \in d.unique
      PROVE  d.unique = IF d.duplicates # "none" THEN {Positions} ELSE Indexes
  <2>1. d.unique \subseteq Indexes /\ Indexes = {Dedup, Positions} /\ Dedup # Positions
    BY <1>7, KindsDiffer DEF Ready, Database, Indexes, Dedup, Positions
  <2> QED
    BY <1>7, <2>1 DEF Distinct
<1>8. third = again
  <2>1. third \in Database /\ again \in Database
    BY <1>5, <1>6 DEF Brought, Ready
  <2>2. third.tables = again.tables
    BY <1>5, <1>6 DEF Brought
  <2>3. third.columns = again.columns
    BY <1>5, <1>6 DEF Brought
  <2>4. third.duplicates = again.duplicates
    BY <1>5, <1>6 DEF Brought
  <2>5. third.unique = again.unique
    BY <1>5, <1>6, <1>7, <2>4 DEF Brought
  <2> QED
    BY <2>1, <2>2, <2>3, <2>4, <2>5 DEF Database
<1>9. started.columns = Columns \ (IF schemaRuns THEN {} ELSE categoryColumn \ db.columns)
  <2>1. db.columns \subseteq Columns /\ categoryColumn \subseteq Columns
    BY DEF Database, Columns
  <2> QED
    BY <1>4, <2>1 DEF Brought
<1>10. started.duplicates # "none" <=> Dedup \notin started.unique
  BY <1>4 DEF Brought, Distinct
<1>11. again.unique = IF again.duplicates # "none" THEN {Positions} ELSE Indexes
  BY <1>5, <1>7 DEF Brought
<1> QED
  <2>1. Converge(db, schemaRuns, started, again, third)
    BY <1>4, <1>5, <1>8, <1>9, <1>10, <1>11 DEF Converge, Brought
  <2> QED
    BY <1>1, <1>2, <1>3, <2>1

(* The databases of the history of the programs: an empty one, one that    *)
(* drizzle-kit pushed and older ones, with or without doubles (init_schema *)
(* and migrate.mjs).                                                       *)
THEOREM SchemaBroughtUp == Spec => []SchemaConverges
<1>1. Other \in {Other} /\ \A i \in 1..7 : migrate[i] \in Other
  <2>1. \A c \in {<<"snapshots", "yes_ask">>, <<"snapshots", "no_ask">>, <<"signals", "executed">>,
                  <<"orders", "expiration_ts">>, <<"orders", "reprice_of">>, <<"orders", "repriced">>} :
            c \in Columns \ categoryColumn
    BY DEF Columns, signalColumns, askColumns, repriceColumns, categoryColumn, peakColumns
  <2> QED
    BY <2>1 DEF migrate, Other
<1>2. migrate \in Seq(Other)
  <2>1. migrate = [i \in 1..7 |-> migrate[i]]
    BY DEF migrate
  <2> QED
    BY <1>1, <2>1
<1>3. <<PostTwice>> \in Seq(Other) /\ <<>> \in Seq(Other)
  BY DEF Other
<1>4. migrate \o <<PostTwice>> \in Seq(Other)
  <2>1. PICK S : S = Other
    OBVIOUS
  <2>2. PICK first : first = migrate
    OBVIOUS
  <2>3. PICK last : last = <<PostTwice>>
    OBVIOUS
  <2>4. first \in Seq(S) /\ last \in Seq(S)
    BY <1>2, <1>3, <2>1, <2>2, <2>3
  <2>5. first \o last \in Seq(S)
    BY <2>4, ConcatProperties
  <2> QED
    BY <2>1, <2>2, <2>3, <2>5
<1>5. \A db \in Databases : db \in Database /\ (db.tables # {} => Core \subseteq db.tables)
  <2>1. EmptyDatabase \in Database /\ EmptyDatabase.tables = {}
    BY DEF EmptyDatabase, Database
  <2>2. Pushed.columns \subseteq Columns /\ signalColumns \subseteq Columns
    <3>1. Pushed.columns = signalColumns \cup askColumns \cup categoryColumn
      BY DEF Pushed, EmptyDatabase
    <3> QED
      BY <3>1 DEF Columns
  <2>3. ASSUME NEW db \in [tables : {Tables, Tables \ {"bot_config"}},
                           columns : {{}, signalColumns, Pushed.columns},
                           unique : {{}, {"positions_unique_mts"}},
                           duplicates : {"none", "free", "ordered"}]
        PROVE  db \in Database /\ Core \subseteq db.tables
    <3>1. db.tables \subseteq Tables /\ Core \subseteq db.tables
      BY DEF Core
    <3>2. db.columns \subseteq Columns
      BY <2>2
    <3>3. db.unique \subseteq Indexes
      BY DEF Indexes
    <3> QED
      BY <3>1, <3>2, <3>3 DEF Database
  <2> QED
    BY <2>1, <2>3 DEF Databases
<1>6. ASSUME NEW db \in Databases, NEW schemaRuns \in BOOLEAN, NEW position \in 0..Len(MIGRATIONS),
             NEW others \in {<<>>, migrate, <<PostTwice>>, migrate \o <<PostTwice>>},
             schemaRuns \/ db.tables # {}
      PROVE  LET started == init_schema(db, schemaRuns, position, others)
                 again == init_schema(started, schemaRuns, 0, <<>>)
             IN  Converge(db, schemaRuns, started, again, init_schema(again, schemaRuns, 0, <<>>))
  <2>1. others \in Seq(Other)
    BY <1>2, <1>3, <1>4
  <2> QED
    BY <1>5, <1>6, <2>1, AnySchemaConverges
<1>7. SchemaConverges
  BY <1>6 DEF SchemaConverges, Converge, Dedup, Positions
<1> QED
  BY <1>7, PTL
-----------------------------------------------------------------------------
(***************************************************************************)
(* The requests of the dashboard, whatever a market or an order is called. *)
(***************************************************************************)
(* The rows of a tuple. *)
LEMMA RangeOfTuple ==
  ASSUME NEW s
  PROVE  /\ \A a : s = <<a>> => s \in Seq(Range(s)) /\ Range(s) = {a}
         /\ \A a, b : s = <<a, b>> => s \in Seq(Range(s)) /\ Range(s) = {a, b}
         /\ \A a, b, c : s = <<a, b, c>> => s \in Seq(Range(s)) /\ Range(s) = {a, b, c}
         /\ \A a, b, c, d, e : s = <<a, b, c, d, e>> =>
                s \in Seq(Range(s)) /\ Range(s) = {a, b, c, d, e}
         /\ \A a, b, c, d, e, f : s = <<a, b, c, d, e, f>> =>
                s \in Seq(Range(s)) /\ Range(s) = {a, b, c, d, e, f}
<1>1. ASSUME NEW a, s = <<a>>
      PROVE  s \in Seq(Range(s)) /\ Range(s) = {a}
  <2>1. s \in Seq({a})
    BY <1>1
  <2>2. DOMAIN s = 1..1 /\ s[1] = a
    BY <1>1
  <2>3. 1..1 = {1}
    OBVIOUS
  <2>4. Range(s) = {a}
    BY <2>2, <2>3 DEF Range
  <2> QED
    BY <2>1, <2>4
<1>2. ASSUME NEW a, NEW b, s = <<a, b>>
      PROVE  s \in Seq(Range(s)) /\ Range(s) = {a, b}
  <2>1. s \in Seq({a, b})
    BY <1>2
  <2>2. DOMAIN s = 1..2 /\ s[1] = a /\ s[2] = b
    BY <1>2
  <2>3. 1..2 = {1, 2}
    OBVIOUS
  <2>4. Range(s) = {a, b}
    BY <2>2, <2>3 DEF Range
  <2> QED
    BY <2>1, <2>4
<1>3. ASSUME NEW a, NEW b, NEW c, s = <<a, b, c>>
      PROVE  s \in Seq(Range(s)) /\ Range(s) = {a, b, c}
  <2>1. s \in Seq({a, b, c})
    BY <1>3
  <2>2. DOMAIN s = 1..3 /\ s[1] = a /\ s[2] = b /\ s[3] = c
    BY <1>3
  <2>3. 1..3 = {1, 2, 3}
    OBVIOUS
  <2>4. Range(s) = {a, b, c}
    BY <2>2, <2>3 DEF Range
  <2> QED
    BY <2>1, <2>4
<1>4. ASSUME NEW a, NEW b, NEW c, NEW d, NEW e, s = <<a, b, c, d, e>>
      PROVE  s \in Seq(Range(s)) /\ Range(s) = {a, b, c, d, e}
  <2>1. s \in Seq({a, b, c, d, e})
    BY <1>4
  <2>2. DOMAIN s = 1..5 /\ s[1] = a /\ s[2] = b /\ s[3] = c /\ s[4] = d /\ s[5] = e
    BY <1>4
  <2>3. 1..5 = {1, 2, 3, 4, 5}
    OBVIOUS
  <2>4. Range(s) = {a, b, c, d, e}
    BY <2>2, <2>3 DEF Range
  <2> QED
    BY <2>1, <2>4
<1>5. ASSUME NEW a, NEW b, NEW c, NEW d, NEW e, NEW f, s = <<a, b, c, d, e, f>>
      PROVE  s \in Seq(Range(s)) /\ Range(s) = {a, b, c, d, e, f}
  <2>1. s \in Seq({a, b, c, d, e, f})
    BY <1>5
  <2>2. DOMAIN s = 1..6 /\ s[1] = a /\ s[2] = b /\ s[3] = c /\ s[4] = d /\ s[5] = e /\ s[6] = f
    BY <1>5
  <2>3. 1..6 = {1, 2, 3, 4, 5, 6}
    OBVIOUS
  <2>4. Range(s) = {a, b, c, d, e, f}
    BY <2>2, <2>3 DEF Range
  <2> QED
    BY <2>1, <2>4
<1> QED
  BY <1>1, <1>2, <1>3, <1>4, <1>5

(* The routes, router by router. *)
LEMMA RoutersAre ==
  /\ healthRouter \in Seq(Range(healthRouter))
  /\ Range(healthRouter) = {Route("GET", <<"auth", "check">>, {}),
        Route("GET", <<"healthz">>, {})}
  /\ marketsRouter \in Seq(Range(marketsRouter))
  /\ Range(marketsRouter) = {Route("GET", <<"markets">>, {}),
        Route("POST", <<"markets">>, {"markets"})}
  /\ snapshotsRouter \in Seq(Range(snapshotsRouter))
  /\ Range(snapshotsRouter) = {Route("GET", <<"snapshots">>, {"limit"}),
        Route("POST", <<"snapshots">>, {"snapshot"}),
        Route("GET", <<"snapshots", Param>>, {"hours", "limit"})}
  /\ signalsRouter \in Seq(Range(signalsRouter))
  /\ Range(signalsRouter) = {Route("GET", <<"signals", "counts">>, {}),
        Route("GET", <<"signals">>, {"strategy", "marketId", "hours", "limit", "resolved"}),
        Route("POST", <<"signals">>, {"signal"})}
  /\ strategiesRouter \in Seq(Range(strategiesRouter))
  /\ Range(strategiesRouter) = {Route("GET", <<"strategies", "performance">>, {})}
  /\ ordersRouter \in Seq(Range(ordersRouter))
  /\ Range(ordersRouter) = {Route("GET", <<"orders">>, {"status", "limit", "since", "until"}),
        Route("GET", <<"orders", "analytics">>, {}),
        Route("DELETE", <<"orders", Param>>, {}),
        Route("POST", <<"orders", "cancel-all">>, {}),
        Route("GET", <<"positions">>, {}),
        Route("GET", <<"portfolio">>, {})}
  /\ configRouter \in Seq(Range(configRouter))
  /\ Range(configRouter) = {Route("GET", <<"config", "bankroll">>, {}),
        Route("PUT", <<"config", "bankroll">>, {"bankroll"}),
        Route("GET", <<"config", "risk">>, {}),
        Route("PUT", <<"config", "position-pct">>, {"pct"}),
        Route("PUT", <<"config", "portfolio-pct">>, {"pct"})}
  /\ executionRouter \in Seq(Range(executionRouter))
  /\ Range(executionRouter) = {Route("GET", <<"execution", "status">>, {}),
        Route("POST", <<"execution", "pause">>, {}),
        Route("POST", <<"execution", "resume">>, {})}
<1>1. /\ healthRouter \in Seq(Range(healthRouter))
      /\ Range(healthRouter) = {Route("GET", <<"auth", "check">>, {}),
            Route("GET", <<"healthz">>, {})}
  <2>1. PICK a : a = Route("GET", <<"auth", "check">>, {})
    OBVIOUS
  <2>2. PICK b : b = Route("GET", <<"healthz">>, {})
    OBVIOUS
  <2>3. healthRouter = <<a, b>>
    BY <2>1, <2>2 DEF healthRouter
  <2>4. healthRouter \in Seq(Range(healthRouter)) /\ Range(healthRouter) = {a, b}
    BY <2>3, RangeOfTuple
  <2> QED
    BY <2>1, <2>2, <2>4
<1>2. /\ marketsRouter \in Seq(Range(marketsRouter))
      /\ Range(marketsRouter) = {Route("GET", <<"markets">>, {}),
            Route("POST", <<"markets">>, {"markets"})}
  <2>1. PICK a : a = Route("GET", <<"markets">>, {})
    OBVIOUS
  <2>2. PICK b : b = Route("POST", <<"markets">>, {"markets"})
    OBVIOUS
  <2>3. marketsRouter = <<a, b>>
    BY <2>1, <2>2 DEF marketsRouter
  <2>4. marketsRouter \in Seq(Range(marketsRouter)) /\ Range(marketsRouter) = {a, b}
    BY <2>3, RangeOfTuple
  <2> QED
    BY <2>1, <2>2, <2>4
<1>3. /\ snapshotsRouter \in Seq(Range(snapshotsRouter))
      /\ Range(snapshotsRouter) = {Route("GET", <<"snapshots">>, {"limit"}),
            Route("POST", <<"snapshots">>, {"snapshot"}),
            Route("GET", <<"snapshots", Param>>, {"hours", "limit"})}
  <2>1. PICK a : a = Route("GET", <<"snapshots">>, {"limit"})
    OBVIOUS
  <2>2. PICK b : b = Route("POST", <<"snapshots">>, {"snapshot"})
    OBVIOUS
  <2>3. PICK c : c = Route("GET", <<"snapshots", Param>>, {"hours", "limit"})
    OBVIOUS
  <2>4. snapshotsRouter = <<a, b, c>>
    BY <2>1, <2>2, <2>3 DEF snapshotsRouter
  <2>5. snapshotsRouter \in Seq(Range(snapshotsRouter)) /\ Range(snapshotsRouter) = {a, b, c}
    BY <2>4, RangeOfTuple
  <2> QED
    BY <2>1, <2>2, <2>3, <2>5
<1>4. /\ signalsRouter \in Seq(Range(signalsRouter))
      /\ Range(signalsRouter) = {Route("GET", <<"signals", "counts">>, {}),
            Route("GET", <<"signals">>, {"strategy", "marketId", "hours", "limit", "resolved"}),
            Route("POST", <<"signals">>, {"signal"})}
  <2>1. PICK a : a = Route("GET", <<"signals", "counts">>, {})
    OBVIOUS
  <2>2. PICK b : b = Route("GET", <<"signals">>, {"strategy", "marketId", "hours", "limit", "resolved"})
    OBVIOUS
  <2>3. PICK c : c = Route("POST", <<"signals">>, {"signal"})
    OBVIOUS
  <2>4. signalsRouter = <<a, b, c>>
    BY <2>1, <2>2, <2>3 DEF signalsRouter
  <2>5. signalsRouter \in Seq(Range(signalsRouter)) /\ Range(signalsRouter) = {a, b, c}
    BY <2>4, RangeOfTuple
  <2> QED
    BY <2>1, <2>2, <2>3, <2>5
<1>5. /\ strategiesRouter \in Seq(Range(strategiesRouter))
      /\ Range(strategiesRouter) = {Route("GET", <<"strategies", "performance">>, {})}
  <2>1. PICK a : a = Route("GET", <<"strategies", "performance">>, {})
    OBVIOUS
  <2>2. strategiesRouter = <<a>>
    BY <2>1 DEF strategiesRouter
  <2>3. strategiesRouter \in Seq(Range(strategiesRouter)) /\ Range(strategiesRouter) = {a}
    BY <2>2, RangeOfTuple
  <2> QED
    BY <2>1, <2>3
<1>6. /\ ordersRouter \in Seq(Range(ordersRouter))
      /\ Range(ordersRouter) = {Route("GET", <<"orders">>, {"status", "limit", "since", "until"}),
            Route("GET", <<"orders", "analytics">>, {}),
            Route("DELETE", <<"orders", Param>>, {}),
            Route("POST", <<"orders", "cancel-all">>, {}),
            Route("GET", <<"positions">>, {}),
            Route("GET", <<"portfolio">>, {})}
  <2>1. PICK a : a = Route("GET", <<"orders">>, {"status", "limit", "since", "until"})
    OBVIOUS
  <2>2. PICK b : b = Route("GET", <<"orders", "analytics">>, {})
    OBVIOUS
  <2>3. PICK c : c = Route("DELETE", <<"orders", Param>>, {})
    OBVIOUS
  <2>4. PICK d : d = Route("POST", <<"orders", "cancel-all">>, {})
    OBVIOUS
  <2>5. PICK e : e = Route("GET", <<"positions">>, {})
    OBVIOUS
  <2>6. PICK f : f = Route("GET", <<"portfolio">>, {})
    OBVIOUS
  <2>7. ordersRouter = <<a, b, c, d, e, f>>
    BY <2>1, <2>2, <2>3, <2>4, <2>5, <2>6 DEF ordersRouter
  <2>8. ordersRouter \in Seq(Range(ordersRouter)) /\ Range(ordersRouter) = {a, b, c, d, e, f}
    BY <2>7, RangeOfTuple
  <2> QED
    BY <2>1, <2>2, <2>3, <2>4, <2>5, <2>6, <2>8
<1>7. /\ configRouter \in Seq(Range(configRouter))
      /\ Range(configRouter) = {Route("GET", <<"config", "bankroll">>, {}),
            Route("PUT", <<"config", "bankroll">>, {"bankroll"}),
            Route("GET", <<"config", "risk">>, {}),
            Route("PUT", <<"config", "position-pct">>, {"pct"}),
            Route("PUT", <<"config", "portfolio-pct">>, {"pct"})}
  <2>1. PICK a : a = Route("GET", <<"config", "bankroll">>, {})
    OBVIOUS
  <2>2. PICK b : b = Route("PUT", <<"config", "bankroll">>, {"bankroll"})
    OBVIOUS
  <2>3. PICK c : c = Route("GET", <<"config", "risk">>, {})
    OBVIOUS
  <2>4. PICK d : d = Route("PUT", <<"config", "position-pct">>, {"pct"})
    OBVIOUS
  <2>5. PICK e : e = Route("PUT", <<"config", "portfolio-pct">>, {"pct"})
    OBVIOUS
  <2>6. configRouter = <<a, b, c, d, e>>
    BY <2>1, <2>2, <2>3, <2>4, <2>5 DEF configRouter
  <2>7. configRouter \in Seq(Range(configRouter)) /\ Range(configRouter) = {a, b, c, d, e}
    BY <2>6, RangeOfTuple
  <2> QED
    BY <2>1, <2>2, <2>3, <2>4, <2>5, <2>7
<1>8. /\ executionRouter \in Seq(Range(executionRouter))
      /\ Range(executionRouter) = {Route("GET", <<"execution", "status">>, {}),
            Route("POST", <<"execution", "pause">>, {}),
            Route("POST", <<"execution", "resume">>, {})}
  <2>1. PICK a : a = Route("GET", <<"execution", "status">>, {})
    OBVIOUS
  <2>2. PICK b : b = Route("POST", <<"execution", "pause">>, {})
    OBVIOUS
  <2>3. PICK c : c = Route("POST", <<"execution", "resume">>, {})
    OBVIOUS
  <2>4. executionRouter = <<a, b, c>>
    BY <2>1, <2>2, <2>3 DEF executionRouter
  <2>5. executionRouter \in Seq(Range(executionRouter)) /\ Range(executionRouter) = {a, b, c}
    BY <2>4, RangeOfTuple
  <2> QED
    BY <2>1, <2>2, <2>3, <2>5
<1> QED
  BY <1>1, <1>2, <1>3, <1>4, <1>5, <1>6, <1>7, <1>8

(* The routes of all routers. *)
Routes ==
    Range(healthRouter) \cup Range(marketsRouter) \cup Range(snapshotsRouter)
        \cup Range(signalsRouter) \cup Range(strategiesRouter) \cup Range(ordersRouter)
        \cup Range(configRouter) \cup Range(executionRouter)

LEMMA RoutesAre == router \in Seq(Routes) /\ Range(router) = Routes
<1>1. /\ healthRouter \in Seq(Routes)
      /\ marketsRouter \in Seq(Routes)
      /\ snapshotsRouter \in Seq(Routes)
      /\ signalsRouter \in Seq(Routes)
      /\ strategiesRouter \in Seq(Routes)
      /\ ordersRouter \in Seq(Routes)
      /\ configRouter \in Seq(Routes)
      /\ executionRouter \in Seq(Routes)
  <2>1. Range(healthRouter) \subseteq Routes
    BY DEF Routes
  <2>2. Range(marketsRouter) \subseteq Routes
    BY DEF Routes
  <2>3. Range(snapshotsRouter) \subseteq Routes
    BY DEF Routes
  <2>4. Range(signalsRouter) \subseteq Routes
    BY DEF Routes
  <2>5. Range(strategiesRouter) \subseteq Routes
    BY DEF Routes
  <2>6. Range(ordersRouter) \subseteq Routes
    BY DEF Routes
  <2>7. Range(configRouter) \subseteq Routes
    BY DEF Routes
  <2>8. Range(executionRouter) \subseteq Routes
    BY DEF Routes
  <2>9. ASSUME NEW S, S \subseteq Routes, NEW s \in Seq(S) PROVE s \in Seq(Routes)
    BY <2>9
  <2> QED
    BY <2>1, <2>2, <2>3, <2>4, <2>5, <2>6, <2>7, <2>8, <2>9, RoutersAre
<1>2. PICK s2 : s2 = healthRouter \o marketsRouter
  OBVIOUS
<1>12. s2 \in Seq(Routes) /\ Range(s2) = Range(healthRouter) \cup Range(marketsRouter)
  BY <1>1, <1>2, RangeConcatenation
<1>3. PICK s3 : s3 = s2 \o snapshotsRouter
  OBVIOUS
<1>13. s3 \in Seq(Routes) /\ Range(s3) = Range(s2) \cup Range(snapshotsRouter)
  BY <1>1, <1>3, <1>12, RangeConcatenation
<1>4. PICK s4 : s4 = s3 \o signalsRouter
  OBVIOUS
<1>14. s4 \in Seq(Routes) /\ Range(s4) = Range(s3) \cup Range(signalsRouter)
  BY <1>1, <1>4, <1>13, RangeConcatenation
<1>5. PICK s5 : s5 = s4 \o strategiesRouter
  OBVIOUS
<1>15. s5 \in Seq(Routes) /\ Range(s5) = Range(s4) \cup Range(strategiesRouter)
  BY <1>1, <1>5, <1>14, RangeConcatenation
<1>6. PICK s6 : s6 = s5 \o ordersRouter
  OBVIOUS
<1>16. s6 \in Seq(Routes) /\ Range(s6) = Range(s5) \cup Range(ordersRouter)
  BY <1>1, <1>6, <1>15, RangeConcatenation
<1>7. PICK s7 : s7 = s6 \o configRouter
  OBVIOUS
<1>17. s7 \in Seq(Routes) /\ Range(s7) = Range(s6) \cup Range(configRouter)
  BY <1>1, <1>7, <1>16, RangeConcatenation
<1>8. PICK s8 : s8 = s7 \o executionRouter
  OBVIOUS
<1>18. s8 \in Seq(Routes) /\ Range(s8) = Range(s7) \cup Range(executionRouter)
  BY <1>1, <1>8, <1>17, RangeConcatenation
<1>20. router = s8
  BY <1>2, <1>3, <1>4, <1>5, <1>6, <1>7, <1>8, Zenon DEF router
<1>21. Range(s8) = Routes
  BY <1>12, <1>13,
     <1>14, <1>15, <1>16, <1>17, <1>18 DEF Routes
<1> QED
  BY <1>18, <1>20, <1>21

(* The handler that runs is one that fits, when there is one. *)
LEMMA ServedFits ==
  ASSUME NEW request, NEW route, {r \in Range(router) : Handles(r, request)} = {route}
  PROVE  Served(request) = route
<1> DEFINE I == {i \in 1..Len(router) : Handles(router[i], request)}
<1>1. DOMAIN router = 1..Len(router) /\ Len(router) \in Nat
  BY RoutesAre
<1>2. I # {} /\ I \subseteq Nat
  BY <1>1 DEF Range
<1>3. Min(I) \in I
  <2>1. PICK n \in I : \A i \in I : n <= i
    <3>1. PICK n \in I : \A m \in I : <<m, n>> \notin LessThan
      <4> HIDE DEF I
      <4> QED
        BY <1>2, WFMin, LessThanWellFounded
    <3>2. \A m \in I : n <= m
      <4> SUFFICES ASSUME NEW m \in I PROVE n <= m
        OBVIOUS
      <4>1. m \in Nat /\ n \in Nat
        BY <1>2
      <4>2. <<m, n>> \notin LessThan
        BY <3>1
      <4>3. m < n => <<m, n>> \in LessThan
        BY <4>1 DEF LessThan
      <4> QED
        BY <4>1, <4>2, <4>3
    <3> HIDE DEF I
    <3> QED
      BY <3>1, <3>2
  <2> HIDE DEF I
  <2> QED
    BY <1>2, <2>1 DEF Min
<1>4. SelectInSeq(router, LAMBDA r : Handles(r, request)) = Min(I)
  BY <1>2 DEF SelectInSeq
<1>5. Min(I) # 0
  BY <1>3
<1>6. Served(request) = router[Min(I)]
  <2> HIDE DEF I
  <2> QED
    BY <1>4, <1>5 DEF Served
<1> QED
  BY <1>1, <1>3, <1>6 DEF Range

(* The routes with one name and those with two. *)
OneName == {
    Route("GET", <<"healthz">>, {}),
    Route("GET", <<"markets">>, {}),
    Route("POST", <<"markets">>, {"markets"}),
    Route("GET", <<"snapshots">>, {"limit"}),
    Route("POST", <<"snapshots">>, {"snapshot"}),
    Route("GET", <<"signals">>, {"strategy", "marketId", "hours", "limit", "resolved"}),
    Route("POST", <<"signals">>, {"signal"}),
    Route("GET", <<"orders">>, {"status", "limit", "since", "until"}),
    Route("GET", <<"positions">>, {}),
    Route("GET", <<"portfolio">>, {})}
TwoNames == {
    Route("GET", <<"auth", "check">>, {}),
    Route("GET", <<"snapshots", Param>>, {"hours", "limit"}),
    Route("GET", <<"signals", "counts">>, {}),
    Route("GET", <<"strategies", "performance">>, {}),
    Route("GET", <<"orders", "analytics">>, {}),
    Route("DELETE", <<"orders", Param>>, {}),
    Route("POST", <<"orders", "cancel-all">>, {}),
    Route("GET", <<"config", "bankroll">>, {}),
    Route("PUT", <<"config", "bankroll">>, {"bankroll"}),
    Route("GET", <<"config", "risk">>, {}),
    Route("PUT", <<"config", "position-pct">>, {"pct"}),
    Route("PUT", <<"config", "portfolio-pct">>, {"pct"}),
    Route("GET", <<"execution", "status">>, {}),
    Route("POST", <<"execution", "pause">>, {}),
    Route("POST", <<"execution", "resume">>, {})}

LEMMA RoutesByLength == Routes = OneName \cup TwoNames
<1>1. \A r : r \in Routes <=> r \in OneName \cup TwoNames
  BY RoutersAre DEF Routes, OneName, TwoNames
<1> QED
  BY <1>1

HasNames(route, n) ==
    DOMAIN route.path = 1..n /\ Len(route.path) = n /\ route.path[1] # Param

LEMMA NamesOfRoutes ==
  /\ \A r \in OneName : HasNames(r, 1)
  /\ \A r \in TwoNames : HasNames(r, 2)
<1>1. ASSUME NEW method, NEW name, name # Param, NEW reads
      PROVE  HasNames(Route(method, <<name>>, reads), 1)
  BY <1>1 DEF Route, HasNames
<1>2. ASSUME NEW method, NEW name, name # Param, NEW other, NEW reads
      PROVE  HasNames(Route(method, <<name, other>>, reads), 2)
  BY <1>2 DEF Route, HasNames
<1>3. \A r \in OneName : HasNames(r, 1)
  BY <1>1 DEF OneName, Param
<1>4. \A r \in TwoNames : HasNames(r, 2)
  <2>1. \A method, name, other, reads :
            name # ":param" => HasNames(Route(method, <<name, other>>, reads), 2)
    BY <1>2 DEF Param
  <2> SUFFICES ASSUME NEW r \in TwoNames PROVE HasNames(r, 2)
    OBVIOUS
  <2>2. \E method, name, other, reads :
            name # ":param" /\ r = Route(method, <<name, other>>, reads)
    BY Zenon DEF TwoNames
  <2> QED
    BY <2>1, <2>2
<1> QED
  BY <1>3, <1>4

(* When a route fits what is asked for. *)
Suits(route, method, path) ==
    /\ route.method = method /\ Len(route.path) = Len(path)
    /\ route.path[1] = path[1]
    /\ Len(path) = 2 => route.path[2] \in {Param, path[2]}

LEMMA HandlesWhenSuited ==
  ASSUME NEW route \in Routes, NEW request, Len(request.path) \in {1, 2}
  PROVE  Handles(route, request) <=> Suits(route, request.method, request.path)
<1>1. CASE route \in OneName
  <2>1. DOMAIN route.path = 1..1 /\ Len(route.path) = 1 /\ route.path[1] # Param
    BY <1>1, NamesOfRoutes DEF HasNames
  <2> QED
    BY <2>1 DEF Handles, Suits
<1>2. CASE route \in TwoNames
  <2>1. DOMAIN route.path = 1..2 /\ Len(route.path) = 2 /\ route.path[1] # Param
    BY <1>2, NamesOfRoutes DEF HasNames
  <2> QED
    BY <2>1 DEF Handles, Suits
<1> QED
  BY <1>1, <1>2, RoutesByLength

(* The one route that suits. *)
Only(method, path, route) == {r \in Routes : Suits(r, method, path)} = {route}

(* What RequestsAreServed asks of one request. *)
WellServed(s) ==
    LET route == Served(s.request)
    IN  /\ {r \in Range(router) : Handles(r, s.request)} = {route}
        /\ s.names \subseteq route.reads
        /\ s.request.method = "GET" \/ s.names = route.reads

LEMMA OnlyServes ==
  ASSUME NEW request, NEW method, NEW path, request.method = method, request.path = path,
         Len(path) \in {1, 2}, NEW reads, NEW routePath,
         Only(method, path, Route(method, routePath, reads)),
         NEW names, names \subseteq reads, method = "GET" \/ names = reads
  PROVE  WellServed(Sends(request, names))
<1>1. PICK route : route = Route(method, routePath, reads)
  OBVIOUS
<1>2. {r \in Routes : Suits(r, method, path)} = {route}
  BY <1>1 DEF Only
<1>3. {r \in Range(router) : Handles(r, request)} = {route}
  BY <1>2, RoutesAre, HandlesWhenSuited
<1>4. Served(request) = route
  BY <1>3, ServedFits
<1>5. route.reads = reads
  BY <1>1 DEF Route
<1>6. Sends(request, names).request = request /\ Sends(request, names).names = names
  BY DEF Sends
<1> QED
  BY <1>3, <1>4, <1>5, <1>6 DEF WellServed

LEMMA OtherLength ==
  /\ \A r \in TwoNames : \A method, name : ~Suits(r, method, <<name>>)
  /\ \A r \in OneName : \A method, name, other : ~Suits(r, method, <<name, other>>)
<1>1. ASSUME NEW r \in TwoNames, NEW method, NEW name PROVE ~Suits(r, method, <<name>>)
  BY NamesOfRoutes DEF Suits, HasNames
<1>2. ASSUME NEW r \in OneName, NEW method, NEW name, NEW other
      PROVE  ~Suits(r, method, <<name, other>>)
  BY NamesOfRoutes DEF Suits, HasNames
<1> QED
  BY <1>1, <1>2

LEMMA OnlyOfOne ==
  ASSUME NEW method, NEW name, NEW route \in OneName,
         \A r \in OneName : Suits(r, method, <<name>>) <=> r = route
  PROVE  Only(method, <<name>>, route)
BY OtherLength, RoutesByLength DEF Only

LEMMA OnlyOfTwo ==
  ASSUME NEW method, NEW name, NEW other, NEW route \in TwoNames,
         \A r \in TwoNames : Suits(r, method, <<name, other>>) <=> r = route
  PROVE  Only(method, <<name, other>>, route)
BY OtherLength, RoutesByLength DEF Only

(* Which routes the dashboard asks for. *)
LEMMA OneNameOnly ==
  /\ Only("GET", <<"healthz">>, Route("GET", <<"healthz">>, {}))
  /\ Only("GET", <<"markets">>, Route("GET", <<"markets">>, {}))
  /\ Only("POST", <<"markets">>, Route("POST", <<"markets">>, {"markets"}))
  /\ Only("GET", <<"snapshots">>, Route("GET", <<"snapshots">>, {"limit"}))
  /\ Only("POST", <<"snapshots">>, Route("POST", <<"snapshots">>, {"snapshot"}))
  /\ Only("GET", <<"signals">>,
          Route("GET", <<"signals">>, {"strategy", "marketId", "hours", "limit", "resolved"}))
  /\ Only("POST", <<"signals">>, Route("POST", <<"signals">>, {"signal"}))
  /\ Only("GET", <<"orders">>,
          Route("GET", <<"orders">>, {"status", "limit", "since", "until"}))
  /\ Only("GET", <<"positions">>, Route("GET", <<"positions">>, {}))
  /\ Only("GET", <<"portfolio">>, Route("GET", <<"portfolio">>, {}))
<1>1. Only("GET", <<"healthz">>, Route("GET", <<"healthz">>, {}))
  <2>1. \A m, x, reads : Suits(Route(m, <<x>>, reads), "GET", <<"healthz">>)
            <=> m = "GET" /\ x = "healthz"
    BY DEF Suits, Route
  <2>2. \A r \in OneName : Suits(r, "GET", <<"healthz">>)
            <=> r = Route("GET", <<"healthz">>, {})
    BY <2>1 DEF OneName
  <2>3. Route("GET", <<"healthz">>, {}) \in OneName
    BY DEF OneName
  <2> QED
    BY <2>2, <2>3, OnlyOfOne
<1>2. Only("GET", <<"markets">>, Route("GET", <<"markets">>, {}))
  <2>1. \A m, x, reads : Suits(Route(m, <<x>>, reads), "GET", <<"markets">>)
            <=> m = "GET" /\ x = "markets"
    BY DEF Suits, Route
  <2>2. \A r \in OneName : Suits(r, "GET", <<"markets">>)
            <=> r = Route("GET", <<"markets">>, {})
    BY <2>1 DEF OneName
  <2>3. Route("GET", <<"markets">>, {}) \in OneName
    BY DEF OneName
  <2> QED
    BY <2>2, <2>3, OnlyOfOne
<1>3. Only("POST", <<"markets">>, Route("POST", <<"markets">>, {"markets"}))
  <2>1. \A m, x, reads : Suits(Route(m, <<x>>, reads), "POST", <<"markets">>)
            <=> m = "POST" /\ x = "markets"
    BY DEF Suits, Route
  <2>2. \A r \in OneName : Suits(r, "POST", <<"markets">>)
            <=> r = Route("POST", <<"markets">>, {"markets"})
    BY <2>1 DEF OneName
  <2>3. Route("POST", <<"markets">>, {"markets"}) \in OneName
    BY DEF OneName
  <2> QED
    BY <2>2, <2>3, OnlyOfOne
<1>4. Only("GET", <<"snapshots">>, Route("GET", <<"snapshots">>, {"limit"}))
  <2>1. \A m, x, reads : Suits(Route(m, <<x>>, reads), "GET", <<"snapshots">>)
            <=> m = "GET" /\ x = "snapshots"
    BY DEF Suits, Route
  <2>2. \A r \in OneName : Suits(r, "GET", <<"snapshots">>)
            <=> r = Route("GET", <<"snapshots">>, {"limit"})
    BY <2>1 DEF OneName
  <2>3. Route("GET", <<"snapshots">>, {"limit"}) \in OneName
    BY DEF OneName
  <2> QED
    BY <2>2, <2>3, OnlyOfOne
<1>5. Only("POST", <<"snapshots">>, Route("POST", <<"snapshots">>, {"snapshot"}))
  <2>1. \A m, x, reads : Suits(Route(m, <<x>>, reads), "POST", <<"snapshots">>)
            <=> m = "POST" /\ x = "snapshots"
    BY DEF Suits, Route
  <2>2. \A r \in OneName : Suits(r, "POST", <<"snapshots">>)
            <=> r = Route("POST", <<"snapshots">>, {"snapshot"})
    BY <2>1 DEF OneName
  <2>3. Route("POST", <<"snapshots">>, {"snapshot"}) \in OneName
    BY DEF OneName
  <2> QED
    BY <2>2, <2>3, OnlyOfOne
<1>6. Only("GET", <<"signals">>,
           Route("GET", <<"signals">>, {"strategy", "marketId", "hours", "limit", "resolved"}))
  <2>1. \A m, x, reads : Suits(Route(m, <<x>>, reads), "GET", <<"signals">>)
            <=> m = "GET" /\ x = "signals"
    BY DEF Suits, Route
  <2>2. \A r \in OneName : Suits(r, "GET", <<"signals">>)
            <=> r = Route("GET", <<"signals">>,
                       {"strategy", "marketId", "hours", "limit", "resolved"})
    BY <2>1 DEF OneName
  <2>3. Route("GET", <<"signals">>, {"strategy", "marketId", "hours", "limit", "resolved"})
            \in OneName
    BY DEF OneName
  <2> QED
    BY <2>2, <2>3, OnlyOfOne
<1>7. Only("POST", <<"signals">>, Route("POST", <<"signals">>, {"signal"}))
  <2>1. \A m, x, reads : Suits(Route(m, <<x>>, reads), "POST", <<"signals">>)
            <=> m = "POST" /\ x = "signals"
    BY DEF Suits, Route
  <2>2. \A r \in OneName : Suits(r, "POST", <<"signals">>)
            <=> r = Route("POST", <<"signals">>, {"signal"})
    BY <2>1 DEF OneName
  <2>3. Route("POST", <<"signals">>, {"signal"}) \in OneName
    BY DEF OneName
  <2> QED
    BY <2>2, <2>3, OnlyOfOne
<1>8. Only("GET", <<"orders">>,
           Route("GET", <<"orders">>, {"status", "limit", "since", "until"}))
  <2>1. \A m, x, reads : Suits(Route(m, <<x>>, reads), "GET", <<"orders">>)
            <=> m = "GET" /\ x = "orders"
    BY DEF Suits, Route
  <2>2. \A r \in OneName : Suits(r, "GET", <<"orders">>)
            <=> r = Route("GET", <<"orders">>, {"status", "limit", "since", "until"})
    BY <2>1 DEF OneName
  <2>3. Route("GET", <<"orders">>, {"status", "limit", "since", "until"}) \in OneName
    BY DEF OneName
  <2> QED
    BY <2>2, <2>3, OnlyOfOne
<1>9. Only("GET", <<"positions">>, Route("GET", <<"positions">>, {}))
  <2>1. \A m, x, reads : Suits(Route(m, <<x>>, reads), "GET", <<"positions">>)
            <=> m = "GET" /\ x = "positions"
    BY DEF Suits, Route
  <2>2. \A r \in OneName : Suits(r, "GET", <<"positions">>)
            <=> r = Route("GET", <<"positions">>, {})
    BY <2>1 DEF OneName
  <2>3. Route("GET", <<"positions">>, {}) \in OneName
    BY DEF OneName
  <2> QED
    BY <2>2, <2>3, OnlyOfOne
<1>10. Only("GET", <<"portfolio">>, Route("GET", <<"portfolio">>, {}))
  <2>1. \A m, x, reads : Suits(Route(m, <<x>>, reads), "GET", <<"portfolio">>)
            <=> m = "GET" /\ x = "portfolio"
    BY DEF Suits, Route
  <2>2. \A r \in OneName : Suits(r, "GET", <<"portfolio">>)
            <=> r = Route("GET", <<"portfolio">>, {})
    BY <2>1 DEF OneName
  <2>3. Route("GET", <<"portfolio">>, {}) \in OneName
    BY DEF OneName
  <2> QED
    BY <2>2, <2>3, OnlyOfOne
<1> QED
  BY <1>1, <1>2, <1>3, <1>4, <1>5, <1>6, <1>7, <1>8, <1>9, <1>10

LEMMA TwoNamesOnly ==
  ASSUME NEW id
  PROVE  /\ Only("GET", <<"snapshots", id>>,
                 Route("GET", <<"snapshots", Param>>, {"hours", "limit"}))
         /\ Only("GET", <<"signals", "counts">>, Route("GET", <<"signals", "counts">>, {}))
         /\ Only("GET", <<"strategies", "performance">>,
                 Route("GET", <<"strategies", "performance">>, {}))
         /\ Only("GET", <<"orders", "analytics">>,
                 Route("GET", <<"orders", "analytics">>, {}))
         /\ Only("DELETE", <<"orders", id>>, Route("DELETE", <<"orders", Param>>, {}))
         /\ Only("POST", <<"orders", "cancel-all">>,
                 Route("POST", <<"orders", "cancel-all">>, {}))
         /\ Only("GET", <<"config", "risk">>, Route("GET", <<"config", "risk">>, {}))
         /\ Only("GET", <<"execution", "status">>,
                 Route("GET", <<"execution", "status">>, {}))
         /\ Only("PUT", <<"config", "bankroll">>,
                 Route("PUT", <<"config", "bankroll">>, {"bankroll"}))
         /\ Only("PUT", <<"config", "position-pct">>,
                 Route("PUT", <<"config", "position-pct">>, {"pct"}))
         /\ Only("PUT", <<"config", "portfolio-pct">>,
                 Route("PUT", <<"config", "portfolio-pct">>, {"pct"}))
         /\ Only("POST", <<"execution", "pause">>,
                 Route("POST", <<"execution", "pause">>, {}))
         /\ Only("POST", <<"execution", "resume">>,
                 Route("POST", <<"execution", "resume">>, {}))
<1>1. Only("GET", <<"snapshots", id>>,
           Route("GET", <<"snapshots", Param>>, {"hours", "limit"}))
  <2>1. \A m, x, y, reads : Suits(Route(m, <<x, y>>, reads), "GET", <<"snapshots", id>>)
            <=> m = "GET" /\ x = "snapshots" /\ y \in {Param, id}
    BY DEF Suits, Route
  <2>2. \A r \in TwoNames : Suits(r, "GET", <<"snapshots", id>>)
            <=> r = Route("GET", <<"snapshots", Param>>, {"hours", "limit"})
    BY <2>1 DEF TwoNames, Param
  <2>3. Route("GET", <<"snapshots", Param>>, {"hours", "limit"}) \in TwoNames
    BY DEF TwoNames
  <2> QED
    BY <2>2, <2>3, OnlyOfTwo
<1>2. Only("GET", <<"signals", "counts">>, Route("GET", <<"signals", "counts">>, {}))
  <2>1. \A m, x, y, reads : Suits(Route(m, <<x, y>>, reads), "GET", <<"signals", "counts">>)
            <=> m = "GET" /\ x = "signals" /\ y \in {Param, "counts"}
    BY DEF Suits, Route
  <2>2. \A r \in TwoNames : Suits(r, "GET", <<"signals", "counts">>)
            <=> r = Route("GET", <<"signals", "counts">>, {})
    BY <2>1 DEF TwoNames, Param
  <2>3. Route("GET", <<"signals", "counts">>, {}) \in TwoNames
    BY DEF TwoNames
  <2> QED
    BY <2>2, <2>3, OnlyOfTwo
<1>3. Only("GET", <<"strategies", "performance">>,
           Route("GET", <<"strategies", "performance">>, {}))
  <2>1. \A m, x, y, reads : Suits(Route(m, <<x, y>>, reads), "GET", <<"strategies", "performance">>)
            <=> m = "GET" /\ x = "strategies" /\ y \in {Param, "performance"}
    BY DEF Suits, Route
  <2>2. \A r \in TwoNames : Suits(r, "GET", <<"strategies", "performance">>)
            <=> r = Route("GET", <<"strategies", "performance">>, {})
    BY <2>1 DEF TwoNames, Param
  <2>3. Route("GET", <<"strategies", "performance">>, {}) \in TwoNames
    BY DEF TwoNames
  <2> QED
    BY <2>2, <2>3, OnlyOfTwo
<1>4. Only("GET", <<"orders", "analytics">>, Route("GET", <<"orders", "analytics">>, {}))
  <2>1. \A m, x, y, reads : Suits(Route(m, <<x, y>>, reads), "GET", <<"orders", "analytics">>)
            <=> m = "GET" /\ x = "orders" /\ y \in {Param, "analytics"}
    BY DEF Suits, Route
  <2>2. \A r \in TwoNames : Suits(r, "GET", <<"orders", "analytics">>)
            <=> r = Route("GET", <<"orders", "analytics">>, {})
    BY <2>1 DEF TwoNames, Param
  <2>3. Route("GET", <<"orders", "analytics">>, {}) \in TwoNames
    BY DEF TwoNames
  <2> QED
    BY <2>2, <2>3, OnlyOfTwo
<1>5. Only("DELETE", <<"orders", id>>, Route("DELETE", <<"orders", Param>>, {}))
  <2>1. \A m, x, y, reads : Suits(Route(m, <<x, y>>, reads), "DELETE", <<"orders", id>>)
            <=> m = "DELETE" /\ x = "orders" /\ y \in {Param, id}
    BY DEF Suits, Route
  <2>2. \A r \in TwoNames : Suits(r, "DELETE", <<"orders", id>>)
            <=> r = Route("DELETE", <<"orders", Param>>, {})
    BY <2>1 DEF TwoNames, Param
  <2>3. Route("DELETE", <<"orders", Param>>, {}) \in TwoNames
    BY DEF TwoNames
  <2> QED
    BY <2>2, <2>3, OnlyOfTwo
<1>6. Only("POST", <<"orders", "cancel-all">>,
           Route("POST", <<"orders", "cancel-all">>, {}))
  <2>1. \A m, x, y, reads : Suits(Route(m, <<x, y>>, reads), "POST", <<"orders", "cancel-all">>)
            <=> m = "POST" /\ x = "orders" /\ y \in {Param, "cancel-all"}
    BY DEF Suits, Route
  <2>2. \A r \in TwoNames : Suits(r, "POST", <<"orders", "cancel-all">>)
            <=> r = Route("POST", <<"orders", "cancel-all">>, {})
    BY <2>1 DEF TwoNames, Param
  <2>3. Route("POST", <<"orders", "cancel-all">>, {}) \in TwoNames
    BY DEF TwoNames
  <2> QED
    BY <2>2, <2>3, OnlyOfTwo
<1>7. Only("GET", <<"config", "risk">>, Route("GET", <<"config", "risk">>, {}))
  <2>1. \A m, x, y, reads : Suits(Route(m, <<x, y>>, reads), "GET", <<"config", "risk">>)
            <=> m = "GET" /\ x = "config" /\ y \in {Param, "risk"}
    BY DEF Suits, Route
  <2>2. \A r \in TwoNames : Suits(r, "GET", <<"config", "risk">>)
            <=> r = Route("GET", <<"config", "risk">>, {})
    BY <2>1 DEF TwoNames, Param
  <2>3. Route("GET", <<"config", "risk">>, {}) \in TwoNames
    BY DEF TwoNames
  <2> QED
    BY <2>2, <2>3, OnlyOfTwo
<1>8. Only("GET", <<"execution", "status">>, Route("GET", <<"execution", "status">>, {}))
  <2>1. \A m, x, y, reads : Suits(Route(m, <<x, y>>, reads), "GET", <<"execution", "status">>)
            <=> m = "GET" /\ x = "execution" /\ y \in {Param, "status"}
    BY DEF Suits, Route
  <2>2. \A r \in TwoNames : Suits(r, "GET", <<"execution", "status">>)
            <=> r = Route("GET", <<"execution", "status">>, {})
    BY <2>1 DEF TwoNames, Param
  <2>3. Route("GET", <<"execution", "status">>, {}) \in TwoNames
    BY DEF TwoNames
  <2> QED
    BY <2>2, <2>3, OnlyOfTwo
<1>9. Only("PUT", <<"config", "bankroll">>,
           Route("PUT", <<"config", "bankroll">>, {"bankroll"}))
  <2>1. \A m, x, y, reads : Suits(Route(m, <<x, y>>, reads), "PUT", <<"config", "bankroll">>)
            <=> m = "PUT" /\ x = "config" /\ y \in {Param, "bankroll"}
    BY DEF Suits, Route
  <2>2. \A r \in TwoNames : Suits(r, "PUT", <<"config", "bankroll">>)
            <=> r = Route("PUT", <<"config", "bankroll">>, {"bankroll"})
    BY <2>1 DEF TwoNames, Param
  <2>3. Route("PUT", <<"config", "bankroll">>, {"bankroll"}) \in TwoNames
    BY DEF TwoNames
  <2> QED
    BY <2>2, <2>3, OnlyOfTwo
<1>10. Only("PUT", <<"config", "position-pct">>,
            Route("PUT", <<"config", "position-pct">>, {"pct"}))
  <2>1. \A m, x, y, reads : Suits(Route(m, <<x, y>>, reads), "PUT", <<"config", "position-pct">>)
            <=> m = "PUT" /\ x = "config" /\ y \in {Param, "position-pct"}
    BY DEF Suits, Route
  <2>2. \A r \in TwoNames : Suits(r, "PUT", <<"config", "position-pct">>)
            <=> r = Route("PUT", <<"config", "position-pct">>, {"pct"})
    BY <2>1 DEF TwoNames, Param
  <2>3. Route("PUT", <<"config", "position-pct">>, {"pct"}) \in TwoNames
    BY DEF TwoNames
  <2> QED
    BY <2>2, <2>3, OnlyOfTwo
<1>11. Only("PUT", <<"config", "portfolio-pct">>,
            Route("PUT", <<"config", "portfolio-pct">>, {"pct"}))
  <2>1. \A m, x, y, reads : Suits(Route(m, <<x, y>>, reads), "PUT", <<"config", "portfolio-pct">>)
            <=> m = "PUT" /\ x = "config" /\ y \in {Param, "portfolio-pct"}
    BY DEF Suits, Route
  <2>2. \A r \in TwoNames : Suits(r, "PUT", <<"config", "portfolio-pct">>)
            <=> r = Route("PUT", <<"config", "portfolio-pct">>, {"pct"})
    BY <2>1 DEF TwoNames, Param
  <2>3. Route("PUT", <<"config", "portfolio-pct">>, {"pct"}) \in TwoNames
    BY DEF TwoNames
  <2> QED
    BY <2>2, <2>3, OnlyOfTwo
<1>12. Only("POST", <<"execution", "pause">>, Route("POST", <<"execution", "pause">>, {}))
  <2>1. \A m, x, y, reads : Suits(Route(m, <<x, y>>, reads), "POST", <<"execution", "pause">>)
            <=> m = "POST" /\ x = "execution" /\ y \in {Param, "pause"}
    BY DEF Suits, Route
  <2>2. \A r \in TwoNames : Suits(r, "POST", <<"execution", "pause">>)
            <=> r = Route("POST", <<"execution", "pause">>, {})
    BY <2>1 DEF TwoNames, Param
  <2>3. Route("POST", <<"execution", "pause">>, {}) \in TwoNames
    BY DEF TwoNames
  <2> QED
    BY <2>2, <2>3, OnlyOfTwo
<1>13. Only("POST", <<"execution", "resume">>, Route("POST", <<"execution", "resume">>, {}))
  <2>1. \A m, x, y, reads : Suits(Route(m, <<x, y>>, reads), "POST", <<"execution", "resume">>)
            <=> m = "POST" /\ x = "execution" /\ y \in {Param, "resume"}
    BY DEF Suits, Route
  <2>2. \A r \in TwoNames : Suits(r, "POST", <<"execution", "resume">>)
            <=> r = Route("POST", <<"execution", "resume">>, {})
    BY <2>1 DEF TwoNames, Param
  <2>3. Route("POST", <<"execution", "resume">>, {}) \in TwoNames
    BY DEF TwoNames
  <2> QED
    BY <2>2, <2>3, OnlyOfTwo
<1> QED
  BY <1>1, <1>2, <1>3, <1>4, <1>5, <1>6, <1>7, <1>8, <1>9, <1>10, <1>11, <1>12, <1>13

LEMMA SentServed ==
  ASSUME NEW market, NEW id, NEW s \in DashboardRequests(market, id)
  PROVE  WellServed(s)
<1>1. WellServed(Sends(HealthCheck, {}))
  <2>1. HealthCheck.method = "GET" /\ HealthCheck.path = <<"healthz">>
    BY DEF HealthCheck, Query
  <2> QED
    BY <2>1, OneNameOnly, OnlyServes
<1>2. WellServed(Sends(ListMarkets, {}))
  <2>1. ListMarkets.method = "GET" /\ ListMarkets.path = <<"markets">>
    BY DEF ListMarkets, Query
  <2> QED
    BY <2>1, OneNameOnly, OnlyServes
<1>3. WellServed(Sends(UpsertMarkets, UpsertMarketsBody))
  <2>1. UpsertMarkets.method = "POST" /\ UpsertMarkets.path = <<"markets">>
    BY DEF UpsertMarkets, Mutation
  <2> QED
    BY <2>1, OneNameOnly, OnlyServes DEF UpsertMarketsBody
<1>4. WellServed(Sends(ListSnapshots(<<"100">>), ListSnapshotsParams))
  <2>1. ListSnapshots(<<"100">>).method = "GET" /\ ListSnapshots(<<"100">>).path = <<"snapshots">>
    BY DEF ListSnapshots, Query
  <2> QED
    BY <2>1, OneNameOnly, OnlyServes DEF ListSnapshotsParams
<1>5. WellServed(Sends(CreateSnapshot, {"snapshot"}))
  <2>1. CreateSnapshot.method = "POST" /\ CreateSnapshot.path = <<"snapshots">>
    BY DEF CreateSnapshot, Mutation
  <2> QED
    BY <2>1, OneNameOnly, OnlyServes
<1>6. WellServed(Sends(GetMarketSnapshots(market, <<"168">>), GetMarketSnapshotsParams))
  <2>1. /\ GetMarketSnapshots(market, <<"168">>).method = "GET"
        /\ GetMarketSnapshots(market, <<"168">>).path = <<"snapshots", market>>
    BY DEF GetMarketSnapshots, Query
  <2> QED
    BY <2>1, TwoNamesOnly, OnlyServes DEF GetMarketSnapshotsParams
<1>7. WellServed(Sends(ListSignals(<<"8">>), ListSignalsParams))
  <2>1. ListSignals(<<"8">>).method = "GET" /\ ListSignals(<<"8">>).path = <<"signals">>
    BY DEF ListSignals, Query
  <2>2. PICK reads : reads = {"strategy", "marketId", "hours", "limit", "resolved"}
    OBVIOUS
  <2>3. PICK names : names = ListSignalsParams
    OBVIOUS
  <2>4. Only("GET", <<"signals">>, Route("GET", <<"signals">>, reads))
    BY <2>2, OneNameOnly
  <2>5. names \subseteq reads
    BY <2>2, <2>3 DEF ListSignalsParams
  <2>6. WellServed(Sends(ListSignals(<<"8">>), names))
    BY <2>1, <2>4, <2>5, OnlyServes
  <2> QED
    BY <2>3, <2>6
<1>8. WellServed(Sends(MarketSignals(market), {"marketId", "hours", "limit"}))
  <2>1. MarketSignals(market).method = "GET" /\ MarketSignals(market).path = <<"signals">>
    BY DEF MarketSignals, FetchQuery
  <2>2. PICK reads : reads = {"strategy", "marketId", "hours", "limit", "resolved"}
    OBVIOUS
  <2>3. PICK names : names = {"marketId", "hours", "limit"}
    OBVIOUS
  <2>4. Only("GET", <<"signals">>, Route("GET", <<"signals">>, reads))
    BY <2>2, OneNameOnly
  <2>5. names \subseteq reads
    BY <2>2, <2>3
  <2>6. WellServed(Sends(MarketSignals(market), names))
    BY <2>1, <2>4, <2>5, OnlyServes
  <2> QED
    BY <2>3, <2>6
<1>9. WellServed(Sends(CreateSignal, {"signal"}))
  <2>1. CreateSignal.method = "POST" /\ CreateSignal.path = <<"signals">>
    BY DEF CreateSignal, Mutation
  <2> QED
    BY <2>1, OneNameOnly, OnlyServes
<1>10. WellServed(Sends(GetSignalCounts, {}))
  <2>1. GetSignalCounts.method = "GET" /\ GetSignalCounts.path = <<"signals", "counts">>
    BY DEF GetSignalCounts, Query
  <2> QED
    BY <2>1, TwoNamesOnly, OnlyServes
<1>11. WellServed(Sends(StrategyPerformance, {}))
  <2>1. /\ StrategyPerformance.method = "GET"
        /\ StrategyPerformance.path = <<"strategies", "performance">>
    BY DEF StrategyPerformance, FetchQuery
  <2> QED
    BY <2>1, TwoNamesOnly, OnlyServes
<1>12. WellServed(Sends(ListOrders(<<"active">>), ListOrdersParams))
  <2>1. ListOrders(<<"active">>).method = "GET" /\ ListOrders(<<"active">>).path = <<"orders">>
    BY DEF ListOrders, Query
  <2> QED
    BY <2>1, OneNameOnly, OnlyServes DEF ListOrdersParams
<1>13. WellServed(Sends(ListOrders(<<"closed", "1">>), ListOrdersParams))
  <2>1. /\ ListOrders(<<"closed", "1">>).method = "GET"
        /\ ListOrders(<<"closed", "1">>).path = <<"orders">>
    BY DEF ListOrders, Query
  <2> QED
    BY <2>1, OneNameOnly, OnlyServes DEF ListOrdersParams
<1>14. WellServed(Sends(OrderAnalytics, {}))
  <2>1. OrderAnalytics.method = "GET" /\ OrderAnalytics.path = <<"orders", "analytics">>
    BY DEF OrderAnalytics, FetchQuery
  <2> QED
    BY <2>1, TwoNamesOnly, OnlyServes
<1>15. WellServed(Sends(CancelOrder(id), {}))
  <2>1. CancelOrder(id).method = "DELETE" /\ CancelOrder(id).path = <<"orders", id>>
    BY DEF CancelOrder, Mutation
  <2> QED
    BY <2>1, TwoNamesOnly, OnlyServes
<1>16. WellServed(Sends(CancelAllOrders, {}))
  <2>1. CancelAllOrders.method = "POST" /\ CancelAllOrders.path = <<"orders", "cancel-all">>
    BY DEF CancelAllOrders, Mutation
  <2> QED
    BY <2>1, TwoNamesOnly, OnlyServes
<1>17. WellServed(Sends(ListPositions, {}))
  <2>1. ListPositions.method = "GET" /\ ListPositions.path = <<"positions">>
    BY DEF ListPositions, Query
  <2> QED
    BY <2>1, OneNameOnly, OnlyServes
<1>18. WellServed(Sends(GetPortfolio, {}))
  <2>1. GetPortfolio.method = "GET" /\ GetPortfolio.path = <<"portfolio">>
    BY DEF GetPortfolio, Query
  <2> QED
    BY <2>1, OneNameOnly, OnlyServes
<1>19. WellServed(Sends(RiskConfig, {}))
  <2>1. RiskConfig.method = "GET" /\ RiskConfig.path = <<"config", "risk">>
    BY DEF RiskConfig, FetchQuery
  <2> QED
    BY <2>1, TwoNamesOnly, OnlyServes
<1>20. WellServed(Sends(ExecutorStatus, {}))
  <2>1. ExecutorStatus.method = "GET" /\ ExecutorStatus.path = <<"execution", "status">>
    BY DEF ExecutorStatus, FetchQuery
  <2> QED
    BY <2>1, TwoNamesOnly, OnlyServes
<1>21. WellServed(Sends(SetBankroll, {"bankroll"}))
  <2>1. SetBankroll.method = "PUT" /\ SetBankroll.path = <<"config", "bankroll">>
    BY DEF SetBankroll, Mutation
  <2> QED
    BY <2>1, TwoNamesOnly, OnlyServes
<1>22. WellServed(Sends(SetPositionPct, {"pct"}))
  <2>1. SetPositionPct.method = "PUT" /\ SetPositionPct.path = <<"config", "position-pct">>
    BY DEF SetPositionPct, Mutation
  <2> QED
    BY <2>1, TwoNamesOnly, OnlyServes
<1>23. WellServed(Sends(SetPortfolioPct, {"pct"}))
  <2>1. SetPortfolioPct.method = "PUT" /\ SetPortfolioPct.path = <<"config", "portfolio-pct">>
    BY DEF SetPortfolioPct, Mutation
  <2> QED
    BY <2>1, TwoNamesOnly, OnlyServes
<1>24. WellServed(Sends(PauseExecutor, {}))
  <2>1. PauseExecutor.method = "POST" /\ PauseExecutor.path = <<"execution", "pause">>
    BY DEF PauseExecutor, Mutation
  <2> QED
    BY <2>1, TwoNamesOnly, OnlyServes
<1>25. WellServed(Sends(ResumeExecutor, {}))
  <2>1. ResumeExecutor.method = "POST" /\ ResumeExecutor.path = <<"execution", "resume">>
    BY DEF ResumeExecutor, Mutation
  <2> QED
    BY <2>1, TwoNamesOnly, OnlyServes
<1> QED
  BY <1>1, <1>2, <1>3, <1>4, <1>5, <1>6, <1>7, <1>8, <1>9, <1>10, <1>11, <1>12, <1>13,
     <1>14, <1>15, <1>16, <1>17, <1>18, <1>19, <1>20, <1>21, <1>22, <1>23, <1>24, <1>25, Zenon
     DEF DashboardRequests
(* The queries of the generated client, and those written by hand. *)
Generated(q) ==
    \E path, params :
        /\ q = Query(path, params)
        /\ path \notin {<<"strategies">>, <<"config">>, <<"execution">>}
        /\ path = <<"orders">> => params \in {<<"active">>, <<"closed", "1">>}
ByHand(q) ==
    \/ q \in {StrategyPerformance, OrderAnalytics, RiskConfig, ExecutorStatus}
    \/ \E market : q = MarketSignals(market)

LEMMA QueriesAre ==
  ASSUME NEW market, NEW id, NEW s \in DashboardRequests(market, id), s.request.method = "GET"
  PROVE  Generated(s.request) \/ ByHand(s.request)
<1>1. PICK q : q = s.request
  OBVIOUS
<1> DEFINE Hooks == {HealthCheck, ListMarkets, ListSnapshots(<<"100">>),
                     GetMarketSnapshots(market, <<"168">>), ListSignals(<<"8">>),
                     GetSignalCounts, ListOrders(<<"active">>), ListOrders(<<"closed", "1">>),
                     ListPositions, GetPortfolio}
           Hands == {StrategyPerformance, OrderAnalytics, RiskConfig, ExecutorStatus,
                     MarketSignals(market)}
           Changes == {UpsertMarkets, CreateSnapshot, CreateSignal, CancelOrder(id),
                       CancelAllOrders, SetBankroll, SetPositionPct, SetPortfolioPct,
                       PauseExecutor, ResumeExecutor}
<1>2. q \in Hooks \cup Hands \cup Changes
  <2>1. \A request, names : Sends(request, names).request = request
    BY DEF Sends
  <2> QED
    BY <1>1, <2>1 DEF DashboardRequests
<1>3. \A request \in Changes : request.method # "GET"
  BY DEF UpsertMarkets, CreateSnapshot, CreateSignal, CancelOrder, CancelAllOrders, SetBankroll,
         SetPositionPct, SetPortfolioPct, PauseExecutor, ResumeExecutor, Mutation
<1>4. ASSUME q \in Hooks PROVE Generated(q)
  <2>1. ASSUME NEW path, NEW params, q = Query(path, params), path # <<"orders">>,
               path \notin {<<"strategies">>, <<"config">>, <<"execution">>}
        PROVE  Generated(q)
    BY <2>1 DEF Generated
  <2>2. ASSUME NEW params, q = Query(<<"orders">>, params),
               params \in {<<"active">>, <<"closed", "1">>}
        PROVE  Generated(q)
    <3>1. <<"orders">> \notin {<<"strategies">>, <<"config">>, <<"execution">>}
      OBVIOUS
    <3> QED
      BY <2>2, <3>1 DEF Generated
  <2>3. CASE q = HealthCheck \/ q = ListMarkets
    BY <2>1, <2>3 DEF HealthCheck, ListMarkets
  <2>4. CASE q = ListSnapshots(<<"100">>) \/ q = ListSignals(<<"8">>)
    BY <2>1, <2>4 DEF ListSnapshots, ListSignals
  <2>5. CASE q = GetMarketSnapshots(market, <<"168">>) \/ q = GetSignalCounts
    BY <2>1, <2>5 DEF GetMarketSnapshots, GetSignalCounts
  <2>6. CASE q = ListPositions \/ q = GetPortfolio
    BY <2>1, <2>6 DEF ListPositions, GetPortfolio
  <2>7. CASE q = ListOrders(<<"active">>) \/ q = ListOrders(<<"closed", "1">>)
    BY <2>2, <2>7 DEF ListOrders
  <2> QED
    BY <1>4, <2>3, <2>4, <2>5, <2>6, <2>7
<1>5. ASSUME q \in Hands PROVE ByHand(q)
  BY <1>5, Zenon DEF ByHand
<1> HIDE DEF Hooks, Hands, Changes
<1> QED
  BY <1>1, <1>2, <1>3, <1>4, <1>5

(* A key stands for one address. *)
LEMMA KeysTellApart ==
  ASSUME NEW q, NEW r, Generated(q) \/ ByHand(q), Generated(r) \/ ByHand(r), q.key = r.key
  PROVE  Url(q) = Url(r)
<1>1. ASSUME NEW a, Generated(a), NEW b, Generated(b), a.key = b.key PROVE Url(a) = Url(b)
  <2>1. PICK path, params : a = Query(path, params)
    BY <1>1 DEF Generated
  <2>2. PICK path2, params2 : b = Query(path2, params2)
    BY <1>1 DEF Generated
  <2>3. QueryKey(path, params) = QueryKey(path2, params2)
    BY <1>1, <2>1, <2>2 DEF Query
  <2>4. path = path2 /\ params = params2
    BY <2>3 DEF QueryKey
  <2> QED
    BY <2>1, <2>2, <2>4
<1>2. ASSUME NEW a, ByHand(a)
      PROVE  \/ Len(a.key) = 3
             \/ /\ Len(a.key) = 2
                /\ \/ a.key[1] \in {<<"strategies">>, <<"config">>, <<"execution">>}
                   \/ a.key[1] = <<"orders">> /\ a.key[2] = <<"analytics">>
  BY <1>2 DEF ByHand, StrategyPerformance, OrderAnalytics, RiskConfig, ExecutorStatus,
              MarketSignals, FetchQuery
<1>3. ASSUME NEW a, Generated(a), NEW b, ByHand(b) PROVE a.key # b.key
  <2>1. PICK path, params :
            /\ a = Query(path, params)
            /\ path \notin {<<"strategies">>, <<"config">>, <<"execution">>}
            /\ path = <<"orders">> => params \in {<<"active">>, <<"closed", "1">>}
    BY <1>3 DEF Generated
  <2>2. a.key = <<path>> \/ a.key = <<path, params>>
    BY <2>1 DEF Query, QueryKey
  <2>3. <<"analytics">> \notin {<<"active">>, <<"closed", "1">>}
    OBVIOUS
  <2>4. CASE a.key = <<path>>
    BY <1>2, <1>3, <2>4
  <2>5. CASE a.key = <<path, params>>
    <3>1. Len(a.key) = 2 /\ a.key[1] = path /\ a.key[2] = params
      BY <2>5
    <3> QED
      BY <1>2, <1>3, <2>1, <2>3, <3>1
  <2> QED
    BY <2>2, <2>4, <2>5
<1>4. ASSUME NEW a, ByHand(a), NEW b, ByHand(b), a.key = b.key PROVE a = b
  <2>1. /\ Len(StrategyPerformance.key) = 2 /\ StrategyPerformance.key[1] = <<"strategies">>
        /\ Len(OrderAnalytics.key) = 2 /\ OrderAnalytics.key[1] = <<"orders">>
        /\ Len(RiskConfig.key) = 2 /\ RiskConfig.key[1] = <<"config">>
        /\ Len(ExecutorStatus.key) = 2 /\ ExecutorStatus.key[1] = <<"execution">>
    BY DEF StrategyPerformance, OrderAnalytics, RiskConfig, ExecutorStatus, FetchQuery
  <2>2. \A m : Len(MarketSignals(m).key) = 3 /\ MarketSignals(m).key[3] = <<m>>
    BY DEF MarketSignals, FetchQuery
  <2>3. CASE \E m : a = MarketSignals(m)
    <3>1. PICK m : a = MarketSignals(m)
      BY <2>3
    <3>2. PICK n : b = MarketSignals(n)
      BY <1>4, <2>1, <2>2, <3>1 DEF ByHand
    <3>3. <<m>> = <<n>>
      BY <1>4, <2>2, <3>1, <3>2
    <3>4. m = n
      BY <3>3
    <3> QED
      BY <3>1, <3>2, <3>4
  <2>4. CASE a \in {StrategyPerformance, OrderAnalytics, RiskConfig, ExecutorStatus}
    <3>1. Len(a.key) = 2
      BY <2>1, <2>4
    <3>2. b \in {StrategyPerformance, OrderAnalytics, RiskConfig, ExecutorStatus}
      BY <1>4, <2>2, <3>1 DEF ByHand
    <3>3. a.key[1] = b.key[1]
      BY <1>4
    <3> QED
      BY <2>1, <2>4, <3>2, <3>3
  <2> QED
    BY <1>4, <2>3, <2>4 DEF ByHand
<1> QED
  BY <1>1, <1>3, <1>4

(* Who is asked for the API key. *)
LEMMA KeyIsAskedFor ==
  /\ NeedsKey(UpsertMarkets)
  /\ \A request \in FetchMutations : ~NeedsKey(request)
<1>1. UpsertMarkets.method = "POST" /\ Head(UpsertMarkets.path) = "markets"
  BY DEF UpsertMarkets, Mutation
<1>2. \A request \in FetchMutations : Head(request.path) \in {"config", "execution"}
  BY DEF FetchMutations, SetBankroll, SetPositionPct, SetPortfolioPct, PauseExecutor,
         ResumeExecutor, Mutation
<1> QED
  BY <1>1, <1>2 DEF NeedsKey

(* What RequestsAreServed says of some requests, for any keys. *)
AllServed(sent) ==
    LET queries == {s.request : s \in {t \in sent : t.request.method = "GET"}}
    IN  /\ \A s \in sent :
                LET route == Served(s.request)
                IN  /\ {r \in Range(router) : Handles(r, s.request)} = {route}
                    /\ s.names \subseteq route.reads
                    /\ s.request \in queries \/ s.names = route.reads
        /\ \A q, r \in queries : q.key = r.key => Url(q) = Url(r)
        /\ \A configured, provided :
                AuthCheck(configured, provided).match
                    <=> \A s \in sent : Admitted(s.request, configured, provided)
        /\ \A request \in FetchMutations : \A configured : Admitted(request, configured, "")

(* Every request of the dashboard reaches the one handler that is meant    *)
(* for it, which reads what it is sent, whatever the markets and orders    *)
(* are called and whatever the keys are; two queries that share a cache    *)
(* entry ask for the same (the routers, the hooks, apiKeyAuth).            *)
THEOREM AnyRequestIsServed ==
  ASSUME NEW ids, ids # {}
  PROVE  AllServed(RequestsOf(ids))
<1> DEFINE sent == RequestsOf(ids)
           queries == {s.request : s \in {t \in sent : t.request.method = "GET"}}
<1>1. ASSUME NEW s \in sent PROVE \E m, id \in ids : s \in DashboardRequests(m, id)
  BY DEF RequestsOf
<1>2. ASSUME NEW s \in sent PROVE WellServed(s)
  BY <1>1, SentServed
<1>3. ASSUME NEW q \in queries PROVE Generated(q) \/ ByHand(q)
  <2>1. PICK s \in sent : q = s.request /\ s.request.method = "GET"
    OBVIOUS
  <2> HIDE DEF sent
  <2> QED
    BY <1>1, <2>1, QueriesAre
<1>4. \E s \in sent : s.request = UpsertMarkets
  <2>1. PICK i \in ids : TRUE
    OBVIOUS
  <2>2. PICK s : s = Sends(UpsertMarkets, UpsertMarketsBody)
    OBVIOUS
  <2>3. s \in DashboardRequests(i, i)
    BY <2>2, Zenon DEF DashboardRequests
  <2>4. s.request = UpsertMarkets
    BY <2>2 DEF Sends
  <2>5. s \in sent
    BY <2>3 DEF RequestsOf
  <2> HIDE DEF sent
  <2> QED
    BY <2>4, <2>5
<1>5. \A s \in sent : s.request.method = "GET" => s.request \in queries
  OBVIOUS
<1> HIDE DEF sent, queries
<1>6. ASSUME NEW s \in sent
      PROVE  LET route == Served(s.request)
             IN  /\ {r \in Range(router) : Handles(r, s.request)} = {route}
                 /\ s.names \subseteq route.reads
                 /\ s.request \in queries \/ s.names = route.reads
  BY <1>2, <1>5, Zenon DEF WellServed
<1>7. \A q, r \in queries : q.key = r.key => Url(q) = Url(r)
  BY <1>3, KeysTellApart
<1>8. ASSUME NEW configured, NEW provided
      PROVE  AuthCheck(configured, provided).match
                    <=> \A s \in sent : Admitted(s.request, configured, provided)
  <2>1. AuthCheck(configured, provided).match <=> configured = "" \/ provided = configured
    BY Zenon DEF AuthCheck
  <2> QED
    BY <1>4, <2>1, KeyIsAskedFor, Zenon DEF Admitted
<1>9. \A request \in FetchMutations : \A configured : Admitted(request, configured, "")
  BY KeyIsAskedFor, Zenon DEF Admitted
<1> QED
  BY <1>6, <1>7, <1>8, <1>9, Zenon DEF AllServed, sent, queries

(* What the run checks on a few names. *)
THEOREM RequestsReach == Spec => []RequestsAreServed
<1>1. AllServed(RequestsOf(Called))
  <2>1. Called # {}
    BY DEF Called
  <2> QED
    BY <2>1, AnyRequestIsServed
<1>2. RequestsAreServed
  <2> DEFINE sent == RequestsOf(Called)
             queries == {s.request : s \in {t \in sent : t.request.method = "GET"}}
  <2>1. AllServed(sent)
    BY <1>1
  <2> HIDE DEF sent
  <2>2. \A s \in sent :
            LET route == Served(s.request)
            IN  /\ {r \in Range(router) : Handles(r, s.request)} = {route}
                /\ s.names \subseteq route.reads
                /\ s.request \in queries \/ s.names = route.reads
    BY <2>1, Zenon DEF AllServed
  <2>3. \A q, r \in queries : q.key = r.key => Url(q) = Url(r)
    BY <2>1, Zenon DEF AllServed
  <2>4. \A configured, provided \in ServerKeys :
            AuthCheck(configured, provided).match
                <=> \A s \in sent : Admitted(s.request, configured, provided)
    BY <2>1, Zenon DEF AllServed
  <2>5. \A request \in FetchMutations, configured \in ServerKeys :
            Admitted(request, configured, "")
    BY <2>1, Zenon DEF AllServed
  <2> HIDE DEF queries
  <2> QED
    BY <2>2, <2>3, <2>4, <2>5, Zenon DEF RequestsAreServed, sent, queries
<1> QED
  BY <1>2, PTL
=============================================================================
