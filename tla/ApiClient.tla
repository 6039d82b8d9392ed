----------------------------- MODULE ApiClient -----------------------------
(***************************************************************************)
(* The requests the dashboard can make: the generated client of the API    *)
(* and the hooks written by hand over fetch.  A query is what it asks for  *)
(* and the cache key it is kept under; react-query, which is external,     *)
(* shares one entry among the queries with equal keys and invalidates the  *)
(* entries whose key begins with the given one.                            *)
(*                                                                         *)
(* A path and a parameter object are sequences of names: both are compared *)
(* by value and nothing here depends on how they are spelled.              *)
(***************************************************************************)
EXTENDS Sequences, SequencesExt

NoParams == <<>>

(* [path, ...(params ? [params] : [])], the key of a generated query. *)
MutantQueryKey(path, params) == <<path>>
QueryKey(path, params) ==
    IF params = NoParams THEN <<path>> ELSE <<path, params>>

Query(path, params) ==
    [method |-> "GET", path |-> path, params |-> params,
     key |-> QueryKey(path, params)]

(* A query written by hand names its key itself. *)
FetchQuery(path, params, key) ==
    [method |-> "GET", path |-> path, params |-> params, key |-> key]

Mutation(method, path) == [method |-> method, path |-> path]

(* The parameters go into the URL, those that are undefined left out. *)
Url(request) == <<request.path, request.params>>

(***************************************************************************)
(* The generated client.                                                   *)
(***************************************************************************)
HealthCheck == Query(<<"healthz">>, NoParams)
ListMarkets == Query(<<"markets">>, NoParams)
UpsertMarkets == Mutation("POST", <<"markets">>)
ListSnapshots(params) == Query(<<"snapshots">>, params)
CreateSnapshot == Mutation("POST", <<"snapshots">>)
GetMarketSnapshots(market, params) == Query(<<"snapshots", market>>, params)
ListSignals(params) == Query(<<"signals">>, params)
CreateSignal == Mutation("POST", <<"signals">>)
ListOrders(params) == Query(<<"orders">>, params)
CancelAllOrders == Mutation("POST", <<"orders", "cancel-all">>)
CancelOrder(id) == Mutation("DELETE", <<"orders", id>>)
ListPositions == Query(<<"positions">>, NoParams)
GetPortfolio == Query(<<"portfolio">>, NoParams)
GetSignalCounts == Query(<<"signals", "counts">>, NoParams)

(***************************************************************************)
(* The hooks over fetch.                                                   *)
(***************************************************************************)
StrategyPerformance ==
    FetchQuery(<<"strategies", "performance">>, NoParams,
               <<<<"strategies">>, <<"performance">>>>)
OrderAnalytics ==
    FetchQuery(<<"orders", "analytics">>, NoParams,
               <<<<"orders">>, <<"analytics">>>>)
RiskConfig ==
    FetchQuery(<<"config", "risk">>, NoParams, <<<<"config">>, <<"risk">>>>)
ExecutorStatus ==
    FetchQuery(<<"execution", "status">>, NoParams,
               <<<<"execution">>, <<"status">>>>)
MarketSignals(market) ==
    FetchQuery(<<"signals">>, <<market, "168", "5">>,
               <<<<"signals">>, <<"market">>, <<market>>>>)

SetBankroll == Mutation("PUT", <<"config", "bankroll">>)
SetPositionPct == Mutation("PUT", <<"config", "position-pct">>)
SetPortfolioPct == Mutation("PUT", <<"config", "portfolio-pct">>)
PauseExecutor == Mutation("POST", <<"execution", "pause">>)
ResumeExecutor == Mutation("POST", <<"execution", "resume">>)

(* What onSuccess invalidates, as a key. *)
BankrollInvalidates == <<<<"portfolio">>>>
CapInvalidates == <<<<"config">>, <<"risk">>>>
ToggleInvalidates == <<<<"execution">>, <<"status">>>>
CancelInvalidates == <<<<"listOrders">>>>

(* invalidateQueries({ queryKey }): does it reach the query?  (External.) *)
Reaches(invalidated, query) == IsPrefix(invalidated, query.key)

(***************************************************************************)
(* The server's side of a mutation: does it ask for the API key, and what  *)
(* does it answer to the key that was sent?  "" stands for none; a key is  *)
(* compared after trimming, so it is seen here trimmed.                    *)
(***************************************************************************)
NeedsKey(request) ==
    /\ request.method \in {"POST", "PUT", "PATCH", "DELETE"}
    /\ Head(request.path) \notin {"config", "execution"}

Admitted(request, configured, provided) ==
    NeedsKey(request) /\ configured # "" => provided = configured
=============================================================================
