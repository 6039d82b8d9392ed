----------------------------- MODULE ApiServer -----------------------------
(***************************************************************************)
(* The API server as a router: which handler a request reaches, and which  *)
(* names of its query or body that handler reads.  Express, external,      *)
(* tries the routes in the order they are mounted and takes the first that *)
(* fits; what no route fits is answered with the dashboard's index.html.   *)
(***************************************************************************)
EXTENDS ApiClient

Param == ":param"

Route(method, path, reads) == [method |-> method, path |-> path, reads |-> reads]
NoRoute == Route("GET", <<"index.html">>, {})

healthRouter == <<Route("GET", <<"auth", "check">>, {}), Route("GET", <<"healthz">>, {})>>
marketsRouter ==
    <<Route("GET", <<"markets">>, {}), Route("POST", <<"markets">>, {"markets"})>>
snapshotsRouter ==
    <<Route("GET", <<"snapshots">>, {"limit"}),
      Route("POST", <<"snapshots">>, {"snapshot"}),
      Route("GET", <<"snapshots", Param>>, {"hours", "limit"})>>
signalsRouter ==
    <<Route("GET", <<"signals", "counts">>, {}),
      Route("GET", <<"signals">>, {"strategy", "marketId", "hours", "limit", "resolved"}),
      Route("POST", <<"signals">>, {"signal"})>>
strategiesRouter == <<Route("GET", <<"strategies", "performance">>, {})>>
(* A slip: a route for one order is put before the one of a fixed name. *)
MutantordersRouter ==
    <<Route("GET", <<"orders">>, {"status", "limit", "since", "until"}),
      Route("GET", <<"orders", Param>>, {}),
      Route("GET", <<"orders", "analytics">>, {}),
      Route("DELETE", <<"orders", Param>>, {}),
      Route("POST", <<"orders", "cancel-all">>, {}),
      Route("GET", <<"positions">>, {}), Route("GET", <<"portfolio">>, {})>>

ordersRouter ==
    <<Route("GET", <<"orders">>, {"status", "limit", "since", "until"}),
      Route("GET", <<"orders", "analytics">>, {}),
      Route("DELETE", <<"orders", Param>>, {}),
      Route("POST", <<"orders", "cancel-all">>, {}),
      Route("GET", <<"positions">>, {}), Route("GET", <<"portfolio">>, {})>>
configRouter ==
    <<Route("GET", <<"config", "bankroll">>, {}),
      Route("PUT", <<"config", "bankroll">>, {"bankroll"}),
      Route("GET", <<"config", "risk">>, {}),
      Route("PUT", <<"config", "position-pct">>, {"pct"}),
      Route("PUT", <<"config", "portfolio-pct">>, {"pct"})>>
executionRouter ==
    <<Route("GET", <<"execution", "status">>, {}),
      Route("POST", <<"execution", "pause">>, {}),
      Route("POST", <<"execution", "resume">>, {})>>

router ==
    healthRouter \o marketsRouter \o snapshotsRouter \o signalsRouter
        \o strategiesRouter \o ordersRouter \o configRouter \o executionRouter

Handles(route, request) ==
    /\ route.method = request.method
    /\ Len(route.path) = Len(request.path)
    /\ \A i \in DOMAIN route.path : route.path[i] \in {Param, request.path[i]}

(* The route whose handler runs. *)
Served(request) ==
    LET index == SelectInSeq(router, LAMBDA route : Handles(route, request))
    IN  IF index = 0 THEN NoRoute ELSE router[index]

(* GET /auth/check: what the page of the key settings could ask. *)
AuthCheck(configured, provided) ==
    [keyConfigured |-> configured # "", keyProvided |-> provided # "",
     match |-> configured = "" \/ provided = configured]

(***************************************************************************)
(* What the dashboard sends: the names in the parameters or the body of    *)
(* the requests that its hooks and pages make.                             *)
(***************************************************************************)
ListSnapshotsParams == {"limit"}
GetMarketSnapshotsParams == {"limit", "hours"}
ListSignalsParams == {"strategy", "hours", "limit", "resolved"}
ListOrdersParams == {"status", "limit", "since", "until"}
UpsertMarketsBody == {"markets"}

Sends(request, names) == [request |-> request, names |-> names]

(* One of each kind.  Those made over a bare fetch carry no API key. *)
FetchMutations ==
    {SetBankroll, SetPositionPct, SetPortfolioPct, PauseExecutor, ResumeExecutor}

DashboardRequests(market, id) ==
    {Sends(HealthCheck, {}), Sends(ListMarkets, {}),
     Sends(UpsertMarkets, UpsertMarketsBody),
     Sends(ListSnapshots(<<"100">>), ListSnapshotsParams),
     Sends(CreateSnapshot, {"snapshot"}),
     Sends(GetMarketSnapshots(market, <<"168">>), GetMarketSnapshotsParams),
     Sends(ListSignals(<<"8">>), ListSignalsParams),
     Sends(MarketSignals(market), {"marketId", "hours", "limit"}),
     Sends(CreateSignal, {"signal"}), Sends(GetSignalCounts, {}),
     Sends(StrategyPerformance, {}),
     Sends(ListOrders(<<"active">>), ListOrdersParams),
     Sends(ListOrders(<<"closed", "1">>), ListOrdersParams),
     Sends(OrderAnalytics, {}), Sends(CancelOrder(id), {}),
     Sends(CancelAllOrders, {}), Sends(ListPositions, {}), Sends(GetPortfolio, {}),
     Sends(RiskConfig, {}), Sends(ExecutorStatus, {}),
     Sends(SetBankroll, {"bankroll"}), Sends(SetPositionPct, {"pct"}),
     Sends(SetPortfolioPct, {"pct"}), Sends(PauseExecutor, {}),
     Sends(ResumeExecutor, {})}
=============================================================================
