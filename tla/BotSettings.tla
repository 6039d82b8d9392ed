---------------------------- MODULE BotSettings ----------------------------
(***************************************************************************)
(* A setting of the bot in its three readings: the row of bot_config, the  *)
(* number the console shows and puts into its form, and the number the bot *)
(* bets with.  Money is in cents and a cap in thousandths; a row holds the *)
(* number, is absent, or is text that is no number, which only psql        *)
(* writes.                                                                 *)
(***************************************************************************)
EXTENDS ManualForm

Absent == -1
Garbled == -2
IsNumber(row) == row >= 0

DEFAULT_POSITION_PCT == 100
DEFAULT_PORTFOLIO_PCT == 330

(***************************************************************************)
(* The console.  Math.round of the percentage fills the form of a cap; the *)
(* field admits 1 to 100 in whole steps, and PUT asks for (0, 1].  The     *)
(* form of the bankroll and its PUT both ask for no less than 0.           *)
(***************************************************************************)
(* GET /portfolio; parseFloat(..) || 0. *)
PortfolioBankroll(row, env) ==
    IF row = Absent THEN env ELSE IF row = Garbled THEN 0 ELSE row

(* What the page makes of it, and of a request that has failed. *)
parseNumeric(val) == IF IsNumber(val) THEN val ELSE 0

(* GET /config/risk: no row is the default of the server, and the NaN of   *)
(* a garbled one arrives as null, for which the page puts in its own.      *)
RiskPct(row, default) == IF IsNumber(row) THEN row ELSE default

FilledPercent(pct) == (pct + 5) \div 10
SavedPct(row, percent) == IF Fits(percent, 1, 100) /\ percent > 0 THEN 10 * percent ELSE row
SavedBankroll(row, entry) == IF entry >= 0 THEN entry ELSE row

(* "max per market", to a cent. *)
MaxPerMarket(bankroll, pct) == (bankroll * pct + 500) \div 1000

(* The rest of GET /portfolio: what is free, and the share in thousandths. *)
PortfolioSummary(bankroll, atRisk) ==
    [bankroll |-> bankroll, atRisk |-> atRisk,
     available |-> IF bankroll > atRisk THEN bankroll - atRisk ELSE 0,
     deployedPct |-> IF bankroll > 0 THEN (1000 * atRisk) \div bankroll ELSE 0]

(***************************************************************************)
(* The bot: get_bankroll, get_max_position_pct and get_max_portfolio_pct.  *)
(***************************************************************************)
BotBankroll(row, env) == IF IsNumber(row) THEN row ELSE env
BotPct(row, default) == IF row \in 1..1000 THEN row ELSE default
=============================================================================
