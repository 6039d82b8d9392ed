---------------------------- MODULE StatusPanels ----------------------------
(***************************************************************************)
(* The two status panels of the dashboard.  The one of the layout shows    *)
(* GET /healthz.  The one of the execution page shows the bot's last       *)
(* connection check: the executor makes one every CHECK_EVERY cycles and   *)
(* stores it in bot_config, the API server passes it on with GET           *)
(* /execution/status.  The geoblock check is stored beside it and shown    *)
(* nowhere.                                                                *)
(***************************************************************************)
EXTENDS Integers, FiniteSets, Sequences, SequencesExt

(***************************************************************************)
(* GET /healthz: the counts, or none of them when the database is down;    *)
(* and the panel, which keeps the last answer when a poll fails.           *)
(***************************************************************************)
NoCount == -1
NoHealth == [status |-> "none"]

Health(markets, snapshots, signals, up) ==
    IF up THEN [status |-> "ok", markets |-> Cardinality(DOMAIN markets),
                snapshots |-> Len(snapshots), signals |-> Len(signals)]
    ELSE [status |-> "ok"]

SystemStatus(health, isError) ==
    [green |-> ~isError, connecting |-> health = NoHealth,
     counts |-> [t \in {"markets", "signals", "snapshots"} |->
                    IF t \in DOMAIN health THEN health[t] ELSE NoCount]]

(***************************************************************************)
(* The connection check.  A call returns something, returns None or        *)
(* raises; get_client, once it has succeeded, always does.                 *)
(***************************************************************************)
Outcome == {"answer", "None", "raises"}
Probe == [client : BOOLEAN, ok : Outcome, keys : Outcome, stored : BOOLEAN]

run_check(probe, now) ==
    LET clob == probe.ok = "answer"
    IN  [clobReachable |-> clob,
         walletAuthenticated |-> clob /\ probe.keys = "answer",
         checkedAt |-> now,
         error |-> IF probe.ok = "raises" THEN "CLOB unreachable"
                   ELSE IF clob /\ probe.keys = "raises" THEN "Wallet auth failed"
                   ELSE "none"]

(* A cycle of run_executor, as far as the check goes: without a client it  *)
(* ends before.  The time of a cycle is its number.                        *)
NoCheck == [checkedAt |-> 0]
Start == [cycle |-> 0, client |-> FALSE, row |-> NoCheck]

IsDue(cycle, every) == cycle = 1 \/ cycle % every = 0

CheckCycle(bot, probe, every) ==
    LET cycle == bot.cycle + 1
        client == bot.client \/ probe.client
    IN  [cycle |-> cycle, client |-> client,
         row |-> IF client /\ IsDue(cycle, every) /\ probe.stored
                 THEN run_check(probe, cycle) ELSE bot.row]

RunExecutor(probes, every) ==
    FoldLeft(LAMBDA bot, probe : CheckCycle(bot, probe, every), Start, probes)

(***************************************************************************)
(* GET /execution/status: null when nothing is stored, or nothing that     *)
(* parses; and the panel, which is not there before the first answer.      *)
(***************************************************************************)
Null == [checkedAt |-> -1]
Connection(row, parses) == IF row = NoCheck \/ ~parses THEN Null ELSE row

(* A slip: what is not known counts as fine. *)
MutantConnDot(conn, field) == IF conn = Null \/ conn[field] THEN "success" ELSE "danger"
ConnDot(conn, field) ==
    IF conn = Null THEN "unknown" ELSE IF conn[field] THEN "success" ELSE "danger"

NoAge == -1
ConnStatus(conn, now) ==
    [clob |-> ConnDot(conn, "clobReachable"),
     wallet |-> ConnDot(conn, "walletAuthenticated"),
     age |-> IF conn = Null THEN NoAge ELSE now - conn.checkedAt,
     error |-> IF conn = Null THEN "none" ELSE conn.error]
=============================================================================
