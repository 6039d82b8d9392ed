--------------------------- MODULE DatabaseSchema ---------------------------
(***************************************************************************)
(* How the tables come to be: the bot's init_schema at its start, the API  *)
(* server's migrate.mjs before its deployment, and drizzle-kit push for a  *)
(* developer.  A database is its tables, the columns that some statement   *)
(* adds later, the unique indexes that the inserts rely on, and whether    *)
(* two signals share a strategy, a market and an hour: "free" ones may be  *)
(* deleted, "ordered" ones have an order that refers to them.              *)
(*                                                                         *)
(* A statement that fails is logged and skipped, by both programs.  Double  *)
(* positions and the one repair of rejected orders are left out.           *)
(***************************************************************************)
EXTENDS Naturals, SequencesExt

Tables == {"markets", "snapshots", "signals", "orders", "positions", "bot_config"}
signalColumns == {<<"signals", "executed">>, <<"signals", "outcome">>,
                  <<"signals", "executed_skip_reason">>}
askColumns == {<<"snapshots", "yes_ask">>, <<"snapshots", "no_ask">>}
repriceColumns == {<<"orders", "expiration_ts">>, <<"orders", "reprice_of">>,
                   <<"orders", "repriced">>}
categoryColumn == {<<"markets", "category">>}
peakColumns == {<<"positions", "peak_price">>, <<"positions", "peak_observed_at">>}
Columns == signalColumns \cup askColumns \cup repriceColumns \cup categoryColumn
               \cup peakColumns \cup {<<"markets", "pruned_at">>}
Indexes == {"signals_dedup_hourly", "positions_unique_mts"}

Database == [tables : SUBSET Tables, columns : SUBSET Columns, unique : SUBSET Indexes,
             duplicates : {"none", "free", "ordered"}]

EmptyDatabase == [tables |-> {}, columns |-> {}, unique |-> {}, duplicates |-> "none"]

(* drizzle-kit push of the shared schema into an empty database. *)
Pushed == [EmptyDatabase EXCEPT !.tables = Tables,
                                !.columns = signalColumns \cup askColumns \cup categoryColumn]

(***************************************************************************)
(* Statements.                                                             *)
(***************************************************************************)
Add(column) == [op |-> "add", what |-> column]
CreateConfig == [op |-> "create config", what |-> <<>>]
DeleteDuplicates == [op |-> "delete duplicates", what |-> <<>>]
Drop(index) == [op |-> "drop", what |-> <<index>>]
CreateUnique(index) == [op |-> "unique", what |-> <<index>>]
(* Another writer posts a signal twice within the hour. *)
PostTwice == [op |-> "post twice", what |-> <<>>]

(* Does the statement go through, in the database as it is? *)
Succeeds(db, stmt) ==
    CASE stmt.op = "add" -> stmt.what[1] \in db.tables
      [] stmt.op = "unique" -> /\ {"signals", "positions"} \subseteq db.tables
                               /\ stmt.what[1] = "signals_dedup_hourly"
                                      => db.duplicates = "none"
      [] stmt.op = "delete duplicates" -> {"signals", "orders"} \subseteq db.tables
      [] stmt.op = "post twice" -> /\ "signals" \in db.tables /\ db.duplicates = "none"
                                   /\ "signals_dedup_hourly" \notin db.unique
      [] OTHER -> TRUE

Effect(db, stmt) ==
    CASE stmt.op = "add" -> [db EXCEPT !.columns = @ \cup {stmt.what}]
      [] stmt.op = "create config" -> [db EXCEPT !.tables = @ \cup {"bot_config"}]
      [] stmt.op = "delete duplicates" ->
            [db EXCEPT !.duplicates = IF @ = "free" THEN "none" ELSE @]
      [] stmt.op = "drop" -> [db EXCEPT !.unique = @ \ Range(stmt.what)]
      [] stmt.op = "unique" -> [db EXCEPT !.unique = @ \cup Range(stmt.what)]
      [] stmt.op = "post twice" -> [db EXCEPT !.duplicates = "free"]

run(db, stmt) == IF Succeeds(db, stmt) THEN Effect(db, stmt) ELSE db
RunAll(db, statements) == FoldLeft(run, db, statements)

(***************************************************************************)
(* The API server's migrate.mjs.                                           *)
(***************************************************************************)
migrate ==
    <<Add(<<"snapshots", "yes_ask">>), Add(<<"snapshots", "no_ask">>),
      Add(<<"signals", "executed">>), Add(<<"orders", "expiration_ts">>),
      Add(<<"orders", "reprice_of">>), Add(<<"orders", "repriced">>), CreateConfig>>

(***************************************************************************)
(* The bot: SCHEMA_SQL as one transaction, then each of _MIGRATIONS in a   *)
(* transaction of its own, whether or not the first one went through.      *)
(***************************************************************************)
SchemaSql(db) ==
    LET new == Tables \ db.tables
    IN  [db EXCEPT
            !.tables = Tables,
            !.columns = @ \cup signalColumns \cup categoryColumn \cup askColumns
                          \cup repriceColumns \cup {c \in peakColumns : c[1] \in new},
            !.unique = @ \cup IF "positions" \in new THEN {"positions_unique_mts"} ELSE {}]

MutantMIGRATIONS ==
    <<Add(<<"signals", "executed">>), Add(<<"signals", "outcome">>),
      Add(<<"signals", "executed_skip_reason">>),
      Add(<<"snapshots", "yes_ask">>), Add(<<"snapshots", "no_ask">>),
      Add(<<"orders", "expiration_ts">>), Add(<<"orders", "reprice_of">>),
      Add(<<"orders", "repriced">>),
      Drop("signals_dedup_hourly"),
      CreateUnique("signals_dedup_hourly"), DeleteDuplicates,
      CreateUnique("positions_unique_mts"), Add(<<"markets", "pruned_at">>),
      Add(<<"positions", "peak_price">>), Add(<<"positions", "peak_observed_at">>)>>

MIGRATIONS ==
    <<Add(<<"signals", "executed">>), Add(<<"signals", "outcome">>),
      Add(<<"signals", "executed_skip_reason">>),
      Add(<<"snapshots", "yes_ask">>), Add(<<"snapshots", "no_ask">>),
      Add(<<"orders", "expiration_ts">>), Add(<<"orders", "reprice_of">>),
      Add(<<"orders", "repriced">>),
      DeleteDuplicates, Drop("signals_dedup_hourly"),
      CreateUnique("signals_dedup_hourly"),
      CreateUnique("positions_unique_mts"), Add(<<"markets", "pruned_at">>),
      Add(<<"positions", "peak_price">>), Add(<<"positions", "peak_observed_at">>)>>

(* init_schema, with other statements put before that many of its own. *)
Interrupted(position, others) ==
    SubSeq(MIGRATIONS, 1, position) \o others
        \o SubSeq(MIGRATIONS, position + 1, Len(MIGRATIONS))

init_schema(db, schemaRuns, position, others) ==
    RunAll(IF schemaRuns THEN SchemaSql(db) ELSE db, Interrupted(position, others))
=============================================================================
