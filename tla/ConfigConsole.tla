--------------------------- MODULE ConfigConsole ---------------------------
(***************************************************************************)
(* The settings side of the execution console: bankroll, the two caps and  *)
(* the executor's pause switch, from the form on the page through the API  *)
(* server to the table bot_config, and from there to the executor.         *)
(*                                                                         *)
(* A value is the number of the write that stored it: what counts is which *)
(* of two is the later one.  A second console, or psql, writes as well.    *)
(* What is no percentage or no amount is refused by the form and by the    *)
(* server alike and changes nothing.  A query is asked, answered by the    *)
(* server and received in three steps: a write may fall between any two.   *)
(***************************************************************************)
EXTENDS Naturals, ApiClient

CONSTANTS
    Setting,        \* the settings on the page
    MaxEdits,       \* bound: forms opened
    MaxWrites,      \* bound: writes, from the page or from elsewhere
    MaxUpsets       \* bound: reads of the flag that fail, pauses and resumes on
                    \* the bot itself, and its restarts

ASSUME SettingAssumption ==
    Setting \subseteq {"bankroll", "positionPct", "portfolioPct", "paused"}
ASSUME BoundAssumption ==
    /\ MaxEdits \in Nat /\ MaxWrites \in Nat
    /\ MaxUpsets \in Nat

Form == Setting \ {"paused"}

VARIABLES
    stored,     \* bot_config: the write that set the value, and the flag
    shown,      \* what the page shows of a setting
    fetch,      \* the cache entry of a query: its request on the way
    form,       \* the edit form: closed, fresh, typed into, being saved
    save,       \* the mutation of a setting
    acked,      \* the last write of this console the server acknowledged
    bot,        \* the executor: its pause flag and its place in the cycle
    late,       \* signal passes since a pause was stored, and their excuses
    budget      \* what is left of the bounded events

vars == <<stored, shown, fetch, form, save, acked, bot, late, budget>>
page == <<shown, fetch, form, save, acked>>
executor == <<bot, late>>

(* The query that carries a setting. *)
QueryOf(s) ==
    CASE s = "bankroll" -> GetPortfolio
      [] s = "paused" -> ExecutorStatus
      [] OTHER -> RiskConfig
Queries == {QueryOf(s) : s \in Setting}
Carried(q) == {s \in Setting : QueryOf(s) = q}

Invalidates(s) ==
    CASE s = "bankroll" -> BankrollInvalidates
      [] s = "paused" -> ToggleInvalidates
      [] OTHER -> CapInvalidates

(* onSuccess of a cap returns the promise of the refetch, so the mutation  *)
(* is pending until it settles; the others drop it.                        *)
Awaited(s) == s \in {"positionPct", "portfolioPct"}

Default == [write |-> 0, on |-> FALSE]
NotLate == [passes |-> 0, excuses |-> 0]
NoSave == [state |-> "none", value |-> Default]

Init ==
    /\ stored = [s \in Setting |-> Default]
    /\ shown = stored
    /\ fetch = [q \in Queries |-> [state |-> "idle", data |-> <<>>]]
    /\ form = [s \in Form |-> "closed"]
    /\ save = [s \in Setting |-> NoSave]
    /\ acked = [s \in Setting |-> 0]
    /\ bot = [flag |-> FALSE, pc |-> "sync"]
    /\ late = NotLate
    /\ budget = [edits |-> MaxEdits, writes |-> MaxWrites,
                 upsets |-> MaxUpsets]

Pending(s) == save[s].state # "none"
Asked == [state |-> "asked", data |-> <<>>]
IdleAfter(error) == [state |-> IF error THEN "failed" ELSE "idle", data |-> <<>>]
Fetching(q) == fetch[q].state \in {"asked", "answered"}

(***************************************************************************)
(* Queries.  A poll joins a request that is on its way; an invalidation    *)
(* cancels it and asks again.                                              *)
(***************************************************************************)
Poll(q) ==
    /\ ~Fetching(q)
    /\ fetch' = [fetch EXCEPT ![q] = Asked]
    /\ UNCHANGED <<stored, shown, form, save, acked, executor, budget>>

(* GET: the server reads the rows; a row nobody has written yet answers    *)
(* with its default.                                                       *)
Rows(q) == [s \in Carried(q) |-> stored[s]]

Answer(q) ==
    /\ fetch[q].state = "asked"
    /\ fetch' = [fetch EXCEPT ![q] = [state |-> "answered", data |-> Rows(q)]]
    /\ UNCHANGED <<stored, shown, form, save, acked, executor, budget>>

(* The mutations that waited for the refetch of q settle, and their forms  *)
(* close, whether they were opened again meanwhile or not.                 *)
Waiting(q) == {s \in Carried(q) : save[s].state = "refetch"}
Settled(done) == [s \in Setting |-> IF s \in done THEN NoSave ELSE save[s]]
Closed(done, forms) == [s \in Form |-> IF s \in done THEN "closed" ELSE forms[s]]

(* The effect on [editing, value] puts a new value into an open form.      *)
MutantRefilled(q, data) ==
    [s \in Form |-> IF s \in Carried(q) /\ form[s] # "closed" THEN "fresh" ELSE form[s]]

Refilled(q, data) ==
    [s \in Form |->
        IF s \in Carried(q) /\ form[s] # "closed" /\ data[s] # shown[s]
        THEN "fresh" ELSE form[s]]

Receive(q) ==
    /\ fetch[q].state = "answered"
    /\ shown' = [s \in Setting |-> IF s \in Carried(q) THEN fetch[q].data[s] ELSE shown[s]]
    /\ form' = Closed(Waiting(q), Refilled(q, fetch[q].data))
    /\ save' = Settled(Waiting(q))
    /\ fetch' = [fetch EXCEPT ![q] = IdleAfter(FALSE)]
    /\ UNCHANGED <<stored, acked, executor, budget>>

FetchFailed(q) ==
    /\ Fetching(q)
    /\ form' = Closed(Waiting(q), form)
    /\ save' = Settled(Waiting(q))
    /\ fetch' = [fetch EXCEPT ![q] = IdleAfter(TRUE)]
    /\ UNCHANGED <<stored, shown, acked, executor, budget>>

(***************************************************************************)
(* The forms and the switch.                                               *)
(***************************************************************************)
OpenForm(s) ==
    /\ form[s] = "closed" /\ budget.edits > 0
    /\ form' = [form EXCEPT ![s] = "fresh"]
    /\ budget' = [budget EXCEPT !.edits = @ - 1]
    /\ UNCHANGED <<stored, shown, fetch, save, acked, executor>>

TypeValue(s) ==
    /\ form[s] \in {"fresh", "saving"}
    /\ form' = [form EXCEPT ![s] = "typed"]
    /\ UNCHANGED <<stored, shown, fetch, save, acked, executor, budget>>

CloseForm(s) ==
    /\ form[s] # "closed"
    /\ form' = [form EXCEPT ![s] = "closed"]
    /\ UNCHANGED <<stored, shown, fetch, save, acked, executor, budget>>

(* Which write this is going to be is known when the server has done it.   *)
Sent(on) == [state |-> "sent", value |-> [write |-> 0, on |-> on]]

SaveForm(s) ==
    /\ form[s] = "typed" /\ ~Pending(s) /\ budget.writes > 0
    /\ save' = [save EXCEPT ![s] = Sent(FALSE)]
    /\ form' = [form EXCEPT ![s] = "saving"]
    /\ budget' = [budget EXCEPT !.writes = @ - 1]
    /\ UNCHANGED <<stored, shown, fetch, acked, executor>>

(* Pause or Resume, by what the page shows; Pause asks first, and while    *)
(* either is pending the button and the dialog are disabled.               *)
Toggle ==
    /\ "paused" \in Setting /\ ~Pending("paused") /\ budget.writes > 0
    /\ save' = [save EXCEPT !["paused"] = Sent(~shown["paused"].on)]
    /\ budget' = [budget EXCEPT !.writes = @ - 1]
    /\ UNCHANGED <<stored, shown, fetch, form, acked, executor>>

(***************************************************************************)
(* PUT /config/... and POST /execution/...: one upsert.  Storing a pause   *)
(* starts the count of the passes that come after it.                      *)
(***************************************************************************)
NextValue(s, on) == [write |-> stored[s].write + 1, on |-> on]

Store(s, value) ==
    /\ stored' = [stored EXCEPT ![s] = value]
    /\ late' = IF s = "paused" /\ value.on # stored[s].on THEN NotLate ELSE late

Apply(s) ==
    /\ save[s].state = "sent"
    /\ LET value == NextValue(s, save[s].value.on)
       IN  /\ Store(s, value)
           /\ save' = [save EXCEPT ![s] = [state |-> "stored", value |-> value]]
    /\ UNCHANGED <<shown, fetch, form, acked, bot, budget>>

(* The answer arrives: onSuccess invalidates, then onSettled closes.  The  *)
(* refetch that is cancelled settles the mutations that waited for it.     *)
MutantInvalidated(q) == IF Fetching(q) THEN fetch[q] ELSE Asked
Invalidated(q) == Asked

Acknowledge(s) ==
    /\ save[s].state = "stored"
    /\ acked' = [acked EXCEPT ![s] = save[s].value.write]
    /\ LET reached == {q \in Queries : Reaches(Invalidates(s), q)}
           done == UNION {Waiting(q) : q \in reached}
                       \cup (IF Awaited(s) /\ reached # {} THEN {} ELSE {s})
       IN  /\ fetch' = [q \in Queries |-> IF q \in reached THEN Invalidated(q) ELSE fetch[q]]
           /\ save' = [Settled(done) EXCEPT ![s] =
                         IF s \in done THEN NoSave ELSE [@ EXCEPT !.state = "refetch"]]
           /\ form' = Closed(done, form)
    /\ UNCHANGED <<stored, shown, executor, budget>>

(* The request or its answer is lost, or the statement failed. *)
SaveFailed(s) ==
    /\ save[s].state \in {"sent", "stored"}
    /\ save' = [save EXCEPT ![s] = NoSave]
    /\ form' = Closed({s}, form)
    /\ UNCHANGED <<stored, shown, fetch, acked, executor, budget>>

(* Someone else writes the same table. *)
OtherWrite(s) ==
    /\ budget.writes > 0
    /\ budget' = [budget EXCEPT !.writes = @ - 1]
    /\ \E on \in (IF s = "paused" THEN BOOLEAN ELSE {FALSE}) :
          Store(s, NextValue(s, on))
    /\ UNCHANGED <<page, bot>>

(***************************************************************************)
(* The executor: a cycle reads the flag, processes signals unless paused,  *)
(* then polls and reposts, which the flag does not concern.  The count of  *)
(* late passes stops at more than can be excused.                          *)
(***************************************************************************)
PausedInDb == "paused" \in Setting /\ stored["paused"].on
Excused == late' = IF PausedInDb THEN [late EXCEPT !.excuses = @ + 1] ELSE late

(* A slip: only an executor that is paused asks whether it still is. *)
MutantSyncFlag ==
    /\ bot.pc = "sync"
    /\ bot' = [flag |-> bot.flag /\ PausedInDb, pc |-> "signals"]
    /\ UNCHANGED <<stored, page, late, budget>>

SyncFlag ==
    /\ bot.pc = "sync"
    /\ bot' = [flag |-> PausedInDb, pc |-> "signals"]
    /\ UNCHANGED <<stored, page, late, budget>>

SyncFailed ==
    /\ bot.pc = "sync" /\ budget.upsets > 0
    /\ bot' = [bot EXCEPT !.pc = "signals"]
    /\ budget' = [budget EXCEPT !.upsets = @ - 1]
    /\ Excused
    /\ UNCHANGED <<stored, page>>

ProcessSignals ==
    /\ bot.pc = "signals"
    /\ bot' = [bot EXCEPT !.pc = "sync"]
    /\ late' = IF bot.flag \/ ~PausedInDb \/ late.passes > 1 + MaxUpsets
               THEN late ELSE [late EXCEPT !.passes = @ + 1]
    /\ UNCHANGED <<stored, page, budget>>

(* POST /execution/pause and /resume of the bot set the flag in memory. *)
BotCall ==
    /\ budget.upsets > 0
    /\ budget' = [budget EXCEPT !.upsets = @ - 1]
    /\ \E flag \in BOOLEAN : bot' = [bot EXCEPT !.flag = flag]
    /\ Excused
    /\ UNCHANGED <<stored, page>>

BotRestart ==
    /\ budget.upsets > 0
    /\ budget' = [budget EXCEPT !.upsets = @ - 1]
    /\ bot' = [flag |-> FALSE, pc |-> "sync"]
    /\ UNCHANGED <<stored, page, late>>

Cycle == SyncFlag \/ SyncFailed \/ ProcessSignals

Next ==
    \/ \E q \in Queries : Poll(q) \/ Answer(q) \/ Receive(q) \/ FetchFailed(q)
    \/ \E s \in Form : OpenForm(s) \/ TypeValue(s) \/ CloseForm(s) \/ SaveForm(s)
    \/ Toggle
    \/ \E s \in Setting : Apply(s) \/ Acknowledge(s) \/ SaveFailed(s) \/ OtherWrite(s)
    \/ Cycle \/ BotCall \/ BotRestart

Spec == Init /\ [][Next]_vars

(* The executor's loop runs. *)
FairSpec == Spec /\ WF_vars(Cycle)
-----------------------------------------------------------------------------
Value == [write : Nat, on : BOOLEAN]

(* The types of the variables. *)
TypeOK ==
    /\ stored \in [Setting -> Value] /\ shown \in [Setting -> Value]
    /\ \A q \in Queries :
          /\ fetch[q].state \in {"idle", "failed", "asked", "answered"}
          /\ fetch[q].state = "answered" => fetch[q].data \in [Carried(q) -> Value]
    /\ form \in [Form -> {"closed", "fresh", "typed", "saving"}]
    /\ save \in [Setting -> [state : {"none", "sent", "stored", "refetch"}, value : Value]]
    /\ acked \in [Setting -> Nat]
    /\ bot \in [flag : BOOLEAN, pc : {"sync", "signals"}]
    /\ late \in [passes : Nat, excuses : Nat]

(* Read your writes: when no request is on its way and the last did not    *)
(* fail, the page shows what this console last saved, or something newer.  *)
(* An answer that was read before the save, and arrives after it, must not *)
(* put the old value back (invalidateQueries in the onSuccess handlers).   *)
ShownAtLeastAcked ==
    \A s \in Setting :
        fetch[QueryOf(s)].state = "idle" => shown[s].write >= acked[s]

(* What is typed into a form is replaced only by a value that is new to    *)
(* the page: a poll that finds nothing new leaves it alone (the effects on *)
(* [editing, value] in Execution).                                         *)
PollKeepsTyping ==
    [][\A s \in Form : form[s] = "typed" /\ form'[s] = "fresh"
                       => shown'[s] # shown[s]]_vars

(* "Sync pause flag from DB so UI toggle takes effect within one cycle":   *)
(* after a pause is stored one more pass over the signals may begin, and   *)
(* one for every failed read of the flag and every call on the bot.        *)
PauseWithinOneCycle == late.passes <= 1 + late.excuses

(* The executor's flag becomes what is stored, however often it was set    *)
(* behind the table's back.                                                *)
FlagFollowsTable ==
    \A on \in BOOLEAN : PausedInDb = on ~> (bot.flag = on \/ PausedInDb # on)
-----------------------------------------------------------------------------
(* What was typed stays until it is saved or dismissed.  It does not: a    *)
(* form that is opened again while its save is pending is closed, typed    *)
(* value and all, by the onSettled of that save.                           *)
OpenFormStays ==
    [][\A s \in Form : form[s] = "typed" /\ form'[s] = "closed"
                       => save' = save]_vars
=============================================================================
