----------------------------- MODULE OrderToasts -----------------------------
(***************************************************************************)
(* The toasts of the execution page: useOrderToasts compares each list of  *)
(* orders it is given with the one before and announces what has changed,  *)
(* as far as the alert settings ask for it; use-toast keeps the one toast  *)
(* that is shown and the timers that clear it away.                        *)
(*                                                                         *)
(* The page may be left and opened again: react-query, which is external,  *)
(* still has the last list then, unless it was dropped meanwhile; a reload *)
(* of the browser keeps nothing but the local storage.  The other pages    *)
(* are one here, with the bet size of the performance page.  A list        *)
(* arrives in one step with the effect that compares it: React runs the    *)
(* two without another event of the browser between them, but it may have  *)
(* a change of the toasts to render with them.  Orders are numbered in the *)
(* order of creation.                                                      *)
(***************************************************************************)
EXTENDS UseToast, Preferences

CONSTANTS
    MaxOrders,      \* bound: orders ever inserted
    ListLimit,      \* the limit useOrderToasts asks for (50)
    BrowserZone,    \* the time zone of the browser
    Picked,         \* the zones of the picker the operator tries
    Entries,        \* what the operator types as a bet size
    MaxSwitches,    \* bound: preferences changed
    MaxReloads      \* bound: reloads, visits to another page, pages that break

ASSUME BoundAssumption ==
    /\ MaxOrders \in Nat /\ ListLimit \in Nat \ {0}
    /\ MaxSwitches \in Nat /\ MaxReloads \in Nat
ASSUME PreferenceAssumption ==
    /\ Picked \subseteq DOMAIN TIMEZONES /\ Entries \subseteq Int

Order == 1..MaxOrders

VARIABLES
    status,         \* the orders table, written by the bot
    page,           \* the page that is open, or that it could not be rendered
    data,           \* the last list received, or NoList
    prev,           \* prevStatuses, NoList until initialized
    settings,       \* the alert settings of the page
    stored,         \* what the local storage holds of them
    timezone,       \* the time zone of the pages
    betSize,        \* the bet size of the performance page
    storage,        \* what the local storage holds of these two
    toasts,         \* memoryState.toasts
    shown,          \* what the Toaster last heard of them
    toastTimeouts,  \* ids of the toasts whose timer runs
    count,          \* the last id given
    told,           \* how often the failure of an order was announced
    budget          \* what is left of the bounded events

vars == <<status, page, data, prev, settings, stored, timezone, betSize, storage,
          toasts, shown, toastTimeouts, count, told, budget>>
toaster == <<toasts, shown, toastTimeouts, count, told>>
alerts == <<settings, stored>>
looks == <<timezone, betSize, storage>>
preferences == <<alerts, looks>>

open == page = "execution"

(* The pages and the layout, with the time zone and the settings sheet,    *)
(* are inside the ErrorBoundary of App; the toaster is not.                *)
Rendered == page # "broken"

NoList == [o \in {0} |-> "none"]
Failed == {"REJECTED", "ERROR"}

(* What the bot writes after a status: it knows neither SUBMITTED nor ERROR. *)
Successors(s) ==
    CASE s = "none" -> {"SENT"}
      [] s = "SENT" -> {"OPEN", "REJECTED"}
      [] s = "OPEN" -> {"FILLED", "CANCELED"}
      [] OTHER -> {}

(***************************************************************************)
(* useOrderToasts.                                                         *)
(***************************************************************************)
(* The list it asks for: the newest orders of any status. *)
Listed ==
    LET Is == {o \in Order : status[o] # "none"}
    IN  [o \in {p \in Is : Cardinality({q \in Is : q > p}) < ListLimit} |-> status[o]]

(* What an order is announced as, by its status in the list before. *)
MutantTitle(before, now, set) ==
    CASE before \in {"unseen", now} -> "none"
      [] set.onExecFailed /\ now = "ERROR" -> "failed"
      [] set.onExecOpened /\ now = "SUBMITTED" -> "opened"
      [] set.onExecClosed /\ now = "FILLED" -> "filled"
      [] OTHER -> "none"

Title(before, now, set) ==
    IF before = now THEN "none"
    ELSE IF before # "unseen" /\ set.onExecFailed /\ now \in Failed THEN "failed"
    ELSE IF set.onExecOpened /\ now = "SUBMITTED" THEN "opened"
    ELSE IF before # "unseen" /\ set.onExecClosed /\ now = "FILLED" THEN "filled"
    ELSE "none"

Before(list, o) == IF o \in DOMAIN list THEN list[o] ELSE "unseen"

(* What the effect announces an order as; the first list is not announced. *)
Change(before, list, o, set) ==
    IF before = NoList \/ o \notin DOMAIN list THEN "none"
    ELSE Title(Before(before, o), list[o], set)

(* Its toasts, in the order of the list: newest first. *)
News(before, list, set) ==
    SelectSeq([i \in 1..MaxOrders |->
                  LET o == MaxOrders + 1 - i
                  IN  [order |-> o, title |-> Change(before, list, o, set)]],
              LAMBDA n : n.title # "none")

(* What the effect keeps as the list before. *)
MutantRemembered(before, list) == IF before = NoList THEN list ELSE before
Remembered(before, list) == list

(* The effect, for a list, the settings and the toasts it finds; it does   *)
(* nothing without a list.                                                 *)
Compare(list, set, found) ==
    IF list = NoList
    THEN toasts' = found /\ UNCHANGED <<prev, count, told>>
    ELSE LET after == FoldLeft(toast, [toasts |-> found, count |-> count],
                               News(prev, list, set))
         IN  /\ prev' = Remembered(prev, list)
             /\ toasts' = after.toasts /\ count' = after.count
             /\ told' = [o \in Order |->
                   IF Change(prev, list, o, set) = "failed" THEN told[o] + 1 ELSE told[o]]

(* The Toaster hears of the toasts when one is added. *)
Effect(list, set) ==
    /\ Compare(list, set, toasts)
    /\ shown' = IF count' = count THEN shown ELSE toasts'
    /\ UNCHANGED toastTimeouts

(* What may happen to a toast: it has been shown long enough or is closed  *)
(* by the operator, Toast calls onOpenChange, and that dismisses it; or    *)
(* its timer fires.                                                        *)
Dismissals ==
    {[type |-> "DISMISS_TOAST", id |-> t.id] : t \in {u \in Range(shown) : u.open}}
Removals == {[type |-> "REMOVE_TOAST", id |-> id] : id \in toastTimeouts}

Queue(action) ==
    IF action.type = "DISMISS_TOAST" THEN Dismissed(toasts, toastTimeouts, action)
    ELSE toastTimeouts \ {action.id}

dispatch(action) ==
    /\ toasts' = reducer(toasts, action) /\ toastTimeouts' = Queue(action)
    /\ shown' = toasts'
-----------------------------------------------------------------------------
Init ==
    /\ status = [o \in Order |-> "none"]
    /\ page = "execution"
    /\ data = NoList /\ prev = NoList
    /\ settings = DEFAULTS /\ stored = <<>>
    /\ storage = [zone |-> "", bet |-> 0]
    /\ timezone = resolveDefault("", BrowserZone) /\ betSize = BET_SIZE_DEFAULT
    /\ toasts = <<>> /\ shown = <<>> /\ toastTimeouts = {} /\ count = 0
    /\ told = [o \in Order |-> 0]
    /\ budget = [switches |-> MaxSwitches, reloads |-> MaxReloads]

(* The bot. *)
WriteStatus(o) ==
    /\ \A p \in 1..(o - 1) : status[p] # "none"
    /\ \E s \in Successors(status[o]) : status' = [status EXCEPT ![o] = s]
    /\ UNCHANGED <<page, data, prev, preferences, toaster, budget>>

(* An answer to the poll of useLiveOrders. *)
Receive ==
    /\ open
    /\ data' = Listed
    /\ Effect(Listed, settings)
    /\ UNCHANGED <<status, page, preferences, budget>>

(* React renders what is pending at once, here an answer together with a   *)
(* change of the toasts.  All effects are cleaned up before any runs again,*)
(* the page's before the Toaster's: useToast has taken its listener away,  *)
(* and what the page announces is not heard.                               *)
ReceiveTogether ==
    /\ open
    /\ data' = Listed
    /\ \E action \in Dismissals \cup Removals :
        /\ shown' = reducer(toasts, action) /\ toastTimeouts' = Queue(action)
        /\ Compare(Listed, settings, shown')
    /\ UNCHANGED <<status, page, preferences, budget>>

(* The refs of the hook go with the page; the list stays in the cache.     *)
(* The performance page, if it is that one, loads the bet size.            *)
LeavePage ==
    /\ open /\ budget.reloads > 0
    /\ budget' = [budget EXCEPT !.reloads = @ - 1]
    /\ page' = "other" /\ prev' = NoList
    /\ betSize' = loadBetSize(storage.bet)
    /\ UNCHANGED <<status, data, alerts, timezone, storage, toaster>>

DropList ==
    /\ ~open /\ data # NoList
    /\ data' = NoList
    /\ UNCHANGED <<status, page, prev, preferences, toaster, budget>>

OpenPage ==
    /\ page = "other"
    /\ page' = "execution"
    /\ Effect(data, settings)
    /\ UNCHANGED <<status, data, preferences, budget>>

(* A page throws while it is rendered.  The boundary shows the error in    *)
(* place of everything inside it, and never forgets it.                    *)
Break ==
    /\ Rendered /\ budget.reloads > 0
    /\ budget' = [budget EXCEPT !.reloads = @ - 1]
    /\ page' = "broken" /\ prev' = NoList
    /\ UNCHANGED <<status, data, preferences, toaster>>

(* A switch of the settings sheet, which the layout has on every page; the *)
(* effect depends on the settings and runs again.                          *)
Switch(key) ==
    /\ Rendered /\ budget.switches > 0
    /\ budget' = [budget EXCEPT !.switches = @ - 1]
    /\ settings' = [settings EXCEPT ![key] = ~@]
    /\ stored' = Save(settings', key)
    /\ IF open THEN Effect(data, settings') ELSE UNCHANGED <<prev, toaster>>
    /\ UNCHANGED <<status, page, data, looks>>

(* The time zone of the layout. *)
PickZone(zone) ==
    /\ Rendered /\ budget.switches > 0
    /\ budget' = [budget EXCEPT !.switches = @ - 1]
    /\ timezone' = zone /\ storage' = [storage EXCEPT !.zone = zone]
    /\ UNCHANGED <<status, page, data, prev, alerts, betSize, toaster>>

(* The bet size of the performance page. *)
EnterBetSize(entry) ==
    /\ page = "other" /\ budget.switches > 0
    /\ budget' = [budget EXCEPT !.switches = @ - 1]
    /\ betSize' = handleBetSize(entry, betSize)
    /\ storage' = [storage EXCEPT !.bet = handleBetSize(entry, @)]
    /\ UNCHANGED <<status, page, data, prev, alerts, timezone, toaster>>

Prefer ==
    \/ \E key \in DOMAIN DEFAULTS : Switch(key)
    \/ \E zone \in Picked : PickZone(zone)
    \/ \E entry \in Entries : EnterBetSize(entry)

(* The server has the same application for every path.  A page that is     *)
(* broken can always be reloaded.                                          *)
Reload ==
    /\ Rendered => budget.reloads > 0
    /\ budget' = IF Rendered THEN [budget EXCEPT !.reloads = @ - 1] ELSE budget
    /\ page' \in {"execution", "other"} /\ (Rendered => page' = page)
    /\ data' = NoList /\ prev' = NoList
    /\ settings' = Load(stored)
    /\ timezone' = resolveDefault(storage.zone, BrowserZone)
    /\ betSize' = loadBetSize(storage.bet)
    /\ toasts' = <<>> /\ shown' = <<>> /\ toastTimeouts' = {} /\ count' = 0
    /\ UNCHANGED <<status, stored, storage, told>>

Dismiss ==
    /\ \E action \in Dismissals : dispatch(action)
    /\ UNCHANGED <<status, page, data, prev, preferences, count, told, budget>>

Timeout ==
    /\ \E action \in Removals : dispatch(action)
    /\ UNCHANGED <<status, page, data, prev, preferences, count, told, budget>>

Next ==
    \/ \E o \in Order : WriteStatus(o)
    \/ Receive \/ ReceiveTogether
    \/ LeavePage \/ DropList \/ OpenPage \/ Break \/ Reload
    \/ Prefer
    \/ Dismiss \/ Timeout

(* The page polls while it is open, a toast is shown for a while only, and *)
(* timers fire.                                                            *)
Spec ==
    /\ Init /\ [][Next]_vars
    /\ WF_vars(Receive) /\ WF_vars(Dismiss) /\ WF_vars(Timeout)
-----------------------------------------------------------------------------
Status == {"none", "SENT", "OPEN", "FILLED", "CANCELED", "REJECTED"}
Toast == [id : Nat, order : Order, title : {"failed", "opened", "filled"}, open : BOOLEAN]

(* The types of the variables. *)
TypeOK ==
    /\ status \in [Order -> Status] /\ page \in {"execution", "other", "broken"}
    /\ \A list \in {data, prev} :
          list = NoList \/ (DOMAIN list \subseteq Order /\ Range(list) \subseteq Status)
    /\ settings \in [DOMAIN DEFAULTS -> BOOLEAN]
    /\ DOMAIN stored \subseteq DOMAIN DEFAULTS
    /\ timezone \in DOMAIN TIMEZONES /\ betSize > 0
    /\ storage.zone \in DOMAIN TIMEZONES \cup {""} /\ storage.bet >= 0
    /\ \A list \in {toasts, shown} :
          Len(list) <= TOAST_LIMIT /\ Range(list) \subseteq Toast
    /\ toastTimeouts \subseteq 1..count
    /\ told \in [Order -> Nat]

(* A failure is announced once at most: not again when a switch makes the  *)
(* effect run over the same list, when the page is opened with a list from *)
(* the cache, or after a reload (prevStatuses and initialized).            *)
FailedAtMostOnce == \A o \in Order : told[o] <= 1

(* The preferences are those a reload would find: each switch of the sheet *)
(* keeps what the others were turned to ("Preferences saved to local       *)
(* storage"), and a zone or a bet size that was refused is not stored.     *)
SettingsSurviveReload ==
    /\ Load(stored) = settings
    /\ resolveDefault(storage.zone, BrowserZone) = timezone
    /\ loadBetSize(storage.bet) = betSize

(* A toast that is still open disappears only for a newer one: the timer   *)
(* of a toast that was dismissed, or pushed out, removes no other one.     *)
OpenToastStays ==
    [][\A t \in Range(toasts) :
          \/ ~t.open \/ count' = 0
          \/ \E u \in Range(toasts') : u.id >= t.id]_vars

(* A toast that was dismissed is cleared away, however many came and went  *)
(* while its timer ran, and whether or not the page has broken meanwhile   *)
(* (addToRemoveQueue).                                                     *)
DismissedIsCleared == []<>(\A t \in Range(toasts) : t.open)

(* A toast goes when it should and no sooner: a timer removes the toast it *)
(* was started for, and every dismissed toast has its timer.               *)
ToastsEnd == OpenToastStays /\ DismissedIsCleared

Watched(o) ==
    open /\ prev # NoList /\ settings.onExecFailed /\ o \in DOMAIN Listed

(* The failure of an order the page has seen alive is announced, unless    *)
(* the operator leaves the page, reloads it or turns the alert off first,  *)
(* or the order has dropped off the end of the list.                       *)
WatchedFailureIsTold ==
    \A o \in Order :
        Watched(o) /\ Before(prev, o) \in {"SENT", "OPEN"} /\ status[o] \in Failed
            ~> told[o] > 0 \/ ~Watched(o)
-----------------------------------------------------------------------------
(* "Execution failed: Order rejected or errored on the exchange" (the      *)
(* settings sheet): with that alert on and the page open, the failure of   *)
(* an order on the list is announced.  Not when the order was inserted and *)
(* rejected between two polls: an order that was not on the list before is *)
(* announced as opened or not at all.                                      *)
FailureIsAnnounced ==
    \A o \in Order :
        Watched(o) /\ Before(prev, o) = "unseen" /\ status[o] \in Failed
            ~> told[o] > 0 \/ ~Watched(o)

(* What the Toaster shows is the list of use-toast (useToast returns       *)
(* "...state").  Not when an answer was rendered together with the end of  *)
(* an older toast: the new one is in the list, and the Toaster learns of   *)
(* it with the next change, if there is one.                               *)
ToastIsShown == shown = toasts
=============================================================================
