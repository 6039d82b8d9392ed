------------------------- MODULE OrderToastsProofs -------------------------
(***************************************************************************)
(* OrderToasts for any number of orders, any length of the list and any    *)
(* bounds: a failure is announced at most once, and the settings are those *)
(* a reload finds.                                                         *)
(***************************************************************************)
EXTENDS OrderToasts, TLAPS

(***************************************************************************)
(* The inductive invariant.  A failure is final, so a list that shows one  *)
(* is right about it; once a failure was announced, every list that has    *)
(* the order shows it, so no later comparison finds a change.              *)
(***************************************************************************)
Knows(list, o) == list # NoList /\ o \in DOMAIN list

RightAbout(list, o) ==
    Knows(list, o) =>
        /\ list[o] \in Failed => status[o] = list[o]
        /\ told[o] # 0 => list[o] \in Failed

FailedInv ==
    /\ status \in [Order -> Status] /\ told \in [Order -> Nat]
    /\ prev = IF open THEN data ELSE NoList
    /\ \A o \in Order :
        /\ RightAbout(data, o) /\ RightAbout(prev, o)
        /\ told[o] # 0 => told[o] = 1 /\ status[o] \in Failed

(* An order is announced as failed only if the list before knew it alive.  *)
LEMMA ChangeFailed ==
  ASSUME NEW before, NEW list, NEW o, NEW set, Change(before, list, o, set) = "failed"
  PROVE  /\ (Knows(before, o) /\ Knows(list, o)) \/ list = NoList
         /\ before[o] # list[o] /\ list[o] \in Failed
<1>1. before # NoList /\ o \in DOMAIN list
  BY DEF Change
<1>2. Title(Before(before, o), list[o], set) = "failed"
  BY <1>1 DEF Change
<1>3. Before(before, o) # list[o] /\ Before(before, o) # "unseen" /\ list[o] \in Failed
  BY <1>2 DEF Title
<1>4. o \in DOMAIN before /\ Before(before, o) = before[o]
  BY <1>3 DEF Before
<1> QED
  BY <1>1, <1>3, <1>4 DEF Knows

(* Listed shows the statuses of orders as they are. *)
LEMMA ListedIsRight ==
  ASSUME NEW o \in DOMAIN Listed
  PROVE  o \in Order /\ Listed[o] = status[o]
BY DEF Listed

(* The effect over a list that is right about the orders leaves everything *)
(* right; only an order that was not announced before is announced.        *)
LEMMA CompareKeeps ==
  ASSUME FailedInv, NEW list, NEW set, NEW found, Compare(list, set, found),
         \A o \in Order : RightAbout(list, o),
         UNCHANGED status
  PROVE  /\ told' \in [Order -> Nat]
         /\ prev' = list \/ (list = NoList /\ prev' = prev)
         /\ \A o \in Order :
              /\ told'[o] # 0 => told'[o] = 1 /\ status[o] \in Failed
              /\ told'[o] # told[o] => Knows(list, o) /\ list[o] \in Failed
<1>1. CASE list = NoList
  BY <1>1 DEF Compare, FailedInv
<1>2. CASE list # NoList
  <2>1. prev' = list
    BY <1>2 DEF Compare, Remembered
  <2>2. told' = [o \in Order |-> IF Change(prev, list, o, set) = "failed"
                                 THEN told[o] + 1 ELSE told[o]]
    BY <1>2 DEF Compare
  <2>3. told' \in [Order -> Nat]
    BY <2>2 DEF FailedInv
  <2>4. ASSUME NEW o \in Order
        PROVE  /\ told'[o] # 0 => told'[o] = 1 /\ status[o] \in Failed
               /\ told'[o] # told[o] => Knows(list, o) /\ list[o] \in Failed
    <3>1. CASE Change(prev, list, o, set) = "failed"
      <4>1. Knows(prev, o) /\ Knows(list, o) /\ prev[o] # list[o] /\ list[o] \in Failed
        BY <1>2, <3>1, ChangeFailed
      <4>2. status[o] = list[o]
        BY <4>1 DEF RightAbout
      <4>3. prev[o] \notin Failed
        BY <4>1, <4>2 DEF FailedInv, RightAbout
      <4>4. told[o] = 0
        BY <4>1, <4>3 DEF FailedInv, RightAbout
      <4>5. told'[o] = 1
        BY <2>2, <3>1, <4>4
      <4> QED
        BY <4>1, <4>2, <4>5
    <3>2. CASE Change(prev, list, o, set) # "failed"
      <4>1. told'[o] = told[o]
        BY <2>2, <3>2
      <4> QED
        BY <4>1 DEF FailedInv
    <3> QED
      BY <3>1, <3>2
  <2> QED
    BY <2>1, <2>3, <2>4
<1> QED
  BY <1>1, <1>2

(* FailedInv speaks of these variables. *)
LEMMA FailedInvFrame ==
  ASSUME FailedInv, UNCHANGED <<status, page, data, prev, told>>
  PROVE  FailedInv'
BY DEF FailedInv, RightAbout, open

LEMMA WriteStatusKeeps ==
  ASSUME FailedInv, NEW o \in Order, WriteStatus(o)
  PROVE  FailedInv'
<1> PICK s \in Successors(status[o]) : status' = [status EXCEPT ![o] = s]
  BY DEF WriteStatus
<1>1. s \in Status /\ status[o] \notin Failed
  BY DEF Successors, Status, Failed
<1>2. UNCHANGED <<page, open, data, prev, told>>
  BY DEF WriteStatus, toaster, open
<1>3. status' \in [Order -> Status]
  BY <1>1 DEF FailedInv
<1>4. ASSUME NEW p \in Order
      PROVE  /\ RightAbout(data, p)' /\ RightAbout(prev, p)'
             /\ told'[p] # 0 => told'[p] = 1 /\ status'[p] \in Failed
  <2>1. CASE p = o
    <3>1. told[p] = 0
      BY <1>1, <2>1 DEF FailedInv
    <3>2. /\ Knows(data, p) => data[p] \notin Failed
          /\ Knows(prev, p) => prev[p] \notin Failed
      BY <1>1, <2>1 DEF FailedInv, RightAbout
    <3> QED
      BY <1>2, <3>1, <3>2 DEF RightAbout, Knows
  <2>2. CASE p # o
    <3>1. status'[p] = status[p]
      BY <2>2 DEF FailedInv
    <3> QED
      BY <1>2, <3>1 DEF FailedInv, RightAbout, Knows
  <2> QED
    BY <2>1, <2>2
<1> QED
  BY <1>2, <1>3, <1>4 DEF FailedInv

LEMMA ReceiveKeeps == ASSUME FailedInv, Receive \/ ReceiveTogether PROVE FailedInv'
<1>0. PICK found : Compare(Listed, settings, found)
  BY DEF Receive, ReceiveTogether, Effect
<1>1. UNCHANGED status /\ data' = Listed /\ open /\ open'
  BY DEF Receive, ReceiveTogether, open
<1>2. \A o \in Order : RightAbout(Listed, o)
  <2> SUFFICES ASSUME NEW o \in Order, Knows(Listed, o)
               PROVE  /\ Listed[o] \in Failed => status[o] = Listed[o]
                      /\ told[o] # 0 => Listed[o] \in Failed
    BY DEF RightAbout
  <2>1. Listed[o] = status[o]
    BY ListedIsRight DEF Knows
  <2> QED
    BY <2>1 DEF FailedInv
<1>3. /\ told' \in [Order -> Nat]
      /\ prev' = Listed \/ (Listed = NoList /\ prev' = prev)
      /\ \A o \in Order :
           /\ told'[o] # 0 => told'[o] = 1 /\ status[o] \in Failed
           /\ told'[o] # told[o] => Knows(Listed, o) /\ Listed[o] \in Failed
  BY <1>0, <1>1, <1>2, CompareKeeps
<1>4. Listed # NoList
  <2>1. DOMAIN Listed \subseteq Order
    BY ListedIsRight
  <2>2. DOMAIN NoList = {0} /\ 0 \notin Order
    BY DEF NoList, Order
  <2> QED
    BY <2>1, <2>2
<1>5. prev' = Listed
  BY <1>3, <1>4
<1>6. ASSUME NEW o \in Order PROVE RightAbout(data, o)' /\ RightAbout(prev, o)'
  <2> SUFFICES ASSUME Knows(Listed, o)
               PROVE  /\ Listed[o] \in Failed => status[o] = Listed[o]
                      /\ told'[o] # 0 => Listed[o] \in Failed
    BY <1>1, <1>5 DEF RightAbout, Knows
  <2>1. Listed[o] = status[o]
    BY ListedIsRight DEF Knows
  <2> QED
    BY <1>3, <2>1
<1> QED
  BY <1>1, <1>3, <1>5, <1>6 DEF FailedInv

LEMMA OpenPageKeeps == ASSUME FailedInv, OpenPage PROVE FailedInv'
<1>1. UNCHANGED <<status, data>> /\ open' /\ Compare(data, settings, toasts)
  BY DEF OpenPage, open, Effect
<1>2. /\ told' \in [Order -> Nat]
      /\ prev' = data \/ (data = NoList /\ prev' = prev)
      /\ \A o \in Order :
           /\ told'[o] # 0 => told'[o] = 1 /\ status[o] \in Failed
           /\ told'[o] # told[o] => Knows(data, o) /\ data[o] \in Failed
  BY <1>1, CompareKeeps DEF FailedInv
<1>3. prev' = data /\ open' = TRUE
  BY <1>1, <1>2 DEF FailedInv, OpenPage, open
<1>4. ASSUME NEW o \in Order PROVE RightAbout(data, o)' /\ RightAbout(prev, o)'
  <2>1. RightAbout(data, o)
    BY DEF FailedInv
  <2> QED
    BY <1>1, <1>2, <1>3, <2>1 DEF RightAbout, Knows
<1> QED
  BY <1>1, <1>2, <1>3, <1>4 DEF FailedInv

(* A switch compares the list with itself and changes no status.           *)
LEMMA SwitchKeeps ==
  ASSUME FailedInv, NEW key \in DOMAIN DEFAULTS, Switch(key)
  PROVE  FailedInv'
<1>1. UNCHANGED <<status, page, open, data>>
  BY DEF Switch, open
<1>2. CASE ~open
  BY <1>1, <1>2, FailedInvFrame DEF Switch, toaster
<1>3. CASE open
  <2>1. Compare(data, settings', toasts) /\ prev = data
    BY <1>3 DEF Switch, FailedInv, Effect
  <2>2. /\ told' \in [Order -> Nat]
        /\ prev' = data \/ (data = NoList /\ prev' = prev)
        /\ \A o \in Order :
             /\ told'[o] # 0 => told'[o] = 1 /\ status[o] \in Failed
             /\ told'[o] # told[o] => Knows(data, o) /\ data[o] \in Failed
    BY <1>1, <2>1, CompareKeeps DEF FailedInv
  <2>3. prev' = data
    BY <2>1, <2>2
  <2>4. ASSUME NEW o \in Order PROVE RightAbout(data, o)' /\ RightAbout(prev, o)'
    <3>1. RightAbout(data, o)
      BY DEF FailedInv
    <3> QED
      BY <1>1, <2>2, <2>3, <3>1 DEF RightAbout, Knows
  <2> QED
    BY <1>1, <1>3, <2>2, <2>3, <2>4 DEF FailedInv
<1> QED
  BY <1>2, <1>3

(* Lists that are forgotten are right about everything. *)
LEMMA ForgetKeeps ==
  ASSUME FailedInv, UNCHANGED <<status, told>>, prev' = NoList,
         data' = NoList \/ (data' = data /\ ~open'),
         open' => data' = NoList
  PROVE  FailedInv'
<1>1. ASSUME NEW o \in Order PROVE RightAbout(data, o)' /\ RightAbout(prev, o)'
  <2>1. RightAbout(data, o)
    BY DEF FailedInv
  <2> QED
    BY <2>1 DEF RightAbout, Knows
<1> QED
  BY <1>1 DEF FailedInv

LEMMA NextFailedInv == FailedInv /\ [Next]_vars => FailedInv'
<1> SUFFICES ASSUME FailedInv, [Next]_vars PROVE FailedInv'
  OBVIOUS
<1>1. CASE \E o \in Order : WriteStatus(o)
  BY <1>1, WriteStatusKeeps
<1>2. CASE Receive \/ ReceiveTogether
  BY <1>2, ReceiveKeeps
<1>3. CASE LeavePage
  BY <1>3, ForgetKeeps DEF LeavePage, toaster, open
<1>4. CASE DropList
  <2>1. ~open /\ ~open' /\ prev = NoList
    BY <1>4 DEF DropList, FailedInv, open
  <2> QED
    BY <1>4, <2>1, ForgetKeeps DEF DropList, toaster
<1>5. CASE OpenPage
  BY <1>5, OpenPageKeeps
<1>6. CASE Break
  BY <1>6, ForgetKeeps DEF Break, toaster, open
<1>7. CASE Reload
  BY <1>7, ForgetKeeps DEF Reload
<1>8. CASE Prefer
  <2>1. CASE \E key \in DOMAIN DEFAULTS : Switch(key)
    BY <2>1, SwitchKeeps
  <2>2. CASE \E zone \in Picked : PickZone(zone)
    BY <2>2, FailedInvFrame DEF PickZone, toaster
  <2>3. CASE \E entry \in Entries : EnterBetSize(entry)
    BY <2>3, FailedInvFrame DEF EnterBetSize, toaster
  <2> QED
    BY <1>8, <2>1, <2>2, <2>3 DEF Prefer
<1>9. CASE Dismiss
  BY <1>9, FailedInvFrame DEF Dismiss
<1>10. CASE Timeout
  BY <1>10, FailedInvFrame DEF Timeout
<1>11. CASE UNCHANGED vars
  BY <1>11, FailedInvFrame DEF vars
<1> QED
  BY <1>1, <1>2, <1>3, <1>4, <1>5, <1>6, <1>7, <1>8, <1>9, <1>10, <1>11 DEF Next

(* The failure of an order is announced at most once, for any number of    *)
(* orders and switches, across visits to the page and reloads.             *)
THEOREM FailedOnce == Spec => []FailedAtMostOnce
<1>1. Init => FailedInv
  <2> SUFFICES ASSUME Init PROVE FailedInv
    OBVIOUS
  <2>1. status \in [Order -> Status] /\ told \in [Order -> Nat] /\ prev = data
    BY DEF Init, Status
  <2>2. \A o \in Order : RightAbout(data, o) /\ RightAbout(prev, o) /\ told[o] = 0
    BY DEF Init, RightAbout, Knows
  <2> QED
    BY <2>1, <2>2 DEF Init, FailedInv
<1>2. FailedInv => FailedAtMostOnce
  <2> SUFFICES ASSUME FailedInv, NEW o \in Order PROVE told[o] <= 1
    BY DEF FailedAtMostOnce
  <2>1. told[o] = 0 \/ told[o] = 1
    BY DEF FailedInv
  <2> QED
    BY <2>1
<1> QED
  BY <1>1, <1>2, NextFailedInv, PTL DEF Spec

(***************************************************************************)
(* The preferences.  Each of the three is what is loaded from its text,    *)
(* and what is stored is either nothing yet or something that was accepted.*)
(***************************************************************************)
SettingsInv ==
    /\ settings \in [DOMAIN DEFAULTS -> BOOLEAN]
    /\ storage.bet \in Int /\ storage = [zone |-> storage.zone, bet |-> storage.bet]
    /\ SettingsSurviveReload

(* All the settings, stored together, are what is loaded from them. *)
LEMMA LoadOfAll ==
  ASSUME NEW set \in [DOMAIN DEFAULTS -> BOOLEAN]
  PROVE  Load(set) = set
BY DEF Load

LEMMA SettingsInit == Init => SettingsInv
<1> SUFFICES ASSUME Init PROVE SettingsInv
  OBVIOUS
<1> DEFINE keys == {"onExecFailed", "onExecOpened", "onExecClosed"}
<1>1. DEFAULTS \in [keys -> BOOLEAN] /\ DOMAIN DEFAULTS = keys
  BY DEF DEFAULTS
<1>2. Load(<<>>) = DEFAULTS
  BY <1>1 DEF Load
<1>3. loadBetSize(0) = BET_SIZE_DEFAULT
  BY DEF loadBetSize
<1>4. storage = [zone |-> "", bet |-> 0]
  BY DEF Init
<1>5. /\ storage.bet \in Int /\ storage = [zone |-> storage.zone, bet |-> storage.bet]
      /\ storage.zone = "" /\ storage.bet = 0
  <2>1. storage.zone = ""
    BY <1>4, Zenon
  <2>2. storage.bet = 0
    BY <1>4, Zenon
  <2>3. 0 \in Int
    OBVIOUS
  <2> QED
    BY <1>4, <2>1, <2>2, <2>3, Zenon
<1>6. /\ settings = DEFAULTS /\ stored = <<>>
      /\ timezone = resolveDefault("", BrowserZone) /\ betSize = BET_SIZE_DEFAULT
  BY DEF Init
<1>7. SettingsSurviveReload
  BY <1>2, <1>3, <1>5, <1>6, Zenon DEF SettingsSurviveReload
<1>8. settings \in [DOMAIN DEFAULTS -> BOOLEAN]
  BY <1>1, <1>6
<1> QED
  BY <1>5, <1>7, <1>8 DEF SettingsInv

LEMMA SwitchKeepsSettings ==
  ASSUME SettingsInv, NEW key \in DOMAIN DEFAULTS, Switch(key)
  PROVE  SettingsInv'
<1>1. settings' = [settings EXCEPT ![key] = ~@] /\ stored' = settings' /\ UNCHANGED looks
  BY DEF Switch, Save
<1>2. settings' \in [DOMAIN DEFAULTS -> BOOLEAN]
  BY <1>1 DEF SettingsInv
<1>3. Load(settings') = settings'
  BY <1>2, LoadOfAll
<1> QED
  BY <1>1, <1>2, <1>3 DEF SettingsInv, SettingsSurviveReload, looks

(* A zone of the picker is a zone of the list. *)
LEMMA PickZoneKeepsSettings ==
  ASSUME SettingsInv, NEW zone \in Picked, PickZone(zone)
  PROVE  SettingsInv'
<1>1. /\ timezone' = zone /\ storage' = [storage EXCEPT !.zone = zone]
      /\ UNCHANGED <<settings, stored, betSize>>
  BY DEF PickZone, alerts
<1>2. storage' = [zone |-> zone, bet |-> storage.bet]
  BY <1>1 DEF SettingsInv
<1>3. resolveDefault(zone, BrowserZone) = zone
  BY PreferenceAssumption DEF resolveDefault
<1> QED
  BY <1>1, <1>2, <1>3 DEF SettingsInv, SettingsSurviveReload

(* An entry that is refused changes neither the page nor the storage.      *)
LEMMA EnterBetSizeKeepsSettings ==
  ASSUME SettingsInv, NEW entry \in Entries, EnterBetSize(entry)
  PROVE  SettingsInv'
<1>1. /\ betSize' = handleBetSize(entry, betSize)
      /\ storage' = [storage EXCEPT !.bet = handleBetSize(entry, @)]
      /\ UNCHANGED <<settings, stored, timezone>>
  BY DEF EnterBetSize, alerts
<1>2. entry \in Int
  BY PreferenceAssumption
<1>3. storage' = [zone |-> storage.zone, bet |-> handleBetSize(entry, storage.bet)]
  BY <1>1 DEF SettingsInv
<1>4. handleBetSize(entry, storage.bet) \in Int
  BY <1>2 DEF handleBetSize, SettingsInv
<1>5. loadBetSize(storage'.bet) = betSize'
  BY <1>1, <1>2, <1>3 DEF handleBetSize, loadBetSize, SettingsInv, SettingsSurviveReload
<1> QED
  BY <1>1, <1>3, <1>4, <1>5 DEF SettingsInv, SettingsSurviveReload

(* What the page shows of the preferences is what a reload would find: a   *)
(* switch stores the others with its own, and what is refused is not       *)
(* stored.                                                                 *)
THEOREM SettingsKept == Spec => []SettingsSurviveReload
<1>1. SettingsInv /\ [Next]_vars => SettingsInv'
  <2> SUFFICES ASSUME SettingsInv, [Next]_vars PROVE SettingsInv'
    OBVIOUS
  <2>1. CASE UNCHANGED preferences
    BY <2>1 DEF SettingsInv, SettingsSurviveReload, preferences, alerts, looks
  <2>2. CASE LeavePage
    <3>1. /\ UNCHANGED <<settings, stored, timezone, storage>>
          /\ betSize' = betSize
      BY <2>2 DEF LeavePage, SettingsInv, SettingsSurviveReload, alerts
    <3> QED
      BY <3>1 DEF SettingsInv, SettingsSurviveReload
  <2>3. CASE Prefer
    BY <2>3, SwitchKeepsSettings, PickZoneKeepsSettings, EnterBetSizeKeepsSettings DEF Prefer
  <2>4. CASE Reload
    <3>1. UNCHANGED <<settings, stored, timezone, betSize, storage>>
      BY <2>4 DEF Reload, SettingsInv, SettingsSurviveReload
    <3> QED
      BY <3>1 DEF SettingsInv, SettingsSurviveReload
  <2> QED
    BY <2>1, <2>2, <2>3, <2>4 DEF Next, WriteStatus, Receive, ReceiveTogether, DropList,
        OpenPage, Break, Dismiss, Timeout, vars, preferences, alerts, looks
<1>2. SettingsInv => SettingsSurviveReload
  BY DEF SettingsInv
<1> QED
  BY SettingsInit, <1>1, <1>2, PTL DEF Spec
=============================================================================
