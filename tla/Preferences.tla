----------------------------- MODULE Preferences -----------------------------
(***************************************************************************)
(* What the dashboard keeps in the browser's local storage: the alert      *)
(* settings, the time zone and the bet size, each under its own key and    *)
(* each with its own idea of a text that is missing or garbled.  A text is *)
(* what it parses to; one that does not parse counts as no text.           *)
(***************************************************************************)
EXTENDS Integers

(***************************************************************************)
(* The alert settings: a setting that is missing has its default.          *)
(***************************************************************************)
DEFAULTS ==
    [key \in {"onExecFailed", "onExecOpened", "onExecClosed"} |-> key = "onExecFailed"]
Load(text) ==
    [key \in DOMAIN DEFAULTS |-> IF key \in DOMAIN text THEN text[key] ELSE DEFAULTS[key]]

MutantSave(next, key) == [k \in {key} |-> next[k]]
Save(next, key) == next

(***************************************************************************)
(* The time zone, in half hours ahead of UTC; summer time is left out.     *)
(***************************************************************************)
TIMEZONES ==
    [UTC |-> 0, New_York |-> -10, Chicago |-> -12, Denver |-> -14, Los_Angeles |-> -16,
     London |-> 0, Paris |-> 2, Johannesburg |-> 4, Dubai |-> 8, Singapore |-> 16,
     Tokyo |-> 18, Sydney |-> 20]

(* The stored zone, else the browser's, as far as they are in the list.    *)
resolveDefault(stored, local) ==
    IF stored \in DOMAIN TIMEZONES THEN stored
    ELSE IF local \in DOMAIN TIMEZONES THEN local
    ELSE "UTC"

(***************************************************************************)
(* The bet size, as a number; zero stands for whatever is none or is not   *)
(* finite.                                                                 *)
(***************************************************************************)
BET_SIZE_DEFAULT == 100
loadBetSize(stored) == IF stored > 0 THEN stored ELSE BET_SIZE_DEFAULT

(* An entry that is no bet size changes neither the page nor the storage.  *)
handleBetSize(entry, betSize) == IF entry > 0 THEN entry ELSE betSize
=============================================================================
