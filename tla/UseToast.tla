------------------------------ MODULE UseToast ------------------------------
(***************************************************************************)
(* use-toast: the list of toasts that are shown, and the toasts whose      *)
(* timer runs.  The dashboard and the mockup sandbox each have a copy of   *)
(* it; the two differ in one comment.  Ids are counted from one, and the   *)
(* counter is not taken modulo 2^53.  AllToasts stands for an action       *)
(* without an id.                                                          *)
(***************************************************************************)
EXTENDS Integers, FiniteSets, SequencesExt

TOAST_LIMIT == 1
AllToasts == 0

Concerns(action, t) == action.id \in {AllToasts, t.id}

AtMostLimit(list) ==
    SubSeq(list, 1, IF Len(list) < TOAST_LIMIT THEN Len(list) ELSE TOAST_LIMIT)
Updated(t, props) == IF t.id = props.id THEN props @@ t ELSE t
WithOpen(t, isOpen) == [t EXCEPT !.open = isOpen]

reducer(list, action) ==
    CASE action.type = "ADD_TOAST" -> AtMostLimit(<<action.toast>> \o list)
      [] action.type = "UPDATE_TOAST" ->
            [i \in DOMAIN list |-> Updated(list[i], action.toast)]
      [] action.type = "DISMISS_TOAST" ->
            [i \in DOMAIN list |-> IF Concerns(action, list[i]) THEN WithOpen(list[i], FALSE)
                                   ELSE list[i]]
      [] action.type = "REMOVE_TOAST" ->
            SelectSeq(list, LAMBDA t : ~Concerns(action, t))

(* A dismissed toast is put in the queue once: the timer is not restarted. *)
MutantaddToRemoveQueue(timeouts, id) == IF timeouts = {} THEN {id} ELSE timeouts
addToRemoveQueue(timeouts, id) == timeouts \cup {id}

(* What DISMISS_TOAST does to the queue. *)
Dismissed(list, timeouts, action) ==
    IF action.id = AllToasts
    THEN FoldLeft(addToRemoveQueue, timeouts, [i \in DOMAIN list |-> list[i].id])
    ELSE addToRemoveQueue(timeouts, action.id)

genId(n) == n + 1

(* toast(...): an id, and the toast in front of the others. *)
toast(state, news) ==
    LET id == genId(state.count)
    IN  [count |-> id,
         toasts |-> reducer(state.toasts,
            [type |-> "ADD_TOAST",
             toast |-> [id |-> id, order |-> news.order, title |-> news.title, open |-> TRUE]])]
=============================================================================
