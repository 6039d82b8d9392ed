----------------------------- MODULE OrderLedger -----------------------------
(***************************************************************************)
(* What the execution layer promises about the orders table, seen from     *)
(* afar: an append-only ledger of intents to trade.  A signal gets one     *)
(* original entry, ever; an entry is replaced by at most one repost, which *)
(* is for the same signal and comes after the entry was given up; what was *)
(* given up and replaced is not taken up again.                            *)
(***************************************************************************)
EXTENDS Naturals

CONSTANTS Signals, Ids, None

VARIABLES entries, replaced

LedgerVars == <<entries, replaced>>

\* An entry; prev is the entry it replaces, or None.
Entry == [id : Ids, sig : Signals, prev : Ids \union {None}]

LedgerTypeOK == entries \subseteq Entry /\ replaced \subseteq Ids

LedgerInit == entries = {} /\ replaced = {}

Fresh(id) == \A e \in entries : e.id # id

Original(id, s) ==
    /\ Fresh(id)
    /\ \A e \in entries : e.sig # s
    /\ entries' = entries \union {[id |-> id, sig |-> s, prev |-> None]}
    /\ UNCHANGED replaced

\* Giving an entry up, once; it may then be replaced or not.
GiveUp(id) ==
    /\ ~Fresh(id) /\ id \notin replaced
    /\ replaced' = replaced \union {id}
    /\ UNCHANGED entries

Repost(id, e) ==
    /\ Fresh(id)
    /\ e \in entries /\ e.id \in replaced
    /\ \A f \in entries : f.prev # e.id
    /\ entries' = entries \union {[id |-> id, sig |-> e.sig, prev |-> e.id]}
    /\ UNCHANGED replaced

LedgerNext ==
    \E id \in Ids :
        \/ GiveUp(id)
        \/ \E s \in Signals : Original(id, s)
        \/ \E e \in entries : Repost(id, e)

LedgerSpec == LedgerInit /\ [][LedgerNext]_LedgerVars

=============================================================================
