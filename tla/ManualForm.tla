----------------------------- MODULE ManualForm -----------------------------
(***************************************************************************)
(* The numbers of the manual form on their way to the size of an order:    *)
(* what the fields admit, what handleSubmit makes of them, what POST       *)
(* /signals refuses, and what the bot bets on the signal.  Scores are in   *)
(* hundredths, fractions in thousandths, money in cents.                   *)
(***************************************************************************)
EXTENDS Integers

Blank == -1     \* a field that was emptied: neither is required
NoKelly == 0       \* kelly_fraction: null

(* The browser submits no number outside the bounds of its field. *)
Fits(field, min, max) == field = Blank \/ field \in min..max
IsSubmitted(form) == Fits(form.score, 75, 100) /\ Fits(form.kelly, 1, 250)

(* parseFloat of an empty field is NaN, and JSON writes that as null. *)
handleSubmit(form) ==
    IF form.score = Blank \/ form.score < 75
    THEN [mutate |-> FALSE]
    ELSE [mutate |-> TRUE, signalScore |-> form.score,
          kelly |-> IF form.kelly = Blank THEN NoKelly ELSE form.kelly]

(* POST /signals answers 400. *)
IsRefused(body) == body.signalScore < 75

(* _size_from_signal of the bot; Decimal rounds down to a cent. *)
MIN_ORDER_USDC == 100
Cents(amount, fraction) == (amount * fraction) \div 1000

MutantSizeFromSignal(bankroll, pct, kelly) ==
    LET size == Cents(bankroll, IF kelly > 0 THEN kelly ELSE pct)
    IN  IF size < MIN_ORDER_USDC THEN 0 ELSE size

SizeFromSignal(bankroll, pct, kelly) ==
    LET cap == Cents(bankroll, pct)
        raw == Cents(bankroll, kelly)
        size == IF kelly > 0 /\ raw < cap THEN raw ELSE cap
    IN  IF size < MIN_ORDER_USDC THEN 0 ELSE size
=============================================================================
