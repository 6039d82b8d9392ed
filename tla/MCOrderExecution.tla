-------------------------- MODULE MCOrderExecution --------------------------
(* Small instances of OrderExecution: two signals for one token, or one each. *)
EXTENDS OrderExecution, TLC

CONSTANTS s1, s2, t1, t2

OneToken  == [s \in {s1, s2} |-> t1]
TwoTokens == (s1 :> t1) @@ (s2 :> t2)
OneSignal == [s \in {s1} |-> t1]

=============================================================================
