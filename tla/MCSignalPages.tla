--------------------------- MODULE MCSignalPages ---------------------------
(* An instance of SignalPages: two strategies, of which one has a button   *)
(* of its own, and two markets, of which the watchlist has dropped one.    *)
EXTENDS SignalPages

Tags == [m \in {"m1"} |-> "politics"]
MCEmitted == {<<"s1", "m1">>, <<"s2", "m2">>}
MCManual == {<<"s1", "m1">>}
MCOffers ==
    {[marketId |-> m, conditionId |-> "c1", question |-> "rain", tags |-> {"weather"}, score |-> 1] :
        m \in {"m1", "m2"}}
    \cup
    {[marketId |-> m, conditionId |-> "c2", question |-> NoText, tags |-> {"snow"}, score |-> NullScore] :
        m \in {"m1", "m2"}}
MCWords == {"rain", "snow", "weather"}
MCFilters == {Anything, "s1"}
=============================================================================
