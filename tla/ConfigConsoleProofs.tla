------------------------ MODULE ConfigConsoleProofs ------------------------
(***************************************************************************)
(* ConfigConsole for any settings and any bounds: what the page shows is   *)
(* never older than what it has saved, and a pause takes effect within one *)
(* cycle and one more for each excuse.                                     *)
(***************************************************************************)
EXTENDS ConfigConsole, TLAPS

(* The cache entries of the queries are records of this shape. *)
FetchShape ==
    /\ fetch = [q \in Queries |-> fetch[q]]
    /\ \A q \in Queries :
        /\ fetch[q].state \in {"idle", "failed", "asked", "answered"}
        /\ fetch[q].state = "answered" => fetch[q].data \in [Carried(q) -> Value]

SaveShape ==
    save \in [Setting -> [state : {"none", "sent", "stored", "refetch"}, value : Value]]

ReadShape ==
    /\ stored \in [Setting -> Value] /\ shown \in [Setting -> Value]
    /\ acked \in [Setting -> Nat]

Shapes == FetchShape /\ SaveShape /\ ReadShape

(* A setting is carried by its query. *)
LEMMA OwnQuery ==
  ASSUME NEW s \in Setting PROVE QueryOf(s) \in Queries /\ s \in Carried(QueryOf(s))
BY DEF Queries, Carried

(* The invalidation in the onSuccess of a setting reaches the query that   *)
(* carries it: the two keys are spelled alike.                             *)
LEMMA ReachesOwn ==
  ASSUME NEW s \in Setting PROVE Reaches(Invalidates(s), QueryOf(s))
<1>1. CASE s = "bankroll"
  <2>1. Invalidates(s) = <<<<"portfolio">>>> /\ QueryOf(s).key = <<<<"portfolio">>>>
    BY <1>1 DEF Invalidates, BankrollInvalidates, QueryOf, GetPortfolio, Query,
                QueryKey, NoParams
  <2> QED
    BY <2>1 DEF Reaches, IsPrefix
<1>2. CASE s = "paused"
  <2>1. Invalidates(s) = <<<<"execution">>, <<"status">>>>
        /\ QueryOf(s).key = <<<<"execution">>, <<"status">>>>
    BY <1>2 DEF Invalidates, ToggleInvalidates, QueryOf, ExecutorStatus, FetchQuery
  <2> QED
    BY <2>1 DEF Reaches, IsPrefix
<1>3. CASE s # "bankroll" /\ s # "paused"
  <2>1. Invalidates(s) = <<<<"config">>, <<"risk">>>>
        /\ QueryOf(s).key = <<<<"config">>, <<"risk">>>>
    BY <1>3 DEF Invalidates, CapInvalidates, QueryOf, RiskConfig, FetchQuery
  <2> QED
    BY <2>1 DEF Reaches, IsPrefix
<1> QED
  BY <1>1, <1>2, <1>3

LEMMA DefaultValue == Default \in Value /\ NoSave.value \in Value /\ NoSave.state = "none"
BY DEF Default, Value, NoSave

LEMMA NoSaveType ==
  NoSave \in [state : {"none", "sent", "stored", "refetch"}, value : Value]
BY DefaultValue DEF NoSave

(***************************************************************************)
(* The shapes are kept.                                                    *)
(***************************************************************************)
LEMMA AskedShape ==
  /\ Asked.state = "asked" /\ IdleAfter(TRUE).state = "failed"
  /\ IdleAfter(FALSE).state = "idle"
BY DEF Asked, IdleAfter

(* One entry changes, to one that is in flight or done. *)
LEMMA FetchExcept ==
  ASSUME FetchShape, NEW q \in Queries, NEW e,
         fetch' = [fetch EXCEPT ![q] = e],
         e.state \in {"idle", "failed", "asked", "answered"},
         e.state = "answered" => e.data \in [Carried(q) -> Value]
  PROVE  /\ FetchShape'
         /\ fetch'[q] = e
         /\ \A r \in Queries \ {q} : fetch'[r] = fetch[r]
<1>1. fetch' = [r \in Queries |-> IF r = q THEN e ELSE fetch[r]]
  BY DEF FetchShape
<1> QED
  BY <1>1 DEF FetchShape

LEMMA SettledShape ==
  ASSUME SaveShape, NEW done, save' = Settled(done)
  PROVE  /\ SaveShape'
         /\ \A s \in Setting : save'[s] = save[s] \/ save'[s] = NoSave
BY NoSaveType DEF SaveShape, Settled

LEMMA NextShapes == Shapes /\ [Next]_vars => Shapes'
<1> SUFFICES ASSUME Shapes, [Next]_vars PROVE Shapes'
  OBVIOUS
<1>a. FetchShape /\ SaveShape /\ ReadShape
  BY DEF Shapes
<1>1. ASSUME NEW q \in Queries, Poll(q) PROVE Shapes'
  <2>1. FetchShape'
    BY <1>a, <1>1, AskedShape, FetchExcept DEF Poll
  <2> QED
    BY <1>a, <1>1, <2>1 DEF Poll, Shapes, SaveShape, ReadShape
<1>2. ASSUME NEW q \in Queries, Answer(q) PROVE Shapes'
  <2>1. Rows(q) \in [Carried(q) -> Value]
    BY <1>a DEF Rows, Carried, ReadShape
  <2> DEFINE e == [state |-> "answered", data |-> Rows(q)]
  <2>2. e.state = "answered" /\ e.data = Rows(q)
    OBVIOUS
  <2>3. fetch' = [fetch EXCEPT ![q] = e]
    BY <1>2 DEF Answer
  <2> HIDE DEF e
  <2>4. FetchShape'
    BY <1>a, <2>1, <2>2, <2>3, FetchExcept
  <2> QED
    BY <1>a, <1>2, <2>4 DEF Answer, Shapes, SaveShape, ReadShape
<1>3. ASSUME NEW q \in Queries, Receive(q) PROVE Shapes'
  <2>1. FetchShape'
    BY <1>a, <1>3, AskedShape, FetchExcept DEF Receive
  <2>2. SaveShape'
    BY <1>a, <1>3, SettledShape DEF Receive
  <2>3. shown' \in [Setting -> Value]
    <3>1. fetch[q].data \in [Carried(q) -> Value]
      BY <1>a, <1>3 DEF FetchShape, Receive
    <3> QED
      BY <1>a, <1>3, <3>1 DEF Receive, ReadShape
  <2> QED
    BY <1>a, <1>3, <2>1, <2>2, <2>3 DEF Receive, Shapes, ReadShape
<1>4. ASSUME NEW q \in Queries, FetchFailed(q) PROVE Shapes'
  <2>1. FetchShape'
    BY <1>a, <1>4, AskedShape, FetchExcept DEF FetchFailed
  <2>2. SaveShape'
    BY <1>a, <1>4, SettledShape DEF FetchFailed
  <2> QED
    BY <1>a, <1>4, <2>1, <2>2 DEF FetchFailed, Shapes, ReadShape
<1>5. ASSUME NEW s \in Form, OpenForm(s) \/ TypeValue(s) \/ CloseForm(s) PROVE Shapes'
  BY <1>a, <1>5 DEF OpenForm, TypeValue, CloseForm, Shapes, FetchShape, SaveShape, ReadShape
<1>6. ASSUME NEW s \in Setting, NEW on \in BOOLEAN,
             save' = [save EXCEPT ![s] = Sent(on)]
      PROVE  SaveShape'
  <2>1. Sent(on) \in [state : {"none", "sent", "stored", "refetch"}, value : Value]
    BY DEF Sent, Value
  <2> QED
    BY <1>a, <1>6, <2>1 DEF SaveShape
<1>7. ASSUME NEW s \in Form, SaveForm(s) PROVE Shapes'
  <2>1. SaveShape'
    BY <1>6, <1>7 DEF SaveForm, Form
  <2> QED
    BY <1>a, <1>7, <2>1 DEF SaveForm, Shapes, FetchShape, ReadShape
<1>8. CASE Toggle
  <2>1. (~shown["paused"].on) \in BOOLEAN /\ "paused" \in Setting
    BY <1>8 DEF Toggle
  <2>2. SaveShape'
    BY <1>6, <1>8, <2>1 DEF Toggle
  <2> QED
    BY <1>a, <1>8, <2>2 DEF Toggle, Shapes, FetchShape, ReadShape
<1>9. ASSUME NEW s \in Setting, NEW on \in BOOLEAN PROVE NextValue(s, on) \in Value
  <2>1. stored[s].write + 1 \in Nat
    BY <1>a DEF ReadShape, Value
  <2> QED
    BY <2>1 DEF NextValue, Value
<1>10. ASSUME NEW s \in Setting, Apply(s) PROVE Shapes'
  <2>1. save[s].value.on \in BOOLEAN
    BY <1>a DEF SaveShape, Value
  <2> DEFINE value == NextValue(s, save[s].value.on)
  <2>2. value \in Value
    BY <1>9, <2>1
  <2>3. stored' = [stored EXCEPT ![s] = value]
        /\ save' = [save EXCEPT ![s] = [state |-> "stored", value |-> value]]
    BY <1>10 DEF Apply, Store
  <2> HIDE DEF value
  <2>4. [state |-> "stored", value |-> value]
           \in [state : {"none", "sent", "stored", "refetch"}, value : Value]
    BY <2>2
  <2>5. SaveShape'
    BY <1>a, <2>3, <2>4 DEF SaveShape
  <2>6. ReadShape'
    BY <1>a, <1>10, <2>2, <2>3 DEF ReadShape, Apply
  <2> QED
    BY <1>a, <1>10, <2>5, <2>6 DEF Apply, Shapes, FetchShape
<1>11. ASSUME NEW s \in Setting, Acknowledge(s) PROVE Shapes'
  <2>1. FetchShape'
    <3> PICK reached \in SUBSET Queries :
          fetch' = [q \in Queries |-> IF q \in reached THEN Invalidated(q) ELSE fetch[q]]
      BY <1>11 DEF Acknowledge
    <3> QED
      BY <1>a, AskedShape DEF FetchShape, Invalidated
  <2>2. SaveShape'
    <3>1. PICK done : save' = [Settled(done) EXCEPT ![s] =
                         IF s \in done THEN NoSave ELSE [@ EXCEPT !.state = "refetch"]]
      BY <1>11 DEF Acknowledge
    <3>2. Settled(done) \in
            [Setting -> [state : {"none", "sent", "stored", "refetch"}, value : Value]]
      BY <1>a, NoSaveType DEF SaveShape, Settled
    <3>3. [Settled(done)[s] EXCEPT !.state = "refetch"]
             \in [state : {"none", "sent", "stored", "refetch"}, value : Value]
      BY <3>2
    <3> QED
      BY <3>1, <3>2, <3>3, NoSaveType DEF SaveShape
  <2>3. acked' \in [Setting -> Nat]
    <3>1. save[s].value.write \in Nat
      BY <1>a DEF SaveShape, Value
    <3> QED
      BY <1>a, <1>11, <3>1 DEF Acknowledge, ReadShape
  <2> QED
    BY <1>a, <1>11, <2>1, <2>2, <2>3 DEF Acknowledge, Shapes, ReadShape
<1>12. ASSUME NEW s \in Setting, SaveFailed(s) PROVE Shapes'
  <2>1. SaveShape'
    BY <1>a, <1>12, NoSaveType DEF SaveFailed, SaveShape
  <2> QED
    BY <1>a, <1>12, <2>1 DEF SaveFailed, Shapes, FetchShape, ReadShape
<1>13. ASSUME NEW s \in Setting, OtherWrite(s) PROVE Shapes'
  <2> PICK on \in BOOLEAN : Store(s, NextValue(s, on))
    BY <1>13 DEF OtherWrite
  <2>1. stored' \in [Setting -> Value]
    BY <1>a, <1>9 DEF Store, ReadShape
  <2> QED
    BY <1>a, <1>13, <2>1 DEF OtherWrite, page, Shapes, FetchShape, SaveShape, ReadShape
<1>14. CASE Cycle \/ BotCall \/ BotRestart \/ UNCHANGED vars
  BY <1>a, <1>14 DEF Cycle, SyncFlag, SyncFailed, ProcessSignals, BotCall, BotRestart,
                     page, vars, Shapes, FetchShape, SaveShape, ReadShape
<1> QED
  BY <1>1, <1>2, <1>3, <1>4, <1>5, <1>7, <1>8, <1>10, <1>11, <1>12, <1>13, <1>14 DEF Next

LEMMA InitShapes == Init => Shapes
<1> SUFFICES ASSUME Init PROVE Shapes
  OBVIOUS
<1>1. SaveShape
  BY NoSaveType DEF Init, SaveShape
<1>2. ReadShape
  BY DefaultValue DEF Init, ReadShape
<1>3. FetchShape
  BY DEF Init, FetchShape
<1> QED
  BY <1>1, <1>2, <1>3 DEF Shapes

(***************************************************************************)
(* Read your writes.  The inductive invariant: an acknowledged write is    *)
(* stored, so is the one whose answer is on its way, and an answer that is *)
(* waiting to be received was read after the last acknowledgement, for an  *)
(* acknowledgement asks again.                                             *)
(***************************************************************************)
AckedOf(s) ==
    /\ acked[s] <= stored[s].write
    /\ save[s].state = "stored" => save[s].value.write <= stored[s].write
    /\ fetch[QueryOf(s)].state = "answered" =>
          fetch[QueryOf(s)].data[s].write >= acked[s]
    /\ fetch[QueryOf(s)].state = "idle" => shown[s].write >= acked[s]

AckedInv == \A s \in Setting : AckedOf(s)

(* The numbers of writes are numbers. *)
LEMMA Numbers ==
  ASSUME Shapes, NEW s \in Setting
  PROVE  /\ stored[s].write \in Nat /\ shown[s].write \in Nat /\ acked[s] \in Nat
         /\ save[s].value.write \in Nat
         /\ fetch[QueryOf(s)].state = "answered" =>
               fetch[QueryOf(s)].data[s].write \in Nat
<1>1. stored[s] \in Value /\ shown[s] \in Value /\ acked[s] \in Nat
      /\ save[s].value \in Value
  BY DEF Shapes, SaveShape, ReadShape
<1>2. fetch[QueryOf(s)].state = "answered" => fetch[QueryOf(s)].data[s] \in Value
  BY OwnQuery DEF Shapes, FetchShape
<1> QED
  BY <1>1, <1>2 DEF Value

(* What is stored of a setting is replaced by something newer. *)
LEMMA StoredGrows ==
  ASSUME Shapes, NEW s \in Setting, NEW on, Store(s, NextValue(s, on))
  PROVE  /\ stored'[s].write = stored[s].write + 1
         /\ \A t \in Setting : /\ stored'[t].write \in Nat
                               /\ stored'[t].write >= stored[t].write
<1>1. stored' = [stored EXCEPT ![s] = NextValue(s, on)]
  BY DEF Store
<1>2. stored \in [Setting -> Value]
  BY DEF Shapes, ReadShape
<1>3. stored'[s].write = stored[s].write + 1
  BY <1>1, <1>2 DEF NextValue
<1>4. \A t \in Setting : t # s => stored'[t] = stored[t]
  BY <1>1, <1>2
<1> QED
  BY <1>3, <1>4, Numbers

LEMMA NextAckedInv == Shapes /\ AckedInv /\ [Next]_vars => AckedInv'
<1> SUFFICES ASSUME Shapes, AckedInv, [Next]_vars, NEW s \in Setting PROVE AckedOf(s)'
  BY DEF AckedInv
<1>a. AckedOf(s) /\ QueryOf(s) \in Queries /\ s \in Carried(QueryOf(s))
  BY OwnQuery DEF AckedInv
<1>f. FetchShape
  BY DEF Shapes
<1>1. ASSUME NEW q \in Queries, Poll(q) PROVE AckedOf(s)'
  <2>1. /\ fetch'[q] = Asked /\ \A r \in Queries \ {q} : fetch'[r] = fetch[r]
    BY <1>1, <1>f, AskedShape, FetchExcept DEF Poll
  <2>2. UNCHANGED <<stored, shown, save, acked>>
    BY <1>1 DEF Poll
  <2> QED
    BY <1>a, <2>1, <2>2, AskedShape DEF AckedOf
<1>2. ASSUME NEW q \in Queries, Answer(q) PROVE AckedOf(s)'
  <2>1. fetch' = [fetch EXCEPT ![q] = [state |-> "answered", data |-> Rows(q)]]
        /\ UNCHANGED <<stored, shown, save, acked>>
    BY <1>2 DEF Answer
  <2>2. CASE q = QueryOf(s)
    <3>1. fetch'[q].state = "answered" /\ fetch'[q].data = Rows(q)
      BY <1>f, <2>1 DEF FetchShape
    <3>2. fetch'[q].data[s] = stored[s]
      BY <1>a, <2>2, <3>1 DEF Rows
    <3> QED
      BY <1>a, <2>1, <2>2, <3>1, <3>2, Numbers DEF AckedOf
  <2>3. CASE q # QueryOf(s)
    <3>1. fetch'[QueryOf(s)] = fetch[QueryOf(s)]
      BY <1>a, <1>f, <2>1, <2>3 DEF FetchShape
    <3> QED
      BY <1>a, <2>1, <3>1 DEF AckedOf
  <2> QED
    BY <2>2, <2>3
<1>3. ASSUME NEW q \in Queries, Receive(q) PROVE AckedOf(s)'
  <2>1. fetch'[q].state = "idle" /\ \A r \in Queries \ {q} : fetch'[r] = fetch[r]
    BY <1>3, <1>f, AskedShape, FetchExcept DEF Receive
  <2>2. UNCHANGED <<stored, acked>>
    BY <1>3 DEF Receive
  <2>3. save'[s] = save[s] \/ save'[s] = NoSave
    BY <1>3, SettledShape DEF Receive, Shapes
  <2>4. save'[s].state = "stored" => save'[s].value.write <= stored[s].write
    BY <1>a, <2>3, DefaultValue DEF AckedOf
  <2>5. CASE q = QueryOf(s)
    <3>1. shown'[s] = fetch[q].data[s] /\ fetch[q].state = "answered"
      BY <1>3, <1>a, <2>5 DEF Receive
    <3> QED
      BY <1>a, <2>1, <2>2, <2>4, <2>5, <3>1 DEF AckedOf
  <2>6. CASE q # QueryOf(s)
    <3>1. s \notin Carried(q)
      BY <2>6 DEF Carried
    <3>2. shown'[s] = shown[s]
      BY <1>3, <3>1 DEF Receive
    <3> QED
      BY <1>a, <2>1, <2>2, <2>4, <2>6, <3>2 DEF AckedOf
  <2> QED
    BY <2>5, <2>6
<1>4. ASSUME NEW q \in Queries, FetchFailed(q) PROVE AckedOf(s)'
  <2>1. fetch'[q].state = "failed" /\ \A r \in Queries \ {q} : fetch'[r] = fetch[r]
    BY <1>4, <1>f, AskedShape, FetchExcept DEF FetchFailed
  <2>2. UNCHANGED <<stored, shown, acked>>
    BY <1>4 DEF FetchFailed
  <2>3. save'[s] = save[s] \/ save'[s] = NoSave
    BY <1>4, SettledShape DEF FetchFailed, Shapes
  <2>4. save'[s].state = "stored" => save'[s].value.write <= stored[s].write
    BY <1>a, <2>3, DefaultValue DEF AckedOf
  <2> QED
    BY <1>a, <2>1, <2>2, <2>4 DEF AckedOf
<1>5. ASSUME NEW f \in Form, OpenForm(f) \/ TypeValue(f) \/ CloseForm(f) PROVE AckedOf(s)'
  BY <1>a, <1>5 DEF OpenForm, TypeValue, CloseForm, AckedOf
<1>6. ASSUME NEW t \in Setting, NEW on, save' = [save EXCEPT ![t] = Sent(on)],
             UNCHANGED <<stored, shown, fetch, acked>>
      PROVE  AckedOf(s)'
  <2>1. save'[s] = save[s] \/ save'[s].state = "sent"
    BY <1>6 DEF Shapes, SaveShape, Sent
  <2> QED
    BY <1>a, <1>6, <2>1 DEF AckedOf
<1>7. ASSUME NEW f \in Form, SaveForm(f) PROVE AckedOf(s)'
  BY <1>6, <1>7 DEF SaveForm, Form
<1>8. CASE Toggle
  BY <1>6, <1>8 DEF Toggle
<1>9. ASSUME NEW t \in Setting, Apply(t) PROVE AckedOf(s)'
  <2>1. Store(t, NextValue(t, save[t].value.on))
        /\ save' = [save EXCEPT ![t] = [state |-> "stored",
                                       value |-> NextValue(t, save[t].value.on)]]
        /\ UNCHANGED <<shown, fetch, acked>>
    BY <1>9 DEF Apply
  <2>2. stored'[t].write = stored[t].write + 1 /\ stored'[s].write >= stored[s].write
    BY <2>1, StoredGrows
  <2>3. CASE t = s
    <3>1. save'[s].value.write = stored[s].write + 1
      BY <2>1, <2>3 DEF Shapes, SaveShape, NextValue
    <3> QED
      BY <1>a, <2>1, <2>2, <2>3, <3>1, Numbers DEF AckedOf
  <2>4. CASE t # s
    <3>1. save'[s] = save[s]
      BY <2>1, <2>4 DEF Shapes, SaveShape
    <3>2. stored'[s] = stored[s]
      BY <2>1, <2>4 DEF Shapes, ReadShape, Store
    <3> QED
      BY <1>a, <2>1, <3>1, <3>2 DEF AckedOf
  <2> QED
    BY <2>3, <2>4
<1>10. ASSUME NEW t \in Setting, Acknowledge(t) PROVE AckedOf(s)'
  <2> DEFINE reached == {q \in Queries : Reaches(Invalidates(t), q)}
  <2>1. fetch' = [q \in Queries |-> IF q \in reached THEN Asked ELSE fetch[q]]
    BY <1>10 DEF Acknowledge, Invalidated
  <2>2. acked' = [acked EXCEPT ![t] = save[t].value.write] /\ save[t].state = "stored"
        /\ UNCHANGED <<stored, shown>>
    BY <1>10 DEF Acknowledge
  <2>3. fetch'[QueryOf(s)] = Asked \/ fetch'[QueryOf(s)] = fetch[QueryOf(s)]
    BY <1>a, <2>1
  <2>4. save'[s].state = "stored" => save'[s] = save[s]
    <3>1. PICK done : save' = [Settled(done) EXCEPT ![t] =
                         IF t \in done THEN NoSave ELSE [@ EXCEPT !.state = "refetch"]]
      BY <1>10 DEF Acknowledge
    <3>2. SaveShape
      BY DEF Shapes
    <3>3. Settled(done) \in
            [Setting -> [state : {"none", "sent", "stored", "refetch"}, value : Value]]
      BY <3>2, NoSaveType DEF SaveShape, Settled
    <3>4. Settled(done)[s] = NoSave \/ Settled(done)[s] = save[s]
      BY DEF Settled
    <3>5. CASE t = s
      <4>1. save'[s].state = "none" \/ save'[s].state = "refetch"
        BY <3>1, <3>3, <3>5, DefaultValue
      <4> QED
        BY <4>1
    <3>6. CASE t # s
      <4>1. save'[s] = Settled(done)[s]
        BY <3>1, <3>3, <3>6
      <4> QED
        BY <3>4, <4>1, DefaultValue
    <3> QED
      BY <3>5, <3>6
  <2>5. CASE t = s
    <3>1. fetch'[QueryOf(s)] = Asked
      BY <1>a, <2>1, <2>5, ReachesOwn
    <3>2. acked'[s] = save[s].value.write
      BY <2>2, <2>5 DEF Shapes, ReadShape
    <3> QED
      BY <1>a, <2>2, <2>4, <2>5, <3>1, <3>2, AskedShape DEF AckedOf
  <2>6. CASE t # s
    <3>1. acked'[s] = acked[s]
      BY <2>2, <2>6 DEF Shapes, ReadShape
    <3> QED
      BY <1>a, <2>2, <2>3, <2>4, <3>1, AskedShape DEF AckedOf
  <2> QED
    BY <2>5, <2>6
<1>11. ASSUME NEW t \in Setting, SaveFailed(t) PROVE AckedOf(s)'
  <2>1. save'[s] = save[s] \/ save'[s] = NoSave
    BY <1>11 DEF SaveFailed, Shapes, SaveShape
  <2> QED
    BY <1>a, <1>11, <2>1, DefaultValue DEF SaveFailed, AckedOf
<1>12. ASSUME NEW t \in Setting, OtherWrite(t) PROVE AckedOf(s)'
  <2> PICK on \in BOOLEAN : Store(t, NextValue(t, on))
    BY <1>12 DEF OtherWrite
  <2>1. stored'[s].write >= stored[s].write /\ stored'[s].write \in Nat
    BY StoredGrows
  <2>2. UNCHANGED <<shown, fetch, save, acked>>
    BY <1>12 DEF OtherWrite, page
  <2> QED
    BY <1>a, <2>1, <2>2, Numbers DEF AckedOf
<1>13. CASE Cycle \/ BotCall \/ BotRestart \/ UNCHANGED vars
  BY <1>a, <1>13 DEF Cycle, SyncFlag, SyncFailed, ProcessSignals, BotCall, BotRestart,
                     page, vars, AckedOf
<1> QED
  BY <1>1, <1>2, <1>3, <1>4, <1>5, <1>7, <1>8, <1>9, <1>10, <1>11, <1>12, <1>13 DEF Next

(* Read your writes: with nothing on its way, the page shows what this     *)
(* console saved last or something newer, whichever query answers when     *)
(* (the invalidations of the onSuccess handlers).                          *)
THEOREM ReadYourWrites == Spec => []ShownAtLeastAcked
<1>1. Init => AckedInv
  <2> SUFFICES ASSUME Init, NEW s \in Setting PROVE AckedOf(s)
    BY DEF AckedInv
  <2>1. fetch[QueryOf(s)].state = "idle"
    BY OwnQuery DEF Init
  <2> QED
    BY <2>1, DefaultValue DEF Init, AckedOf, Default
<1>2. AckedInv => ShownAtLeastAcked
  BY DEF AckedInv, AckedOf, ShownAtLeastAcked
<1> QED
  BY <1>1, <1>2, InitShapes, NextShapes, NextAckedInv, PTL DEF Spec

(***************************************************************************)
(* The pause.  The inductive invariant: a pass that has yet to begin under *)
(* a flag that is not set counts as begun.                                 *)
(***************************************************************************)
BotShape ==
    /\ bot \in [flag : BOOLEAN, pc : {"sync", "signals"}]
    /\ late \in [passes : Nat, excuses : Nat]
    /\ MaxUpsets \in Nat

PauseInv ==
    /\ BotShape
    /\ late.passes <= 1 + late.excuses
    /\ PausedInDb /\ bot.pc = "signals" /\ ~bot.flag => late.passes <= late.excuses

(* A write restarts the count if it changes the flag, and otherwise leaves *)
(* it alone.                                                               *)
LEMMA StoreKeepsPause ==
  ASSUME ReadShape, PauseInv, NEW s \in Setting, NEW on, Store(s, NextValue(s, on)),
         bot' = bot
  PROVE  PauseInv'
<1>1. late' = NotLate \/ (late' = late /\ (PausedInDb' => PausedInDb))
  <2>1. CASE s = "paused"
    <3>1. stored'[s].on = on
      BY DEF Store, ReadShape, NextValue
    <3> QED
      BY <2>1, <3>1 DEF Store, NextValue, PausedInDb
  <2>2. CASE s # "paused"
    <3>1. "paused" \in Setting => stored'["paused"] = stored["paused"]
      BY <2>2 DEF Store, ReadShape
    <3> QED
      BY <2>2, <3>1 DEF Store, PausedInDb
  <2> QED
    BY <2>1, <2>2
<1>2. NotLate \in [passes : Nat, excuses : Nat]
      /\ NotLate.passes = 0 /\ NotLate.excuses = 0
  BY DEF NotLate
<1>3. CASE late' = NotLate
  BY <1>2, <1>3 DEF PauseInv, BotShape
<1>4. CASE late' = late /\ (PausedInDb' => PausedInDb)
  BY <1>4 DEF PauseInv, BotShape
<1> QED
  BY <1>1, <1>3, <1>4

LEMMA PauseFrame ==
  ASSUME PauseInv, UNCHANGED <<stored, bot, late>> PROVE PauseInv'
BY DEF PauseInv, BotShape, PausedInDb

LEMMA NextPauseInv == Shapes /\ PauseInv /\ [Next]_vars => PauseInv'
<1> SUFFICES ASSUME Shapes, PauseInv, [Next]_vars PROVE PauseInv'
  OBVIOUS
<1>a. BotShape /\ ReadShape
  BY DEF PauseInv, Shapes
<1>1. ASSUME NEW q \in Queries, Poll(q) \/ Answer(q) \/ Receive(q) \/ FetchFailed(q)
      PROVE  PauseInv'
  BY <1>1, PauseFrame DEF Poll, Answer, Receive, FetchFailed, executor
<1>2. ASSUME NEW s \in Form, OpenForm(s) \/ TypeValue(s) \/ CloseForm(s) \/ SaveForm(s)
      PROVE  PauseInv'
  BY <1>2, PauseFrame DEF OpenForm, TypeValue, CloseForm, SaveForm, executor
<1>3. CASE Toggle
  BY <1>3, PauseFrame DEF Toggle, executor
<1>4. ASSUME NEW s \in Setting, Acknowledge(s) \/ SaveFailed(s) PROVE PauseInv'
  BY <1>4, PauseFrame DEF Acknowledge, SaveFailed, executor
<1>5. ASSUME NEW s \in Setting, Apply(s) PROVE PauseInv'
  BY <1>5, <1>a, StoreKeepsPause DEF Apply
<1>6. ASSUME NEW s \in Setting, OtherWrite(s) PROVE PauseInv'
  BY <1>6, <1>a, StoreKeepsPause DEF OtherWrite
<1>7. CASE SyncFlag
  <2>1. bot'.flag = PausedInDb /\ late' = late /\ stored' = stored
        /\ bot' \in [flag : BOOLEAN, pc : {"sync", "signals"}]
    <3>1. PausedInDb \in BOOLEAN
      BY <1>a DEF PausedInDb, ReadShape, Value
    <3> QED
      BY <1>7, <3>1 DEF SyncFlag
  <2> QED
    BY <2>1 DEF PauseInv, BotShape, PausedInDb
<1>8. ASSUME Excused, stored' = stored,
             bot' \in [flag : BOOLEAN, pc : {"sync", "signals"}]
      PROVE  PauseInv'
  <2>1. CASE PausedInDb
    <3>1. late' = [late EXCEPT !.excuses = @ + 1]
      BY <1>8, <2>1 DEF Excused
    <3>2. late' \in [passes : Nat, excuses : Nat]
          /\ late'.passes = late.passes /\ late'.excuses = late.excuses + 1
      BY <3>1, <1>a DEF BotShape
    <3>3. late.passes \in Nat /\ late.excuses \in Nat /\ late.passes <= 1 + late.excuses
      BY <1>a DEF PauseInv, BotShape
    <3> QED
      BY <1>8, <1>a, <3>2, <3>3 DEF PauseInv, BotShape
  <2>2. CASE ~PausedInDb
    <3>1. late' = late /\ ~PausedInDb'
      BY <1>8, <2>2 DEF Excused, PausedInDb
    <3> QED
      BY <1>8, <3>1 DEF PauseInv, BotShape
  <2> QED
    BY <2>1, <2>2
<1>9. CASE SyncFailed
  BY <1>8, <1>9, <1>a DEF SyncFailed, BotShape, page
<1>10. CASE BotCall
  BY <1>8, <1>10, <1>a DEF BotCall, BotShape, page
<1>11. CASE ProcessSignals
  <2>1. bot' \in [flag : BOOLEAN, pc : {"sync", "signals"}] /\ bot'.pc = "sync"
        /\ stored' = stored /\ bot.pc = "signals"
    BY <1>11, <1>a DEF ProcessSignals, BotShape
  <2>2. CASE late' = late
    BY <2>1, <2>2 DEF PauseInv, BotShape
  <2>3. CASE late' # late
    <3>1. ~bot.flag /\ PausedInDb /\ late' = [late EXCEPT !.passes = @ + 1]
      BY <1>11, <2>3 DEF ProcessSignals
    <3>2. late' \in [passes : Nat, excuses : Nat]
          /\ late'.passes = late.passes + 1 /\ late'.excuses = late.excuses
      BY <3>1, <1>a DEF BotShape
    <3>3. late.passes \in Nat /\ late.excuses \in Nat /\ late.passes <= late.excuses
      BY <1>a, <2>1, <3>1 DEF PauseInv, BotShape
    <3> QED
      BY <1>a, <2>1, <3>2, <3>3 DEF PauseInv, BotShape
  <2> QED
    BY <2>2, <2>3
<1>12. CASE BotRestart
  BY <1>12 DEF BotRestart, PauseInv, BotShape, PausedInDb, page
<1>13. CASE UNCHANGED vars
  BY <1>13, PauseFrame DEF vars
<1> QED
  BY <1>1, <1>2, <1>3, <1>4, <1>5, <1>6, <1>7, <1>9, <1>10, <1>11, <1>12, <1>13
     DEF Next, Cycle

(* After a pause is stored at most one more pass over the signals begins,  *)
(* and one more for every failed read of the flag and every call on the    *)
(* bot, whatever else is written meanwhile (Executor's loop).              *)
THEOREM PauseTakesEffect == Spec => []PauseWithinOneCycle
<1>1. Init => PauseInv
  <2> SUFFICES ASSUME Init PROVE PauseInv
    OBVIOUS
  <2>1. BotShape
    BY BoundAssumption DEF Init, BotShape, NotLate
  <2>2. late.passes = 0 /\ late.excuses = 0
    BY DEF Init, NotLate
  <2> QED
    BY <2>1, <2>2 DEF PauseInv
<1>2. PauseInv => PauseWithinOneCycle
  BY DEF PauseInv, PauseWithinOneCycle
<1> QED
  BY <1>1, <1>2, InitShapes, NextShapes, NextPauseInv, PTL DEF Spec

(***************************************************************************)
(* The forms.                                                              *)
(***************************************************************************)
FormShape == form \in [Form -> {"closed", "fresh", "typed", "saving"}]

LEMMA ClosedShape ==
  ASSUME NEW done, NEW forms, NEW s \in Form
  PROVE  Closed(done, forms)[s] = "closed" \/ Closed(done, forms)[s] = forms[s]
BY DEF Closed

LEMMA NextFormShape == FormShape /\ [Next]_vars => FormShape'
<1> SUFFICES ASSUME FormShape, [Next]_vars PROVE FormShape'
  OBVIOUS
<1>1. CASE UNCHANGED form
  BY <1>1 DEF FormShape
<1>2. ASSUME NEW q \in Queries, Receive(q) PROVE FormShape'
  BY <1>2 DEF Receive, Closed, Refilled, FormShape
<1>3. ASSUME NEW q \in Queries, FetchFailed(q) PROVE FormShape'
  BY <1>3 DEF FetchFailed, Closed, FormShape
<1>4. ASSUME NEW s \in Form, OpenForm(s) \/ TypeValue(s) \/ CloseForm(s) \/ SaveForm(s)
      PROVE  FormShape'
  BY <1>4 DEF OpenForm, TypeValue, CloseForm, SaveForm, FormShape
<1>5. ASSUME NEW s \in Setting, Acknowledge(s) PROVE FormShape'
  <2> PICK done : form' = Closed(done, form)
    BY <1>5 DEF Acknowledge
  <2> QED
    BY DEF Closed, FormShape
<1>6. ASSUME NEW s \in Setting, SaveFailed(s) PROVE FormShape'
  BY <1>6 DEF SaveFailed, Closed, FormShape
<1> QED
  BY <1>1, <1>2, <1>3, <1>4, <1>5, <1>6
     DEF Next, Poll, Answer, Toggle, Apply, OtherWrite, Cycle, SyncFlag, SyncFailed,
         ProcessSignals, BotCall, BotRestart, page, vars

KeepsTyping ==
    \A s \in Form : form[s] = "typed" /\ form'[s] = "fresh" => shown'[s] # shown[s]

(* What is typed into a form is lost to a poll only if the poll brings     *)
(* another value (the effects on [editing, value] in Execution).           *)
THEOREM TypingKept == Spec => PollKeepsTyping
<1>1. FormShape /\ Shapes /\ [Next]_vars => [KeepsTyping]_vars
  <2> SUFFICES ASSUME FormShape, Shapes, [Next]_vars, NEW s \in Form,
                      form[s] = "typed", form'[s] = "fresh"
               PROVE  shown'[s] # shown[s]
    BY DEF KeepsTyping
  <2>1. ASSUME NEW q \in Queries, Receive(q) PROVE shown'[s] # shown[s]
    <3>1. Refilled(q, fetch[q].data)[s] = "fresh"
      BY <2>1, ClosedShape DEF Receive
    <3>2. s \in Carried(q) /\ fetch[q].data[s] # shown[s]
      BY <3>1 DEF Refilled
    <3>3. shown'[s] = fetch[q].data[s]
      BY <2>1, <3>2 DEF Receive, Carried
    <3> QED
      BY <3>2, <3>3
  <2>2. ASSUME NEW q \in Queries, FetchFailed(q) PROVE FALSE
    BY <2>2, ClosedShape DEF FetchFailed
  <2>3. ASSUME NEW f \in Form, OpenForm(f) \/ TypeValue(f) \/ CloseForm(f) \/ SaveForm(f)
        PROVE  FALSE
    BY <2>3 DEF OpenForm, TypeValue, CloseForm, SaveForm, FormShape
  <2>4. ASSUME NEW t \in Setting, Acknowledge(t) PROVE FALSE
    <3> PICK done : form' = Closed(done, form)
      BY <2>4 DEF Acknowledge
    <3> QED
      BY ClosedShape
  <2>5. ASSUME NEW t \in Setting, SaveFailed(t) PROVE FALSE
    BY <2>5, ClosedShape DEF SaveFailed
  <2>6. ASSUME UNCHANGED form PROVE FALSE
    BY <2>6
  <2> QED
    BY <2>1, <2>2, <2>3, <2>4, <2>5, <2>6
       DEF Next, Poll, Answer, Toggle, Apply, OtherWrite, Cycle, SyncFlag, SyncFailed,
           ProcessSignals, BotCall, BotRestart, page, vars
<1>2. Init => FormShape
  BY DEF Init, FormShape
<1>3. KeepsTyping => \A s \in Form : form[s] = "typed" /\ form'[s] = "fresh"
                                     => shown'[s] # shown[s]
  BY DEF KeepsTyping
<1> QED
  BY <1>1, <1>2, InitShapes, NextShapes, NextFormShape, PTL
     DEF Spec, PollKeepsTyping, KeepsTyping

(* Every variable keeps its type, for any settings and any bounds.         *)
THEOREM TypeSafety == Spec => []TypeOK
<1>1. Init => PauseInv
  <2> SUFFICES ASSUME Init PROVE PauseInv
    OBVIOUS
  <2>1. BotShape /\ late.passes = 0 /\ late.excuses = 0
    BY BoundAssumption DEF Init, BotShape, NotLate
  <2> QED
    BY <2>1 DEF PauseInv
<1>2. Init => FormShape
  BY DEF Init, FormShape
<1>3. Shapes /\ PauseInv /\ FormShape => TypeOK
  BY DEF Shapes, FetchShape, SaveShape, ReadShape, PauseInv, BotShape, FormShape, TypeOK
<1> QED
  BY <1>1, <1>2, <1>3, InitShapes, NextShapes, NextPauseInv, NextFormShape, PTL DEF Spec
=============================================================================
