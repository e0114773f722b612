------------------------ MODULE LokiBatchRefinement ------------------------
(***************************************************************************)
(* LokiBatch implements AlertStore, for every value of the constants: with *)
(* the log and without, in batches or not, whatever fails.  A step maps to *)
(* what it does to the requests, to the outcomes and to the records of the *)
(* pipeline as a whole; where in the pipeline a record is plays no part.   *)
(***************************************************************************)
EXTENDS LokiBatchProofs

\* What AlertStore calls owed.
Owed(e) == Unresolved(e) /\ outcomes[e] = <<>>

LEMMA InitRefines == Init => Store!Init
<1> SUFFICES ASSUME Init PROVE Store!Init
  OBVIOUS
<1>1. /\ result = [e \in Entries |-> "idle"] /\ stored = {}
      /\ outcomes = [e \in Entries |-> <<>>]
  BY DEF Init
<1>2. Pipeline = {}
  BY RangeEmpty DEF Init, Pipeline, Flushing
<1>3. ASSUME NEW e \in Entries
      PROVE  /\ result[e] = "idle" /\ outcomes[e] = <<>>
             /\ Told(e) = "none" /\ OutcomeOf(e) = "none" /\ ~Unresolved(e)
  <2>1. result[e] = "idle" /\ outcomes[e] = <<>>
    BY <1>1
  <2>2. ~Unresolved(e)
    BY <1>2, <2>1 DEF Unresolved, EntriesOf, Open
  <2>3. Told(e) = "none"
    BY <2>1 DEF Told, Open
  <2>4. OutcomeOf(e) = "none"
    BY <2>1, RangeEmpty DEF OutcomeOf, Recorded
  <2> QED
    BY <2>1, <2>2, <2>3, <2>4
<1> QED
  BY <1>1, <1>3 DEF Store!Init

\* The outcomes of AlertStore are those of the code, without their reasons.
LEMMA OutcomesAsCounted ==
    ASSUME NEW v \in Outcomes
    PROVE  "saved" \in Range(v) <=> v = <<"saved">>
<1>1. Range(<<>>) = {} /\ \A o : Range(<<o>>) = {o}
  BY DEF Range
<1>2. ASSUME NEW u, v = <<u>>
      PROVE  "saved" \in Range(v) <=> v = <<"saved">>
  <2>1. <<u>> = <<"saved">> <=> u = "saved"
    OBVIOUS
  <2> QED
    BY <1>1, <1>2, <2>1
<1> QED
  BY <1>1, <1>2, OutcomeValues DEF Outcomes

\* A step that changes no request, outcome or entry of the pipeline is none for
\* AlertStore.
LEMMA StutterMaps ==
    ASSUME UNCHANGED <<result, outcomes, stored>>,
           \A e \in Entries : Owed(e)' <=> Owed(e)
    PROVE  UNCHANGED Store!vars
  BY DEF Store!vars, Told, OutcomeOf, Recorded, Owed

\* Entries that are owed get an outcome; those of them that wait get an answer.
LEMMA SettledMaps ==
    ASSUME Shape, NEW S \in SUBSET Entries,
           NEW o \in {"refused", "full", "saved", "failed", "aborted"},
           NEW part \in SUBSET S,
           RecordOutcome(S, o),
           \A e \in S : Owed(e),
           \A e \in Entries \ S : Unresolved(e)' <=> Unresolved(e),
           \A e \in Entries : Told(e)' = IF e \in S /\ Told(e) = "open"
                                         THEN IF o = "saved" THEN "ok" ELSE "error"
                                         ELSE Told(e),
           stored' = stored \cup part,
           o = "saved" => part = S
    PROVE  Store!Next
<1>1. /\ outcomes' \in [Entries -> Outcomes] /\ outcomes \in [Entries -> Outcomes]
      /\ \A e \in Entries : outcomes'[e] = IF e \in S THEN <<o>> ELSE outcomes[e]
  BY OutcomeEffect DEF Owed, Shape
<1>2. \A e \in Entries : OutcomeOf(e)' = IF e \in S
                                         THEN IF o = "saved" THEN "saved" ELSE "failed"
                                         ELSE OutcomeOf(e)
  <2>1. <<o>> # <<>> /\ <<o>> \in Outcomes /\ (<<o>> = <<"saved">> <=> o = "saved")
    BY OutcomeValues DEF Outcomes
  <2>2. \A e \in Entries : /\ "saved" \in Range(outcomes[e]) <=> outcomes[e] = <<"saved">>
                           /\ "saved" \in Range(outcomes'[e]) <=> outcomes'[e] = <<"saved">>
    BY <1>1, OutcomesAsCounted
  <2>3. ASSUME NEW e \in S
        PROVE  OutcomeOf(e)' = IF o = "saved" THEN "saved" ELSE "failed"
    BY <1>1, <2>1, <2>2, <2>3 DEF OutcomeOf, Recorded
  <2>4. ASSUME NEW e \in Entries \ S
        PROVE  OutcomeOf(e)' = OutcomeOf(e)
    BY <1>1, <2>4 DEF OutcomeOf, Recorded
  <2> QED
    BY <2>3, <2>4
<1>3. \A e \in Entries : Owed(e)' <=> Owed(e) /\ e \notin S
  BY <1>1, OutcomeValues DEF Owed
<1>4. {e \in Entries : Owed(e)}' = {e \in Entries : Owed(e)} \ S
      /\ S \subseteq {e \in Entries : Owed(e)}
  BY <1>3
<1>5. CASE o = "saved"
  <2>1. Store!Saved(S)
    BY <1>2, <1>4, <1>5 DEF Owed, Store!Saved, Store!Count, Store!Answer
  <2> QED
    BY <2>1 DEF Store!Next
<1>6. CASE o # "saved"
  <2>1. Store!Count(S, "failed") /\ Store!Answer(S, "error")
    BY <1>2, <1>6 DEF Store!Count, Store!Answer
  <2>2. Store!Failed(S)
    BY <1>4, <2>1 DEF Owed, Store!Failed
  <2> QED
    BY <2>2 DEF Store!Next
<1> QED
  BY <1>5, <1>6

\* What AlertStore calls the answer of a request, by its result.
Answers(e) ==
    /\ result[e] = "idle" => Told(e) = "none"
    /\ result[e] \in Open => Told(e) = "open"
    /\ result[e] \in {"refused", "cancelled", "cancelledBefore", "full", "failed"} =>
          Told(e) = "error"
    /\ result[e] \in {"ok", "okBefore", "lost"} => Told(e) = result[e]
    /\ result[e] \in Results /\ result[e] \notin Open => Told(e) # "open"

LEMMA ToldIs == ASSUME NEW e \in Entries PROVE Answers(e) /\ Answers(e)'
<1>1. Answers(e)
  BY DEF Answers, Told, Open, Results
<1>2. Answers(e)'
  BY DEF Answers, Told, Open, Results
<1> QED
  BY <1>1, <1>2

\* The end of a process, whichever way it ends.
LEMMA GoneMaps == IInv /\ NoProcessNext => Store!End
<1> SUFFICES ASSUME IInv, NoProcessNext PROVE Store!End
  OBVIOUS
<1>1. Pipeline' = {} /\ stored' = stored
  BY RangeEmpty DEF NoProcessNext, Pipeline, Flushing
<1>2. ASSUME NEW e \in Entries
      PROVE  /\ outcomes'[e] = <<>>
             /\ result[e] \in Results /\ result'[e] \notin Open
             /\ result[e] \in Open => result'[e] = "lost"
             /\ result[e] = "ok" => result'[e] = "okBefore"
             /\ result[e] = "cancelled" => result'[e] = "cancelledBefore"
             /\ result[e] \notin Open \cup {"ok", "cancelled"} => result'[e] = result[e]
  BY DEF NoProcessNext, IInv, Shape, Open
<1>3. ASSUME NEW e \in Entries
      PROVE  Told(e)' = CASE Told(e) = "open" -> "lost"
                          [] Told(e) = "ok" -> "okBefore"
                          [] OTHER -> Told(e)
  <2>1. CASE result[e] \in Open
    BY <1>2, <2>1, ToldIs DEF Answers
  <2>2. CASE result[e] = "ok"
    BY <1>2, <2>2, ToldIs DEF Answers
  <2>3. CASE result[e] = "cancelled"
    BY <1>2, <2>3, ToldIs DEF Answers
  <2>4. CASE result[e] \notin Open \cup {"ok", "cancelled"}
    <3>1. Told(e)' = Told(e)
      BY <1>2, <2>4 DEF Told
    <3>2. Told(e) \notin {"open", "ok"}
      BY <1>2, <2>4, ToldIs DEF Answers, Results
    <3> QED
      BY <3>1, <3>2
  <2> QED
    BY <2>1, <2>2, <2>3, <2>4
<1>4. \A e \in Entries : ~Unresolved(e)' /\ OutcomeOf(e)' = "none"
  <2>1. ASSUME NEW e \in Entries PROVE ~Unresolved(e)'
    BY <1>1, <1>2 DEF Unresolved, EntriesOf
  <2>2. ASSUME NEW e \in Entries PROVE OutcomeOf(e)' = "none"
    BY <1>2, RangeEmpty DEF OutcomeOf, Recorded
  <2> QED
    BY <2>1, <2>2
<1> QED
  BY <1>1, <1>3, <1>4 DEF Store!End

LEMMA MainMaps == IInv /\ Main => Store!Next \/ UNCHANGED Store!vars
<1> SUFFICES ASSUME IInv, Main PROVE Store!Next \/ UNCHANGED Store!vars
  OBVIOUS
<1>1. CASE Exit
  BY <1>1, GoneMaps DEF Exit, Store!Next
<1>2. CASE Start \/ Ping \/ Signal \/ Deadline \/ BeginStop \/ Drained \/ OutOfTime
  <2>1. UNCHANGED <<offers, lastOffers, replayLeft, in, batch, flushCh, flBatch, result,
                    outcomes, stored>>
    BY <1>2 DEF Start, Ping, Signal, Deadline, BeginStop, Drained, OutOfTime, FinishStop,
       reqVars, accVars, flVars
  <2>2. \A e \in Entries : Owed(e)' <=> Owed(e)
    BY <2>1, SamePlaces DEF Owed, Unresolved
  <2> QED
    BY <2>1, <2>2, StutterMaps
<1>3. CASE Replay
  <2>1. /\ UNCHANGED <<offers, lastOffers, in, batch, flushCh, flBatch, result, outcomes, stored>>
        /\ phase = "opening" /\ replayLeft' \in InSeqOrder(pending)
        /\ pending \subseteq log /\ log \subseteq Rec /\ IsFiniteSet(log)
    BY <1>3 DEF Replay, reqVars, accVars, flVars, IInv, Shape, NothingBeforeReplay
  <2>2. Range(replayLeft') = pending
    <3>1. IsFiniteSet(pending) /\ pending \in SUBSET Rec
      BY <2>1, FS_Subset
    <3> QED
      BY <2>1, <3>1, InSeqOrderRange
  <2>3. Pipeline = {} /\ Pipeline' = pending
    BY <2>1, <2>2, RangeEmpty DEF IInv, NothingBeforeReplay, NoRecords, Pipeline, Flushing
  <2>0. EntriesOf(pending) \in SUBSET Entries
    BY <2>1 DEF EntriesOf, Rec
  <2> PICK S \in SUBSET Entries : S = EntriesOf(pending)
    BY <2>0
  <2>4. /\ \A e \in S : result[e] \in Earlier /\ outcomes[e] = <<>>
    BY <2>1 DEF IInv, NothingBeforeReplay, ResultsFit, EntriesOf, Rec
  <2>5. \A e \in Entries : Unresolved(e)' <=> Unresolved(e) \/ e \in S
    BY <2>1, <2>3 DEF Unresolved, EntriesOf
  <2>6. CASE pending = {}
    <3>1. \A e \in Entries : Owed(e)' <=> Owed(e)
      BY <2>1, <2>5, <2>6 DEF Owed, EntriesOf
    <3> QED
      BY <2>1, <3>1, StutterMaps
  <2>7. CASE pending # {}
    <3>1. UseWAL
      BY <2>1, <2>7 DEF IInv, ModesApart
    <3>2. \A e \in S : Told(e) \in {"okBefore", "error", "lost"}
      BY <2>4, ToldIs DEF Answers, Earlier, Results, Open
    <3>3. UNCHANGED <<[e \in Entries |-> Told(e)], [e \in Entries |-> OutcomeOf(e)], stored>>
      BY <2>1 DEF Told, OutcomeOf, Recorded
    <3>4. {e \in Entries : Owed(e)}' = {e \in Entries : Owed(e)} \cup S
      BY <2>1, <2>4, <2>5 DEF Owed
    <3>5. S \subseteq Store!Recoverable
      BY <2>4, <3>2 DEF Store!Recoverable
    <3>6. Store!Recover(S)
      BY <3>1, <3>3, <3>4, <3>5 DEF Store!Recover, Owed
    <3> QED
      BY <3>6 DEF Store!Next
  <2> QED
    BY <2>6, <2>7
<1> QED
  BY <1>1, <1>2, <1>3 DEF Main

\* A request outside the pipeline, but for its append.
LEMMA RequestMaps ==
    ASSUME IInv, NEW e \in Entries, Arrive(e) \/ LogRefused(e) \/ Direct(e)
    PROVE  Store!Next \/ UNCHANGED Store!vars
<1> USE DEF IInv
<1>1. UNCHANGED <<offers, lastOffers, replayLeft, in, batch, flushCh, flBatch>>
      /\ result[e] \in {"idle", "arrived", "pushing"} /\ outcomes[e] = <<>>
  BY DEF Arrive, LogRefused, Direct, ConvertFails, Push, Pushed, PushFails, reqVars,
     accVars, flVars, OutcomesFit, Open
<1>2. PICK told : result' = [result EXCEPT ![e] = told]
  BY DEF Arrive, LogRefused, Direct, ConvertFails, Push, Pushed, PushFails
<1>3. /\ result'[e] = told
      /\ \A x \in Entries \ {e} : /\ result'[x] = result[x] /\ Told(x)' = Told(x)
                                  /\ Unresolved(x)' <=> Unresolved(x)
  <2>1. result'[e] = told /\ \A x \in Entries \ {e} : result'[x] = result[x]
    BY <1>2 DEF Shape
  <2> QED
    BY <1>1, <2>1, SamePlaces DEF Told, Unresolved
<1>4. CASE Arrive(e)
  <2>1. result[e] = "idle" /\ told = "arrived" /\ UNCHANGED <<outcomes, stored>>
    BY <1>3, <1>4 DEF Arrive, Shape
  <2>2. Told(e) = "none" /\ Told(e)' = "open" /\ Owed(e)'
    BY <1>1, <1>3, <2>1, ToldIs DEF Answers, Open, Owed, Unresolved
  <2>3. [x \in Entries |-> Told(x)]' = [[x \in Entries |-> Told(x)] EXCEPT ![e] = "open"]
    BY <1>3, <2>2
  <2>4. {x \in Entries : Owed(x)}' = {x \in Entries : Owed(x)} \cup {e}
    <3>1. \A x \in Entries : Owed(x)' <=> Owed(x) \/ x = e
      BY <1>3, <2>1, <2>2 DEF Owed
    <3> QED
      BY <3>1
  <2>5. [x \in Entries |-> OutcomeOf(x)]' = [x \in Entries |-> OutcomeOf(x)]
    BY <2>1 DEF OutcomeOf, Recorded
  <2>6. Store!Call(e)
    BY <2>1, <2>2, <2>3, <2>4, <2>5 DEF Store!Call, Owed
  <2> QED
    BY <2>6 DEF Store!Next
<1>5. CASE Push(e)
  <2>1. told = "pushing" /\ result[e] = "arrived" /\ outcomes' = outcomes
        /\ stored' \in {stored, stored \cup {e}}
    BY <1>3, <1>5 DEF Push, Shape
  <2>2. /\ \A x \in Entries : Told(x)' = Told(x) /\ (Owed(x)' <=> Owed(x))
        /\ Owed(e)
    BY <1>1, <1>3, <2>1, ToldIs DEF Answers, Open, Owed, Unresolved
  <2>3. /\ [x \in Entries |-> Told(x)]' = [x \in Entries |-> Told(x)]
        /\ {x \in Entries : Owed(x)}' = {x \in Entries : Owed(x)}
        /\ [x \in Entries |-> OutcomeOf(x)]' = [x \in Entries |-> OutcomeOf(x)]
    BY <2>1, <2>2 DEF OutcomeOf, Recorded
  <2>4. CASE stored' = stored
    BY <2>3, <2>4 DEF Store!vars, Owed
  <2>5. CASE stored' = stored \cup {e}
    <3>1. Store!Store({e})
      BY <2>2, <2>3, <2>5 DEF Store!Store, Owed
    <3> QED
      BY <3>1 DEF Store!Next
  <2> QED
    BY <2>1, <2>4, <2>5
<1>6. ASSUME LogRefused(e) \/ ConvertFails(e) \/ Pushed(e) \/ PushFails(e)
      PROVE  Store!Next
  <2>1. PICK o \in {"refused", "failed", "saved"}, part \in SUBSET {e} :
            /\ RecordOutcome({e}, o) /\ stored' = stored \cup part
            /\ o = "saved" => part = {e}
            /\ told = IF o = "saved" THEN "ok" ELSE o
            /\ result[e] \in {"arrived", "pushing"}
    <3>1. CASE LogRefused(e)
      <4>1. stored' = stored \cup {}
        BY <3>1 DEF LogRefused
      <4> QED
        BY <1>3, <3>1, <4>1 DEF LogRefused, Shape
    <3>2. CASE ConvertFails(e)
      <4>1. stored' = stored \cup {}
        BY <3>2 DEF ConvertFails
      <4> QED
        BY <1>3, <3>2, <4>1 DEF ConvertFails, Shape
    <3>3. CASE Pushed(e)
      BY <1>3, <3>3 DEF Pushed, Shape
    <3>4. CASE PushFails(e)
      <4>1. \E part \in SUBSET {e} : stored' = stored \cup part
        <5>1. stored = stored \cup {}
          OBVIOUS
        <5> QED
          BY <3>4, <5>1 DEF PushFails
      <4> QED
        BY <1>3, <3>4, <4>1 DEF PushFails, Shape
    <3> QED
      BY <1>6, <3>1, <3>2, <3>3, <3>4
  <2>2. /\ Told(e) = "open" /\ Owed(e)
        /\ Told(e)' = IF o = "saved" THEN "ok" ELSE "error"
    BY <1>1, <1>3, <2>1, ToldIs DEF Answers, Open, Owed, Unresolved
  <2>3. \A x \in Entries : Told(x)' = IF x \in {e} /\ Told(x) = "open"
                                      THEN IF o = "saved" THEN "ok" ELSE "error"
                                      ELSE Told(x)
    BY <1>3, <2>2
  <2>4. {e} \in SUBSET Entries /\ (\A x \in {e} : Owed(x))
        /\ (\A x \in Entries \ {e} : Unresolved(x)' <=> Unresolved(x))
    BY <1>3, <2>2
  <2> QED
    BY <2>1, <2>3, <2>4, SettledMaps
<1> QED
  BY <1>4, <1>5, <1>6 DEF Direct

\* The entry stays open, and has a record from here on.
LEMMA LogMaps == ASSUME IInv, NEW e \in Entries, Log(e) PROVE UNCHANGED Store!vars
<1>1. /\ result[e] = "arrived" /\ result' = [result EXCEPT ![e] = "saving"]
      /\ UNCHANGED <<lastOffers, replayLeft, in, batch, flushCh, flBatch, outcomes, stored>>
  BY DEF Log, accVars, flVars
<1> DEFINE r == [seq |-> IF UseWAL THEN seq + 1 ELSE 0, entry |-> e]
<1>2. r.entry = e /\ offers' = offers \cup {r}
  BY DEF Log
<1> HIDE DEF r
<1>3. Pipeline' = Pipeline \cup {r}
  BY <1>1, <1>2 DEF Pipeline, Flushing
<1>4. /\ result'[e] = "saving"
      /\ \A x \in Entries \ {e} : result'[x] = result[x]
  BY <1>1 DEF IInv, Shape
<1>5. ASSUME NEW x \in Entries
      PROVE  Told(x)' = Told(x) /\ (Owed(x)' <=> Owed(x)) /\ OutcomeOf(x)' = OutcomeOf(x)
  <2>1. CASE x = e
    BY <1>1, <1>4, <2>1, ToldIs DEF Answers, Open, Owed, Unresolved, OutcomeOf, Recorded
  <2>2. CASE x # e
    <3>1. x \in EntriesOf(Pipeline)' <=> x \in EntriesOf(Pipeline)
      BY <1>2, <1>3, <2>2 DEF EntriesOf
    <3> QED
      BY <1>1, <1>4, <2>2, <3>1 DEF Told, Owed, Unresolved, OutcomeOf, Recorded
  <2> QED
    BY <2>1, <2>2
<1>6. {x \in Entries : Owed(x)}' = {x \in Entries : Owed(x)}
  BY <1>5
<1> QED
  BY <1>1, <1>5, <1>6 DEF Store!vars, Owed

\* A request with a record: it is queued, waits, gives up or is dropped.
LEMMA OfferMaps ==
    ASSUME IInv, NEW r \in offers \cup lastOffers, Offer(r)
    PROVE  Store!Next \/ UNCHANGED Store!vars
<1> DEFINE e == r.entry
<1>1. /\ e \in Entries /\ r \in Pipeline /\ result[e] = "saving" /\ outcomes[e] = <<>>
      /\ r \notin Range(replayLeft) \cup Range(in) \cup Range(batch) \cup Flushing
      /\ \A h \in Pipeline : h.entry = e => h = r
      /\ r \in Rec /\ result \in [Entries -> Results]
  BY OfferedAlone DEF Rec, IInv, Shape
<1> HIDE DEF e
<1>2. Told(e) = "open" /\ Owed(e)
  BY <1>1, ToldIs DEF Answers, Open, Owed, Unresolved
<1>3. ASSUME NEW told, result' = [result EXCEPT ![e] = told],
             \A h \in Pipeline : h = r \/ h \in Pipeline', Pipeline' \subseteq Pipeline
      PROVE  /\ result'[e] = told
             /\ \A x \in Entries \ {e} : /\ result'[x] = result[x] /\ Told(x)' = Told(x)
                                         /\ Unresolved(x)' <=> Unresolved(x)
  <2>1. result'[e] = told /\ \A x \in Entries \ {e} : result'[x] = result[x]
    BY <1>1, <1>3
  <2>2. \A x \in Entries \ {e} : x \in EntriesOf(Pipeline') <=> x \in EntriesOf(Pipeline)
    BY <1>3 DEF EntriesOf, e
  <2> QED
    BY <2>1, <2>2 DEF Told, Unresolved
<1>4. CASE WaitedLong(r)
  <2>1. Pipeline' = Pipeline /\ UNCHANGED <<result, outcomes, stored>>
    BY <1>4 DEF WaitedLong, Pipeline, Flushing, accVars, flVars
  <2> QED
    BY <2>1, StutterMaps DEF Owed, Unresolved
<1>5. CASE Enqueued(r)
  <2>1. /\ UNCHANGED <<outcomes, stored>> /\ result' = [result EXCEPT ![e] = "ok"]
        /\ in' = Append(in, r)
        /\ offers' = offers \ {r} /\ lastOffers' = lastOffers \ {r}
        /\ UNCHANGED <<replayLeft, batch, flushCh, flBatch>>
    BY <1>5 DEF Enqueued, accVars, flVars, e
  <2>2. Range(in') = Range(in) \cup {r}
    BY <1>1, <2>1, RangeAppend DEF IInv, Shape
  <2>3. Pipeline' = Pipeline
    BY <2>1, <2>2 DEF Pipeline, Flushing
  <2>4. /\ Told(e)' = "ok" /\ Owed(e)'
        /\ \A x \in Entries \ {e} : Told(x)' = Told(x) /\ (Owed(x)' <=> Owed(x))
    <3>1. result'[e] = "ok"
      BY <1>1, <2>1
    <3>2. Told(e)' = "ok"
      BY <1>1, <3>1, ToldIs DEF Answers
    <3>3. Owed(e)'
      BY <1>1, <2>1, <2>3 DEF Owed, Unresolved, EntriesOf, e
    <3> QED
      BY <1>3, <2>1, <2>3, <3>2, <3>3 DEF Owed
  <2>5. {x \in Entries : Owed(x)}' = {x \in Entries : Owed(x)}
    BY <1>2, <2>4
  <2>6. [x \in Entries |-> OutcomeOf(x)]' = [x \in Entries |-> OutcomeOf(x)]
    BY <2>1 DEF OutcomeOf, Recorded
  <2> PICK c \in Entries : c = e
    BY <1>1
  <2>7. Store!Answer({c}, "ok")
    BY <1>2, <2>4 DEF Store!Answer
  <2>8. Store!Accept(c)
    BY <1>2, <2>1, <2>5, <2>6, <2>7 DEF Store!Accept, Owed
  <2> QED
    BY <2>8 DEF Store!Next
<1>6. ASSUME SaveTimedOut(r) \/ QueueFull(r)
      PROVE  /\ Pipeline' = Pipeline \ {r}
             /\ e \notin EntriesOf(Pipeline')
  <2>1. /\ UNCHANGED <<replayLeft, in, batch, flushCh, flBatch>>
        /\ offers' \cup lastOffers' = (offers \cup lastOffers) \ {r}
    <3>1. offers \cap lastOffers = {}
      BY DEF IInv, OnePlace
    <3> QED
      BY <1>6, <3>1 DEF SaveTimedOut, QueueFull, accVars, flVars
  <2>2. Pipeline' = Pipeline \ {r}
    BY <1>1, <2>1 DEF Pipeline, Flushing
  <2> QED
    BY <1>1, <2>2 DEF EntriesOf
<1>7. CASE SaveTimedOut(r)
  <2>1. UNCHANGED <<outcomes, stored>> /\ result' = [result EXCEPT ![e] = "cancelled"]
    BY <1>7 DEF SaveTimedOut, e
  <2>2. /\ Told(e)' = "error" /\ ~Owed(e)'
        /\ \A x \in Entries \ {e} : Told(x)' = Told(x) /\ (Owed(x)' <=> Owed(x))
    <3>1. result'[e] = "cancelled"
      BY <1>1, <2>1
    <3>2. Told(e)' = "error"
      BY <1>1, <3>1, ToldIs DEF Answers
    <3>3. ~Owed(e)'
      BY <1>6, <1>7, <3>1 DEF Owed, Unresolved, Open
    <3> QED
      BY <1>3, <1>6, <1>7, <2>1, <3>2, <3>3 DEF Owed
  <2>3. {x \in Entries : Owed(x)}' = {x \in Entries : Owed(x)} \ {e}
    BY <2>2
  <2>4. [x \in Entries |-> OutcomeOf(x)]' = [x \in Entries |-> OutcomeOf(x)]
    BY <2>1 DEF OutcomeOf, Recorded
  <2> PICK c \in Entries : c = e
    BY <1>1
  <2>5. Store!Answer({c}, "error")
    BY <1>2, <2>2 DEF Store!Answer
  <2>6. Store!GiveUp(c)
    BY <1>2, <2>1, <2>3, <2>4, <2>5 DEF Store!GiveUp, Owed
  <2> QED
    BY <2>6 DEF Store!Next
<1>8. CASE QueueFull(r)
  <2>1. RecordOutcome({e}, "full") /\ result' = [result EXCEPT ![e] = "full"]
        /\ stored' = stored \cup {}
    BY <1>8 DEF QueueFull, e
  <2>2. result'[e] = "full" /\ Told(e)' = "error"
    BY <1>1, <2>1, ToldIs DEF Answers
  <2>3. \A x \in Entries \ {e} : Told(x)' = Told(x) /\ (Unresolved(x)' <=> Unresolved(x))
    BY <1>3, <1>6, <1>8, <2>1
  <2>4. {e} \in SUBSET Entries /\ \A x \in {e} : Owed(x)
    BY <1>1, <1>2
  <2>5. \A x \in Entries : Told(x)' = IF x \in {e} /\ Told(x) = "open"
                                      THEN IF "full" = "saved" THEN "ok" ELSE "error"
                                      ELSE Told(x)
    BY <1>2, <2>2, <2>3
  <2>6. IInv => Shape
    BY DEF IInv
  <2> PICK S \in SUBSET Entries : S = {e}
    BY <2>4
  <2> QED
    BY <2>1, <2>3, <2>4, <2>5, <2>6, SettledMaps
<1> QED
  BY <1>4, <1>5, <1>7, <1>8 DEF Offer

\* A record moves from one place of the pipeline to another.
LEMMA MoveMaps ==
    ASSUME IInv, ReplaySend \/ Accumulator
    PROVE  UNCHANGED Store!vars
<1> USE DEF IInv
<1>1. UNCHANGED <<result, outcomes, stored, offers, lastOffers, flBatch>>
  BY DEF ReplaySend, Accumulator, Accumulate, Tick, Dispatch, AccStop, Drain, reqVars, flVars
<1>2. CASE ReplaySend
  <2>1. /\ Range(in') = Range(in) \cup {Head(replayLeft)}
        /\ Range(replayLeft) = {Head(replayLeft)} \cup Range(replayLeft')
        /\ UNCHANGED <<batch, flushCh>>
    BY <1>2, RangeTail, RangeAppend DEF ReplaySend, Shape, accVars
  <2>2. Pipeline' = Pipeline
    BY <1>1, <2>1 DEF Pipeline, Flushing
  <2> QED
    BY <1>1, <2>2, StutterMaps DEF Owed, Unresolved
<1>3. CASE Accumulate \/ (Drain /\ in # <<>>)
  <2>0. /\ batch' = Append(batch, Head(in)) /\ in' = Tail(in) /\ in # <<>>
        /\ UNCHANGED <<replayLeft, flushCh>>
    BY <1>3 DEF Accumulate, Drain
  <2>1. /\ Range(batch') = Range(batch) \cup {Head(in)}
        /\ Range(in) = {Head(in)} \cup Range(in')
    BY <2>0, RangeTail, RangeAppend DEF Shape
  <2>2. Pipeline' = Pipeline
    BY <1>1, <2>0, <2>1 DEF Pipeline, Flushing
  <2> QED
    BY <1>1, <2>2, StutterMaps DEF Owed, Unresolved
<1>4. CASE Dispatch
  <2>1. /\ Queued(flushCh') = Queued(flushCh) \cup Range(batch) /\ batch' = <<>>
        /\ UNCHANGED <<replayLeft, in>>
    BY <1>4, QueuedAppend DEF Dispatch, Shape
  <2>2. Pipeline' = Pipeline
    BY <1>1, <2>1, RangeEmpty DEF Pipeline, Flushing
  <2> QED
    BY <1>1, <2>2, StutterMaps DEF Owed, Unresolved
<1>5. CASE Tick \/ AccStop \/ (Drain /\ in = <<>>)
  <2>1. UNCHANGED <<replayLeft, in, batch, flushCh>>
    BY <1>5 DEF Tick, AccStop, Drain
  <2> QED
    BY <1>1, <2>1, SamePlaces, StutterMaps DEF Owed, Unresolved
<1> QED
  BY <1>2, <1>3, <1>4, <1>5 DEF Accumulator

\* What is left to replay stays for the next process.
LEMMA ReplayStopMaps == IInv /\ ReplayStop => Store!Next
<1> SUFFICES ASSUME IInv, ReplayStop PROVE Store!Next
  OBVIOUS
<1> USE DEF IInv
<1>1. /\ UNCHANGED <<result, outcomes, stored, offers, lastOffers, in, batch, flushCh, flBatch>>
      /\ replayLeft # <<>> /\ replayLeft' = <<>> /\ Range(replayLeft) \subseteq Rec
  BY RangeType DEF ReplayStop, reqVars, accVars, flVars, Shape
<1>2. UseWAL
  BY <1>1 DEF ModesApart
<1>3. Pipeline' = Pipeline \ Range(replayLeft)
  <2>1. Range(replayLeft) \cap (offers \cup lastOffers) = {}
    BY DEF ResultsFit, Earlier, Open
  <2> QED
    BY <1>1, <2>1, RangeEmpty DEF Pipeline, Flushing, OnePlace
<1>4. EntriesOf(Range(replayLeft)) \in SUBSET Entries
  BY <1>1 DEF EntriesOf, Rec
<1> PICK S \in SUBSET Entries : S = EntriesOf(Range(replayLeft))
  BY <1>4
<1>5. \A e \in S : result[e] \in Earlier /\ outcomes[e] = <<>>
  BY DEF ResultsFit, OutcomesFit, EntriesOf
<1>6. \A e \in S : Told(e) \in {"okBefore", "error", "lost"} /\ Owed(e)
  <2>1. \A e \in S : e \in EntriesOf(Pipeline)
    BY DEF EntriesOf, Pipeline
  <2> QED
    BY <1>5, <2>1, ToldIs DEF Answers, Earlier, Results, Open, Owed, Unresolved
<1>7. \A e \in Entries : Unresolved(e)' <=> Unresolved(e) /\ e \notin S
  <2>1. \A e \in Entries : e \in EntriesOf(Pipeline') <=> e \in EntriesOf(Pipeline) /\ e \notin S
    <3>1. \A r, h \in Pipeline : r.entry = h.entry => r = h
      BY DEF OneRecord
    <3>2. Range(replayLeft) \subseteq Pipeline
      BY DEF Pipeline
    <3> QED
      BY <1>3, <3>1, <3>2 DEF EntriesOf
  <2> QED
    BY <1>1, <1>5, <2>1 DEF Unresolved, Earlier
<1>8. {e \in Entries : Owed(e)}' = {e \in Entries : Owed(e)} \ S
      /\ S \subseteq {e \in Entries : Owed(e)}
  <2>1. \A e \in Entries : Owed(e)' <=> Owed(e) /\ e \notin S
    BY <1>1, <1>7 DEF Owed
  <2> QED
    BY <1>6, <2>1
<1>9. UNCHANGED <<[e \in Entries |-> Told(e)], [e \in Entries |-> OutcomeOf(e)], stored>>
  BY <1>1 DEF Told, OutcomeOf, Recorded
<1>10. S \subseteq Store!Recoverable
  BY <1>6 DEF Store!Recoverable
<1>11. Store!Leave(S)
  BY <1>2, <1>8, <1>9, <1>10 DEF Store!Leave, Owed
<1> QED
  BY <1>11 DEF Store!Next

\* The flusher: its batch gets its outcomes, its client has its answer already.
LEMMA CountedMaps ==
    ASSUME IInv, NEW S \in SUBSET Entries, NEW part \in SUBSET S,
           NEW o \in {"saved", "failed", "aborted"},
           S \subseteq EntriesOf(Flushing), \A e \in S : outcomes[e] = <<>>,
           UNCHANGED <<result, offers, lastOffers, replayLeft, in, batch>>,
           Flushing' = Flushing, RecordOutcome(S, o),
           stored' = stored \cup part, o = "saved" => part = S
    PROVE  Store!Next
<1>1. Pipeline' = Pipeline
  BY DEF Pipeline
<1>2. \A e \in S : result[e] \notin Open /\ Told(e) # "open" /\ Owed(e)
  <2>1. \A e \in S : result[e] \in Results /\ result[e] \notin Open /\ e \in EntriesOf(Pipeline)
    BY FlushedAlone DEF EntriesOf, IInv, Shape
  <2> QED
    BY <2>1, ToldIs DEF Answers, Owed, Unresolved
<1>3. \A e \in Entries : Told(e)' = Told(e) /\ (Unresolved(e)' <=> Unresolved(e))
  BY <1>1 DEF Told, Unresolved
<1>4. Shape /\ o \in {"refused", "full", "saved", "failed", "aborted"}
  BY DEF IInv
<1>5. \A e \in Entries : Told(e)' = IF e \in S /\ Told(e) = "open"
                                    THEN IF o = "saved" THEN "ok" ELSE "error"
                                    ELSE Told(e)
  BY <1>2, <1>3
<1>6. (\A e \in S : Owed(e)) /\ (\A e \in Entries \ S : Unresolved(e)' <=> Unresolved(e))
  BY <1>2, <1>3
<1> QED
  BY <1>4, <1>5, <1>6, SettledMaps

LEMMA TakeMaps == IInv /\ Take => Store!Next
<1> SUFFICES ASSUME IInv, Take PROVE Store!Next
  OBVIOUS
<1> USE DEF IInv
<1>1. /\ UNCHANGED <<result, offers, lastOffers, replayLeft, in, batch>>
      /\ flBatch = <<>> /\ flushCh # <<>> /\ flBatch' = Head(flushCh) /\ flushCh' = Tail(flushCh)
      /\ RecordOutcome(EntriesOf(Range(flBatch')) \cap Unconvertible, "failed")
      /\ stored' = stored \cup {}
  BY DEF Take, reqVars, accVars, OutcomesFit
<1>2. Queued(flushCh) = Range(flBatch') \cup Queued(flushCh')
  BY <1>1, QueuedTail DEF Shape
<1>3. Flushing' = Flushing
  BY <1>1, <1>2, RangeEmpty DEF Flushing
<1>4. EntriesOf(Range(flBatch')) \cap Unconvertible \in SUBSET Entries
  BY BatchAssumption
<1> PICK S \in SUBSET Entries : S = EntriesOf(Range(flBatch')) \cap Unconvertible
  BY <1>4
<1>5. S \subseteq EntriesOf(Flushing) /\ \A e \in S : outcomes[e] = <<>>
  BY <1>2 DEF EntriesOf, Flushing, OutcomesFit
<1>6. RecordOutcome(S, "failed")
  BY <1>1
<1> QED
  BY <1>1, <1>3, <1>5, <1>6, CountedMaps

LEMMA DeliveredMaps ==
    ASSUME IInv, NEW o \in {"saved", "failed", "aborted"},
           flPc \in {"send", "inflight", "backoff"}, Delivered(o),
           NEW part \in SUBSET Good(flBatch), stored' = stored \cup part,
           o = "saved" => part = Good(flBatch),
           UNCHANGED <<reqVars, replayLeft, in, accVars, flushCh, flBatch>>
    PROVE  Store!Next
<1> USE DEF IInv
<1>1. Range(flBatch) \subseteq Rec
  BY RangeType DEF Shape
<1>2. Good(flBatch) \in SUBSET Entries
  BY <1>1 DEF Good, EntriesOf, Rec
<1> PICK S \in SUBSET Entries : S = Good(flBatch)
  BY <1>2
<1>3. S \subseteq EntriesOf(Flushing) /\ \A e \in S : outcomes[e] = <<>>
  BY DEF Good, EntriesOf, Flushing, OutcomesFit
<1>4. UNCHANGED <<result, offers, lastOffers, replayLeft, in, batch>> /\ Flushing' = Flushing
  BY SamePlaces DEF reqVars, accVars
<1>5. RecordOutcome(S, o) /\ part \in SUBSET S /\ (o = "saved" => part = S)
  BY DEF Delivered
<1> QED
  BY <1>3, <1>4, <1>5, CountedMaps

\* The records leave with the outcome they have.
LEMMA FlushAckMaps == IInv /\ FlushAck => UNCHANGED Store!vars
<1> SUFFICES ASSUME IInv, FlushAck PROVE UNCHANGED Store!vars
  OBVIOUS
<1> USE DEF IInv
<1>1. /\ UNCHANGED <<result, offers, lastOffers, replayLeft, in, batch, flushCh, outcomes, stored>>
      /\ flBatch' = <<>> /\ flPc = "ack"
  BY DEF FlushAck, reqVars, accVars
<1>2. \A r \in Pipeline : r \in Pipeline' \/ r \in Range(flBatch)
  BY <1>1 DEF Pipeline, Flushing
<1>3. Pipeline' \subseteq Pipeline
  BY <1>1, RangeEmpty DEF Pipeline, Flushing
<1>4. \A r \in Range(flBatch) : outcomes[r.entry] # <<>>
  BY <1>1, OutcomeValues DEF OutcomesFit
<1>5. \A e \in Entries : Owed(e)' <=> Owed(e)
  BY <1>1, <1>2, <1>3, <1>4 DEF Owed, Unresolved, EntriesOf
<1> QED
  BY <1>1, <1>5, StutterMaps

LEMMA FlusherMaps == IInv /\ Flusher => Store!Next \/ UNCHANGED Store!vars
<1> SUFFICES ASSUME IInv, Flusher PROVE Store!Next \/ UNCHANGED Store!vars
  OBVIOUS
<1>1. CASE (Send \/ Backoff) /\ Delivered("aborted")
  <2>1. stored' = stored \cup {}
    BY <1>1 DEF Send, Backoff
  <2> QED
    BY <1>1, <2>1, DeliveredMaps DEF Send, Backoff
<1>2. CASE PushOK
  BY <1>2, DeliveredMaps DEF PushOK
<1>3. CASE PushError /\ (Delivered("aborted") \/ Delivered("failed"))
  BY <1>3, DeliveredMaps DEF PushError
<1>4. CASE PushError /\ UNCHANGED outcomes
  <2>1. /\ UNCHANGED <<result, offers, lastOffers, replayLeft, in, batch, flushCh, flBatch,
                       outcomes>>
        /\ flPc = "inflight"
    BY <1>4 DEF PushError, reqVars, accVars
  <2>2. PICK part \in SUBSET Good(flBatch) : stored' = stored \cup part
    BY <1>4 DEF PushError
  <2>3. Good(flBatch) \subseteq Entries
    <3>1. Range(flBatch) \subseteq Rec
      BY RangeType DEF IInv, Shape
    <3> QED
      BY <3>1 DEF Good, EntriesOf, Rec
  <2>4. part \subseteq {e \in Entries : Owed(e)}
    BY <2>1, <2>2, <2>3 DEF IInv, OutcomesFit, Good, EntriesOf, Owed, Unresolved, Pipeline,
       Flushing
  <2>5. /\ UNCHANGED <<[e \in Entries |-> Told(e)], [e \in Entries |-> OutcomeOf(e)]>>
        /\ {e \in Entries : Owed(e)}' = {e \in Entries : Owed(e)}
    BY <2>1, SamePlaces DEF Told, OutcomeOf, Recorded, Owed, Unresolved
  <2>6. Store!Store(part)
    BY <2>2, <2>4, <2>5 DEF Store!Store, Owed
  <2>7. part \in SUBSET Entries
    BY <2>3
  <2> QED
    BY <2>6, <2>7 DEF Store!Next
<1>5. CASE (Send \/ Backoff \/ FlusherExit) /\ UNCHANGED outcomes
  <2>1. UNCHANGED <<offers, lastOffers, replayLeft, in, batch, flushCh, flBatch, result,
                    outcomes, stored>>
    BY <1>5 DEF Send, Backoff, FlusherExit, reqVars, accVars
  <2>2. \A e \in Entries : Owed(e)' <=> Owed(e)
    BY <2>1, SamePlaces DEF Owed, Unresolved
  <2> QED
    BY <2>1, <2>2, StutterMaps
<1>6. CASE Take \/ FlushAck
  BY <1>6, TakeMaps, FlushAckMaps
<1> QED
  BY <1>1, <1>2, <1>3, <1>4, <1>5, <1>6 DEF Flusher, Send, PushError, Backoff, FlusherExit

LEMMA NextRefines == IInv /\ [Next]_vars => [Store!Next]_(Store!vars)
<1> SUFFICES ASSUME IInv, [Next]_vars PROVE Store!Next \/ UNCHANGED Store!vars
  OBVIOUS
<1>1. CASE Main
  BY <1>1, MainMaps
<1>2. ASSUME NEW e \in Entries, Request(e)
      PROVE  Store!Next \/ UNCHANGED Store!vars
  <2>1. CASE Log(e)
    BY <2>1, LogMaps
  <2>2. CASE CrashInLog(e)
    BY <2>2, GoneMaps DEF CrashInLog, Store!Next
  <2>3. CASE Arrive(e) \/ LogRefused(e) \/ Direct(e)
    BY <2>3, RequestMaps
  <2> QED
    BY <1>2, <2>1, <2>2, <2>3 DEF Request
<1>3. ASSUME NEW r \in offers \cup lastOffers, Offer(r)
      PROVE  Store!Next \/ UNCHANGED Store!vars
  BY <1>3, OfferMaps
<1>4. CASE ReplaySend \/ Accumulator
  BY <1>4, MoveMaps
<1>5. CASE ReplayStop
  BY <1>5, ReplayStopMaps
<1>6. CASE Flusher
  BY <1>6, FlusherMaps
<1>7. CASE CrashInFlushAck
  BY <1>7, GoneMaps DEF CrashInFlushAck, Store!Next
<1>8. CASE UNCHANGED vars
  <2>1. UNCHANGED <<offers, lastOffers, replayLeft, in, batch, flushCh, flBatch, result,
                    outcomes, stored>>
    BY <1>8 DEF vars, reqVars, accVars, flVars
  <2> QED
    BY <2>1, SamePlaces, StutterMaps DEF Owed, Unresolved
<1> QED
  BY <1>1, <1>2, <1>3, <1>4, <1>5, <1>6, <1>7, <1>8 DEF Next

\* internal.go:12-21: with a log or without, in batches or not, whatever calls
\* fail and wherever the process is killed, every step of the Loki backend is one
\* that Storer allows its callers to see, or none.
THEOREM LokiKeepsPromises == Spec => KeepsPromises
  BY InitRefines, NextRefines, InvHolds, PTL DEF Spec, KeepsPromises, Store!Spec

=============================================================================
