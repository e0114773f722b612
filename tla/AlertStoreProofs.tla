-------------------------- MODULE AlertStoreProofs --------------------------
(***************************************************************************)
(* What AlertStore promises holds of every implementation, for any number  *)
(* of calls and with or without a log.                                     *)
(***************************************************************************)
EXTENDS AlertStore, TLAPS

Promises == TypeOK /\ NothingLost /\ NothingInvented

LEMMA InitPromises == Init => Promises
  BY DEF Init, Promises, TypeOK, NothingLost, NothingInvented

\* Every step keeps the promises, whichever alerts it is about.
LEMMA StepPromises == Promises /\ [Next]_vars => Promises'
<1> SUFFICES ASSUME Promises, [Next]_vars PROVE Promises'
  OBVIOUS
<1> USE DEF Promises, TypeOK, NothingLost, NothingInvented
<1>1. ASSUME NEW c \in Calls, Call(c) PROVE Promises'
  BY <1>1 DEF Call
<1>2. ASSUME NEW c \in Calls, Accept(c) PROVE Promises'
  BY <1>2 DEF Accept, Answer
<1>3. ASSUME NEW c \in Calls, GiveUp(c) PROVE Promises'
  BY <1>3 DEF GiveUp, Answer
<1>4. ASSUME NEW S \in SUBSET Calls, Store(S) PROVE Promises'
  BY <1>4 DEF Store
<1>5. ASSUME NEW S \in SUBSET Calls, Saved(S) PROVE Promises'
  BY <1>5 DEF Saved, Count, Answer
<1>6. ASSUME NEW S \in SUBSET Calls, Failed(S) PROVE Promises'
  BY <1>6 DEF Failed, Count, Answer
<1>7. ASSUME NEW S \in SUBSET Calls, Leave(S) PROVE Promises'
  BY <1>7 DEF Leave, Recoverable
<1>8. ASSUME NEW S \in SUBSET Calls, Recover(S) PROVE Promises'
  BY <1>8 DEF Recover, Recoverable
<1>9. CASE End
  BY <1>9 DEF End
<1>10. CASE UNCHANGED vars
  BY <1>10 DEF vars
<1> QED
  BY <1>1, <1>2, <1>3, <1>4, <1>5, <1>6, <1>7, <1>8, <1>9, <1>10 DEF Next

\* As long as the process lives, an alert whose Save returned nil is on its way
\* or counted, one counted as saved is stored, and nothing is stored unsent.
THEOREM PromisesKept == Spec => [](TypeOK /\ NothingLost /\ NothingInvented)
<1>1. Promises => TypeOK /\ NothingLost /\ NothingInvented
  BY DEF Promises
<1> QED
  BY <1>1, InitPromises, StepPromises, PTL DEF Spec

\* An answer stands, through failures, restarts and replays.
THEOREM NobodyAnsweredTwice == Spec => AnswersStand
<1> DEFINE Stands ==
      \A c \in Calls : told[c] \notin {"none", "open"} =>
          told'[c] = told[c] \/ (told[c] = "ok" /\ told'[c] = "okBefore")
<1>1. Promises /\ [Next]_vars => [Stands]_vars
  <2> SUFFICES ASSUME Promises, Next PROVE Stands
    OBVIOUS
  <2> USE DEF Promises, TypeOK
  <2>1. ASSUME NEW c \in Calls, Call(c) \/ Accept(c) \/ GiveUp(c) PROVE Stands
    BY <2>1 DEF Call, Accept, GiveUp, Answer
  <2>2. ASSUME NEW S \in SUBSET Calls, Saved(S) \/ Failed(S) PROVE Stands
    BY <2>2 DEF Saved, Failed, Answer
  <2>3. ASSUME NEW S \in SUBSET Calls, Store(S) \/ Leave(S) \/ Recover(S) PROVE Stands
    BY <2>3 DEF Store, Leave, Recover
  <2>4. CASE End
    BY <2>4 DEF End
  <2> QED
    BY <2>1, <2>2, <2>3, <2>4 DEF Next
<1> QED
  BY <1>1, InitPromises, StepPromises, PTL DEF Spec, AnswersStand

=============================================================================
