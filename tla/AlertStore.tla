----------------------------- MODULE AlertStore -----------------------------
(***************************************************************************)
(* What a backend promises its callers (the interface Storer of            *)
(* internal/internal.go and the saved and failed counters of metrics),     *)
(* whichever it is: a Save is answered once, an alert the backend has      *)
(* taken on leaves it with an outcome or an error to the client or with    *)
(* the process, an alert counted as saved is stored, nothing is stored     *)
(* that was not sent.                                                      *)
(*                                                                         *)
(* LokiBatch and SqlStore implement it; the mapping is in each of them.    *)
(***************************************************************************)
CONSTANTS
    Calls,   \* calls of Save
    Durable  \* a restarted process takes up what the last one had not settled

VARIABLES
    told,    \* call -> "none", "open" or what its client was told: "ok", "error",
             \* or, of a process that is gone, "okBefore" or "lost" (no answer)
    owed,    \* calls the backend has taken on and given no outcome
    outcome, \* call -> "none", "saved" or "failed", as this process counted it
    stored   \* calls whose alerts are in the database

vars == <<told, owed, outcome, stored>>

Init ==
    /\ told = [c \in Calls |-> "none"]
    /\ owed = {}
    /\ outcome = [c \in Calls |-> "none"]
    /\ stored = {}

\* Those of S that wait for an answer get this one.
Answer(S, a) ==
    told' = [c \in Calls |-> IF c \in S /\ told[c] = "open" THEN a ELSE told[c]]

Count(S, o) == outcome' = [c \in Calls |-> IF c \in S THEN o ELSE outcome[c]]

Call(c) ==
    /\ told[c] = "none"
    /\ told' = [told EXCEPT ![c] = "open"]
    /\ owed' = owed \cup {c}
    /\ UNCHANGED <<outcome, stored>>

\* A backend that buffers may say yes before it has an outcome.
Accept(c) ==
    /\ told[c] = "open" /\ c \in owed
    /\ Answer({c}, "ok")
    /\ UNCHANGED <<owed, outcome, stored>>

\* The database has some of it; the backend does not know yet.
Store(S) ==
    /\ S \subseteq owed
    /\ stored' = stored \cup S
    /\ UNCHANGED <<told, owed, outcome>>

Saved(S) ==
    /\ S \subseteq owed
    /\ stored' = stored \cup S
    /\ owed' = owed \ S
    /\ Count(S, "saved") /\ Answer(S, "ok")

\* The database may have some of it all the same.
Failed(S) ==
    /\ S \subseteq owed
    /\ \E part \in SUBSET S : stored' = stored \cup part
    /\ owed' = owed \ S
    /\ Count(S, "failed") /\ Answer(S, "error")

\* A Save whose context is over is not taken on, and not counted.
GiveUp(c) ==
    /\ told[c] = "open" /\ c \in owed
    /\ owed' = owed \ {c}
    /\ Answer({c}, "error")
    /\ UNCHANGED <<outcome, stored>>

\* Calls of an earlier process, or of a client that was told of an error.
Recoverable == {c \in Calls : told[c] \in {"okBefore", "error", "lost"}}

\* A stop leaves for the next process what the last one left to this one.
Leave(S) ==
    /\ Durable /\ S \subseteq owed \cap Recoverable
    /\ owed' = owed \ S
    /\ UNCHANGED <<told, outcome, stored>>

\* The process ends.
End ==
    /\ told' = [c \in Calls |-> CASE told[c] = "open" -> "lost"
                                  [] told[c] = "ok" -> "okBefore"
                                  [] OTHER -> told[c]]
    /\ owed' = {}
    /\ outcome' = [c \in Calls |-> "none"]
    /\ UNCHANGED stored

Recover(S) ==
    /\ Durable /\ S \subseteq Recoverable
    /\ owed' = owed \cup S
    /\ UNCHANGED <<told, outcome, stored>>

Next ==
    \/ \E c \in Calls : Call(c) \/ Accept(c) \/ GiveUp(c)
    \/ \E S \in SUBSET Calls :
          Store(S) \/ Saved(S) \/ Failed(S) \/ Leave(S) \/ Recover(S)
    \/ End

Spec == Init /\ [][Next]_vars

-----------------------------------------------------------------------------
(* What follows for the callers *)

\* The type of every variable.
TypeOK ==
    /\ told \in [Calls -> {"none", "open", "ok", "error", "okBefore", "lost"}]
    /\ owed \subseteq Calls /\ stored \subseteq Calls
    /\ outcome \in [Calls -> {"none", "saved", "failed"}]

\* internal.go:12-21: as long as the process lives, an alert whose Save returned
\* nil is on its way or has been counted, and one counted as saved is stored.
NothingLost ==
    \A c \in Calls :
        /\ told[c] = "ok" => c \in owed \/ outcome[c] # "none"
        /\ outcome[c] = "saved" => c \in stored

\* Only what was sent is stored.
NothingInvented == \A c \in owed \cup stored : told[c] # "none"

\* internal.go:15-17: an answer stands; what an earlier process answered is
\* remembered as such, and nobody answers a client twice.
AnswersStand ==
    [][\A c \in Calls :
          told[c] \notin {"none", "open"} =>
              told'[c] = told[c] \/ (told[c] = "ok" /\ told'[c] = "okBefore")]_vars

=============================================================================
