----------------------------- MODULE Timestamps -----------------------------
(***************************************************************************)
(* ensureMonotonic (internal/storage/loki/timestamps.go), the loop that    *)
(* makes the timestamps of one Loki stream strictly increasing: a stable   *)
(* sort, then one pass that moves every entry that is not after its        *)
(* predecessor to one nanosecond after it.  A row is a record of its time  *)
(* and of the position it had in the input, which stands for its line.     *)
(***************************************************************************)
EXTENDS Naturals

CONSTANTS
    Times,   \* the timestamps, in nanoseconds
    MaxLen   \* bound on the number of rows

ASSUME TimesAssumption == Times \subseteq Nat /\ MaxLen \in Nat

VARIABLES
    n,       \* len(values)
    input,   \* the times of the argument
    sorted,  \* ghost: the rows after the sort
    values,  \* the rows
    i,       \* the index of the loop (from 1 here)
    pc       \* "sort", "nudge" or "done"

vars == <<n, input, sorted, values, i, pc>>

Row == [at : Nat, val : Nat]

Init ==
    /\ n \in 0..MaxLen
    /\ input \in [1..n -> Times]
    /\ values = [k \in 1..n |-> [at |-> input[k], val |-> k]]
    /\ sorted = values
    /\ i = 1
    /\ pc = "sort"

\* Mutant: fewer than two rows return nothing.
TooShortIsEmpty ==
    /\ pc = "sort" /\ n < 2
    /\ pc' = "done" /\ n' = 0
    /\ UNCHANGED <<input, sorted, values, i>>

\* Fewer than two rows are returned as they are.
TooShort ==
    /\ pc = "sort" /\ n < 2
    /\ pc' = "done"
    /\ UNCHANGED <<n, input, sorted, values, i>>

\* Mutant: sort.Slice in place of sort.SliceStable.
IsSort(s, r) ==
    /\ \A k \in 1..n : \E j \in 1..n : s[j] = r[k]
    /\ \A j, k \in 1..n : j < k => s[j].at <= s[k].at /\ s[j] # s[k]

\* s is r sorted by time, equal times in the order they had.
IsStableSort(s, r) ==
    /\ \A k \in 1..n : \E j \in 1..n : s[j] = r[k]
    /\ \A j, k \in 1..n : j < k =>
          \/ s[j].at < s[k].at
          \/ s[j].at = s[k].at /\ s[j].val < s[k].val

Rows == {values[k] : k \in 1..n}

Sort ==
    /\ pc = "sort" /\ n >= 2
    /\ \E s \in [1..n -> Rows] :
          /\ IsStableSort(s, values)
          /\ values' = s /\ sorted' = s
    /\ i' = 2
    /\ pc' = "nudge"
    /\ UNCHANGED <<n, input>>

\* Mutant: only a row before its predecessor is moved.
NotAfterStrict(a, b) == a < b

\* !a.After(b)
NotAfter(a, b) == a <= b

\* Mutant: the predecessor's drift is added to the row's own time.
NudgedTwice(a) == a + 2

\* a.Add(1)
Nudged(a) == a + 1

Nudge ==
    /\ pc = "nudge" /\ i <= n
    /\ values' = IF NotAfter(values[i].at, values[i - 1].at)
                 THEN [values EXCEPT ![i] = [at |-> Nudged(values[i - 1].at),
                                             val |-> values[i].val]]
                 ELSE values
    /\ i' = i + 1
    /\ UNCHANGED <<n, input, sorted, pc>>

Return ==
    /\ pc = "nudge" /\ i > n
    /\ pc' = "done"
    /\ UNCHANGED <<n, input, sorted, values, i>>

Next == TooShort \/ Sort \/ Nudge \/ Return

Spec == Init /\ [][Next]_vars

-----------------------------------------------------------------------------
(* Correctness *)

TypeOK ==
    /\ n \in Nat
    /\ input \in [1..n -> Nat]
    /\ values \in [1..n -> Row] /\ sorted \in [1..n -> Row]
    /\ i \in Nat
    /\ pc \in {"sort", "nudge", "done"}

\* timestamps.go:6-7, "every entry in a stream has a strictly increasing, unique
\* time".
StrictlyIncreasing ==
    pc = "done" =>
        \A j, k \in 1..n : j < k => values[j].at < values[k].at

\* timestamps.go:16, it "never reorders genuinely distinct timestamps", loses no
\* entry, and keeps entries of one time in their order.
OrderKept ==
    pc = "done" =>
        /\ \A k \in 1..n : \E j \in 1..n : values[j].val = k
        /\ \A j, k \in 1..n : j < k =>
              \/ input[values[j].val] < input[values[k].val]
              \/ input[values[j].val] = input[values[k].val] /\ values[j].val < values[k].val

\* timestamps.go:15, "the drift is at most one nanosecond per colliding entry":
\* no row is later than the rows before it force it to be.  The result is the
\* closed form max over j <= k of sorted[j].at + (k - j).
LeastDrift ==
    pc = "done" => \A k \in 1..n :
        /\ \A j \in 1..k : values[k].at >= sorted[j].at + (k - j)
        /\ \E j \in 1..k : values[k].at = sorted[j].at + (k - j)

=============================================================================
