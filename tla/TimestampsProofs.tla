-------------------------- MODULE TimestampsProofs --------------------------
(***************************************************************************)
(* ensureMonotonic is correct for every number of rows and all times.      *)
(* LoopInv is the invariant of its loop: the rows before i are final,      *)
(* those from i on are as the sort left them.  Its parts are operators of  *)
(* the rows, so that a step that leaves the rows alone leaves them alone.  *)
(***************************************************************************)
EXTENDS Timestamps, TLAPS

\* Row k of v has the least time that the rows up to k of s allow.
Least(v, s, k) ==
    /\ \A j \in 1..k : v[k].at >= s[j].at + (k - j)
    /\ \E j \in 1..k : v[k].at = s[j].at + (k - j)

\* The first m rows of v are final, s being the sorted rows.
Final(v, s, m) ==
    /\ \A k \in 1..m : Least(v, s, k)
    /\ \A j, k \in 1..m : j < k => v[j].at < v[k].at

\* The m rows of s carry the times x, and every position of x is among them.
FromInput(s, x, m) ==
    /\ \A k \in 1..m : s[k].val \in 1..m /\ s[k].at = x[s[k].val]
    /\ \A k \in 1..m : \E j \in 1..m : s[j].val = k

InOrder(s, m) ==
    \A j, k \in 1..m : j < k =>
        \/ s[j].at < s[k].at
        \/ s[j].at = s[k].at /\ s[j].val < s[k].val

LoopInv ==
    /\ TypeOK
    /\ FromInput(sorted, input, n)
    /\ \A k \in 1..n : values[k].val = sorted[k].val
    /\ pc = "sort" => values = sorted
    /\ pc # "sort" => InOrder(sorted, n)
    /\ pc = "nudge" =>
          /\ i \in 2..(n + 1)
          /\ Final(values, sorted, i - 1)
          /\ \A k \in i..n : values[k] = sorted[k]
    /\ pc = "done" => Final(values, sorted, n)

LEMMA LoopInit == Init => LoopInv
<1> SUFFICES ASSUME Init PROVE LoopInv
  OBVIOUS
<1>1. n \in Nat /\ input \in [1..n -> Nat]
  <2>1. n \in 0..MaxLen /\ MaxLen \in Nat /\ Times \subseteq Nat /\ input \in [1..n -> Times]
    BY TimesAssumption DEF Init
  <2>2. n \in Nat
    BY <2>1
  <2>3. \A k \in 1..n : input[k] \in Nat
    BY <2>1
  <2> QED
    BY <2>1, <2>2, <2>3
<1>2. values = [k \in 1..n |-> [at |-> input[k], val |-> k]]
  BY DEF Init
<1>3. \A k \in 1..n : [at |-> input[k], val |-> k] \in Row
  BY <1>1 DEF Row
<1>4. values \in [1..n -> Row]
  BY <1>2, <1>3
<1>5. TypeOK
  BY <1>1, <1>4 DEF Init, TypeOK
<1>6. FromInput(sorted, input, n)
  BY <1>1, <1>2 DEF Init, FromInput
<1> QED
  BY <1>5, <1>6 DEF Init, LoopInv

\* One row more: the loop's body on rows that are final up to m - 1.
LEMMA OneMore ==
    ASSUME NEW m \in Nat, m >= 2, NEW v, NEW w, NEW s,
           \A k \in 1..m : v[k].at \in Nat /\ s[k].at \in Nat,
           Final(v, s, m - 1),
           \A k \in 1..(m - 1) : w[k] = v[k],
           w[m].at = IF s[m].at <= v[m - 1].at THEN v[m - 1].at + 1 ELSE s[m].at
    PROVE  Final(w, s, m)
<1>0. m - 1 \in 1..(m - 1) /\ m \in 1..m /\ v[m - 1].at \in Nat /\ s[m].at \in Nat
  OBVIOUS
<1>1. /\ \A j \in 1..(m - 1) : v[m - 1].at >= s[j].at + ((m - 1) - j)
      /\ \E j \in 1..(m - 1) : v[m - 1].at = s[j].at + ((m - 1) - j)
  BY <1>0 DEF Final, Least
<1>2. v[m - 1].at < w[m].at /\ w[m].at >= s[m].at
  BY <1>0
<1>3. \A j \in 1..m : w[m].at >= s[j].at + (m - j)
  <2> SUFFICES ASSUME NEW j \in 1..m PROVE w[m].at >= s[j].at + (m - j)
    OBVIOUS
  <2>1. CASE j = m
    BY <1>0, <1>2, <2>1
  <2>2. CASE j \in 1..(m - 1)
    <3>1. v[m - 1].at >= s[j].at + ((m - 1) - j) /\ s[j].at \in Nat
      BY <1>1, <2>2
    <3>2. w[m].at \in Nat
      BY <1>0
    <3> QED
      BY <1>0, <1>2, <2>2, <3>1, <3>2
  <2> QED
    BY <2>1, <2>2
<1>4. \E j \in 1..m : w[m].at = s[j].at + (m - j)
  <2>1. CASE s[m].at <= v[m - 1].at
    <3>1. PICK j \in 1..(m - 1) : v[m - 1].at = s[j].at + ((m - 1) - j)
      BY <1>1
    <3>2. j \in 1..m /\ s[j].at \in Nat /\ w[m].at = v[m - 1].at + 1
      BY <2>1, <3>1
    <3>3. w[m].at = s[j].at + (m - j)
      BY <3>1, <3>2
    <3> QED
      BY <3>2, <3>3
  <2>2. CASE ~(s[m].at <= v[m - 1].at)
    BY <1>0, <2>2
  <2> QED
    BY <2>1, <2>2
<1>5. \A k \in 1..m : Least(w, s, k)
  <2> SUFFICES ASSUME NEW k \in 1..m PROVE Least(w, s, k)
    OBVIOUS
  <2>1. CASE k = m
    BY <1>3, <1>4, <2>1 DEF Least
  <2>2. CASE k \in 1..(m - 1)
    <3>1. Least(v, s, k) /\ w[k] = v[k]
      BY <2>2 DEF Final
    <3> QED
      BY <3>1 DEF Least
  <2> QED
    BY <2>1, <2>2
<1>6. \A j, k \in 1..m : j < k => w[j].at < w[k].at
  <2> SUFFICES ASSUME NEW j \in 1..m, NEW k \in 1..m, j < k PROVE w[j].at < w[k].at
    OBVIOUS
  <2>0. j \in 1..(m - 1) /\ w[j] = v[j] /\ v[j].at \in Nat
    OBVIOUS
  <2>1. CASE k = m
    <3>1. v[j].at <= v[m - 1].at
      BY <1>0, <2>0 DEF Final
    <3>2. w[m].at \in Nat
      BY <1>0
    <3> QED
      BY <1>0, <1>2, <2>0, <2>1, <3>1, <3>2
  <2>2. CASE k \in 1..(m - 1)
    BY <2>0, <2>2 DEF Final
  <2> QED
    BY <2>1, <2>2
<1> QED
  BY <1>5, <1>6 DEF Final

\* One round of the loop makes row i final.
LEMMA NudgeStep == LoopInv /\ Nudge => LoopInv'
<1> SUFFICES ASSUME LoopInv, Nudge PROVE LoopInv'
  OBVIOUS
<1>1. /\ n \in Nat /\ i \in 2..n /\ i - 1 \in 1..n /\ i \in 1..n
      /\ values \in [1..n -> Row] /\ sorted \in [1..n -> Row]
  BY DEF LoopInv, Nudge, TypeOK
<1>2. /\ \A k \in 1..n : values[k].at \in Nat /\ values[k].val \in Nat
      /\ \A k \in 1..n : sorted[k].at \in Nat
  BY <1>1 DEF Row
<1>3. /\ n' = n /\ input' = input /\ sorted' = sorted /\ i' = i + 1
      /\ pc = "nudge" /\ pc' = "nudge"
  BY DEF Nudge
<1>4. /\ values' \in [1..n -> Row]
      /\ \A k \in 1..n : k # i => values'[k] = values[k]
      /\ values'[i].val = values[i].val
      /\ values'[i].at = IF sorted[i].at <= values[i - 1].at
                         THEN values[i - 1].at + 1 ELSE sorted[i].at
  <2>1. values[i] = sorted[i]
    BY <1>1, <1>3 DEF LoopInv
  <2>2. CASE values[i].at <= values[i - 1].at
    <3> DEFINE r == [at |-> values[i - 1].at + 1, val |-> values[i].val]
    <3>1. values' = [values EXCEPT ![i] = r]
      BY <2>2 DEF Nudge, NotAfter, Nudged
    <3>2. r \in Row /\ r.at = values[i - 1].at + 1 /\ r.val = values[i].val
      BY <1>1, <1>2 DEF Row
    <3> HIDE DEF r
    <3> QED
      BY <1>1, <2>1, <2>2, <3>1, <3>2
  <2>3. CASE ~(values[i].at <= values[i - 1].at)
    BY <1>1, <1>2, <2>1, <2>3 DEF Nudge, NotAfter
  <2> QED
    BY <2>2, <2>3
<1>5. Final(values', sorted, i)
  <2>1. Final(values, sorted, i - 1)
    BY <1>3 DEF LoopInv
  <2>2. \A k \in 1..i : values[k].at \in Nat /\ sorted[k].at \in Nat
    BY <1>1, <1>2
  <2>3. \A k \in 1..(i - 1) : values'[k] = values[k]
    BY <1>1, <1>4
  <2>4. i \in Nat /\ i >= 2
    BY <1>1
  <2> QED
    BY <1>4, <2>1, <2>2, <2>3, <2>4, OneMore
<1>6. \A k \in (i + 1)..n : values'[k] = sorted[k]
  BY <1>1, <1>3, <1>4 DEF LoopInv
<1>7. \A k \in 1..n : values'[k].val = sorted[k].val
  BY <1>1, <1>4 DEF LoopInv
<1>8. TypeOK'
  BY <1>1, <1>3, <1>4 DEF LoopInv, TypeOK
<1>9. i + 1 \in 2..(n + 1) /\ (i + 1) - 1 = i
  BY <1>1
<1> QED
  BY <1>3, <1>5, <1>6, <1>7, <1>8, <1>9 DEF LoopInv

\* The sort makes the first row final.
LEMMA SortStep == LoopInv /\ Sort => LoopInv'
<1> SUFFICES ASSUME LoopInv, Sort PROVE LoopInv'
  OBVIOUS
<1>1. /\ n \in Nat /\ n >= 2 /\ values = sorted /\ values \in [1..n -> Row]
      /\ n' = n /\ input' = input /\ i' = 2 /\ pc' = "nudge" /\ pc = "sort"
  BY DEF LoopInv, Sort, TypeOK
<1>2. PICK s \in [1..n -> Rows] : IsStableSort(s, values) /\ values' = s /\ sorted' = s
  BY DEF Sort
<1>3. \A k \in 1..n : s[k] \in Rows
  BY <1>2
<1>4. \A k \in 1..n : \E j \in 1..n : s[k] = values[j]
  BY <1>3 DEF Rows
<1>5. s \in [1..n -> Row]
  BY <1>1, <1>2, <1>4
<1>6. FromInput(values, input, n)
  BY <1>1 DEF LoopInv
<1>7. FromInput(s, input, n)
  <2>1. \A k \in 1..n : s[k].val \in 1..n /\ s[k].at = input[s[k].val]
    <3> SUFFICES ASSUME NEW k \in 1..n
                 PROVE  s[k].val \in 1..n /\ s[k].at = input[s[k].val]
      OBVIOUS
    <3>1. PICK j \in 1..n : s[k] = values[j]
      BY <1>4
    <3>2. values[j].val \in 1..n /\ values[j].at = input[values[j].val]
      BY <1>6 DEF FromInput
    <3> QED
      BY <3>1, <3>2
  <2>2. \A k \in 1..n : \E j \in 1..n : s[j] = values[k]
    BY <1>2 DEF IsStableSort
  <2>3. \A k \in 1..n : \E j \in 1..n : values[j].val = k
    BY <1>6 DEF FromInput
  <2>4. \A k \in 1..n : \E j \in 1..n : s[j].val = k
    <3> SUFFICES ASSUME NEW k \in 1..n PROVE \E j \in 1..n : s[j].val = k
      OBVIOUS
    <3>1. PICK m \in 1..n : values[m].val = k
      BY <2>3
    <3>2. PICK j \in 1..n : s[j] = values[m]
      BY <2>2
    <3> QED
      BY <3>1, <3>2
  <2> QED
    BY <2>1, <2>4 DEF FromInput
<1>8. InOrder(s, n)
  BY <1>2 DEF IsStableSort, InOrder
<1>9. Final(s, s, 1)
  <2>1. s[1].at \in Nat
    BY <1>1, <1>5 DEF Row
  <2> QED
    BY <2>1 DEF Final, Least
<1>10. TypeOK'
  BY <1>1, <1>2, <1>5 DEF LoopInv, TypeOK
<1> QED
  BY <1>1, <1>2, <1>7, <1>8, <1>9, <1>10 DEF LoopInv

LEMMA LoopStep == LoopInv /\ [Next]_vars => LoopInv'
<1> SUFFICES ASSUME LoopInv, [Next]_vars PROVE LoopInv'
  OBVIOUS
<1>1. CASE TooShort
  <2>1. /\ n' = n /\ input' = input /\ sorted' = sorted /\ values' = values /\ i' = i
        /\ pc' = "done" /\ values = sorted /\ n \in {0, 1}
    BY <1>1 DEF TooShort, LoopInv, TypeOK
  <2>2. \A k \in 1..n : sorted[k].at \in Nat
    BY DEF LoopInv, TypeOK, Row
  <2>3. Final(sorted, sorted, n)
    BY <2>1, <2>2 DEF Final, Least
  <2>4. InOrder(sorted, n)
    BY <2>1 DEF InOrder
  <2> QED
    BY <2>1, <2>3, <2>4 DEF LoopInv, TypeOK
<1>2. CASE Sort
  BY <1>2, SortStep
<1>3. CASE Nudge
  BY <1>3, NudgeStep
<1>4. CASE Return
  <2>1. /\ n' = n /\ input' = input /\ sorted' = sorted /\ values' = values /\ i' = i
        /\ pc' = "done" /\ pc = "nudge" /\ i - 1 = n
    BY <1>4 DEF Return, LoopInv, TypeOK
  <2> QED
    BY <2>1 DEF LoopInv, TypeOK
<1>5. CASE UNCHANGED vars
  BY <1>5 DEF vars, LoopInv, TypeOK
<1> QED
  BY <1>1, <1>2, <1>3, <1>4, <1>5 DEF Next

\* timestamps.go:5-7: whatever the times, the returned rows are strictly
\* increasing.
THEOREM ResultIncreases == Spec => []StrictlyIncreasing
<1>1. LoopInv => StrictlyIncreasing
  BY DEF LoopInv, StrictlyIncreasing, Final, TypeOK
<1> QED
  BY <1>1, LoopInit, LoopStep, PTL DEF Spec

\* timestamps.go:14-16: they are a permutation of the argument in which
\* distinct times keep their order and equal ones the order they had.
THEOREM ResultKeepsOrder == Spec => []OrderKept
<1>1. LoopInv => OrderKept
  BY DEF LoopInv, OrderKept, FromInput, InOrder
<1> QED
  BY <1>1, LoopInit, LoopStep, PTL DEF Spec

\* timestamps.go:15-16: no row is moved further than the rows before it require.
THEOREM ResultDriftsLeast == Spec => []LeastDrift
<1>1. LoopInv => LeastDrift
  BY DEF LoopInv, LeastDrift, Final, Least, TypeOK
<1> QED
  BY <1>1, LoopInit, LoopStep, PTL DEF Spec

\* The loop never indexes outside the rows and keeps their number: every variable
\* has its type, whatever the times.
THEOREM LoopTypeCorrect == Spec => []TypeOK
<1>1. LoopInv => TypeOK
  BY DEF LoopInv
<1> QED
  BY <1>1, LoopInit, LoopStep, PTL DEF Spec

=============================================================================
