--------------------------- MODULE StreamsProofs ---------------------------
(***************************************************************************)
(* Theorems about Streams for every set of groups and every alert in them: *)
(* what is pushed, and what Loki has after retries, crashes and replays.   *)
(*                                                                         *)
(* The rows of a stream are put in order by UpTo.  What EnsureMonotonic    *)
(* makes of them is strictly increasing in that order (NudgedIncreases),   *)
(* which is why no row is dropped as a repeat; and it moves none if their  *)
(* times differ already (NudgedStands), which is why a replayed row is     *)
(* found to be one.  No two label sets have the same key (KeyTellsApart),  *)
(* which is why a merge puts no row under the labels of another alert.     *)
(***************************************************************************)
EXTENDS Streams, TLAPS, FiniteSetTheorems, FunctionTheorems, SequenceTheorems,
        WellFoundedInduction

-----------------------------------------------------------------------------
(* Numbers and finite sets *)

\* A set of numbers has a least one.
LEMMA LeastExists ==
    ASSUME NEW T \in SUBSET Nat, T # {}
    PROVE  \E x \in T : \A y \in T : x <= y
<1>1. PICK x \in T : \A y \in T : ~(<<y, x>> \in OpToRel(<, Nat))
  BY WFMin, NatLessThanWellFounded
<1>2. ASSUME NEW y \in T, y < x PROVE FALSE
  <2>1. x \in Nat /\ y \in Nat
    OBVIOUS
  <2>2. <<y, x>> \in OpToRel(<, Nat)
    BY <1>2, <2>1 DEF OpToRel
  <2> QED
    BY <1>1, <2>2
<1>3. \A y \in T : x \in Nat /\ y \in Nat
  OBVIOUS
<1> QED
  BY <1>2, <1>3

\* A bounded set of numbers has a greatest one, which is its Max.
LEMMA MaxIsGreatest ==
    ASSUME NEW S \in SUBSET Nat, S # {}, NEW b \in Nat, \A x \in S : x <= b
    PROVE  Max(S) \in S /\ \A x \in S : x <= Max(S)
<1> DEFINE Bounds == {n \in Nat : \A x \in S : x <= n}
<1>1. Bounds \in SUBSET Nat /\ Bounds # {}
  OBVIOUS
<1>2. PICK m \in Bounds : \A n \in Bounds : m <= n
  BY <1>1, LeastExists
<1>3. m \in S
  <2> SUFFICES ASSUME m \notin S PROVE FALSE
    OBVIOUS
  <2>1. PICK x \in S : TRUE
    OBVIOUS
  <2>2. m \in Nat /\ x \in Nat /\ x <= m /\ x # m
    BY <1>2
  <2>3. m - 1 \in Nat
    BY <2>2
  <2>4. \A y \in S : y <= m - 1
    <3> TAKE y \in S
    <3>1. y \in Nat /\ y <= m /\ y # m
      BY <1>2
    <3> QED
      BY <2>2, <3>1
  <2>5. m - 1 \in Bounds
    BY <2>3, <2>4
  <2> QED
    BY <1>2, <2>2, <2>5
<1>4. \E x \in S : \A y \in S : x >= y
  BY <1>2, <1>3
<1> QED
  BY <1>4 DEF Max

\* As many values as arguments, and no more.
LEMMA InjectiveBound ==
    ASSUME NEW S, NEW T, IsFiniteSet(T), NEW h \in [S -> T],
           \A x, y \in S : h[x] = h[y] => x = y
    PROVE  IsFiniteSet(S) /\ Cardinality(S) <= Cardinality(T)
<1>1. h \in Injection(S, T)
  BY DEF Injection, IsInjective
<1> QED
  BY <1>1, FS_Injection

\* The image of a finite set is finite and no larger.
LEMMA ImageBound ==
    ASSUME NEW S, IsFiniteSet(S), NEW T, NEW h \in [S -> T], \A y \in T : \E x \in S : h[x] = y
    PROVE  IsFiniteSet(T) /\ Cardinality(T) <= Cardinality(S)
<1>1. h \in Surjection(S, T)
  BY DEF Surjection
<1> QED
  BY <1>1, FS_Surjection

-----------------------------------------------------------------------------
(* The order of rows and their times *)

\* The rows of a stream: each was appended once.
Appended(R) ==
    /\ R \subseteq [at : Nat, place : Nat, index : Nat, line : STRING] /\ IsFiniteSet(R)
    /\ \A x, y \in R : x.place = y.place /\ x.index = y.index => x = y

\* timestamps.go:24-26: the stable sort is a total order of the rows.
LEMMA RowsAreOrdered ==
    ASSUME NEW R, Appended(R)
    PROVE  /\ \A x \in R : x \in UpTo(R, x)
           /\ \A x, y \in R : x \in UpTo(R, y) \/ y \in UpTo(R, x)
           /\ \A x, y \in R : x \in UpTo(R, y) /\ y \in UpTo(R, x) => x = y
           /\ \A x, y \in R : x \in UpTo(R, y) => UpTo(R, x) \subseteq UpTo(R, y)
<1> USE DEF Appended, UpTo, Before
<1>1. \A x \in R : x.at \in Nat /\ x.place \in Nat /\ x.index \in Nat
  OBVIOUS
<1>2. \A x \in R : x \in UpTo(R, x)
  BY <1>1
<1>3. \A x, y \in R : x \in UpTo(R, y) \/ y \in UpTo(R, x)
  BY <1>1
<1>4. ASSUME NEW x \in R, NEW y \in R, x \in UpTo(R, y), y \in UpTo(R, x) PROVE x = y
  <2>1. x.place = y.place /\ x.index = y.index
    BY <1>1, <1>4
  <2> QED
    BY <2>1
<1>5. ASSUME NEW x \in R, NEW y \in R, x \in UpTo(R, y), NEW z \in UpTo(R, x)
      PROVE  z \in UpTo(R, y)
  BY <1>1, <1>5
<1> QED
  BY <1>2, <1>3, <1>4, <1>5

\* The number of a row in that order is the larger, the later it is.
LEMMA NumbersIncrease ==
    ASSUME NEW R, Appended(R)
    PROVE  /\ \A x \in R : Number(R, x) \in Nat \ {0} /\ IsFiniteSet(UpTo(R, x))
           /\ \A x, y \in R : x \in UpTo(R, y) => Number(R, x) <= Number(R, y)
           /\ \A x, y \in R : x \in UpTo(R, y) /\ x # y => Number(R, x) < Number(R, y)
<1>1. ASSUME NEW x \in R PROVE IsFiniteSet(UpTo(R, x)) /\ Number(R, x) \in Nat \ {0}
  <2>1. IsFiniteSet(UpTo(R, x))
    BY FS_Subset DEF Appended, UpTo
  <2>2. UpTo(R, x) # {}
    BY RowsAreOrdered
  <2> QED
    BY <2>1, <2>2, FS_CardinalityType, FS_EmptySet DEF Number
<1>2. ASSUME NEW x \in R, NEW y \in R, x \in UpTo(R, y), x # y
      PROVE  Number(R, x) < Number(R, y)
  <2>1. UpTo(R, x) \in SUBSET UpTo(R, y) /\ y \in UpTo(R, y) /\ y \notin UpTo(R, x)
    BY <1>2, RowsAreOrdered
  <2>2. Number(R, x) <= Number(R, y) /\ Number(R, x) # Number(R, y)
    BY <1>1, <2>1, FS_Subset DEF Number
  <2> QED
    BY <1>1, <2>2
<1>3. ASSUME NEW x \in R, NEW y \in R, x \in UpTo(R, y) PROVE Number(R, x) <= Number(R, y)
  BY <1>1, <1>2, <1>3
<1> QED
  BY <1>1, <1>2, <1>3

\* The time a row gets: no row before it leaves it less.
LEMMA NudgedIsForced ==
    ASSUME NEW R, Appended(R), NEW y \in R
    PROVE  /\ Nudged(R, y) \in Nat
           /\ \E x \in UpTo(R, y) : Nudged(R, y) = x.at + (Number(R, y) - Number(R, x))
           /\ \A x \in UpTo(R, y) : x.at + (Number(R, y) - Number(R, x)) <= Nudged(R, y)
<1> DEFINE S == {x.at + (Number(R, y) - Number(R, x)) : x \in UpTo(R, y)}
<1>1. \A x \in UpTo(R, y) : /\ x \in R /\ x.at \in Nat /\ x.at <= y.at
                            /\ Number(R, x) \in Nat /\ Number(R, x) <= Number(R, y)
  <2> TAKE x \in UpTo(R, y)
  <2>1. x \in R /\ x.at \in Nat /\ x.at <= y.at
    BY DEF Appended, UpTo
  <2> QED
    BY <2>1, NumbersIncrease
<1>2. Number(R, y) \in Nat /\ y.at \in Nat /\ y \in UpTo(R, y)
  BY NumbersIncrease, RowsAreOrdered DEF Appended
<1>3. S \in SUBSET Nat /\ S # {}
  BY <1>1, <1>2
<1>4. y.at + Number(R, y) \in Nat /\ \A n \in S : n <= y.at + Number(R, y)
  BY <1>1, <1>2
<1>5. Max(S) \in S /\ \A n \in S : n <= Max(S)
  BY <1>3, <1>4, MaxIsGreatest
<1> HIDE DEF S
<1>6. Nudged(R, y) = Max(S)
  BY DEF Nudged, S
<1> QED
  BY <1>3, <1>5, <1>6 DEF S

\* timestamps.go:6-7: a strictly increasing, unique time.
THEOREM NudgedIncreases ==
    ASSUME NEW R, Appended(R), NEW x \in R, NEW y \in R, x \in UpTo(R, y), x # y
    PROVE  Nudged(R, x) < Nudged(R, y)
<1>1. PICK z \in UpTo(R, x) : Nudged(R, x) = z.at + (Number(R, x) - Number(R, z))
  BY NudgedIsForced
<1>2. z \in UpTo(R, y) /\ z \in R
  BY RowsAreOrdered DEF UpTo
<1>3. z.at + (Number(R, y) - Number(R, z)) <= Nudged(R, y)
  BY <1>2, NudgedIsForced
<1>4. Number(R, x) < Number(R, y)
  BY NumbersIncrease
<1>5. Number(R, x) \in Nat /\ Number(R, y) \in Nat /\ Number(R, z) \in Nat /\ z.at \in Nat
      /\ Nudged(R, x) \in Nat /\ Nudged(R, y) \in Nat
  BY <1>2, NumbersIncrease, NudgedIsForced DEF Appended
<1> QED
  BY <1>1, <1>3, <1>4, <1>5

\* timestamps.go:11-13: no two rows of a stream get the same time.
LEMMA NudgedIsUnique ==
    ASSUME NEW R, Appended(R), NEW x \in R, NEW y \in R, Nudged(R, x) = Nudged(R, y)
    PROVE  x = y
<1>1. x \in UpTo(R, y) \/ y \in UpTo(R, x)
  BY RowsAreOrdered
<1>2. Nudged(R, x) \in Nat /\ Nudged(R, y) \in Nat
  BY NudgedIsForced
<1> QED
  BY <1>1, <1>2, NudgedIncreases

\* Rows of distinct times keep them.
THEOREM NudgedStands ==
    ASSUME NEW R, Appended(R), \A x, y \in R : x.at = y.at => x = y, NEW y \in R
    PROVE  Nudged(R, y) = y.at
<1>1. ASSUME NEW x \in UpTo(R, y)
      PROVE  x.at + (Number(R, y) - Number(R, x)) <= y.at
  <2> DEFINE D == UpTo(R, y) \ UpTo(R, x)
             h == [z \in D |-> z.at]
  <2>1. x \in R /\ x.at \in Nat /\ y.at \in Nat /\ x.at <= y.at
        /\ UpTo(R, x) \subseteq UpTo(R, y)
    BY RowsAreOrdered DEF Appended, UpTo
  <2>2. \A z \in D : z \in R /\ z.at \in (x.at + 1)..y.at
    <3> TAKE z \in D
    <3>1. z \in R /\ z.at \in Nat /\ z.at <= y.at
      BY <2>1 DEF Appended, UpTo
    <3>2. x \in UpTo(R, z) /\ x # z
      BY <2>1, <3>1, RowsAreOrdered
    <3>3. x.at <= z.at /\ x.at # z.at
      BY <2>1, <3>1, <3>2 DEF UpTo
    <3> QED
      BY <2>1, <3>1, <3>3
  <2>3. h \in [D -> (x.at + 1)..y.at] /\ \A z1, z2 \in D : h[z1] = h[z2] => z1 = z2
    BY <2>2
  <2>4. /\ IsFiniteSet((x.at + 1)..y.at)
        /\ Cardinality((x.at + 1)..y.at) = y.at - x.at
    <3>1. x.at + 1 \in Int /\ y.at \in Int
      BY <2>1
    <3>2. /\ IsFiniteSet((x.at + 1)..y.at)
          /\ Cardinality((x.at + 1)..y.at) =
                IF x.at + 1 > y.at THEN 0 ELSE y.at - (x.at + 1) + 1
      BY <3>1, FS_Interval
    <3> QED
      BY <2>1, <3>2
  <2>5. IsFiniteSet(D) /\ Cardinality(D) <= y.at - x.at
    <3> HIDE DEF h, D
    <3>1. IsFiniteSet(D) /\ Cardinality(D) <= Cardinality((x.at + 1)..y.at)
      BY <2>3, <2>4, InjectiveBound
    <3> QED
      BY <2>4, <3>1
  <2>6. Number(R, y) = Number(R, x) + Cardinality(D)
    <3>1. IsFiniteSet(UpTo(R, y)) /\ IsFiniteSet(UpTo(R, x))
      BY <2>1, NumbersIncrease
    <3>2. UpTo(R, y) \cap UpTo(R, x) = UpTo(R, x)
      BY <2>1
    <3>3. Cardinality(D) = Cardinality(UpTo(R, y)) - Cardinality(UpTo(R, y) \cap UpTo(R, x))
      BY <3>1, FS_Difference
    <3>4. Number(R, y) \in Nat /\ Number(R, x) \in Nat
      BY <2>1, NumbersIncrease
    <3> HIDE DEF D
    <3>5. Cardinality(D) = Number(R, y) - Number(R, x)
      BY <3>2, <3>3 DEF Number
    <3> QED
      BY <3>4, <3>5
  <2>7. Number(R, y) \in Nat /\ Number(R, x) \in Nat /\ Cardinality(D) \in Nat
    BY <2>1, <2>5, NumbersIncrease, FS_CardinalityType
  <2> HIDE DEF D
  <2> QED
    BY <2>1, <2>5, <2>6, <2>7
<1>2. y \in UpTo(R, y) /\ y.at \in Nat /\ Number(R, y) \in Nat
  BY RowsAreOrdered, NumbersIncrease DEF Appended
<1>3. y.at <= Nudged(R, y) /\ Nudged(R, y) \in Nat
  <2>1. y.at + (Number(R, y) - Number(R, y)) <= Nudged(R, y)
    BY <1>2, NudgedIsForced
  <2> QED
    BY <1>2, <2>1, NudgedIsForced
<1>4. Nudged(R, y) <= y.at
  BY <1>1, NudgedIsForced
<1> QED
  BY <1>2, <1>3, <1>4

-----------------------------------------------------------------------------
(* The loop and its closed form *)

\* The loop of Timestamps after it returned: N rows v, which were s after the sort.
Loop(N, s, v) ==
    INSTANCE Timestamps WITH Times <- Nat, MaxLen <- N, n <- N, input <- <<>>,
                             sorted <- s, values <- v, i <- 0, pc <- "done"

\* timestamps.go:24-26: s is R after the stable sort.
Listed(R, s) ==
    /\ s \in [1..Cardinality(R) -> R]
    /\ \A y \in R : \E k \in 1..Cardinality(R) : s[k] = y
    /\ \A j, k \in 1..Cardinality(R) : j < k => s[j] \in UpTo(R, s[k]) /\ s[j] # s[k]

\* The number of a row is its index in the sorted slice.
LEMMA NumberIsIndex ==
    ASSUME NEW R, Appended(R), NEW s, Listed(R, s), NEW k \in 1..Cardinality(R)
    PROVE  UpTo(R, s[k]) = {s[j] : j \in 1..k} /\ Number(R, s[k]) = k
<1> DEFINE N == Cardinality(R)
           h == [j \in 1..k |-> s[j]]
           U == {s[j] : j \in 1..k}
<1>1. N \in Nat /\ k \in Nat
  <2>1. N \in Nat
    BY FS_CardinalityType DEF Appended
  <2> QED
    BY <2>1
<1> HIDE DEF N
<1>2. /\ \A j \in 1..N : s[j] \in R
      /\ \A y \in R : \E j \in 1..N : s[j] = y
      /\ \A i, j \in 1..N : i < j => s[i] \in UpTo(R, s[j]) /\ s[i] # s[j]
  BY DEF Listed, N
<1>3. k \in 1..N /\ \A j \in 1..k : j \in 1..N /\ j <= k
  BY <1>1 DEF N
<1>4. ASSUME NEW j \in 1..k PROVE s[j] \in UpTo(R, s[k])
  <2>1. CASE j = k
    BY <1>2, <1>3, <2>1, RowsAreOrdered
  <2>2. CASE j # k
    BY <1>1, <1>2, <1>3, <2>2
  <2> QED
    BY <2>1, <2>2
<1>5. ASSUME NEW x \in UpTo(R, s[k]) PROVE x \in U
  <2>1. x \in R
    BY DEF UpTo
  <2>2. PICK j \in 1..N : s[j] = x
    BY <1>2, <2>1
  <2>3. ASSUME k < j PROVE FALSE
    <3>1. s[k] \in UpTo(R, s[j]) /\ s[k] # s[j]
      BY <1>2, <1>3, <2>2, <2>3
    <3>2. s[j] \in UpTo(R, s[k]) /\ s[j] \in R /\ s[k] \in R
      BY <1>2, <1>3, <2>2
    <3> QED
      BY <3>1, <3>2, RowsAreOrdered
  <2>4. j \in 1..k
    BY <1>1, <2>2, <2>3
  <2> QED
    BY <2>2, <2>4
<1>6. UpTo(R, s[k]) = U
  BY <1>4, <1>5
<1>7. Cardinality(U) = k
  <2>1. \A i, j \in 1..k : h[i] = h[j] => i = j
    BY <1>1, <1>2, <1>3
  <2>2. h \in [1..k -> U] /\ \A y \in U : \E j \in 1..k : h[j] = y
    OBVIOUS
  <2> HIDE DEF h, U
  <2>3. h \in Surjection(1..k, U) /\ h \in Injection(1..k, U)
    BY <2>1, <2>2 DEF Injection, Surjection, IsInjective
  <2>4. IsFiniteSet(1..k) /\ Cardinality(1..k) = k
    BY <1>1, FS_Interval
  <2> QED
    BY <2>3, <2>4, FS_Surjection
<1>8. Number(R, s[k]) = k
  <2> HIDE DEF U
  <2> QED
    BY <1>6, <1>7 DEF Number
<1> QED
  BY <1>6, <1>8

\* timestamps.go:19-34: what the loop makes of a slice of rows is what
\* EnsureMonotonic makes of the set of them.
THEOREM LoopComputesNudged ==
    ASSUME NEW R, Appended(R), NEW s, Listed(R, s), NEW v,
           Loop(Cardinality(R), s, v)!LeastDrift
    PROVE  \A k \in 1..Cardinality(R) : v[k].at = Nudged(R, s[k])
<1> SUFFICES ASSUME NEW k \in 1..Cardinality(R)
             PROVE  v[k].at = Nudged(R, s[k])
  OBVIOUS
<1> DEFINE y == s[k]
<1>1. /\ \A j \in 1..k : v[k].at >= s[j].at + (k - j)
      /\ \E j \in 1..k : v[k].at = s[j].at + (k - j)
  BY DEF Loop!LeastDrift
<1>2. Cardinality(R) \in Nat /\ k \in Nat
  BY FS_CardinalityType DEF Appended
<1>3. \A j \in 1..k : /\ s[j] \in R /\ s[j].at \in Nat
                      /\ Number(R, s[j]) = j /\ s[j] \in UpTo(R, y)
  <2> TAKE j \in 1..k
  <2>1. j \in 1..Cardinality(R)
    BY <1>2
  <2>2. s[j] \in R
    BY <2>1 DEF Listed
  <2>3. s[j].at \in Nat
    BY <2>2 DEF Appended
  <2> QED
    BY <2>1, <2>2, <2>3, NumberIsIndex
<1>4. Number(R, y) = k /\ y \in R
  BY <1>2, <1>3
<1>5. \A x \in UpTo(R, y) : \E j \in 1..k : x = s[j]
  BY NumberIsIndex
<1>6. /\ Nudged(R, y) \in Nat
      /\ \E x \in UpTo(R, y) : Nudged(R, y) = x.at + (Number(R, y) - Number(R, x))
      /\ \A x \in UpTo(R, y) : x.at + (Number(R, y) - Number(R, x)) <= Nudged(R, y)
  BY <1>4, NudgedIsForced
<1>7. PICK j \in 1..k : Nudged(R, y) = s[j].at + (k - j)
  BY <1>3, <1>4, <1>5, <1>6
<1>8. PICK i \in 1..k : v[k].at = s[i].at + (k - i)
  BY <1>1
<1>9. v[k].at <= Nudged(R, y)
  BY <1>3, <1>4, <1>6, <1>8
<1>10. v[k].at >= Nudged(R, y)
  BY <1>1, <1>7
<1> QED
  BY <1>2, <1>3, <1>7, <1>8, <1>9, <1>10

-----------------------------------------------------------------------------
(* Labels *)

\* stream.go:103-130: a later assignment wins, the other labels stay.
LEMMA OverIs ==
    ASSUME NEW F, NEW G
    PROVE  /\ DOMAIN Over(F, G) = DOMAIN F \cup DOMAIN G
           /\ \A n \in DOMAIN F : Over(F, G)[n] = F[n]
           /\ \A n \in DOMAIN G : n \notin DOMAIN F => Over(F, G)[n] = G[n]
BY DEF Over

\* stream.go:135-144: what putStreamLabel takes of a map.
LEMMA PuttableIs ==
    ASSUME NEW labels
    PROVE  /\ DOMAIN Puttable(labels) = {n \in DOMAIN labels : labels[n] # <<>> /\ n \in ValidNames}
           /\ \A n \in DOMAIN Puttable(labels) : Puttable(labels)[n] = labels[n]
BY DEF Puttable, Restrict

\* stream.go:113-122: what it takes of the labels of a group.
LEMMA PromotedIs ==
    ASSUME NEW labels
    PROVE  /\ DOMAIN Promoted(labels) =
                {n \in DOMAIN labels \cap Allowed : labels[n] # <<>> /\ n \in ValidNames}
           /\ \A n \in DOMAIN Promoted(labels) : Promoted(labels)[n] = labels[n]
<1> DEFINE l == Restrict(labels, DOMAIN labels \cap Allowed)
<1>1. DOMAIN l = DOMAIN labels \cap Allowed /\ \A n \in DOMAIN l : l[n] = labels[n]
  BY DEF Restrict
<1>2. Promoted(labels) = Puttable(l)
  BY DEF Promoted
<1> HIDE DEF l
<1> QED
  BY <1>1, <1>2, PuttableIs

\* stream.go:124-127: the labels that every stream has.
LEMMA ReservedIs ==
    ASSUME NEW d
    PROVE  /\ DOMAIN Reserved(d) = ReservedNames \ {"alert_status"}
           /\ Reserved(d)["receiver"] = d.receiver
           /\ Reserved(d)["status"] = d.status
<1>1. DOMAIN Reserved(d) = {"service_name", "receiver", "status", "alert_name"}
  BY DEF Reserved
<1> QED
  BY <1>1 DEF Reserved, ReservedNames

\* stream.go:103-130: which labels a stream has, and what is in those the program
\* sets itself and those of the group.
LEMMA StreamLabelsAre ==
    ASSUME NEW d, NEW status
    PROVE  /\ DOMAIN StreamLabels(d, status) =
                ReservedNames \cup DOMAIN Promoted(d.groupLabels)
                  \cup DOMAIN Promoted(d.commonLabels) \cup DOMAIN Puttable(d.extraLabels)
           /\ StreamLabels(d, status)["alert_status"] = status
           /\ StreamLabels(d, status)["receiver"] = d.receiver
           /\ StreamLabels(d, status)["status"] = d.status
           /\ \A n \in DOMAIN Promoted(d.groupLabels) \ ReservedNames :
                 StreamLabels(d, status)[n] = d.groupLabels[n]
<1> DEFINE common == Over(Promoted(d.commonLabels), Puttable(d.extraLabels))
           group == Over(Promoted(d.groupLabels), common)
           top == [alert_status |-> status]
           base == BuildStreamLabels(d)
<1>1. base = Over(Reserved(d), group)
  BY DEF BuildStreamLabels
<1>2. DOMAIN common = DOMAIN Promoted(d.commonLabels) \cup DOMAIN Puttable(d.extraLabels)
  BY OverIs
<1>3. /\ DOMAIN group = DOMAIN Promoted(d.groupLabels) \cup DOMAIN common
      /\ \A n \in DOMAIN Promoted(d.groupLabels) : group[n] = d.groupLabels[n]
  <2> HIDE DEF common
  <2>1. /\ DOMAIN group = DOMAIN Promoted(d.groupLabels) \cup DOMAIN common
        /\ \A n \in DOMAIN Promoted(d.groupLabels) : group[n] = Promoted(d.groupLabels)[n]
    BY OverIs
  <2>2. \A n \in DOMAIN Promoted(d.groupLabels) : Promoted(d.groupLabels)[n] = d.groupLabels[n]
    BY PromotedIs
  <2> QED
    BY <2>1, <2>2
<1>4. DOMAIN top = {"alert_status"} /\ top["alert_status"] = status
  OBVIOUS
<1> HIDE DEF common, group, top, base
<1>5. /\ DOMAIN base = (ReservedNames \ {"alert_status"}) \cup DOMAIN group
      /\ base["receiver"] = d.receiver /\ base["status"] = d.status
      /\ \A n \in DOMAIN group \ ReservedNames : base[n] = group[n]
  <2>1. /\ DOMAIN base = DOMAIN Reserved(d) \cup DOMAIN group
        /\ \A n \in DOMAIN Reserved(d) : base[n] = Reserved(d)[n]
        /\ \A n \in DOMAIN group : n \notin DOMAIN Reserved(d) => base[n] = group[n]
    <3> DEFINE o == Over(Reserved(d), group)
    <3>1. /\ DOMAIN o = DOMAIN Reserved(d) \cup DOMAIN group
          /\ \A n \in DOMAIN Reserved(d) : o[n] = Reserved(d)[n]
          /\ \A n \in DOMAIN group : n \notin DOMAIN Reserved(d) => o[n] = group[n]
      BY OverIs
    <3> QED
      BY <1>1, <3>1
  <2>2. /\ DOMAIN Reserved(d) = ReservedNames \ {"alert_status"}
        /\ Reserved(d)["receiver"] = d.receiver
        /\ Reserved(d)["status"] = d.status
    BY ReservedIs
  <2>3. "receiver" \in DOMAIN Reserved(d) /\ "status" \in DOMAIN Reserved(d)
    BY <2>2 DEF ReservedNames
  <2> QED
    BY <2>1, <2>2, <2>3
<1>6. StreamLabels(d, status) = Over(top, base)
  BY DEF StreamLabels, top, base
<1>11. /\ DOMAIN Over(top, base) = DOMAIN top \cup DOMAIN base
       /\ \A n \in DOMAIN top : Over(top, base)[n] = top[n]
       /\ \A n \in DOMAIN base : n \notin DOMAIN top => Over(top, base)[n] = base[n]
  BY OverIs
<1>7. "receiver" \in DOMAIN base /\ "status" \in DOMAIN base
      /\ "receiver" \notin DOMAIN top /\ "status" \notin DOMAIN top
      /\ "alert_status" \in ReservedNames /\ DOMAIN top \subseteq ReservedNames
  BY <1>4, <1>5 DEF ReservedNames
<1>8. DOMAIN StreamLabels(d, status) = ReservedNames \cup DOMAIN group
  BY <1>4, <1>5, <1>6, <1>7, <1>11
<1>9. ASSUME NEW n \in DOMAIN Promoted(d.groupLabels) \ ReservedNames
      PROVE  StreamLabels(d, status)[n] = d.groupLabels[n]
  <2>1. n \in DOMAIN group \ ReservedNames /\ n \notin DOMAIN top
    BY <1>3, <1>7
  <2>2. n \in DOMAIN base /\ base[n] = group[n]
    BY <1>5, <2>1
  <2> QED
    BY <1>3, <1>6, <1>11, <2>1, <2>2
<1>10. /\ StreamLabels(d, status)["alert_status"] = status
       /\ StreamLabels(d, status)["receiver"] = d.receiver
       /\ StreamLabels(d, status)["status"] = d.status
  BY <1>4, <1>5, <1>6, <1>7, <1>11
<1> QED
  BY <1>2, <1>3, <1>8, <1>9, <1>10

\* labels.go:24-28: names from outside are checked, those of the program are fine.
LEMMA LabelNamesAreValid ==
    ASSUME NEW d, NEW status
    PROVE  DOMAIN StreamLabels(d, status) \subseteq ValidNames
BY StreamLabelsAre, PromotedIs, PuttableIs, StreamsAssumption

\* stream.go:103-130: an alert is found by the labels of its own group and status.
LEMMA LabelsFind ==
    ASSUME NEW d, NEW alert
    PROVE  FoundBy(StreamLabels(d, alert.status), d, alert)
<1> DEFINE status == alert.status
           labels == StreamLabels(d, status)
<1> HIDE DEF status
<1>0. /\ DOMAIN labels = ReservedNames \cup DOMAIN Promoted(d.groupLabels)
                           \cup DOMAIN Promoted(d.commonLabels) \cup DOMAIN Puttable(d.extraLabels)
      /\ labels["alert_status"] = status
      /\ labels["receiver"] = d.receiver
      /\ labels["status"] = d.status
      /\ \A n \in DOMAIN Promoted(d.groupLabels) \ ReservedNames : labels[n] = d.groupLabels[n]
  BY StreamLabelsAre
<1> HIDE DEF labels
<1>1. DOMAIN labels \subseteq ReservedNames \cup Allowed \cup DOMAIN d.extraLabels
  <2>1. /\ DOMAIN Promoted(d.groupLabels) \subseteq Allowed
        /\ DOMAIN Promoted(d.commonLabels) \subseteq Allowed
        /\ DOMAIN Puttable(d.extraLabels) \subseteq DOMAIN d.extraLabels
    BY PromotedIs, PuttableIs
  <2> QED
    BY <1>0, <2>1
<1>2. ASSUME NEW n \in (DOMAIN d.groupLabels \cap Allowed \cap ValidNames) \ ReservedNames,
             d.groupLabels[n] # <<>>
      PROVE  Lookup(labels, n) = d.groupLabels[n]
  <2>1. n \in DOMAIN Promoted(d.groupLabels) \ ReservedNames
    BY <1>2, PromotedIs
  <2>2. n \in DOMAIN labels /\ labels[n] = d.groupLabels[n]
    BY <1>0, <2>1
  <2> QED
    BY <2>2 DEF Lookup
<1> QED
  BY <1>0, <1>1, <1>2 DEF FoundBy, labels, status

-----------------------------------------------------------------------------
(* The key of a stream *)

\* What a key is written with: the characters of values, names and punctuation.
Tokens == STRING \cup {QuoteMark, Backslash, ",", ":", "alertsnitch"}

\* The two characters that strconv.Quote escapes.
LEMMA PunctuationIs ==
    /\ QuoteMark \in Tokens /\ Backslash \in Tokens /\ QuoteMark # Backslash
    /\ <<QuoteMark>> \in Seq(Tokens) /\ Len(<<QuoteMark>>) = 1
<1>1. QuoteMark # Backslash
  BY Zenon DEF QuoteMark, Backslash
<1>2. QuoteMark \in Tokens /\ Backslash \in Tokens
  BY DEF Tokens
<1>3. <<QuoteMark>> \in Seq(Tokens) /\ Len(<<QuoteMark>>) = 1
  BY <1>2
<1> QED
  BY <1>1, <1>2, <1>3

\* The first pieces of s, one after the other.
Joins(f, s) ==
    /\ f[0] = <<>> /\ \A i \in 0..Len(s) : f[i] \in Seq(Tokens)
    /\ \A i \in 1..Len(s) : f[i] = f[i - 1] \o s[i]

\* A flattened sequence is the last of its joins.
LEMMA FlattenSeqIs ==
    ASSUME NEW s \in Seq(Seq(Tokens))
    PROVE  \E f : Joins(f, s) /\ FlattenSeq(s) = f[Len(s)]
<1> DEFINE step(f, i) == IF i = 1 THEN s[i] ELSE f[i - 1] \o s[i]
           Rec(f, n) == f = [i \in 1..n |-> step(f, i)]
           Bad == {n \in 1..Len(s) : ~ \E f : Rec(f, n)}
<1>1. Bad = {}
  <2> SUFFICES ASSUME Bad # {} PROVE FALSE
    OBVIOUS
  <2>1. PICK n \in Bad : \A m \in Bad : n <= m
    <3>1. Bad \in SUBSET Nat
      <4> HIDE DEF Rec
      <4> QED
        OBVIOUS
    <3> QED
      BY <3>1, LeastExists
  <2>2. n \in 1..Len(s) /\ Len(s) \in Nat
    OBVIOUS
  <2>3. CASE n = 1
    <3> DEFINE f == [i \in 1..1 |-> s[1]]
    <3>1. Rec(f, 1)
      OBVIOUS
    <3> QED
      BY <2>3, <3>1
  <2>4. CASE n # 1
    <3>1. n - 1 \in 1..Len(s) /\ n - 1 \notin Bad
      <4>1. n - 1 \in 1..Len(s) /\ ~(n <= n - 1)
        BY <2>2, <2>4
      <4> HIDE DEF Bad
      <4> QED
        BY <2>1, <4>1
    <3>2. PICK g : Rec(g, n - 1)
      BY <3>1
    <3> DEFINE f == [i \in 1..n |-> IF i = n THEN g[n - 1] \o s[n] ELSE g[i]]
    <3>3. ASSUME NEW i \in 1..n PROVE f[i] = step(f, i)
      <4>1. CASE i = n
        <5>1. n \in 1..n /\ n - 1 \in 1..n /\ n - 1 # n
          BY <2>2, <2>4
        <5>2. f[n] = g[n - 1] \o s[n] /\ f[n - 1] = g[n - 1]
          BY <3>2, <5>1
        <5>3. step(f, n) = f[n - 1] \o s[n]
          BY <2>4
        <5> QED
          BY <4>1, <5>2, <5>3
      <4>2. CASE i # n
        <5>1. i \in 1..(n - 1) /\ (i # 1 => i - 1 \in 1..(n - 1))
          BY <2>2, <4>2
        <5>2. g[i] = step(g, i)
          BY <3>2, <5>1
        <5>3. i # 1 => f[i - 1] = g[i - 1]
          BY <2>2, <5>1
        <5> QED
          BY <4>2, <5>2, <5>3
      <4> QED
        BY <4>1, <4>2
    <3>4. Rec(f, n)
      BY <3>3
    <3> QED
      BY <3>4
  <2> QED
    BY <2>3, <2>4
<1>2. CASE Len(s) = 0
  <2> DEFINE f == [i \in 0..0 |-> <<>>]
  <2>1. s = <<>> /\ FlattenSeq(s) = s
    BY <1>2 DEF FlattenSeq
  <2>2. f[0] = <<>> /\ \A i \in 0..0 : f[i] \in Seq(Tokens)
    OBVIOUS
  <2> HIDE DEF f
  <2>3. Joins(f, s) /\ FlattenSeq(s) = f[Len(s)]
    BY <1>2, <2>1, <2>2 DEF Joins
  <2> QED
    BY <2>3
<1>3. CASE Len(s) # 0
  <2> DEFINE n == Len(s)
             g == CHOOSE g : Rec(g, n)
             f == [i \in 0..n |-> IF i = 0 THEN <<>> ELSE g[i]]
  <2>1. n \in 1..Len(s)
    BY <1>3
  <2>2. Rec(g, n)
    BY <1>1, <2>1
  <2>3. FlattenSeq(s) = g[n]
    BY <1>3 DEF FlattenSeq
  <2>4. \A i \in 1..n : g[i] = step(g, i)
    BY <2>2
  <2> HIDE DEF g
  <2>5. f[0] = <<>> /\ \A i \in 1..n : f[i] = g[i]
    BY <2>1
  <2>6. \A i \in 1..n : f[i] = f[i - 1] \o s[i]
    <3> TAKE i \in 1..n
    <3>1. s[i] \in Seq(Tokens)
      OBVIOUS
    <3>2. CASE i = 1
      <4>1. g[1] = s[1] /\ f[1] = g[1] /\ f[1 - 1] = <<>>
        BY <2>1, <2>4, <2>5
      <4>2. <<>> \o s[1] = s[1]
        BY <3>1, <3>2
      <4> QED
        BY <3>2, <4>1, <4>2
    <3>3. CASE i # 1
      <4>1. i - 1 \in 1..n
        BY <3>3
      <4> QED
        BY <2>4, <2>5, <3>3, <4>1
    <3> QED
      BY <3>2, <3>3
  <2>7. \A i \in 0..n : f[i] \in Seq(Tokens)
    <3> DEFINE Wrong == {i \in 0..n : f[i] \notin Seq(Tokens)}
    <3> SUFFICES ASSUME Wrong # {} PROVE FALSE
      OBVIOUS
    <3>1. Wrong \in SUBSET Nat
      OBVIOUS
    <3>2. PICK i \in Wrong : \A j \in Wrong : i <= j
      BY <3>1, LeastExists
    <3>3. i # 0
      <4> HIDE DEF f
      <4>1. f[0] \in Seq(Tokens)
        BY <2>5, EmptySeq
      <4> QED
        BY <4>1
    <3>4. i \in 1..n /\ i - 1 \in 0..n /\ i - 1 \notin Wrong
      BY <2>1, <3>2, <3>3
    <3>5. f[i - 1] \in Seq(Tokens) /\ s[i] \in Seq(Tokens)
      BY <3>4
    <3> HIDE DEF f
    <3>6. f[i] = f[i - 1] \o s[i] /\ f[i - 1] \o s[i] \in Seq(Tokens)
      BY <2>6, <3>4, <3>5, ConcatProperties
    <3> QED
      BY <3>6
  <2>8. FlattenSeq(s) = f[n]
    BY <2>1, <2>3, <2>5
  <2> HIDE DEF f
  <2>9. Joins(f, s)
    BY <2>5, <2>6, <2>7 DEF Joins
  <2> QED
    BY <2>8, <2>9
<1> QED
  BY <1>2, <1>3

\* Each join starts the later ones, and each piece follows the join before it.
LEMMA JoinsPrefix ==
    ASSUME NEW s \in Seq(Seq(Tokens)), NEW f, Joins(f, s)
    PROVE  /\ \A i, j \in 0..Len(s) : i <= j =>
                 /\ Len(f[i]) <= Len(f[j])
                 /\ \A x \in 1..Len(f[i]) : f[j][x] = f[i][x]
           /\ \A i \in 1..Len(s) : \A x \in 1..Len(s[i]) :
                 /\ Len(f[i - 1]) + x <= Len(f[Len(s)])
                 /\ f[Len(s)][Len(f[i - 1]) + x] = s[i][x]
<1> DEFINE Extends(j, i) == /\ Len(f[i]) <= Len(f[j])
                            /\ \A x \in 1..Len(f[i]) : f[j][x] = f[i][x]
<1>1. /\ Len(s) \in Nat /\ \A i \in 1..Len(s) : s[i] \in Seq(Tokens) /\ Len(s[i]) \in Nat
      /\ \A i \in 0..Len(s) : f[i] \in Seq(Tokens) /\ Len(f[i]) \in Nat
      /\ \A i \in 1..Len(s) : i - 1 \in 0..Len(s) /\ i \in 0..Len(s)
      /\ \A i \in 1..Len(s) : f[i] = f[i - 1] \o s[i]
  <2>1. Len(s) \in Nat /\ \A i \in 1..Len(s) : s[i] \in Seq(Tokens)
    OBVIOUS
  <2>2. \A q \in Seq(Tokens) : Len(q) \in Nat
    OBVIOUS
  <2>3. \A i \in 1..Len(s) : i - 1 \in 0..Len(s) /\ i \in 0..Len(s)
    BY <2>1
  <2> QED
    BY <2>1, <2>2, <2>3 DEF Joins
<1>2. ASSUME NEW i \in 1..Len(s)
      PROVE  /\ Len(f[i]) = Len(f[i - 1]) + Len(s[i])
             /\ \A x \in 1..Len(f[i - 1]) : f[i][x] = f[i - 1][x]
             /\ \A x \in 1..Len(s[i]) : f[i][Len(f[i - 1]) + x] = s[i][x]
  <2> DEFINE a == f[i - 1]
             c == s[i]
  <2>1. a \in Seq(Tokens) /\ c \in Seq(Tokens) /\ f[i] = a \o c
    BY <1>1
  <2> HIDE DEF a, c
  <2>2. Len(a) \in Nat /\ Len(c) \in Nat
    BY <2>1
  <2>3. /\ Len(a \o c) = Len(a) + Len(c)
        /\ \A x \in 1..(Len(a) + Len(c)) : (a \o c)[x] = IF x <= Len(a) THEN a[x] ELSE c[x - Len(a)]
    BY <2>1, ConcatProperties
  <2>4. \A x \in 1..Len(a) : (a \o c)[x] = a[x]
    BY <2>2, <2>3
  <2>5. ASSUME NEW x \in 1..Len(c) PROVE (a \o c)[Len(a) + x] = c[x]
    <3>1. Len(a) + x \in 1..(Len(a) + Len(c)) /\ ~(Len(a) + x <= Len(a)) /\ (Len(a) + x) - Len(a) = x
      BY <2>2
    <3> QED
      BY <2>3, <3>1
  <2> QED
    BY <2>1, <2>3, <2>4, <2>5 DEF a, c
<1>3. ASSUME NEW i \in 0..Len(s), NEW k \in 0..Len(s), i <= k PROVE Extends(k, i)
  <2> DEFINE Bad == {j \in 0..Len(s) : i <= j /\ ~Extends(j, i)}
  <2>1. SUFFICES ASSUME Bad # {} PROVE FALSE
    BY <1>3
  <2>2. Bad \in SUBSET Nat
    BY <1>1
  <2>3. PICK j \in Bad : \A n \in Bad : j <= n
    BY <2>1, <2>2, LeastExists
  <2>4. j \in 0..Len(s) /\ i <= j /\ ~Extends(j, i)
    OBVIOUS
  <2>5. Extends(i, i)
    BY <1>1
  <2> HIDE DEF Extends
  <2>6. j \in 1..Len(s) /\ j - 1 \in 0..Len(s) /\ i <= j - 1 /\ ~(j <= j - 1)
    BY <1>1, <2>4, <2>5
  <2>7. Extends(j - 1, i)
    BY <2>3, <2>6
  <2>8. Extends(j, i)
    <3>1. /\ Len(f[j]) = Len(f[j - 1]) + Len(s[j])
          /\ \A x \in 1..Len(f[j - 1]) : f[j][x] = f[j - 1][x]
      BY <1>2, <2>6
    <3>2. Len(f[i]) <= Len(f[j - 1]) /\ \A x \in 1..Len(f[i]) : f[j - 1][x] = f[i][x]
      BY <2>7 DEF Extends
    <3>3. Len(f[i]) \in Nat /\ Len(f[j]) \in Nat /\ Len(f[j - 1]) \in Nat /\ Len(s[j]) \in Nat
      BY <1>1, <2>6
    <3> DEFINE a == Len(f[i])
               c == Len(f[j])
               d == Len(f[j - 1])
               e == Len(s[j])
    <3> HIDE DEF a, c, d, e
    <3>6. c = d + e /\ a <= d /\ a \in Nat /\ c \in Nat /\ d \in Nat /\ e \in Nat
      BY <3>1, <3>2, <3>3 DEF a, c, d, e
    <3>7. a <= c
      BY <3>6
    <3>4. Len(f[i]) <= Len(f[j])
      BY <3>7 DEF a, c
    <3>5. \A x \in 1..Len(f[i]) : f[j][x] = f[i][x]
      BY <3>1, <3>2, <3>3
    <3> QED
      BY <3>4, <3>5 DEF Extends
  <2> QED
    BY <2>4, <2>8
<1>4. ASSUME NEW i \in 1..Len(s), NEW x \in 1..Len(s[i])
      PROVE  /\ Len(f[i - 1]) + x <= Len(f[Len(s)])
             /\ f[Len(s)][Len(f[i - 1]) + x] = s[i][x]
  <2>1. Extends(Len(s), i)
    <3>1. i \in 0..Len(s) /\ Len(s) \in 0..Len(s) /\ i <= Len(s)
      BY <1>1
    <3> QED
      BY <1>3, <3>1
  <2>2. /\ Len(f[i]) = Len(f[i - 1]) + Len(s[i])
        /\ f[i][Len(f[i - 1]) + x] = s[i][x]
    BY <1>2
  <2>3. Len(f[i - 1]) \in Nat /\ Len(s[i]) \in Nat /\ Len(f[i]) \in Nat /\ Len(f[Len(s)]) \in Nat
    BY <1>1
  <2> DEFINE a == Len(f[i - 1])
             c == Len(f[i])
             d == Len(s[i])
             e == Len(f[Len(s)])
  <2>4. /\ c = a + d /\ c <= e /\ x \in 1..d
        /\ a \in Nat /\ c \in Nat /\ d \in Nat /\ e \in Nat
    BY <2>1, <2>2, <2>3
  <2>5. \A y \in 1..c : f[Len(s)][y] = f[i][y]
    BY <2>1
  <2>6. f[i][a + x] = s[i][x]
    BY <2>2
  <2> HIDE DEF a, c, d, e
  <2>7. a + x \in 1..c /\ a + x <= e
    BY <2>4
  <2>8. a + x <= e /\ f[Len(s)][a + x] = s[i][x]
    BY <2>5, <2>6, <2>7
  <2> QED
    BY <2>8 DEF a, e
<1> QED
  BY <1>3, <1>4

\* One is the start of the other.
Agree(a, b) == \A x \in 1..Len(a) : x <= Len(b) => a[x] = b[x]

\* Pieces at the same place of joins that agree do agree.
LEMMA PiecesAgree ==
    ASSUME NEW s \in Seq(Seq(Tokens)), NEW t \in Seq(Seq(Tokens)), NEW f, NEW g,
           Joins(f, s), Joins(g, t), Agree(f[Len(s)], g[Len(t)])
    PROVE  \A i \in 1..Len(s) : i \in 1..Len(t) /\ f[i - 1] = g[i - 1] => Agree(s[i], t[i])
<1> SUFFICES ASSUME NEW i \in 1..Len(s), i \in 1..Len(t), f[i - 1] = g[i - 1],
                    NEW x \in 1..Len(s[i]), x <= Len(t[i])
             PROVE  s[i][x] = t[i][x]
  BY DEF Agree
<1> DEFINE n == Len(f[i - 1]) + x
<1>1. Len(t[i]) \in Nat /\ x \in 1..Len(t[i])
  <2>1. t[i] \in Seq(Tokens) /\ s[i] \in Seq(Tokens)
    OBVIOUS
  <2>2. Len(t[i]) \in Nat /\ Len(s[i]) \in Nat
    BY <2>1
  <2> QED
    BY <2>2
<1>2. n <= Len(f[Len(s)]) /\ f[Len(s)][n] = s[i][x]
  BY JoinsPrefix
<1>3. n <= Len(g[Len(t)]) /\ g[Len(t)][n] = t[i][x]
  BY <1>1, JoinsPrefix
<1>4. n \in Nat \ {0} /\ Len(f[Len(s)]) \in Nat
  <2>1. i - 1 \in 0..Len(s) /\ Len(s) \in 0..Len(s)
    OBVIOUS
  <2>2. f[i - 1] \in Seq(Tokens) /\ f[Len(s)] \in Seq(Tokens)
    BY <2>1 DEF Joins
  <2>3. Len(f[i - 1]) \in Nat /\ Len(f[Len(s)]) \in Nat
    BY <2>2
  <2> QED
    BY <2>3
<1> HIDE DEF n
<1>5. n \in 1..Len(f[Len(s)])
  BY <1>2, <1>4
<1> QED
  BY <1>2, <1>3, <1>5 DEF Agree

\* A piece of a quoted value says where it ends.
LEMMA EscapedIs ==
    ASSUME NEW c \in Tokens
    PROVE  /\ Escaped(c) \in Seq(Tokens)
           /\ Escaped(c)[1] # QuoteMark
           /\ Len(Escaped(c)) \in {1, 2}
           /\ Len(Escaped(c)) = 2 <=> Escaped(c)[1] = Backslash
           /\ Escaped(c)[Len(Escaped(c))] = c
<1>1. CASE c \in {QuoteMark, Backslash}
  <2>1. Escaped(c) = <<Backslash, c>>
    BY <1>1 DEF Escaped
  <2> DEFINE e == <<Backslash, c>>
  <2>2. e \in Seq(Tokens) /\ Len(e) = 2 /\ e[1] = Backslash /\ e[2] = c
    <3>1. Backslash \in Tokens
      BY PunctuationIs
    <3> QED
      BY <3>1
  <2> HIDE DEF e
  <2>3. e[1] # QuoteMark /\ e[Len(e)] = c
    BY <2>2, PunctuationIs
  <2> QED
    BY <2>1, <2>2, <2>3 DEF e
<1>2. CASE c \notin {QuoteMark, Backslash}
  BY <1>2 DEF Escaped
<1> QED
  BY <1>1, <1>2

\* The pieces of a quoted value.
QuotePieces(v) == Append([i \in DOMAIN v |-> Escaped(v[i])], <<QuoteMark>>)

\* The pieces of a quoted value: one of each character and the last mark.
LEMMA QuotePiecesAre ==
    ASSUME NEW v \in Seq(Tokens)
    PROVE  /\ QuotePieces(v) \in Seq(Seq(Tokens)) /\ Len(QuotePieces(v)) = Len(v) + 1
           /\ \A i \in 1..Len(v) : QuotePieces(v)[i] = Escaped(v[i])
           /\ QuotePieces(v)[Len(v) + 1] = <<QuoteMark>>
<1> DEFINE e == [i \in DOMAIN v |-> Escaped(v[i])]
<1>1. Len(v) \in Nat /\ DOMAIN v = 1..Len(v) /\ \A i \in 1..Len(v) : v[i] \in Tokens
  OBVIOUS
<1>2. e = [i \in 1..Len(v) |-> Escaped(v[i])]
  BY <1>1
<1>3. \A i \in 1..Len(v) : Escaped(v[i]) \in Seq(Tokens)
  BY <1>1, EscapedIs
<1>4. e \in Seq(Seq(Tokens)) /\ Len(e) = Len(v) /\ \A i \in 1..Len(v) : e[i] = Escaped(v[i])
  <2>1. e \in [1..Len(v) -> Seq(Tokens)] /\ \A i \in 1..Len(v) : e[i] = Escaped(v[i])
    BY <1>2, <1>3
  <2>2. DOMAIN e = 1..Len(v)
    BY <1>2
  <2> HIDE DEF e
  <2>3. e \in Seq(Seq(Tokens))
    BY <1>1, <2>1, IsASeq
  <2>4. Len(e) = Len(v)
    BY <1>1, <2>2, <2>3
  <2> QED
    BY <2>1, <2>3, <2>4
<1>5. <<QuoteMark>> \in Seq(Tokens)
  BY PunctuationIs
<1>6. QuotePieces(v) = Append(e, <<QuoteMark>>)
  BY DEF QuotePieces
<1> HIDE DEF e
<1> QED
  BY <1>4, <1>5, <1>6, AppendProperties

\* A quoted value is a mark and the join of its pieces.
LEMMA QuoteIs ==
    ASSUME NEW v \in Seq(Tokens), NEW f, Joins(f, QuotePieces(v)),
           FlattenSeq(QuotePieces(v)) = f[Len(v) + 1]
    PROVE  /\ Quote(v) \in Seq(Tokens)
           /\ \A x \in 1..Len(f[Len(v) + 1]) : x + 1 \in 1..Len(Quote(v))
                                               /\ Quote(v)[x + 1] = f[Len(v) + 1][x]
<1> DEFINE q == f[Len(v) + 1]
           h == <<QuoteMark>>
<1>1. q \in Seq(Tokens)
  <2>1. Len(v) + 1 \in 0..Len(QuotePieces(v))
    BY QuotePiecesAre
  <2> QED
    BY <2>1 DEF Joins
<1>2. Quote(v) = h \o q
  <2>1. Quote(v) = h \o FlattenSeq(QuotePieces(v))
    BY DEF Quote, QuotePieces
  <2> QED
    BY <2>1
<1>3. h \in Seq(Tokens) /\ Len(h) = 1
  BY PunctuationIs
<1> HIDE DEF q, h
<1>4. Len(q) \in Nat
  BY <1>1
<1>5. /\ h \o q \in Seq(Tokens) /\ Len(h \o q) = 1 + Len(q)
      /\ \A x \in 1..(1 + Len(q)) : (h \o q)[x] = IF x <= 1 THEN h[x] ELSE q[x - 1]
  <2>1. /\ h \o q \in Seq(Tokens) /\ Len(h \o q) = Len(h) + Len(q)
        /\ \A x \in 1..(Len(h) + Len(q)) :
              (h \o q)[x] = IF x <= Len(h) THEN h[x] ELSE q[x - Len(h)]
    BY <1>1, <1>3, ConcatProperties
  <2> QED
    BY <1>3, <2>1
<1>6. ASSUME NEW x \in 1..Len(q)
      PROVE  x + 1 \in 1..Len(h \o q) /\ (h \o q)[x + 1] = q[x]
  <2>1. x + 1 \in 1..(1 + Len(q)) /\ ~(x + 1 <= 1) /\ (x + 1) - 1 = x
    BY <1>4
  <2> QED
    BY <1>5, <2>1
<1> QED
  BY <1>2, <1>5, <1>6 DEF q

\* stream.go:167-169: of two quoted values none is the start of the other, and each
\* is that of one value.
LEMMA QuoteTellsApart ==
    ASSUME NEW v \in Seq(Tokens), NEW w \in Seq(Tokens),
           Agree(Quote(v), Quote(w))
    PROVE  v = w
<1> DEFINE s == QuotePieces(v)
           t == QuotePieces(w)
<1>1. /\ s \in Seq(Seq(Tokens)) /\ Len(s) = Len(v) + 1
      /\ t \in Seq(Seq(Tokens)) /\ Len(t) = Len(w) + 1
      /\ Len(v) \in Nat /\ Len(w) \in Nat
      /\ \A i \in 1..Len(v) : s[i] = Escaped(v[i]) /\ v[i] \in Tokens
      /\ \A i \in 1..Len(w) : t[i] = Escaped(w[i]) /\ w[i] \in Tokens
      /\ s[Len(v) + 1] = <<QuoteMark>> /\ t[Len(w) + 1] = <<QuoteMark>>
  <2>1. /\ s \in Seq(Seq(Tokens)) /\ Len(s) = Len(v) + 1
        /\ \A i \in 1..Len(v) : s[i] = Escaped(v[i])
        /\ s[Len(v) + 1] = <<QuoteMark>>
    BY QuotePiecesAre
  <2>2. /\ t \in Seq(Seq(Tokens)) /\ Len(t) = Len(w) + 1
        /\ \A i \in 1..Len(w) : t[i] = Escaped(w[i])
        /\ t[Len(w) + 1] = <<QuoteMark>>
    BY QuotePiecesAre
  <2>3. /\ Len(v) \in Nat /\ \A i \in 1..Len(v) : v[i] \in Tokens
        /\ Len(w) \in Nat /\ \A i \in 1..Len(w) : w[i] \in Tokens
    OBVIOUS
  <2> QED
    BY <2>1, <2>2, <2>3
<1> HIDE DEF s, t
<1>2. PICK f : Joins(f, s) /\ FlattenSeq(s) = f[Len(s)]
  BY <1>1, FlattenSeqIs
<1>3. PICK g : Joins(g, t) /\ FlattenSeq(t) = g[Len(t)]
  BY <1>1, FlattenSeqIs
<1>4. Agree(f[Len(s)], g[Len(t)])
  <2>1. /\ Quote(v) \in Seq(Tokens)
        /\ \A x \in 1..Len(f[Len(s)]) : x + 1 \in 1..Len(Quote(v)) /\ Quote(v)[x + 1] = f[Len(s)][x]
    BY <1>1, <1>2, QuoteIs DEF s
  <2>2. /\ Quote(w) \in Seq(Tokens)
        /\ \A x \in 1..Len(g[Len(t)]) : x + 1 \in 1..Len(Quote(w)) /\ Quote(w)[x + 1] = g[Len(t)][x]
    BY <1>1, <1>3, QuoteIs DEF t
  <2> SUFFICES ASSUME NEW x \in 1..Len(f[Len(s)]), x <= Len(g[Len(t)])
               PROVE  f[Len(s)][x] = g[Len(t)][x]
    BY DEF Agree
  <2>3. g[Len(t)] \in Seq(Tokens)
    <3>1. Len(t) \in 0..Len(t)
      BY <1>1
    <3> QED
      BY <1>3, <3>1 DEF Joins
  <2> DEFINE n == Len(g[Len(t)])
  <2>4. n \in Nat /\ Len(Quote(w)) \in Nat
    BY <2>2, <2>3
  <2> HIDE DEF n
  <2>5. x \in Nat
    <3>1. Len(s) \in 0..Len(s)
      BY <1>1
    <3>2. f[Len(s)] \in Seq(Tokens)
      BY <1>2, <3>1 DEF Joins
    <3>3. Len(f[Len(s)]) \in Nat
      BY <3>2
    <3> QED
      BY <3>3
  <2>6. x \in 1..n
    BY <2>4, <2>5 DEF n
  <2>7. x + 1 \in 1..Len(Quote(w)) /\ Quote(w)[x + 1] = g[Len(t)][x]
    BY <2>2, <2>6 DEF n
  <2>8. x + 1 \in 1..Len(Quote(v)) /\ Quote(v)[x + 1] = f[Len(s)][x]
    BY <2>1
  <2>9. x + 1 <= Len(Quote(w))
    BY <2>4, <2>7
  <2> QED
    BY <2>7, <2>8, <2>9 DEF Agree
<1>5. ASSUME NEW i \in 1..Len(s), i \in 1..Len(t), f[i - 1] = g[i - 1] PROVE s[i] = t[i]
  <2>1. \A x \in 1..Len(s[i]) : x <= Len(t[i]) => s[i][x] = t[i][x]
    <3>1. s \in Seq(Seq(Tokens)) /\ t \in Seq(Seq(Tokens)) /\ Joins(f, s) /\ Joins(g, t)
      BY <1>1, <1>2, <1>3
    <3>2. \A j \in 1..Len(s) : j \in 1..Len(t) /\ f[j - 1] = g[j - 1] => Agree(s[j], t[j])
      BY <1>4, <3>1, PiecesAgree
    <3> QED
      BY <1>5, <3>2 DEF Agree
  <2>2. \/ i \in 1..Len(v) /\ i \in 1..Len(w)
        \/ i \in 1..Len(v) /\ i = Len(w) + 1
        \/ i = Len(v) + 1 /\ i \in 1..Len(w)
        \/ i = Len(v) + 1 /\ i = Len(w) + 1
    BY <1>1, <1>5
  <2>3. CASE i \in 1..Len(v) /\ i \in 1..Len(w)
    <3> DEFINE p == Escaped(v[i])
               q == Escaped(w[i])
    <3>1. /\ s[i] = p /\ t[i] = q /\ p[Len(p)] = v[i] /\ q[Len(q)] = w[i]
          /\ Len(p) \in {1, 2} /\ Len(q) \in {1, 2}
          /\ Len(p) = 2 <=> p[1] = Backslash
          /\ Len(q) = 2 <=> q[1] = Backslash
      BY <1>1, <2>3, EscapedIs
    <3> HIDE DEF p, q
    <3>2. p[1] = q[1]
      BY <2>1, <3>1
    <3>3. Len(p) = Len(q)
      BY <3>1, <3>2
    <3>4. v[i] = w[i]
      BY <2>1, <3>1, <3>3
    <3> QED
      BY <3>1, <3>4 DEF p, q
  <2>4. CASE i \in 1..Len(v) /\ i = Len(w) + 1
    <3>1. s[i] = Escaped(v[i]) /\ t[i] = <<QuoteMark>> /\ v[i] \in Tokens
      BY <1>1, <2>4
    <3>2. s[i][1] # QuoteMark /\ Len(s[i]) \in {1, 2} /\ t[i][1] = QuoteMark /\ Len(t[i]) = 1
      BY <3>1, EscapedIs
    <3> QED
      BY <2>1, <3>2
  <2>5. CASE i = Len(v) + 1 /\ i \in 1..Len(w)
    <3>1. t[i] = Escaped(w[i]) /\ s[i] = <<QuoteMark>> /\ w[i] \in Tokens
      BY <1>1, <2>5
    <3>2. t[i][1] # QuoteMark /\ Len(t[i]) \in {1, 2} /\ s[i][1] = QuoteMark /\ Len(s[i]) = 1
      BY <3>1, EscapedIs
    <3> QED
      BY <2>1, <3>2
  <2>6. CASE i = Len(v) + 1 /\ i = Len(w) + 1
    BY <1>1, <2>6
  <2> QED
    BY <2>2, <2>3, <2>4, <2>5, <2>6
<1>6. \A i \in 0..Len(s) : i \in 0..Len(t) => f[i] = g[i]
  <2> DEFINE Bad == {i \in 0..Len(s) : i \in 0..Len(t) /\ f[i] # g[i]}
  <2> SUFFICES ASSUME Bad # {} PROVE FALSE
    OBVIOUS
  <2>1. PICK i \in Bad : \A j \in Bad : i <= j
    <3>1. Bad \in SUBSET Nat
      BY <1>1
    <3> QED
      BY <3>1, LeastExists
  <2>2. i # 0
    BY <1>2, <1>3 DEF Joins
  <2>3. i \in 1..Len(s) /\ i \in 1..Len(t) /\ i - 1 \in 0..Len(s) /\ i - 1 \in 0..Len(t) /\ ~(i <= i - 1)
    BY <1>1, <2>2
  <2>4. f[i - 1] = g[i - 1]
    BY <2>1, <2>3
  <2>5. s[i] = t[i]
    BY <1>5, <2>3, <2>4
  <2>6. f[i] = f[i - 1] \o s[i] /\ g[i] = g[i - 1] \o t[i]
    BY <1>2, <1>3, <2>3 DEF Joins
  <2> QED
    BY <2>4, <2>5, <2>6
<1>7. \A i \in 1..Len(s) : i \in 1..Len(t) => s[i] = t[i]
  <2> SUFFICES ASSUME NEW i \in 1..Len(s), i \in 1..Len(t) PROVE s[i] = t[i]
    OBVIOUS
  <2>1. i - 1 \in 0..Len(s) /\ i - 1 \in 0..Len(t)
    BY <1>1
  <2> QED
    BY <1>5, <1>6, <2>1
<1>8. ~(Len(v) < Len(w))
  <2> SUFFICES ASSUME Len(v) < Len(w) PROVE FALSE
    OBVIOUS
  <2> DEFINE i == Len(v) + 1
  <2>1. i \in 1..Len(s) /\ i \in 1..Len(t) /\ i \in 1..Len(w)
    BY <1>1
  <2>2. s[i] = <<QuoteMark>> /\ t[i] = Escaped(w[i]) /\ w[i] \in Tokens
    BY <1>1, <2>1
  <2>3. s[i] = t[i]
    BY <1>7, <2>1
  <2>4. s[i][1] = QuoteMark
    BY <2>2
  <2> QED
    BY <2>2, <2>3, <2>4, EscapedIs
<1>9. ~(Len(w) < Len(v))
  <2> SUFFICES ASSUME Len(w) < Len(v) PROVE FALSE
    OBVIOUS
  <2> DEFINE i == Len(w) + 1
  <2>1. i \in 1..Len(s) /\ i \in 1..Len(t) /\ i \in 1..Len(v)
    BY <1>1
  <2>2. t[i] = <<QuoteMark>> /\ s[i] = Escaped(v[i]) /\ v[i] \in Tokens
    BY <1>1, <2>1
  <2>3. s[i] = t[i]
    BY <1>7, <2>1
  <2>4. t[i][1] = QuoteMark
    BY <2>2
  <2> QED
    BY <2>2, <2>3, <2>4, EscapedIs
<1>10. Len(v) = Len(w)
  BY <1>1, <1>8, <1>9
<1>11. \A i \in 1..Len(v) : v[i] = w[i]
  <2> TAKE i \in 1..Len(v)
  <2>1. i \in 1..Len(s) /\ i \in 1..Len(t) /\ i \in 1..Len(w)
    BY <1>1, <1>10
  <2>2. Escaped(v[i]) = Escaped(w[i]) /\ v[i] \in Tokens /\ w[i] \in Tokens
    BY <1>1, <1>7, <2>1
  <2> QED
    BY <2>2, EscapedIs
<1> QED
  BY <1>10, <1>11

\* The labels of a stream, as streamKey takes them.
Keyable(labels) ==
    /\ DOMAIN labels \subseteq Range(NameOrder)
    /\ \A n \in DOMAIN labels : labels[n] \in Seq(Tokens)

\* stream.go:161-171: how a label that is there is written, and that no other is.
LEMMA WrittenIs ==
    ASSUME NEW labels, Keyable(labels), NEW n \in Tokens
    PROVE  /\ Written(labels, n) \in Seq(Tokens)
           /\ n \notin DOMAIN labels => Written(labels, n) = <<>>
           /\ n \in DOMAIN labels =>
                 /\ Len(Written(labels, n)) = 3 + Len(Quote(labels[n]))
                 /\ Len(Quote(labels[n])) \in Nat
                 /\ Written(labels, n)[2] = n
                 /\ \A x \in 1..Len(Quote(labels[n])) : Written(labels, n)[3 + x] = Quote(labels[n])[x]
<1>1. CASE n \notin DOMAIN labels
  BY <1>1, EmptySeq DEF Written
<1>2. CASE n \in DOMAIN labels
  <2> DEFINE comma == ","
             colon == ":"
             h == <<comma, n, colon>>
             q == Quote(labels[n])
  <2>1. q \in Seq(Tokens)
    <3>1. labels[n] \in Seq(Tokens)
      BY <1>2 DEF Keyable
    <3>2. QuotePieces(labels[n]) \in Seq(Seq(Tokens)) /\ Len(QuotePieces(labels[n])) = Len(labels[n]) + 1
      BY <3>1, QuotePiecesAre
    <3>3. PICK f : /\ Joins(f, QuotePieces(labels[n]))
                   /\ FlattenSeq(QuotePieces(labels[n])) = f[Len(labels[n]) + 1]
      BY <3>2, FlattenSeqIs
    <3> QED
      BY <3>1, <3>3, QuoteIs
  <2>2. Written(labels, n) = h \o q
    BY <1>2 DEF Written
  <2>3. comma \in Tokens /\ colon \in Tokens
    BY DEF Tokens
  <2> HIDE DEF comma, colon, q
  <2>4. h \in Seq(Tokens) /\ Len(h) = 3 /\ h[2] = n
    BY <2>3
  <2> HIDE DEF h
  <2>5. Len(q) \in Nat
    BY <2>1
  <2>6. /\ h \o q \in Seq(Tokens) /\ Len(h \o q) = Len(h) + Len(q)
        /\ \A x \in 1..(Len(h) + Len(q)) :
              (h \o q)[x] = IF x <= Len(h) THEN h[x] ELSE q[x - Len(h)]
    BY <2>1, <2>4, ConcatProperties
  <2>7. (h \o q)[2] = n
    <3>1. 2 \in 1..(3 + Len(q))
      BY <2>5
    <3> QED
      BY <2>4, <2>6, <3>1
  <2>8. ASSUME NEW x \in 1..Len(q) PROVE (h \o q)[3 + x] = q[x]
    <3>1. 3 + x \in 1..(3 + Len(q)) /\ ~(3 + x <= 3) /\ (3 + x) - 3 = x
      BY <2>5
    <3> QED
      BY <2>4, <2>6, <3>1
  <2> QED
    BY <1>2, <2>2, <2>4, <2>5, <2>6, <2>7, <2>8 DEF q
<1> QED
  BY <1>1, <1>2

\* The pieces of a key, absent labels included.
KeyPieces(labels) == [i \in DOMAIN NameOrder |-> Written(labels, NameOrder[i])]

\* The pieces of a key: one of each name, in order.
LEMMA KeyPiecesAre ==
    ASSUME NEW labels, Keyable(labels)
    PROVE  /\ KeyPieces(labels) \in Seq(Seq(Tokens)) /\ Len(KeyPieces(labels)) = Len(NameOrder)
           /\ Len(NameOrder) \in Nat
           /\ \A i \in 1..Len(NameOrder) : /\ NameOrder[i] \in Tokens
                                           /\ KeyPieces(labels)[i] = Written(labels, NameOrder[i])
<1> DEFINE e == KeyPieces(labels)
           n == Len(NameOrder)
<1>1. n \in Nat /\ DOMAIN NameOrder = 1..n /\ \A i \in 1..n : NameOrder[i] \in Tokens
  <2>1. NameOrder \in Seq(STRING)
    BY StreamsAssumption
  <2>2. n \in Nat /\ DOMAIN NameOrder = 1..n /\ \A i \in 1..n : NameOrder[i] \in STRING
    BY <2>1
  <2>3. \A c \in STRING : c \in Tokens
    BY DEF Tokens
  <2> QED
    BY <2>2, <2>3
<1>2. \A i \in 1..n : Written(labels, NameOrder[i]) \in Seq(Tokens)
  BY <1>1, WrittenIs
<1>3. e = [i \in 1..n |-> Written(labels, NameOrder[i])]
  BY <1>1 DEF KeyPieces
<1> HIDE DEF e, n
<1>4. e \in [1..n -> Seq(Tokens)] /\ \A i \in 1..n : e[i] = Written(labels, NameOrder[i])
  BY <1>2, <1>3
<1>5. DOMAIN e = 1..n
  BY <1>4
<1>6. e \in Seq(Seq(Tokens)) /\ Len(e) = n
  BY <1>1, <1>4, <1>5
<1> QED
  BY <1>1, <1>4, <1>6 DEF e, n

\* If one key goes on with a name that the other labels lack, they part.
LEMMA AbsentNameParts ==
    ASSUME NEW l, NEW m, Keyable(l), Keyable(m), NEW f, NEW g,
           Joins(f, KeyPieces(l)), Joins(g, KeyPieces(m)),
           f[Len(NameOrder)] = g[Len(NameOrder)],
           NEW i \in 1..Len(NameOrder), f[i - 1] = g[i - 1],
           NameOrder[i] \in DOMAIN l, NameOrder[i] \notin DOMAIN m
    PROVE  FALSE
<1> DEFINE N == Len(NameOrder)
           s == KeyPieces(l)
           t == KeyPieces(m)
           K == f[N]
           L == Len(g[i - 1])
           Later == {j \in i..N : Len(g[j]) > L}
<1>1. /\ N \in Nat /\ i \in 1..N /\ \A j \in 1..N : NameOrder[j] \in Tokens
      /\ s \in Seq(Seq(Tokens)) /\ Len(s) = N
      /\ t \in Seq(Seq(Tokens)) /\ Len(t) = N
      /\ \A j \in 1..N : s[j] = Written(l, NameOrder[j])
      /\ \A j \in 1..N : t[j] = Written(m, NameOrder[j])
  BY KeyPiecesAre
<1>2. /\ \A j \in 0..N : g[j] \in Seq(Tokens) /\ Len(g[j]) \in Nat
      /\ \A j \in 1..N : g[j] = g[j - 1] \o t[j]
  <2>1. \A q \in Seq(Tokens) : Len(q) \in Nat
    OBVIOUS
  <2> QED
    BY <1>1, <2>1 DEF Joins
<1>3. i - 1 \in 0..N /\ N \in 0..N /\ i \in 0..N /\ L \in Nat
  BY <1>1, <1>2
<1>4. L + 2 <= Len(K) /\ K[L + 2] = NameOrder[i] /\ K = g[N]
  <2>1. 2 \in 1..Len(s[i]) /\ s[i][2] = NameOrder[i]
    <3> DEFINE n == NameOrder[i]
    <3>1. s[i] = Written(l, n) /\ n \in Tokens /\ n \in DOMAIN l
      BY <1>1
    <3> HIDE DEF s, n
    <3>2. /\ Len(Written(l, n)) = 3 + Len(Quote(l[n])) /\ Len(Quote(l[n])) \in Nat
          /\ Written(l, n)[2] = n
      BY <3>1, WrittenIs
    <3>3. 2 \in 1..Len(s[i]) /\ s[i][2] = n
      BY <3>1, <3>2
    <3> QED
      BY <3>3 DEF n
  <2>2. \A k \in 1..Len(s) : \A x \in 1..Len(s[k]) :
           /\ Len(f[k - 1]) + x <= Len(f[Len(s)])
           /\ f[Len(s)][Len(f[k - 1]) + x] = s[k][x]
    BY <1>1, JoinsPrefix
  <2> QED
    BY <1>1, <2>1, <2>2
<1>16. \A k \in 1..Len(t) : \A x \in 1..Len(t[k]) :
          g[Len(t)][Len(g[k - 1]) + x] = t[k][x]
  <2>1. \A k \in 1..Len(t) : \A x \in 1..Len(t[k]) :
           /\ Len(g[k - 1]) + x <= Len(g[Len(t)])
           /\ g[Len(t)][Len(g[k - 1]) + x] = t[k][x]
    BY <1>1, JoinsPrefix
  <2> QED
    BY <2>1
<1> HIDE DEF s, t, K, L, N
<1>5. N \in Later
  <2>1. Len(g[N]) > L
    <3>1. Len(g[N]) \in Nat /\ L + 2 <= Len(g[N])
      BY <1>2, <1>3, <1>4
    <3> QED
      BY <1>3, <3>1
  <2> QED
    BY <1>1, <2>1
<1>6. PICK j \in Later : \A k \in Later : j <= k
  <2>1. Later \in SUBSET Nat
    BY <1>1
  <2> QED
    BY <1>5, <2>1, LeastExists
<1>7. j \in i..N /\ Len(g[j]) > L
  BY <1>6
<1>8. g[i] = g[i - 1]
  <2>1. t[i] = <<>> /\ g[i] = g[i - 1] \o t[i] /\ g[i - 1] \in Seq(Tokens)
    <3>1. t[i] = Written(m, NameOrder[i]) /\ NameOrder[i] \in Tokens
      BY <1>1
    <3>2. t[i] = <<>>
      BY <3>1, WrittenIs
    <3>3. g[i] = g[i - 1] \o t[i] /\ g[i - 1] \in Seq(Tokens)
      BY <1>1, <1>2, <1>3
    <3> QED
      BY <3>2, <3>3
  <2> QED
    BY <2>1, ConcatEmptySeq
<1>9. j # i
  <2>1. ~(L > L)
    BY <1>3
  <2> QED
    BY <1>7, <1>8, <2>1 DEF L
<1>10. j \in 1..N /\ j - 1 \in i..N /\ j - 1 \in 0..N /\ i - 1 <= j - 1 /\ ~(j <= j - 1)
  BY <1>1, <1>7, <1>9
<1>11. Len(g[j - 1]) = L
  <2>1. ~(Len(g[j - 1]) > L)
    BY <1>6, <1>10
  <2>2. L <= Len(g[j - 1])
    BY <1>1, <1>3, <1>10, JoinsPrefix DEF L, t
  <2>3. Len(g[j - 1]) \in Nat
    BY <1>2, <1>10
  <2> QED
    BY <1>3, <2>1, <2>2, <2>3
<1>12. NameOrder[j] \in DOMAIN m
  <2> SUFFICES ASSUME NameOrder[j] \notin DOMAIN m PROVE FALSE
    OBVIOUS
  <2>1. t[j] = <<>> /\ g[j] = g[j - 1] \o t[j] /\ g[j - 1] \in Seq(Tokens)
    <3>1. t[j] = Written(m, NameOrder[j]) /\ NameOrder[j] \in Tokens
      BY <1>1, <1>10
    <3>2. t[j] = <<>>
      BY <3>1, WrittenIs
    <3>3. g[j] = g[j - 1] \o t[j] /\ g[j - 1] \in Seq(Tokens)
      BY <1>2, <1>10
    <3> QED
      BY <3>2, <3>3
  <2>2. g[j] = g[j - 1]
    BY <2>1, ConcatEmptySeq
  <2> QED
    BY <1>3, <1>7, <1>11, <2>2
<1>13. K[L + 2] = NameOrder[j]
  <2>1. 2 \in 1..Len(t[j]) /\ t[j][2] = NameOrder[j]
    <3>1. t[j] = Written(m, NameOrder[j]) /\ NameOrder[j] \in Tokens
      BY <1>1, <1>10
    <3>2. /\ Len(t[j]) = 3 + Len(Quote(m[NameOrder[j]]))
          /\ Len(Quote(m[NameOrder[j]])) \in Nat
          /\ t[j][2] = NameOrder[j]
      BY <1>12, <3>1, WrittenIs
    <3> QED
      BY <3>2
  <2>3. g[Len(t)][Len(g[j - 1]) + 2] = t[j][2]
    BY <1>1, <1>10, <1>16, <2>1
  <2> QED
    BY <1>1, <1>4, <1>11, <2>1, <2>3
<1>14. DOMAIN NameOrder = 1..N /\ IsInjective(NameOrder)
  BY StreamsAssumption DEF N
<1>15. i = j
  <2>1. NameOrder[i] = NameOrder[j]
    BY <1>4, <1>13
  <2> QED
    BY <1>1, <1>10, <1>14, <2>1 DEF IsInjective
<1> QED
  BY <1>9, <1>15

\* stream.go:167-169: no two label sets have the same key.
THEOREM KeyTellsApart ==
    ASSUME NEW l, NEW m, Keyable(l), Keyable(m), StreamKey(l) = StreamKey(m)
    PROVE  DOMAIN l = DOMAIN m /\ \A n \in DOMAIN l : l[n] = m[n]
<1> DEFINE N == Len(NameOrder)
           s == KeyPieces(l)
           t == KeyPieces(m)
<1>1. /\ N \in Nat /\ \A i \in 1..N : NameOrder[i] \in Tokens
      /\ s \in Seq(Seq(Tokens)) /\ Len(s) = N
      /\ t \in Seq(Seq(Tokens)) /\ Len(t) = N
      /\ \A i \in 1..N : s[i] = Written(l, NameOrder[i])
      /\ \A i \in 1..N : t[i] = Written(m, NameOrder[i])
  BY KeyPiecesAre
<1>2. StreamKey(l) = FlattenSeq(s) /\ StreamKey(m) = FlattenSeq(t)
  BY DEF StreamKey, KeyPieces
<1>3. PICK f : Joins(f, s) /\ FlattenSeq(s) = f[N]
  BY <1>1, FlattenSeqIs
<1>4. PICK g : Joins(g, t) /\ FlattenSeq(t) = g[N]
  BY <1>1, FlattenSeqIs
<1>5. f[N] = g[N]
  BY <1>2, <1>3, <1>4
<1>6. Agree(f[Len(s)], g[Len(t)])
  BY <1>1, <1>5 DEF Agree
<1>7. \A i \in 1..Len(s) : i \in 1..Len(t) /\ f[i - 1] = g[i - 1] => Agree(s[i], t[i])
  <2>1. Joins(f, s) /\ Joins(g, t)
    BY <1>3, <1>4
  <2> QED
    BY <1>1, <1>6, <2>1, PiecesAgree
<1>8. ASSUME NEW i \in 1..N, f[i - 1] = g[i - 1]
      PROVE  /\ NameOrder[i] \in DOMAIN l <=> NameOrder[i] \in DOMAIN m
             /\ NameOrder[i] \in DOMAIN l => l[NameOrder[i]] = m[NameOrder[i]]
  <2> DEFINE n == NameOrder[i]
  <2>1. n \in DOMAIN l <=> n \in DOMAIN m
    <3>1. ~(n \in DOMAIN l /\ n \notin DOMAIN m)
      BY <1>3, <1>4, <1>5, <1>8, AbsentNameParts
    <3>2. ~(n \in DOMAIN m /\ n \notin DOMAIN l)
      BY <1>3, <1>4, <1>5, <1>8, AbsentNameParts
    <3> QED
      BY <3>1, <3>2
  <2>2. ASSUME n \in DOMAIN l PROVE l[n] = m[n]
    <3>1. s[i] = Written(l, n) /\ t[i] = Written(m, n) /\ n \in Tokens /\ Agree(s[i], t[i])
      BY <1>1, <1>7, <1>8
    <3> HIDE DEF n, s, t
    <3>2. /\ Len(Written(l, n)) = 3 + Len(Quote(l[n])) /\ Len(Quote(l[n])) \in Nat
          /\ \A x \in 1..Len(Quote(l[n])) : Written(l, n)[3 + x] = Quote(l[n])[x]
      BY <2>2, <3>1, WrittenIs
    <3>3. /\ Len(Written(m, n)) = 3 + Len(Quote(m[n])) /\ Len(Quote(m[n])) \in Nat
          /\ \A x \in 1..Len(Quote(m[n])) : Written(m, n)[3 + x] = Quote(m[n])[x]
      BY <2>1, <2>2, <3>1, WrittenIs
    <3>4. l[n] \in Seq(Tokens) /\ m[n] \in Seq(Tokens)
      BY <2>1, <2>2 DEF Keyable
    <3>5. Agree(Quote(l[n]), Quote(m[n]))
      <4> DEFINE a == Quote(l[n])
                 b == Quote(m[n])
                 p == Written(l, n)
                 q == Written(m, n)
      <4> HIDE DEF a, b, p, q
      <4>1. /\ Len(p) = 3 + Len(a) /\ Len(a) \in Nat /\ \A x \in 1..Len(a) : p[3 + x] = a[x]
            /\ Len(q) = 3 + Len(b) /\ Len(b) \in Nat /\ \A x \in 1..Len(b) : q[3 + x] = b[x]
            /\ \A x \in 1..Len(p) : x <= Len(q) => p[x] = q[x]
        BY <3>1, <3>2, <3>3 DEF a, b, p, q, Agree
      <4>2. ASSUME NEW x \in 1..Len(a), x <= Len(b) PROVE a[x] = b[x]
        <5>1. 3 + x \in 1..Len(p) /\ 3 + x <= Len(q) /\ x \in 1..Len(b)
          BY <4>1, <4>2
        <5> QED
          BY <4>1, <5>1
      <4> QED
        BY <4>2 DEF a, b, Agree
    <3> QED
      BY <3>4, <3>5, QuoteTellsApart
  <2> QED
    BY <2>1, <2>2
<1>9. ASSUME NEW i \in 1..N, f[i - 1] = g[i - 1] PROVE s[i] = t[i]
  <2> DEFINE n == NameOrder[i]
  <2>1. s[i] = Written(l, n) /\ t[i] = Written(m, n)
    BY <1>1
  <2>2. n \in DOMAIN l <=> n \in DOMAIN m
    BY <1>8, <1>9
  <2>3. n \in DOMAIN l => l[n] = m[n]
    BY <1>8, <1>9
  <2> HIDE DEF n, s, t
  <2>4. Written(l, n) = Written(m, n)
    <3>1. CASE n \in DOMAIN l
      <4>1. Quote(l[n]) = Quote(m[n])
        BY <2>3, <3>1
      <4> QED
        BY <2>2, <3>1, <4>1 DEF Written
    <3>2. CASE n \notin DOMAIN l
      BY <2>2, <3>2 DEF Written
    <3> QED
      BY <3>1, <3>2
  <2> QED
    BY <2>1, <2>4
<1>10. \A i \in 0..N : f[i] = g[i]
  <2> DEFINE Bad == {i \in 0..N : f[i] # g[i]}
  <2> SUFFICES ASSUME Bad # {} PROVE FALSE
    OBVIOUS
  <2> HIDE DEF s, t
  <2>1. PICK i \in Bad : \A j \in Bad : i <= j
    <3>1. Bad \in SUBSET Nat
      BY <1>1
    <3> QED
      BY <3>1, LeastExists
  <2>2. i # 0
    BY <1>3, <1>4 DEF Joins
  <2> HIDE DEF N
  <2>3. i \in 1..N /\ i - 1 \in 0..N /\ ~(i <= i - 1)
    BY <1>1, <2>2
  <2>4. f[i - 1] = g[i - 1]
    BY <2>1, <2>3
  <2>5. s[i] = t[i]
    BY <1>9, <2>3, <2>4
  <2>6. f[i] = f[i - 1] \o s[i] /\ g[i] = g[i - 1] \o t[i]
    BY <1>1, <1>3, <1>4, <2>3 DEF Joins
  <2> QED
    BY <2>4, <2>5, <2>6
<1>11. \A i \in 1..N : /\ NameOrder[i] \in DOMAIN l <=> NameOrder[i] \in DOMAIN m
                       /\ NameOrder[i] \in DOMAIN l => l[NameOrder[i]] = m[NameOrder[i]]
  <2> TAKE i \in 1..N
  <2>1. i - 1 \in 0..N
    BY <1>1
  <2>2. f[i - 1] = g[i - 1]
    BY <1>10, <2>1
  <2> QED
    BY <1>8, <2>2
<1>12. \A n \in DOMAIN l \cup DOMAIN m : \E i \in 1..N : n = NameOrder[i]
  <2>1. DOMAIN NameOrder = 1..N
    BY StreamsAssumption
  <2>2. Range(NameOrder) = {NameOrder[i] : i \in 1..N}
    BY <2>1 DEF Range
  <2> QED
    BY <2>2 DEF Keyable
<1> HIDE DEF N, s, t
<1> QED
  BY <1>11, <1>12

-----------------------------------------------------------------------------
(* The rows of a group *)

\* Of an alert, named by its group and its index there: its labels and its line,
\* and the time of its row if the group is converted with the time t.
Labels(x) == StreamLabels(Data[x[1]], Data[x[1]].alerts[x[2]].status)
Line(x) == Data[x[1]].alerts[x[2]].line
Siblings(x) == ByStatus(x[1], Data[x[1]].alerts[x[2]].status)
Stamp(x, t) == t + Cardinality({i \in Siblings(x) : i < x[2]})

RowFor(x, place, t) == [at |-> Stamp(x, t), place |-> place, index |-> x[2], line |-> Line(x)]

\* The alerts of a set of groups, each with its group and place.
LEMMA AlertsAre ==
    ASSUME NEW S \in SUBSET Groups
    PROVE  /\ \A x \in Alerts(S) : /\ x = <<x[1], x[2]>> /\ x[1] \in S
                                   /\ x[2] \in DOMAIN Data[x[1]].alerts
                                   /\ x[2] \in Nat \ {0} /\ x[2] <= Len(Data[x[1]].alerts)
                                   /\ Len(Data[x[1]].alerts) \in Nat
                                   /\ Data[x[1]].alerts[x[2]] \in Alert
           /\ \A g \in S : \A i \in DOMAIN Data[g].alerts : <<g, i>> \in Alerts(S)
<1>1. ASSUME NEW x \in Alerts(S)
      PROVE  x = <<x[1], x[2]>> /\ x[1] \in S /\ x[2] \in DOMAIN Data[x[1]].alerts
  BY DEF Alerts
<1>2. \A g \in S : Data[g].alerts \in Seq(Alert)
  BY StreamsAssumption
<1>3. ASSUME NEW x \in Alerts(S)
      PROVE  /\ x[2] \in Nat \ {0} /\ x[2] <= Len(Data[x[1]].alerts)
             /\ Len(Data[x[1]].alerts) \in Nat
             /\ Data[x[1]].alerts[x[2]] \in Alert
  <2> DEFINE s == Data[x[1]].alerts
  <2>1. s \in Seq(Alert) /\ x[2] \in DOMAIN s
    BY <1>1, <1>2
  <2> HIDE DEF s
  <2>2. x[2] \in Nat \ {0} /\ x[2] <= Len(s) /\ Len(s) \in Nat /\ s[x[2]] \in Alert
    BY <2>1
  <2> QED
    BY <2>2 DEF s
<1>4. \A g \in S : \A i \in DOMAIN Data[g].alerts : <<g, i>> \in Alerts(S)
  BY DEF Alerts
<1> QED
  BY <1>1, <1>3, <1>4

\* stream.go:24-30: the alerts of a group that share a stream.
LEMMA SiblingsAre ==
    ASSUME NEW x \in Alerts(Groups)
    PROVE  /\ Siblings(x) \subseteq 1..Len(Data[x[1]].alerts) /\ x[2] \in Siblings(x)
           /\ IsFiniteSet(Siblings(x))
           /\ \A i \in Siblings(x) :
                 /\ <<x[1], i>> \in Alerts(Groups)
                 /\ Labels(<<x[1], i>>) = Labels(x)
                 /\ Siblings(<<x[1], i>>) = Siblings(x)
<1> DEFINE g == x[1]
<1>1. g \in Groups /\ x[2] \in DOMAIN Data[g].alerts
  BY AlertsAre
<1>2. Data[g].alerts \in Seq(Alert)
  BY <1>1, StreamsAssumption
<1>3. DOMAIN Data[g].alerts = 1..Len(Data[g].alerts) /\ Len(Data[g].alerts) \in Nat
  BY <1>2
<1>4. Siblings(x) \subseteq 1..Len(Data[g].alerts) /\ x[2] \in Siblings(x)
  BY <1>1, <1>3 DEF Siblings, ByStatus
<1>5. IsFiniteSet(Siblings(x))
  <2>1. IsFiniteSet(1..Len(Data[g].alerts))
    BY <1>3, FS_Interval
  <2> QED
    BY <1>4, <2>1, FS_Subset
<1>6. ASSUME NEW i \in Siblings(x)
      PROVE  /\ <<g, i>> \in Alerts(Groups)
             /\ Labels(<<g, i>>) = Labels(x)
             /\ Siblings(<<g, i>>) = Siblings(x)
  <2>1. i \in DOMAIN Data[g].alerts /\ Data[g].alerts[i].status = Data[g].alerts[x[2]].status
    BY DEF Siblings, ByStatus
  <2> QED
    BY <1>1, <2>1, AlertsAre DEF Labels, Siblings
<1> QED
  BY <1>4, <1>5, <1>6

\* The offsets in a group differ, and are below the number of its alerts.
LEMMA StampsAre ==
    ASSUME NEW x \in Alerts(Groups), NEW t \in Nat
    PROVE  /\ Stamp(x, t) \in Nat
           /\ t <= Stamp(x, t) /\ Stamp(x, t) < t + Len(Data[x[1]].alerts)
           /\ \A i \in Siblings(x) : i < x[2] => Stamp(<<x[1], i>>, t) < Stamp(x, t)
<1> DEFINE Lower(k) == {i \in Siblings(x) : i < k}
           n == Len(Data[x[1]].alerts)
<1>1. Siblings(x) \subseteq 1..n /\ x[2] \in Siblings(x) /\ x[2] \in Nat \ {0}
      /\ x[2] <= n /\ n \in Nat
  BY AlertsAre, SiblingsAre
<1>2. \A k : IsFiniteSet(Lower(k)) /\ Cardinality(Lower(k)) \in Nat
  <2> TAKE k
  <2>1. IsFiniteSet(Lower(k))
    BY SiblingsAre, FS_Subset
  <2> QED
    BY <2>1, FS_CardinalityType
<1>3. Cardinality(Lower(x[2])) < n
  <2>1. Lower(x[2]) \in SUBSET (1..(x[2] - 1))
    BY <1>1
  <2>2. IsFiniteSet(1..(x[2] - 1)) /\ Cardinality(1..(x[2] - 1)) = x[2] - 1
    <3>1. 1 \in Int /\ x[2] - 1 \in Int
      BY <1>1
    <3>2. /\ IsFiniteSet(1..(x[2] - 1))
          /\ Cardinality(1..(x[2] - 1)) = IF 1 > x[2] - 1 THEN 0 ELSE (x[2] - 1) - 1 + 1
      BY <3>1, FS_Interval
    <3> QED
      BY <1>1, <3>2
  <2>3. Cardinality(Lower(x[2])) <= x[2] - 1
    <3> HIDE DEF Lower
    <3>1. Cardinality(Lower(x[2])) <= Cardinality(1..(x[2] - 1))
      BY <2>1, <2>2, FS_Subset
    <3> QED
      BY <2>2, <3>1
  <2> HIDE DEF Lower
  <2> QED
    BY <1>1, <1>2, <2>3
<1>4. ASSUME NEW i \in Siblings(x), i < x[2]
      PROVE  Cardinality(Lower(i)) < Cardinality(Lower(x[2])) /\ Siblings(<<x[1], i>>) = Siblings(x)
  <2>1. i \in Nat
    BY <1>1
  <2>2. Lower(i) \in SUBSET Lower(x[2]) /\ i \in Lower(x[2]) /\ i \notin Lower(i)
    BY <1>1, <1>4, <2>1
  <2> HIDE DEF Lower
  <2>3. Cardinality(Lower(i)) <= Cardinality(Lower(x[2]))
        /\ Cardinality(Lower(i)) # Cardinality(Lower(x[2]))
    BY <1>2, <2>2, FS_Subset
  <2> QED
    BY <1>2, <2>3, SiblingsAre
<1>5. Stamp(x, t) = t + Cardinality(Lower(x[2]))
  BY DEF Stamp
<1>6. \A i \in Siblings(x) : i < x[2] => Stamp(<<x[1], i>>, t) = t + Cardinality(Lower(i))
  BY <1>4 DEF Stamp
<1> HIDE DEF Lower
<1>7. \A i \in Siblings(x) : i < x[2] => Stamp(<<x[1], i>>, t) < Stamp(x, t)
  BY <1>2, <1>4, <1>5, <1>6
<1> QED
  BY <1>1, <1>2, <1>3, <1>5, <1>7

\* stream.go:103-130: the names and the values of a stream's labels.
LEMMA KeyableParts ==
    /\ \A F, G : Keyable(F) /\ Keyable(G) => Keyable(Over(F, G))
    /\ \A F : Keyable(F) => Keyable(Puttable(F)) /\ Keyable(Promoted(F))
<1>1. ASSUME NEW F, NEW G, Keyable(F), Keyable(G) PROVE Keyable(Over(F, G))
  <2> DEFINE o == Over(F, G)
  <2>1. /\ DOMAIN o = DOMAIN F \cup DOMAIN G
        /\ \A n \in DOMAIN F : o[n] = F[n]
        /\ \A n \in DOMAIN G : n \notin DOMAIN F => o[n] = G[n]
    BY OverIs
  <2> HIDE DEF o
  <2>2. Keyable(o)
    BY <1>1, <2>1 DEF Keyable
  <2> QED
    BY <2>2 DEF o
<1>2. ASSUME NEW F, Keyable(F) PROVE Keyable(Puttable(F)) /\ Keyable(Promoted(F))
  <2>1. DOMAIN Puttable(F) \subseteq DOMAIN F /\ \A n \in DOMAIN Puttable(F) : Puttable(F)[n] = F[n]
    BY PuttableIs
  <2>2. DOMAIN Promoted(F) \subseteq DOMAIN F /\ \A n \in DOMAIN Promoted(F) : Promoted(F)[n] = F[n]
    BY PromotedIs
  <2>3. Keyable(Puttable(F))
    BY <1>2, <2>1 DEF Keyable
  <2>4. Keyable(Promoted(F))
    BY <1>2, <2>2 DEF Keyable
  <2> QED
    BY <2>3, <2>4
<1> QED
  BY <1>1, <1>2

\* The labels of every alert are names and values that streamKey can tell apart.
LEMMA LabelsAreKeyable ==
    ASSUME NEW x \in Alerts(Groups)
    PROVE  Keyable(Labels(x))
<1> DEFINE d == Data[x[1]]
           status == d.alerts[x[2]].status
           top == [alert_status |-> status]
           reserved == Reserved(d)
<1>1. x[1] \in Groups /\ d.alerts[x[2]] \in Alert
  BY AlertsAre
<1>2. \A q \in Seq(STRING) : q \in Seq(Tokens)
  <2> TAKE q \in Seq(STRING)
  <2>1. STRING \subseteq Tokens
    BY DEF Tokens
  <2>2. Len(q) \in Nat /\ q \in [1..Len(q) -> STRING]
    BY LenProperties
  <2>3. q \in [1..Len(q) -> Tokens]
    BY <2>1, <2>2
  <2> QED
    BY <2>2, <2>3
<1>3. Keyable(d.groupLabels) /\ Keyable(d.commonLabels) /\ Keyable(d.extraLabels)
  <2>1. \A labels \in {d.groupLabels, d.commonLabels, d.extraLabels} : Keyable(labels)
    BY <1>1, <1>2, StreamsAssumption DEF Keyable
  <2> QED
    BY <2>1
<1>4. ReservedNames \subseteq Range(NameOrder) /\ d.receiver \in Seq(Tokens) /\ d.status \in Seq(Tokens)
  BY <1>1, <1>2, StreamsAssumption
<1>5. status \in Seq(Tokens)
  BY <1>1, <1>2 DEF Alert
<1>6. Keyable(top)
  <2>1. DOMAIN top = {"alert_status"} /\ top["alert_status"] = status
    OBVIOUS
  <2>2. "alert_status" \in Range(NameOrder)
    BY <1>4 DEF ReservedNames
  <2> HIDE DEF top, status
  <2> QED
    BY <1>5, <2>1, <2>2 DEF Keyable
<1>7. Keyable(reserved)
  <2> DEFINE program == <<"alertsnitch">>
             name == Lookup(d.commonLabels, "alertname")
             receiver == d.receiver
             s == d.status
  <2>1. program \in Seq(Tokens)
    <3> DEFINE c == "alertsnitch"
    <3>1. c \in Tokens
      BY DEF Tokens
    <3> HIDE DEF c
    <3>2. <<c>> \in Seq(Tokens)
      BY <3>1
    <3> QED
      BY <3>2 DEF c
  <2>2. name \in Seq(Tokens)
    BY <1>3, EmptySeq DEF Lookup, Keyable
  <2>3. reserved = [service_name |-> program, receiver |-> receiver, status |-> s, alert_name |-> name]
    BY DEF Reserved
  <2>4. DOMAIN reserved = ReservedNames \ {"alert_status"}
    BY ReservedIs
  <2> HIDE DEF program, name, receiver, s
  <2>5. \A n \in {"service_name", "receiver", "status", "alert_name"} : reserved[n] \in {program, receiver, s, name}
    BY <2>3
  <2>6. receiver \in Seq(Tokens) /\ s \in Seq(Tokens)
    BY <1>4 DEF receiver, s
  <2>7. \A n \in DOMAIN reserved : n \in {"service_name", "receiver", "status", "alert_name"}
    BY <2>4 DEF ReservedNames
  <2> HIDE DEF reserved
  <2> QED
    BY <1>4, <2>1, <2>2, <2>4, <2>5, <2>6, <2>7 DEF Keyable
<1> HIDE DEF top, reserved
<1>8. Keyable(Over(reserved, Over(Promoted(d.groupLabels),
                 Over(Promoted(d.commonLabels), Puttable(d.extraLabels)))))
  BY <1>3, <1>7, KeyableParts
<1>9. Keyable(Over(top, BuildStreamLabels(d)))
  BY <1>6, <1>8, KeyableParts DEF BuildStreamLabels, reserved
<1> QED
  BY <1>9 DEF Labels, StreamLabels, top

\* stream.go:167-169: alerts whose streams have the same key have the same labels.
LEMMA KeysTellApart ==
    ASSUME NEW x \in Alerts(Groups), NEW y \in Alerts(Groups),
           StreamKey(Labels(x)) = StreamKey(Labels(y))
    PROVE  Labels(x) = Labels(y)
<1>1. DOMAIN Labels(x) = DOMAIN Labels(y) /\ \A n \in DOMAIN Labels(x) : Labels(x)[n] = Labels(y)[n]
  BY LabelsAreKeyable, KeyTellsApart
<1>2. \A F, G : Over(F, G) = [n \in DOMAIN Over(F, G) |-> Over(F, G)[n]]
  BY DEF Over
<1>3. \A z : Labels(z) = [n \in DOMAIN Labels(z) |-> Labels(z)[n]]
  BY <1>2 DEF Labels, StreamLabels
<1> QED
  BY <1>1, <1>3

\* The rows of a stream that one group makes: those received together are spread.
LEMMA FreshRowsAre ==
    ASSUME NEW x \in Alerts(Groups), NEW place \in Nat, NEW t \in Nat
    PROVE  EnsureMonotonic({[at |-> t, place |-> place, index |-> j, line |-> Line(<<x[1], j>>)] :
                              j \in Siblings(x)})
             = {RowFor(<<x[1], j>>, place, t) : j \in Siblings(x)}
<1> DEFINE sib == Siblings(x)
           row(j) == [at |-> t, place |-> place, index |-> j, line |-> Line(<<x[1], j>>)]
           R == {row(j) : j \in sib}
           Lower(j) == {i \in sib : i < j}
<1>1. /\ sib \subseteq Nat /\ IsFiniteSet(sib) /\ sib # {}
      /\ \A j \in sib : Line(<<x[1], j>>) \in STRING
  <2>1. \A j \in sib : <<x[1], j>> \in Alerts(Groups)
    BY SiblingsAre
  <2>2. ASSUME NEW j \in sib PROVE Line(<<x[1], j>>) \in STRING
    <3> DEFINE y == <<x[1], j>>
    <3>1. y \in Alerts(Groups)
      BY <2>1
    <3>2. Data[y[1]].alerts[y[2]] \in Alert
      BY <3>1, AlertsAre
    <3> HIDE DEF y
    <3>3. Line(y) \in STRING
      BY <3>2 DEF Line, Alert
    <3> QED
      BY <3>3 DEF y
  <2> QED
    BY <2>2, SiblingsAre, AlertsAre
<1>2. \A j \in sib : IsFiniteSet(Lower(j)) /\ Cardinality(Lower(j)) \in Nat
  <2> TAKE j \in sib
  <2>1. IsFiniteSet(Lower(j))
    BY <1>1, FS_Subset
  <2> QED
    BY <2>1, FS_CardinalityType
<1>3. \A y \in R : \E j \in sib : y = row(j)
  OBVIOUS
<1>4. \A j \in sib : /\ row(j) \in R /\ row(j).at = t /\ row(j).place = place
                     /\ row(j).index = j /\ row(j).line = Line(<<x[1], j>>)
  OBVIOUS
<1>5. Appended(R)
  <2> DEFINE h == [j \in sib |-> row(j)]
  <2>1. R \subseteq [at : Nat, place : Nat, index : Nat, line : STRING]
    <3>1. \A j \in sib : row(j) \in [at : Nat, place : Nat, index : Nat, line : STRING]
      BY <1>1
    <3> HIDE DEF row
    <3> QED
      BY <3>1
  <2>2. IsFiniteSet(R)
    <3>1. h \in [sib -> R] /\ \A y \in R : \E j \in sib : h[j] = y
      BY <1>3, <1>4
    <3> HIDE DEF h, sib
    <3> QED
      BY <1>1, <3>1, ImageBound
  <2>3. \A y, z \in R : y.place = z.place /\ y.index = z.index => y = z
    <3> HIDE DEF R
    <3>1. ASSUME NEW i \in sib, NEW j \in sib, row(i).index = row(j).index PROVE row(i) = row(j)
      BY <1>4, <3>1
    <3> HIDE DEF row
    <3> QED
      BY <1>3, <3>1
  <2> HIDE DEF R
  <2> QED
    BY <2>1, <2>2, <2>3 DEF Appended
<1>6. ASSUME NEW j \in sib PROVE Number(R, row(j)) = Cardinality(Lower(j)) + 1
  <2> DEFINE U == UpTo(R, row(j))
             L == Lower(j) \cup {j}
             h == [k \in L |-> row(k)]
  <2>1. \A k \in sib : row(k) \in U <=> k \in L
    <3> TAKE k \in sib
    <3>1. k \in Nat /\ j \in Nat /\ t \in Nat /\ place \in Nat
      BY <1>1
    <3> QED
      BY <1>4, <3>1 DEF UpTo, Before
  <2>2. L \subseteq sib /\ U \subseteq R
    BY DEF UpTo
  <2>3. h \in [L -> U] /\ \A y \in U : \E k \in L : h[k] = y
    BY <1>3, <2>1, <2>2
  <2>4. \A k1, k2 \in L : h[k1] = h[k2] => k1 = k2
    BY <1>4, <2>2
  <2>5. IsFiniteSet(L) /\ Cardinality(L) = Cardinality(Lower(j)) + 1
    <3>1. j \notin Lower(j)
      BY <1>1
    <3> QED
      BY <1>2, <3>1, FS_AddElement
  <2> HIDE DEF U, L, h
  <2>6. IsFiniteSet(U) /\ Cardinality(U) <= Cardinality(L)
    BY <2>3, <2>5, ImageBound
  <2>7. Cardinality(L) <= Cardinality(U)
    BY <2>3, <2>4, <2>6, InjectiveBound
  <2>8. Cardinality(U) = Cardinality(L)
    BY <2>5, <2>6, <2>7, FS_CardinalityType
  <2> QED
    BY <2>5, <2>8 DEF Number, U
<1>7. PICK k \in sib : \A j \in sib : k <= j
  BY <1>1, LeastExists
<1>8. Cardinality(Lower(k)) = 0
  <2>1. Lower(k) = {}
    BY <1>1, <1>7
  <2> QED
    BY <2>1, FS_EmptySet
<1>9. ASSUME NEW j \in sib PROVE Nudged(R, row(j)) = t + Cardinality(Lower(j))
  <2> DEFINE y == row(j)
             least == row(k)
  <2>1. y \in R /\ least \in R /\ y.at = t /\ least.at = t
    BY <1>4
  <2>2. least \in UpTo(R, y)
    <3>1. k \in Nat /\ j \in Nat /\ k <= j
      BY <1>1, <1>7
    <3> QED
      BY <1>4, <2>1, <3>1 DEF UpTo, Before
  <2>3. Number(R, y) = Cardinality(Lower(j)) + 1 /\ Number(R, least) = 1
    <3>1. Number(R, y) = Cardinality(Lower(j)) + 1 /\ Number(R, least) = Cardinality(Lower(k)) + 1
      BY <1>6
    <3> HIDE DEF y, least, R, Lower
    <3> QED
      BY <1>8, <3>1
  <2> HIDE DEF y, least, R
  <2>4. PICK z \in UpTo(R, y) : Nudged(R, y) = z.at + (Number(R, y) - Number(R, z))
    BY <1>5, <2>1, NudgedIsForced
  <2>5. z \in R /\ z.at = t /\ Number(R, z) \in Nat \ {0}
    <3>1. z \in R
      BY DEF UpTo
    <3>2. PICK i \in sib : z = row(i)
      BY <1>3, <3>1
    <3>3. z.at = t
      BY <3>2
    <3> QED
      BY <1>5, <3>1, <3>3, NumbersIncrease
  <2>6. least.at + (Number(R, y) - Number(R, least)) <= Nudged(R, y)
    BY <1>5, <2>1, <2>2, NudgedIsForced
  <2>7. Cardinality(Lower(j)) \in Nat
    BY <1>2
  <2> HIDE DEF Lower
  <2>8. Nudged(R, y) = t + Cardinality(Lower(j))
    BY <2>1, <2>3, <2>4, <2>5, <2>6, <2>7
  <2> QED
    BY <2>8 DEF y
<1>10. ASSUME NEW j \in sib
       PROVE  [row(j) EXCEPT !.at = Nudged(R, row(j))] = RowFor(<<x[1], j>>, place, t)
  <2>1. Siblings(<<x[1], j>>) = sib /\ <<x[1], j>>[2] = j
    BY SiblingsAre
  <2>2. Stamp(<<x[1], j>>, t) = t + Cardinality(Lower(j))
    BY <2>1 DEF Stamp
  <2>3. [row(j) EXCEPT !.at = Nudged(R, row(j))]
          = [at |-> t + Cardinality(Lower(j)), place |-> place, index |-> j,
             line |-> Line(<<x[1], j>>)]
    <3> DEFINE n == Nudged(R, row(j))
    <3>1. n = t + Cardinality(Lower(j))
      BY <1>9
    <3> HIDE DEF n
    <3>2. [row(j) EXCEPT !.at = n]
            = [at |-> n, place |-> place, index |-> j, line |-> Line(<<x[1], j>>)]
      OBVIOUS
    <3> QED
      BY <3>1, <3>2 DEF n
  <2> HIDE DEF row, R, Lower
  <2> QED
    BY <2>1, <2>2, <2>3 DEF RowFor
<1>11. EnsureMonotonic(R) = {[row(j) EXCEPT !.at = Nudged(R, row(j))] : j \in sib}
  BY DEF EnsureMonotonic
<1>12. {[row(j) EXCEPT !.at = Nudged(R, row(j))] : j \in sib}
          = {RowFor(<<x[1], j>>, place, t) : j \in sib}
  <2> HIDE DEF row, R
  <2> QED
    BY <1>10
<1>13. EnsureMonotonic(R) = {RowFor(<<x[1], j>>, place, t) : j \in sib}
  BY <1>11, <1>12
<1> QED
  BY <1>13

-----------------------------------------------------------------------------
(* The streams of a batch *)

\* The stream of an alert whose group is converted at a place with the time t.
StreamFor(x, place, t) ==
    [labels |-> Labels(x), key |-> StreamKey(Labels(x)), place |-> place,
     values |-> {RowFor(<<x[1], j>>, place, t) : j \in Siblings(x)}]

\* stream.go:36-56: the streams of a group are those of its alerts.
LEMMA DataToStreamIs ==
    ASSUME NEW g \in Groups, NEW place \in Nat, NEW t \in Nat
    PROVE  DataToStream(g, place, t) = {StreamFor(<<g, i>>, place, t) : i \in DOMAIN Data[g].alerts}
<1> DEFINE alerts == Data[g].alerts
           p(st) == LET labels == StreamLabels(Data[g], st)
                    IN  [labels |-> labels, key |-> StreamKey(labels),
                         lines |-> [i \in ByStatus(g, st) |-> alerts[i].line]]
<1>1. Prepared[g] = {p(alerts[i].status) : i \in DOMAIN alerts}
  <2>1. Prepared[g] = {p(st) : st \in {a.status : a \in Range(alerts)}}
    BY DEF Prepared
  <2>2. {a.status : a \in Range(alerts)} = {alerts[i].status : i \in DOMAIN alerts}
    BY DEF Range
  <2> HIDE DEF p, alerts
  <2> QED
    BY <2>1, <2>2
<1>2. ASSUME NEW i \in DOMAIN alerts
      PROVE  CreateStream(p(alerts[i].status), place, t) = StreamFor(<<g, i>>, place, t)
  <2> DEFINE x == <<g, i>>
             q == p(alerts[i].status)
             line(j) == Line(<<x[1], j>>)
  <2>1. x \in Alerts(Groups) /\ x[1] = g /\ x[2] = i
    BY AlertsAre
  <2>2. q.labels = Labels(x) /\ q.key = StreamKey(Labels(x))
    BY DEF Labels
  <2>3. DOMAIN q.lines = Siblings(x) /\ \A j \in Siblings(x) : q.lines[j] = line(j)
    BY DEF Siblings, Line
  <2> HIDE DEF x, q, p, line
  <2>4. {[at |-> t, place |-> place, index |-> j, line |-> q.lines[j]] : j \in DOMAIN q.lines}
          = {[at |-> t, place |-> place, index |-> j, line |-> line(j)] : j \in Siblings(x)}
    BY <2>3
  <2>5. EnsureMonotonic({[at |-> t, place |-> place, index |-> j, line |-> line(j)] :
                           j \in Siblings(x)})
          = {RowFor(<<x[1], j>>, place, t) : j \in Siblings(x)}
    BY <2>1, FreshRowsAre DEF line
  <2>6. CreateStream(q, place, t) = StreamFor(x, place, t)
    BY <2>2, <2>4, <2>5 DEF CreateStream, Stream, StreamFor
  <2> QED
    BY <2>6 DEF x, q
<1>3. DataToStream(g, place, t)
        = {CreateStream(p(alerts[i].status), place, t) : i \in DOMAIN alerts}
  <2> HIDE DEF p, alerts
  <2> QED
    BY <1>1 DEF DataToStream
<1> HIDE DEF p
<1> QED
  BY <1>2, <1>3

\* A batch, and the times its groups have when it is converted.
Convertible(b, at) ==
    /\ DOMAIN b \subseteq Groups /\ IsFiniteSet(DOMAIN b)
    /\ \A g \in DOMAIN b : b[g] \in Nat
    /\ \A g, h \in DOMAIN b : b[g] = b[h] => g = h
    /\ \A g \in Ready(b) : at[g] \in Nat

Fresh(b, at, x) == StreamFor(x, b[x[1]], at[x[1]])

\* batch.go:228-237: the streams of a batch are those of the alerts of its groups.
LEMMA ConvertedIs ==
    ASSUME NEW b, NEW at, Convertible(b, at)
    PROVE  Converted(b, at) = {Fresh(b, at, x) : x \in Alerts(Ready(b))}
<1>1. Ready(b) \in SUBSET Groups /\ \A g \in Ready(b) : b[g] \in Nat /\ at[g] \in Nat
  BY DEF Convertible, Ready
<1>2. \A g \in Ready(b) :
         DataToStream(g, b[g], at[g]) = {Fresh(b, at, <<g, i>>) : i \in DOMAIN Data[g].alerts}
  <2> TAKE g \in Ready(b)
  <2>1. DataToStream(g, b[g], at[g])
          = {StreamFor(<<g, i>>, b[g], at[g]) : i \in DOMAIN Data[g].alerts}
    BY <1>1, DataToStreamIs
  <2>2. \A i : Fresh(b, at, <<g, i>>) = StreamFor(<<g, i>>, b[g], at[g])
    BY DEF Fresh
  <2> QED
    BY <2>1, <2>2
<1>3. ASSUME NEW s \in Converted(b, at) PROVE \E x \in Alerts(Ready(b)) : s = Fresh(b, at, x)
  <2>1. PICK g \in Ready(b) : s \in DataToStream(g, b[g], at[g])
    BY DEF Converted
  <2>2. PICK i \in DOMAIN Data[g].alerts : s = Fresh(b, at, <<g, i>>)
    BY <1>2, <2>1
  <2>3. <<g, i>> \in Alerts(Ready(b))
    BY <1>1, AlertsAre
  <2> QED
    BY <2>2, <2>3
<1>4. ASSUME NEW x \in Alerts(Ready(b)) PROVE Fresh(b, at, x) \in Converted(b, at)
  <2>1. x = <<x[1], x[2]>> /\ x[1] \in Ready(b) /\ x[2] \in DOMAIN Data[x[1]].alerts
    BY <1>1, AlertsAre
  <2>2. Fresh(b, at, x) \in DataToStream(x[1], b[x[1]], at[x[1]])
    BY <1>2, <2>1
  <2> QED
    BY <2>1, <2>2 DEF Converted
<1> QED
  BY <1>3, <1>4

-----------------------------------------------------------------------------
(* The payload of a batch *)

\* Groups have finitely many alerts together.
LEMMA AlertsAreFinite ==
    ASSUME NEW S \in SUBSET Groups
    PROVE  IsFiniteSet(Alerts(S))
<1> DEFINE F == {{g} \X DOMAIN Data[g].alerts : g \in S}
           h == [g \in S |-> {g} \X DOMAIN Data[g].alerts]
<1>1. IsFiniteSet(S)
  BY FS_Subset, StreamsAssumption
<1>2. IsFiniteSet(F)
  <2>1. h \in [S -> F] /\ \A y \in F : \E g \in S : h[g] = y
    OBVIOUS
  <2> HIDE DEF h, F
  <2> QED
    BY <1>1, <2>1, ImageBound
<1>3. ASSUME NEW g \in S PROVE IsFiniteSet({g} \X DOMAIN Data[g].alerts)
  <2>1. Data[g].alerts \in Seq(Alert)
    BY StreamsAssumption
  <2>2. DOMAIN Data[g].alerts = 1..Len(Data[g].alerts) /\ Len(Data[g].alerts) \in Nat
    BY <2>1
  <2>3. IsFiniteSet(DOMAIN Data[g].alerts) /\ IsFiniteSet({g})
    <3>1. IsFiniteSet(1..Len(Data[g].alerts))
      BY <2>2, FS_Interval
    <3> QED
      BY <2>2, <3>1, FS_Singleton
  <2> QED
    BY <2>3, FS_Product
<1>4. \A T \in F : IsFiniteSet(T)
  BY <1>3
<1>5. IsFiniteSet(UNION F)
  <2> HIDE DEF F
  <2> QED
    BY <1>2, <1>4, FS_UNION
<1> QED
  BY <1>5 DEF Alerts

\* labels.go:24-28: the streams pushed have the labels of the alerts of the batch.
LEMMA PayloadLabels ==
    ASSUME NEW b, NEW at, Convertible(b, at)
    PROVE  \A s \in MergeStreams(Converted(b, at)) :
              \E x \in Alerts(Ready(b)) : s.labels = Labels(x)
<1> DEFINE T == Converted(b, at)
<1>1. \A s \in T : \E x \in Alerts(Ready(b)) : s.labels = Labels(x)
  BY ConvertedIs DEF Fresh, StreamFor
<1> HIDE DEF T
<1>2. ASSUME NEW s \in MergeStreams(T) PROVE \E r \in T : s.labels = r.labels
  <2> DEFINE Rows(r) == Renormalised(UNION {t.values : t \in {t \in T : t.key = r.key}})
  <2>1. PICK r \in T : s = [labels |-> r.labels, values |-> Rows(r)]
    BY DEF MergeStreams
  <2> HIDE DEF Rows
  <2> QED
    BY <2>1
<1> QED
  BY <1>1, <1>2 DEF T

\* Of the streams of one key there is a first.
LEMMA FirstOfKey ==
    ASSUME NEW b, NEW at, Convertible(b, at), NEW r \in Converted(b, at)
    PROVE  \E s \in Converted(b, at) :
              /\ s.key = r.key
              /\ \A t \in {t \in Converted(b, at) : t.key = s.key} : s.place <= t.place
<1> DEFINE T == Converted(b, at)
           Places == {t.place : t \in {t \in T : t.key = r.key}}
<1>1. \A t \in T : t.place \in Nat
  <2> TAKE t \in T
  <2>1. PICK x \in Alerts(Ready(b)) : t = Fresh(b, at, x)
    BY ConvertedIs
  <2>2. x[1] \in DOMAIN b
    BY AlertsAre DEF Convertible, Ready
  <2> QED
    BY <2>1, <2>2 DEF Convertible, Fresh, StreamFor
<1> HIDE DEF T
<1>2. Places \in SUBSET Nat /\ Places # {}
  BY <1>1 DEF T
<1>3. PICK n \in Places : \A m \in Places : n <= m
  BY <1>2, LeastExists
<1>4. PICK s \in T : s.key = r.key /\ s.place = n
  BY <1>3
<1>5. \A t \in {t \in T : t.key = s.key} : s.place <= t.place
  BY <1>3, <1>4
<1> QED
  BY <1>4, <1>5 DEF T

\* batch.go:238: nothing is pushed exactly if no group converts.
LEMMA PayloadIsEmpty ==
    ASSUME NEW b, NEW at, Convertible(b, at)
    PROVE  (MergeStreams(Converted(b, at)) = {}) <=> (Ready(b) = {})
<1>1. ASSUME Ready(b) = {} PROVE MergeStreams(Converted(b, at)) = {}
  BY <1>1 DEF Converted, MergeStreams
<1>2. ASSUME NEW g \in Ready(b) PROVE MergeStreams(Converted(b, at)) # {}
  <2>1. g \in Groups /\ Ready(b) \in SUBSET Groups /\ Data[g].alerts # <<>>
    BY DEF Convertible, Ready, Converts
  <2>2. 1 \in DOMAIN Data[g].alerts
    <3>1. Data[g].alerts \in Seq(Alert)
      BY <2>1, StreamsAssumption
    <3> QED
      BY <2>1, <3>1
  <2>3. <<g, 1>> \in Alerts(Ready(b))
    BY <2>1, <2>2, AlertsAre
  <2>4. Fresh(b, at, <<g, 1>>) \in Converted(b, at)
    BY <2>3, ConvertedIs
  <2>5. PICK s \in Converted(b, at) :
           \A t \in {t \in Converted(b, at) : t.key = s.key} : s.place <= t.place
    BY <2>4, FirstOfKey
  <2> DEFINE T == Converted(b, at)
  <2> HIDE DEF T
  <2> QED
    BY <2>5 DEF MergeStreams, T
<1> QED
  BY <1>1, <1>2

\* The row of an alert before the merge, and those of the stream with its labels.
FreshRow(b, at, x) == RowFor(x, b[x[1]], at[x[1]])
Gathered(b, at, labels) ==
    {FreshRow(b, at, x) : x \in {x \in Alerts(Ready(b)) : Labels(x) = labels}}

\* The entry of an alert in the payload.
EntryOf(b, at, x) ==
    [labels |-> Labels(x), at |-> Nudged(Gathered(b, at, Labels(x)), FreshRow(b, at, x)),
     line |-> Line(x)]

\* The alerts of the groups that convert, with their places and times.
LEMMA ReadyAlertsAre ==
    ASSUME NEW b, NEW at, Convertible(b, at)
    PROVE  /\ Ready(b) \in SUBSET Groups /\ Alerts(Ready(b)) \in SUBSET Alerts(Groups)
           /\ IsFiniteSet(Alerts(Ready(b)))
           /\ \A x \in Alerts(Ready(b)) :
                 /\ x = <<x[1], x[2]>> /\ x[1] \in DOMAIN b
                 /\ b[x[1]] \in Nat /\ at[x[1]] \in Nat
                 /\ x[2] \in Nat \ {0} /\ Line(x) \in STRING
                 /\ \A j \in Siblings(x) : <<x[1], j>> \in Alerts(Ready(b))
<1>1. /\ Ready(b) \in SUBSET Groups
      /\ \A g \in Ready(b) : g \in DOMAIN b /\ b[g] \in Nat /\ at[g] \in Nat
  BY DEF Convertible, Ready
<1>2. Alerts(Ready(b)) \in SUBSET Alerts(Groups) /\ IsFiniteSet(Alerts(Ready(b)))
  <2>1. Alerts(Ready(b)) \in SUBSET Alerts(Groups)
    BY <1>1 DEF Alerts
  <2> QED
    BY <1>1, <2>1, AlertsAreFinite
<1>3. ASSUME NEW x \in Alerts(Ready(b))
      PROVE  /\ x = <<x[1], x[2]>> /\ x[1] \in Ready(b)
             /\ x[2] \in Nat \ {0} /\ Line(x) \in STRING
             /\ \A j \in Siblings(x) : <<x[1], j>> \in Alerts(Ready(b))
  <2>1. /\ x = <<x[1], x[2]>> /\ x[1] \in Ready(b) /\ x[2] \in Nat \ {0}
        /\ Data[x[1]].alerts[x[2]] \in Alert
    BY <1>1, AlertsAre
  <2>2. Line(x) \in STRING
    BY <2>1 DEF Line, Alert
  <2>3. ASSUME NEW j \in Siblings(x) PROVE <<x[1], j>> \in Alerts(Ready(b))
    <3>1. j \in DOMAIN Data[x[1]].alerts
      BY DEF Siblings, ByStatus
    <3> QED
      BY <1>1, <2>1, <3>1, AlertsAre
  <2> QED
    BY <2>1, <2>2, <2>3
<1> QED
  BY <1>1, <1>2, <1>3

\* batch.go:290: the row of each alert is in the stream of its labels, once.
LEMMA FreshRowIs ==
    ASSUME NEW b, NEW at, Convertible(b, at), NEW x \in Alerts(Ready(b))
    PROVE  /\ FreshRow(b, at, x) \in [at : Nat, place : Nat, index : Nat, line : STRING]
           /\ FreshRow(b, at, x) \in Gathered(b, at, Labels(x))
           /\ FreshRow(b, at, x).at = Stamp(x, at[x[1]])
           /\ FreshRow(b, at, x).line = Line(x)
           /\ \A y \in Alerts(Ready(b)) :
                 (/\ FreshRow(b, at, x).place = FreshRow(b, at, y).place
                  /\ FreshRow(b, at, x).index = FreshRow(b, at, y).index) => x = y
<1>1. Stamp(x, at[x[1]]) \in Nat
  BY StampsAre, ReadyAlertsAre
<1>2. ASSUME NEW y \in Alerts(Ready(b)), b[x[1]] = b[y[1]], x[2] = y[2] PROVE x = y
  <2>1. x = <<x[1], x[2]>> /\ y = <<y[1], y[2]>> /\ x[1] \in DOMAIN b /\ y[1] \in DOMAIN b
    BY ReadyAlertsAre
  <2>2. x[1] = y[1]
    BY <1>2, <2>1 DEF Convertible
  <2> QED
    BY <1>2, <2>1, <2>2
<1>3. b[x[1]] \in Nat /\ x[2] \in Nat /\ Line(x) \in STRING
  BY ReadyAlertsAre
<1>4. FreshRow(b, at, x) \in Gathered(b, at, Labels(x))
  BY DEF Gathered
<1>5. \A y : FreshRow(b, at, y) = [at |-> Stamp(y, at[y[1]]), place |-> b[y[1]],
                                    index |-> y[2], line |-> Line(y)]
  BY DEF FreshRow, RowFor
<1>6. FreshRow(b, at, x) \in [at : Nat, place : Nat, index : Nat, line : STRING]
  BY <1>1, <1>3, <1>5
<1>7. /\ FreshRow(b, at, x).at = Stamp(x, at[x[1]])
      /\ FreshRow(b, at, x).line = Line(x)
      /\ \A y : FreshRow(b, at, y).place = b[y[1]] /\ FreshRow(b, at, y).index = y[2]
  BY <1>5
<1>8. ASSUME NEW y \in Alerts(Ready(b)),
             FreshRow(b, at, x).place = FreshRow(b, at, y).place,
             FreshRow(b, at, x).index = FreshRow(b, at, y).index
      PROVE  x = y
  BY <1>2, <1>7, <1>8
<1> QED
  BY <1>4, <1>6, <1>7, <1>8

\* The rows gathered for a stream are ones that were appended, each at its own place.
LEMMA GatheredIsAppended ==
    ASSUME NEW b, NEW at, Convertible(b, at), NEW labels
    PROVE  Appended(Gathered(b, at, labels))
<1> DEFINE A == {x \in Alerts(Ready(b)) : Labels(x) = labels}
           R == Gathered(b, at, labels)
           h == [x \in A |-> FreshRow(b, at, x)]
<1>1. \A r \in R : \E x \in A : r = FreshRow(b, at, x)
  BY DEF Gathered
<1>2. \A x \in A : FreshRow(b, at, x) \in R
  BY DEF Gathered
<1>3. IsFiniteSet(A)
  BY ReadyAlertsAre, FS_Subset
<1>4. h \in [A -> R] /\ \A r \in R : \E x \in A : h[x] = r
  BY <1>1, <1>2
<1>5. A \subseteq Alerts(Ready(b))
  OBVIOUS
<1> HIDE DEF A, R, h
<1>6. IsFiniteSet(R)
  BY <1>3, <1>4, ImageBound
<1>7. R \subseteq [at : Nat, place : Nat, index : Nat, line : STRING]
  BY <1>1, <1>5, FreshRowIs
<1>8. \A x, y \in R : x.place = y.place /\ x.index = y.index => x = y
  BY <1>1, <1>5, FreshRowIs
<1> QED
  BY <1>6, <1>7, <1>8 DEF Appended, R

\* The streams of one key have the rows of the alerts with its labels.
LEMMA SameKeyRows ==
    ASSUME NEW b, NEW at, Convertible(b, at), NEW x \in Alerts(Ready(b))
    PROVE  UNION {t.values : t \in {t \in Converted(b, at) : t.key = StreamKey(Labels(x))}}
             = Gathered(b, at, Labels(x))
<1> DEFINE T == Converted(b, at)
           Same == {t \in T : t.key = StreamKey(Labels(x))}
<1>1. ASSUME NEW t \in Same, NEW r \in t.values PROVE r \in Gathered(b, at, Labels(x))
  <2>1. PICK y \in Alerts(Ready(b)) : t = Fresh(b, at, y)
    BY ConvertedIs
  <2>2. StreamKey(Labels(y)) = StreamKey(Labels(x))
    BY <2>1 DEF Fresh, StreamFor
  <2>3. Labels(y) = Labels(x)
    BY <2>2, ReadyAlertsAre, KeysTellApart
  <2>4. PICK j \in Siblings(y) : r = RowFor(<<y[1], j>>, b[y[1]], at[y[1]])
    BY <2>1 DEF Fresh, StreamFor
  <2> DEFINE z == <<y[1], j>>
  <2>5. z \in Alerts(Ready(b)) /\ z[1] = y[1]
    BY ReadyAlertsAre
  <2>6. Labels(z) = Labels(x)
    BY <2>3, ReadyAlertsAre, SiblingsAre
  <2>7. r = FreshRow(b, at, z)
    BY <2>4, <2>5 DEF FreshRow
  <2> HIDE DEF z
  <2> QED
    BY <2>5, <2>6, <2>7 DEF Gathered
<1>2. ASSUME NEW r \in Gathered(b, at, Labels(x)) PROVE \E t \in Same : r \in t.values
  <2>1. PICK z \in Alerts(Ready(b)) : Labels(z) = Labels(x) /\ r = FreshRow(b, at, z)
    BY DEF Gathered
  <2> DEFINE t == Fresh(b, at, z)
  <2>2. t \in T
    BY ConvertedIs
  <2>3. t.key = StreamKey(Labels(x))
    BY <2>1 DEF Fresh, StreamFor
  <2>4. r \in t.values
    <3>1. z = <<z[1], z[2]>> /\ z[2] \in Siblings(z)
      BY ReadyAlertsAre, SiblingsAre
    <3>2. r = RowFor(<<z[1], z[2]>>, b[z[1]], at[z[1]])
      BY <2>1, <3>1 DEF FreshRow
    <3> QED
      BY <3>1, <3>2 DEF Fresh, StreamFor
  <2> QED
    BY <2>2, <2>3, <2>4
<1> HIDE DEF T
<1>3. Gathered(b, at, Labels(x)) = UNION {t.values : t \in Same}
  BY <1>1, <1>2
<1> QED
  BY <1>3 DEF T

\* What is pushed has one entry of each alert.
LEMMA PayloadEntries ==
    ASSUME NEW b, NEW at, Convertible(b, at)
    PROVE  EntriesOf(MergeStreams(Converted(b, at))) = {EntryOf(b, at, x) : x \in Alerts(Ready(b))}
<1> DEFINE T == Converted(b, at)
           Rows(s) == UNION {t.values : t \in {t \in T : t.key = s.key}}
           First(s) == \A t \in {t \in T : t.key = s.key} : s.place <= t.place
           Merged(s) == [labels |-> s.labels, values |-> EnsureMonotonic(Rows(s))]
           Entry(p, v) == [labels |-> p.labels, at |-> v.at, line |-> v.line]
           P == MergeStreams(T)
<1>1. P = {Merged(s) : s \in {s \in T : First(s)}}
  BY DEF MergeStreams, Renormalised
<1>2. EntriesOf(P) = UNION {{Entry(p, v) : v \in p.values} : p \in P}
  BY DEF EntriesOf
<1>3. ASSUME NEW y \in Alerts(Ready(b)), NEW s \in T, s = Fresh(b, at, y)
      PROVE  Merged(s).labels = Labels(y)
             /\ Merged(s).values = EnsureMonotonic(Gathered(b, at, Labels(y)))
  <2>1. s.labels = Labels(y) /\ s.key = StreamKey(Labels(y))
    BY <1>3 DEF Fresh, StreamFor
  <2>2. Rows(s) = Gathered(b, at, Labels(y))
    BY <2>1, SameKeyRows
  <2> HIDE DEF Rows
  <2> QED
    BY <2>1, <2>2
<1>4. \A labels : EnsureMonotonic(Gathered(b, at, labels))
         = {[FreshRow(b, at, x) EXCEPT !.at = Nudged(Gathered(b, at, labels), FreshRow(b, at, x))]
              : x \in {x \in Alerts(Ready(b)) : Labels(x) = labels}}
  <2> TAKE labels
  <2> DEFINE R == Gathered(b, at, labels)
  <2>1. R = {FreshRow(b, at, x) : x \in {x \in Alerts(Ready(b)) : Labels(x) = labels}}
    BY DEF Gathered
  <2>2. EnsureMonotonic(R) = {[y EXCEPT !.at = Nudged(R, y)] : y \in R}
    BY DEF EnsureMonotonic
  <2> HIDE DEF R
  <2>3. EnsureMonotonic(R)
          = {[FreshRow(b, at, x) EXCEPT !.at = Nudged(R, FreshRow(b, at, x))]
               : x \in {x \in Alerts(Ready(b)) : Labels(x) = labels}}
    <3> DEFINE A == {x \in Alerts(Ready(b)) : Labels(x) = labels}
               moved(y) == [y EXCEPT !.at = Nudged(R, y)]
    <3>1. R = {FreshRow(b, at, x) : x \in A}
      BY <2>1
    <3>2. EnsureMonotonic(R) = {moved(y) : y \in R}
      BY <2>2
    <3> HIDE DEF A, moved
    <3>3. EnsureMonotonic(R) = {moved(FreshRow(b, at, x)) : x \in A}
      BY <3>1, <3>2
    <3> QED
      BY <3>3 DEF A, moved
  <2> QED
    BY <2>3 DEF R
<1>5. ASSUME NEW x \in Alerts(Ready(b)), NEW p, p.labels = Labels(x)
      PROVE  Entry(p, [FreshRow(b, at, x) EXCEPT
                         !.at = Nudged(Gathered(b, at, Labels(x)), FreshRow(b, at, x))])
                = EntryOf(b, at, x)
  <2> DEFINE n == Nudged(Gathered(b, at, Labels(x)), FreshRow(b, at, x))
             row == FreshRow(b, at, x)
  <2>1. row \in [at : Nat, place : Nat, index : Nat, line : STRING] /\ row.line = Line(x)
    BY FreshRowIs
  <2>2. EntryOf(b, at, x) = [labels |-> Labels(x), at |-> n, line |-> Line(x)]
    BY DEF EntryOf
  <2> HIDE DEF n, row
  <2>3. [row EXCEPT !.at = n].at = n /\ [row EXCEPT !.at = n].line = Line(x)
    BY <2>1
  <2>4. Entry(p, [row EXCEPT !.at = n]) = EntryOf(b, at, x)
    BY <1>5, <2>2, <2>3
  <2> QED
    BY <2>4 DEF n, row
<1> HIDE DEF Rows, Merged
<1>6. ASSUME NEW e \in EntriesOf(P) PROVE \E x \in Alerts(Ready(b)) : e = EntryOf(b, at, x)
  <2>1. PICK p \in P : \E v \in p.values : e = Entry(p, v)
    BY <1>2
  <2>2. PICK v \in p.values : e = Entry(p, v)
    BY <2>1
  <2>3. PICK s \in T : p = Merged(s)
    BY <1>1
  <2>4. PICK y \in Alerts(Ready(b)) : s = Fresh(b, at, y)
    BY ConvertedIs
  <2>5. p.labels = Labels(y) /\ v \in EnsureMonotonic(Gathered(b, at, Labels(y)))
    BY <1>3, <2>2, <2>3, <2>4
  <2>6. PICK x \in Alerts(Ready(b)) :
           /\ Labels(x) = Labels(y)
           /\ v = [FreshRow(b, at, x) EXCEPT
                     !.at = Nudged(Gathered(b, at, Labels(y)), FreshRow(b, at, x))]
    BY <1>4, <2>5
  <2>7. e = EntryOf(b, at, x)
    BY <1>5, <2>2, <2>5, <2>6
  <2> QED
    BY <2>7
<1>7. ASSUME NEW x \in Alerts(Ready(b)) PROVE EntryOf(b, at, x) \in EntriesOf(P)
  <2> DEFINE v == [FreshRow(b, at, x) EXCEPT
                     !.at = Nudged(Gathered(b, at, Labels(x)), FreshRow(b, at, x))]
  <2>1. Fresh(b, at, x) \in T /\ Fresh(b, at, x).key = StreamKey(Labels(x))
    BY ConvertedIs DEF Fresh, StreamFor
  <2>2. PICK s \in T : s.key = StreamKey(Labels(x)) /\ First(s)
    BY <2>1, FirstOfKey
  <2>3. PICK y \in Alerts(Ready(b)) : s = Fresh(b, at, y)
    BY ConvertedIs
  <2>4. Labels(y) = Labels(x)
    <3>1. StreamKey(Labels(y)) = StreamKey(Labels(x))
      BY <2>2, <2>3 DEF Fresh, StreamFor
    <3> QED
      BY <3>1, ReadyAlertsAre, KeysTellApart
  <2>5. Merged(s) \in P /\ Merged(s).labels = Labels(x)
        /\ Merged(s).values = EnsureMonotonic(Gathered(b, at, Labels(x)))
    BY <1>1, <1>3, <2>2, <2>3, <2>4
  <2>6. v \in Merged(s).values
    BY <1>4, <2>5
  <2>7. Entry(Merged(s), v) = EntryOf(b, at, x)
    BY <1>5, <2>5
  <2> HIDE DEF v, P
  <2> QED
    BY <1>2, <2>5, <2>6, <2>7
<1> HIDE DEF P
<1>8. EntriesOf(P) = {EntryOf(b, at, x) : x \in Alerts(Ready(b))}
  BY <1>6, <1>7
<1> QED
  BY <1>8 DEF P

\* timestamps.go:9-14: two alerts never have the same entry.
LEMMA EntriesAreDistinct ==
    ASSUME NEW b, NEW at, Convertible(b, at),
           NEW x \in Alerts(Ready(b)), NEW y \in Alerts(Ready(b)),
           EntryOf(b, at, x) = EntryOf(b, at, y)
    PROVE  x = y
<1> DEFINE R == Gathered(b, at, Labels(x))
<1>1. Labels(x) = Labels(y) /\ Nudged(R, FreshRow(b, at, x)) = Nudged(R, FreshRow(b, at, y))
  BY DEF EntryOf
<1>2. FreshRow(b, at, x) \in R /\ FreshRow(b, at, y) \in R
  BY <1>1, FreshRowIs
<1>3. Appended(R)
  BY GatheredIsAppended
<1>4. FreshRow(b, at, x) = FreshRow(b, at, y)
  <2> HIDE DEF R
  <2> QED
    BY <1>1, <1>2, <1>3, NudgedIsUnique
<1> QED
  BY <1>4, FreshRowIs

-----------------------------------------------------------------------------
(* Steps *)

\* batch.go:215-242: what Flush pushes is a merge of what it could convert.
LEMMA FlushConverts ==
    ASSUME NEW b \in Batches, Flush(b)
    PROVE  /\ DOMAIN b \subseteq Having("owed") /\ Ready(b) \subseteq DOMAIN b
           /\ \E at : /\ Convertible(b, at) /\ Stamped(at) /\ DOMAIN at = Ready(b)
                      /\ payload' = MergeStreams(Converted(b, at))
<1>1. PICK S \in SUBSET Having("owed") : b \in Bijection(S, 1..Cardinality(S))
  BY DEF Batches
<1>2. /\ DOMAIN b = S /\ \A g \in S : b[g] \in 1..Cardinality(S)
      /\ \A g, h \in S : b[g] = b[h] => g = h
  BY <1>1 DEF Bijection, Injection, Surjection, IsInjective
<1>3. S \in SUBSET Groups /\ IsFiniteSet(S)
  <2>1. S \in SUBSET Groups
    BY DEF Having
  <2> QED
    BY <2>1, StreamsAssumption, FS_Subset
<1>4. PICK at \in Clocks(Ready(b)) : Stamped(at) /\ payload' = MergeStreams(Converted(b, at))
  BY DEF Flush
<1>5. DOMAIN at = Ready(b) /\ \A g \in Ready(b) : at[g] \in Times[g]
  BY <1>4 DEF Clocks
<1>6. Ready(b) \subseteq DOMAIN b
  BY DEF Ready
<1>7. \A g \in Ready(b) : at[g] \in Nat
  BY <1>2, <1>3, <1>5, <1>6, StreamsAssumption
<1>8. \A g \in DOMAIN b : b[g] \in Nat
  <2>1. \A n \in 1..Cardinality(S) : n \in Nat
    BY <1>3, FS_CardinalityType
  <2> QED
    BY <1>2, <2>1
<1>9. Convertible(b, at)
  BY <1>2, <1>3, <1>7, <1>8 DEF Convertible
<1> QED
  BY <1>1, <1>2, <1>4, <1>5, <1>6, <1>9

\* What a batch settles.
LEMMA SettleIs ==
    ASSUME NEW B, NEW st, Settle(B, st), stage \in [Groups -> {"new", "owed", "saved", "failed"}],
           st \in {"new", "owed", "saved", "failed"}
    PROVE  /\ stage' \in [Groups -> {"new", "owed", "saved", "failed"}]
           /\ \A g \in Groups \cap B : stage'[g] = st
           /\ \A g \in Groups \ B : stage'[g] = stage[g]
BY DEF Settle

\* The groups stay in range, and a payload is pushed only for groups that are owed.
THEOREM TypeCorrect == Spec => []TypeOK
<1>1. Init => TypeOK
  <2> SUFFICES ASSUME Init PROVE TypeOK
    OBVIOUS
  <2>1. receivedAt \in [Groups -> Nat] /\ \A g \in Groups : receivedAt[g] = Zero
    BY DEF Init, Zero
  <2>2. stage \in [Groups -> {"new", "owed", "saved", "failed"}]
    BY DEF Init
  <2>3. flushing = {} /\ payload = {} /\ pc = "idle"
    BY DEF Init
  <2> QED
    BY <2>1, <2>2, <2>3 DEF TypeOK
<1>2. TypeOK /\ [Next]_vars => TypeOK'
  <2> SUFFICES ASSUME TypeOK, [Next]_vars PROVE TypeOK'
    OBVIOUS
  <2>0. /\ receivedAt \in [Groups -> Nat]
        /\ \A g \in Groups : receivedAt[g] \in Times[g] \cup {Zero}
        /\ stage \in [Groups -> {"new", "owed", "saved", "failed"}]
        /\ flushing \subseteq Groups /\ \A g \in flushing : stage[g] = "owed"
        /\ pc \in {"idle", "pushing", "accepted", "failed"}
        /\ (pc = "idle") <=> (flushing = {})
        /\ (payload = {}) <=> (flushing = {})
    BY DEF TypeOK, Having
  <2>1. SUFFICES
           /\ receivedAt' \in [Groups -> Nat]
           /\ \A g \in Groups : receivedAt'[g] \in Times[g] \cup {Zero}
           /\ stage' \in [Groups -> {"new", "owed", "saved", "failed"}]
           /\ flushing' \subseteq Groups /\ \A g \in flushing' : stage'[g] = "owed"
           /\ pc' \in {"idle", "pushing", "accepted", "failed"}
           /\ (pc' = "idle") <=> (flushing' = {})
           /\ (payload' = {}) <=> (flushing' = {})
    BY DEF TypeOK, Having
  <2>2. ASSUME NEW g \in Groups, Save(g)
        PROVE  /\ receivedAt' \in [Groups -> Nat]
               /\ \A h \in Groups : receivedAt'[h] \in Times[h] \cup {Zero}
               /\ stage' \in [Groups -> {"new", "owed", "saved", "failed"}]
               /\ \A h \in flushing : stage'[h] = "owed"
               /\ UNCHANGED <<flushing, payload, pc>>
    <3>1. PICK now \in Times[g] : receivedAt' = [receivedAt EXCEPT ![g] = now]
      BY <2>2 DEF Save
    <3>2. now \in Nat
      BY StreamsAssumption
    <3>3. Settle({g}, "owed") /\ UNCHANGED <<flushing, payload, pc>>
      BY <2>2 DEF Save
    <3>4. /\ stage' \in [Groups -> {"new", "owed", "saved", "failed"}]
          /\ \A h \in flushing : stage'[h] = "owed"
      BY <2>0, <3>3, SettleIs
    <3> QED
      BY <2>0, <3>1, <3>2, <3>3, <3>4
  <2>3. ASSUME NEW b \in Batches, Flush(b)
        PROVE  /\ UNCHANGED receivedAt
               /\ stage' \in [Groups -> {"new", "owed", "saved", "failed"}]
               /\ flushing' \subseteq Groups /\ \A g \in flushing' : stage'[g] = "owed"
               /\ pc' \in {"idle", "pushing", "accepted", "failed"}
               /\ (pc' = "idle") <=> (flushing' = {})
               /\ (payload' = {}) <=> (flushing' = {})
    <3>1. DOMAIN b \subseteq Having("owed") /\ Ready(b) \subseteq DOMAIN b
          /\ ((payload' = {}) <=> (Ready(b) = {}))
      <4>1. PICK at : Convertible(b, at) /\ payload' = MergeStreams(Converted(b, at))
        BY <2>3, FlushConverts
      <4> QED
        BY <2>3, <4>1, FlushConverts, PayloadIsEmpty
    <3>2. /\ UNCHANGED receivedAt /\ flushing' = Ready(b)
          /\ pc' = (IF Ready(b) = {} THEN "idle" ELSE "pushing")
          /\ Settle(DOMAIN b \ Ready(b), "failed")
      BY <2>3 DEF Flush
    <3>3. /\ stage' \in [Groups -> {"new", "owed", "saved", "failed"}]
          /\ \A g \in Groups \ (DOMAIN b \ Ready(b)) : stage'[g] = stage[g]
      BY <2>0, <3>2, SettleIs
    <3>4. \A g \in Ready(b) : g \in Groups /\ stage[g] = "owed"
      BY <3>1 DEF Having
    <3> QED
      BY <3>1, <3>2, <3>3, <3>4
  <2>4. ASSUME PushOK
        PROVE  UNCHANGED <<receivedAt, stage, flushing, payload>> /\ pc = "pushing" /\ pc' = "accepted"
    BY <2>4 DEF PushOK
  <2>5. ASSUME PushError
        PROVE  UNCHANGED <<receivedAt, stage, flushing, payload>> /\ pc = "pushing"
               /\ pc' \in {"pushing", "failed"}
    BY <2>5 DEF PushError
  <2>6. ASSUME AckBatch
        PROVE  /\ UNCHANGED receivedAt /\ stage' \in [Groups -> {"new", "owed", "saved", "failed"}]
               /\ flushing' = {} /\ payload' = {} /\ pc' = "idle"
    <3>1. /\ UNCHANGED receivedAt /\ flushing' = {} /\ payload' = {} /\ pc' = "idle"
          /\ Settle(flushing, IF pc = "accepted" THEN "saved" ELSE "failed")
      BY <2>6 DEF AckBatch
    <3> QED
      BY <2>0, <3>1, SettleIs
  <2>7. ASSUME Crash
        PROVE  UNCHANGED <<receivedAt, stage>> /\ flushing' = {} /\ payload' = {} /\ pc' = "idle"
    BY <2>7 DEF Crash
  <2>8. CASE \E g \in Groups : Save(g)
    BY <2>0, <2>2, <2>8
  <2>9. CASE \E b \in Batches : Flush(b)
    BY <2>0, <2>3, <2>9
  <2>10. CASE PushOK \/ PushError \/ AckBatch \/ Crash
    BY <2>0, <2>4, <2>5, <2>6, <2>7, <2>10
  <2>11. CASE UNCHANGED vars
    BY <2>0, <2>11 DEF vars
  <2> QED
    BY <2>8, <2>9, <2>10, <2>11 DEF Next
<1> QED
  BY <1>1, <1>2, PTL DEF Spec

\* What a step does to what is pushed and to Loki.
LEMMA StepCases ==
    ASSUME [Next]_vars
    PROVE  \/ UNCHANGED <<flushing, payload, pc, loki>>
           \/ (\E b \in Batches : Flush(b)) /\ UNCHANGED loki
           \/ /\ pc = "pushing" /\ UNCHANGED <<flushing, payload>>
              /\ \E part \in SUBSET payload :
                    /\ loki' = loki \cup EntriesOf(part)
                    /\ pc' = "accepted" => part = payload
           \/ flushing' = {} /\ payload' = {} /\ pc' = "idle" /\ UNCHANGED loki
<1>1. CASE \E g \in Groups : Save(g)
  BY <1>1 DEF Save
<1>2. CASE \E b \in Batches : Flush(b)
  BY <1>2 DEF Flush
<1>3. CASE PushOK
  BY <1>3 DEF PushOK
<1>4. CASE PushError
  <2>1. PICK part \in SUBSET payload : loki' = loki \cup EntriesOf(part)
    BY <1>4 DEF PushError
  <2> QED
    BY <1>4, <2>1 DEF PushError
<1>5. CASE AckBatch
  BY <1>5 DEF AckBatch
<1>6. CASE Crash
  BY <1>6 DEF Crash
<1>7. CASE UNCHANGED vars
  BY <1>7 DEF vars
<1> QED
  BY <1>1, <1>2, <1>3, <1>4, <1>5, <1>6, <1>7 DEF Next

\* A group that was received stays so, and keeps its time.
LEMMA ReceivedStays ==
    ASSUME TypeOK, [Next]_vars
    PROVE  /\ Received \in SUBSET Received'
           /\ \A g \in Received : receivedAt'[g] = receivedAt[g]
<1>1. /\ stage \in [Groups -> {"new", "owed", "saved", "failed"}]
      /\ receivedAt \in [Groups -> Nat]
  BY DEF TypeOK
<1>2. ASSUME NEW B, NEW st, Settle(B, st), st \in {"owed", "saved", "failed"}
      PROVE  Received \in SUBSET Received'
  <2>1. \A g \in Groups : stage[g] # "new" => stage'[g] # "new"
    BY <1>1, <1>2, SettleIs
  <2> QED
    BY <2>1 DEF Received, Having
<1>3. CASE \E g \in Groups : Save(g)
  <2>1. PICK g \in Groups : Save(g)
    BY <1>3
  <2>2. \A h \in Received : receivedAt'[h] = receivedAt[h]
    BY <1>1, <2>1 DEF Save, Received, Having
  <2>3. Settle({g}, "owed")
    BY <2>1 DEF Save
  <2> QED
    BY <1>2, <2>2, <2>3
<1>4. CASE \E b \in Batches : Flush(b)
  <2>1. PICK b \in Batches : Flush(b)
    BY <1>4
  <2>2. Settle(DOMAIN b \ Ready(b), "failed") /\ UNCHANGED receivedAt
    BY <2>1 DEF Flush
  <2> QED
    BY <1>2, <2>2
<1>5. CASE AckBatch
  <2>1. UNCHANGED receivedAt /\ \E st \in {"saved", "failed"} : Settle(flushing, st)
    BY <1>5 DEF AckBatch
  <2> QED
    BY <1>2, <2>1
<1>6. CASE PushOK \/ PushError \/ Crash \/ UNCHANGED vars
  <2>1. UNCHANGED <<stage, receivedAt>>
    BY <1>6 DEF PushOK, PushError, Crash, vars
  <2> QED
    BY <2>1 DEF Received, Having
<1> QED
  BY <1>3, <1>4, <1>5, <1>6 DEF Next

-----------------------------------------------------------------------------
(* No poisoned push *)

\* labels.go:24-28, stream.go:108-111: no label name that came from outside makes
\* Loki reject the push, whatever the groups of the batch.
THEOREM PushesAreValid == Spec => []NoPoisonedPush
<1>1. Init => NoPoisonedPush
  BY DEF Init, NoPoisonedPush, Acceptable
<1>2. NoPoisonedPush /\ [Next]_vars => NoPoisonedPush'
  <2> SUFFICES ASSUME NoPoisonedPush, [Next]_vars PROVE \A s \in payload' : DOMAIN s.labels \subseteq ValidNames
    BY DEF NoPoisonedPush, Acceptable
  <2>1. CASE UNCHANGED payload \/ payload' = {}
    BY <2>1 DEF NoPoisonedPush, Acceptable
  <2>2. CASE \E b \in Batches : Flush(b)
    <3>1. PICK b \in Batches : Flush(b)
      BY <2>2
    <3>2. PICK at : Convertible(b, at) /\ payload' = MergeStreams(Converted(b, at))
      BY <3>1, FlushConverts
    <3>3. ASSUME NEW s \in payload' PROVE DOMAIN s.labels \subseteq ValidNames
      <4>1. PICK x \in Alerts(Ready(b)) : s.labels = Labels(x)
        BY <3>2, PayloadLabels
      <4> QED
        BY <4>1, LabelNamesAreValid DEF Labels
    <3> QED
      BY <3>3
  <2> QED
    BY <2>1, <2>2, StepCases
<1> QED
  BY <1>1, <1>2, PTL DEF Spec

-----------------------------------------------------------------------------
(* No row lost or misfiled *)

\* The entries of the payload are one of each alert that is flushed.
Covers(w) ==
    /\ DOMAIN w = Alerts(flushing)
    /\ \A x \in Alerts(flushing) : /\ w[x] \in EntriesOf(payload)
                                   /\ w[x].labels = Labels(x) /\ w[x].line = Line(x)
    /\ \A x, y \in Alerts(flushing) : w[x] = w[y] => x = y
    /\ \A e \in EntriesOf(payload) : \E x \in Alerts(flushing) : w[x] = e

\* Of an entry: an alert that it is of.
From(e, S) == \E x \in Alerts(S) : e.labels = Labels(x) /\ e.line = Line(x)

KeptInv ==
    /\ TypeOK
    /\ \E w : Covers(w)
    /\ IsFiniteSet(loki)
    /\ pc = "accepted" => EntriesOf(payload) \subseteq loki
    /\ \A e \in loki : From(e, Received)

\* A part of a payload has a part of its entries.
LEMMA EntriesArePart ==
    ASSUME NEW P, NEW part \in SUBSET P
    PROVE  EntriesOf(part) \in SUBSET EntriesOf(P)
BY DEF EntriesOf

\* No stream has no entry, and no group has no alert.
LEMMA NoEntries == EntriesOf({}) = {} /\ Alerts({}) = {}
BY DEF EntriesOf, Alerts

\* A batch that is being pushed has finitely many entries, each of an alert.
LEMMA CoveredAre ==
    ASSUME TypeOK, NEW w, Covers(w)
    PROVE  /\ IsFiniteSet(EntriesOf(payload)) /\ IsFiniteSet(Alerts(flushing))
           /\ \A e \in EntriesOf(payload) : From(e, Received)
<1>1. flushing \in SUBSET Received /\ flushing \in SUBSET Groups
  BY DEF TypeOK, Received, Having
<1>2. IsFiniteSet(Alerts(flushing))
  BY <1>1, AlertsAreFinite
<1>3. IsFiniteSet(EntriesOf(payload))
  <2> DEFINE h == [x \in Alerts(flushing) |-> w[x]]
  <2>1. h \in [Alerts(flushing) -> EntriesOf(payload)]
        /\ \A e \in EntriesOf(payload) : \E x \in Alerts(flushing) : h[x] = e
    BY DEF Covers
  <2> HIDE DEF h
  <2> QED
    BY <1>2, <2>1, ImageBound
<1>4. Alerts(flushing) \in SUBSET Alerts(Received)
  BY <1>1 DEF Alerts
<1>5. \A e \in EntriesOf(payload) : From(e, Received)
  BY <1>4 DEF Covers, From
<1> QED
  BY <1>2, <1>3, <1>5

\* The first step of KeptInvariant.
LEMMA KeptInit == Init => KeptInv
<1> SUFFICES ASSUME Init PROVE KeptInv
  OBVIOUS
<1>1. flushing = {} /\ payload = {} /\ pc = "idle" /\ loki = {} /\ \A g \in Groups : receivedAt[g] = Zero
  BY DEF Init
<1>2. TypeOK
  BY <1>1 DEF Init, TypeOK, Zero
<1>3. Covers([x \in {} |-> x])
  BY <1>1, NoEntries DEF Covers
<1>4. IsFiniteSet(loki)
  BY <1>1, FS_EmptySet
<1> QED
  BY <1>1, <1>2, <1>3, <1>4 DEF KeptInv

\* Each step keeps what the payload and Loki have of the alerts.
LEMMA KeptStep ==
    ASSUME KeptInv, TypeOK', [Next]_vars
    PROVE  KeptInv'
<1>1. PICK w : Covers(w)
  BY DEF KeptInv
<1>2. /\ TypeOK /\ IsFiniteSet(loki)
      /\ pc = "accepted" => EntriesOf(payload) \subseteq loki
      /\ \A e \in loki : From(e, Received)
  BY DEF KeptInv
<1>3. /\ IsFiniteSet(EntriesOf(payload))
      /\ \A e \in EntriesOf(payload) : From(e, Received)
  BY <1>1, <1>2, CoveredAre
<1>4. \A e : From(e, Received) => From(e, Received')
  <2>1. Alerts(Received) \in SUBSET Alerts(Received')
    BY <1>2, ReceivedStays DEF Alerts
  <2> QED
    BY <2>1 DEF From
<1>5. \A e : From(e, Received)' <=> From(e, Received')
  BY DEF From, Labels, Line, Alerts
<1>6. CASE UNCHANGED <<flushing, payload, pc, loki>>
  <2>1. Covers(w)'
    BY <1>1, <1>6 DEF Covers, Alerts, EntriesOf
  <2> QED
    BY <1>2, <1>4, <1>5, <1>6, <2>1 DEF KeptInv
<1>7. CASE (\E b \in Batches : Flush(b)) /\ UNCHANGED loki
  <2>1. PICK b \in Batches : Flush(b)
    BY <1>7
  <2>2. PICK at : Convertible(b, at) /\ payload' = MergeStreams(Converted(b, at))
    BY <2>1, FlushConverts
  <2>3. flushing' = Ready(b) /\ pc' # "accepted"
    BY <2>1 DEF Flush
  <2> DEFINE u == [x \in Alerts(Ready(b)) |-> EntryOf(b, at, x)]
  <2>4. EntriesOf(payload') = {EntryOf(b, at, x) : x \in Alerts(Ready(b))}
    BY <2>2, PayloadEntries
  <2>5. \A x \in Alerts(Ready(b)) : EntryOf(b, at, x).labels = Labels(x)
                                    /\ EntryOf(b, at, x).line = Line(x)
    BY DEF EntryOf
  <2>6. \A x, y \in Alerts(Ready(b)) : EntryOf(b, at, x) = EntryOf(b, at, y) => x = y
    BY <2>2, EntriesAreDistinct
  <2>7. /\ DOMAIN u = Alerts(flushing')
        /\ \A x \in Alerts(flushing') : /\ u[x] \in EntriesOf(payload')
                                        /\ u[x].labels = Labels(x) /\ u[x].line = Line(x)
        /\ \A x, y \in Alerts(flushing') : u[x] = u[y] => x = y
        /\ \A e \in EntriesOf(payload') : \E x \in Alerts(flushing') : u[x] = e
    BY <2>3, <2>4, <2>5, <2>6
  <2> HIDE DEF u
  <2>8. Covers(u)'
    BY <2>7 DEF Covers, Alerts, EntriesOf, Labels, Line
  <2> QED
    BY <1>2, <1>4, <1>5, <1>7, <2>3, <2>8 DEF KeptInv
<1>8. CASE /\ pc = "pushing" /\ UNCHANGED <<flushing, payload>>
           /\ \E part \in SUBSET payload :
                 /\ loki' = loki \cup EntriesOf(part)
                 /\ pc' = "accepted" => part = payload
  <2>1. PICK part \in SUBSET payload : /\ loki' = loki \cup EntriesOf(part)
                                       /\ pc' = "accepted" => part = payload
    BY <1>8
  <2>2. EntriesOf(part) \in SUBSET EntriesOf(payload)
    BY EntriesArePart
  <2>3. Covers(w)'
    BY <1>1, <1>8 DEF Covers, Alerts, EntriesOf
  <2>4. IsFiniteSet(loki')
    <3>1. IsFiniteSet(EntriesOf(part))
      BY <1>3, <2>2, FS_Subset
    <3> QED
      BY <1>2, <2>1, <3>1, FS_Union
  <2>5. \A e \in loki' : From(e, Received)'
    BY <1>2, <1>3, <1>4, <1>5, <2>1, <2>2
  <2>6. (pc = "accepted" => EntriesOf(payload) \subseteq loki)'
    <3>1. pc' = "accepted" => EntriesOf(payload) \subseteq loki'
      BY <2>1
    <3>2. payload' = payload
      BY <1>8
    <3> QED
      BY <3>1, <3>2 DEF EntriesOf
  <2> QED
    BY <2>3, <2>4, <2>5, <2>6 DEF KeptInv
<1>9. CASE flushing' = {} /\ payload' = {} /\ pc' = "idle" /\ UNCHANGED loki
  <2> DEFINE u == [x \in {} |-> x]
  <2>1. Alerts(flushing') = {} /\ EntriesOf(payload') = {}
    BY <1>9, NoEntries
  <2>2. DOMAIN u = {}
    OBVIOUS
  <2> HIDE DEF u
  <2>3. Covers(u)'
    BY <2>1, <2>2 DEF Covers, Alerts, EntriesOf
  <2> QED
    BY <1>2, <1>4, <1>5, <1>9, <2>3 DEF KeptInv
<1> QED
  BY <1>6, <1>7, <1>8, <1>9, StepCases

\* batch.go:284-308: the payload has one entry of each alert that is flushed, and Loki
\* only entries of alerts that were received.
THEOREM KeptInvariant == Spec => []KeptInv
<1>1. KeptInv /\ TypeOK' /\ [Next]_vars => KeptInv'
  BY KeptStep
<1> QED
  BY <1>1, KeptInit, TypeCorrect, PTL DEF Spec

\* The row of an alert, and the alerts and entries of a row.
AlertsOf(S, row) == {x \in Alerts(S) : RowOf[x[1]][x[2]] = row}
StoredOf(row) == {e \in loki : e.labels = row.labels /\ e.line = row.line}

\* The row of an alert is its labels and its line.
LEMMA RowOfIs ==
    ASSUME NEW x \in Alerts(Groups)
    PROVE  RowOf[x[1]][x[2]] = [labels |-> Labels(x), line |-> Line(x)]
<1>1. x[1] \in Groups /\ x[2] \in DOMAIN Data[x[1]].alerts
  BY AlertsAre
<1> DEFINE row(g, i) == [labels |-> StreamLabels(Data[g], Data[g].alerts[i].status),
                         line |-> Data[g].alerts[i].line]
<1>2. RowOf = [g \in Groups |-> [i \in DOMAIN Data[g].alerts |-> row(g, i)]]
  BY DEF RowOf
<1>3. row(x[1], x[2]) = [labels |-> Labels(x), line |-> Line(x)]
  BY DEF Labels, Line
<1> HIDE DEF row
<1> QED
  BY <1>1, <1>2, <1>3

\* A group is received before it is in any other stage.
LEMMA ReceivedAre ==
    /\ Received \in SUBSET Groups /\ Alerts(Received) \in SUBSET Alerts(Groups)
    /\ \A st : st # "new" => Having(st) \in SUBSET Received
    /\ TypeOK => flushing \in SUBSET Received
<1>1. Received \in SUBSET Groups /\ \A st : st # "new" => Having(st) \in SUBSET Received
  BY DEF Received, Having
<1>2. Alerts(Received) \in SUBSET Alerts(Groups)
  BY <1>1 DEF Alerts
<1>3. TypeOK => flushing \in SUBSET Received
  BY <1>1 DEF TypeOK
<1> QED
  BY <1>1, <1>2, <1>3

\* As many entries as the alerts that have one of their own.
LEMMA RowsAreStored ==
    ASSUME NEW S \in SUBSET Groups, IsFiniteSet(loki), NEW w, NEW row,
           \A x \in Alerts(S) : /\ w[x] \in loki
                                /\ w[x].labels = Labels(x) /\ w[x].line = Line(x),
           \A x, y \in Alerts(S) : w[x] = w[y] => x = y
    PROVE  StoredRows(row) >= RowsOf(S, row)
<1> DEFINE A == AlertsOf(S, row)
           B == StoredOf(row)
           h == [x \in A |-> w[x]]
<1>1. A \in SUBSET Alerts(S) /\ Alerts(S) \in SUBSET Alerts(Groups)
  BY DEF AlertsOf, Alerts
<1>2. \A x \in A : row = [labels |-> Labels(x), line |-> Line(x)]
  BY <1>1, RowOfIs DEF AlertsOf
<1>3. h \in [A -> B]
  <2>1. \A x \in A : w[x] \in B
    BY <1>1, <1>2 DEF StoredOf
  <2> QED
    BY <2>1
<1>4. \A x, y \in A : h[x] = h[y] => x = y
  BY <1>1
<1>5. IsFiniteSet(B)
  BY FS_Subset DEF StoredOf
<1>6. StoredRows(row) = Cardinality(B) /\ RowsOf(S, row) = Cardinality(A)
  BY DEF StoredRows, RowsOf, StoredOf, AlertsOf
<1> HIDE DEF A, B, h
<1>7. IsFiniteSet(A) /\ Cardinality(A) <= Cardinality(B)
  BY <1>3, <1>4, <1>5, InjectiveBound
<1>8. Cardinality(A) \in Nat /\ Cardinality(B) \in Nat
  BY <1>5, <1>7, FS_CardinalityType
<1> QED
  BY <1>6, <1>7, <1>8

\* batch.go:288, stream.go:165-167: merging never files a row under the labels of
\* another alert.
THEOREM RowsAreFiled == Spec => []FiledByItsLabels
<1>1. KeptInv => FiledByItsLabels
  <2> SUFFICES ASSUME KeptInv, NEW e \in loki
               PROVE  \E g \in Received : \E a \in Range(Data[g].alerts) :
                         e.line = a.line /\ FoundBy(e.labels, Data[g], a)
    BY DEF FiledByItsLabels
  <2>1. PICK x \in Alerts(Received) : e.labels = Labels(x) /\ e.line = Line(x)
    BY DEF KeptInv, From
  <2>2. x[1] \in Received /\ x[2] \in DOMAIN Data[x[1]].alerts
    BY ReceivedAre, AlertsAre
  <2> DEFINE g == x[1]
             a == Data[g].alerts[x[2]]
  <2>3. a \in Range(Data[g].alerts)
    BY <2>2 DEF Range
  <2>4. e.line = a.line /\ e.labels = StreamLabels(Data[g], a.status)
    BY <2>1 DEF Labels, Line
  <2>5. FoundBy(e.labels, Data[g], a)
    BY <2>4, LabelsFind
  <2> QED
    BY <2>2, <2>3, <2>4, <2>5
<1> QED
  BY <1>1, KeptInvariant, PTL

\* timestamps.go:9-14, batch.go:301-303: a batch that Loki accepted has all its
\* rows there.
THEOREM RowsAreKept == Spec => []EveryRowKept
<1>1. KeptInv => EveryRowKept
  <2> SUFFICES ASSUME KeptInv, pc = "accepted", NEW row \in AllRows
               PROVE  StoredRows(row) >= RowsOf(flushing, row)
    BY DEF EveryRowKept
  <2>1. PICK w : Covers(w)
    BY DEF KeptInv
  <2>2. IsFiniteSet(loki) /\ EntriesOf(payload) \subseteq loki /\ flushing \in SUBSET Groups
    BY ReceivedAre DEF KeptInv
  <2>3. /\ \A x \in Alerts(flushing) : /\ w[x] \in loki
                                       /\ w[x].labels = Labels(x) /\ w[x].line = Line(x)
        /\ \A x, y \in Alerts(flushing) : w[x] = w[y] => x = y
    BY <2>1, <2>2 DEF Covers
  <2> QED
    BY <2>2, <2>3, RowsAreStored
<1> QED
  BY <1>1, KeptInvariant, PTL

-----------------------------------------------------------------------------
(* Stored once *)

\* The receive times are apart, and every group has one.
Apart == Spaced /\ Stampless = {}

\* The only entry that an alert can have then.
Fixed(x) == [labels |-> Labels(x), at |-> Stamp(x, receivedAt[x[1]]), line |-> Line(x)]

OnceInv ==
    Apart => /\ EntriesOf(payload) = {Fixed(x) : x \in Alerts(flushing)}
             /\ \A e \in loki : \E x \in Alerts(Received) : e = Fixed(x)
             /\ \A x \in Alerts(Having("saved")) : Fixed(x) \in loki

\* client.go:92-95: alerts of one stream do not get the same time.
LEMMA StampsDiffer ==
    ASSUME TypeOK, Apart, NEW x \in Alerts(Received), NEW y \in Alerts(Received),
           Labels(x) = Labels(y), Stamp(x, receivedAt[x[1]]) = Stamp(y, receivedAt[y[1]])
    PROVE  x = y
<1> DEFINE tx == receivedAt[x[1]]
           ty == receivedAt[y[1]]
<1>1. x \in Alerts(Groups) /\ y \in Alerts(Groups)
  BY ReceivedAre
<1>2. /\ x = <<x[1], x[2]>> /\ x[1] \in Received /\ x[1] \in Groups
      /\ x[2] \in DOMAIN Data[x[1]].alerts /\ x[2] \in Nat
      /\ y = <<y[1], y[2]>> /\ y[1] \in Received /\ y[1] \in Groups
      /\ y[2] \in DOMAIN Data[y[1]].alerts /\ y[2] \in Nat
      /\ Len(Data[x[1]].alerts) \in Nat /\ Len(Data[y[1]].alerts) \in Nat
  BY <1>1, ReceivedAre, AlertsAre
<1>3. tx \in Nat /\ ty \in Nat
  BY <1>2 DEF TypeOK
<1>4. /\ Stamp(x, tx) \in Nat /\ tx <= Stamp(x, tx) /\ Stamp(x, tx) < tx + Len(Data[x[1]].alerts)
      /\ Stamp(y, ty) \in Nat /\ ty <= Stamp(y, ty) /\ Stamp(y, ty) < ty + Len(Data[y[1]].alerts)
  BY <1>1, <1>3, StampsAre
<1>5. x[1] = y[1]
  <2> SUFFICES ASSUME x[1] # y[1] PROVE FALSE
    OBVIOUS
  <2>1. y[1] \in Sharing[x[1]]
    <3> DEFINE r == RowOf[x[1]][x[2]]
               s == RowOf[y[1]][y[2]]
    <3>1. r = [labels |-> Labels(x), line |-> Line(x)] /\ s = [labels |-> Labels(y), line |-> Line(y)]
      BY <1>1, RowOfIs
    <3>2. r.labels = s.labels
      BY <3>1
    <3>3. \A g \in Groups : DOMAIN RowOf[g] = DOMAIN Data[g].alerts
      BY DEF RowOf
    <3>4. r \in Range(RowOf[x[1]]) /\ s \in Range(RowOf[y[1]])
      BY <1>2, <3>3 DEF Range
    <3> HIDE DEF r, s
    <3> QED
      BY <1>2, <3>2, <3>4 DEF Sharing
  <2>2. \/ tx + Len(Data[x[1]].alerts) <= ty
        \/ ty + Len(Data[y[1]].alerts) <= tx
    BY <1>2, <2>1 DEF Apart, Spaced
  <2> HIDE DEF tx, ty
  <2>3. Stamp(x, tx) = Stamp(y, ty)
    BY DEF tx, ty
  <2> QED
    BY <1>2, <1>3, <1>4, <2>2, <2>3
<1>6. Data[x[1]].alerts[x[2]].status = Data[y[1]].alerts[y[2]].status
  <2>1. \A d, st : StreamLabels(d, st)["alert_status"] = st
    BY StreamLabelsAre
  <2>2. /\ Labels(x)["alert_status"] = Data[x[1]].alerts[x[2]].status
        /\ Labels(y)["alert_status"] = Data[y[1]].alerts[y[2]].status
    BY <2>1 DEF Labels
  <2> QED
    BY <2>2
<1>7. Siblings(x) = Siblings(y)
  BY <1>5, <1>6 DEF Siblings
<1>8. x[2] \in Siblings(x) /\ y[2] \in Siblings(x)
  BY <1>1, <1>7, SiblingsAre
<1>9. ~(x[2] < y[2])
  <2> SUFFICES ASSUME x[2] < y[2] PROVE FALSE
    OBVIOUS
  <2>1. Stamp(<<y[1], x[2]>>, ty) < Stamp(y, ty)
    BY <1>1, <1>3, <1>7, <1>8, StampsAre
  <2>2. Stamp(x, tx) < Stamp(y, ty)
    BY <1>2, <1>5, <2>1
  <2> QED
    BY <1>4, <2>2
<1>10. ~(y[2] < x[2])
  <2> SUFFICES ASSUME y[2] < x[2] PROVE FALSE
    OBVIOUS
  <2>1. Stamp(<<x[1], y[2]>>, tx) < Stamp(x, tx)
    BY <1>1, <1>3, <1>8, StampsAre
  <2>2. Stamp(y, ty) < Stamp(x, tx)
    BY <1>2, <1>5, <2>1
  <2> QED
    BY <1>4, <2>2
<1>11. x[2] = y[2]
  BY <1>2, <1>9, <1>10
<1> QED
  BY <1>2, <1>5, <1>11

\* If receive times are apart, no two alerts have the same entry.
LEMMA FixedIsUnique ==
    ASSUME TypeOK, Apart, NEW x \in Alerts(Received), NEW y \in Alerts(Received), Fixed(x) = Fixed(y)
    PROVE  x = y
<1>1. Labels(x) = Labels(y) /\ Stamp(x, receivedAt[x[1]]) = Stamp(y, receivedAt[y[1]])
  BY DEF Fixed
<1> QED
  BY <1>1, StampsDiffer

\* Merging moves no row of groups whose times are apart.
LEMMA EntriesStand ==
    ASSUME TypeOK, Apart, NEW b, NEW at, Convertible(b, at), Ready(b) \subseteq Having("owed"),
           Stamped(at), DOMAIN at = Ready(b), NEW x \in Alerts(Ready(b))
    PROVE  EntryOf(b, at, x) = Fixed(x)
<1> DEFINE R == Gathered(b, at, Labels(x))
<1>1. Ready(b) \in SUBSET Received /\ Alerts(Ready(b)) \in SUBSET Alerts(Received)
  <2>1. Ready(b) \in SUBSET Received
    BY ReceivedAre
  <2> QED
    BY <2>1 DEF Alerts
<1>2. \A g \in Ready(b) : at[g] = receivedAt[g]
  BY <1>1 DEF Apart, Stampless, Stamped
<1>3. \A y \in Alerts(Ready(b)) : FreshRow(b, at, y).at = Stamp(y, receivedAt[y[1]])
  <2> TAKE y \in Alerts(Ready(b))
  <2>1. y[1] \in Ready(b)
    BY ReadyAlertsAre, AlertsAre
  <2> QED
    BY <1>2, <2>1, FreshRowIs
<1>4. ASSUME NEW r \in R, NEW s \in R, r.at = s.at PROVE r = s
  <2>1. PICK y \in Alerts(Ready(b)) : Labels(y) = Labels(x) /\ r = FreshRow(b, at, y)
    BY DEF Gathered
  <2>2. PICK z \in Alerts(Ready(b)) : Labels(z) = Labels(x) /\ s = FreshRow(b, at, z)
    BY DEF Gathered
  <2>3. y = z
    BY <1>1, <1>3, <1>4, <2>1, <2>2, StampsDiffer
  <2> QED
    BY <2>1, <2>2, <2>3
<1>5. FreshRow(b, at, x) \in R /\ Appended(R)
  BY FreshRowIs, GatheredIsAppended
<1>6. Nudged(R, FreshRow(b, at, x)) = FreshRow(b, at, x).at
  <2> HIDE DEF R
  <2> QED
    BY <1>4, <1>5, NudgedStands
<1>7. Nudged(R, FreshRow(b, at, x)) = Stamp(x, receivedAt[x[1]])
  BY <1>3, <1>6
<1> QED
  BY <1>7 DEF EntryOf, Fixed

\* The first step of RowsAreOnce.
LEMMA OnceInit == Init => OnceInv
<1> SUFFICES ASSUME Init PROVE OnceInv
  OBVIOUS
<1>1. flushing = {} /\ payload = {} /\ loki = {} /\ Having("saved") = {}
  BY DEF Init, Having
<1> QED
  BY <1>1, NoEntries DEF OnceInv

\* Times that are apart after a step were so before it.
LEMMA ApartBefore ==
    ASSUME TypeOK, [Next]_vars, Apart'
    PROVE  Apart
<1>1. Received \in SUBSET Received' /\ \A g \in Received : receivedAt'[g] = receivedAt[g]
  BY ReceivedStays
<1>2. \A g \in Received' : \A h \in Received' \cap Sharing[g] :
         \/ receivedAt'[g] + Len(Data[g].alerts) <= receivedAt'[h]
         \/ receivedAt'[h] + Len(Data[h].alerts) <= receivedAt'[g]
  BY DEF Apart, Spaced, Sharing, RowOf
<1>3. Spaced
  <2> SUFFICES ASSUME NEW g \in Received, NEW h \in Received \cap Sharing[g]
               PROVE  \/ receivedAt[g] + Len(Data[g].alerts) <= receivedAt[h]
                      \/ receivedAt[h] + Len(Data[h].alerts) <= receivedAt[g]
    BY DEF Spaced
  <2> QED
    BY <1>1, <1>2
<1>4. Stampless = {}
  <2> SUFFICES ASSUME NEW g \in Received PROVE receivedAt[g] # Zero
    BY DEF Stampless
  <2>1. g \in Received' /\ receivedAt'[g] # Zero
    BY <1>1 DEF Apart, Stampless
  <2> QED
    BY <1>1, <2>1
<1> QED
  BY <1>3, <1>4 DEF Apart

\* A group is settled as saved once Loki accepted its batch.
LEMMA SavedBefore ==
    ASSUME TypeOK, [Next]_vars
    PROVE  \A g \in (Having("saved"))' : g \in Having("saved") \/ (pc = "accepted" /\ g \in flushing)
<1>1. stage \in [Groups -> {"new", "owed", "saved", "failed"}]
  BY DEF TypeOK
<1>2. ASSUME NEW B, NEW st, Settle(B, st), st \in {"owed", "failed"}
      PROVE  \A g \in Groups : stage'[g] = "saved" => stage[g] = "saved"
  BY <1>1, <1>2, SettleIs
<1>3. SUFFICES ASSUME NEW g \in Groups, stage'[g] = "saved"
               PROVE  stage[g] = "saved" \/ (pc = "accepted" /\ g \in flushing)
  BY DEF Having
<1>4. CASE \E h \in Groups : Save(h)
  <2>1. PICK h \in Groups : Settle({h}, "owed")
    BY <1>4 DEF Save
  <2> QED
    BY <1>2, <1>3, <2>1
<1>5. CASE \E b \in Batches : Flush(b)
  <2>1. PICK b \in Batches : Settle(DOMAIN b \ Ready(b), "failed")
    BY <1>5 DEF Flush
  <2> QED
    BY <1>2, <1>3, <2>1
<1>6. CASE AckBatch
  <2>1. CASE pc = "accepted"
    <3>1. Settle(flushing, "saved")
      BY <1>6, <2>1 DEF AckBatch
    <3> QED
      BY <1>1, <1>3, <2>1, <3>1, SettleIs
  <2>2. CASE pc # "accepted"
    <3>1. Settle(flushing, "failed")
      BY <1>6, <2>2 DEF AckBatch
    <3> QED
      BY <1>2, <1>3, <3>1
  <2> QED
    BY <2>1, <2>2
<1>7. CASE PushOK \/ PushError \/ Crash \/ UNCHANGED vars
  BY <1>3, <1>7 DEF PushOK, PushError, Crash, vars
<1> QED
  BY <1>4, <1>5, <1>6, <1>7 DEF Next

\* Each step keeps that an alert has the one entry its receive time gives it.
LEMMA OnceStep ==
    ASSUME KeptInv, OnceInv, TypeOK', [Next]_vars
    PROVE  OnceInv'
<1> SUFFICES ASSUME Apart'
             PROVE  /\ (EntriesOf(payload) = {Fixed(x) : x \in Alerts(flushing)})'
                    /\ \A e \in loki' : \E x \in Alerts(Received)' : e = Fixed(x)'
                    /\ \A x \in Alerts(Having("saved"))' : Fixed(x)' \in loki'
  BY DEF OnceInv
<1>1. TypeOK /\ Apart
  BY ApartBefore DEF KeptInv
<1>2. /\ EntriesOf(payload) = {Fixed(x) : x \in Alerts(flushing)}
      /\ \A e \in loki : \E x \in Alerts(Received) : e = Fixed(x)
      /\ \A x \in Alerts(Having("saved")) : Fixed(x) \in loki
      /\ pc = "accepted" => EntriesOf(payload) \subseteq loki
  BY <1>1 DEF OnceInv, KeptInv
<1>3. Alerts(Received) \in SUBSET Alerts(Received')
  BY <1>1, ReceivedStays DEF Alerts
<1>4. ASSUME NEW x \in Alerts(Received) PROVE Fixed(x)' = Fixed(x)
  <2>1. x[1] \in Received
    BY ReceivedAre, AlertsAre
  <2>2. receivedAt'[x[1]] = receivedAt[x[1]]
    BY <1>1, <2>1, ReceivedStays
  <2>3. Fixed(x)' = [labels |-> Labels(x), at |-> Stamp(x, receivedAt'[x[1]]), line |-> Line(x)]
    BY DEF Fixed, Labels, Stamp, Siblings, Line, ByStatus
  <2> QED
    BY <2>2, <2>3 DEF Fixed
<1>5. Alerts(flushing) \in SUBSET Alerts(Received) /\ Alerts(Having("saved")) \in SUBSET Alerts(Received)
  <2>1. flushing \in SUBSET Received /\ Having("saved") \in SUBSET Received
    BY <1>1, ReceivedAre
  <2> QED
    BY <2>1 DEF Alerts
<1>6. loki \in SUBSET loki'
  BY StepCases
<1>7. ASSUME NEW x \in Alerts(Having("saved"))' PROVE Fixed(x)' \in loki'
  <2>1. (Having("saved"))' \in SUBSET (Having("saved") \cup IF pc = "accepted" THEN flushing ELSE {})
    BY <1>1, SavedBefore
  <2>2. x \in Alerts(Having("saved")) \/ (pc = "accepted" /\ x \in Alerts(flushing))
    BY <2>1 DEF Alerts
  <2>3. Fixed(x) \in loki
    BY <1>2, <2>2
  <2> QED
    BY <1>4, <1>5, <1>6, <2>2, <2>3
<1>8. ASSUME NEW e, \E x \in Alerts(Received) : e = Fixed(x)
      PROVE  \E x \in Alerts(Received') : e = Fixed(x)'
  BY <1>3, <1>4, <1>8
<1>9. Alerts(Received)' = Alerts(Received')
  BY DEF Alerts
<1>10. \A e \in EntriesOf(payload) : \E x \in Alerts(Received) : e = Fixed(x)
  BY <1>2, <1>5
<1>11. \A e \in loki' : \E x \in Alerts(Received)' : e = Fixed(x)'
  <2>1. CASE UNCHANGED loki
    BY <1>2, <1>8, <1>9, <2>1
  <2>2. CASE \E part \in SUBSET payload : loki' = loki \cup EntriesOf(part)
    <3>1. PICK part \in SUBSET payload : loki' = loki \cup EntriesOf(part)
      BY <2>2
    <3>2. EntriesOf(part) \in SUBSET EntriesOf(payload)
      BY EntriesArePart
    <3> QED
      BY <1>2, <1>8, <1>9, <1>10, <3>1, <3>2
  <2> QED
    BY <2>1, <2>2, StepCases
<1>12. (EntriesOf(payload) = {Fixed(x) : x \in Alerts(flushing)})'
  <2>1. SUFFICES EntriesOf(payload') = {Fixed(x)' : x \in Alerts(flushing')}
    BY DEF EntriesOf, Alerts
  <2>2. CASE UNCHANGED <<payload, flushing>>
    BY <1>2, <1>4, <1>5, <2>2
  <2>3. CASE \E b \in Batches : Flush(b)
    <3>1. PICK b \in Batches : Flush(b)
      BY <2>3
    <3>2. PICK at : /\ Convertible(b, at) /\ Stamped(at) /\ DOMAIN at = Ready(b)
                    /\ payload' = MergeStreams(Converted(b, at))
      BY <3>1, FlushConverts
    <3>3. Ready(b) \subseteq Having("owed") /\ flushing' = Ready(b)
      BY <3>1, FlushConverts DEF Flush
    <3>4. Alerts(Ready(b)) \in SUBSET Alerts(Received)
      <4>1. Ready(b) \in SUBSET Received
        BY <3>3, ReceivedAre
      <4> QED
        BY <4>1 DEF Alerts
    <3>5. \A x \in Alerts(Ready(b)) : EntryOf(b, at, x) = Fixed(x)'
      BY <1>1, <1>4, <3>2, <3>3, <3>4, EntriesStand
    <3>6. EntriesOf(payload') = {EntryOf(b, at, x) : x \in Alerts(Ready(b))}
      BY <3>2, PayloadEntries
    <3> QED
      BY <3>3, <3>5, <3>6
  <2>4. CASE flushing' = {} /\ payload' = {}
    BY <2>4, NoEntries
  <2> QED
    BY <2>2, <2>3, <2>4, StepCases
<1> QED
  BY <1>7, <1>11, <1>12

\* client.go:92-95: however often a group is retried and replayed, and in whatever
\* batches, its rows are in Loki at most once, and once if it was settled as saved:
\* if the receive times are apart.
THEOREM RowsAreOnce == Spec => []StoredExactlyOnce
<1>1. KeptInv /\ OnceInv => StoredExactlyOnce
  <2> SUFFICES ASSUME KeptInv, OnceInv, Apart, NEW row \in AllRows
               PROVE  /\ StoredRows(row) <= RowsOf(Received, row)
                      /\ StoredRows(row) >= RowsOf(Having("saved"), row)
    BY DEF StoredExactlyOnce, Apart
  <2>1. TypeOK /\ IsFiniteSet(loki)
    BY DEF KeptInv
  <2>2. /\ \A e \in loki : \E x \in Alerts(Received) : e = Fixed(x)
        /\ \A x \in Alerts(Having("saved")) : Fixed(x) \in loki
    BY DEF OnceInv
  <2>3. /\ Having("saved") \in SUBSET Groups /\ Received \in SUBSET Groups
        /\ Alerts(Received) \in SUBSET Alerts(Groups)
        /\ Alerts(Having("saved")) \in SUBSET Alerts(Received)
    <3>1. Having("saved") \in SUBSET Received
      BY ReceivedAre
    <3> QED
      BY <3>1, ReceivedAre DEF Alerts
  <2>4. StoredRows(row) >= RowsOf(Having("saved"), row)
    <3> DEFINE w == [x \in Alerts(Having("saved")) |-> Fixed(x)]
    <3>1. \A x \in Alerts(Having("saved")) : /\ w[x] \in loki
                                             /\ w[x].labels = Labels(x) /\ w[x].line = Line(x)
      BY <2>2 DEF Fixed
    <3>2. \A x, y \in Alerts(Having("saved")) : w[x] = w[y] => x = y
      BY <2>1, <2>3, FixedIsUnique
    <3> HIDE DEF w
    <3> QED
      BY <2>1, <2>3, <3>1, <3>2, RowsAreStored
  <2>5. StoredRows(row) <= RowsOf(Received, row)
    <3> DEFINE A == AlertsOf(Received, row)
               B == StoredOf(row)
               own == {x \in A : Fixed(x) \in B}
               h == [x \in own |-> Fixed(x)]
    <3>1. A \in SUBSET Alerts(Received) /\ own \in SUBSET A /\ IsFiniteSet(A)
      <4>1. A \in SUBSET Alerts(Received)
        BY DEF AlertsOf
      <4> QED
        BY <2>3, <4>1, AlertsAreFinite, FS_Subset
    <3>2. ASSUME NEW e \in B PROVE \E x \in own : h[x] = e
      <4>1. PICK x \in Alerts(Received) : e = Fixed(x)
        BY <2>2 DEF StoredOf
      <4>2. row.labels = Labels(x) /\ row.line = Line(x)
        BY <4>1 DEF StoredOf, Fixed
      <4>3. row = [labels |-> row.labels, line |-> row.line]
        <5>1. PICK g \in Groups : row \in Range(RowOf[g])
          BY DEF AllRows
        <5>2. PICK i \in DOMAIN RowOf[g] : row = RowOf[g][i]
          BY <5>1 DEF Range
        <5> QED
          BY <5>2 DEF RowOf
      <4>4. RowOf[x[1]][x[2]] = row
        BY <2>3, <4>2, <4>3, RowOfIs
      <4>5. x \in own
        BY <4>1, <4>4 DEF AlertsOf
      <4> QED
        BY <4>1, <4>5
    <3>3. h \in [own -> B]
      OBVIOUS
    <3>4. IsFiniteSet(own) /\ Cardinality(own) <= Cardinality(A)
      BY <3>1, FS_Subset
    <3>5. StoredRows(row) = Cardinality(B) /\ RowsOf(Received, row) = Cardinality(A)
      BY DEF StoredRows, RowsOf, StoredOf, AlertsOf
    <3> HIDE DEF A, B, own, h
    <3>6. IsFiniteSet(B) /\ Cardinality(B) <= Cardinality(own)
      BY <3>2, <3>3, <3>4, ImageBound
    <3>7. Cardinality(A) \in Nat /\ Cardinality(B) \in Nat /\ Cardinality(own) \in Nat
      BY <3>1, <3>4, <3>6, FS_CardinalityType
    <3> QED
      BY <3>4, <3>5, <3>6, <3>7
  <2> QED
    BY <2>4, <2>5
<1>2. KeptInv /\ OnceInv /\ TypeOK' /\ [Next]_vars => OnceInv'
  BY OnceStep
<1>4. Spec => []OnceInv
  BY <1>2, OnceInit, KeptInvariant, TypeCorrect, PTL DEF Spec
<1> QED
  BY <1>1, <1>4, KeptInvariant, PTL

=============================================================================
