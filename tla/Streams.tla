------------------------------ MODULE Streams ------------------------------
(***************************************************************************)
(* What the Loki backend writes and where: the labels and rows made of an  *)
(* alert group (internal/storage/loki/stream.go, labels.go), the merge of  *)
(* a batch into one stream per label set (mergeStreams), and what becomes  *)
(* of it when batches are retried, lost and replayed in other batches.     *)
(*                                                                         *)
(* How a group reaches a batch is the module LokiBatch; here a batch is    *)
(* any set of groups that wait, in any order.  A row's line stands for its *)
(* JSON and its metadata, which depend on the group and the alert alone.   *)
(* A slice of rows is a set: a row says where it was appended.  Loki is    *)
(* external: it refuses a push with an invalid label name, drops exact     *)
(* repeats, stores any part of a push that fails.                          *)
(***************************************************************************)
EXTENDS Naturals, Sequences, FiniteSets, SequencesExt

CONSTANTS
    Groups,     \* calls of Save
    Data,       \* group -> its internal.AlertGroup and extraLabels
    Allowed,    \* cfg.AllowedLabels, or defaultAllowedLabels
    NameOrder,  \* the label names in the order of sort.Strings
    ValidNames, \* the names labelNameRe matches
    Times,      \* group -> the nanoseconds at which its Save or its flush may be
    BatchSize,  \* bound on the groups of a batch
    Legacy      \* groups that a version without receivedAt may have logged

Zero == 0       \* the zero time
Alert == [status : Seq(STRING), line : STRING]

\* The labels the program sets itself.
ReservedNames == {"service_name", "receiver", "status", "alert_name", "alert_status"}

\* A label value is a sequence of characters.
ASSUME StreamsAssumption ==
    /\ Times \in [Groups -> SUBSET (Nat \ {Zero})] /\ BatchSize \in Nat \ {0}
    /\ ReservedNames \subseteq ValidNames
    /\ IsFiniteSet(Groups) /\ Legacy \subseteq Groups
    /\ DOMAIN Data = Groups /\ \A g \in Groups : Data[g].alerts \in Seq(Alert)
    /\ NameOrder \in Seq(STRING) /\ IsInjective(NameOrder)
    /\ ReservedNames \subseteq Range(NameOrder)
    /\ \A g \in Groups : Data[g].receiver \in Seq(STRING) /\ Data[g].status \in Seq(STRING)
    /\ \A g \in Groups :
         \A labels \in {Data[g].groupLabels, Data[g].commonLabels, Data[g].extraLabels} :
            \A n \in DOMAIN labels :
               n \in Range(NameOrder) /\ labels[n] \in Seq(STRING)

VARIABLES
    receivedAt, \* group -> when Save accepted it
    stage,      \* group -> "new"; "owed", replayed until settled; "saved" or "failed"
    flushing,   \* the groups of the batch that were converted
    payload,    \* the streams being pushed
    pc,         \* the flusher: "idle", "pushing", "accepted" or "failed"
    loki        \* the entries Loki has

vars == <<receivedAt, stage, flushing, payload, pc, loki>>

-----------------------------------------------------------------------------
(* Labels *)

Lookup(labels, n) == IF n \in DOMAIN labels THEN labels[n] ELSE <<>>

\* Assignments of f after those of g: f @@ g.
Over(f, g) ==
    [n \in DOMAIN f \cup DOMAIN g |-> IF n \in DOMAIN f THEN f[n] ELSE g[n]]

\* What putStreamLabel takes of a map.
Puttable(labels) ==
    Restrict(labels, {n \in DOMAIN labels : labels[n] # <<>> /\ n \in ValidNames})

Promoted(labels) == Puttable(Restrict(labels, DOMAIN labels \cap Allowed))

Reserved(d) ==
    [service_name |-> <<"alertsnitch">>, receiver |-> d.receiver,
     status |-> d.status, alert_name |-> Lookup(d.commonLabels, "alertname")]

\* Mutant: the names of extra labels are not validated.
ExtraUnchecked(d) ==
    Over(Reserved(d), Over(Promoted(d.groupLabels),
        Over(Promoted(d.commonLabels), d.extraLabels)))

BuildStreamLabels(d) ==
    Over(Reserved(d), Over(Promoted(d.groupLabels),
        Over(Promoted(d.commonLabels), Puttable(d.extraLabels))))

StreamLabels(d, status) == Over([alert_status |-> status], BuildStreamLabels(d))

QuoteMark == "\""
Backslash == "\\"

\* Mutant: quotes around the value, those inside as they are.
QuotedOnly(v) == <<QuoteMark>> \o v \o <<QuoteMark>>

\* strconv.Quote
Escaped(c) == IF c \in {QuoteMark, Backslash} THEN <<Backslash, c>> ELSE <<c>>
Quote(v) ==
    <<QuoteMark>> \o FlattenSeq(Append([i \in DOMAIN v |-> Escaped(v[i])], <<QuoteMark>>))

Written(labels, n) ==
    IF n \in DOMAIN labels THEN <<",", n, ":">> \o Quote(labels[n]) ELSE <<>>

StreamKey(labels) ==
    FlattenSeq([i \in DOMAIN NameOrder |-> Written(labels, NameOrder[i])])

-----------------------------------------------------------------------------
(* Rows *)

\* A row was appended by the group at a place of the batch, for one of its alerts.
Before(x, y) == x.place < y.place \/ (x.place = y.place /\ x.index <= y.index)

\* The rows up to y after a stable sort by time, and its number there.
UpTo(rows, y) == {x \in rows : x.at < y.at \/ (x.at = y.at /\ Before(x, y))}
Number(rows, y) == Cardinality(UpTo(rows, y))

\* The closed form that Timestamps proves of the loop (LeastDrift).
Nudged(rows, y) ==
    Max({x.at + (Number(rows, y) - Number(rows, x)) : x \in UpTo(rows, y)})

EnsureMonotonic(rows) == {[y EXCEPT !.at = Nudged(rows, y)] : y \in rows}

\* The alerts of a group that have a status.
ByStatus(g, status) == {i \in DOMAIN Data[g].alerts : Data[g].alerts[i].status = status}

\* The streams of each group before they have times: one per alert status.
Prepared ==
    [g \in Groups |->
       {LET labels == StreamLabels(Data[g], st)
        IN  [labels |-> labels, key |-> StreamKey(labels),
             lines |-> [i \in ByStatus(g, st) |-> Data[g].alerts[i].line]]
          : st \in {a.status : a \in Range(Data[g].alerts)}}]

Stream(p, place, rows) ==
    [labels |-> p.labels, key |-> p.key, place |-> place, values |-> rows]

CreateStream(p, place, at) ==
    Stream(p, place, EnsureMonotonic(
        {[at |-> at, place |-> place, index |-> i, line |-> p.lines[i]] : i \in DOMAIN p.lines}))

\* An error for a group without alerts.
Converts(g) == Data[g].alerts # <<>>

DataToStream(g, place, at) == {CreateStream(p, place, at) : p \in Prepared[g]}

\* Mutant: the merged rows are not normalised again.
MergedAsTheyAre(rows) == rows

Renormalised(rows) == EnsureMonotonic(rows)

\* The streams of one key become one, which has the labels of the first.
MergeStreams(streams) ==
    LET Same(s) == {t \in streams : t.key = s.key}
    IN  {[labels |-> s.labels, values |-> Renormalised(UNION {t.values : t \in Same(s)})]
           : s \in {s \in streams : \A t \in Same(s) : s.place <= t.place}}

-----------------------------------------------------------------------------
Init ==
    /\ \E old \in SUBSET Legacy :
          stage = [g \in Groups |-> IF g \in old THEN "owed" ELSE "new"]
    /\ receivedAt = [g \in Groups |-> Zero]
    /\ flushing = {} /\ payload = {} /\ pc = "idle"
    /\ loki = {}

Having(st) == {g \in Groups : stage[g] = st}

\* The groups of b get to the stage st.
Settle(b, st) ==
    stage' = [g \in Groups |-> IF g \in b THEN st ELSE stage[g]]

\* Client.Save stamps the receive time, which the queue and the log carry.
Save(g) ==
    /\ stage[g] = "new"
    /\ \E now \in Times[g] : receivedAt' = [receivedAt EXCEPT ![g] = now]
    /\ Settle({g}, "owed")
    /\ UNCHANGED <<flushing, payload, pc, loki>>

\* Mutant: the rows are stamped when the batch is flushed.
StampedAtFlush(at) == TRUE

\* A zero receive time falls back to the time of the conversion.
Stamped(at) ==
    \A g \in DOMAIN at : receivedAt[g] # Zero => at[g] = receivedAt[g]

\* The times that groups of S may get.
Clocks(S) == {at \in [S -> UNION Range(Times)] : \A g \in S : at[g] \in Times[g]}

\* A batch is its groups, each with its place.
Batches ==
    UNION {Bijection(S, 1..Cardinality(S)) :
             S \in {S \in SUBSET Having("owed") : S # {} /\ Cardinality(S) <= BatchSize}}

Ready(b) == {g \in DOMAIN b : Converts(g)}

Converted(b, at) == UNION {DataToStream(g, b[g], at[g]) : g \in Ready(b)}

\* Mutant: the batch is acknowledged before it is delivered.
FlushAckedAtOnce(b) ==
    /\ pc = "idle"
    /\ \E at \in Clocks(Ready(b)) : Stamped(at) /\ payload' = MergeStreams(Converted(b, at))
    /\ flushing' = Ready(b)
    /\ pc' = IF Ready(b) = {} THEN "idle" ELSE "pushing"
    /\ Settle(DOMAIN b, "failed")
    /\ UNCHANGED <<receivedAt, loki>>

\* flush: groups that do not convert fail alone, the rest becomes one payload.
Flush(b) ==
    /\ pc = "idle"
    /\ \E at \in Clocks(Ready(b)) : Stamped(at) /\ payload' = MergeStreams(Converted(b, at))
    /\ flushing' = Ready(b)
    /\ pc' = IF Ready(b) = {} THEN "idle" ELSE "pushing"
    /\ Settle(DOMAIN b \ Ready(b), "failed")
    /\ UNCHANGED <<receivedAt, loki>>

EntriesOf(p) ==
    UNION {{[labels |-> s.labels, at |-> v.at, line |-> v.line] : v \in s.values} : s \in p}

\* Loki's check of a push.
Acceptable(p) == \A s \in p : DOMAIN s.labels \subseteq ValidNames

\* An attempt of deliver; every attempt pushes the same payload.
PushOK ==
    /\ pc = "pushing" /\ Acceptable(payload)
    /\ loki' = loki \cup EntriesOf(payload)
    /\ pc' = "accepted"
    /\ UNCHANGED <<receivedAt, stage, flushing, payload>>

\* The attempt fails, whichever streams Loki stored of it, and was the last or
\* not.
PushError ==
    /\ pc = "pushing"
    /\ \E part \in SUBSET (IF Acceptable(payload) THEN payload ELSE {}) :
          loki' = loki \cup EntriesOf(part)
    /\ pc' \in {"pushing", "failed"}
    /\ UNCHANGED <<receivedAt, stage, flushing, payload>>

\* ackBatch: the groups are settled and not replayed.
AckBatch ==
    /\ pc \in {"accepted", "failed"}
    /\ Settle(flushing, IF pc = "accepted" THEN "saved" ELSE "failed")
    /\ flushing' = {} /\ payload' = {} /\ pc' = "idle"
    /\ UNCHANGED <<receivedAt, loki>>

\* The process ends; its log re-sends what is owed.
Crash ==
    /\ flushing' = {} /\ payload' = {} /\ pc' = "idle"
    /\ UNCHANGED <<receivedAt, stage, loki>>

Next ==
    \/ \E g \in Groups : Save(g)
    \/ \E b \in Batches : Flush(b)
    \/ PushOK \/ PushError \/ AckBatch \/ Crash

Spec == Init /\ [][Next]_vars

-----------------------------------------------------------------------------
(* Correctness *)

Received == Groups \ Having("new")

TypeOK ==
    /\ receivedAt \in [Groups -> Nat]
    /\ \A g \in Groups : receivedAt[g] \in Times[g] \cup {Zero}
    /\ stage \in [Groups -> {"new", "owed", "saved", "failed"}]
    /\ flushing \subseteq Having("owed")
    /\ pc \in {"idle", "pushing", "accepted", "failed"}
    /\ (pc = "idle") <=> (flushing = {})
    /\ (payload = {}) <=> (flushing = {})

\* labels.go:24-28, stream.go:108-111: no label name that came from outside makes
\* Loki reject the push, and with it every other alert of the batch.
NoPoisonedPush == Acceptable(payload)

\* The labels an alert must be found by: those the program sets, whatever extra
\* labels say, and the allowed ones of its group.
FoundBy(labels, d, alert) ==
    /\ labels["receiver"] = d.receiver /\ labels["status"] = d.status
    /\ labels["alert_status"] = alert.status
    /\ \A n \in (DOMAIN d.groupLabels \cap Allowed \cap ValidNames) \ ReservedNames :
          d.groupLabels[n] # <<>> => Lookup(labels, n) = d.groupLabels[n]
    /\ DOMAIN labels \subseteq ReservedNames \cup Allowed \cup DOMAIN d.extraLabels

\* batch.go:288, stream.go:165-167: merging never files a row under the labels
\* of another alert, be it of another group or of the other status.
FiledByItsLabels ==
    \A x \in loki : \E g \in Received : \E a \in Range(Data[g].alerts) :
        x.line = a.line /\ FoundBy(x.labels, Data[g], a)

\* The row of each alert: its stream and its line.
RowOf == [g \in Groups |-> [i \in DOMAIN Data[g].alerts |->
            [labels |-> StreamLabels(Data[g], Data[g].alerts[i].status),
             line |-> Data[g].alerts[i].line]]]

AllRows == UNION {Range(RowOf[g]) : g \in Groups}

\* The alerts of the groups of S, and how often they have a row.
Alerts(S) == UNION {{g} \X DOMAIN Data[g].alerts : g \in S}
RowsOf(S, row) == Cardinality({x \in Alerts(S) : RowOf[x[1]][x[2]] = row})

\* The other groups that write to a stream of a group.
Sharing == [g \in Groups |-> {h \in Groups \ {g} :
              \E x \in Range(RowOf[g]), y \in Range(RowOf[h]) : x.labels = y.labels}]

StoredRows(row) == Cardinality({x \in loki : x.labels = row.labels /\ x.line = row.line})

\* timestamps.go:9-14, batch.go:301-303: a batch that Loki accepted has all its
\* rows there, though some have the same line and were received together.
EveryRowKept ==
    pc = "accepted" =>
        \A row \in AllRows : StoredRows(row) >= RowsOf(flushing, row)

\* Groups that share a stream were received further apart than the nanoseconds
\* their rows in it take.
Spaced ==
    \A g \in Received : \A h \in Received \cap Sharing[g] :
        \/ receivedAt[g] + Len(Data[g].alerts) <= receivedAt[h]
        \/ receivedAt[h] + Len(Data[h].alerts) <= receivedAt[g]

Stampless == {g \in Received : receivedAt[g] = Zero}

\* client.go:92-95, "Loki could no longer drop the byte-identical repeat": however
\* often a group is retried and replayed, and in whatever batches, its rows are in
\* Loki at most once, and once if it was settled as saved.  It takes receive
\* times that are Spaced: merging moves rows that collide with another group's.
StoredExactlyOnce ==
    (Spaced /\ Stampless = {}) => \A row \in AllRows :
        /\ StoredRows(row) <= RowsOf(Received, row)
        /\ StoredRows(row) >= RowsOf(Having("saved"), row)

=============================================================================
