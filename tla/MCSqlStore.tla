----------------------------- MODULE MCSqlStore -----------------------------
(***************************************************************************)
(* Alert groups for checking SqlStore with TLC.  The rows of the lookup    *)
(* tables, numbered by table and hash: 1-2 receivers, 3-4 external URLs,   *)
(* 5-7 group keys, 11-13 labels, 21-22 annotations.                        *)
(***************************************************************************)
EXTENDS SqlStore

Alert(l, a) == [labels |-> l, annotations |-> a]

Group(receiver, url, key, gl, cl, ca, alerts) ==
    [receiver |-> receiver, externalURL |-> url, groupKey |-> key,
     groupLabels |-> gl, commonLabels |-> cl, commonAnnotations |-> ca,
     alerts |-> alerts]

\* Two AlertManagers, with a receiver and an address each, group by different
\* labels alerts that have the same ones.
SameLabels ==
    <<Group(1, 3, 5, {11}, {11}, {21}, <<Alert({11, 12}, {21})>>),
      Group(2, 4, 6, {12}, {12}, {},   <<Alert({11, 12}, {22})>>)>>

TwoSaves == 1..2

=============================================================================
