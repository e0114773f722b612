----------------------------- MODULE MCStreams -----------------------------
(***************************************************************************)
(* Alert groups for checking Streams with TLC: a group of two alerts, its  *)
(* repeat by AlertManager, a group of other labels whose values spell the  *)
(* key of the first, with alerts of both statuses and query parameters     *)
(* whose names Loki refuses or the program sets itself, and a group        *)
(* without alerts.                                                         *)
(***************************************************************************)
EXTENDS Streams

Firing == <<"firing">>
Resolved == <<"resolved">>

Group(labels, extra, alerts) ==
    [receiver |-> <<"ops">>, status |-> Firing, groupLabels |-> labels,
     commonLabels |-> [alertname |-> <<"Down">>, pod |-> <<"p">>],
     extraLabels |-> extra, alerts |-> alerts]

Down ==
    Group([cluster |-> <<"x">>, env |-> <<"y">>], <<>>,
          <<[status |-> Firing, line |-> "a"], [status |-> Firing, line |-> "b"]>>)

Aliased ==
    Group([cluster |-> <<"x", "\"", ",", "env", ":", "\"", "y">>],
          ("app-id" :> <<"1">>) @@ ("status" :> <<"z">>),
          <<[status |-> Firing, line |-> "c"], [status |-> Resolved, line |-> "d"]>>)

NoAlerts == Group(<<>>, <<>>, <<>>)

FourGroups == 1..4
Samples == <<Down, Down, Aliased, NoAlerts>>

Clusters == {"cluster", "env"}
Names == <<"alert_name", "alert_status", "alertname", "app-id", "cluster", "env",
           "pod", "receiver", "service_name", "status">>
GoodNames == Range(Names) \ {"app-id"}

\* The instants tried: all orders and distances for the groups that share a stream.
Instants == <<1..3, 1..3, {2}, {1}>>
First == {1}

=============================================================================
