------------------------- MODULE MCFidelityMonitor -------------------------
(* Every log of LogLength decisions whose inter-arrival times are 0 or 1;  *)
(* what a denied decision's label would be changes nothing and is fixed.   *)
EXTENDS FidelityMonitor

CONSTANT LogLength

Outcome == {<<TRUE, 0>>, <<TRUE, 1>>, <<FALSE, 0>>}

\* A log is given by its waits and its decisions.
LogOf(wait, out) ==
  [i \in 1..LogLength |->
     [dt |-> Cardinality({j \in 1..i : wait[j] = 1}),
      cert_allow |-> out[i][1], fraud |-> out[i][2]]]

LogsValue ==
  {LogOf(w, o) : w \in [1..LogLength -> {0, 1}], o \in [1..LogLength -> Outcome]}
MCLogs == LogsValue
=============================================================================
