------------------------ MODULE MCBenchmarkGenerator ------------------------
(***************************************************************************)
(* The shipped rule table, both domains.  TLC evaluates a constant that a  *)
(* .cfg substitutes at every use, and a definition once: TableValue and    *)
(* GridValue exist to be evaluated once.                                   *)
(***************************************************************************)
EXTENDS BenchmarkGenerator, ShippedTable

MCDomains == {"financial_compliance", "system_monitoring"}
MCDomainOrder == <<"financial_compliance", "system_monitoring">>
MCEps == 2

TableValue == RuleTable(MCEps)
MCTable == TableValue

\* Finance walks risk_score over [0,1] at amount_norm = 0.2, in steps of 0.05
\* where the code takes 0.01; monitoring walks both rates over [0.2,1] in steps
\* of 0.10 where the code takes 0.05 from 0.
GridValue ==
  [financial_compliance |-> [i \in 1..21 |-> <<i - 1, 4>>],
   system_monitoring    |-> [i \in 1..81 |-> <<4 + 2 * ((i - 1) \div 9), 4 + 2 * ((i - 1) % 9)>>]]
MCGrid == GridValue
=============================================================================
