--------------------------- MODULE MCCertificates ---------------------------
(* The shipped rule table; every context and tool of both domains.         *)
EXTENDS Certificates, ShippedTable

MCDomains == {"financial_compliance", "system_monitoring"}
MCEps == 2

TableValue == RuleTable(MCEps)
MCTable == TableValue

\* risk_score over [0,1] at amount_norm = 0.2; both monitoring rates over
\* [0.3,1]: a step of 0.05 everywhere.
PointsValue ==
  [financial_compliance |-> (0..20) \X {4}, system_monitoring |-> (6..20) \X (6..20)]
MCPoints == PointsValue
=============================================================================
