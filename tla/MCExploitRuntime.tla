-------------------------- MODULE MCExploitRuntime --------------------------
(***************************************************************************)
(* A two-tool cut of the realistic finance schema: a loose and a tight     *)
(* scalar rule on the risk score, a jurisdiction that tightens both and an *)
(* entity type no rule looks at.  The distances are shrunk, their order    *)
(* kept: eps is 2, the thresholds are 4 apart, the offset 1.               *)
(***************************************************************************)
EXTENDS ExploitRuntime

MCDomains == {"finance_compliance"}
MCEps == 2

Threshold(tool, theta) ==
  [tool |-> tool, action |-> "approve_transaction", context |-> <<>>,
   family |-> "scalar_threshold", field |-> 1, direction |-> ">=", threshold |-> theta,
   offsets |-> [jurisdiction |-> [high_risk |-> -1]]]

TableValue ==
  [finance_compliance |->
     [tools      |-> <<"credit_check", "sanctions_screen">>,
      actions    |-> <<"approve_transaction">>,
      fieldOrder |-> <<"entity_type", "jurisdiction">>,
      categories |-> [entity_type  |-> <<"individual", "company">>,
                      jurisdiction |-> <<"low_risk", "high_risk">>],
      rules      |-> <<Threshold("credit_check", 9), Threshold("sanctions_screen", 5)>>]]
MCTable == TableValue

\* Clean returns on both sides of every boundary of credit_check: R at 2, C at
\* 3 (gap witness exactly at eps) and 4, U at 9, and a safe return of
\* sanctions_screen.
Return(tool, risk) ==
  [domain |-> "finance_compliance", tool |-> tool,
   x1 |-> [entity_type |-> "individual", jurisdiction |-> "low_risk"], x2 |-> <<risk, 4>>]

PoolValue ==
  {Return("credit_check", r) : r \in {2, 3, 4, 9}} \cup
  {Return("sanctions_screen", 1)}
MCPool == PoolValue

MCOtherSafe == {"reject_transaction"}
MCGates == <<"marginal_cert", "joint_cert", "oracle">>
MCRadii == {2}
=============================================================================
