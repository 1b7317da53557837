---------------------------- MODULE ShippedTable ----------------------------
(***************************************************************************)
(* bridge_benchmark/schemas/rule_tables.json in the fixed point of         *)
(* RuleOracle: one grid unit is 0.05, one margin unit 0.025.  Every        *)
(* threshold, bias, weight and offset of the file is a whole number of     *)
(* these units, and so is eps = 0.10.                                      *)
(***************************************************************************)
EXTENDS Integers, Sequences

Scalar(tool, action, direction, threshold, offsets) ==
  [tool |-> tool, action |-> action, context |-> <<>>, family |-> "scalar_threshold",
   field |-> 1, direction |-> direction, threshold |-> threshold, offsets |-> offsets]

\* floor(Eps * ||w||_2), the margin a continuous move of size Eps can gain.
FloorGain(eps, w) ==
  CHOOSE g \in 0..(eps * (w[1] + w[2])) :
    /\ g * g <= eps * eps * (w[1] * w[1] + w[2] * w[2])
    /\ eps * eps * (w[1] * w[1] + w[2] * w[2]) < (g + 1) * (g + 1)

Affine(eps, tool, action, weights, bias, offsets) ==
  [tool |-> tool, action |-> action, context |-> <<>>, family |-> "affine",
   weights |-> weights, bias |-> bias, gain |-> FloorGain(eps, weights), offsets |-> offsets]

CountryOffset == [counterparty_country |-> [KY |-> -2, XX |-> -2]]

FinancialCompliance ==
  [tools      |-> <<"credit_check", "sanctions_screen", "transaction_monitor", "market_data">>,
   actions    |-> <<"approve_transaction", "reject_transaction">>,
   fieldOrder |-> <<"counterparty_country", "channel">>,
   categories |-> [counterparty_country |-> <<"US", "KY", "XX">>,
                   channel              |-> <<"card", "wire", "ach">>],
   rules      |-> <<Scalar("credit_check", "approve_transaction", ">=", 36, CountryOffset),
                    Scalar("credit_check", "reject_transaction", "<=", 8, <<>>),
                    Scalar("sanctions_screen", "approve_transaction", ">=", 20, CountryOffset),
                    Scalar("transaction_monitor", "approve_transaction", ">=", 28, <<>>),
                    Scalar("market_data", "approve_transaction", ">=", 38, <<>>)>>]

SystemMonitoring(eps) ==
  [tools      |-> <<"memory_monitor", "cpu_monitor", "incident_detector", "latency_monitor">>,
   actions    |-> <<"suppress_alert">>,
   fieldOrder |-> <<"severity">>,
   categories |-> [severity |-> <<"SEV3", "SEV2", "SEV1">>],
   rules      |-> <<Affine(eps, "memory_monitor", "suppress_alert", <<2, 2>>, -56, <<>>),
                    Affine(eps, "cpu_monitor", "suppress_alert", <<2, 2>>, -58, <<>>),
                    Affine(eps, "incident_detector", "suppress_alert", <<2, 2>>, -52,
                           [severity |-> [SEV2 |-> 4, SEV1 |-> 10]]),
                    Affine(eps, "latency_monitor", "suppress_alert", <<1, 3>>, -60, <<>>)>>]

RuleTable(eps) ==
  [financial_compliance |-> FinancialCompliance, system_monitoring |-> SystemMonitoring(eps)]
=============================================================================
