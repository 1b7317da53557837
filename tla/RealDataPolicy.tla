--------------------------- MODULE RealDataPolicy ---------------------------
(***************************************************************************)
(* The constructed authorization policy of the real-data experiments,      *)
(* realdata/nab_policy.py and its twin realdata/ieee_cis_policy.py: one    *)
(* action, four provenance tools in two loose/strict pairs, and a          *)
(* threshold on one continuous field.  The policy categorises a record in  *)
(* closed form and by enumeration, and exports a rule table from which the *)
(* shared oracle categorises it a third time.                              *)
(*                                                                         *)
(* The field runs over 0..One in grid units.  Of the categorical fields    *)
(* only the two the optional adjustment reads are kept.                    *)
(***************************************************************************)
EXTENDS FiniteSets, FiniteSetsExt, Integers, Sequences

CONSTANTS
  Delta,           \* what a loose tool adds to the threshold
  Eps,             \* the continuous budget
  One,             \* the field's upper end, 1.0
  Lo, Hi,          \* the thresholds' clip, 0.05 and 0.95
  Adjust,          \* use_categorical_adjust
  BandOff, ClassOff   \* the adjustments of a very high band and of rds

Domain == "monitoring_alert_authorization"

Action == "suppress_alert"

ToolSeq == <<"staging_loose", "prod_strict", "oncall_strict", "dev_loose">>

LooseTools == <<"staging_loose", "dev_loose">>

SwapPairs ==
  [staging_loose |-> "prod_strict", prod_strict |-> "staging_loose",
   dev_loose |-> "oncall_strict", oncall_strict |-> "dev_loose"]

Categorical == [load_band |-> <<"low", "very_high">>, machine_class |-> <<"ec2", "rds">>]

IsLoose(tool) == \E i \in DOMAIN LooseTools : LooseTools[i] = tool

Clip(v) == Min({Hi, Max({Lo, v})})

ThetaX1(theta, x1) ==
  Clip(theta - (IF Adjust /\ x1.load_band = "very_high" THEN BandOff ELSE 0)
             - (IF Adjust /\ x1.machine_class = "rds" THEN ClassOff ELSE 0))

\* Clipped twice: before and after the provenance term.
Threshold(theta, tool, x1) == Clip(ThetaX1(theta, x1) + (IF IsLoose(tool) THEN Delta ELSE 0))

PolicySafe(v, tool, x1, theta) == v <= Threshold(theta, tool, x1)

-----------------------------------------------------------------------------
(* The category in closed form, and by enumeration of the endpoints.       *)

\* Mutant: the joint test moves the record's own tool.
JointUnsafe_OwnTool(v, tool, x1, theta) == v + Eps > Threshold(theta, tool, x1)

JointUnsafe(v, tool, x1, theta) == v + Eps > Threshold(theta, SwapPairs[tool], x1)

AnalyticCategory(v, tool, x1, theta) ==
  IF ~PolicySafe(v, tool, x1, theta) THEN "U"
  ELSE IF ~PolicySafe(v, SwapPairs[tool], x1, theta) THEN "A"
  ELSE IF v + Eps > Threshold(theta, tool, x1) THEN "B"
  ELSE IF JointUnsafe(v, tool, x1, theta) THEN "C"
  ELSE "R"

\* The swap that flips a record of category A or C, or nothing.
Witness(v, tool, x1, theta) ==
  LET cat == AnalyticCategory(v, tool, x1, theta)
      th == Threshold(theta, SwapPairs[tool], x1)
  IN  CASE cat = "C" -> <<[joint |-> TRUE, tool |-> SwapPairs[tool],
                           value |-> Min({v + Eps, One}), threshold |-> th]>>
        [] cat = "A" -> <<[joint |-> FALSE, tool |-> SwapPairs[tool], value |-> v,
                           threshold |-> th]>>
        [] OTHER -> << >>

BruteForceCategory(v, tool, x1, theta) ==
  LET ends == {v, Min({v + Eps, One}), Max({v - Eps, 0})}
      unsafe(t, points) == \E y \in points : ~PolicySafe(y, t, x1, theta)
  IN  IF unsafe(tool, {v}) THEN "U"
      ELSE IF unsafe(SwapPairs[tool], {v}) THEN "A"
      ELSE IF unsafe(tool, ends) THEN "B"
      ELSE IF unsafe(tool, ends) \/ unsafe(SwapPairs[tool], ends) THEN "C"
      ELSE "R"

\* Where a loose record is of category C: above the first and up to the second.
CInterval(theta, x1) ==
  LET th == ThetaX1(theta, x1) IN <<th - Eps, Min({th, th + Delta - Eps})>>

-----------------------------------------------------------------------------
(* The rule table, in the shared oracle's schema: the threshold is clipped *)
(* once, and the adjustments become offsets the oracle adds afterwards.    *)

RuleThreshold(theta, tool) == Clip(theta + (IF IsLoose(tool) THEN Delta ELSE 0))

RuleOffsets ==
  [load_band |-> [low |-> 0, very_high |-> IF Adjust THEN -BandOff ELSE 0],
   machine_class |-> [ec2 |-> 0, rds |-> IF Adjust THEN -ClassOff ELSE 0]]

BuildRuleTable(theta) ==
  [x \in {Domain} |->
    [tools |-> ToolSeq, actions |-> <<Action>>, categories |-> Categorical,
     rules |-> [i \in DOMAIN ToolSeq |->
       [tool |-> ToolSeq[i], action |-> Action, context |-> << >>, family |-> "scalar_threshold",
        field |-> 1, direction |-> ">=", threshold |-> RuleThreshold(theta, ToolSeq[i]),
        offsets |-> RuleOffsets]]]]

Oracle(theta) ==
  INSTANCE RuleOracle WITH Domains <- {Domain}, Table <- BuildRuleTable(theta), Budget <- 1,
  Resolution <- 1

AsReturn(v, tool, x1) == [domain |-> Domain, tool |-> tool, x1 |-> x1, x2 |-> <<v, 0>>]

OracleCategory(v, tool, x1, theta) == Oracle(theta)!Category(AsReturn(v, tool, x1), Action)

\* Budgets and adjustments are not negative, and the clip leaves a range.
PolicyAssumption ==
  /\ {Delta, Eps, BandOff, ClassOff} \subseteq Nat
  /\ 0 < Lo /\ Lo < Hi /\ Hi < One
  /\ Adjust \in BOOLEAN
=============================================================================
