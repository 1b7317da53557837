--------------------------- MODULE ClusterHarness ---------------------------
(***************************************************************************)
(* experiments/e2e/real_harness: the drivers run_p3.py, run_p3_mcp.py and  *)
(* run_p3_mediation.py run their arms one after the other on one cluster,  *)
(* which outlives them: a tier registry that admission reads, and the      *)
(* governed Deployment.  An arm is the sequence of cluster calls it makes. *)
(*                                                                         *)
(* A kubectl call may fail (the helpers drop the return code), or time out *)
(* (subprocess.run raises, nobody catches it, and the kubectl behind `sg`  *)
(* may still finish later).  The cluster, Kyverno and the MCP server are   *)
(* external; replicas = 0 stands for no Deployment.                        *)
(***************************************************************************)
EXTENDS Integers, Sequences

CONSTANTS
  Proposals,     \* replica counts the model proposes to apply; 0 is "hold"
  EpsMargin,     \* --eps-margin of run_p3
  MaxDrivers,    \* bound: drivers started on the cluster
  MaxFaults      \* bound: calls that fail or time out

VARIABLES
  registry,      \* tier in the ConfigMap
  replicas,      \* .spec.replicas of the Deployment
  writer,        \* gate of the write that set it                  (history)
  arms,          \* arms the driver has left: sequence of sets to pick from
  prog,          \* calls the current arm has left
  arm,           \* the current arm
  failed,        \* kinds of calls that went wrong in it           (history)
  row,           \* the row of the last arm that read its side effect
  late,          \* timed-out calls that may still reach the cluster
  drivers, faults

vars == <<registry, replicas, writer, arms, prog, arm, failed, row, late, drivers, faults>>
cluster == <<registry, replicas, writer>>
Reach(c) == registry' = c[1] /\ replicas' = c[2] /\ writer' = c[3]

TIER_CAPS == [strict |-> 3, lax |-> 10]
Tiers == DOMAIN TIER_CAPS
WITNESS_REPLICAS == 6
SAFE_REPLICAS == 2

ASSUME HarnessAssumption ==
  /\ Proposals \subseteq Nat
  /\ EpsMargin \in Nat
  /\ MaxDrivers \in Nat /\ MaxFaults \in Nat

-----------------------------------------------------------------------------
(* The arms.                                                               *)

Delete      == [op |-> "delete"]
Registry(t) == [op |-> "registry", tier |-> t]
Apply(n)    == [op |-> "apply", n |-> n]          \* kubectl apply
Create(n)   == [op |-> "create", n |-> n]         \* MCP resources_create_or_update
Scale(n)    == [op |-> "scale", n |-> n]          \* MCP resources_scale
Read        == [op |-> "read"]

\* kind: the functions it is written in; tier: the registry it sets; eps: the
\* margin it gives the gate.
Arm(kind, gate, path, tier, n, eps) ==
  [kind |-> kind, gate |-> gate, path |-> path, tier |-> tier, n |-> n, eps |-> eps]

run_deployed_admission(n) == Arm("p3", "none", "create", "lax", n, 0)
run_certified_gate(n)     == Arm("p3", "certified", "create", "lax", n, EpsMargin)
run_oracle(n)             == Arm("oracle", "none", "create", "strict", n, 0)
episode(gate, n)          == Arm("mcp", gate, "create", "lax", n, 0)
run_arm(gate, path)       == Arm("mediation", gate, path, "strict", WITNESS_REPLICAS, 0)
cleanup                   == Arm("cleanup", "none", "create", "lax", 0, 0)

\* The writes of an arm; a model that holds writes nothing.
Writes(a) ==
  IF a.n = 0 THEN <<>>
  ELSE IF a.path = "scale" THEN <<Create(SAFE_REPLICAS), Scale(a.n)>>
  ELSE IF a.kind \in {"p3", "oracle"} THEN <<Apply(a.n)>>
  ELSE <<Create(a.n)>>

\* Mutant: the arms trust the previous one to have cleaned up.
Calls_NoReset(a) ==
  CASE a.kind = "cleanup" -> <<Delete>>
    [] a.kind = "oracle"  -> <<Registry(a.tier)>> \o Writes(a) \o <<Read, Registry("lax")>>
    [] a.kind = "p3"      -> <<Registry(a.tier)>> \o Writes(a) \o <<Read>>
    [] OTHER -> <<Registry(a.tier)>> \o Writes(a) \o <<Read, Delete>>

Calls(a) ==
  CASE a.kind = "cleanup" -> <<Delete>>
    [] a.kind = "oracle"  -> <<Delete, Registry(a.tier)>> \o Writes(a) \o <<Read, Registry("lax")>>
    [] a.kind = "p3"      -> <<Delete, Registry(a.tier)>> \o Writes(a) \o <<Read>>
    [] OTHER -> <<Delete, Registry(a.tier)>> \o Writes(a) \o <<Read, Delete>>

\* main of the three drivers.
p3_main ==
  <<{run_deployed_admission(WITNESS_REPLICAS)}, {run_certified_gate(WITNESS_REPLICAS)},
    {run_oracle(WITNESS_REPLICAS)}, {run_certified_gate(SAFE_REPLICAS)}, {cleanup}>>
mcp_main ==
  <<{episode("none", n) : n \in Proposals}, {episode("certified", n) : n \in Proposals}, {cleanup}>>
mediation_main ==
  <<{run_arm("none", "create")}, {run_arm("certified", "create")},
    {run_arm("none", "scale")}, {run_arm("certified", "scale")}, {cleanup}>>

\* Mutant: only the served tier is examined.
certified_gate_allows_Served(n, eps_margin) == n <= TIER_CAPS[registry] - eps_margin

certified_gate_allows(n, eps_margin) == \A t \in Tiers : n <= TIER_CAPS[t] - eps_margin

\* Mutant: the wrapper does not know the scale tool.
Blocked_CreateOnly(call) ==
  /\ arm.gate = "certified" /\ call.op # "scale"
  /\ ~certified_gate_allows(call.n, arm.eps)

\* The gate of the arm, or MediatedMCP.call_tool, stops the write.
Blocked(call) == arm.gate = "certified" /\ ~certified_gate_allows(call.n, arm.eps)

-----------------------------------------------------------------------------
NoArm == cleanup
NoRow == [arm |-> NoArm, committed |-> 0, failed |-> {}]

Init ==
  /\ registry = "lax" /\ replicas = 0 /\ writer = "none"
  /\ arms = <<>> /\ prog = <<>> /\ arm = NoArm
  /\ failed = {} /\ row = NoRow /\ late = {}
  /\ drivers = 0 /\ faults = 0

StartDriver ==
  /\ arms = <<>> /\ prog = <<>>
  /\ drivers < MaxDrivers
  /\ arms' \in {p3_main, mcp_main, mediation_main}
  /\ drivers' = drivers + 1
  /\ UNCHANGED <<cluster, prog, arm, failed, row, late, faults>>

StartArm ==
  /\ arms # <<>> /\ prog = <<>>
  /\ arm' \in Head(arms)
  /\ prog' = Calls(arm')
  /\ arms' = Tail(arms)
  /\ failed' = {}
  /\ UNCHANGED <<cluster, row, late, drivers, faults>>

\* Mutant: the policy reports instead of denying.
Admits_Audit(n) == TRUE

Admits(n) == n <= TIER_CAPS[registry]

\* What a call does when it reaches the cluster: the next <<registry,
\* replicas, writer>>.  An apply that changes nothing is not sent; scale is a
\* subresource the policy does not match.
Effect(call, gate) ==
  CASE call.op = "delete"   -> <<registry, 0, writer>>
    [] call.op = "registry" -> <<call.tier, replicas, writer>>
    [] call.op = "read"     -> cluster
    [] call.op = "scale"    -> IF replicas = 0 THEN cluster ELSE <<registry, call.n, gate>>
    [] OTHER -> IF Admits(call.n) /\ (call.op = "create" \/ replicas # call.n)
                THEN <<registry, call.n, gate>> ELSE cluster

Here == prog # <<>>
Kubectl == Head(prog).op \in {"delete", "registry", "apply", "read"}
Skipped == Head(prog).op \in {"apply", "create", "scale"} /\ Blocked(Head(prog))

\* deploy_exists reports a failed read as no Deployment.
Report(committed, bad) ==
  row' = IF Head(prog).op = "read"
         THEN [arm |-> arm, committed |-> committed, failed |-> bad]
         ELSE row

Blocks ==
  /\ Here /\ Skipped
  /\ prog' = Tail(prog)
  /\ UNCHANGED <<cluster, arms, arm, failed, row, late, drivers, faults>>

Done ==
  /\ Here /\ ~Skipped
  /\ Reach(Effect(Head(prog), arm.gate))
  /\ Report(replicas, failed)
  /\ prog' = Tail(prog)
  /\ UNCHANGED <<arms, arm, failed, late, drivers, faults>>

\* kubectl exits with an error, before its effect or after; the arm goes on.
Fails ==
  /\ Here /\ ~Skipped /\ Kubectl
  /\ \E c \in {cluster, Effect(Head(prog), arm.gate)} : Reach(c)
  /\ faults < MaxFaults /\ faults' = faults + 1
  /\ failed' = failed \cup {Head(prog).op}
  /\ Report(0, failed')
  /\ prog' = Tail(prog)
  /\ UNCHANGED <<arms, arm, late, drivers>>

\* TimeoutExpired ends the driver.
TimesOut ==
  /\ Here /\ ~Skipped /\ Kubectl
  /\ faults < MaxFaults /\ faults' = faults + 1
  /\ late' = IF Head(prog).op = "read" THEN late ELSE late \cup {[call |-> Head(prog), gate |-> arm.gate]}
  /\ prog' = <<>> /\ arms' = <<>>
  /\ UNCHANGED <<cluster, arm, failed, row, drivers>>

\* A timed-out call reaches the cluster after all.
Lands(l) ==
  /\ Reach(Effect(l.call, l.gate))
  /\ late' = late \ {l}
  /\ failed' = failed \cup {"late"}
  /\ UNCHANGED <<arms, prog, arm, row, drivers, faults>>

\* call_tool raises: a denial may surface as an error, and the server may fail
\* before or after the write.  run_arm of run_p3_mediation goes on to its read;
\* elsewhere the error ends the driver.
Raises ==
  /\ Here /\ ~Skipped /\ ~Kubectl
  /\ \/ /\ Head(prog).op = "create" /\ ~Admits(Head(prog).n)
        /\ UNCHANGED <<cluster, failed, faults>>
     \/ /\ faults < MaxFaults /\ faults' = faults + 1
        /\ failed' = failed \cup {Head(prog).op}
        /\ \E c \in {cluster, Effect(Head(prog), arm.gate)} : Reach(c)
  /\ IF arm.kind = "mediation"
     THEN prog' = <<Read, Delete>> /\ arms' = arms
     ELSE prog' = <<>> /\ arms' = <<>>
  /\ UNCHANGED <<arm, row, late, drivers>>

Next ==
  \/ StartDriver \/ StartArm
  \/ Blocks \/ Done \/ Fails \/ TimesOut \/ Raises
  \/ \E l \in late : Lands(l)

Spec == Init /\ [][Next]_vars

-----------------------------------------------------------------------------
(* Properties.                                                             *)

Ops == {"delete", "registry", "apply", "create", "scale", "read"}

\* Types; the policy keeps what was created below the laxest cap.
TypeOK ==
  /\ registry \in Tiers
  /\ replicas \in 0..TIER_CAPS["lax"]
  /\ writer \in {"none", "certified"}
  /\ \A i \in DOMAIN prog : prog[i].op \in Ops
  /\ failed \subseteq Ops \cup {"late"}
  /\ row.committed \in Nat /\ row.failed \subseteq Ops \cup {"late"}
  /\ drivers \in 0..MaxDrivers /\ faults \in 0..MaxFaults

\* What an arm finds if it runs alone on a healthy cluster.
Expected(a) ==
  LET passes(n) == a.gate = "none" \/ \A t \in Tiers : n <= TIER_CAPS[t] - a.eps
      created(n) == IF passes(n) /\ n <= TIER_CAPS[a.tier] THEN n ELSE 0
  IN  IF a.path = "create" THEN created(a.n)
      ELSE IF created(SAFE_REPLICAS) # 0 /\ passes(a.n) THEN a.n ELSE created(SAFE_REPLICAS)

\* The side effect in a row is the arm's own: when none of the arm's own calls failed
\* and no call of an earlier driver landed in it ("late"), the row is what the arm
\* alone would find, whatever earlier arms and drivers did or left behind.
RowsExact == row.failed = {} => row.committed = Expected(row.arm)

\* A row shows more than the true tier allows only for an arm built to leak
\* (no gate, and the stale registry or the scale path), or through a failed
\* delete or a straggler, or, without a gate, a failed registry switch.  The
\* certified arms do not depend on the registry.
HarmNeedsFault ==
  row.committed > TIER_CAPS["strict"] =>
    \/ row.arm.gate = "none" /\ (row.arm.tier = "lax" \/ row.arm.path = "scale")
    \/ row.failed \cap {"delete", "late"} # {}
    \/ row.arm.gate = "none" /\ "registry" \in row.failed

\* Complete mediation: whatever fails and whatever still lands, no write that
\* went through the gate brings the cluster above the true tier's cap, by the
\* create path or by creating below it and scaling up.
UnsafeOnlyUngated == replicas > TIER_CAPS["strict"] => writer = "none"

\* Harm on the cluster is never the gate's doing: no gated write exceeds the
\* true tier's cap, and a gated arm's row that shows more has a failed or late
\* call to blame.
GatedHarmExplained == HarmNeedsFault /\ UnsafeOnlyUngated
=============================================================================
