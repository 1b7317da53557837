------------------------ MODULE ClusterHarnessProofs ------------------------
(***************************************************************************)
(* What ClusterHarness promises, for any proposals, margin and number of   *)
(* drivers and faults.                                                     *)
(***************************************************************************)
EXTENDS ClusterHarness, TLAPS

Gates == {"none", "certified"}
Writing == {"apply", "create", "scale"}

\* The calls an arm may make; scale is only called up to the witness.
CallSet ==
  {Delete, Read} \cup {Registry(t) : t \in Tiers}
    \cup {Apply(n) : n \in Nat} \cup {Create(n) : n \in Nat} \cup {Scale(WITNESS_REPLICAS)}

ArmSet ==
  {Arm(kind, gate, "create", tier, n, eps) :
     kind \in {"p3", "oracle", "mcp", "mediation", "cleanup"}, gate \in Gates,
     tier \in Tiers, n \in Nat, eps \in Nat}
  \cup {run_arm(gate, "scale") : gate \in Gates}

Shape ==
  /\ TypeOK
  /\ prog \in Seq(CallSet) /\ arms \in Seq(SUBSET ArmSet) /\ arm \in ArmSet
  /\ late \subseteq [call : CallSet, gate : Gates]

\* A write the gate has let through is safe in every tier.
Safe(call, gate) == gate = "certified" /\ call.op \in Writing => call.n <= TIER_CAPS["strict"]

LateInv == \A l \in late : Safe(l.call, l.gate)

IInv == Shape /\ LateInv /\ UnsafeOnlyUngated

-----------------------------------------------------------------------------
(* Calls, arms and drivers.                                                *)

LEMMA TierType == Tiers = {"strict", "lax"} /\ TIER_CAPS["strict"] = 3 /\ TIER_CAPS["lax"] = 10
  BY DEF Tiers, TIER_CAPS

LEMMA CallFields ==
  ASSUME NEW call \in CallSet
  PROVE  /\ call.op \in Ops
         /\ call.op \in Writing => call.n \in Nat
         /\ call.op = "scale" => call.n = WITNESS_REPLICAS
         /\ call.op = "registry" => call.tier \in Tiers
  BY DEF CallSet, Delete, Read, Registry, Apply, Create, Scale, Ops, Writing, WITNESS_REPLICAS

LEMMA ArmFields ==
  ASSUME NEW a \in ArmSet
  PROVE  /\ a.gate \in Gates /\ a.tier \in Tiers /\ a.n \in Nat /\ a.eps \in Nat
         /\ a.kind \in {"p3", "oracle", "mcp", "mediation", "cleanup"}
         /\ a.path \in {"create", "scale"}
         /\ a.path = "scale" => a.n = WITNESS_REPLICAS
  BY TierType DEF ArmSet, Arm, run_arm, WITNESS_REPLICAS

LEMMA WritesType ==
  ASSUME NEW a \in ArmSet
  PROVE  Writes(a) \in Seq(CallSet)
  <1>1. Apply(a.n) \in CallSet /\ Create(a.n) \in CallSet /\ Create(SAFE_REPLICAS) \in CallSet
    BY ArmFields DEF CallSet, SAFE_REPLICAS
  <1>2. a.path = "scale" => Scale(a.n) \in CallSet
    BY ArmFields DEF CallSet
  <1>. QED
    BY <1>1, <1>2, ArmFields DEF Writes

LEMMA CallsType ==
  ASSUME NEW a \in ArmSet
  PROVE  Calls(a) \in Seq(CallSet)
  <1>1. Delete \in CallSet /\ Read \in CallSet /\ Registry(a.tier) \in CallSet /\ Registry("lax") \in CallSet
    BY ArmFields, TierType DEF CallSet
  <1>2. Writes(a) \in Seq(CallSet)
    BY WritesType
  <1>3. <<Delete, Registry(a.tier)>> \in Seq(CallSet) /\ <<Read, Registry("lax")>> \in Seq(CallSet)
        /\ <<Read>> \in Seq(CallSet) /\ <<Read, Delete>> \in Seq(CallSet) /\ <<Delete>> \in Seq(CallSet)
    BY <1>1
  <1>4. <<Delete, Registry(a.tier)>> \o Writes(a) \in Seq(CallSet)
    BY <1>2, <1>3
  <1>. QED
    BY <1>3, <1>4 DEF Calls

LEMMA MainType ==
  ASSUME NEW p \in {p3_main, mcp_main, mediation_main}
  PROVE  p \in Seq(SUBSET ArmSet)
  <1>1. \A g \in Gates, t \in Tiers, n \in Nat, e \in Nat, k \in {"p3", "oracle", "mcp", "mediation", "cleanup"} :
          Arm(k, g, "create", t, n, e) \in ArmSet
    BY DEF ArmSet
  <1>2. cleanup \in ArmSet /\ EpsMargin \in Nat
    BY <1>1, TierType, HarnessAssumption DEF cleanup, Gates
  <1>3. CASE p = p3_main
    <2>1. \A n \in Nat : run_deployed_admission(n) \in ArmSet /\ run_certified_gate(n) \in ArmSet /\ run_oracle(n) \in ArmSet
      BY <1>1, <1>2, TierType DEF run_deployed_admission, run_certified_gate, run_oracle, Gates
    <2>. QED
      BY <1>2, <1>3, <2>1 DEF p3_main, WITNESS_REPLICAS, SAFE_REPLICAS
  <1>4. CASE p = mcp_main
    <2>1. \A g \in Gates, n \in Proposals : episode(g, n) \in ArmSet
      BY <1>1, TierType, HarnessAssumption DEF episode
    <2>2. {episode("none", n) : n \in Proposals} \in SUBSET ArmSet /\ {episode("certified", n) : n \in Proposals} \in SUBSET ArmSet
      BY <2>1 DEF Gates
    <2>. QED
      BY <1>2, <1>4, <2>2 DEF mcp_main
  <1>5. CASE p = mediation_main
    <2>1. \A g \in Gates : run_arm(g, "create") \in ArmSet /\ run_arm(g, "scale") \in ArmSet
      <3>1. \A g \in Gates : run_arm(g, "create") \in ArmSet
        BY <1>1, TierType DEF run_arm, WITNESS_REPLICAS
      <3>2. \A g \in Gates : run_arm(g, "scale") \in ArmSet
        BY DEF ArmSet
      <3>. QED
        BY <3>1, <3>2
    <2>. QED
      BY <1>2, <1>5, <2>1 DEF mediation_main, Gates
  <1>. QED
    BY <1>3, <1>4, <1>5

-----------------------------------------------------------------------------
(* What a call does to the cluster.                                        *)

ClusterOK == registry \in Tiers /\ replicas \in 0..TIER_CAPS["lax"] /\ writer \in Gates /\ UnsafeOnlyUngated

LEMMA EffectSafe ==
  ASSUME ClusterOK, NEW call \in CallSet, NEW gate \in Gates, Safe(call, gate),
         Reach(Effect(call, gate))
  PROVE  ClusterOK'
  <1>1. CASE call.op = "delete"
    BY <1>1, TierType DEF Effect, Reach, ClusterOK, UnsafeOnlyUngated
  <1>2. CASE call.op = "registry"
    BY <1>2, CallFields DEF Effect, Reach, ClusterOK, UnsafeOnlyUngated
  <1>3. CASE call.op = "read"
    BY <1>3 DEF Effect, Reach, cluster, ClusterOK, UnsafeOnlyUngated
  <1>4. CASE call.op = "scale"
    <2>1. call.n = 6
      BY <1>4, CallFields DEF WITNESS_REPLICAS
    <2>2. Effect(call, gate) = IF replicas = 0 THEN cluster ELSE <<registry, call.n, gate>>
      BY <1>4 DEF Effect
    <2>. QED
      BY <1>4, <2>1, <2>2, TierType DEF Safe, Writing, Reach, cluster, ClusterOK, UnsafeOnlyUngated, Gates
  <1>5. CASE call.op \in {"apply", "create"}
    <2>1. Effect(call, gate) = IF Admits(call.n) /\ (call.op = "create" \/ replicas # call.n)
                               THEN <<registry, call.n, gate>> ELSE cluster
      BY <1>5 DEF Effect
    <2>2. call.n \in Nat
      BY <1>5, CallFields DEF Writing
    <2>3. Admits(call.n) => call.n \in 0..TIER_CAPS["lax"]
      BY <2>2, TierType DEF Admits, ClusterOK
    <2>4. CASE Effect(call, gate) = cluster
      BY <2>4 DEF Reach, cluster, ClusterOK, UnsafeOnlyUngated
    <2>5. CASE Admits(call.n) /\ Effect(call, gate) = <<registry, call.n, gate>>
      <3>1. registry' = registry /\ replicas' = call.n /\ writer' = gate
        BY <2>5 DEF Reach
      <3>2. replicas' > TIER_CAPS["strict"] => gate = "none"
        BY <1>5, <2>2, <3>1, TierType DEF Safe, Writing, Gates
      <3>. QED
        BY <2>3, <2>5, <3>1, <3>2 DEF ClusterOK, UnsafeOnlyUngated
    <2>. QED
      BY <2>1, <2>4, <2>5
  <1>. QED
    BY <1>1, <1>2, <1>3, <1>4, <1>5, CallFields DEF Ops

\* What the gate lets through is safe in every tier.
LEMMA GateSafe ==
  ASSUME Shape, Here, ~Skipped
  PROVE  Head(prog) \in CallSet /\ arm.gate \in Gates /\ Safe(Head(prog), arm.gate)
  <1>1. Head(prog) \in CallSet /\ arm \in ArmSet /\ arm.gate \in Gates /\ arm.eps \in Nat
    BY ArmFields DEF Shape, Here
  <1>2. ASSUME arm.gate = "certified", Head(prog).op \in Writing
        PROVE  Head(prog).n <= TIER_CAPS["strict"]
    <2>1. certified_gate_allows(Head(prog).n, arm.eps)
      BY <1>2 DEF Skipped, Blocked, Writing
    <2>2. Head(prog).n <= TIER_CAPS["strict"] - arm.eps
      BY <2>1, TierType DEF certified_gate_allows
    <2>. QED
      BY <1>1, <1>2, <2>2, CallFields, TierType
  <1>. QED
    BY <1>1, <1>2 DEF Safe

-----------------------------------------------------------------------------
(* The invariant, action by action.                                        *)

Rest ==
  /\ prog \in Seq(CallSet) /\ arms \in Seq(SUBSET ArmSet) /\ arm \in ArmSet
  /\ late \subseteq [call : CallSet, gate : Gates] /\ LateInv

Marks ==
  /\ failed \subseteq Ops \cup {"late"}
  /\ row.committed \in Nat /\ row.failed \subseteq Ops \cup {"late"}
  /\ drivers \in 0..MaxDrivers /\ faults \in 0..MaxFaults

LEMMA Parts == IInv <=> ClusterOK /\ Rest /\ Marks
  <1>1. prog \in Seq(CallSet) => \A i \in DOMAIN prog : prog[i].op \in Ops
    BY CallFields
  <1>. QED
    BY <1>1 DEF IInv, Shape, TypeOK, ClusterOK, Rest, Marks, Gates

LEMMA PartsNext == IInv' <=> ClusterOK' /\ Rest' /\ Marks'
  BY Parts, PTL

LEMMA InitInv == Init => IInv
  <1> SUFFICES ASSUME Init PROVE ClusterOK /\ Rest /\ Marks
    BY Parts
  <1>1. cleanup \in ArmSet
    BY TierType DEF cleanup, ArmSet, Gates
  <1>2. ClusterOK
    BY TierType DEF Init, ClusterOK, UnsafeOnlyUngated, Gates
  <1>3. Rest
    BY <1>1 DEF Init, Rest, NoArm, LateInv
  <1>4. Marks
    BY HarnessAssumption DEF Init, Marks, NoRow
  <1>. QED
    BY <1>2, <1>3, <1>4

\* The cluster keeps its invariant if a safe call has its effect or none.
LEMMA NoEffect ==
  ASSUME ClusterOK, UNCHANGED cluster
  PROVE  ClusterOK'
  BY DEF ClusterOK, UnsafeOnlyUngated, cluster

LEMMA SomeEffect ==
  ASSUME ClusterOK, NEW call \in CallSet, NEW gate \in Gates, Safe(call, gate),
         \E c \in {cluster, Effect(call, gate)} : Reach(c)
  PROVE  ClusterOK'
  <1>1. CASE Reach(cluster)
    BY <1>1, NoEffect DEF Reach, cluster
  <1>2. CASE Reach(Effect(call, gate))
    BY <1>2, EffectSafe
  <1>. QED
    BY <1>1, <1>2

\* The rows and the counts of a step.
LEMMA ReportType ==
  ASSUME Marks, NEW n \in Nat, NEW bad, bad \subseteq Ops \cup {"late"}, Report(n, bad)
  PROVE  row'.committed \in Nat /\ row'.failed \subseteq Ops \cup {"late"}
  BY DEF Marks, Report

LEMMA FaultType ==
  ASSUME Marks, faults < MaxFaults, faults' = faults + 1
  PROVE  faults' \in 0..MaxFaults
  BY HarnessAssumption DEF Marks

LEMMA NextInv == IInv /\ [Next]_vars => IInv'
  <1> SUFFICES ASSUME ClusterOK, Rest, Marks, [Next]_vars
               PROVE  ClusterOK' /\ Rest' /\ Marks'
    BY Parts, PartsNext
  <1>1. ASSUME Here, ~Skipped
        PROVE  /\ Head(prog) \in CallSet /\ arm.gate \in Gates /\ Safe(Head(prog), arm.gate)
               /\ Tail(prog) \in Seq(CallSet) /\ Head(prog).op \in Ops
    <2>1. Shape
      BY Parts DEF IInv
    <2>2. Tail(prog) \in Seq(CallSet)
      BY <1>1 DEF Here, Rest
    <2>. QED
      BY <1>1, <2>1, <2>2, GateSafe, CallFields
  <1>2. ASSUME StartDriver PROVE ClusterOK' /\ Rest' /\ Marks'
    <2>1. ClusterOK'
      BY <1>2, NoEffect DEF StartDriver
    <2>2. Rest'
      BY <1>2, MainType DEF StartDriver, Rest, LateInv
    <2>3. Marks'
      BY <1>2, HarnessAssumption DEF StartDriver, Marks
    <2>. QED
      BY <2>1, <2>2, <2>3
  <1>3. ASSUME StartArm PROVE ClusterOK' /\ Rest' /\ Marks'
    <2>1. ClusterOK'
      BY <1>3, NoEffect DEF StartArm
    <2>2. arm' \in ArmSet /\ arms' \in Seq(SUBSET ArmSet)
      BY <1>3 DEF StartArm, Rest
    <2>3. prog' \in Seq(CallSet)
      BY <1>3, <2>2, CallsType DEF StartArm
    <2>4. Rest'
      BY <1>3, <2>2, <2>3 DEF StartArm, Rest, LateInv
    <2>5. Marks'
      BY <1>3 DEF StartArm, Marks
    <2>. QED
      BY <2>1, <2>4, <2>5
  <1>4. ASSUME Blocks PROVE ClusterOK' /\ Rest' /\ Marks'
    <2>1. ClusterOK'
      BY <1>4, NoEffect DEF Blocks
    <2>2. Rest'
      BY <1>4 DEF Blocks, Here, Rest, LateInv
    <2>3. Marks'
      BY <1>4 DEF Blocks, Marks
    <2>. QED
      BY <2>1, <2>2, <2>3
  <1>5. ASSUME Done PROVE ClusterOK' /\ Rest' /\ Marks'
    <2>1. ClusterOK'
      BY <1>1, <1>5, EffectSafe DEF Done
    <2>2. Rest'
      BY <1>1, <1>5 DEF Done, Rest, LateInv
    <2>3. replicas \in Nat
      BY TierType DEF ClusterOK
    <2>4. Marks'
      BY <1>5, <2>3, ReportType DEF Done, Marks
    <2>. QED
      BY <2>1, <2>2, <2>4
  <1>6. ASSUME Fails PROVE ClusterOK' /\ Rest' /\ Marks'
    <2>1. ClusterOK'
      BY <1>1, <1>6, SomeEffect DEF Fails
    <2>2. Rest'
      BY <1>1, <1>6 DEF Fails, Rest, LateInv
    <2>3. failed' \subseteq Ops \cup {"late"}
      BY <1>1, <1>6 DEF Fails, Marks
    <2>4. faults' \in 0..MaxFaults
      BY <1>6, FaultType DEF Fails
    <2>5. row'.committed \in Nat /\ row'.failed \subseteq Ops \cup {"late"}
      BY <1>6, <2>3, ReportType DEF Fails
    <2>. QED
      BY <1>6, <2>1, <2>2, <2>3, <2>4, <2>5 DEF Fails, Marks
  <1>7. ASSUME TimesOut PROVE ClusterOK' /\ Rest' /\ Marks'
    <2>1. ClusterOK'
      BY <1>7, NoEffect DEF TimesOut
    <2>2. late' \subseteq [call : CallSet, gate : Gates] /\ LateInv'
      BY <1>1, <1>7 DEF TimesOut, Rest, LateInv, Safe
    <2>3. Rest'
      BY <1>7, <2>2 DEF TimesOut, Rest
    <2>4. faults' \in 0..MaxFaults
      BY <1>7, FaultType DEF TimesOut
    <2>. QED
      BY <1>7, <2>1, <2>3, <2>4 DEF TimesOut, Marks
  <1>8. ASSUME NEW l \in late, Lands(l) PROVE ClusterOK' /\ Rest' /\ Marks'
    <2>1. l.call \in CallSet /\ l.gate \in Gates /\ Safe(l.call, l.gate)
      BY DEF Rest, LateInv
    <2>2. ClusterOK'
      BY <1>8, <2>1, EffectSafe DEF Lands
    <2>3. Rest'
      BY <1>8 DEF Lands, Rest, LateInv
    <2>4. Marks'
      BY <1>8 DEF Lands, Marks
    <2>. QED
      BY <2>2, <2>3, <2>4
  <1>9. ASSUME Raises PROVE ClusterOK' /\ Rest' /\ Marks'
    <2>1. \/ UNCHANGED <<cluster, failed, faults>>
          \/ /\ faults < MaxFaults /\ faults' = faults + 1
             /\ failed' = failed \cup {Head(prog).op}
             /\ \E c \in {cluster, Effect(Head(prog), arm.gate)} : Reach(c)
      BY <1>9 DEF Raises
    <2>2. ClusterOK'
      BY <1>1, <1>9, <2>1, NoEffect, SomeEffect DEF Raises
    <2>3. <<Read, Delete>> \in Seq(CallSet)
      BY DEF CallSet
    <2>4. Rest'
      <3>1. prog' \in Seq(CallSet) /\ arms' \in Seq(SUBSET ArmSet)
        <4>1. \/ prog' = <<Read, Delete>> /\ arms' = arms
              \/ prog' = <<>> /\ arms' = <<>>
          BY <1>9 DEF Raises
        <4>2. <<>> \in Seq(CallSet) /\ <<>> \in Seq(SUBSET ArmSet)
          OBVIOUS
        <4>3. arms \in Seq(SUBSET ArmSet)
          BY DEF Rest
        <4>. QED
          BY <2>3, <4>1, <4>2, <4>3, Zenon
      <3>2. arm' = arm /\ late' = late
        BY <1>9 DEF Raises
      <3>. QED
        BY <3>1, <3>2 DEF Rest, LateInv
    <2>5. failed' \subseteq Ops \cup {"late"}
      BY <1>1, <1>9, <2>1 DEF Raises, Marks
    <2>6. faults' \in 0..MaxFaults
      BY <2>1, FaultType DEF Marks
    <2>7. Marks'
      BY <1>9, <2>5, <2>6 DEF Raises, Marks
    <2>. QED
      BY <2>2, <2>4, <2>7
  <1>10. ASSUME UNCHANGED vars PROVE ClusterOK' /\ Rest' /\ Marks'
    <2>1. ClusterOK'
      BY <1>10, NoEffect DEF vars, cluster
    <2>. QED
      BY <1>10, <2>1 DEF vars, Rest, LateInv, Marks
  <1>. QED
    BY <1>2, <1>3, <1>4, <1>5, <1>6, <1>7, <1>8, <1>9, <1>10 DEF Next

LEMMA Invariance == Spec => []IInv
  BY InitInv, NextInv, PTL DEF Spec

-----------------------------------------------------------------------------
(* Type correctness of the cluster and the drivers; no Deployment exceeds   *)
(* the laxest cap.                                                          *)
THEOREM TypeCorrect == Spec => []TypeOK
  <1>1. IInv => TypeOK
    BY DEF IInv, Shape
  <1>. QED
    BY <1>1, Invariance, PTL

(* No write that passed certified_gate_allows or MediatedMCP leaves more    *)
(* replicas than the true tier allows, whatever calls fail, raise or land   *)
(* late, and whatever the registry says.                                    *)
THEOREM GatedWritesSafe == Spec => []UnsafeOnlyUngated
  <1>1. IInv => UnsafeOnlyUngated
    BY DEF IInv
  <1>. QED
    BY <1>1, Invariance, PTL
-----------------------------------------------------------------------------
(* The rows.  Where an arm is in its calls, and what the cluster is there  *)
(* as long as nothing went wrong, or nothing that excuses harm.            *)

Ending(a) ==
  IF a.kind = "oracle" THEN <<Read, Registry("lax")>>
  ELSE IF a.kind = "p3" THEN <<Read>> ELSE <<Read, Delete>>

Write(a) == IF a.kind \in {"p3", "oracle"} THEN Apply(a.n) ELSE Create(a.n)

Excused(a, f) ==
  \/ a.gate = "none" /\ (a.tier = "lax" \/ a.path = "scale")
  \/ f \cap {"delete", "late"} # {}
  \/ a.gate = "none" /\ "registry" \in f

Passes(a, n) == a.gate = "none" \/ \A t \in Tiers : n <= TIER_CAPS[t] - a.eps
Created(a, n) == IF Passes(a, n) /\ n <= TIER_CAPS[a.tier] THEN n ELSE 0

Low == ~Excused(arm, failed) => replicas <= TIER_CAPS["strict"]
Fresh == failed = {} => registry = arm.tier
TrueTier == ~Excused(arm, failed) /\ arm.gate = "none" => registry = "strict"

AtDelete ==
  /\ arm.kind # "cleanup"
  /\ prog = <<Delete>> \o (<<Registry(arm.tier)>> \o (Writes(arm) \o Ending(arm)))
AtRegistry ==
  /\ prog = <<Registry(arm.tier)>> \o (Writes(arm) \o Ending(arm))
  /\ failed = {} => replicas = 0
  /\ Low
AtWrite ==
  /\ arm.n # 0 /\ arm.path = "create"
  /\ prog = <<Write(arm)>> \o Ending(arm)
  /\ failed = {} => replicas = 0
  /\ Low /\ Fresh /\ TrueTier
AtCreate ==
  /\ arm.path = "scale"
  /\ prog = <<Create(SAFE_REPLICAS)>> \o (<<Scale(arm.n)>> \o Ending(arm))
  /\ failed = {} => replicas = 0
  /\ Low /\ Fresh
AtScale ==
  /\ arm.path = "scale"
  /\ prog = <<Scale(arm.n)>> \o Ending(arm)
  /\ failed = {} => replicas = Created(arm, SAFE_REPLICAS)
  /\ Low
AtRead ==
  /\ prog = Ending(arm)
  /\ failed = {} => replicas = Expected(arm)
  /\ Low
AtEnd == prog \in {<<>>, <<Delete>>, <<Registry("lax")>>}

StageInv == AtDelete \/ AtRegistry \/ AtWrite \/ AtCreate \/ AtScale \/ AtRead \/ AtEnd

LEMMA Cons ==
  ASSUME NEW S, NEW x \in S, NEW r \in Seq(S)
  PROVE  /\ <<x>> \o r \in Seq(S) /\ <<x>> \o r # <<>>
         /\ Head(<<x>> \o r) = x /\ Tail(<<x>> \o r) = r
  <1> DEFINE s == <<x>> \o r
  <1>1. s \in Seq(S) /\ Len(s) = Len(r) + 1 /\ s[1] = x /\ \A i \in 1..Len(r) : s[i + 1] = r[i]
    OBVIOUS
  <1> HIDE DEF s
  <1>2. s # <<>> /\ Head(s) = x
    BY <1>1
  <1>3. Tail(s) \in Seq(S) /\ Len(Tail(s)) = Len(r) /\ \A i \in 1..Len(r) : Tail(s)[i] = r[i]
    BY <1>1
  <1>4. Tail(s) = r
    BY <1>3
  <1>. QED
    BY <1>1, <1>2, <1>4 DEF s

LEMMA AssociativeThree ==
  ASSUME NEW S, NEW p \in Seq(S), NEW q \in Seq(S), NEW r \in Seq(S)
  PROVE  (p \o q) \o r = p \o (q \o r)
  OBVIOUS

LEMMA Associative ==
  ASSUME NEW S, NEW x \in S, NEW y \in S, NEW r \in Seq(S)
  PROVE  <<x, y>> \o r = <<x>> \o (<<y>> \o r)
  <1> DEFINE s == <<x, y>>
             p == <<x>>
             q == <<y>>
  <1>1. s \in Seq(S) /\ Len(s) = 2 /\ s[1] = x /\ s[2] = y
    OBVIOUS
  <1>2. p \in Seq(S) /\ q \in Seq(S)
    OBVIOUS
  <1>3. p \o q \in Seq(S) /\ Len(p \o q) = 2 /\ (p \o q)[1] = x /\ (p \o q)[2] = y
    OBVIOUS
  <1> HIDE DEF s, p, q
  <1>4. s = p \o q
    <2> DEFINE t == p \o q
    <2>1. t \in Seq(S) /\ Len(t) = 2 /\ t[1] = x /\ t[2] = y
      BY <1>3
    <2> HIDE DEF t
    <2>2. s = t
      BY <1>1, <2>1
    <2>. QED
      BY <2>2 DEF t
  <1>5. (p \o q) \o r = p \o (q \o r)
    BY <1>2, AssociativeThree
  <1>6. s \o r = p \o (q \o r)
    BY <1>4, <1>5, Zenon
  <1>. QED
    BY <1>6 DEF s, p, q

LEMMA CallTypes ==
  ASSUME NEW a \in ArmSet
  PROVE  /\ Delete \in CallSet /\ Read \in CallSet /\ Registry(a.tier) \in CallSet /\ Registry("lax") \in CallSet
         /\ Write(a) \in CallSet /\ Create(SAFE_REPLICAS) \in CallSet
         /\ a.path = "scale" => Scale(a.n) \in CallSet
  BY ArmFields, TierType DEF CallSet, Write, SAFE_REPLICAS

LEMMA EndingForm ==
  ASSUME NEW a \in ArmSet
  PROVE  /\ Ending(a) \in Seq(CallSet) /\ Ending(a) # <<>>
         /\ Head(Ending(a)) = Read
         /\ Tail(Ending(a)) \in {<<>>, <<Delete>>, <<Registry("lax")>>}
  BY CallTypes DEF Ending

LEMMA ScaleArm ==
  ASSUME NEW a \in ArmSet, a.path = "scale"
  PROVE  a.kind = "mediation" /\ a.eps = 0 /\ a.tier = "strict" /\ a.n = 6
  BY DEF ArmSet, Arm, run_arm, WITNESS_REPLICAS

LEMMA WritesForm ==
  ASSUME NEW a \in ArmSet
  PROVE  /\ Writes(a) \o Ending(a) \in Seq(CallSet)
         /\ a.n = 0 => a.path = "create" /\ Writes(a) \o Ending(a) = Ending(a)
         /\ a.n # 0 /\ a.path = "create" => Writes(a) \o Ending(a) = <<Write(a)>> \o Ending(a)
         /\ a.path = "scale" =>
              Writes(a) \o Ending(a) = <<Create(SAFE_REPLICAS)>> \o (<<Scale(a.n)>> \o Ending(a))
  <1>1. Ending(a) \in Seq(CallSet) /\ Writes(a) \in Seq(CallSet)
    BY EndingForm, WritesType
  <1>2. CASE a.n = 0
    <2>1. Writes(a) = <<>>
      BY <1>2 DEF Writes
    <2>2. a.path = "create"
      BY <1>2, ArmFields, ScaleArm
    <2>. QED
      BY <1>1, <1>2, <2>1, <2>2
  <1>3. CASE a.n # 0 /\ a.path = "create"
    <2>1. Writes(a) = <<Write(a)>>
      BY <1>3 DEF Writes, Write
    <2>. QED
      BY <1>1, <1>3, <2>1
  <1>4. CASE a.path = "scale"
    <2>1. Writes(a) = <<Create(SAFE_REPLICAS), Scale(a.n)>>
      BY <1>4, ScaleArm DEF Writes
    <2>2. Writes(a) \o Ending(a) = <<Create(SAFE_REPLICAS)>> \o (<<Scale(a.n)>> \o Ending(a))
      <3> DEFINE x == Create(SAFE_REPLICAS)
                 y == Scale(a.n)
                 e == Ending(a)
      <3>1. x \in CallSet /\ y \in CallSet /\ e \in Seq(CallSet)
        BY <1>1, <1>4, CallTypes
      <3>2. Writes(a) = <<x, y>>
        BY <2>1
      <3> HIDE DEF x, y, e
      <3>3. <<x, y>> \o e = <<x>> \o (<<y>> \o e)
        BY <3>1, Associative
      <3>. QED
        BY <3>2, <3>3, Zenon DEF x, y, e
    <2>. QED
      BY <1>1, <1>4, <2>2, ScaleArm
  <1>. QED
    BY <1>2, <1>3, <1>4, ArmFields

LEMMA CallsForm ==
  ASSUME NEW a \in ArmSet
  PROVE  /\ a.kind = "cleanup" => Calls(a) = <<Delete>>
         /\ a.kind # "cleanup" =>
              Calls(a) = <<Delete>> \o (<<Registry(a.tier)>> \o (Writes(a) \o Ending(a)))
  <1>1. CASE a.kind = "cleanup"
    BY <1>1 DEF Calls
  <1>2. CASE a.kind # "cleanup"
    <2>1. Calls(a) = (<<Delete, Registry(a.tier)>> \o Writes(a)) \o Ending(a)
      BY <1>2 DEF Calls, Ending
    <2>2. <<Delete, Registry(a.tier)>> \in Seq(CallSet) /\ Writes(a) \in Seq(CallSet) /\ Ending(a) \in Seq(CallSet)
      BY CallTypes, WritesType, EndingForm
    <2>3. Calls(a) = <<Delete, Registry(a.tier)>> \o (Writes(a) \o Ending(a))
      BY <2>1, <2>2, AssociativeThree
    <2>4. Writes(a) \o Ending(a) \in Seq(CallSet)
      BY <2>2
    <2>5. Delete \in CallSet /\ Registry(a.tier) \in CallSet
      BY CallTypes
    <2>6. <<Delete, Registry(a.tier)>> \o (Writes(a) \o Ending(a))
            = <<Delete>> \o (<<Registry(a.tier)>> \o (Writes(a) \o Ending(a)))
      <3> DEFINE w == Writes(a) \o Ending(a)
                 y == Registry(a.tier)
      <3>1. w \in Seq(CallSet) /\ y \in CallSet /\ Delete \in CallSet
        BY <2>4, <2>5
      <3> HIDE DEF w, y
      <3>2. <<Delete, y>> \o w = <<Delete>> \o (<<y>> \o w)
        BY <3>1, Associative
      <3>. QED
        BY <3>2 DEF w, y
    <2>. QED
      BY <1>2, <2>3, <2>6, Zenon
  <1>. QED
    BY <1>1, <1>2

-----------------------------------------------------------------------------
(* One call of an arm, at each of its stages.                              *)

LEMMA Position ==
  ASSUME NEW h \in CallSet, NEW r \in Seq(CallSet), prog = <<h>> \o r
  PROVE  Here /\ Head(prog) = h /\ Tail(prog) = r
  BY Cons DEF Here

LEMMA OpNames ==
  /\ Delete.op = "delete" /\ Read.op = "read"
  /\ \A t : Registry(t).op = "registry" /\ Registry(t).tier = t
  /\ \A n : Apply(n).op = "apply" /\ Apply(n).n = n
  /\ \A n : Create(n).op = "create" /\ Create(n).n = n
  /\ \A n : Scale(n).op = "scale" /\ Scale(n).n = n
  BY DEF Delete, Read, Registry, Apply, Create, Scale

LEMMA ExcusedGrows ==
  ASSUME NEW a, NEW f, NEW g, f \subseteq g, Excused(a, f)
  PROVE  Excused(a, g)
  BY DEF Excused

\* A call that is no read leaves the rows alone.
LEMMA RowKept ==
  ASSUME Head(prog).op # "read", Blocks \/ Done \/ Fails \/ Raises
  PROVE  row' = row
  BY DEF Blocks, Done, Fails, Raises, Report

\* A write keeps the cluster low where harm has no excuse.
LEMMA LowStep ==
  ASSUME IInv, Here, ~Skipped, Low, Head(prog).op \in Writing,
         Head(prog).op = "scale" => arm.path = "scale",
         TrueTier \/ arm.path = "scale",
         \E c \in {cluster, Effect(Head(prog), arm.gate)} : Reach(c),
         arm' = arm, failed \subseteq failed'
  PROVE  Low' /\ registry' = registry
  <1> DEFINE h == Head(prog)
  <1>1. h \in CallSet /\ arm.gate \in Gates /\ Safe(h, arm.gate) /\ ClusterOK
    BY GateSafe, Parts DEF IInv
  <1>2. h.n \in Nat /\ registry \in Tiers /\ replicas \in Nat
    BY <1>1, CallFields, TierType DEF ClusterOK
  <1>3. \/ Effect(h, arm.gate) = cluster
        \/ /\ Effect(h, arm.gate) = <<registry, h.n, arm.gate>>
           /\ h.op # "scale" => Admits(h.n)
    BY DEF Effect, Writing
  <1>4. registry' = registry /\ (replicas' = replicas \/ (replicas' = h.n /\ (h.op # "scale" => Admits(h.n))))
    <2>1. CASE Reach(cluster)
      BY <2>1 DEF Reach, cluster
    <2>2. CASE Reach(Effect(h, arm.gate))
      BY <1>3, <2>2 DEF Reach, cluster
    <2>. QED
      BY <2>1, <2>2
  <1>5. ASSUME ~Excused(arm, failed') PROVE replicas' <= TIER_CAPS["strict"]
    <2>1. ~Excused(arm, failed)
      BY <1>5, ExcusedGrows
    <2>2. replicas <= TIER_CAPS["strict"]
      BY <2>1 DEF Low
    <2>3. CASE arm.gate = "certified"
      BY <1>1, <1>4, <2>2, <2>3 DEF Safe
    <2>4. CASE arm.gate = "none"
      <3>1. arm.path # "scale"
        BY <2>1, <2>4 DEF Excused
      <3>2. registry = "strict"
        BY <2>1, <2>4, <3>1 DEF TrueTier
      <3>. QED
        BY <1>4, <2>2, <3>1, <3>2 DEF Admits
    <2>. QED
      BY <1>1, <2>3, <2>4 DEF Gates
  <1>. QED
    BY <1>4, <1>5 DEF Low

LEMMA DeleteStep ==
  ASSUME IInv, AtDelete, Blocks \/ Done \/ Fails \/ Raises
  PROVE  StageInv' /\ row' = row
  <1> DEFINE r == <<Registry(arm.tier)>> \o (Writes(arm) \o Ending(arm))
  <1>1. arm \in ArmSet
    BY DEF IInv, Shape
  <1>2. Delete \in CallSet /\ r \in Seq(CallSet)
    BY <1>1, CallTypes, WritesForm, Cons
  <1>3. Head(prog) = Delete /\ Tail(prog) = r
    BY <1>2, Position DEF AtDelete
  <1>4. Head(prog).op = "delete"
    BY <1>3, OpNames
  <1>5. Done \/ Fails
    BY <1>4 DEF Blocks, Raises, Skipped, Kubectl
  <1>6. prog' = r /\ arm' = arm
    BY <1>3, <1>5 DEF Done, Fails
  <1>7. CASE Done
    <2>1. replicas' = 0 /\ failed' = failed
      BY <1>4, <1>7 DEF Done, Effect, Reach
    <2>2. Low'
      BY <2>1, TierType DEF Low
    <2>. QED
      BY <1>4, <1>5, <1>6, <2>1, <2>2, RowKept DEF AtRegistry, StageInv
  <1>8. CASE Fails
    <2>1. "delete" \in failed'
      BY <1>4, <1>8 DEF Fails
    <2>2. Excused(arm', failed')
      BY <2>1 DEF Excused
    <2>. QED
      BY <1>4, <1>5, <1>6, <2>1, <2>2, RowKept DEF AtRegistry, StageInv, Low
  <1>. QED
    BY <1>5, <1>7, <1>8

\* Where the switch of the registry leads to.
LEMMA AtFirstWrite ==
  ASSUME arm \in ArmSet, prog = Writes(arm) \o Ending(arm),
         failed = {} => replicas = 0, Low, Fresh, TrueTier
  PROVE  AtRead \/ AtWrite \/ AtCreate
  <1>1. CASE arm.n = 0
    <2>1. Expected(arm) = 0
      BY <1>1, WritesForm DEF Expected
    <2>. QED
      BY <1>1, <2>1, WritesForm DEF AtRead
  <1>2. CASE arm.n # 0 /\ arm.path = "create"
    BY <1>2, WritesForm DEF AtWrite
  <1>3. CASE arm.path = "scale"
    BY <1>3, WritesForm DEF AtCreate
  <1>. QED
    BY <1>1, <1>2, <1>3, ArmFields

LEMMA AtFirstWriteNext ==
  /\ (arm \in ArmSet)' /\ (prog = Writes(arm) \o Ending(arm))'
  /\ (failed = {} => replicas = 0)' /\ Low' /\ Fresh' /\ TrueTier'
  => AtRead' \/ AtWrite' \/ AtCreate'
  BY AtFirstWrite, PTL

LEMMA RegistryStep ==
  ASSUME IInv, AtRegistry, Blocks \/ Done \/ Fails \/ Raises
  PROVE  StageInv' /\ row' = row
  <1> DEFINE r == Writes(arm) \o Ending(arm)
  <1>1. arm \in ArmSet
    BY DEF IInv, Shape
  <1>2. Registry(arm.tier) \in CallSet /\ r \in Seq(CallSet)
    BY <1>1, CallTypes, WritesForm
  <1>3. Head(prog) = Registry(arm.tier) /\ Tail(prog) = r
    BY <1>2, Position DEF AtRegistry
  <1>4. Head(prog).op = "registry" /\ Head(prog).tier = arm.tier
    BY <1>3, OpNames
  <1>5. Done \/ Fails
    BY <1>4 DEF Blocks, Raises, Skipped, Kubectl
  <1>6. prog' = r /\ arm' = arm
    BY <1>3, <1>5 DEF Done, Fails
  <1>7. replicas' = replicas
    BY <1>4, <1>5 DEF Done, Fails, Effect, Reach, cluster
  <1>8. failed \subseteq failed' /\ (failed' = {} => Done)
    BY <1>5 DEF Done, Fails
  <1>9. Done => registry' = arm.tier
    BY <1>4 DEF Done, Effect, Reach
  <1>10. (failed' = {} => replicas' = 0) /\ Fresh'
    BY <1>6, <1>7, <1>8, <1>9 DEF AtRegistry, Fresh
  <1>11. Low'
    BY <1>6, <1>7, <1>8, ExcusedGrows DEF AtRegistry, Low
  <1>12. TrueTier'
    <2> SUFFICES ASSUME ~Excused(arm, failed'), arm.gate = "none" PROVE registry' = "strict"
      BY <1>6 DEF TrueTier
    <2>1. arm.tier = "strict"
      BY <1>1, ArmFields, TierType DEF Excused
    <2>2. ~Fails
      BY <1>4 DEF Fails, Excused
    <2>. QED
      BY <1>5, <1>9, <2>1, <2>2
  <1>13. AtRead' \/ AtWrite' \/ AtCreate'
    BY <1>1, <1>6, <1>10, <1>11, <1>12, AtFirstWriteNext
  <1>. QED
    BY <1>4, <1>13, RowKept DEF StageInv

\* A write that is skipped, done or lost in an arm whose next stage is r; one
\* that raises goes to the end or, in run_arm, to the read.
LEMMA WriteMoves ==
  ASSUME IInv, NEW h \in CallSet, NEW r \in Seq(CallSet), prog = <<h>> \o r,
         h.op \in Writing, Blocks \/ Done \/ Fails \/ Raises
  PROVE  /\ Head(prog) = h /\ Here /\ arm' = arm /\ failed \subseteq failed' /\ row' = row
         /\ \/ Blocks /\ Blocked(h) /\ UNCHANGED cluster /\ failed' = failed /\ prog' = r
            \/ Done /\ ~Blocked(h) /\ Reach(Effect(h, arm.gate)) /\ failed' = failed /\ prog' = r
            \/ Fails /\ ~Blocked(h) /\ failed' # {} /\ prog' = r /\ h.op = "apply"
            \/ Raises /\ ~Blocked(h) /\ failed' # {} /\ (prog' = <<>> \/ (arm.kind = "mediation" /\ prog' = <<Read, Delete>>))
            \/ /\ Raises /\ ~Blocked(h) /\ h.op = "create" /\ ~Admits(h.n) /\ UNCHANGED cluster /\ failed' = failed
               /\ prog' = <<>> \/ (arm.kind = "mediation" /\ prog' = <<Read, Delete>>)
         /\ ~Blocks => ~Skipped /\ \E c \in {cluster, Effect(h, arm.gate)} : Reach(c)
  <1>1. Head(prog) = h /\ Tail(prog) = r /\ Here
    BY Position
  <1>2. Skipped <=> Blocked(h)
    BY <1>1 DEF Skipped, Writing
  <1>3. row' = row
    BY <1>1, RowKept DEF Writing
  <1>4. UNCHANGED cluster => Reach(cluster)
    BY DEF cluster, Reach
  <1>5. CASE Blocks
    BY <1>1, <1>2, <1>3, <1>5 DEF Blocks
  <1>6. CASE Done /\ ~Blocks
    BY <1>1, <1>2, <1>3, <1>6 DEF Done
  <1>7. CASE Fails /\ ~Blocks
    BY <1>1, <1>2, <1>3, <1>7 DEF Fails, Kubectl, Writing
  <1>8. CASE Raises /\ ~Blocks
    <2>1. prog' = <<>> \/ (arm.kind = "mediation" /\ prog' = <<Read, Delete>>)
      BY <1>8 DEF Raises
    <2>2. arm' = arm /\ ~Skipped
      BY <1>8 DEF Raises
    <2>3. \/ h.op = "create" /\ ~Admits(h.n) /\ UNCHANGED <<cluster, failed>>
          \/ failed' = failed \cup {h.op} /\ \E c \in {cluster, Effect(h, arm.gate)} : Reach(c)
      BY <1>1, <1>8 DEF Raises
    <2>. QED
      BY <1>1, <1>2, <1>3, <1>4, <1>8, <2>1, <2>2, <2>3
  <1>. QED
    BY <1>5, <1>6, <1>7, <1>8

LEMMA MediationEnding == arm.kind = "mediation" => Ending(arm) = <<Read, Delete>>
  BY DEF Ending

\* What the gate has stopped is what Expected says it stops.
LEMMA BlockedFails ==
  ASSUME arm \in ArmSet, NEW h
  PROVE  Blocked(h) <=> ~Passes(arm, h.n)
  BY ArmFields DEF Blocked, certified_gate_allows, Passes, Gates

LEMMA ExpectedForm ==
  ASSUME NEW a \in ArmSet
  PROVE  /\ a.path = "create" => Expected(a) = Created(a, a.n)
         /\ a.path = "scale" =>
              Expected(a) = IF Created(a, SAFE_REPLICAS) # 0 /\ Passes(a, a.n) THEN a.n
                            ELSE Created(a, SAFE_REPLICAS)
  BY ArmFields DEF Expected, Created, Passes

LEMMA WriteStep ==
  ASSUME IInv, AtWrite, Blocks \/ Done \/ Fails \/ Raises
  PROVE  StageInv' /\ row' = row
  <1> DEFINE h == Write(arm)
  <1>1. arm \in ArmSet
    BY DEF IInv, Shape
  <1>2. h \in CallSet /\ Ending(arm) \in Seq(CallSet) /\ prog = <<h>> \o Ending(arm)
    BY <1>1, CallTypes, EndingForm DEF AtWrite
  <1>3. h.op \in {"apply", "create"} /\ h.n = arm.n /\ h.op \in Writing
    BY OpNames DEF Write, Writing
  <1> HIDE DEF h
  <1>4. Head(prog) = h /\ Here /\ arm' = arm /\ failed \subseteq failed' /\ row' = row
    BY <1>2, <1>3, WriteMoves
  <1>5. prog' = <<>> \/ prog' = Ending(arm)
    BY <1>2, <1>3, WriteMoves, MediationEnding
  <1>6. Low'
    <2>1. CASE Blocks
      BY <1>4, <2>1 DEF Blocks, AtWrite, Low, cluster
    <2>2. CASE ~Blocks
      <3>1. ~Skipped /\ \E c \in {cluster, Effect(Head(prog), arm.gate)} : Reach(c)
        BY <1>2, <1>3, <1>4, <2>2, WriteMoves
      <3>. QED
        BY <1>3, <1>4, <3>1, LowStep DEF AtWrite
    <2>. QED
      BY <2>1, <2>2
  <1>7. ASSUME failed' = {} PROVE replicas' = Expected(arm)
    <2>1. failed = {} /\ replicas = 0 /\ registry = arm.tier /\ arm.path = "create" /\ arm.n # 0
      BY <1>4, <1>7 DEF AtWrite, Fresh
    <2>2. Expected(arm) = Created(arm, arm.n)
      BY <1>1, <2>1, ExpectedForm
    <2>3. CASE Blocked(h) /\ UNCHANGED cluster
      BY <1>1, <1>3, <2>1, <2>2, <2>3, BlockedFails DEF Created, cluster
    <2>4. CASE ~Blocked(h) /\ Reach(Effect(h, arm.gate))
      <3>1. Passes(arm, arm.n)
        BY <1>1, <1>3, <2>4, BlockedFails
      <3>2. replicas # h.n
        BY <1>3, <2>1
      <3>3. Effect(h, arm.gate) = IF Admits(arm.n) THEN <<registry, arm.n, arm.gate>> ELSE cluster
        BY <1>3, <3>2 DEF Effect
      <3>. QED
        BY <2>1, <2>2, <2>4, <3>1, <3>3 DEF Created, Admits, Reach, cluster
    <2>5. CASE ~Admits(h.n) /\ UNCHANGED cluster
      BY <1>3, <2>1, <2>2, <2>5 DEF Created, Admits, cluster
    <2>. QED
      BY <1>2, <1>3, <1>7, <2>3, <2>4, <2>5, WriteMoves
  <1>8. CASE prog' = <<>>
    BY <1>4, <1>8 DEF StageInv, AtEnd
  <1>9. CASE prog' = Ending(arm)
    BY <1>4, <1>6, <1>7, <1>9 DEF StageInv, AtRead
  <1>. QED
    BY <1>5, <1>8, <1>9

LEMMA CreateStep ==
  ASSUME IInv, AtCreate, Blocks \/ Done \/ Fails \/ Raises
  PROVE  StageInv' /\ row' = row
  <1> DEFINE h == Create(SAFE_REPLICAS)
             r == <<Scale(arm.n)>> \o Ending(arm)
  <1>1. arm \in ArmSet /\ arm.path = "scale" /\ arm.tier = "strict"
    BY ScaleArm DEF IInv, Shape, AtCreate
  <1>2. h \in CallSet /\ r \in Seq(CallSet) /\ prog = <<h>> \o r
    BY <1>1, CallTypes, EndingForm, Cons DEF AtCreate
  <1>3. h.op = "create" /\ h.n = SAFE_REPLICAS /\ h.op \in Writing
    BY OpNames DEF Writing
  <1> HIDE DEF h, r
  <1>4. Head(prog) = h /\ Here /\ arm' = arm /\ failed \subseteq failed' /\ row' = row
    BY <1>2, <1>3, WriteMoves
  <1>5. prog' = <<>> \/ prog' = Ending(arm) \/ prog' = r
    BY <1>2, <1>3, WriteMoves, MediationEnding
  <1>6. Low'
    <2>1. CASE Blocks
      BY <1>4, <2>1 DEF Blocks, AtCreate, Low, cluster
    <2>2. CASE ~Blocks
      <3>1. ~Skipped /\ \E c \in {cluster, Effect(Head(prog), arm.gate)} : Reach(c)
        BY <1>2, <1>3, <1>4, <2>2, WriteMoves
      <3>. QED
        BY <1>1, <1>3, <1>4, <3>1, LowStep DEF AtCreate
    <2>. QED
      BY <2>1, <2>2
  <1>7. ASSUME failed' = {}
        PROVE  prog' = r /\ replicas' = Created(arm, SAFE_REPLICAS)
    <2>1. failed = {} /\ replicas = 0 /\ registry = "strict"
      BY <1>1, <1>4, <1>7 DEF AtCreate, Fresh
    <2>2. Admits(h.n) /\ SAFE_REPLICAS <= TIER_CAPS[arm.tier]
      BY <1>1, <1>3, <2>1, TierType DEF Admits, SAFE_REPLICAS
    <2>3. CASE Blocked(h) /\ UNCHANGED cluster /\ prog' = r
      BY <1>1, <1>3, <2>1, <2>3, BlockedFails DEF Created, cluster
    <2>4. CASE ~Blocked(h) /\ Reach(Effect(h, arm.gate)) /\ prog' = r
      <3>1. Passes(arm, SAFE_REPLICAS)
        BY <1>1, <1>3, <2>4, BlockedFails
      <3>2. Effect(h, arm.gate) = <<registry, SAFE_REPLICAS, arm.gate>>
        BY <1>3, <2>2 DEF Effect
      <3>. QED
        BY <2>2, <2>4, <3>1, <3>2 DEF Created, Reach
    <2>. QED
      BY <1>2, <1>3, <1>7, <2>2, <2>3, <2>4, WriteMoves
  <1>8. CASE prog' = <<>>
    BY <1>4, <1>8 DEF StageInv, AtEnd
  <1>9. CASE prog' = Ending(arm) /\ failed' # {}
    BY <1>4, <1>6, <1>9 DEF StageInv, AtRead
  <1>10. CASE prog' = r
    BY <1>1, <1>4, <1>6, <1>7, <1>10 DEF StageInv, AtScale, r
  <1>. QED
    BY <1>5, <1>7, <1>8, <1>9, <1>10

LEMMA ScaleStep ==
  ASSUME IInv, AtScale, Blocks \/ Done \/ Fails \/ Raises
  PROVE  StageInv' /\ row' = row
  <1> DEFINE h == Scale(arm.n)
  <1>1. arm \in ArmSet /\ arm.path = "scale" /\ arm.n = 6
    BY ScaleArm DEF IInv, Shape, AtScale
  <1>2. h \in CallSet /\ Ending(arm) \in Seq(CallSet) /\ prog = <<h>> \o Ending(arm)
    BY <1>1, CallTypes, EndingForm DEF AtScale
  <1>3. h.op = "scale" /\ h.n = arm.n /\ h.op \in Writing
    BY OpNames DEF Writing
  <1> HIDE DEF h
  <1>4. Head(prog) = h /\ Here /\ arm' = arm /\ failed \subseteq failed' /\ row' = row
    BY <1>2, <1>3, WriteMoves
  <1>5. prog' = <<>> \/ prog' = Ending(arm)
    BY <1>2, <1>3, WriteMoves, MediationEnding
  <1>6. Low'
    <2>1. CASE Blocks
      BY <1>4, <2>1 DEF Blocks, AtScale, Low, cluster
    <2>2. CASE ~Blocks
      <3>1. ~Skipped /\ \E c \in {cluster, Effect(Head(prog), arm.gate)} : Reach(c)
        BY <1>2, <1>3, <1>4, <2>2, WriteMoves
      <3>. QED
        BY <1>1, <1>3, <1>4, <3>1, LowStep DEF AtScale
    <2>. QED
      BY <2>1, <2>2
  <1>7. ASSUME failed' = {} PROVE replicas' = Expected(arm)
    <2>1. failed = {} /\ replicas = Created(arm, SAFE_REPLICAS)
      BY <1>4, <1>7 DEF AtScale
    <2>2. Expected(arm) = IF replicas # 0 /\ Passes(arm, arm.n) THEN arm.n ELSE replicas
      BY <1>1, <2>1, ExpectedForm
    <2>3. CASE Blocked(h) /\ UNCHANGED cluster
      BY <1>1, <1>3, <2>2, <2>3, BlockedFails DEF cluster
    <2>4. CASE ~Blocked(h) /\ Reach(Effect(h, arm.gate))
      <3>1. Passes(arm, arm.n)
        BY <1>1, <1>3, <2>4, BlockedFails
      <3>2. Effect(h, arm.gate) = IF replicas = 0 THEN cluster ELSE <<registry, arm.n, arm.gate>>
        BY <1>3 DEF Effect
      <3>. QED
        BY <2>2, <2>4, <3>1, <3>2 DEF Reach, cluster
    <2>. QED
      BY <1>2, <1>3, <1>7, <2>3, <2>4, WriteMoves
  <1>8. CASE prog' = <<>>
    BY <1>4, <1>8 DEF StageInv, AtEnd
  <1>9. CASE prog' = Ending(arm)
    BY <1>4, <1>6, <1>7, <1>9 DEF StageInv, AtRead
  <1>. QED
    BY <1>5, <1>8, <1>9

\* The read writes a row about what it finds.
LEMMA ReadStep ==
  ASSUME IInv, AtRead, Blocks \/ Done \/ Fails \/ Raises, RowsExact, HarmNeedsFault
  PROVE  StageInv' /\ RowsExact' /\ HarmNeedsFault'
  <1>1. arm \in ArmSet
    BY DEF IInv, Shape
  <1>2. Here /\ Head(prog) = Read /\ Tail(prog) \in {<<>>, <<Delete>>, <<Registry("lax")>>}
    BY <1>1, EndingForm DEF AtRead, Here
  <1>3. Head(prog).op = "read"
    BY <1>2, OpNames
  <1>4. Done \/ Fails
    BY <1>3 DEF Blocks, Raises, Skipped, Kubectl
  <1>5. prog' = Tail(prog)
    BY <1>4 DEF Done, Fails
  <1>6. StageInv'
    BY <1>2, <1>5 DEF StageInv, AtEnd
  <1>7. CASE Done
    <2>1. row' = [arm |-> arm, committed |-> replicas, failed |-> failed]
      BY <1>3, <1>7 DEF Done, Report
    <2>2. RowsExact'
      BY <2>1 DEF AtRead, RowsExact, Expected
    <2>3. HarmNeedsFault'
      BY <1>1, <2>1, TierType, ArmFields DEF AtRead, Low, Excused, HarmNeedsFault, IInv, Shape, TypeOK
    <2>. QED
      BY <1>6, <2>2, <2>3
  <1>8. CASE Fails
    <2>1. row' = [arm |-> arm, committed |-> 0, failed |-> failed'] /\ failed' # {}
      BY <1>3, <1>8 DEF Fails, Report
    <2>2. RowsExact'
      BY <2>1 DEF RowsExact
    <2>3. HarmNeedsFault'
      BY <2>1, TierType DEF HarmNeedsFault
    <2>. QED
      BY <1>6, <2>2, <2>3
  <1>. QED
    BY <1>4, <1>7, <1>8

LEMMA EndStep ==
  ASSUME AtEnd, Blocks \/ Done \/ Fails \/ Raises
  PROVE  StageInv' /\ row' = row
  <1>1. Here
    BY DEF Blocks, Done, Fails, Raises
  <1>2. prog = <<Delete>> \/ prog = <<Registry("lax")>>
    BY <1>1 DEF AtEnd, Here
  <1>3. Head(prog).op \in {"delete", "registry"} /\ Tail(prog) = <<>>
    <2>1. \A c : Head(<<c>>) = c /\ Tail(<<c>>) = <<>>
      OBVIOUS
    <2>2. CASE prog = <<Delete>>
      BY <2>1, <2>2, OpNames
    <2>3. CASE prog = <<Registry("lax")>>
      BY <2>1, <2>3, OpNames
    <2>. QED
      BY <1>2, <2>2, <2>3
  <1>4. Done \/ Fails
    BY <1>3 DEF Blocks, Raises, Skipped, Kubectl
  <1>5. prog' = <<>>
    BY <1>3, <1>4 DEF Done, Fails
  <1>. QED
    BY <1>3, <1>5, RowKept DEF StageInv, AtEnd

-----------------------------------------------------------------------------
LEMMA RowInit == Init => StageInv /\ RowsExact /\ HarmNeedsFault
  <1> SUFFICES ASSUME Init PROVE StageInv /\ RowsExact /\ HarmNeedsFault
    OBVIOUS
  <1>1. StageInv
    BY DEF Init, StageInv, AtEnd
  <1>2. cleanup.gate = "none" /\ cleanup.tier = "lax" /\ cleanup.n = 0 /\ cleanup.path = "create"
    BY DEF cleanup, Arm
  <1>3. RowsExact
    BY <1>2 DEF Init, RowsExact, NoRow, NoArm, Expected
  <1>4. HarmNeedsFault
    BY TierType DEF Init, HarmNeedsFault, NoRow
  <1>. QED
    BY <1>1, <1>3, <1>4

LEMMA RowNext == IInv /\ StageInv /\ RowsExact /\ HarmNeedsFault /\ [Next]_vars
                   => StageInv' /\ RowsExact' /\ HarmNeedsFault'
  <1> SUFFICES ASSUME IInv, StageInv, RowsExact, HarmNeedsFault, [Next]_vars
               PROVE  StageInv' /\ RowsExact' /\ HarmNeedsFault'
    OBVIOUS
  <1>1. row' = row => RowsExact' /\ HarmNeedsFault'
    BY DEF RowsExact, HarmNeedsFault, Expected
  <1>2. CASE Blocks \/ Done \/ Fails \/ Raises
    BY <1>1, <1>2, DeleteStep, RegistryStep, WriteStep, CreateStep, ScaleStep, ReadStep, EndStep DEF StageInv
  <1>3. CASE StartDriver
    <2>1. prog' = <<>> /\ row' = row
      BY <1>3 DEF StartDriver
    <2>. QED
      BY <1>1, <2>1 DEF StageInv, AtEnd
  <1>4. CASE StartArm
    <2>1. arm' \in ArmSet /\ prog' = Calls(arm') /\ row' = row
      BY <1>4 DEF StartArm, IInv, Shape
    <2>2. AtDelete' \/ AtEnd'
      BY <2>1, CallsForm DEF AtDelete, AtEnd
    <2>. QED
      BY <1>1, <2>1, <2>2 DEF StageInv
  <1>5. CASE TimesOut
    <2>1. prog' = <<>> /\ row' = row
      BY <1>5 DEF TimesOut
    <2>. QED
      BY <1>1, <2>1 DEF StageInv, AtEnd
  <1>6. ASSUME NEW l \in late, Lands(l)
        PROVE  StageInv' /\ RowsExact' /\ HarmNeedsFault'
    <2>1. UNCHANGED <<prog, arm, row>> /\ failed' # {} /\ "late" \in failed'
      BY <1>6 DEF Lands
    <2>2. Excused(arm', failed')
      BY <2>1 DEF Excused
    <2>3. Low' /\ Fresh' /\ TrueTier'
      BY <2>1, <2>2 DEF Low, Fresh, TrueTier
    <2>4. StageInv'
      BY <2>1, <2>3 DEF StageInv, AtDelete, AtRegistry, AtWrite, AtCreate, AtScale, AtRead, AtEnd
    <2>. QED
      BY <1>1, <2>1, <2>4
  <1>7. CASE UNCHANGED vars
    <2>1. UNCHANGED <<registry, replicas, prog, arm, failed, row>>
      BY <1>7 DEF vars, cluster
    <2>2. StageInv'
      BY <2>1 DEF StageInv, AtDelete, AtRegistry, AtWrite, AtCreate, AtScale, AtRead, AtEnd,
                  Low, Fresh, TrueTier, Expected
    <2>. QED
      BY <1>1, <2>1, <2>2
  <1>. QED
    BY <1>2, <1>3, <1>4, <1>5, <1>6, <1>7 DEF Next

LEMMA RowInvariance == Spec => [](StageInv /\ RowsExact /\ HarmNeedsFault)
  <1>1. Init => StageInv /\ RowsExact /\ HarmNeedsFault
    BY RowInit
  <1>2. IInv /\ (StageInv /\ RowsExact /\ HarmNeedsFault) /\ [Next]_vars
          => (StageInv /\ RowsExact /\ HarmNeedsFault)'
    BY RowNext
  <1>. QED
    BY <1>1, <1>2, Invariance, PTL DEF Spec

(* The side effect in a row is the arm's own: when none of its calls failed *)
(* and nothing landed late, run_deployed_admission, run_certified_gate,     *)
(* run_oracle, episode and run_arm report what they would find alone.       *)
THEOREM RowsTheirOwn == Spec => []RowsExact
  BY RowInvariance, PTL

(* A row above the true tier's cap comes from an arm built to leak, from a  *)
(* failed delete or a straggler, or from an ungated arm whose set_registry  *)
(* failed.                                                                  *)
THEOREM HarmExplained == Spec => []HarmNeedsFault
  BY RowInvariance, PTL

(* The property the run checks: run_arm's gated arms do no harm themselves. *)
THEOREM GatedHarm == Spec => []GatedHarmExplained
  BY HarmExplained, GatedWritesSafe, PTL DEF GatedHarmExplained
=============================================================================
