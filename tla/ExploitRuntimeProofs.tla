------------------------ MODULE ExploitRuntimeProofs ------------------------
(***************************************************************************)
(* The end-to-end claim, for every scalar rule table with a neutral field, *)
(* every pool, attack, LLM and number of episodes: behind the joint        *)
(* certificate or the robust oracle nothing unsafe is committed.  Then,    *)
(* from the same lemmas about the rules, that the sweep of the discrete    *)
(* budget (DSweep) reports sound certificates at every d.                  *)
(***************************************************************************)
EXTENDS ExploitRuntime, DSweep, RuleOracleProofs

-----------------------------------------------------------------------------
(* Nominal and realized returns.                                           *)

LEMMA NominalTyped ==
  ASSUME NEW z \in Pool
  PROVE  /\ z \in Returns /\ z.domain \in Domains /\ z.x2 \in Int \X Int
         /\ StateOf(z) \in DiscreteStates(z.domain)
         /\ HasRule(z.domain, StateOf(z), Privileged)
BY PoolAssumption DEF Returns

LEMMA BallStateTyped ==
  ASSUME NEW z \in Pool, NEW s \in BallStates(z, Privileged)
  PROVE  /\ s \in DiscreteStates(z.domain) /\ HasRule(z.domain, s, Privileged)
         /\ GetRule(z.domain, s, Privileged).family = "scalar_threshold"
         /\ GetRule(z.domain, s, Privileged).field \in {1, 2}
<1>1. s \in DiscreteStates(z.domain) /\ HasRule(z.domain, s, Privileged) /\ z.domain \in Domains
  BY NominalTyped, BackedSwapsTyped DEF BallStates
<1>2. PICK i \in RuleIds(z.domain) : GetRule(z.domain, s, Privileged) = Table[z.domain].rules[i]
  BY <1>1, GetRuleInTable
<1>3. Table[z.domain].rules[i].family = "scalar_threshold"
  BY <1>1, <1>2, PoolAssumption
<1>4. Table[z.domain].rules[i].field \in {1, 2}
  BY <1>1, <1>2, <1>3, RuleAssumption
<1>. QED  BY <1>1, <1>2, <1>3, <1>4

LEMMA MoveTyped ==
  ASSUME NEW x \in Int \X Int, NEW f \in {1, 2}, NEW delta \in Int
  PROVE  Move(x, f, delta) \in Int \X Int
BY DEF Move

\* The state and the numeric part of a realized return are what it was built from.
LEMMA AtTyped ==
  ASSUME NEW z \in Pool, NEW s \in BallStates(z, Privileged), NEW x \in Int \X Int
  PROVE  /\ At(z, s, x) \in Returns /\ StateOf(At(z, s, x)) = s
         /\ At(z, s, x).domain = z.domain /\ At(z, s, x).x2 = x
<1>1. s \in DiscreteStates(z.domain) /\ z.domain \in Domains
  BY NominalTyped, BallStateTyped
<1>2. /\ s = [tool |-> s.tool, x1 |-> s.x1] /\ s.tool \in Tools(z.domain)
      /\ s.x1 \in Contexts(z.domain)
  BY <1>1 DEF DiscreteStates
<1>. QED  BY <1>1, <1>2 DEF At, StateOf, Returns

LEMMA MarginInt ==
  ASSUME NEW z \in Pool, NEW s \in BallStates(z, Privileged), NEW x \in Int \X Int
  PROVE  Margin(z.domain, s, Privileged, x) \in Int
BY NominalTyped, BallStateTyped, MarginAtState

\* A C return is a joint gap and nothing else.
LEMMA CategoryC ==
  ASSUME NEW z, Category(z, Privileged) = "C"
  PROVE  /\ Safe(z, Privileged) /\ JointReachableUnsafe(z, Privileged)
         /\ ~DiscreteReachableUnsafe(z, Privileged) /\ ~ContinuousReachableUnsafe(z, Privileged)
BY DEF Category

LEMMA AbsTyped ==
  ASSUME NEW n \in Int
  PROVE  Abs(n) \in Nat /\ (n < 0 => Abs(n) = -n)
BY DEF Abs

-----------------------------------------------------------------------------
(* realize_c_witness.                                                      *)

\* The push of a joint witness crosses its boundary, by PushOver, and is at most
\* Eps + PushOver long.
LEMMA WitnessPush ==
  ASSUME NEW z \in Pool, Category(z, Privileged) = "C", NEW s \in JointWitnesses(z, Privileged)
  PROVE  LET r    == GetRule(z.domain, s, Privileged)
             m    == Margin(z.domain, s, Privileged, z.x2)
             push == Abs(m) + PushOver
             x    == Move(z.x2, r.field, IF r.direction = ">=" THEN push ELSE -push)
         IN  /\ s \in BackedSwaps(z, Privileged)
             /\ push \in 0..(Eps + PushOver)
             /\ x \in Int \X Int
             /\ ~ (Margin(z.domain, s, Privileged, x) < 0)
<1>. DEFINE r    == GetRule(z.domain, s, Privileged)
            m    == Margin(z.domain, s, Privileged, z.x2)
            push == Abs(m) + PushOver
            step == IF r.direction = ">=" THEN push ELSE -push
            x    == Move(z.x2, r.field, step)
            c    == Offset(r, s.x1)
<1>1. /\ z.domain \in Domains /\ z.x2 \in Int \X Int
      /\ s \in BackedSwaps(z, Privileged) /\ s \in BallStates(z, Privileged)
      /\ \A t \in BackedSwaps(z, Privileged) : After(z, t, Privileged) <= After(z, s, Privileged)
  BY NominalTyped DEF JointWitnesses, BallStates
<1>2. s \in DiscreteStates(z.domain) /\ r.family = "scalar_threshold" /\ r.field \in {1, 2}
  BY <1>1, BallStateTyped
<1>3. Eps \in Nat /\ PushOver \in Nat /\ PushOver > 0 /\ Resolution = 1
  BY BudgetAssumption, LoopAssumption, PoolAssumption
<1>4. m \in Int /\ Gain(z.domain, s, Privileged) = Eps
  BY <1>1, <1>2, <1>3, MarginInt DEF Gain, RuleGain
<1>5. m < 0 /\ m + Eps >= 0
  <2>1. ~ (m >= 0)
    BY <1>1, CategoryC DEF DiscreteReachableUnsafe
  <2>2. PICK t \in BackedSwaps(z, Privileged) : After(z, t, Privileged) >= 0
    BY CategoryC DEF JointReachableUnsafe
  <2>3. After(z, t, Privileged) \in Int
    <3>1. t \in BallStates(z, Privileged)
      BY DEF BallStates
    <3>. QED  BY <1>1, <3>1, BallStateTyped, MarginAtState DEF After
  <2>4. After(z, s, Privileged) = m + Eps
    BY <1>4 DEF After
  <2>5. After(z, t, Privileged) <= m + Eps
    BY <1>1, <2>4
  <2>. QED  BY <1>3, <1>4, <2>1, <2>2, <2>3, <2>5
<1>6. push \in 0..(Eps + PushOver) /\ push \in Int /\ m + push > 0
  BY <1>3, <1>4, <1>5, AbsTyped
<1>7. step \in Int
  BY <1>6
<1>8. x \in Int \X Int /\ x[r.field] = z.x2[r.field] + step /\ z.x2[r.field] \in Int
  <2>. HIDE DEF step
  <2>. QED  BY <1>1, <1>2, <1>7, MoveTyped DEF Move
<1>9. PICK i \in RuleIds(z.domain) : r = Table[z.domain].rules[i]
  BY <1>1, <1>2, BallStateTyped, GetRuleInTable
<1>10. c \in Int /\ r.threshold \in Int
  BY <1>1, <1>2, <1>9, OffsetAssumption, RuleAssumption DEF DiscreteStates
<1>11. Margin(z.domain, s, Privileged, x) = m + push
  <2>1. m = IF r.direction = ">=" THEN z.x2[r.field] - (r.threshold + c)
                                 ELSE -(z.x2[r.field] - (r.threshold + c))
    BY <1>2, <1>3, <1>8 DEF Margin, RuleMargin, MarginWith
  <2>2. Margin(z.domain, s, Privileged, x)
          = IF r.direction = ">=" THEN x[r.field] - (r.threshold + c)
                                  ELSE -(x[r.field] - (r.threshold + c))
    <3>1. x[r.field] \in Int
      BY <1>7, <1>8
    <3>. HIDE DEF x
    <3>. QED  BY <1>2, <1>3, <3>1 DEF Margin, RuleMargin, MarginWith
  <2>. HIDE DEF x, c, m, push
  <2>. QED  BY <1>6, <1>8, <1>10, <2>1, <2>2
<1>12. ~ (Margin(z.domain, s, Privileged, x) < 0)
  <2>. HIDE DEF x, m, push
  <2>. QED  BY <1>4, <1>6, <1>11
<1>. QED  BY <1>1, <1>6, <1>8, <1>12

-----------------------------------------------------------------------------
(* Where the adversary can go.                                             *)

Pushed(z, s) ==
  LET r    == GetRule(z.domain, s, Privileged)
      push == Abs(Margin(z.domain, s, Privileged, z.x2)) + PushOver
  IN  Move(z.x2, r.field, IF r.direction = ">=" THEN push ELSE -push)

\* A realized return is the nominal one, a pushed joint witness of a C return,
\* or a point on an axis of the budget.
LEMMA RealizedWhere ==
  ASSUME NEW att \in Attacks, NEW e \in EpisodesOf(att)
  PROVE  /\ e.nominal \in Pool
         /\ e = [nominal |-> e.nominal, realized |-> e.realized]
         /\ \/ e.realized = e.nominal /\ att # "c_witness"
            \/ /\ att = "c_witness" /\ Category(e.nominal, Privileged) = "C"
               /\ \E s \in JointWitnesses(e.nominal, Privileged) :
                    e.realized = At(e.nominal, s, Pushed(e.nominal, s))
            \/ /\ att # "c_witness"
               /\ \E s \in BallStates(e.nominal, Privileged), f \in {1, 2}, delta \in (-Eps)..Eps :
                    e.realized = At(e.nominal, s, Move(e.nominal.x2, f, delta))
<1>1. PICK z \in Drawn(att) : \E y \in Realize(att, z) : e = [nominal |-> z, realized |-> y]
  BY DEF EpisodesOf
<1>. DEFINE y == e.realized
<1>2. z \in Pool /\ e.nominal = z /\ y \in Realize(att, z) /\ e = [nominal |-> z, realized |-> y]
  BY <1>1 DEF Drawn
<1>3. CASE att = "clean"
  BY <1>2, <1>3 DEF Realize
<1>4. CASE att = "c_witness"
  <2>1. y \in RealizeCWitness(z)
    BY <1>2, <1>4 DEF Realize
  <2>2. Category(z, Privileged) = "C"
    BY <2>1 DEF RealizeCWitness
  <2>3. \E s \in JointWitnesses(z, Privileged) : y = At(z, s, Pushed(z, s))
    BY <2>1, <2>2 DEF RealizeCWitness, Pushed
  <2>. QED  BY <1>2, <1>4, <2>2, <2>3
<1>5. CASE att = "mixed"
  <2>1. y \in RealizeMixed(z)
    BY <1>2, <1>5 DEF Realize
  <2>2. CASE y = z  BY <1>2, <1>5, <2>2
  <2>3. CASE y \in UnsafeOnAxes(z)
    <3>1. PICK s \in BallStates(z, Privileged), f \in {1, 2}, delta \in Radii \cup {-r : r \in Radii} :
            y = At(z, s, Move(z.x2, f, delta))
      BY <2>3 DEF UnsafeOnAxes
    <3>2. delta \in (-Eps)..Eps
      <4>1. Eps \in Nat /\ \A r \in Radii : r \in 0..Eps
        BY LoopAssumption, BudgetAssumption
      <4>2. CASE delta \in Radii
        BY <4>1, <4>2
      <4>3. CASE delta \in {-r : r \in Radii}
        <5>1. PICK r \in Radii : delta = -r
          BY <4>3
        <5>. QED  BY <4>1, <5>1
      <4>. QED  BY <4>2, <4>3
    <3>. QED  BY <1>2, <1>5, <3>1, <3>2
  <2>. QED  BY <2>1, <2>2, <2>3 DEF RealizeMixed
<1>. QED  BY <1>3, <1>4, <1>5 DEF Attacks

LEMMA EpisodeTyped ==
  ASSUME NEW att \in Attacks, NEW e \in EpisodesOf(att)
  PROVE  e \in [nominal : Returns, realized : Returns]
<1>. DEFINE z == e.nominal
<1>1. z \in Pool /\ z \in Returns /\ z.x2 \in Int \X Int
  BY RealizedWhere, NominalTyped
<1>2. ASSUME NEW s \in JointWitnesses(z, Privileged), Category(z, Privileged) = "C"
      PROVE  At(z, s, Pushed(z, s)) \in Returns
  <2>1. s \in BallStates(z, Privileged)
    BY <1>1, <1>2, WitnessPush DEF BallStates
  <2>2. Pushed(z, s) \in Int \X Int
    BY <1>1, <1>2, WitnessPush DEF Pushed
  <2>. QED  BY <1>1, <2>1, <2>2, AtTyped
<1>3. ASSUME NEW s \in BallStates(z, Privileged), NEW f \in {1, 2}, NEW delta \in (-Eps)..Eps
      PROVE  At(z, s, Move(z.x2, f, delta)) \in Returns
  <2>1. Move(z.x2, f, delta) \in Int \X Int
    <3>1. delta \in Int
      BY BudgetAssumption
    <3>. HIDE DEF z
    <3>. QED  BY <1>1, <3>1, MoveTyped
  <2>. QED  BY <1>1, <2>1, AtTyped
<1>4. e.realized \in Returns
  BY <1>1, <1>2, <1>3, RealizedWhere
<1>5. e = [nominal |-> e.nominal, realized |-> e.realized]
  BY RealizedWhere
<1>. QED  BY <1>1, <1>4, <1>5

\* A point lies in its own ball, and eps further along the first field too.
LEMMA ProbeInBall ==
  ASSUME NEW x \in Int \X Int
  PROVE  /\ x \in NumericBall(x) /\ PlusEps(x) \in NumericBall(x)
         /\ PlusEps(x) \in Int \X Int
         /\ \A y \in NumericBall(x) : y[1] \in Int /\ y[2] \in Int /\ y[1] <= PlusEps(x)[1]
<1>1. Eps \in Nat /\ x[1] \in Int /\ x[2] \in Int /\ x = <<x[1], x[2]>>
  BY BudgetAssumption
<1>2. PlusEps(x) = <<x[1] + Eps, x[2]>> /\ PlusEps(x)[1] = x[1] + Eps /\ PlusEps(x)[2] = x[2]
  BY DEF PlusEps
<1>3. (x[1] + Eps) - x[1] = Eps /\ x[1] - x[1] = 0 /\ x[2] - x[2] = 0
  BY <1>1
<1>4. Eps * Eps + 0 * 0 <= Eps * Eps /\ 0 * 0 + 0 * 0 <= Eps * Eps
  BY <1>1
<1>5. Near(x, x) /\ Near(x, PlusEps(x))
  BY <1>2, <1>3, <1>4 DEF Near
<1>6. /\ x[1] \in (x[1] - Eps)..(x[1] + Eps) /\ x[2] \in (x[2] - Eps)..(x[2] + Eps)
      /\ x[1] + Eps \in (x[1] - Eps)..(x[1] + Eps)
  BY <1>1
<1>7. /\ x \in ((x[1] - Eps)..(x[1] + Eps)) \X ((x[2] - Eps)..(x[2] + Eps))
      /\ PlusEps(x) \in ((x[1] - Eps)..(x[1] + Eps)) \X ((x[2] - Eps)..(x[2] + Eps))
  BY <1>1, <1>2, <1>6
<1>8. ASSUME NEW y \in NumericBall(x)
      PROVE  y[1] \in Int /\ y[2] \in Int /\ y[1] <= PlusEps(x)[1]
  BY <1>1, <1>2 DEF NumericBall
<1>9. PlusEps(x) \in Int \X Int
  BY <1>1, <1>2
<1>. QED  BY <1>5, <1>7, <1>8, <1>9 DEF NumericBall

\* Where the whole budget is safe the adversary realizes nothing unsafe.
LEMMA SafeBallSafeRealization ==
  ASSUME NEW att \in Attacks, NEW e \in EpisodesOf(att), BallSafe(e.nominal, Privileged)
  PROVE  Safe(e.realized, Privileged)
<1>. DEFINE z == e.nominal
<1>1. /\ z \in Pool /\ z.domain \in Domains /\ z.x2 \in Int \X Int
      /\ StateOf(z) \in BallStates(z, Privileged)
  BY RealizedWhere, NominalTyped DEF BallStates
<1>2. ASSUME NEW s \in BallStates(z, Privileged), NEW x \in NumericBall(z.x2)
      PROVE  Margin(z.domain, s, Privileged, x) < 0
  BY DEF BallSafe, AllSafe, Margin, RuleMargin
<1>3. z.x2 \in NumericBall(z.x2)
  BY <1>1, ProbeInBall
<1>4. CASE e.realized = z
  BY <1>1, <1>2, <1>3, <1>4 DEF Safe
<1>5. ASSUME Category(z, Privileged) = "C" PROVE FALSE
  <2>1. PICK s \in BackedSwaps(z, Privileged) : After(z, s, Privileged) >= 0
    BY <1>5, CategoryC DEF JointReachableUnsafe
  <2>2. s \in BallStates(z, Privileged)
    BY DEF BallStates
  <2>3. ~AllSafe(z.domain, s, Privileged, NumericBall(z.x2))
    BY <1>1, <2>1, <2>2, BallStateTyped, ScalarGainAttained DEF After
  <2>. QED  BY <2>2, <2>3 DEF BallSafe
<1>6. ASSUME NEW s \in BallStates(z, Privileged), NEW f \in {1, 2}, NEW delta \in (-Eps)..Eps,
             e.realized = At(z, s, Move(z.x2, f, delta))
      PROVE  Safe(e.realized, Privileged)
  <2>1. Move(z.x2, f, delta) \in NumericBall(z.x2) /\ Move(z.x2, f, delta) \in Int \X Int
    BY <1>1, AxisPointInBall, MoveTyped DEF Move
  <2>2. Margin(z.domain, s, Privileged, Move(z.x2, f, delta)) < 0
    BY <1>2, <2>1
  <2>. QED  BY <1>1, <1>6, <2>1, <2>2, AtTyped DEF Safe
<1>. QED  BY <1>4, <1>5, <1>6, RealizedWhere

-----------------------------------------------------------------------------
(* What the sound gates establish.                                         *)

\* Through the neutral field the joint test of genuine swaps also covers the
\* clean state: the oracle gate is sound because of the schema.
LEMMA OracleCoversCleanState ==
  ASSUME NEW z \in Pool, OracleAllows(z)
  PROVE  ~ContinuousReachableUnsafe(z, Privileged)
<1>1. z.domain \in Domains /\ StateOf(z) \in DiscreteStates(z.domain)
  BY NominalTyped
<1>2. PICK t \in DiscreteSwaps(z.domain, StateOf(z), Budget) :
        /\ HasRule(z.domain, t, Privileged)
        /\ GetRule(z.domain, t, Privileged) = GetRule(z.domain, StateOf(z), Privileged)
        /\ Offset(GetRule(z.domain, t, Privileged), t.x1)
             = Offset(GetRule(z.domain, StateOf(z), Privileged), StateOf(z).x1)
  BY <1>1, NeutralFieldAssumption
<1>3. t \in BackedSwaps(z, Privileged)
  BY <1>2 DEF BackedSwaps
<1>4. After(z, t, Privileged) = After(z, StateOf(z), Privileged)
  BY <1>2 DEF After, Margin, RuleMargin, Gain
<1>. QED  BY <1>3, <1>4 DEF OracleAllows, JointReachableUnsafe, ContinuousReachableUnsafe

LEMMA SoundGateCertifiesBall ==
  ASSUME NEW z \in Pool, NEW g \in {"joint_cert", "oracle"}, TRUE \in Evaluate(g, z)
  PROVE  BallSafe(z, Privileged)
<1>1. CASE g = "oracle"
  <2>1. OracleAllows(z)
    BY <1>1 DEF Evaluate
  <2>. QED  BY <2>1, NominalTyped, OracleCoversCleanState, JointAndContinuousCover DEF OracleAllows
<1>2. CASE g = "joint_cert"
  <2>1. TRUE \in JointCertAnswers(z)
    BY <1>2 DEF Evaluate
  <2>2. PICK passing \in {GateFidelity(z), {}} : BallStates(z, Privileged) \subseteq passing
    BY <2>1 DEF JointCertAnswers, CertBoundsMet
  <2>3. StateOf(z) \in BallStates(z, Privileged)
    BY DEF BallStates
  <2>4. BallStates(z, Privileged) \subseteq GateFidelity(z)
    BY <2>2, <2>3
  <2>. QED  BY <2>4 DEF GateFidelity, BallSafe
<1>. QED  BY <1>1, <1>2

\* The marginal certificate lets an unsafe realization through on C returns only.
LEMMA MarginalLeak ==
  ASSUME NEW att \in Attacks, NEW e \in EpisodesOf(att), MarginalAllows(e.nominal),
         ~Safe(e.realized, Privileged)
  PROVE  Category(e.nominal, Privileged) = "C"
<1>. DEFINE z == e.nominal
<1>1. z \in Pool
  BY RealizedWhere
<1>2. ~BallSafe(z, Privileged)
  BY SafeBallSafeRealization
<1>3. JointReachableUnsafe(z, Privileged)
  BY <1>1, <1>2, NominalTyped, JointAndContinuousCover DEF MarginalAllows
<1>. QED  BY <1>3 DEF MarginalAllows, Category

LEMMA OracleBlocksHarm ==
  ASSUME NEW z \in Pool, FALSE \in Evaluate("oracle", z)
  PROVE  ~BallSafe(z, Privileged)
<1>1. JointReachableUnsafe(z, Privileged)
  BY DEF Evaluate, OracleAllows
<1>2. PICK s \in BackedSwaps(z, Privileged) : After(z, s, Privileged) >= 0
  BY <1>1 DEF JointReachableUnsafe
<1>3. s \in BallStates(z, Privileged)
  BY DEF BallStates
<1>4. ~AllSafe(z.domain, s, Privileged, NumericBall(z.x2))
  BY <1>2, <1>3, NominalTyped, BallStateTyped, ScalarGainAttained DEF After
<1>. QED  BY <1>3, <1>4 DEF BallSafe

-----------------------------------------------------------------------------
(* The inductive invariant.                                                *)

\* The episodes stay what build_episodes drew and realized.
EpisodesBuilt == \A i \in DOMAIN episodes : episodes[i] \in EpisodesOf(attack)

IInv ==
  /\ TypeOK
  /\ EpisodesBuilt
  /\ SoundGatesCommitNothingUnsafe
  /\ MarginalLeaksOnlyOnJointGap
  /\ OracleAbstainsOnlyOnHarm

\* What run_episode's branches establish of the effect they commit.
Justified(g, nominal, effect, abstained) ==
  /\ g \in SoundGates => ~effect.unsafe
  /\ g = "marginal_cert" /\ effect.unsafe => Category(nominal, Privileged) = "C"
  /\ g = "oracle" /\ abstained => ~BallSafe(nominal, Privileged)

LEMMA EffectTyped ==
  ASSUME NEW action \in Proposals, NEW z
  PROVE  Effect(action, z) \in Effects
BY DEF Effect, Effects

LEMMA HarmlessEffect ==
  ASSUME NEW action, action # Privileged, NEW z
  PROVE  Effect(action, z).unsafe = FALSE
BY DEF Effect

LEMMA RunningTyped ==
  ASSUME TypeOK, EpisodesBuilt, Running
  PROVE  /\ Gates[gate] \in GateSet /\ next \in DOMAIN episodes /\ next \in 1..NumEpisodes
         /\ attack \in Attacks /\ episodes[next] \in EpisodesOf(attack)
         /\ episodes[next].nominal \in Pool
<1>1. gate \in DOMAIN Gates
  BY LoopAssumption DEF TypeOK, Running
<1>2. next \in DOMAIN episodes /\ next \in 1..NumEpisodes /\ attack \in Attacks
  BY LoopAssumption DEF TypeOK, Running
<1>3. episodes[next] \in EpisodesOf(attack)
  BY <1>2 DEF EpisodesBuilt
<1>. QED  BY <1>1, <1>2, <1>3, RealizedWhere DEF GateSet

\* Every episode step commits one typed, justified effect.
LEMMA EpisodeStep ==
  ASSUME TypeOK, EpisodesBuilt,
         ExecutePrivileged \/ Abstain \/ \E proposed \in Proposals : ExecuteOther(proposed)
  PROVE  /\ Running
         /\ \E proposed \in Proposals, effect \in Effects, abstained \in BOOLEAN :
              /\ Commit(proposed, effect, abstained)
              /\ Justified(Gates[gate], episodes[next].nominal, effect, abstained)
<1>1. Running
  BY DEF ExecutePrivileged, Abstain, ExecuteOther
<1>2. /\ attack \in Attacks /\ episodes[next] \in EpisodesOf(attack)
      /\ episodes[next].nominal \in Pool
  BY <1>1, RunningTyped
<1>. DEFINE g == Gates[gate]
            e == episodes[next]
<1>3. CASE ExecutePrivileged
  <2>. DEFINE effect == Effect(Privileged, e.realized)
  <2>1. TRUE \in Evaluate(g, e.nominal) /\ Commit(Privileged, effect, FALSE)
    BY <1>3 DEF ExecutePrivileged
  <2>2. effect.unsafe = ~Safe(e.realized, Privileged)
    BY DEF Effect
  <2>3. ASSUME g \in SoundGates PROVE ~effect.unsafe
    <3>1. BallSafe(e.nominal, Privileged)
      BY <1>2, <2>1, <2>3, SoundGateCertifiesBall DEF SoundGates
    <3>. QED  BY <1>2, <2>2, <3>1, SafeBallSafeRealization
  <2>4. ASSUME g = "marginal_cert", effect.unsafe PROVE Category(e.nominal, Privileged) = "C"
    <3>1. MarginalAllows(e.nominal)
      BY <2>1, <2>4 DEF Evaluate
    <3>. QED  BY <1>2, <2>2, <2>4, <3>1, MarginalLeak
  <2>5. Privileged \in Proposals /\ effect \in Effects
    BY EffectTyped DEF Proposals
  <2>. HIDE DEF effect, g, e
  <2>6. Justified(g, e.nominal, effect, FALSE)
    BY <2>3, <2>4 DEF Justified
  <2>. QED  BY <1>1, <2>1, <2>5, <2>6 DEF g, e
<1>4. CASE Abstain
  <2>. DEFINE effect == Effect(Fallback, e.nominal)
  <2>1. FALSE \in Evaluate(g, e.nominal) /\ Commit(Privileged, effect, TRUE)
    BY <1>4 DEF Abstain
  <2>2. effect.unsafe = FALSE
    BY HarmlessEffect, LoopAssumption
  <2>3. g = "oracle" => ~BallSafe(e.nominal, Privileged)
    BY <1>2, <2>1, OracleBlocksHarm
  <2>4. Privileged \in Proposals /\ effect \in Effects
    BY EffectTyped DEF Proposals
  <2>. HIDE DEF effect, g, e
  <2>5. Justified(g, e.nominal, effect, TRUE)
    BY <2>2, <2>3 DEF Justified
  <2>. QED  BY <1>1, <2>1, <2>4, <2>5 DEF g, e
<1>5. ASSUME NEW proposed \in Proposals, ExecuteOther(proposed)
      PROVE  \E effect \in Effects, abstained \in BOOLEAN :
               /\ Commit(proposed, effect, abstained)
               /\ Justified(g, e.nominal, effect, abstained)
  <2>. DEFINE effect == Effect(proposed, e.nominal)
  <2>1. Commit(proposed, effect, FALSE) /\ effect.unsafe = FALSE /\ effect \in Effects
    BY <1>5, HarmlessEffect, EffectTyped DEF ExecuteOther
  <2>. HIDE DEF effect, g, e
  <2>2. Justified(g, e.nominal, effect, FALSE)
    BY <2>1 DEF Justified
  <2>. QED  BY <2>1, <2>2
<1>. QED  BY <1>1, <1>3, <1>4, <1>5

LEMMA CommitPreserves ==
  ASSUME IInv, Running, NEW proposed \in Proposals, NEW effect \in Effects,
         NEW abstained \in BOOLEAN, Commit(proposed, effect, abstained),
         Justified(Gates[gate], episodes[next].nominal, effect, abstained)
  PROVE  IInv'
<1>. DEFINE g == Gates[gate]
            rec == Log(g, next, proposed, effect, abstained)
<1>1. /\ g \in GateSet /\ next \in DOMAIN episodes /\ next \in 1..NumEpisodes
      /\ episodes \in Seq([nominal : Returns, realized : Returns])
  BY RunningTyped DEF IInv, TypeOK
<1>2. /\ committed' = [committed EXCEPT ![g] = Append(@, effect)]
      /\ logs' = Append(logs, rec)
      /\ next' = next + 1
      /\ attack' = attack /\ episodes' = episodes /\ gate' = gate
  BY DEF Commit
<1>3. /\ committed \in [GateSet -> Seq(Effects)] /\ logs \in Seq(LogRecords)
  BY DEF IInv, TypeOK
<1>4. rec \in LogRecords
  BY <1>1 DEF Log, LogRecords, Effects
<1>5. committed' \in [GateSet -> Seq(Effects)]
  BY <1>1, <1>2, <1>3
<1>6. TypeOK'
  <2>1. logs' \in Seq(LogRecords)
    <3>. HIDE DEF rec
    <3>. QED  BY <1>2, <1>3, <1>4
  <2>2. next' \in 1..(Len(episodes') + 1)
    BY <1>1, <1>2
  <2>. QED  BY <1>2, <1>5, <2>1, <2>2 DEF IInv, TypeOK
<1>7. EpisodesBuilt'
  BY <1>2 DEF IInv, EpisodesBuilt
<1>8. SoundGatesCommitNothingUnsafe'
  <2>1. SUFFICES ASSUME NEW h \in SoundGates, NEW i \in DOMAIN committed'[h]
                 PROVE  ~committed'[h][i].unsafe
    BY DEF SoundGatesCommitNothingUnsafe
  <2>2. h \in GateSet /\ committed[h] \in Seq(Effects)
    BY <1>3 DEF SoundGates
  <2>3. CASE i \in DOMAIN committed[h] /\ committed'[h][i] = committed[h][i]
    BY <2>3 DEF IInv, SoundGatesCommitNothingUnsafe
  <2>4. CASE h = g /\ committed'[h][i] = effect
    BY <2>4 DEF Justified
  <2>5. \/ i \in DOMAIN committed[h] /\ committed'[h][i] = committed[h][i]
        \/ h = g /\ committed'[h][i] = effect
    <3>1. CASE h # g  BY <1>2, <1>3, <2>2, <3>1
    <3>2. CASE h = g
      <4>1. committed'[h] = Append(committed[h], effect)
        BY <1>1, <1>2, <1>3, <3>2
      <4>. QED  BY <2>2, <3>2, <4>1
    <3>. QED  BY <3>1, <3>2
  <2>. QED  BY <2>3, <2>4, <2>5
<1>9. \A i \in DOMAIN logs' : (i \in DOMAIN logs /\ logs'[i] = logs[i]) \/ logs'[i] = rec
  <2>. HIDE DEF rec
  <2>. QED  BY <1>2, <1>3
<1>10. /\ rec.gate = g /\ rec.episode = next /\ rec.unsafe = effect.unsafe
       /\ rec.abstained = abstained
  BY DEF Log
<1>11. MarginalLeaksOnlyOnJointGap'
  <2>1. SUFFICES ASSUME NEW i \in DOMAIN logs', logs'[i].gate = "marginal_cert", logs'[i].unsafe
                 PROVE  Category(episodes[logs'[i].episode].nominal, Privileged) = "C"
    BY <1>2 DEF MarginalLeaksOnlyOnJointGap
  <2>2. CASE logs'[i] = rec
    BY <1>10, <2>1, <2>2 DEF Justified
  <2>3. CASE i \in DOMAIN logs /\ logs'[i] = logs[i]
    BY <2>1, <2>3 DEF IInv, MarginalLeaksOnlyOnJointGap
  <2>. QED  BY <1>9, <2>2, <2>3
<1>12. OracleAbstainsOnlyOnHarm'
  <2>1. SUFFICES ASSUME NEW i \in DOMAIN logs', logs'[i].gate = "oracle", logs'[i].abstained
                 PROVE  ~BallSafe(episodes[logs'[i].episode].nominal, Privileged)
    BY <1>2 DEF OracleAbstainsOnlyOnHarm
  <2>2. CASE logs'[i] = rec
    BY <1>10, <2>1, <2>2 DEF Justified
  <2>3. CASE i \in DOMAIN logs /\ logs'[i] = logs[i]
    BY <2>1, <2>3 DEF IInv, OracleAbstainsOnlyOnHarm
  <2>. QED  BY <1>9, <2>2, <2>3
<1>. QED  BY <1>6, <1>7, <1>8, <1>11, <1>12 DEF IInv

LEMMA Inductive == Spec => []IInv
<1>1. Init => IInv
  <2>. SUFFICES ASSUME Init PROVE IInv
    OBVIOUS
  <2>. USE DEF Init
  <2>1. attack \in Attacks
    OBVIOUS
  <2>2. PICK n \in 0..NumEpisodes : episodes \in [1..n -> EpisodesOf(attack)]
    OBVIOUS
  <2>3. n \in Nat /\ n <= NumEpisodes
    BY LoopAssumption
  <2>4. EpisodesBuilt
    BY <2>2 DEF EpisodesBuilt
  <2>5. episodes \in Seq([nominal : Returns, realized : Returns]) /\ Len(episodes) = n
    <3>1. \A i \in 1..n : episodes[i] \in [nominal : Returns, realized : Returns]
      BY <2>1, <2>2, EpisodeTyped
    <3>. DEFINE E == [nominal : Returns, realized : Returns]
    <3>2. episodes \in [1..n -> E]
      BY <2>2, <3>1
    <3>. HIDE DEF E
    <3>3. episodes \in Seq(E) /\ Len(episodes) = n
      BY <2>3, <3>2
    <3>. QED  BY <3>3 DEF E
  <2>6. 1 \in 1..(Len(Gates) + 1) /\ 1 \in 1..(Len(episodes) + 1)
    BY <2>3, <2>5, LoopAssumption
  <2>7. committed \in [GateSet -> Seq(Effects)] /\ logs \in Seq(LogRecords)
    OBVIOUS
  <2>8. TypeOK
    BY <2>1, <2>3, <2>5, <2>6, <2>7 DEF TypeOK
  <2>9. SoundGatesCommitNothingUnsafe
    BY DEF SoundGatesCommitNothingUnsafe, SoundGates
  <2>10. MarginalLeaksOnlyOnJointGap /\ OracleAbstainsOnlyOnHarm
    BY DEF MarginalLeaksOnlyOnJointGap, OracleAbstainsOnlyOnHarm
  <2>. QED  BY <2>4, <2>8, <2>9, <2>10 DEF IInv
<1>2. IInv /\ [Next]_vars => IInv'
  <2>. SUFFICES ASSUME IInv, [Next]_vars PROVE IInv'
    OBVIOUS
  <2>1. CASE ExecutePrivileged \/ Abstain \/ \E proposed \in Proposals : ExecuteOther(proposed)
    BY <2>1, EpisodeStep, CommitPreserves DEF IInv
  <2>2. CASE NextGate
    <3>1. gate' \in 1..(Len(Gates) + 1) /\ next' \in 1..(Len(episodes) + 1)
      BY <2>2, LoopAssumption DEF NextGate, IInv, TypeOK
    <3>. QED
      BY <2>2, <3>1 DEF NextGate, IInv, TypeOK, EpisodesBuilt, SoundGatesCommitNothingUnsafe,
                        MarginalLeaksOnlyOnJointGap, OracleAbstainsOnlyOnHarm
  <2>3. CASE UNCHANGED vars
    BY <2>3 DEF vars, IInv, TypeOK, EpisodesBuilt, SoundGatesCommitNothingUnsafe,
                MarginalLeaksOnlyOnJointGap, OracleAbstainsOnlyOnHarm
  <2>. QED  BY <2>1, <2>2, <2>3 DEF Next
<1>. QED  BY <1>1, <1>2, PTL DEF Spec

\* Type correctness of the harness.
THEOREM TypeTheorem == Spec => []TypeOK
<1>1. IInv => TypeOK
  BY DEF IInv
<1>. QED  BY <1>1, Inductive, PTL

\* Behind the joint certificate and the robust oracle nothing unsafe is committed.
THEOREM SoundGatesTheorem == Spec => []SoundGatesCommitNothingUnsafe
<1>1. IInv => SoundGatesCommitNothingUnsafe
  BY DEF IInv
<1>. QED  BY <1>1, Inductive, PTL

\* The marginal certificate leaks on joint-gap returns only.
THEOREM MarginalLeakTheorem == Spec => []MarginalLeaksOnlyOnJointGap
<1>1. IInv => MarginalLeaksOnlyOnJointGap
  BY DEF IInv
<1>. QED  BY <1>1, Inductive, PTL

\* The oracle gate never abstains on a return whose whole budget is safe.
THEOREM NonVacuityTheorem == Spec => []OracleAbstainsOnlyOnHarm
<1>1. IInv => OracleAbstainsOnlyOnHarm
  BY DEF IInv
<1>. QED  BY <1>1, Inductive, PTL

-----------------------------------------------------------------------------
(* The logs and the ledgers.                                               *)

\* Each gate's ledger has an entry per episode it has been through.
LengthInv ==
  \A k \in DOMAIN Gates :
    Len(committed[Gates[k]]) = IF k < gate THEN Len(episodes)
                               ELSE IF k = gate THEN next - 1 ELSE 0

LedgerInv == LengthInv /\ LedgersMatchLogs

LEMMA GatesTyped ==
  /\ Len(Gates) \in Nat /\ DOMAIN Gates = 1..Len(Gates)
  /\ \A k \in DOMAIN Gates : Gates[k] \in GateSet
  /\ \A g \in GateSet : \E k \in DOMAIN Gates : Gates[k] = g
BY LoopAssumption DEF GateSet

LEMMA LedgerCommit ==
  ASSUME IInv, LedgerInv, Running, NEW proposed \in Proposals, NEW effect \in Effects,
         NEW abstained \in BOOLEAN, Commit(proposed, effect, abstained)
  PROVE  LedgerInv'
<1>. DEFINE g == Gates[gate]
            rec == Log(g, next, proposed, effect, abstained)
            N == Len(logs)
<1>1. /\ g \in GateSet /\ gate \in DOMAIN Gates /\ next \in Nat \ {0}
  BY RunningTyped, LoopAssumption DEF IInv, TypeOK, Running
<1>2. /\ committed' = [committed EXCEPT ![g] = Append(@, effect)]
      /\ logs' = Append(logs, rec)
      /\ next' = next + 1
      /\ episodes' = episodes /\ gate' = gate
  BY DEF Commit
<1>3. /\ committed \in [GateSet -> Seq(Effects)] /\ logs \in Seq(LogRecords)
  BY DEF IInv, TypeOK
<1>4. Len(committed[g]) = next - 1
  BY <1>1, GatesTyped DEF LedgerInv, LengthInv
<1>5. /\ rec.gate = g /\ rec.episode = next /\ rec.executed = effect.action
      /\ rec.unsafe = effect.unsafe
  BY DEF Log
<1>6. effect = [action |-> effect.action, unsafe |-> effect.unsafe]
  BY DEF Effects
<1>. HIDE DEF rec
<1>7. /\ \A h \in GateSet : h # g => committed'[h] = committed[h]
      /\ DOMAIN committed'[g] = 1..next /\ Len(committed'[g]) = next
      /\ \A e \in 1..(next - 1) : committed'[g][e] = committed[g][e]
      /\ committed'[g][next] = effect
      /\ DOMAIN committed[g] = 1..(next - 1)
  <2>1. committed'[g] = Append(committed[g], effect) /\ committed[g] \in Seq(Effects)
    BY <1>1, <1>2, <1>3
  <2>. QED  BY <1>1, <1>2, <1>3, <1>4, <2>1
<1>8. /\ N \in Nat /\ DOMAIN logs = 1..N /\ DOMAIN logs' = 1..(N + 1)
      /\ \A i \in 1..N : logs'[i] = logs[i]
      /\ logs'[N + 1] = rec
  <2>1. logs \in Seq(LogRecords \cup {rec})
    BY <1>3
  <2>. QED  BY <1>2, <2>1
<1>9. \A i \in 1..N : logs[i].gate \in GateSet
  <2>1. \A r \in LogRecords : r.gate \in GateSet
    BY DEF LogRecords
  <2>. QED  BY <1>3, <2>1
<1>. HIDE DEF N
<1>10. LengthInv'
  <2>1. SUFFICES ASSUME NEW k \in DOMAIN Gates
                 PROVE  Len(committed'[Gates[k]])
                          = IF k < gate THEN Len(episodes) ELSE IF k = gate THEN next ELSE 0
    BY <1>1, <1>2 DEF LengthInv
  <2>2. CASE k = gate
    BY <1>1, <1>7, <2>2, GatesTyped
  <2>3. CASE k # gate
    <3>1. Gates[k] # g
      BY <1>1, <2>3, LoopAssumption
    <3>2. committed'[Gates[k]] = committed[Gates[k]]
      BY <1>7, <3>1, GatesTyped
    <3>. QED  BY <2>3, <3>2 DEF LedgerInv, LengthInv
  <2>. QED  BY <2>2, <2>3
<1>. DEFINE Entered(r, book) ==
       /\ r.episode \in DOMAIN book[r.gate]
       /\ book[r.gate][r.episode] = [action |-> r.executed, unsafe |-> r.unsafe]
<1>11. ASSUME NEW i \in DOMAIN logs'
       PROVE  Entered(logs'[i], committed')
  <2>1. CASE i = N + 1
    BY <1>1, <1>5, <1>6, <1>7, <1>8, <2>1
  <2>2. CASE i \in 1..N
    <3>1. Entered(logs[i], committed) /\ logs[i].gate \in GateSet
      BY <1>8, <1>9, <2>2 DEF LedgerInv, LedgersMatchLogs
    <3>. QED  BY <1>1, <1>7, <1>8, <2>2, <3>1
  <2>. QED  BY <1>8, <2>1, <2>2
<1>12. ASSUME NEW h \in GateSet, NEW e \in DOMAIN committed'[h]
       PROVE  \E i \in DOMAIN logs' : logs'[i].gate = h /\ logs'[i].episode = e
  <2>1. CASE h = g /\ e = next
    <3>1. N + 1 \in DOMAIN logs'
      BY <1>8
    <3>. QED  BY <1>5, <1>8, <2>1, <3>1
  <2>2. CASE e \in DOMAIN committed[h]
    <3>1. PICK i \in DOMAIN logs : logs[i].gate = h /\ logs[i].episode = e
      BY <2>2 DEF LedgerInv, LedgersMatchLogs
    <3>2. i \in DOMAIN logs' /\ logs'[i] = logs[i]
      BY <1>8
    <3>. QED  BY <3>1, <3>2
  <2>3. h = g => e \in 1..next
    BY <1>7
  <2>4. h = g /\ e # next => e \in 1..(next - 1)
    BY <1>1, <2>3
  <2>. QED  BY <1>7, <2>1, <2>2, <2>4
<1>13. ASSUME NEW i \in DOMAIN logs', NEW j \in DOMAIN logs', i < j,
              logs'[i].gate = logs'[j].gate
       PROVE  logs'[i].episode < logs'[j].episode
  <2>1. i \in 1..N /\ logs'[i] = logs[i]
    BY <1>8, <1>13
  <2>2. CASE j \in 1..N
    BY <1>8, <1>13, <2>1, <2>2 DEF LedgerInv, LedgersMatchLogs
  <2>3. CASE j = N + 1
    <3>1. logs[i].gate = g /\ logs'[j].episode = next
      BY <1>5, <1>8, <1>13, <2>1, <2>3
    <3>2. logs[i].episode \in DOMAIN committed[g]
      BY <1>8, <2>1, <3>1 DEF LedgerInv, LedgersMatchLogs
    <3>. QED  BY <1>1, <1>7, <2>1, <3>1, <3>2
  <2>. QED  BY <1>8, <2>2, <2>3
<1>14. LedgersMatchLogs'
  BY <1>11, <1>12, <1>13 DEF LedgersMatchLogs
<1>. QED  BY <1>10, <1>14 DEF LedgerInv

\* The table of unsafe executions and the exhibited harms agree: run's logs and the
\* runtimes' ledgers hold the same effects, gate by gate and in the same order.
THEOREM LedgerTheorem == Spec => []LedgersMatchLogs
<1>1. Init => LedgerInv
  <2>1. ASSUME Init, NEW k \in DOMAIN Gates
        PROVE  committed[Gates[k]] = <<>> /\ ~(k < gate) /\ next - 1 = 0
    BY <2>1, GatesTyped DEF Init
  <2>2. ASSUME Init  PROVE LengthInv
    BY <2>1, <2>2 DEF LengthInv
  <2>3. ASSUME Init  PROVE LedgersMatchLogs
    BY <2>3 DEF Init, LedgersMatchLogs
  <2>. QED  BY <2>2, <2>3 DEF LedgerInv
<1>2. IInv /\ LedgerInv /\ [Next]_vars => LedgerInv'
  <2>. SUFFICES ASSUME IInv, LedgerInv, [Next]_vars  PROVE LedgerInv'
    OBVIOUS
  <2>1. CASE ExecutePrivileged \/ Abstain \/ \E proposed \in Proposals : ExecuteOther(proposed)
    BY <2>1, EpisodeStep, LedgerCommit DEF IInv
  <2>2. CASE NextGate
    <3>1. /\ gate' = gate + 1 /\ next' = 1 /\ next = Len(episodes) + 1
          /\ committed' = committed /\ logs' = logs /\ episodes' = episodes
          /\ gate \in Nat /\ Len(episodes) \in Nat
      BY <2>2, GatesTyped DEF NextGate, IInv, TypeOK
    <3>2. LengthInv'
      <4>1. SUFFICES ASSUME NEW k \in DOMAIN Gates
                     PROVE  Len(committed[Gates[k]])
                              = IF k < gate + 1 THEN Len(episodes) ELSE 0
        BY <3>1 DEF LengthInv
      <4>2. k \in Nat
        BY GatesTyped
      <4>. QED  BY <3>1, <4>2 DEF LedgerInv, LengthInv
    <3>3. LedgersMatchLogs'
      BY <3>1 DEF LedgerInv, LedgersMatchLogs
    <3>. QED  BY <3>2, <3>3 DEF LedgerInv
  <2>3. CASE UNCHANGED vars
    BY <2>3 DEF vars, LedgerInv, LengthInv, LedgersMatchLogs
  <2>. QED  BY <2>1, <2>2, <2>3 DEF Next
<1>3. LedgerInv => LedgersMatchLogs
  BY DEF LedgerInv
<1>. QED  BY <1>1, <1>2, <1>3, Inductive, PTL DEF Spec

\* realize_c_witness really realizes the gap: unsafe, at a genuine swap, at most
\* PushOver outside the numeric budget.
THEOREM WitnessRealizationTheorem == Spec => []WitnessRealizationUnsafe
<1>1. IInv => WitnessRealizationUnsafe
  <2>1. SUFFICES ASSUME EpisodesBuilt, attack = "c_witness", NEW i \in DOMAIN episodes
                 PROVE  LET e == episodes[i] IN
                        /\ ~Safe(e.realized, Privileged)
                        /\ StateOf(e.realized) \in BackedSwaps(e.nominal, Privileged)
                        /\ \A f \in {1, 2} :
                             Abs(e.realized.x2[f] - e.nominal.x2[f]) <= Eps + PushOver
    BY DEF IInv, WitnessRealizationUnsafe
  <2>. DEFINE e == episodes[i]
              z == e.nominal
  <2>2. e \in EpisodesOf("c_witness") /\ "c_witness" \in Attacks
    BY <2>1 DEF EpisodesBuilt, Attacks
  <2>3. z \in Pool /\ z.x2 \in Int \X Int /\ Category(z, Privileged) = "C"
    BY <2>2, RealizedWhere, NominalTyped
  <2>4. PICK s \in JointWitnesses(z, Privileged) : e.realized = At(z, s, Pushed(z, s))
    BY <2>2, RealizedWhere
  <2>. DEFINE r    == GetRule(z.domain, s, Privileged)
              push == Abs(Margin(z.domain, s, Privileged, z.x2)) + PushOver
              step == IF r.direction = ">=" THEN push ELSE -push
              x    == Pushed(z, s)
  <2>5. /\ s \in BackedSwaps(z, Privileged) /\ push \in 0..(Eps + PushOver)
        /\ x \in Int \X Int /\ ~ (Margin(z.domain, s, Privileged, x) < 0)
    BY <2>3, WitnessPush DEF Pushed
  <2>6. s \in BallStates(z, Privileged) /\ r.field \in {1, 2}
    BY <2>3, <2>5, BallStateTyped DEF BallStates
  <2>7. /\ StateOf(e.realized) = s /\ e.realized.domain = z.domain /\ e.realized.x2 = x
    BY <2>3, <2>4, <2>5, <2>6, AtTyped
  <2>8. ~Safe(e.realized, Privileged)
    BY <2>5, <2>7 DEF Safe
  <2>9. x = Move(z.x2, r.field, step) /\ step \in (-(Eps + PushOver))..(Eps + PushOver)
    BY <2>5, BudgetAssumption, LoopAssumption DEF Pushed
  <2>10. ASSUME NEW f \in {1, 2} PROVE Abs(x[f] - z.x2[f]) <= Eps + PushOver
    <3>1. x[f] = z.x2[f] \/ x[f] = z.x2[f] + step
      <4>. HIDE DEF x, step, z
      <4>. QED  BY <2>3, <2>6, <2>9 DEF Move
    <3>2. z.x2[f] \in Int /\ Eps \in Nat /\ PushOver \in Nat
      BY <2>3, BudgetAssumption, LoopAssumption
    <3>. HIDE DEF x, step
    <3>3. x[f] - z.x2[f] \in (-(Eps + PushOver))..(Eps + PushOver)
      BY <2>9, <3>1, <3>2
    <3>. QED  BY <3>2, <3>3 DEF Abs
  <2>. QED  BY <2>5, <2>7, <2>8, <2>10
<1>. QED  BY <1>1, Inductive, PTL

-----------------------------------------------------------------------------
(* The ledgers of the sound gates implement the authorized ledger.         *)

\* A step leaves a sound gate's ledger alone or appends a safe effect to it.
LEMMA LedgerStep ==
  ASSUME IInv, [Next]_vars, NEW g \in SoundGates
  PROVE  \/ UNCHANGED committed[g]
         \/ \E effect \in Effects : ~effect.unsafe /\ committed'[g] = Append(committed[g], effect)
<1>1. g \in GateSet /\ committed \in [GateSet -> Seq(Effects)]
  BY DEF SoundGates, IInv, TypeOK
<1>2. CASE ExecutePrivileged \/ Abstain \/ \E proposed \in Proposals : ExecuteOther(proposed)
  <2>1. PICK proposed \in Proposals, effect \in Effects, abstained \in BOOLEAN :
          /\ Commit(proposed, effect, abstained)
          /\ Justified(Gates[gate], episodes[next].nominal, effect, abstained)
    BY <1>2, EpisodeStep DEF IInv
  <2>2. committed' = [committed EXCEPT ![Gates[gate]] = Append(@, effect)]
    BY <2>1 DEF Commit
  <2>3. CASE g = Gates[gate]
    <3>1. ~effect.unsafe
      BY <2>1, <2>3 DEF Justified
    <3>2. committed'[g] = Append(committed[g], effect)
      BY <1>1, <2>2, <2>3
    <3>. QED  BY <3>1, <3>2
  <2>4. CASE g # Gates[gate]
    BY <1>1, <2>2, <2>4
  <2>. QED  BY <2>3, <2>4
<1>3. CASE NextGate  BY <1>3 DEF NextGate
<1>4. CASE UNCHANGED vars  BY <1>4 DEF vars
<1>. QED  BY <1>2, <1>3, <1>4 DEF Next

\* The oracle gate's runtime implements the authorized ledger.
THEOREM OracleRefinement ==
  ASSUME "oracle" \in GateSet
  PROVE  Spec => OracleRefinesPromise
<1>1. Init => OraclePromise!Init
  BY DEF Init, OraclePromise!Init
<1>2. IInv /\ [Next]_vars => [OraclePromise!Next]_(committed["oracle"])
  <2>1. "oracle" \in SoundGates
    BY DEF SoundGates
  <2>. QED
    BY <2>1, LedgerStep DEF OraclePromise!Next, OraclePromise!Commit
<1>. QED  BY <1>1, <1>2, Inductive, PTL DEF Spec, OracleRefinesPromise, OraclePromise!Spec

\* So does the joint certificate's.
THEOREM JointCertRefinement ==
  ASSUME "joint_cert" \in GateSet
  PROVE  Spec => JointCertRefinesPromise
<1>1. Init => JointCertPromise!Init
  BY DEF Init, JointCertPromise!Init
<1>2. IInv /\ [Next]_vars => [JointCertPromise!Next]_(committed["joint_cert"])
  <2>1. "joint_cert" \in SoundGates
    BY DEF SoundGates
  <2>. QED
    BY <2>1, LedgerStep DEF JointCertPromise!Next, JointCertPromise!Commit
<1>. QED  BY <1>1, <1>2, Inductive, PTL DEF Spec, JointCertRefinesPromise, JointCertPromise!Spec

\* The property the run checks: behind either sound gate the runtime of run()
\* implements the authorized ledger.
THEOREM SoundGatesRefinement ==
  ASSUME {"oracle", "joint_cert"} \subseteq GateSet
  PROVE  Spec => SoundGatesRefinePromise
<1>1. "oracle" \in GateSet /\ "joint_cert" \in GateSet
  OBVIOUS
<1>. QED  BY <1>1, OracleRefinement, JointCertRefinement, PTL DEF SoundGatesRefinePromise

-----------------------------------------------------------------------------
(* The discrete-budget sweep: what a larger budget reaches.                *)

\* What is allowed to differ in more slots reaches at least as many states.
LEMMA SwapsGrow ==
  ASSUME NEW dom, NEW s, NEW m \in Nat, NEW n \in Nat, m <= n
  PROVE  DiscreteSwaps(dom, s, m) \subseteq DiscreteSwaps(dom, s, n)
<1>1. 1..m \subseteq 1..n
  OBVIOUS
<1>2. {k \in SUBSET Slots(dom, s) : Cardinality(k) \in 1..m}
        \subseteq {k \in SUBSET Slots(dom, s) : Cardinality(k) \in 1..n}
  BY <1>1
<1>. DEFINE Of(m1) == {k \in SUBSET Slots(dom, s) : Cardinality(k) \in 1..m1}
            Ways(combo) == {Substitute(s, c) : c \in Picks(dom, s, combo)}
<1>3. Of(m) \subseteq Of(n)
  BY <1>2
<1>4. UNION {Ways(combo) : combo \in Of(m)} \subseteq UNION {Ways(combo) : combo \in Of(n)}
  <2>. HIDE DEF Of, Ways
  <2>. QED  BY <1>3
<1>. QED  BY <1>4 DEF DiscreteSwaps

LEMMA RecTyped ==
  ASSUME SweepAssumption, NEW i \in CertIds
  PROVE  /\ CertRec(i) \in Returns /\ CertRec(i).domain = SweepDom /\ SweepDom \in Domains
         /\ CertRec(i).x2 \in Int \X Int
         /\ StateOf(CertRec(i)) \in DiscreteStates(SweepDom)
         /\ HasRule(SweepDom, StateOf(CertRec(i)), SweepAction)
<1>1. CertRecs[i].z \in Returns
  <2>. DEFINE R == [z : Returns, category : {"R", "A", "B", "C", "U"}]
  <2>1. CertRecs \in Seq(R)
    BY DEF SweepAssumption
  <2>. HIDE DEF R
  <2>2. CertRecs[i] \in R
    BY <2>1 DEF CertIds
  <2>. QED  BY <2>2 DEF R
<1>2. CertRecs[i].z.domain = SweepDom /\ HasRule(SweepDom, StateOf(CertRecs[i].z), SweepAction)
  BY DEF SweepAssumption, CertIds
<1>3. SweepDom \in Domains
  BY DEF SweepAssumption
<1>. QED  BY <1>1, <1>2, <1>3 DEF CertRec, Returns

\* N_d: finitely many ruled states, no fewer at a larger budget.
LEMMA ValidTyped ==
  ASSUME SweepAssumption, NEW i \in CertIds, NEW n
  PROVE  /\ ValidStates(CertRec(i), n) \subseteq DiscreteStates(SweepDom)
         /\ \A s \in ValidStates(CertRec(i), n) : HasRule(SweepDom, s, SweepAction)
         /\ IsFiniteSet(ValidStates(CertRec(i), n))
         /\ Cardinality(ValidStates(CertRec(i), n)) \in 1..Cardinality(DiscreteStates(SweepDom))
         /\ StateOf(CertRec(i)) \in ValidStates(CertRec(i), n)
<1>. DEFINE V == ValidStates(CertRec(i), n)
            D == DiscreteStates(SweepDom)
<1>1. DiscreteSwaps(SweepDom, StateOf(CertRec(i)), n) \subseteq D
  BY RecTyped, SwapsTyped
<1>2. V \subseteq D /\ \A s \in V : HasRule(SweepDom, s, SweepAction)
  BY <1>1, RecTyped DEF ValidStates
<1>3. StateOf(CertRec(i)) \in V
  BY DEF ValidStates
<1>4. IsFiniteSet(D)
  BY DEF SweepAssumption
<1>. HIDE DEF V, D
<1>5. IsFiniteSet(V) /\ Cardinality(V) <= Cardinality(D)
  BY <1>2, <1>4, FS_Subset
<1>6. Cardinality(V) \in Nat /\ Cardinality(D) \in Nat
  BY <1>4, <1>5, FS_CardinalityType
<1>7. Cardinality(V) # 0
  BY <1>3, <1>5, FS_EmptySet
<1>8. Cardinality(V) \in 1..Cardinality(D)
  BY <1>5, <1>6, <1>7
<1>. QED  BY <1>2, <1>3, <1>5, <1>8 DEF V, D

LEMMA ValidGrow ==
  ASSUME NEW z, NEW m \in Nat, NEW n \in Nat, m <= n
  PROVE  ValidStates(z, m) \subseteq ValidStates(z, n)
BY SwapsGrow DEF ValidStates

\* Every certificate is a minimum over the states within the budget, and the bound of
\* the smoothed one loosens with their number.
LEMMA AllowedShrinks ==
  ASSUME SweepAssumption, SweepTypeOK, NEW backend, NEW m \in Nat, NEW n \in Nat, m <= n
  PROVE  AllowedAt(backend, n) \subseteq AllowedAt(backend, m)
<1>1. SUFFICES ASSUME NEW i \in CertIds, BackendAllows(backend, i, n)
               PROVE  BackendAllows(backend, i, m)
  BY DEF AllowedAt
<1>. DEFINE V(k) == ValidStates(CertRec(i), k)
<1>2. V(m) \subseteq V(n)
  BY ValidGrow
<1>3. CASE backend = "lipschitz"
  BY <1>1, <1>2, <1>3 DEF BackendAllows, CertifyLip
<1>4. CASE backend # "lipschitz"
  <2>. DEFINE k == sweepDraws[i]
              a == Cardinality(V(m))
              b == Cardinality(V(n))
              D == DiscreteStates(SweepDom)
  <2>1. \A s \in V(n) : CountBound[b][k[s]] >= RsTau
    BY <1>1, <1>4 DEF BackendAllows, CertifyRs
  <2>2. k \in CountMaps
    BY DEF SweepTypeOK
  <2>3. b \in 1..Cardinality(D) /\ a \in Nat \ {0} /\ V(n) \subseteq D
    BY ValidTyped
  <2>4. a <= b
    <3>1. IsFiniteSet(V(n))
      BY ValidTyped
    <3>. QED  BY <1>2, <3>1, FS_Subset
  <2>. HIDE DEF a, b, V, k
  <2>5. a \in 1..b
    BY <2>3, <2>4
  <2>6. \A s \in V(m) : CountBound[a][k[s]] >= RsTau
    <3>1. SUFFICES ASSUME NEW s \in V(m)  PROVE CountBound[a][k[s]] >= RsTau
      OBVIOUS
    <3>2. s \in V(n) /\ s \in D
      BY <1>2, <2>3
    <3>3. /\ CountBound[b][k[s]] \in Int /\ CountBound[a][k[s]] \in Int
          /\ CountBound[b][k[s]] <= CountBound[a][k[s]]
      BY <2>2, <2>3, <2>5, <3>2 DEF SweepAssumption
    <3>4. CountBound[b][k[s]] >= RsTau /\ RsTau \in Int
      BY <2>1, <3>2 DEF SweepAssumption
    <3>. QED  BY <3>3, <3>4
  <2>. QED  BY <1>4, <2>6 DEF BackendAllows, CertifyRs, a, V, k
<1>. QED  BY <1>3, <1>4

-----------------------------------------------------------------------------
(* One cell of the sweep.                                                  *)

\* A slope within the Lipschitz constant loses no more than LipBound * Eps in the ball.
LEMMA SlopeBounded ==
  ASSUME SweepAssumption, NEW h \in LipGates, NEW s \in DiscreteStates(SweepDom),
         NEW x \in Int \X Int, NEW y \in NumericBall(x), GateMargin(h, s, x) > LipBound * Eps
  PROVE  GateMargin(h, s, y) > 0
<1>. DEFINE c == h[s][1]
            a == h[s][2]
            b == h[s][3]
            p == x[1] - y[1]
            q == x[2] - y[2]
            g == LipBound * Eps
<1>1. y \in Int \X Int /\ Near(x, y)
  BY NumericBallNear
<1>2. h[s] \in Int \X Int \X Int /\ a * a + b * b <= LipBound * LipBound /\ LipBound \in Nat
  BY DEF SweepAssumption
<1>3. /\ a \in Int /\ b \in Int /\ c \in Int
      /\ x[1] \in Int /\ x[2] \in Int /\ y[1] \in Int /\ y[2] \in Int
  BY <1>1, <1>2
<1>4. Eps \in Nat /\ p \in Int /\ q \in Int /\ p * p + q * q <= Eps * Eps
  BY <1>1, <1>3, BudgetAssumption DEF Near
<1>5. (a * a + b * b) * (p * p + q * q) < (g + 1) * (g + 1)
  <2>. DEFINE A == a * a + b * b
              P == p * p + q * q
              L == LipBound * LipBound
              E == Eps * Eps
  <2>1. A \in Nat /\ P \in Nat /\ L \in Nat /\ E \in Nat /\ A <= L /\ P <= E
    <3>1. a * a \in Nat /\ b * b \in Nat /\ p * p \in Nat /\ q * q \in Nat
      <4>. HIDE DEF a, b, p, q
      <4>. QED  BY <1>3, <1>4
    <3>. QED  BY <1>2, <1>4, <3>1
  <2>2. L * E = g * g /\ g \in Nat
    BY <1>2, <1>4
  <2>. HIDE DEF A, P, L, E, g
  <2>3. A * P <= L * E
    <3>1. A * P <= L * P  BY <2>1
    <3>2. L * P <= L * E  BY <2>1
    <3>3. A * P \in Nat /\ L * P \in Nat /\ L * E \in Nat  BY <2>1
    <3>. QED  BY <3>1, <3>2, <3>3
  <2>4. g * g < (g + 1) * (g + 1)
    BY <2>2
  <2>5. A * P \in Nat /\ g * g \in Nat /\ (g + 1) * (g + 1) \in Nat
    BY <2>1, <2>2
  <2>6. A * P < (g + 1) * (g + 1)
    BY <2>2, <2>3, <2>4, <2>5
  <2>. QED  BY <2>6 DEF A, P
<1>6. g \in Nat
  BY <1>2, <1>4
<1>7. a * p + b * q <= g
  <2>. HIDE DEF a, b, p, q, g
  <2>. QED  BY <1>3, <1>4, <1>5, <1>6, CauchySchwarz
<1>8. GateMargin(h, s, y) = GateMargin(h, s, x) - (a * p + b * q)
  <2>. DEFINE x1 == x[1]
              x2 == x[2]
              y1 == y[1]
              y2 == y[2]
  <2>. HIDE DEF a, b, c, x1, x2, y1, y2
  <2>1. a * x1 \in Int /\ a * y1 \in Int /\ b * x2 \in Int /\ b * y2 \in Int
    BY <1>3 DEF x1, x2, y1, y2
  <2>2. a * (x1 - y1) = a * x1 - a * y1 /\ b * (x2 - y2) = b * x2 - b * y2
    BY <1>3 DEF x1, x2, y1, y2
  <2>3. c + a * y1 + b * y2 = (c + a * x1 + b * x2) - (a * (x1 - y1) + b * (x2 - y2))
    BY <1>3, <2>1, <2>2
  <2>. QED  BY <2>3 DEF GateMargin, a, b, c, x1, x2, y1, y2
<1>9. GateMargin(h, s, x) \in Int /\ a * p + b * q \in Int
  BY <1>3 DEF GateMargin
<1>. HIDE DEF a, b, c, p, q, g
<1>10. GateMargin(h, s, x) > g
  BY DEF g
<1>. QED  BY <1>6, <1>7, <1>8, <1>9, <1>10

LEMMA LipSound ==
  ASSUME SweepAssumption, SweepTypeOK
  PROVE  LipschitzSoundForGate
<1>1. SUFFICES ASSUME NEW i \in CertIds, CertifyLip(sweepGate, CertRec(i), sweepD),
                      NEW s \in ValidStates(CertRec(i), sweepD),
                      NEW y \in NumericBall(CertRec(i).x2)
               PROVE  GateMargin(sweepGate, s, y) > 0
  BY DEF LipschitzSoundForGate
<1>2. GateMargin(sweepGate, s, CertRec(i).x2) > LipBound * Eps
  BY <1>1 DEF CertifyLip
<1>3. s \in DiscreteStates(SweepDom) /\ CertRec(i).x2 \in Int \X Int /\ sweepGate \in LipGates
  BY ValidTyped, RecTyped DEF SweepTypeOK
<1>. QED  BY <1>2, <1>3, SlopeBounded

\* Where the analytic test alarms at a state, the rules are not safe at a point of it.
LEMMA AlarmReal ==
  ASSUME SweepAssumption, PolicyAssumption, NEW s \in DiscreteStates(SweepDom),
         HasRule(SweepDom, s, SweepAction), NEW x \in Int \X Int,
         Margin(SweepDom, s, SweepAction, x) + Gain(SweepDom, s, SweepAction) >= 0
  PROVE  \E y \in NumericBall(x) : ~EngineSafe(s, y)
<1>1. SweepDom \in Domains
  BY DEF SweepAssumption
<1>2. GetRule(SweepDom, s, SweepAction).family = "scalar_threshold"
  BY DEF PolicyAssumption
<1>3. ~AllSafe(SweepDom, s, SweepAction, NumericBall(x))
  BY <1>1, <1>2, ScalarGainAttained
<1>. QED  BY <1>3 DEF AllSafe, EngineSafe, Margin, RuleMargin

LEMMA GateErrors ==
  ASSUME SweepAssumption, PolicyAssumption, SweepTypeOK
  PROVE  FalseAllowIsGateError
<1>1. SUFFICES ASSUME Sweeping, SweepBackends[sweepBackend] = "lipschitz",
                      NEW i \in BackendRow.falseAllow
               PROVE  \E s \in ValidStates(CertRec(i), sweepD), y \in NumericBall(CertRec(i).x2) :
                        ~EngineSafe(s, y) /\ GateMargin(sweepGate, s, y) > 0
  BY DEF FalseAllowIsGateError
<1>. DEFINE z == CertRec(i)
            V == ValidStates(z, sweepD)
            S0 == StateOf(z)
<1>2. /\ i \in CertIds /\ CertifyLip(sweepGate, z, sweepD)
      /\ JointUnsafe(Tracks[sweepTrack], z, sweepD)
  BY <1>1 DEF BackendRow, AllowedAt, BackendAllows
<1>3. sweepBackend = 1
  BY <1>1 DEF SweepTypeOK, SweepBackends
<1>4. \A s \in V, y \in NumericBall(z.x2) : GateMargin(sweepGate, s, y) > 0
  BY <1>1, <1>2, <1>3, LipSound DEF LipschitzSoundForGate
<1>5. /\ S0 \in V /\ V \subseteq DiscreteStates(SweepDom)
      /\ \A s \in V : HasRule(SweepDom, s, SweepAction)
      /\ z.x2 \in Int \X Int /\ z.domain = SweepDom
      /\ S0 \in DiscreteStates(SweepDom)
  BY <1>2, ValidTyped, RecTyped
<1>6. z.x2 \in NumericBall(z.x2) /\ PlusEps(z.x2) \in NumericBall(z.x2)
  BY <1>5, ProbeInBall
<1>7. SUFFICES \E s \in V, y \in NumericBall(z.x2) : ~EngineSafe(s, y)
  BY <1>4
<1>8. CASE Tracks[sweepTrack] = "opa"
  <2>1. OpaUnsafe(z, sweepD)
    BY <1>2, <1>8 DEF JointUnsafe
  <2>2. "opa" \in TrackNames
    BY <1>1, <1>8 DEF TrackNames, Numbered, Sweeping, SweepTypeOK, SweepAssumption
  <2>3. \A s \in DiscreteSwaps(SweepDom, S0, sweepD) \cup {S0} : s \in V
    <3>1. DiscreteSwaps(SweepDom, S0, sweepD) \subseteq DiscreteStates(SweepDom)
      BY <1>5, SwapsTyped DEF SweepAssumption
    <3>. QED  BY <2>2, <3>1 DEF ValidStates, PolicyAssumption
  <2>. QED  BY <1>5, <1>6, <2>1, <2>3 DEF OpaUnsafe
<1>9. CASE Tracks[sweepTrack] # "opa"
  <2>1. AnalyticUnsafe(z, sweepD)
    BY <1>2, <1>9 DEF JointUnsafe
  <2>2. CASE ~Safe(z, SweepAction)
    <3>1. ~EngineSafe(S0, z.x2)
      BY <1>5, <2>2 DEF Safe, EngineSafe
    <3>. QED  BY <1>5, <1>6, <3>1
  <2>3. CASE \E s \in V \ {S0} : After(z, s, SweepAction) >= 0
    <3>1. PICK s \in V : After(z, s, SweepAction) >= 0
      BY <2>3
    <3>2. Margin(SweepDom, s, SweepAction, z.x2) + Gain(SweepDom, s, SweepAction) >= 0
      BY <1>5, <3>1 DEF After
    <3>3. s \in DiscreteStates(SweepDom) /\ HasRule(SweepDom, s, SweepAction)
      BY <1>5
    <3>4. \E y \in NumericBall(z.x2) : ~EngineSafe(s, y)
      <4>. HIDE DEF z
      <4>. QED  BY <1>5, <3>2, <3>3, AlarmReal
    <3>. QED  BY <3>4
  <2>. QED  BY <2>1, <2>2, <2>3 DEF AnalyticUnsafe
<1>. QED  BY <1>8, <1>9

\* A rule on the first field from below is worst where that field is largest.
LEMMA ProbeWorst ==
  ASSUME SweepAssumption, PolicyAssumption, "opa" \in TrackNames,
         NEW s \in DiscreteStates(SweepDom), NEW x \in Int \X Int, NEW y \in NumericBall(x),
         ~EngineSafe(s, y)
  PROVE  ~EngineSafe(s, PlusEps(x))
<1>1. /\ HasRule(SweepDom, s, SweepAction) /\ SweepDom \in Domains
      /\ GetRule(SweepDom, s, SweepAction).family = "scalar_threshold"
      /\ GetRule(SweepDom, s, SweepAction).field = 1
      /\ GetRule(SweepDom, s, SweepAction).direction = ">="
  BY DEF PolicyAssumption, SweepAssumption
<1>2. PICK i \in RuleIds(SweepDom) : GetRule(SweepDom, s, SweepAction) = Table[SweepDom].rules[i]
  BY <1>1, GetRuleInTable
<1>. DEFINE r == Table[SweepDom].rules[i]
            c == Offset(r, s.x1)
<1>3. c \in Int /\ r.threshold \in Int
  BY <1>1, <1>2, OffsetAssumption, RuleAssumption DEF DiscreteStates
<1>4. \A w : Margin(SweepDom, s, SweepAction, w) = Resolution * w[1] - (r.threshold + c)
  BY <1>1, <1>2 DEF Margin, RuleMargin, MarginWith
<1>. DEFINE u == y[1]
            v == PlusEps(x)[1]
            k == r.threshold + c
<1>5. u \in Int /\ v \in Int /\ u <= v
  BY ProbeInBall
<1>6. ~ (Resolution * u - k < 0)
  BY <1>1, <1>4 DEF EngineSafe
<1>7. k \in Int /\ Resolution \in Nat
  BY <1>3, BudgetAssumption
<1>8. ~ (Resolution * v - k < 0)
  <2>. HIDE DEF u, v, k
  <2>1. Resolution * u <= Resolution * v /\ Resolution * u \in Int /\ Resolution * v \in Int
    BY <1>5, <1>7
  <2>. QED  BY <1>6, <1>7, <2>1
<1>. QED  BY <1>1, <1>4, <1>8 DEF EngineSafe

LEMMA ProbeComplete ==
  ASSUME SweepAssumption, PolicyAssumption, SweepTypeOK
  PROVE  OpaProbeComplete
<1>1. SUFFICES ASSUME Sweeping, Tracks[sweepTrack] = "opa", NEW i \in CertIds
               PROVE  OpaUnsafe(CertRec(i), sweepD) <=>
                        \E s \in DiscreteSwaps(SweepDom, StateOf(CertRec(i)), sweepD)
                                   \cup {StateOf(CertRec(i))},
                           y \in NumericBall(CertRec(i).x2) : ~EngineSafe(s, y)
  BY DEF OpaProbeComplete
<1>. DEFINE z == CertRec(i)
            S == DiscreteSwaps(SweepDom, StateOf(z), sweepD) \cup {StateOf(z)}
<1>2. "opa" \in TrackNames
  BY <1>1 DEF TrackNames, Numbered, Sweeping, SweepTypeOK, SweepAssumption
<1>3. z.x2 \in Int \X Int /\ S \subseteq DiscreteStates(SweepDom)
  BY RecTyped, SwapsTyped
<1>4. z.x2 \in NumericBall(z.x2) /\ PlusEps(z.x2) \in NumericBall(z.x2)
  BY <1>3, ProbeInBall
<1>5. ASSUME OpaUnsafe(z, sweepD)
      PROVE  \E s \in S, y \in NumericBall(z.x2) : ~EngineSafe(s, y)
  BY <1>4, <1>5 DEF OpaUnsafe
<1>6. ASSUME NEW s \in S, NEW y \in NumericBall(z.x2), ~EngineSafe(s, y)
      PROVE  OpaUnsafe(z, sweepD)
  <2>. HIDE DEF z
  <2>1. s \in DiscreteStates(SweepDom)
    BY <1>3
  <2>. HIDE DEF S
  <2>2. ~EngineSafe(s, PlusEps(z.x2))
    BY <1>2, <1>3, <1>6, <2>1, ProbeWorst
  <2>. QED  BY <2>2 DEF OpaUnsafe, S
<1>. QED  BY <1>5, <1>6
-----------------------------------------------------------------------------
(* The sweep as a whole.                                                   *)

\* The last budget of the track a backend has run at.
Done(backend) ==
  IF backend = "lipschitz" /\ sweepBackend = 2 THEN sweepD ELSE sweepD - 1

\* A row is by a backend that runs, of a track that was begun.
RowsBegun ==
  \A r \in sweepRows :
    /\ r.backend \in {"lipschitz", "rs_ablation"}
    /\ r.backend = "lipschitz" => sweepLipOk
    /\ \E j \in DOMAIN Tracks : j <= sweepTrack /\ Tracks[j] = r.track

\* The rows of the track under way say what its certificates allow.
RowsCurrent ==
  Sweeping =>
    \A r \in sweepRows :
      r.track = Tracks[sweepTrack] =>
        r.d <= Done(r.backend) /\ r.allowed = AllowedAt(r.backend, r.d)

HasRow(track, backend, dd) ==
  \E q \in sweepRows : q.track = track /\ q.backend = backend /\ q.d = dd

\* No budget is left out: up to the last one run in the track under way, ...
NoneMissing ==
  Sweeping =>
    \A backend \in {"lipschitz", "rs_ablation"}, dd \in 1..MaxD :
      (backend = "lipschitz" => sweepLipOk) /\ dd <= Done(backend) =>
        HasRow(Tracks[sweepTrack], backend, dd)

\* ... and of all of them in a track that is done.
RowsComplete ==
  \A r \in sweepRows :
    (Sweeping => r.track # Tracks[sweepTrack]) =>
      \A dd \in 1..MaxD : HasRow(r.track, r.backend, dd)

SummaryIsCliff ==
  sweepSummary # << >> =>
    /\ ~Sweeping
    /\ sweepSummary[1].cliff = OperationalCliff
    /\ sweepSummary[1].primary = PrimaryBackend

SweepInv ==
  /\ SweepTypeOK /\ RowsBegun /\ RowsCurrent /\ NoneMissing /\ RowsComplete
  /\ AllowanceShrinks /\ SummaryIsCliff
  /\ sweepSkipped => ~Sweeping

LEMMA TracksTyped ==
  ASSUME SweepAssumption
  PROVE  /\ Len(Tracks) \in Nat /\ DOMAIN Tracks = 1..Len(Tracks)
         /\ TrackNames \subseteq {"synthetic", "opa"} /\ MaxD \in Nat \ {0}
         /\ IsFiniteSet(TrackNames) /\ IsFiniteSet(CertIds)
<1>. DEFINE T == {"synthetic", "opa"}
            R == [z : Returns, category : {"R", "A", "B", "C", "U"}]
<1>1. Tracks \in Seq(T) /\ CertRecs \in Seq(R) /\ MaxD \in Nat \ {0}
  BY DEF SweepAssumption
<1>2. IsFiniteSet(T)
  <2>1. IsFiniteSet({"synthetic"}) /\ IsFiniteSet({"opa"})
    BY FS_Singleton
  <2>2. IsFiniteSet({"synthetic"} \cup {"opa"})
    BY <2>1, FS_Union
  <2>3. T = {"synthetic"} \cup {"opa"}
    OBVIOUS
  <2>. QED  BY <2>2, <2>3
<1>3. TrackNames \subseteq T
  <2>. HIDE DEF T
  <2>. QED  BY <1>1 DEF TrackNames, Numbered
<1>4. IsFiniteSet(TrackNames)
  <2>. HIDE DEF T
  <2>. QED  BY <1>2, <1>3, FS_Subset
<1>. HIDE DEF T, R
<1>5. Len(Tracks) \in Nat /\ DOMAIN Tracks = 1..Len(Tracks)
  BY <1>1
<1>6. Len(CertRecs) \in Nat /\ CertIds = 1..Len(CertRecs)
  BY <1>1 DEF CertIds
<1>7. IsFiniteSet(CertIds)
  BY <1>6, FS_Interval
<1>. QED  BY <1>1, <1>3, <1>4, <1>5, <1>7 DEF T

\* Once a setting is collapsed or blown up it stays so: it has a row at every budget,
\* the rows allow less and less, and what is enumerated grows.
LEMMA CliffsUpward ==
  ASSUME SweepAssumption, SweepTypeOK, RowsComplete, AllowanceShrinks, ~Sweeping,
         NEW backend, NEW m \in Cliffs(backend), NEW n \in 1..MaxD, m < n
  PROVE  n \in Cliffs(backend)
<1>1. MaxD \in Nat \ {0} /\ m \in 1..MaxD /\ m \in Nat /\ n \in Nat
  BY TracksTyped DEF Cliffs
<1>2. PICK tracks \in {{x} : x \in TrackNames} \cup {TrackNames} :
        Collapsed(backend, tracks, m) \/ BlownUp(backend, tracks, m)
  BY DEF Cliffs
<1>3. tracks \subseteq TrackNames
  OBVIOUS
<1>4. ASSUME NEW k \in 1..MaxD, NEW l \in 1..MaxD, NEW r \in RowsAt(backend, tracks, k)
      PROVE  \E q \in RowsAt(backend, tracks, l) : q.track = r.track
  <2>1. r \in sweepRows /\ r.backend = backend /\ r.track \in tracks
    BY <1>4 DEF RowsAt
  <2>2. HasRow(r.track, r.backend, l)
    BY <2>1 DEF RowsComplete
  <2>. QED  BY <2>1, <2>2 DEF HasRow, RowsAt
<1>5. SettingsAt(backend, tracks, m) = SettingsAt(backend, tracks, n)
  <2>1. ASSUME NEW k \in 1..MaxD, NEW l \in 1..MaxD, NEW x \in SettingsAt(backend, tracks, k)
        PROVE  x \in SettingsAt(backend, tracks, l)
    <3>1. PICK r \in RowsAt(backend, tracks, k) : x = r.track
      BY <2>1 DEF SettingsAt
    <3>2. PICK q \in RowsAt(backend, tracks, l) : q.track = r.track
      BY <1>4
    <3>. QED  BY <3>1, <3>2 DEF SettingsAt
  <2>. QED  BY <1>1, <2>1
<1>6. RowsAt(backend, tracks, m) # {}
  BY <1>2 DEF Collapsed, BlownUp
<1>7. RowsAt(backend, tracks, n) # {}
  <2>1. PICK r \in RowsAt(backend, tracks, m) : TRUE
    BY <1>6
  <2>. QED  BY <1>1, <1>4, <2>1
<1>8. Kept(backend, tracks, n) \subseteq Kept(backend, tracks, m)
  <2>1. SUFFICES ASSUME NEW r \in RowsAt(backend, tracks, n), NEW x \in r.allowed \cap RobustIds
                 PROVE  <<r.track, x>> \in Kept(backend, tracks, m)
    BY DEF Kept
  <2>2. PICK q \in RowsAt(backend, tracks, m) : q.track = r.track
    BY <1>1, <1>4
  <2>3. r.allowed \subseteq q.allowed
    BY <2>2 DEF RowsAt, AllowanceShrinks
  <2>4. <<q.track, x>> \in {q.track} \X (q.allowed \cap RobustIds)
    BY <2>3
  <2>. QED  BY <2>2, <2>4 DEF Kept
<1>9. CASE Collapsed(backend, tracks, m)
  <2>. DEFINE a == Cardinality(Kept(backend, tracks, m))
              b == Cardinality(Kept(backend, tracks, n))
              c == CollapseNum * (Cardinality(SettingsAt(backend, tracks, m))
                                    * Cardinality(RobustIds))
  <2>1. IsFiniteSet(Kept(backend, tracks, m))
    <3>1. Kept(backend, tracks, m) \subseteq TrackNames \X CertIds
      BY DEF Kept, RowsAt, SweepTypeOK, RobustIds
    <3>2. IsFiniteSet(TrackNames \X CertIds)
      BY TracksTyped, FS_Product
    <3>. QED  BY <3>1, <3>2, FS_Subset
  <2>2. b <= a /\ a \in Nat /\ b \in Nat
    BY <1>8, <2>1, FS_Subset, FS_CardinalityType
  <2>3. CollapseDen * a <= c /\ CollapseDen \in Nat /\ c \in Int /\ RobustIds # {}
    <3>1. SettingsAt(backend, tracks, m) \subseteq TrackNames /\ RobustIds \subseteq CertIds
      BY DEF SettingsAt, RowsAt, SweepTypeOK, RobustIds
    <3>2. IsFiniteSet(SettingsAt(backend, tracks, m)) /\ IsFiniteSet(RobustIds)
      BY <3>1, TracksTyped, FS_Subset
    <3>3. /\ Cardinality(SettingsAt(backend, tracks, m)) \in Nat
          /\ Cardinality(RobustIds) \in Nat
      BY <3>2, FS_CardinalityType
    <3>4. CollapseNum \in Nat /\ CollapseDen \in Nat
      BY DEF SweepAssumption
    <3>5. c \in Int
      BY <3>3, <3>4
    <3>. QED  BY <1>9, <3>4, <3>5 DEF Collapsed
  <2>4. CollapseDen * b <= c
    <3>. HIDE DEF a, b, c
    <3>1. CollapseDen * b <= CollapseDen * a /\ CollapseDen * b \in Int /\ CollapseDen * a \in Int
      BY <2>2, <2>3
    <3>. QED  BY <2>3, <3>1
  <2>5. Collapsed(backend, tracks, n)
    BY <1>5, <1>7, <2>3, <2>4 DEF Collapsed
  <2>. QED  BY <2>5 DEF Cliffs
<1>10. CASE BlownUp(backend, tracks, m)
  <2>1. Enumerated(m) \subseteq Enumerated(n)
    <3>1. \A i \in CertIds : ValidStates(CertRec(i), m) \subseteq ValidStates(CertRec(i), n)
      BY <1>1, ValidGrow
    <3>. QED  BY <3>1 DEF Enumerated
  <2>2. ASSUME NEW k
        PROVE  IsFiniteSet(Enumerated(k)) /\ Cardinality(Enumerated(k)) \in Nat
    <3>1. \A i \in CertIds : ValidStates(CertRec(i), k) \subseteq DiscreteStates(SweepDom)
      BY ValidTyped
    <3>2. Enumerated(k) \subseteq CertIds \X DiscreteStates(SweepDom)
      BY <3>1 DEF Enumerated
    <3>3. IsFiniteSet(CertIds \X DiscreteStates(SweepDom))
      BY TracksTyped, FS_Product DEF SweepAssumption
    <3>. QED  BY <3>2, <3>3, FS_Subset, FS_CardinalityType
  <2>3. Cardinality(Enumerated(m)) <= Cardinality(Enumerated(n))
    BY <2>1, <2>2, FS_Subset
  <2>4. Cardinality(Enumerated(m)) >= CostBlowup * Cardinality(Enumerated(1))
    BY <1>10 DEF BlownUp
  <2>5. CostBlowup * Cardinality(Enumerated(1)) \in Int
    BY <2>2 DEF SweepAssumption
  <2>6. Cardinality(Enumerated(n)) >= CostBlowup * Cardinality(Enumerated(1))
    BY <2>2, <2>3, <2>4, <2>5
  <2>7. BlownUp(backend, tracks, n)
    BY <1>7, <2>6 DEF BlownUp
  <2>. QED  BY <2>7 DEF Cliffs
<1>. QED  BY <1>2, <1>9, <1>10

LEMMA CliffIsCliff ==
  ASSUME SweepAssumption, SweepInv
  PROVE  CliffHolds
<1>. DEFINE C == Cliffs(PrimaryBackend)
<1>1. SUFFICES ASSUME sweepSummary # << >>, sweepSummary[1].cliff # 0
               PROVE  C = sweepSummary[1].cliff..MaxD
  BY DEF CliffHolds, SweepInv, SummaryIsCliff
<1>2. ~Sweeping /\ sweepSummary[1].cliff = OperationalCliff
  BY <1>1 DEF SweepInv, SummaryIsCliff
<1>3. C # {} /\ sweepSummary[1].cliff = Min(C)
  BY <1>1, <1>2 DEF OperationalCliff
<1>4. MaxD \in Nat /\ C \subseteq 1..MaxD
  BY TracksTyped DEF Cliffs
<1>5. \A m \in C, n \in 1..MaxD : m < n => n \in C
  BY <1>2, CliffsUpward DEF SweepInv
<1>. HIDE DEF C
<1>6. C \in SUBSET Nat
  BY <1>4
<1>7. \E x \in C : \A y \in C : x <= y
  BY <1>3, <1>6, LeastNatural
<1>8. Min(C) \in C /\ \A y \in C : Min(C) <= y
  BY <1>7 DEF Min
<1>9. C = Min(C)..MaxD
  <2>. DEFINE c == Min(C)
  <2>. HIDE DEF c
  <2>1. c \in C /\ c \in Nat /\ \A y \in C : c <= y
    BY <1>6, <1>8 DEF c
  <2>2. ASSUME NEW y \in C  PROVE y \in c..MaxD
    BY <1>4, <2>1
  <2>3. ASSUME NEW y \in c..MaxD  PROVE y \in C
    <3>1. y \in 1..MaxD /\ (y = c \/ c < y)
      BY <1>4, <2>1
    <3>. QED  BY <1>5, <2>1, <3>1
  <2>. QED  BY <2>2, <2>3 DEF c
<1>. QED  BY <1>3, <1>9

LEMMA SweepStarts ==
  ASSUME SweepAssumption, SweepInit
  PROVE  SweepInv
<1>1. Len(Tracks) \in Nat /\ MaxD \in Nat \ {0}
  BY TracksTyped
<1>2. SweepTypeOK
  <2>1. 1 \in 1..(Len(Tracks) + 1) /\ 1 \in 1..MaxD /\ 1 \in 1..2
    BY <1>1
  <2>. QED  BY <2>1 DEF SweepInit, SweepTypeOK
<1>3. RowsBegun /\ RowsCurrent /\ RowsComplete /\ AllowanceShrinks /\ SummaryIsCliff
  BY DEF SweepInit, RowsBegun, RowsCurrent, RowsComplete, AllowanceShrinks, SummaryIsCliff
<1>4. NoneMissing
  BY <1>1 DEF SweepInit, NoneMissing, Done
<1>. QED  BY <1>2, <1>3, <1>4 DEF SweepInv, SweepInit
\* The last budget a backend has run at once the cell under way is done.
DoneAfter(backend) ==
  IF backend = "lipschitz" \/ sweepBackend = 2 THEN sweepD ELSE sweepD - 1

\* What EvalBackend makes of the rows, before it moves on to the next cell.
BegunAfter ==
  \A r \in sweepRows' :
    /\ r.backend \in {"lipschitz", "rs_ablation"}
    /\ r.backend = "lipschitz" => sweepLipOk
    /\ \E j \in DOMAIN Tracks : j <= sweepTrack /\ Tracks[j] = r.track

CurrentAfter ==
  \A r \in sweepRows' :
    r.track = Tracks[sweepTrack] =>
      r.d <= DoneAfter(r.backend) /\ r.allowed = AllowedAt(r.backend, r.d)

HasRowAfter(track, backend, dd) ==
  \E q \in sweepRows' : q.track = track /\ q.backend = backend /\ q.d = dd

NoneMissingAfter ==
  \A backend \in {"lipschitz", "rs_ablation"}, dd \in 1..MaxD :
    (backend = "lipschitz" => sweepLipOk) /\ dd <= DoneAfter(backend) =>
      HasRowAfter(Tracks[sweepTrack], backend, dd)

CompleteAfter ==
  \A r \in sweepRows' :
    r.track # Tracks[sweepTrack] => \A dd \in 1..MaxD : HasRowAfter(r.track, r.backend, dd)

\* One more row: it is the first of its backend at this budget, the last budget of all.
LEMMA RowAdded ==
  ASSUME SweepAssumption, SweepInv, EvalBackend
  PROVE  /\ BegunAfter /\ CurrentAfter /\ NoneMissingAfter /\ CompleteAfter
         /\ AllowanceShrinks'
         /\ \A r \in sweepRows' : /\ r.track \in TrackNames /\ r.d \in 1..MaxD
                                  /\ r.falseAllow \subseteq r.allowed /\ r.allowed \subseteq CertIds
<1>. DEFINE n == BackendRow
            b == SweepBackends[sweepBackend]
            t == Tracks[sweepTrack]
            runs == b = "lipschitz" => sweepLipOk
<1>1. /\ n.track = t /\ n.d = sweepD /\ n.backend = b /\ n.allowed = AllowedAt(b, sweepD)
      /\ n.falseAllow \subseteq n.allowed
  BY DEF BackendRow
<1>2. /\ sweepTrack \in DOMAIN Tracks /\ t \in TrackNames /\ sweepTrack \in Nat
      /\ sweepD \in 1..MaxD /\ sweepD \in Nat \ {0} /\ sweepBackend \in {1, 2}
      /\ MaxD \in Nat /\ Sweeping
  BY TracksTyped DEF EvalBackend, Sweeping, SweepInv, SweepTypeOK, TrackNames, Numbered
<1>3. (sweepBackend = 1 /\ b = "lipschitz") \/ (sweepBackend = 2 /\ b = "rs_ablation")
  BY <1>2 DEF SweepBackends
<1>4. sweepRows' = IF runs THEN sweepRows \cup {n} ELSE sweepRows
  BY DEF EvalBackend
<1>5. \A r \in sweepRows' : r \in sweepRows \/ (r = n /\ runs)
  BY <1>4
<1>6. \A r \in sweepRows : r \in sweepRows'
  BY <1>4
<1>7. runs => n \in sweepRows'
  BY <1>4
<1>8. AllowedAt(b, sweepD) \subseteq CertIds
  BY DEF AllowedAt
<1>9. \A r \in sweepRows : r.track = t => r.d <= Done(r.backend)
                                         /\ r.allowed = AllowedAt(r.backend, r.d)
  BY <1>2 DEF SweepInv, RowsCurrent
<1>10. \A r \in sweepRows : r.d \in 1..MaxD /\ r.backend \in {"lipschitz", "rs_ablation"}
  BY DEF SweepInv, SweepTypeOK, RowsBegun
<1>11. \A r \in sweepRows : r.track = t /\ r.backend = b => r.d < sweepD
  BY <1>2, <1>3, <1>9, <1>10 DEF Done
<1>12. \A r \in sweepRows' : /\ r.track \in TrackNames /\ r.d \in 1..MaxD
                             /\ r.falseAllow \subseteq r.allowed /\ r.allowed \subseteq CertIds
  <2>. HIDE DEF n, b, t, runs
  <2>. QED  BY <1>1, <1>2, <1>5, <1>8 DEF SweepInv, SweepTypeOK
<1>13. BegunAfter
  <2>. HIDE DEF n
  <2>. QED  BY <1>1, <1>2, <1>3, <1>5 DEF BegunAfter, SweepInv, RowsBegun
<1>14. CurrentAfter
  <2>1. ASSUME NEW r \in sweepRows, r.track = t
        PROVE  r.d <= DoneAfter(r.backend) /\ r.allowed = AllowedAt(r.backend, r.d)
    BY <1>2, <1>9, <1>10, <2>1 DEF Done, DoneAfter
  <2>2. n.d <= DoneAfter(n.backend) /\ n.allowed = AllowedAt(n.backend, n.d)
    BY <1>1, <1>2, <1>3 DEF DoneAfter
  <2>. HIDE DEF n
  <2>. QED  BY <1>5, <2>1, <2>2 DEF CurrentAfter
<1>15. NoneMissingAfter
  <2>1. SUFFICES ASSUME NEW be \in {"lipschitz", "rs_ablation"}, NEW dd \in 1..MaxD,
                        be = "lipschitz" => sweepLipOk, dd <= DoneAfter(be)
                 PROVE  HasRowAfter(t, be, dd)
    BY DEF NoneMissingAfter
  <2>2. CASE dd <= Done(be)
    <3>1. HasRow(t, be, dd)
      BY <1>2, <2>1, <2>2 DEF SweepInv, NoneMissing
    <3>. QED  BY <1>6, <3>1 DEF HasRow, HasRowAfter
  <2>3. CASE ~ (dd <= Done(be))
    <3>1. be = b /\ dd = sweepD
      BY <1>2, <1>3, <2>1, <2>3 DEF Done, DoneAfter
    <3>2. runs
      BY <2>1, <3>1
    <3>. HIDE DEF n, runs
    <3>. QED  BY <1>1, <1>7, <3>1, <3>2 DEF HasRowAfter
  <2>. QED  BY <2>2, <2>3
<1>16. CompleteAfter
  <2>1. SUFFICES ASSUME NEW r \in sweepRows', r.track # t, NEW dd \in 1..MaxD
                 PROVE  HasRowAfter(r.track, r.backend, dd)
    BY DEF CompleteAfter
  <2>2. r \in sweepRows
    BY <1>1, <1>5, <2>1
  <2>3. HasRow(r.track, r.backend, dd)
    BY <2>1, <2>2 DEF SweepInv, RowsComplete
  <2>. QED  BY <1>6, <2>3 DEF HasRow, HasRowAfter
<1>17. AllowanceShrinks'
  <2>1. SUFFICES ASSUME NEW r \in sweepRows', NEW q \in sweepRows',
                        r.track = q.track, r.backend = q.backend, r.d < q.d
                 PROVE  q.allowed \subseteq r.allowed
    BY DEF AllowanceShrinks
  <2>2. CASE r \in sweepRows /\ q \in sweepRows
    BY <2>1, <2>2 DEF SweepInv, AllowanceShrinks
  <2>3. CASE q = n
    <3>1. r \in sweepRows
      BY <1>1, <1>2, <1>5, <2>1, <2>3
    <3>2. r.allowed = AllowedAt(b, r.d) /\ r.d \in 1..MaxD
      BY <1>1, <1>9, <1>10, <2>1, <2>3, <3>1
    <3>3. r.d \in Nat /\ r.d <= sweepD
      BY <1>1, <1>2, <2>1, <2>3, <3>2
    <3>4. SweepTypeOK
      BY DEF SweepInv
    <3>5. AllowedAt(b, sweepD) \subseteq AllowedAt(b, r.d)
      <4>. HIDE DEF b
      <4>. QED  BY <1>2, <3>3, <3>4, AllowedShrinks
    <3>. QED  BY <1>1, <2>3, <3>2, <3>5
  <2>4. CASE r = n /\ q \in sweepRows
    <3>1. q.d < sweepD
      BY <1>1, <1>11, <2>1, <2>4
    <3>. QED  BY <1>1, <1>2, <1>10, <2>1, <2>4, <3>1
  <2>. QED  BY <1>5, <2>2, <2>3, <2>4
<1>. QED  BY <1>12, <1>13, <1>14, <1>15, <1>16, <1>17

LEMMA EvalSteps ==
  ASSUME SweepAssumption, SweepInv, EvalBackend
  PROVE  SweepInv'
<1>. DEFINE t == Tracks[sweepTrack]
<1>1. /\ sweepTrack \in 1..Len(Tracks) /\ Len(Tracks) \in Nat /\ DOMAIN Tracks = 1..Len(Tracks)
      /\ sweepD \in 1..MaxD /\ sweepBackend \in {1, 2} /\ MaxD \in Nat \ {0} /\ Sweeping
  BY TracksTyped DEF EvalBackend, Sweeping, SweepInv, SweepTypeOK
<1>2. sweepSkipped = FALSE /\ sweepSummary = << >>
  BY <1>1 DEF SweepInv, SummaryIsCliff, SweepTypeOK
<1>3. UNCHANGED <<sweepLipOk, sweepSkipped, sweepSummary>> /\ Len(SweepBackends) = 2
  BY DEF EvalBackend, SweepBackends
<1>4. \/ sweepBackend = 1 /\ sweepBackend' = 2
         /\ UNCHANGED <<sweepTrack, sweepD, sweepGate, sweepDraws>>
      \/ sweepBackend = 2 /\ sweepD < MaxD /\ sweepBackend' = 1 /\ sweepD' = sweepD + 1
         /\ UNCHANGED <<sweepTrack, sweepGate, sweepDraws>>
      \/ sweepBackend = 2 /\ sweepD = MaxD /\ sweepBackend' = 1 /\ sweepD' = 1
         /\ sweepTrack' = sweepTrack + 1
         /\ sweepGate' \in LipGates /\ sweepDraws' \in [CertIds -> CountMaps]
  BY <1>1, <1>3 DEF EvalBackend, NextCell, TrainGates, SweepInv, SweepTypeOK
<1>5. SweepTypeOK'
  <2>1. /\ sweepTrack' \in 1..(Len(Tracks) + 1) /\ sweepD' \in 1..MaxD /\ sweepBackend' \in 1..2
    BY <1>1, <1>4
  <2>2. sweepLipOk' \in BOOLEAN /\ sweepSkipped' = FALSE
    BY <1>2, <1>3 DEF SweepInv, SweepTypeOK
  <2>3. sweepGate' \in LipGates /\ sweepDraws' \in [CertIds -> CountMaps]
    BY <1>4 DEF SweepInv, SweepTypeOK
  <2>. QED  BY <2>1, <2>2, <2>3, RowAdded DEF SweepTypeOK
<1>6. SummaryIsCliff' /\ (sweepSkipped => ~Sweeping)'
  BY <1>2, <1>3 DEF SummaryIsCliff
<1>7. sweepTrack <= sweepTrack' /\ sweepTrack' \in Nat
  BY <1>1, <1>4
<1>8. RowsBegun'
  <2>1. \A j \in DOMAIN Tracks : j <= sweepTrack => j <= sweepTrack'
    BY <1>1, <1>7
  <2>. QED  BY <1>3, <2>1, RowAdded DEF RowsBegun, BegunAfter
<1>9. BegunAfter /\ CurrentAfter /\ NoneMissingAfter /\ CompleteAfter /\ AllowanceShrinks'
  BY RowAdded
<1>10. CASE sweepTrack' = sweepTrack /\ UNCHANGED <<sweepGate, sweepDraws>>
            /\ \A be : DoneAfter(be) = Done(be)'
  <2>1. \A be, dd : AllowedAt(be, dd)' = AllowedAt(be, dd)
    BY <1>10 DEF AllowedAt, BackendAllows
  <2>2. \A be, tt, dd : HasRowAfter(tt, be, dd) = HasRow(tt, be, dd)'
    BY DEF HasRow, HasRowAfter
  <2>3. Sweeping'
    BY <1>1, <1>10 DEF Sweeping
  <2>4. RowsCurrent'
    BY <1>9, <1>10, <2>1 DEF CurrentAfter, RowsCurrent
  <2>5. NoneMissing'
    BY <1>3, <1>9, <1>10, <2>2 DEF NoneMissingAfter, NoneMissing
  <2>6. RowsComplete'
    BY <1>9, <1>10, <2>2, <2>3 DEF CompleteAfter, RowsComplete
  <2>. QED  BY <1>5, <1>6, <1>8, <1>9, <2>4, <2>5, <2>6 DEF SweepInv
<1>11. CASE sweepBackend = 1 /\ sweepBackend' = 2
            /\ UNCHANGED <<sweepTrack, sweepD, sweepGate, sweepDraws>>
  <2>1. \A be : DoneAfter(be) = Done(be)'
    BY <1>11 DEF Done, DoneAfter
  <2>. QED  BY <1>10, <1>11, <2>1
<1>12. CASE sweepBackend = 2 /\ sweepBackend' = 1 /\ sweepD' = sweepD + 1
            /\ UNCHANGED <<sweepTrack, sweepGate, sweepDraws>>
  <2>1. \A be : DoneAfter(be) = Done(be)'
    BY <1>1, <1>12 DEF Done, DoneAfter
  <2>. QED  BY <1>10, <1>12, <2>1
<1>13. CASE sweepBackend = 2 /\ sweepD = MaxD /\ sweepBackend' = 1 /\ sweepD' = 1
            /\ sweepTrack' = sweepTrack + 1
  <2>1. \A be : DoneAfter(be) = MaxD
    BY <1>13 DEF DoneAfter
  <2>2. ASSUME Sweeping'
        PROVE  /\ sweepTrack' \in DOMAIN Tracks
               /\ \A r \in sweepRows' : r.track # Tracks[sweepTrack']
    <3>1. sweepTrack' \in DOMAIN Tracks
      BY <1>1, <1>13, <2>2 DEF Sweeping
    <3>2. \A j \in DOMAIN Tracks : j <= sweepTrack => Tracks[j] # Tracks[sweepTrack']
      BY <1>1, <1>13, <3>1 DEF SweepAssumption
    <3>. QED  BY <1>9, <3>1, <3>2 DEF BegunAfter
  <2>3. RowsCurrent'
    BY <2>2 DEF RowsCurrent
  <2>4. NoneMissing'
    BY <1>1, <1>13 DEF NoneMissing, Done
  <2>5. RowsComplete'
    <3>1. SUFFICES ASSUME NEW r \in sweepRows', NEW dd \in 1..MaxD
                   PROVE  HasRow(r.track, r.backend, dd)'
      BY DEF RowsComplete
    <3>2. HasRowAfter(r.track, r.backend, dd)
      <4>1. CASE r.track = t
        <5>1. r.backend \in {"lipschitz", "rs_ablation"} /\ (r.backend = "lipschitz" => sweepLipOk)
          BY <1>9 DEF BegunAfter
        <5>2. dd <= DoneAfter(r.backend)
          BY <1>1, <2>1
        <5>. QED  BY <1>9, <4>1, <5>1, <5>2 DEF NoneMissingAfter
      <4>2. CASE r.track # t
        BY <1>9, <4>2 DEF CompleteAfter
      <4>. QED  BY <4>1, <4>2
    <3>. QED  BY <3>2 DEF HasRow, HasRowAfter
  <2>. QED  BY <1>5, <1>6, <1>8, <1>9, <2>3, <2>4, <2>5 DEF SweepInv
<1>. QED  BY <1>4, <1>11, <1>12, <1>13

\* What SkipOpa leaves are the rows of the tracks before, and nothing is under way.
LEMMA SkipSteps ==
  ASSUME SweepAssumption, SweepInv, SkipOpa
  PROVE  SweepInv'
<1>1. /\ Sweeping /\ Tracks[sweepTrack] = "opa" /\ Len(Tracks) \in Nat /\ MaxD \in Nat \ {0}
      /\ sweepTrack \in 1..Len(Tracks)
  BY TracksTyped DEF SkipOpa, SweepInv, SweepTypeOK, Sweeping
<1>2. /\ sweepRows' = {r \in sweepRows : r.track # "opa"}
      /\ sweepTrack' = Len(Tracks) + 1 /\ sweepD' = 1 /\ sweepBackend' = 1 /\ sweepSkipped' = TRUE
      /\ UNCHANGED <<sweepLipOk, sweepGate, sweepDraws, sweepSummary>>
  BY DEF SkipOpa
<1>3. ~Sweeping' /\ sweepTrack <= sweepTrack' /\ sweepSummary' = << >>
  BY <1>1, <1>2 DEF Sweeping, SweepInv, SummaryIsCliff
<1>4. SweepTypeOK'
  <2>1. sweepTrack' \in 1..(Len(Tracks) + 1) /\ sweepD' \in 1..MaxD /\ sweepBackend' \in 1..2
    BY <1>1, <1>2
  <2>. QED  BY <1>2, <2>1 DEF SweepInv, SweepTypeOK
<1>5. RowsBegun'
  <2>1. \A j \in DOMAIN Tracks : j <= sweepTrack => j <= sweepTrack'
    BY <1>1, <1>2, TracksTyped
  <2>. QED  BY <1>2, <2>1 DEF SweepInv, RowsBegun
<1>6. RowsCurrent' /\ NoneMissing' /\ SummaryIsCliff' /\ (sweepSkipped => ~Sweeping)'
  BY <1>3 DEF RowsCurrent, NoneMissing, SummaryIsCliff
<1>7. RowsComplete'
  <2>1. SUFFICES ASSUME NEW r \in sweepRows', NEW dd \in 1..MaxD
                 PROVE  HasRow(r.track, r.backend, dd)'
    BY DEF RowsComplete
  <2>2. r \in sweepRows /\ r.track # "opa"
    BY <1>2
  <2>3. HasRow(r.track, r.backend, dd)
    BY <1>1, <2>2 DEF SweepInv, RowsComplete
  <2>. QED  BY <1>2, <2>2, <2>3 DEF HasRow
<1>8. AllowanceShrinks'
  BY <1>2 DEF SweepInv, AllowanceShrinks
<1>. QED  BY <1>4, <1>5, <1>6, <1>7, <1>8 DEF SweepInv

\* A step that leaves the sweep as it is, for the summary too.
LEMMA RowsKept ==
  ASSUME SweepInv, UNCHANGED <<sweepTrack, sweepD, sweepBackend, sweepLipOk, sweepGate, sweepDraws,
                               sweepRows, sweepSkipped>>
  PROVE  /\ SweepTypeOK' /\ RowsBegun' /\ RowsCurrent' /\ NoneMissing' /\ RowsComplete'
         /\ AllowanceShrinks' /\ (sweepSkipped => ~Sweeping)' /\ Sweeping' = Sweeping
         /\ OperationalCliff' = OperationalCliff /\ PrimaryBackend' = PrimaryBackend
<1>1. SweepTypeOK' /\ Sweeping' = Sweeping
  BY DEF SweepInv, SweepTypeOK, Sweeping
<1>2. RowsBegun' /\ AllowanceShrinks' /\ (sweepSkipped => ~Sweeping)'
  BY <1>1 DEF SweepInv, RowsBegun, AllowanceShrinks
<1>3. \A be, dd : AllowedAt(be, dd)' = AllowedAt(be, dd) /\ Done(be)' = Done(be)
  BY DEF AllowedAt, BackendAllows, Done
<1>4. \A be, tt, dd : HasRow(tt, be, dd)' = HasRow(tt, be, dd)
  BY DEF HasRow
<1>5. RowsCurrent'
  BY <1>1, <1>3 DEF SweepInv, RowsCurrent
<1>6. NoneMissing'
  BY <1>1, <1>3, <1>4 DEF SweepInv, NoneMissing
<1>7. RowsComplete'
  BY <1>1, <1>4 DEF SweepInv, RowsComplete
<1>8. PrimaryBackend' = PrimaryBackend
  BY DEF PrimaryBackend
<1>9. \A be, tt, dd : RowsAt(be, tt, dd)' = RowsAt(be, tt, dd)
  BY DEF RowsAt
<1>10. \A be, tt, dd : /\ Collapsed(be, tt, dd)' = Collapsed(be, tt, dd)
                      /\ BlownUp(be, tt, dd)' = BlownUp(be, tt, dd)
  BY <1>9 DEF Collapsed, BlownUp, Kept, SettingsAt
<1>11. \A be : Cliffs(be)' = Cliffs(be)
  BY <1>10 DEF Cliffs
<1>12. OperationalCliff' = OperationalCliff
  BY <1>8, <1>11 DEF OperationalCliff
<1>. QED  BY <1>1, <1>2, <1>5, <1>6, <1>7, <1>8, <1>12

LEMMA SweepInvSound ==
  ASSUME SweepAssumption, PolicyAssumption, SweepInv
  PROVE  SweepIsSound
BY LipSound, GateErrors, ProbeComplete, CliffIsCliff DEF SweepIsSound, SweepInv

\* The discrete-budget sweep, whatever the gates learned and the smoothing drew: what a
\* backend allows is sound for its gate, a false allow is the gate's error, the engine's
\* one probe per branch is complete, a larger budget never brings a record back, and the
\* cliff reported is one.
THEOREM SweepTheorem ==
  ASSUME SweepAssumption, PolicyAssumption
  PROVE  SweepSpec => []SweepIsSound
<1>1. SweepInit => SweepInv
  BY SweepStarts
<1>2. SweepInv /\ [SweepNext]_sweepVars => SweepInv'
  <2>. SUFFICES ASSUME SweepInv, [SweepNext]_sweepVars  PROVE SweepInv'
    OBVIOUS
  <2>1. CASE EvalBackend
    BY <2>1, EvalSteps
  <2>2. CASE SkipOpa
    BY <2>2, SkipSteps
  <2>3. CASE Summarise
    <3>1. /\ ~Sweeping /\ sweepSummary'[1].cliff = OperationalCliff
          /\ sweepSummary'[1].primary = PrimaryBackend
          /\ UNCHANGED <<sweepTrack, sweepD, sweepBackend, sweepLipOk, sweepGate, sweepDraws,
                         sweepRows, sweepSkipped>>
      BY <2>3 DEF Summarise
    <3>2. SummaryIsCliff'
      BY <3>1, RowsKept DEF SummaryIsCliff
    <3>. QED  BY <3>1, <3>2, RowsKept DEF SweepInv
  <2>4. CASE UNCHANGED sweepVars
    <3>1. UNCHANGED <<sweepTrack, sweepD, sweepBackend, sweepLipOk, sweepGate, sweepDraws,
                      sweepRows, sweepSkipped>> /\ sweepSummary' = sweepSummary
      BY <2>4 DEF sweepVars
    <3>2. SummaryIsCliff'
      BY <3>1, RowsKept DEF SweepInv, SummaryIsCliff
    <3>. QED  BY <3>1, <3>2, RowsKept DEF SweepInv
  <2>. QED  BY <2>1, <2>2, <2>3, <2>4 DEF SweepNext
<1>3. SweepInv => SweepIsSound
  BY SweepInvSound
<1>. QED  BY <1>1, <1>2, <1>3, PTL DEF SweepSpec
=============================================================================
