-------------------------- MODULE RuleOracleProofs --------------------------
(***************************************************************************)
(* Lemmas about the oracle's operators, for every rule table: rule lookup  *)
(* returns a rule of the table, margins are integers, the closed-form gain *)
(* dominates every move of the L2 ball, and the joint and continuous       *)
(* reachability tests together cover the hybrid budget.                    *)
(***************************************************************************)
EXTENDS RuleOracle, FiniteSetTheorems, WellFoundedInduction, TLAPS

\* A non-empty set of naturals has a least element.
LEMMA LeastNatural ==
  ASSUME NEW T \in SUBSET Nat, T # {}
  PROVE  \E n \in T : \A m \in T : n <= m
<1>. DEFINE R == {ss \in Nat \X Nat : ss[1] < ss[2]}
<1>1. IsWellFoundedOn(R, Nat)
  BY NatLessThanWellFounded, Zenon DEF OpToRel
<1>2. \E n \in T : \A m \in T : ~ (<<m, n>> \in R)
  <2>. HIDE DEF R
  <2>. QED  BY <1>1, WFMin
<1>3. PICK n \in T : \A m \in T : ~ (m < n)
  BY <1>2
<1>. QED  BY <1>3

\* A context fixes at most every field of the domain.
LEMMA SpecificityBounded ==
  ASSUME NEW dom \in Domains, NEW i \in RuleIds(dom)
  PROVE  /\ Cardinality(Fields(dom)) \in Nat
         /\ Specificity(dom, i) \in 0..Cardinality(Fields(dom))
<1>1. IsFiniteSet(Fields(dom))
  BY TableAssumption
<1>2. DOMAIN Table[dom].rules[i].context \in SUBSET Fields(dom)
  BY TableAssumption
<1>3. Cardinality(Fields(dom)) \in Nat
  BY <1>1, FS_CardinalityType
<1>4. /\ IsFiniteSet(DOMAIN Table[dom].rules[i].context)
      /\ Specificity(dom, i) <= Cardinality(Fields(dom))
  BY <1>1, <1>2, FS_Subset DEF Specificity
<1>5. Specificity(dom, i) \in Nat
  BY <1>4, FS_CardinalityType DEF Specificity
<1>. QED  BY <1>3, <1>4, <1>5

\* get_rule returns a rule of the table that matches the tool, the action and
\* the context whenever there is one.
LEMMA GetRuleMatches ==
  ASSUME NEW dom \in Domains, NEW s, NEW a, HasRule(dom, s, a)
  PROVE  \E i \in Matching(dom, s, a) : GetRule(dom, s, a) = Table[dom].rules[i]
<1>. DEFINE M == Matching(dom, s, a)
            N == Cardinality(Fields(dom))
            Best(i) == \A j \in M :
                         \/ Specificity(dom, i) > Specificity(dom, j)
                         \/ Specificity(dom, i) = Specificity(dom, j) /\ i <= j
<1>1. M # {} /\ M \subseteq RuleIds(dom) /\ M \subseteq Nat
  BY TableAssumption DEF HasRule, Matching
<1>2. N \in Nat /\ \A i \in M : Specificity(dom, i) \in 0..N
  BY <1>1, SpecificityBounded
<1>. HIDE DEF M, N
<1>3. PICK i \in M : \A j \in M : Specificity(dom, j) <= Specificity(dom, i)
  <2>. DEFINE T == {N - Specificity(dom, i) : i \in M}
  <2>1. T \in SUBSET Nat /\ T # {}
    <3>1. ASSUME NEW j \in M PROVE N - Specificity(dom, j) \in Nat
      BY <1>2
    <3>. QED  BY <3>1, <1>1
  <2>2. PICK n \in T : \A m \in T : n <= m
    <3>. HIDE DEF T
    <3>. QED  BY <2>1, LeastNatural
  <2>3. PICK i \in M : n = N - Specificity(dom, i)
    OBVIOUS
  <2>4. ASSUME NEW j \in M PROVE Specificity(dom, j) <= Specificity(dom, i)
    <3>1. N - Specificity(dom, i) <= N - Specificity(dom, j)
      BY <2>2, <2>3
    <3>. QED  BY <3>1, <1>2
  <2>. QED  BY <2>4
<1>4. PICK k \in M : Best(k)
  <2>. DEFINE U == {j \in M : Specificity(dom, j) = Specificity(dom, i)}
  <2>1. U \in SUBSET Nat /\ U # {}
    BY <1>1
  <2>2. PICK n \in U : \A m \in U : n <= m
    <3>. HIDE DEF U
    <3>. QED  BY <2>1, LeastNatural
  <2>3. ASSUME NEW j \in M
        PROVE  \/ Specificity(dom, n) > Specificity(dom, j)
               \/ Specificity(dom, n) = Specificity(dom, j) /\ n <= j
    <3>1. CASE j \in U  BY <3>1, <2>2
    <3>2. CASE j \notin U
      BY <3>2, <1>2, <1>3
    <3>. QED  BY <3>1, <3>2
  <2>. QED  BY <2>3
<1>5. GetRule(dom, s, a) = Table[dom].rules[CHOOSE j \in M : Best(j)]
  BY DEF GetRule, M
<1>6. (CHOOSE j \in M : Best(j)) \in M
  <2>. HIDE DEF Best
  <2>. QED  BY <1>4
<1>. QED  BY <1>5, <1>6 DEF M

-----------------------------------------------------------------------------
(* Typing.                                                                 *)

\* The rule in force at a typed state is one of the table's.
LEMMA GetRuleInTable ==
  ASSUME NEW dom \in Domains, NEW s, NEW a, HasRule(dom, s, a)
  PROVE  \E i \in RuleIds(dom) : GetRule(dom, s, a) = Table[dom].rules[i]
BY GetRuleMatches DEF Matching

\* Substituting alternatives into a typed state gives a typed state.
LEMMA SwapsTyped ==
  ASSUME NEW dom \in Domains, NEW s \in DiscreteStates(dom), NEW d
  PROVE  DiscreteSwaps(dom, s, d) \subseteq DiscreteStates(dom)
<1>1. SUFFICES ASSUME NEW combo \in SUBSET Slots(dom, s), NEW c \in Picks(dom, s, combo)
               PROVE  Substitute(s, c) \in DiscreteStates(dom)
  BY DEF DiscreteSwaps
<1>2. s.tool \in Tools(dom) /\ s.x1 \in Contexts(dom) /\ DOMAIN s.x1 = Fields(dom)
  BY DEF DiscreteStates, Contexts
<1>3. DOMAIN c = combo /\ \A slot \in combo : c[slot] \in Alternatives(dom, s, slot)
  BY DEF Picks
<1>4. "tool" \notin Fields(dom)
  BY TableAssumption
<1>5. Substitute(s, c).tool \in Tools(dom)
  BY <1>2, <1>3 DEF Substitute, Alternatives
<1>6. \A f \in Fields(dom) : Substitute(s, c).x1[f] \in Allowed(dom, f)
  BY <1>2, <1>3, <1>4 DEF Substitute, Alternatives, Contexts
<1>7. Substitute(s, c).x1 \in Contexts(dom)
  BY <1>2, <1>6 DEF Substitute, Contexts
<1>. QED  BY <1>5, <1>7 DEF Substitute, DiscreteStates

LEMMA BackedSwapsTyped ==
  ASSUME NEW z \in Returns, NEW a, NEW s \in BackedSwaps(z, a)
  PROVE  s \in DiscreteStates(z.domain) /\ HasRule(z.domain, s, a)
BY SwapsTyped DEF BackedSwaps, Returns

\* A correction shifts a margin by an integer, so every margin is one.
LEMMA MarginTyped ==
  ASSUME NEW dom \in Domains, NEW i \in RuleIds(dom), NEW c \in Int, NEW x \in Int \X Int
  PROVE  MarginWith(Table[dom].rules[i], c, x) \in Int
<1>. DEFINE r == Table[dom].rules[i]
<1>1. x[1] \in Int /\ x[2] \in Int
  OBVIOUS
<1>2. CASE r.family = "affine"
  <2>1. r.weights \in Int \X Int /\ r.bias \in Int
    BY <1>2, RuleAssumption
  <2>2. r.weights[1] * x[1] \in Int /\ r.weights[2] * x[2] \in Int
    BY <2>1, <1>1
  <2>. QED  BY <1>2, <2>1, <2>2 DEF MarginWith, Dot
<1>3. CASE r.family # "affine"
  <2>1. r.field \in {1, 2} /\ r.threshold \in Int
    BY <1>3, RuleAssumption
  <2>2. Resolution * x[r.field] \in Int
    BY <2>1, <1>1, BudgetAssumption
  <2>. QED  BY <1>3, <2>1, <2>2 DEF MarginWith
<1>. QED  BY <1>2, <1>3

LEMMA GainTyped ==
  ASSUME NEW dom \in Domains, NEW i \in RuleIds(dom)
  PROVE  RuleGain(Table[dom].rules[i]) \in Nat
BY RuleAssumption, BudgetAssumption DEF RuleGain

\* Margin and gain of a typed, ruled state.
LEMMA MarginAtState ==
  ASSUME NEW d \in Domains, NEW s \in DiscreteStates(d), NEW a, HasRule(d, s, a),
         NEW x \in Int \X Int
  PROVE  Margin(d, s, a, x) \in Int /\ Gain(d, s, a) \in Nat
<1>1. PICK i \in RuleIds(d) : GetRule(d, s, a) = Table[d].rules[i]
  BY GetRuleInTable
<1>2. Offset(Table[d].rules[i], s.x1) \in Int
  BY OffsetAssumption DEF DiscreteStates
<1>. QED  BY <1>1, <1>2, MarginTyped, GainTyped DEF Margin, RuleMargin, Gain

-----------------------------------------------------------------------------
(* The closed-form gain dominates the L2 ball.                             *)

\* Cauchy-Schwarz in the plane, against an integer bound: if the product of
\* the squared norms is below (g+1)^2 then the inner product is at most g.
LEMMA CauchySchwarz ==
  ASSUME NEW a \in Int, NEW b \in Int, NEW p \in Int, NEW q \in Int, NEW g \in Nat,
         (a * a + b * b) * (p * p + q * q) < (g + 1) * (g + 1)
  PROVE  a * p + b * q <= g
<1>. DEFINE D == a * p + b * q
            X == a * q - b * p
<1>1. D \in Int /\ X \in Int
  OBVIOUS
<1>2. (a * a + b * b) * (p * p + q * q) = D * D + X * X
  OBVIOUS
<1>3. D * D < (g + 1) * (g + 1)
  <2>. HIDE DEF D, X
  <2>1. X * X >= 0
    BY <1>1
  <2>. QED  BY <1>1, <1>2, <2>1
<1>4. SUFFICES ASSUME D >= g + 1 PROVE FALSE
  BY <1>1
<1>5. D * D >= (g + 1) * (g + 1)
  <2>. HIDE DEF D
  <2>. QED  BY <1>1, <1>4
<1>. QED
  <2>. HIDE DEF D
  <2>. QED  BY <1>1, <1>3, <1>5

LEMMA SquareBound ==
  ASSUME NEW u \in Int, NEW v \in Int, NEW e \in Nat, u * u + v * v <= e * e
  PROVE  -e <= u /\ u <= e /\ -e <= v /\ v <= e
<1>1. u * u >= 0 /\ v * v >= 0
  OBVIOUS
<1>2. u * u <= e * e /\ v * v <= e * e
  BY <1>1
<1>3. ASSUME NEW w \in Int, w * w <= e * e PROVE -e <= w /\ w <= e
  <2>1. ASSUME w >= e + 1 PROVE FALSE
    <3>1. w * w >= (e + 1) * (e + 1)
      BY <2>1
    <3>. QED  BY <3>1, <1>3
  <2>2. ASSUME -w >= e + 1 PROVE FALSE
    <3>1. (-w) * (-w) >= (e + 1) * (e + 1)
      BY <2>2
    <3>. QED  BY <3>1, <1>3
  <2>. QED  BY <2>1, <2>2
<1>. QED  BY <1>2, <1>3

\* No numeric point of the ball raises a rule's margin by more than its gain:
\* why continuous_reachable_unsafe may test m + eps*||w|| only.
THEOREM GainDominates ==
  ASSUME NEW dom \in Domains, NEW i \in RuleIds(dom), NEW c \in Int,
         NEW x \in Int \X Int, NEW y \in Int \X Int, Near(x, y)
  PROVE  MarginWith(Table[dom].rules[i], c, y)
           <= MarginWith(Table[dom].rules[i], c, x) + RuleGain(Table[dom].rules[i])
<1>. DEFINE r == Table[dom].rules[i]
            p == y[1] - x[1]
            q == y[2] - x[2]
<1>1. /\ x[1] \in Int /\ x[2] \in Int /\ y[1] \in Int /\ y[2] \in Int
      /\ p \in Int /\ q \in Int /\ p * p + q * q <= Eps * Eps
  BY DEF Near
<1>2. CASE r.family = "affine"
  <2>. DEFINE a == r.weights[1]
              b == r.weights[2]
  <2>1. /\ a \in Int /\ b \in Int /\ r.bias \in Int /\ r.gain \in Nat
        /\ (Eps * Eps) * (a * a + b * b) < (r.gain + 1) * (r.gain + 1)
    BY <1>2, RuleAssumption DEF Dot
  <2>2. (a * a + b * b) * (p * p + q * q) <= (a * a + b * b) * (Eps * Eps)
    <3>1. a * a + b * b \in Nat
      BY <2>1
    <3>2. p * p + q * q \in Int /\ Eps * Eps \in Int
      BY <1>1, BudgetAssumption
    <3>. HIDE DEF a, b, p, q
    <3>. QED  BY <3>1, <3>2, <1>1
  <2>3. (a * a + b * b) * (p * p + q * q) < (r.gain + 1) * (r.gain + 1)
    <3>1. (a * a + b * b) * (p * p + q * q) \in Int
      BY <1>1, <2>1
    <3>2. (a * a + b * b) * (Eps * Eps) = (Eps * Eps) * (a * a + b * b)
      BY <2>1, BudgetAssumption
    <3>3. (a * a + b * b) * (Eps * Eps) \in Int /\ (r.gain + 1) * (r.gain + 1) \in Int
      BY <2>1, BudgetAssumption
    <3>. HIDE DEF a, b, p, q
    <3>. QED  BY <2>1, <2>2, <3>1, <3>2, <3>3
  <2>4. a * p + b * q <= r.gain
    <3>. HIDE DEF a, b, p, q, r
    <3>. QED  BY <1>1, <2>1, <2>3, CauchySchwarz
  <2>5. Dot(r.weights, y) = Dot(r.weights, x) + (a * p + b * q)
    <3>1. Dot(r.weights, y) = a * y[1] + b * y[2] /\ Dot(r.weights, x) = a * x[1] + b * x[2]
      BY DEF Dot
    <3>2. a * y[1] = a * x[1] + a * p /\ b * y[2] = b * x[2] + b * q
      BY <1>1, <2>1
    <3>3. /\ a * x[1] \in Int /\ a * p \in Int /\ b * x[2] \in Int /\ b * q \in Int
      <4>. HIDE DEF a, b, p, q
      <4>. QED  BY <1>1, <2>1
    <3>. HIDE DEF a, b, p, q
    <3>. QED  BY <3>1, <3>2, <3>3
  <2>6. Dot(r.weights, x) \in Int /\ a * p + b * q \in Int
    BY <1>1, <2>1 DEF Dot
  <2>. HIDE DEF a, b, p, q
  <2>. QED  BY <1>2, <2>1, <2>4, <2>5, <2>6 DEF MarginWith, RuleGain
<1>3. CASE r.family # "affine"
  <2>1. r.field \in {1, 2} /\ r.threshold \in Int
    BY <1>3, RuleAssumption
  <2>2. -Eps <= p /\ p <= Eps /\ -Eps <= q /\ q <= Eps
    <3>. HIDE DEF p, q
    <3>. QED  BY <1>1, SquareBound, BudgetAssumption
  <2>3. /\ y[r.field] \in Int /\ x[r.field] \in Int
        /\ y[r.field] - x[r.field] <= Eps /\ x[r.field] - y[r.field] <= Eps
    BY <1>1, <2>1, <2>2, BudgetAssumption
  <2>4. /\ Resolution * y[r.field] - Resolution * x[r.field] <= Resolution * Eps
        /\ Resolution * x[r.field] - Resolution * y[r.field] <= Resolution * Eps
    <3>. DEFINE u == y[r.field]
                v == x[r.field]
    <3>1. u \in Int /\ v \in Int /\ u - v <= Eps /\ v - u <= Eps
      BY <2>3
    <3>2. Eps \in Nat /\ Resolution \in Nat
      BY BudgetAssumption
    <3>. HIDE DEF u, v
    <3>3. Resolution * (u - v) <= Resolution * Eps /\ Resolution * (v - u) <= Resolution * Eps
      BY <3>1, <3>2
    <3>4. /\ Resolution * (u - v) = Resolution * u - Resolution * v
          /\ Resolution * (v - u) = Resolution * v - Resolution * u
      BY <3>1, <3>2
    <3>. QED  BY <3>3, <3>4 DEF u, v
  <2>5. /\ Resolution * y[r.field] \in Int /\ Resolution * x[r.field] \in Int
        /\ Resolution * Eps \in Int
    BY <2>3, BudgetAssumption
  <2>. QED  BY <1>3, <2>1, <2>4, <2>5 DEF MarginWith, RuleGain
<1>. QED  BY <1>2, <1>3

-----------------------------------------------------------------------------
(* The reachability tests cover the budget.                                *)

LEMMA NumericBallNear ==
  ASSUME NEW x \in Int \X Int, NEW y \in NumericBall(x)
  PROVE  y \in Int \X Int /\ Near(x, y)
BY BudgetAssumption DEF NumericBall

\* A ruled state whose margin plus gain is negative is safe on the whole ball.
LEMMA BallAtState ==
  ASSUME NEW dom \in Domains, NEW s \in DiscreteStates(dom), NEW a, HasRule(dom, s, a),
         NEW x \in Int \X Int, ~ (Margin(dom, s, a, x) + Gain(dom, s, a) >= 0)
  PROVE  /\ AllSafe(dom, s, a, NumericBall(x))
         /\ Margin(dom, s, a, x) < 0
<1>1. PICK i \in RuleIds(dom) : GetRule(dom, s, a) = Table[dom].rules[i]
  BY GetRuleInTable
<1>. DEFINE r == Table[dom].rules[i]
            c == Offset(r, s.x1)
<1>2. c \in Int
  BY OffsetAssumption DEF DiscreteStates
<1>3. /\ Margin(dom, s, a, x) = MarginWith(r, c, x)
      /\ Gain(dom, s, a) = RuleGain(r)
  BY <1>1 DEF Margin, RuleMargin, Gain
<1>4. MarginWith(r, c, x) \in Int /\ RuleGain(r) \in Nat
  BY <1>2, MarginTyped, GainTyped
<1>5. ASSUME NEW y \in NumericBall(x) PROVE MarginWith(r, c, y) < 0
  <2>1. y \in Int \X Int /\ Near(x, y)
    BY NumericBallNear
  <2>2. MarginWith(r, c, y) \in Int
    BY <1>2, <2>1, MarginTyped
  <2>3. MarginWith(r, c, y) <= MarginWith(r, c, x) + RuleGain(r)
    <3>. HIDE DEF c
    <3>. QED  BY <1>2, <2>1, GainDominates
  <2>. QED  BY <1>3, <1>4, <2>2, <2>3
<1>6. AllSafe(dom, s, a, NumericBall(x))
  BY <1>1, <1>5 DEF AllSafe
<1>. QED  BY <1>3, <1>4, <1>6

\* If neither the joint nor the continuous test finds an unsafe point there is
\* none in the hybrid budget: the joint test ranges over genuine swaps, the
\* continuous one over the clean state, and together they miss no state.
THEOREM JointAndContinuousCover ==
  ASSUME NEW z \in Returns, NEW a, HasRule(z.domain, StateOf(z), a),
         ~ContinuousReachableUnsafe(z, a), ~JointReachableUnsafe(z, a)
  PROVE  BallSafe(z, a) /\ Safe(z, a)
<1>1. z.domain \in Domains /\ StateOf(z) \in DiscreteStates(z.domain) /\ z.x2 \in Int \X Int
  BY DEF Returns
<1>2. /\ AllSafe(z.domain, StateOf(z), a, NumericBall(z.x2))
      /\ Margin(z.domain, StateOf(z), a, z.x2) < 0
  BY <1>1, BallAtState DEF ContinuousReachableUnsafe, After
<1>3. ASSUME NEW s \in BackedSwaps(z, a) PROVE AllSafe(z.domain, s, a, NumericBall(z.x2))
  <2>1. s \in DiscreteStates(z.domain) /\ HasRule(z.domain, s, a)
    BY BackedSwapsTyped
  <2>2. ~ (After(z, s, a) >= 0)
    BY DEF JointReachableUnsafe
  <2>. QED  BY <1>1, <2>1, <2>2, BallAtState DEF After
<1>. QED  BY <1>2, <1>3 DEF BallSafe, BallStates, Safe

\* Category R means what its name says: robust interior.
THEOREM RobustCategorySound ==
  ASSUME NEW z \in Returns, NEW a, HasRule(z.domain, StateOf(z), a), Category(z, a) = "R"
  PROVE  BallSafe(z, a)
<1>1. ~ContinuousReachableUnsafe(z, a) /\ ~JointReachableUnsafe(z, a)
  BY DEF Category
<1>. QED  BY <1>1, JointAndContinuousCover

-----------------------------------------------------------------------------
(* The converse on scalar rules: the gain is attained on the integer grid. *)

LEMMA AxisPointInBall ==
  ASSUME NEW x \in Int \X Int, NEW f \in {1, 2}, NEW delta \in (-Eps)..Eps
  PROVE  /\ [x EXCEPT ![f] = @ + delta] \in NumericBall(x)
         /\ [x EXCEPT ![f] = @ + delta][f] = x[f] + delta
<1>. DEFINE y == [x EXCEPT ![f] = @ + delta]
<1>1. /\ x[1] \in Int /\ x[2] \in Int /\ x = <<x[1], x[2]>> /\ DOMAIN x = {1, 2}
      /\ Eps \in Nat /\ delta \in Int
  BY BudgetAssumption
<1>2. /\ y \in Int \X Int /\ y[f] = x[f] + delta
      /\ (y[1] = x[1] + delta /\ y[2] = x[2]) \/ (y[1] = x[1] /\ y[2] = x[2] + delta)
  <2>1. CASE f = 1
    <3>1. y = <<x[1] + delta, x[2]>>
      BY <1>1, <2>1
    <3>. QED  BY <1>1, <2>1, <3>1
  <2>2. CASE f = 2
    <3>1. y = <<x[1], x[2] + delta>>
      BY <1>1, <2>2
    <3>. QED  BY <1>1, <2>2, <3>1
  <2>. QED  BY <2>1, <2>2
<1>3. delta * delta <= Eps * Eps
  BY <1>1
<1>4. Near(x, y)
  <2>. HIDE DEF y
  <2>1. (y[1] - x[1] = delta /\ y[2] - x[2] = 0) \/ (y[1] - x[1] = 0 /\ y[2] - x[2] = delta)
    BY <1>1, <1>2
  <2>. QED  BY <1>1, <1>3, <2>1 DEF Near
<1>5. y[1] \in (x[1] - Eps)..(x[1] + Eps) /\ y[2] \in (x[2] - Eps)..(x[2] + Eps)
  <2>. HIDE DEF y
  <2>. QED  BY <1>1, <1>2
<1>6. y \in ((x[1] - Eps)..(x[1] + Eps)) \X ((x[2] - Eps)..(x[2] + Eps))
  <2>. HIDE DEF y
  <2>. QED  BY <1>2, <1>5
<1>. QED  BY <1>2, <1>4, <1>6 DEF NumericBall

\* Where a scalar rule's margin plus gain reaches 0, some point of the ball is
\* unsafe: the closed form raises no alarm without a concrete perturbation.
THEOREM ScalarGainAttained ==
  ASSUME NEW dom \in Domains, NEW s \in DiscreteStates(dom), NEW a, HasRule(dom, s, a),
         NEW x \in Int \X Int, GetRule(dom, s, a).family = "scalar_threshold",
         Margin(dom, s, a, x) + Gain(dom, s, a) >= 0
  PROVE  ~AllSafe(dom, s, a, NumericBall(x))
<1>1. PICK i \in RuleIds(dom) : GetRule(dom, s, a) = Table[dom].rules[i]
  BY GetRuleInTable
<1>. DEFINE r == Table[dom].rules[i]
            c == Offset(r, s.x1)
            delta == IF r.direction = ">=" THEN Eps ELSE -Eps
            y == [x EXCEPT ![r.field] = @ + delta]
<1>2. c \in Int
  BY OffsetAssumption DEF DiscreteStates
<1>3. r.field \in {1, 2} /\ r.threshold \in Int /\ r.family # "affine"
  BY <1>1, RuleAssumption
<1>4. delta \in (-Eps)..Eps /\ delta \in Int /\ Eps \in Nat /\ Resolution \in Nat
  BY BudgetAssumption
<1>5. y \in NumericBall(x) /\ y[r.field] = x[r.field] + delta
  <2>. HIDE DEF delta
  <2>. QED  BY <1>3, <1>4, AxisPointInBall
<1>6. x[r.field] \in Int
  BY <1>3
<1>7. MarginWith(r, c, y) = MarginWith(r, c, x) + Resolution * Eps
  <2>. DEFINE u == x[r.field]
              v == y[r.field]
  <2>1. Resolution * v = Resolution * u + Resolution * delta
    <3>1. u \in Int /\ v = u + delta
      BY <1>5, <1>6
    <3>. HIDE DEF u, v, delta, y
    <3>. QED  BY <1>4, <3>1
  <2>2. Resolution * u \in Int /\ Resolution * Eps \in Int
    BY <1>4, <1>6
  <2>3. Resolution * delta = IF r.direction = ">=" THEN Resolution * Eps ELSE -(Resolution * Eps)
    BY <1>4
  <2>. HIDE DEF u, v, delta, c
  <2>4. /\ MarginWith(r, c, x) = IF r.direction = ">=" THEN Resolution * u - (r.threshold + c)
                                                      ELSE -(Resolution * u - (r.threshold + c))
        /\ MarginWith(r, c, y) = IF r.direction = ">=" THEN Resolution * v - (r.threshold + c)
                                                      ELSE -(Resolution * v - (r.threshold + c))
    BY <1>3 DEF MarginWith, u, v
  <2>. QED  BY <1>2, <1>3, <2>1, <2>2, <2>3, <2>4
<1>8. Margin(dom, s, a, x) + Gain(dom, s, a) = MarginWith(r, c, x) + Resolution * Eps
  BY <1>1, <1>3 DEF Margin, RuleMargin, Gain, RuleGain
<1>9. ~ (MarginWith(r, c, y) < 0)
  <2>1. MarginWith(r, c, x) \in Int
    BY <1>2, MarginTyped
  <2>2. MarginWith(r, c, x) + Resolution * Eps \in Int
    BY <2>1, <1>4
  <2>. HIDE DEF y, c
  <2>. QED  BY <1>7, <1>8, <2>1, <2>2
<1>. QED  BY <1>1, <1>5, <1>9 DEF AllSafe
=============================================================================
