---------------------------- MODULE Certificates ----------------------------
(***************************************************************************)
(* bridge_benchmark/cert/certificate_oracles.py: the deterministic         *)
(* certificates computed from the oracle for one typed return, each with   *)
(* the budget it claims to cover.  One behaviour is one call of certify()  *)
(* on a typed return of the table.                                         *)
(***************************************************************************)
EXTENDS RuleOracleProofs

CONSTANTS
  CertPoints,   \* numeric points of the returns certified, by domain
  Pending       \* no verdict yet

VARIABLES
  request,   \* the typed return z and the candidate action
  verdict    \* what certify() returned

vars == <<request, verdict>>

ASSUME PointsAssumption == \A d \in Domains : CertPoints[d] \subseteq Int \X Int

Requests ==
  {q \in UNION {[z : [domain : {d}, tool : Tools(d), x1 : Contexts(d), x2 : CertPoints[d]],
                 action : Actions(d)] : d \in Domains} :
     HasRule(q.z.domain, StateOf(q.z), q.action)}

\* On a clean-unsafe return certify() answers that alone.
Unsafe == [clean_safe |-> FALSE]

Certify(z, a) ==
  IF ~Safe(z, a)
  THEN Unsafe
  ELSE LET disc_unsafe  == DiscreteReachableUnsafe(z, a)
           cont_unsafe  == ContinuousReachableUnsafe(z, a)
           joint_unsafe == JointReachableUnsafe(z, a)
           naive        == ~disc_unsafe /\ ~cont_unsafe
       IN  [clean_safe          |-> TRUE,
            discrete_only       |-> ~disc_unsafe,
            continuous_only     |-> ~cont_unsafe,
            naive_composition   |-> naive,
            hybrid              |-> ~joint_unsafe,
            naive_false_certify |-> naive /\ joint_unsafe]

Init ==
  /\ request \in Requests
  /\ verdict = Pending

Answer ==
  /\ verdict = Pending
  /\ verdict' = Certify(request.z, request.action)
  /\ UNCHANGED request

Next == Answer

Spec == Init /\ [][Next]_vars

-----------------------------------------------------------------------------
(* Properties.                                                             *)

Answered == verdict # Pending /\ verdict.clean_safe

\* Each marginal certificate keeps its own promise: discrete-only over B_{d,0},
\* continuous-only over B_{0,eps}, both by enumeration of the budget.
ScopesSound ==
  Answered =>
    /\ verdict.discrete_only =>
         \A s \in BallStates(request.z, request.action) :
           AllSafe(request.z.domain, s, request.action, {request.z.x2})
    /\ verdict.continuous_only =>
         AllSafe(request.z.domain, StateOf(request.z), request.action, NumericBall(request.z.x2))

\* Naive composition claims B_{d,eps} and is right wherever it is not flagged;
\* the flag is raised on Category C and on nothing else.
NaiveFailsOnlyOnJointGap ==
  Answered =>
    /\ verdict.naive_composition /\ ~verdict.naive_false_certify =>
         BallSafe(request.z, request.action)
    /\ verdict.naive_false_certify <=> Category(request.z, request.action) = "C"

\* The joint verdict and the continuous one together cover the whole budget:
\* joint reachability ranges over genuine swaps only, so the clean state needs
\* the continuous certificate.
HybridWithContinuousSound ==
  Answered /\ verdict.hybrid /\ verdict.continuous_only =>
    BallSafe(request.z, request.action)

\* The marginal certificates cover their own budgets, and the continuous one
\* with the joint one covers B_{d,eps}: no verdict certify() returns claims a
\* budget with an unsafe point in it, the lone hybrid verdict excepted.
VerdictsCoverBudgets == ScopesSound /\ HybridWithContinuousSound

\* What the docstring of certificate_oracles.py says of the hybrid certificate:
\* it certifies safe over B_{d,eps}, no joint perturbation is unsafe.
HybridCertifiesJointBudget ==
  Answered /\ verdict.hybrid => BallSafe(request.z, request.action)

-----------------------------------------------------------------------------
(* Proofs, for every rule table, budget and point.                         *)

\* What the runs' invariants rest on: the request stays a typed, ruled return
\* and the only verdict ever returned is certify()'s.
IInv ==
  /\ request \in Requests
  /\ verdict \in {Pending, Certify(request.z, request.action)}

LEMMA RequestTyped ==
  ASSUME NEW q \in Requests
  PROVE  q.z \in Returns /\ HasRule(q.z.domain, StateOf(q.z), q.action)
BY PointsAssumption DEF Requests, Returns, StateOf, DiscreteStates

LEMMA Inductive == Spec => []IInv
<1>1. Init => IInv
  BY DEF Init, IInv
<1>2. IInv /\ [Next]_vars => IInv'
  BY DEF IInv, Next, Answer, vars
<1>. QED  BY <1>1, <1>2, PTL DEF Spec

\* An answered request passed the clean check, and its verdict reads off the
\* reachability tests.
LEMMA VerdictReads ==
  ASSUME IInv, Answered
  PROVE  LET z == request.z
             a == request.action
         IN  /\ Safe(z, a)
             /\ verdict.discrete_only <=> ~DiscreteReachableUnsafe(z, a)
             /\ verdict.continuous_only <=> ~ContinuousReachableUnsafe(z, a)
             /\ verdict.naive_composition <=>
                  ~DiscreteReachableUnsafe(z, a) /\ ~ContinuousReachableUnsafe(z, a)
             /\ verdict.hybrid <=> ~JointReachableUnsafe(z, a)
             /\ verdict.naive_false_certify <=>
                  /\ ~DiscreteReachableUnsafe(z, a) /\ ~ContinuousReachableUnsafe(z, a)
                  /\ JointReachableUnsafe(z, a)
<1>. DEFINE z == request.z
            a == request.action
<1>1. verdict = Certify(z, a) /\ verdict.clean_safe
  BY DEF IInv, Answered
<1>2. Safe(z, a)
  BY <1>1 DEF Certify, Unsafe
<1>3. verdict = [clean_safe          |-> TRUE,
                 discrete_only       |-> ~DiscreteReachableUnsafe(z, a),
                 continuous_only     |-> ~ContinuousReachableUnsafe(z, a),
                 naive_composition   |-> ~DiscreteReachableUnsafe(z, a) /\ ~ContinuousReachableUnsafe(z, a),
                 hybrid              |-> ~JointReachableUnsafe(z, a),
                 naive_false_certify |-> (~DiscreteReachableUnsafe(z, a) /\ ~ContinuousReachableUnsafe(z, a))
                                           /\ JointReachableUnsafe(z, a)]
  BY <1>1, <1>2 DEF Certify
<1>. QED  BY <1>2, <1>3

\* The joint verdict with the continuous one certifies the whole hybrid budget,
\* the clean discrete state included.
THEOREM HybridTheorem == Spec => []HybridWithContinuousSound
<1>1. IInv => HybridWithContinuousSound
  <2>1. SUFFICES ASSUME IInv, Answered, verdict.hybrid, verdict.continuous_only
                 PROVE  BallSafe(request.z, request.action)
    BY DEF HybridWithContinuousSound
  <2>2. ~JointReachableUnsafe(request.z, request.action)
    BY <2>1, VerdictReads
  <2>3. ~ContinuousReachableUnsafe(request.z, request.action)
    BY <2>1, VerdictReads
  <2>4. request.z \in Returns /\ HasRule(request.z.domain, StateOf(request.z), request.action)
    BY <2>1, RequestTyped DEF IInv
  <2>. QED  BY <2>2, <2>3, <2>4, JointAndContinuousCover
<1>. QED  BY <1>1, Inductive, PTL

\* Naive composition is wrong about the joint budget on Category C only.
THEOREM NaiveTheorem == Spec => []NaiveFailsOnlyOnJointGap
<1>1. IInv => NaiveFailsOnlyOnJointGap
  <2>. SUFFICES ASSUME IInv, Answered
                PROVE  /\ verdict.naive_composition /\ ~verdict.naive_false_certify =>
                            BallSafe(request.z, request.action)
                       /\ verdict.naive_false_certify <=> Category(request.z, request.action) = "C"
    BY DEF NaiveFailsOnlyOnJointGap
  <2>1. request.z \in Returns /\ HasRule(request.z.domain, StateOf(request.z), request.action)
    BY RequestTyped DEF IInv
  <2>2. ASSUME verdict.naive_composition, ~verdict.naive_false_certify
        PROVE  BallSafe(request.z, request.action)
    <3>1. /\ ~ContinuousReachableUnsafe(request.z, request.action)
          /\ ~JointReachableUnsafe(request.z, request.action)
      BY <2>2, VerdictReads
    <3>. QED  BY <3>1, <2>1, JointAndContinuousCover
  <2>3. verdict.naive_false_certify <=> Category(request.z, request.action) = "C"
    BY VerdictReads DEF Category
  <2>. QED  BY <2>2, <2>3
<1>. QED  BY <1>1, Inductive, PTL

\* Each marginal certificate covers its own budget, B_{d,0} or B_{0,eps}.
THEOREM ScopesTheorem == Spec => []ScopesSound
<1>1. IInv => ScopesSound
  <2>. DEFINE z == request.z
              a == request.action
  <2>. SUFFICES ASSUME IInv, Answered
                PROVE  /\ verdict.discrete_only =>
                            \A s \in BallStates(z, a) : AllSafe(z.domain, s, a, {z.x2})
                       /\ verdict.continuous_only =>
                            AllSafe(z.domain, StateOf(z), a, NumericBall(z.x2))
    BY DEF ScopesSound
  <2>1. /\ z \in Returns /\ HasRule(z.domain, StateOf(z), a)
        /\ z.domain \in Domains /\ StateOf(z) \in DiscreteStates(z.domain) /\ z.x2 \in Int \X Int
    BY RequestTyped DEF IInv, Returns
  <2>2. ASSUME verdict.discrete_only, NEW s \in BallStates(z, a)
        PROVE  AllSafe(z.domain, s, a, {z.x2})
    <3>1. s \in DiscreteStates(z.domain) /\ HasRule(z.domain, s, a)
      BY <2>1, BackedSwapsTyped DEF BallStates
    <3>2. Margin(z.domain, s, a, z.x2) \in Int
      BY <2>1, <3>1, MarginAtState
    <3>3. ~ (Margin(z.domain, s, a, z.x2) >= 0)
      <4>1. CASE s = StateOf(z)
        <5>1. Safe(z, a)
          BY VerdictReads
        <5>. QED  BY <4>1, <5>1, <3>2 DEF Safe
      <4>2. CASE s \in BackedSwaps(z, a)
        <5>1. ~DiscreteReachableUnsafe(z, a)
          BY <2>2, VerdictReads
        <5>. QED  BY <4>2, <5>1 DEF DiscreteReachableUnsafe
      <4>. QED  BY <4>1, <4>2 DEF BallStates
    <3>. QED  BY <3>2, <3>3 DEF AllSafe, Margin, RuleMargin
  <2>3. ASSUME verdict.continuous_only
        PROVE  AllSafe(z.domain, StateOf(z), a, NumericBall(z.x2))
    <3>1. ~ContinuousReachableUnsafe(z, a)
      BY <2>3, VerdictReads
    <3>. QED  BY <2>1, <3>1, BallAtState DEF ContinuousReachableUnsafe, After
  <2>. QED  BY <2>2, <2>3
<1>. QED  BY <1>1, Inductive, PTL

\* The property the run checks, verdict by verdict.
THEOREM CoverTheorem == Spec => []VerdictsCoverBudgets
BY ScopesTheorem, HybridTheorem, PTL DEF VerdictsCoverBudgets
=============================================================================
