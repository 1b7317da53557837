---------------------- MODULE BenchmarkGeneratorProofs ----------------------
(***************************************************************************)
(* The generator's type correctness and the soundness of its labels, for   *)
(* every rule table, grid, budget and cap.                                 *)
(***************************************************************************)
EXTENDS BenchmarkGenerator, RuleOracleProofs

-----------------------------------------------------------------------------
(* Candidates.                                                             *)

LEMMA NthInRange ==
  ASSUME NEW S, NEW seq \in Seq(S) \ {<<>>}, NEW block \in Nat
  PROVE  Nth(seq, block) \in S
<1>1. Len(seq) \in Nat /\ Len(seq) > 0
  OBVIOUS
<1>2. (block % Len(seq)) + 1 \in 1..Len(seq)
  BY <1>1
<1>. QED  BY <1>2 DEF Nth

LEMMA NonEmptyLen ==
  ASSUME NEW S, NEW seq \in Seq(S) \ {<<>>}
  PROVE  Len(seq) \in Nat /\ Len(seq) > 0
OBVIOUS

LEMMA DivTyped ==
  ASSUME NEW p \in Nat, NEW n \in Nat, n > 0
  PROVE  p \div n \in Nat
OBVIOUS

LEMMA ProductPositive ==
  ASSUME NEW m \in Nat, NEW n \in Nat, m > 0, n > 0
  PROVE  m * n \in Nat /\ m * n > 0
OBVIOUS

\* What the four loops enumerate are typed returns and actions of the domain.
LEMMA CandidateTyped ==
  ASSUME NEW d \in Domains, NEW p \in Nat
  PROVE  /\ CandidateAt(d, p) \in Returns
         /\ CandidateAt(d, p).domain = d
         /\ ActionAt(d, p) \in Actions(d)
<1>. DEFINE nt == Len(Table[d].tools)
            nn == Len(NumericGrid[d])
            nc == Len(CategoricalGrid(d))
<1>1. /\ Table[d].tools \in Seq(Tools(d)) \ {<<>>}
      /\ Table[d].actions \in Seq(Actions(d)) \ {<<>>}
      /\ CategoricalGrid(d) \in Seq(Contexts(d)) \ {<<>>}
      /\ NumericGrid[d] \in Seq(Int \X Int) \ {<<>>}
  BY GridAssumption
<1>2. nt \in Nat /\ nt > 0 /\ nn \in Nat /\ nn > 0 /\ nc \in Nat /\ nc > 0
  BY <1>1, NonEmptyLen
<1>. HIDE DEF nt, nn, nc
<1>3. nt * nn \in Nat /\ nt * nn > 0 /\ nc * nt \in Nat /\ nc * nt > 0
  BY <1>2, ProductPositive
<1>4. (nc * nt) * nn \in Nat /\ (nc * nt) * nn > 0
  BY <1>2, <1>3, ProductPositive
<1>5. p \div nn \in Nat /\ p \div (nt * nn) \in Nat /\ p \div ((nc * nt) * nn) \in Nat
  BY <1>2, <1>3, <1>4, DivTyped
<1>6. /\ CandidateAt(d, p).tool \in Tools(d)
      /\ CandidateAt(d, p).x1 \in Contexts(d)
      /\ CandidateAt(d, p).x2 \in Int \X Int
      /\ ActionAt(d, p) \in Actions(d)
  BY <1>1, <1>5, NthInRange DEF CandidateAt, ActionAt, nt, nn, nc
<1>. QED  BY <1>6 DEF CandidateAt, Returns, StateOf, DiscreteStates

LEMMA CurrentTyped ==
  ASSUME TypeOK
  PROVE  Current \in Domains
BY GridAssumption DEF TypeOK, Current

LEMMA CategoryTyped ==
  ASSUME NEW z, NEW a
  PROVE  Category(z, a) \in Categories
BY DEF Category, Categories

\* Every witness a candidate may be stored with is a typed state, or none.
LEMMA WitnessTyped ==
  ASSUME NEW z \in Returns, NEW a, NEW w \in WitnessesFor(z, a)
  PROVE  w \in (UNION {DiscreteStates(d) : d \in Domains}) \cup {NoWitness}
BY BackedSwapsTyped DEF WitnessesFor, JointWitnesses, Returns

LEMMA RecordTyped ==
  ASSUME NEW d \in Domains, NEW z \in Returns, NEW a \in Actions(d), NEW id \in Nat,
         NEW w \in WitnessesFor(z, a)
  PROVE  Record(z, a, id, w) \in Records
<1>1. Safe(z, a) \in BOOLEAN
  BY DEF Safe
<1>. QED  BY <1>1, CategoryTyped, WitnessTyped DEF Record, Records

-----------------------------------------------------------------------------
\* Type correctness of the generator.
THEOREM TypeTheorem == Spec => []TypeOK
<1>1. Init => TypeOK
  <2>1. DOMAIN DomainOrder = 1..Len(DomainOrder) /\ Len(DomainOrder) > 0 /\ Len(DomainOrder) \in Nat
    BY GridAssumption, NonEmptyLen
  <2>2. 0 \in 0..PerCategory
    BY GridAssumption
  <2>. QED  BY <2>1, <2>2 DEF Init, TypeOK
<1>2. TypeOK /\ [Next]_vars => TypeOK'
  <2>. SUFFICES ASSUME TypeOK, [Next]_vars PROVE TypeOK'
    OBVIOUS
  <2>. USE DEF TypeOK
  <2>1. Current \in Domains
    BY CurrentTyped
  <2>2. CASE SkipTool
    <3>1. Len(NumericGrid[Current]) \in Nat
      BY <2>1, GridAssumption, NonEmptyLen
    <3>. QED  BY <2>2, <3>1 DEF SkipTool
  <2>3. CASE Generate
    <3>. DEFINE z == CandidateAt(Current, pos)
                a == ActionAt(Current, pos)
                key == CellKey(z, a)
    <3>1. z \in Returns /\ z.domain = Current /\ a \in Actions(Current)
      BY <2>1, CandidateTyped
    <3>2. key \in Cells
      BY <2>1, <3>1, CategoryTyped DEF CellKey, Cells, Returns, DiscreteStates, StateOf
    <3>3. caps' \in [Cells -> 0..PerCategory]
      <4>1. CASE CellFull(key)  BY <2>3, <4>1 DEF Generate
      <4>2. CASE ~CellFull(key)
        <5>1. caps' = [caps EXCEPT ![key] = @ + 1]
          BY <2>3, <4>2 DEF Generate
        <5>2. caps[key] + 1 \in 0..PerCategory
          BY <3>2, <4>2, GridAssumption DEF CellFull
        <5>. HIDE DEF key
        <5>. QED  BY <3>2, <5>1, <5>2
      <4>. QED  BY <4>1, <4>2
    <3>4. combined' \in Seq(Records)
      <4>1. CASE combined' = combined  BY <4>1
      <4>2. ASSUME NEW w \in WitnessesFor(z, a), combined' = Append(combined, Record(z, a, rid + 1, w))
            PROVE  combined' \in Seq(Records)
        <5>1. Record(z, a, rid + 1, w) \in Records
          BY <2>1, <3>1, RecordTyped
        <5>. HIDE DEF z, a
        <5>. QED  BY <4>2, <5>1
      <4>. QED  BY <2>3, <4>1, <4>2 DEF Generate
    <3>5. rid' \in Nat
      BY <2>3 DEF Generate
    <3>6. pos' \in Nat /\ phase' = phase /\ dom' = dom /\ bad' = bad
      BY <2>3 DEF Generate
    <3>. QED  BY <3>3, <3>4, <3>5, <3>6
  <2>4. CASE FinishDomain
    <3>1. dom' \in DOMAIN DomainOrder
      BY <2>4, GridAssumption DEF FinishDomain
    <3>2. caps' \in [Cells -> 0..PerCategory]
      BY <2>4, GridAssumption DEF FinishDomain
    <3>. QED  BY <2>4, <3>1, <3>2 DEF FinishDomain
  <2>5. CASE Audit
    <3>. DEFINE Bad == {i \in DOMAIN combined :
                          combined[i].category = "C" /\ ~WitnessAuditOK(combined[i])}
    <3>1. Bad \subseteq 1..Len(combined) /\ Len(combined) \in Nat
      OBVIOUS
    <3>2. IsFiniteSet(Bad)
      BY <3>1, FS_Interval, FS_Subset
    <3>3. bad' \in Nat
      BY <2>5, <3>2, FS_CardinalityType DEF Audit
    <3>. QED  BY <2>5, <3>3 DEF Audit
  <2>6. CASE UNCHANGED vars
    BY <2>6 DEF vars
  <2>. QED  BY <2>2, <2>3, <2>4, <2>5, <2>6 DEF Next
<1>. QED  BY <1>1, <1>2, PTL DEF Spec

-----------------------------------------------------------------------------
(* Labels and witnesses.                                                   *)

\* A kept record is ruled, carries the oracle's category of its own return
\* and, if C, a joint witness of it.
Labelled(r) ==
  /\ r.z \in Returns
  /\ HasRule(r.z.domain, StateOf(r.z), r.action)
  /\ r.category = Category(r.z, r.action)
  /\ r.category = "C" => r.witness \in JointWitnesses(r.z, r.action)

LabelInv ==
  /\ \A i \in DOMAIN combined : Labelled(combined[i])
  /\ bad = 0

\* The reported state is an argmax: if any swap reaches 0 it does, and on a C
\* record it is safe before the numeric move.
LEMMA WitnessAudited ==
  ASSUME NEW r, Labelled(r), r.category = "C"
  PROVE  WitnessAuditOK(r) /\ r.witness \in BackedSwaps(r.z, r.action)
<1>. DEFINE z == r.z
            a == r.action
            w == r.witness
<1>1. /\ z \in Returns /\ z.domain \in Domains /\ z.x2 \in Int \X Int
      /\ w \in BackedSwaps(z, a)
      /\ \A t \in BackedSwaps(z, a) : After(z, t, a) <= After(z, w, a)
  BY DEF Labelled, JointWitnesses, Returns
<1>2. JointReachableUnsafe(z, a) /\ ~DiscreteReachableUnsafe(z, a)
  BY DEF Labelled, Category
<1>3. ASSUME NEW t \in BackedSwaps(z, a)
      PROVE  After(z, t, a) \in Int /\ Margin(z.domain, t, a, z.x2) \in Int
  <2>1. t \in DiscreteStates(z.domain) /\ HasRule(z.domain, t, a)
    BY <1>1, BackedSwapsTyped
  <2>. QED  BY <1>1, <2>1, MarginAtState DEF After
<1>4. PICK t \in BackedSwaps(z, a) : After(z, t, a) >= 0
  BY <1>2 DEF JointReachableUnsafe
<1>5. After(z, w, a) >= 0
  <2>1. After(z, t, a) <= After(z, w, a) /\ After(z, t, a) \in Int /\ After(z, w, a) \in Int
    BY <1>1, <1>3
  <2>. QED  BY <1>4, <2>1
<1>6. Margin(z.domain, w, a, z.x2) < 0
  <2>1. ~ (Margin(z.domain, w, a, z.x2) >= 0) /\ Margin(z.domain, w, a, z.x2) \in Int
    BY <1>1, <1>2, <1>3 DEF DiscreteReachableUnsafe
  <2>. QED  BY <2>1
<1>. QED  BY <1>1, <1>5, <1>6 DEF WitnessAuditOK

LEMMA LabelInductive == Spec => []LabelInv
<1>1. Init => LabelInv
  BY DEF Init, LabelInv
<1>2. TypeOK /\ LabelInv /\ [Next]_vars => LabelInv'
  <2>. SUFFICES ASSUME TypeOK, LabelInv, [Next]_vars PROVE LabelInv'
    OBVIOUS
  <2>1. CASE SkipTool  BY <2>1 DEF SkipTool, LabelInv
  <2>2. CASE Generate
    <3>. DEFINE z == CandidateAt(Current, pos)
                a == ActionAt(Current, pos)
    <3>1. bad' = 0
      BY <2>2 DEF Generate, LabelInv
    <3>2. CASE combined' = combined  BY <3>1, <3>2 DEF LabelInv
    <3>3. ASSUME NEW w \in WitnessesFor(z, a), combined' = Append(combined, Record(z, a, rid + 1, w))
          PROVE  LabelInv'
      <4>1. Current \in Domains /\ pos \in Nat /\ combined \in Seq(Records)
        BY CurrentTyped DEF TypeOK
      <4>2. z \in Returns /\ z.domain = Current /\ a \in Actions(Current)
        BY <4>1, CandidateTyped
      <4>3. ToolHasAction(Current, z.tool, a)
        BY <2>2 DEF Generate
      <4>4. HasRule(z.domain, StateOf(z), a)
        BY <4>1, <4>2, <4>3, LookupAssumption DEF Returns, StateOf
      <4>5. Labelled(Record(z, a, rid + 1, w))
        <5>. HIDE DEF z, a
        <5>. QED  BY <4>2, <4>4, <3>3 DEF Labelled, Record, WitnessesFor
      <4>6. ASSUME NEW i \in DOMAIN combined' PROVE Labelled(combined'[i])
        <5>. HIDE DEF z, a
        <5>1. CASE i \in DOMAIN combined
          <6>1. combined'[i] = combined[i]
            BY <3>3, <4>1, <5>1
          <6>. QED  BY <5>1, <6>1 DEF LabelInv
        <5>2. CASE i \notin DOMAIN combined
          <6>1. combined'[i] = Record(z, a, rid + 1, w)
            BY <3>3, <4>1, <5>2
          <6>. QED  BY <4>5, <6>1
        <5>. QED  BY <5>1, <5>2
      <4>. QED  BY <3>1, <4>6 DEF LabelInv
    <3>. QED  BY <2>2, <3>2, <3>3 DEF Generate
  <2>3. CASE FinishDomain  BY <2>3 DEF FinishDomain, LabelInv
  <2>4. CASE Audit
    <3>1. {i \in DOMAIN combined : combined[i].category = "C" /\ ~WitnessAuditOK(combined[i])} = {}
      BY WitnessAudited DEF LabelInv
    <3>2. bad' = 0 /\ combined' = combined
      BY <2>4, <3>1, FS_EmptySet DEF Audit
    <3>. QED  BY <3>2 DEF LabelInv
  <2>5. CASE UNCHANGED vars  BY <2>5 DEF vars, LabelInv
  <2>. QED  BY <2>1, <2>2, <2>3, <2>4, <2>5 DEF Next
<1>. QED  BY <1>1, <1>2, TypeTheorem, PTL DEF Spec

\* Every record labelled robust interior is safe on its whole hybrid budget.
THEOREM RobustTheorem == Spec => []RobustInteriorSound
<1>1. LabelInv => RobustInteriorSound
  BY RobustCategorySound DEF LabelInv, Labelled, RobustInteriorSound, Kept
<1>. QED  BY <1>1, LabelInductive, PTL

\* The generator's own final audit never finds a bad witness.
THEOREM AuditTheorem == Spec => []AuditPasses
<1>1. LabelInv => AuditPasses
  BY DEF LabelInv, AuditPasses
<1>. QED  BY <1>1, LabelInductive, PTL

\* C labels are genuine joint gaps: safe on either budget alone, unsafe on both
\* together (the last for domains whose rules are all scalar).
THEOREM JointGapTheorem == Spec => []JointGapGenuine
<1>1. LabelInv => JointGapGenuine
  <2>1. SUFFICES ASSUME NEW r, Labelled(r), r.category = "C"
        PROVE  /\ \A s \in BallStates(r.z, r.action) : AllSafe(r.z.domain, s, r.action, {r.z.x2})
               /\ AllSafe(r.z.domain, StateOf(r.z), r.action, NumericBall(r.z.x2))
               /\ ScalarDomain(r.z.domain) => ~BallSafe(r.z, r.action)
    BY DEF LabelInv, JointGapGenuine, Kept
  <2>. DEFINE z == r.z
              a == r.action
  <2>2. /\ z \in Returns /\ z.domain \in Domains /\ z.x2 \in Int \X Int
        /\ StateOf(z) \in DiscreteStates(z.domain) /\ HasRule(z.domain, StateOf(z), a)
    BY <2>1 DEF Labelled, Returns
  <2>3. /\ Safe(z, a) /\ ~DiscreteReachableUnsafe(z, a)
        /\ ~ContinuousReachableUnsafe(z, a) /\ JointReachableUnsafe(z, a)
    BY <2>1 DEF Labelled, Category
  <2>4. ASSUME NEW s \in BallStates(z, a) PROVE AllSafe(z.domain, s, a, {z.x2})
    <3>1. s \in DiscreteStates(z.domain) /\ HasRule(z.domain, s, a)
      BY <2>2, BackedSwapsTyped DEF BallStates
    <3>2. Margin(z.domain, s, a, z.x2) \in Int
      BY <2>2, <3>1, MarginAtState
    <3>3. Margin(z.domain, s, a, z.x2) < 0
      BY <2>3, <3>2 DEF BallStates, Safe, DiscreteReachableUnsafe
    <3>. QED  BY <3>3 DEF AllSafe, Margin, RuleMargin
  <2>5. AllSafe(z.domain, StateOf(z), a, NumericBall(z.x2))
    BY <2>2, <2>3, BallAtState DEF ContinuousReachableUnsafe, After
  <2>6. ASSUME ScalarDomain(z.domain) PROVE ~BallSafe(z, a)
    <3>1. PICK s \in BackedSwaps(z, a) : After(z, s, a) >= 0
      BY <2>3 DEF JointReachableUnsafe
    <3>2. s \in DiscreteStates(z.domain) /\ HasRule(z.domain, s, a)
      BY <2>2, BackedSwapsTyped
    <3>3. GetRule(z.domain, s, a).family = "scalar_threshold"
      BY <2>2, <2>6, <3>2, GetRuleInTable DEF ScalarDomain
    <3>4. ~AllSafe(z.domain, s, a, NumericBall(z.x2))
      BY <2>2, <3>1, <3>2, <3>3, ScalarGainAttained DEF After
    <3>. QED  BY <3>4 DEF BallSafe, BallStates
  <2>. QED  BY <2>4, <2>5, <2>6
<1>. QED  BY <1>1, LabelInductive, PTL

\* As many slots differ as were substituted.
LEMMA SwapDistance ==
  ASSUME NEW d \in Domains, NEW s \in DiscreteStates(d), NEW n \in Nat,
         NEW t \in DiscreteSwaps(d, s, n)
  PROVE  Distance(s, t) \in 1..n
<1>1. PICK combo \in SUBSET Slots(d, s) :
        Cardinality(combo) \in 1..n /\ \E c \in Picks(d, s, combo) : t = Substitute(s, c)
  BY DEF DiscreteSwaps
<1>2. PICK c \in Picks(d, s, combo) : t = Substitute(s, c)
  BY <1>1
<1>3. DOMAIN c = combo /\ \A slot \in combo : c[slot] \in Alternatives(d, s, slot)
  BY DEF Picks
<1>4. DOMAIN s.x1 = Fields(d) /\ "tool" \notin Fields(d) /\ IsFiniteSet(Fields(d))
  BY TableAssumption DEF DiscreteStates, Contexts
<1>5. combo \subseteq {"tool"} \cup Fields(d)
  BY <1>4 DEF Slots
<1>6. IsFiniteSet(combo)
  <2>1. IsFiniteSet(Fields(d) \cup {"tool"})
    BY <1>4, FS_AddElement
  <2>. QED  BY <1>5, <2>1, FS_Subset
<1>7. {f \in DOMAIN s.x1 : s.x1[f] # t.x1[f]} = combo \ {"tool"}
  BY <1>2, <1>3, <1>4, <1>5 DEF Substitute, Alternatives
<1>8. s.tool # t.tool <=> "tool" \in combo
  BY <1>2, <1>3 DEF Substitute, Alternatives
<1>9. Cardinality(combo \ {"tool"}) = IF "tool" \in combo THEN Cardinality(combo) - 1 ELSE Cardinality(combo)
  BY <1>6, FS_RemoveElement
<1>10. Distance(s, t) = Cardinality(combo \ {"tool"}) + (IF s.tool # t.tool THEN 1 ELSE 0)
  BY <1>7, Zenon DEF Distance
<1>11. Distance(s, t) = Cardinality(combo)
  BY <1>1, <1>8, <1>9, <1>10
<1>. QED  BY <1>1, <1>11

\* Every stored witness is a genuine swap of its record, within the budget.
THEOREM WitnessTheorem == Spec => []WitnessGenuine
<1>1. LabelInv => WitnessGenuine
  <2>1. SUFFICES ASSUME NEW r, Labelled(r), r.category = "C"
        PROVE  /\ WitnessAuditOK(r)
               /\ Distance(StateOf(r.z), r.witness) \in 1..Budget
               /\ HasRule(r.z.domain, r.witness, r.action)
    BY DEF LabelInv, WitnessGenuine, Kept
  <2>2. WitnessAuditOK(r) /\ r.witness \in BackedSwaps(r.z, r.action)
    BY <2>1, WitnessAudited
  <2>3. r.z.domain \in Domains /\ StateOf(r.z) \in DiscreteStates(r.z.domain)
    BY <2>1 DEF Labelled, Returns
  <2>. QED  BY <2>2, <2>3, SwapDistance, BudgetAssumption DEF BackedSwaps
<1>. QED  BY <1>1, LabelInductive, PTL

\* The property the run checks: every label in the file is right.
THEOREM LabelsTheorem == Spec => []LabelsSound
BY RobustTheorem, JointGapTheorem, WitnessTheorem, AuditTheorem, PTL DEF LabelsSound

-----------------------------------------------------------------------------
(* Division by positive numbers, for the product of the four loops.        *)

LEMMA DivMod ==
  ASSUME NEW p \in Nat, NEW n \in Nat, n > 0
  PROVE  /\ p \div n \in Nat /\ p % n \in 0..(n - 1)
         /\ p = n * (p \div n) + (p % n)
OBVIOUS

LEMMA ProductStep ==
  ASSUME NEW a \in Nat, NEW b \in Nat, NEW n \in Nat, a + 1 <= b
  PROVE  n * a + n <= n * b
<1>1. n * (a + 1) = n * a + n
  OBVIOUS
<1>2. b = (a + 1) + (b - (a + 1)) /\ b - (a + 1) \in Nat
  OBVIOUS
<1>3. n * b = n * (a + 1) + n * (b - (a + 1))
  BY <1>2
<1>4. n * (b - (a + 1)) \in Nat
  BY <1>2
<1>. QED  BY <1>1, <1>3, <1>4

LEMMA DivUnique ==
  ASSUME NEW b \in Nat, NEW n \in Nat, NEW k \in 0..(n - 1)
  PROVE  (n * b + k) \div n = b
<1>. DEFINE p == n * b + k
            x == p \div n
            y == p % n
<1>1. n > 0 /\ n * b \in Nat
  OBVIOUS
<1>2. p \in Nat
  BY <1>1
<1>. HIDE DEF p
<1>3. x \in Nat /\ y \in 0..(n - 1) /\ p = n * x + y
  BY <1>1, <1>2, DivMod
<1>. HIDE DEF x, y
<1>4. n * x \in Nat /\ n * b \in Nat
  BY <1>3
<1>5. CASE x + 1 <= b
  <2>1. n * x + n <= n * b  BY <1>3, <1>5, ProductStep
  <2>. QED  BY <1>3, <1>4, <2>1 DEF p
<1>6. CASE b + 1 <= x
  <2>1. n * b + n <= n * x  BY <1>3, <1>6, ProductStep
  <2>. QED  BY <1>3, <1>4, <2>1 DEF p
<1>. QED  BY <1>3, <1>5, <1>6 DEF p, x

LEMMA NextBlock ==
  ASSUME NEW b \in Nat, NEW n \in Nat, n > 0
  PROVE  /\ b + 1 \in Nat /\ 0 \in 0..(n - 1) /\ n * b \in Nat
         /\ n * b + n = n * (b + 1) + 0
OBVIOUS

\* The innermost loop is a block of positions that share the tool and the action.
LEMMA SameBlock ==
  ASSUME NEW d \in Domains, NEW b \in Nat,
         NEW k \in 0..(Len(NumericGrid[d]) - 1), NEW l \in 0..(Len(NumericGrid[d]) - 1)
  PROVE  LET n == Len(NumericGrid[d])
         IN  /\ CandidateAt(d, n * b + k).tool = CandidateAt(d, n * b + l).tool
             /\ ActionAt(d, n * b + k) = ActionAt(d, n * b + l)
<1>. DEFINE n == Len(NumericGrid[d])
            nt == Len(Table[d].tools)
            nc == Len(CategoricalGrid(d))
            m == nc * nt
            e == b \div m
            s == b % m
<1>1. n \in Nat /\ n > 0 /\ nt \in Nat /\ nt > 0 /\ nc \in Nat /\ nc > 0
  BY GridAssumption, NonEmptyLen
<1>. HIDE DEF n, nt, nc
<1>2. m \in Nat /\ m > 0
  BY <1>1, ProductPositive
<1>. HIDE DEF m
<1>3. e \in Nat /\ s \in 0..(m - 1) /\ b = m * e + s
  BY <1>2, DivMod
<1>. HIDE DEF e, s
<1>4. ASSUME NEW j \in 0..(n - 1)
      PROVE  (n * b + j) \div n = b /\ (n * b + j) \div (m * n) = e
  <2>1. (n * b + j) \div n = b
    BY <1>1, DivUnique
  <2>2. n * s + n <= n * m /\ n * s \in Nat /\ n * m = m * n /\ m * n \in Nat
    <3>1. s \in Nat /\ s + 1 <= m
      BY <1>2, <1>3
    <3>. QED  BY <1>1, <1>2, <3>1, ProductStep
  <2>3. n * s + j \in 0..(m * n - 1)
    BY <1>1, <2>2
  <2>4. n * b + j = (m * n) * e + (n * s + j)
    <3>1. n * b = n * (m * e) + n * s
      BY <1>1, <1>2, <1>3
    <3>2. n * (m * e) = (m * n) * e
      BY <1>1, <1>2, <1>3
    <3>3. n * (m * e) \in Nat
      BY <1>1, <1>2, <1>3
    <3>. QED  BY <1>1, <2>2, <3>1, <3>2, <3>3
  <2>. DEFINE mn == m * n
              r == n * s + j
  <2>5. mn \in Nat /\ r \in 0..(mn - 1)
    BY <2>2, <2>3
  <2>. HIDE DEF mn, r
  <2>6. (mn * e + r) \div mn = e
    BY <1>3, <2>5, DivUnique
  <2>7. n * b + j = mn * e + r
    BY <2>4 DEF mn, r
  <2>. QED  BY <2>1, <2>6, <2>7 DEF mn
<1>5. \A j \in 0..(n - 1) : /\ CandidateAt(d, n * b + j).tool = Nth(Table[d].tools, b)
                            /\ ActionAt(d, n * b + j) = Nth(Table[d].actions, e)
  BY <1>4 DEF CandidateAt, ActionAt, n, nt, nc, m
<1>6. k \in 0..(n - 1) /\ l \in 0..(n - 1)
  BY DEF n
<1>. QED  BY <1>5, <1>6 DEF n

-----------------------------------------------------------------------------
(* The caps count what was offered and what was kept.                      *)

Ruled(d, p) == ToolHasAction(d, CandidateAt(d, p).tool, ActionAt(d, p))

\* A block of the innermost loop is entered only where the tool has the action.
Aligned ==
  \E b \in Nat, k \in 0..(Len(NumericGrid[Current]) - 1) :
    /\ pos = Len(NumericGrid[Current]) * b + k
    /\ k # 0 => Ruled(Current, pos)

CapsCount ==
  \A key \in Cells :
    /\ caps[key] = Min({PerCategory, Cardinality(Offered(Current, pos, key))})
    /\ Cardinality(KeptNow(key)) = caps[key]

CellInv ==
  /\ rid \in 0..Len(combined)
  /\ phase = "generate" => Aligned /\ pos <= Positions(Current) /\ CapsCount

LEMMA MinOfTwo ==
  ASSUME NEW a \in Int, NEW b \in Int
  PROVE  Min({a, b}) = IF a <= b THEN a ELSE b
<1>. DEFINE m == IF a <= b THEN a ELSE b
<1>1. \A x \in {a, b} : (\A y \in {a, b} : x <= y) <=> x = m
  OBVIOUS
<1>2. m \in {a, b}
  OBVIOUS
<1>. HIDE DEF m
<1>3. (CHOOSE x \in {a, b} : \A y \in {a, b} : x <= y) = m
  BY <1>1, <1>2
<1>. QED  BY <1>3 DEF Min, m

LEMMA OfferedFinite ==
  ASSUME NEW d, NEW p \in Nat, NEW key
  PROVE  IsFiniteSet(Offered(d, p, key)) /\ Cardinality(Offered(d, p, key)) \in Nat
<1>1. 0 \in Int /\ p - 1 \in Int
  OBVIOUS
<1>2. IsFiniteSet(0..(p - 1))
  BY <1>1, FS_Interval
<1>3. Offered(d, p, key) \in SUBSET (0..(p - 1))
  BY DEF Offered
<1>. QED  BY <1>2, <1>3, FS_Subset, FS_CardinalityType

LEMMA KeptFinite ==
  ASSUME TypeOK, NEW key
  PROVE  IsFiniteSet(KeptNow(key)) /\ Cardinality(KeptNow(key)) \in Nat
<1>1. Len(combined) - rid + 1 \in Int /\ Len(combined) \in Int
  BY DEF TypeOK
<1>. DEFINE lo == Len(combined) - rid + 1
            hi == Len(combined)
<1>2. IsFiniteSet(lo..hi)
  <2>. HIDE DEF lo, hi
  <2>. QED  BY <1>1, FS_Interval DEF lo, hi
<1>3. KeptNow(key) \in SUBSET (lo..hi)
  BY DEF KeptNow
<1>. QED  BY <1>2, <1>3, FS_Subset, FS_CardinalityType

\* The next candidate joins its own cell, if its tool has the action.
LEMMA OfferedNext ==
  ASSUME NEW d, NEW p \in Nat, NEW key, Ruled(d, p)
  PROVE  Cardinality(Offered(d, p + 1, key))
           = Cardinality(Offered(d, p, key)) + (IF CellOf(d, p) = key THEN 1 ELSE 0)
<1>1. \A q : q \in 0..((p + 1) - 1) <=> q \in 0..(p - 1) \/ q = p
  OBVIOUS
<1>2. Offered(d, p + 1, key)
        = IF CellOf(d, p) = key THEN Offered(d, p, key) \cup {p} ELSE Offered(d, p, key)
  BY <1>1 DEF Offered, Ruled
<1>3. p \notin Offered(d, p, key)
  <2>1. p \notin 0..(p - 1)
    OBVIOUS
  <2>. QED  BY <2>1 DEF Offered
<1>. DEFINE O == Offered(d, p, key)
<1>4. IsFiniteSet(O) /\ Cardinality(O) \in Nat /\ p \notin O
  BY <1>3, OfferedFinite
<1>. HIDE DEF O
<1>5. Cardinality(O \cup {p}) = Cardinality(O) + 1
  BY <1>4, FS_AddElement
<1>6. Cardinality(O) + 0 = Cardinality(O)
  BY <1>4
<1>. QED  BY <1>2, <1>5, <1>6 DEF O

\* A skipped block offers nothing.
LEMMA OfferedSkip ==
  ASSUME NEW d \in Domains, NEW b \in Nat, NEW key,
         ~Ruled(d, Len(NumericGrid[d]) * b)
  PROVE  LET n == Len(NumericGrid[d])
         IN  Offered(d, n * b + n, key) = Offered(d, n * b, key)
<1>. DEFINE n == Len(NumericGrid[d])
            p == n * b
<1>1. n \in Nat /\ n > 0
  BY GridAssumption, NonEmptyLen
<1>2. p \in Nat
  BY <1>1
<1>3. ASSUME NEW q \in p..(p + n - 1)
      PROVE  ~Ruled(d, q)
  <2>1. q - p \in 0..(n - 1) /\ 0 \in 0..(n - 1)
    BY <1>1, <1>2
  <2>. DEFINE k == q - p
  <2>2. /\ CandidateAt(d, n * b + k).tool = CandidateAt(d, n * b + 0).tool
        /\ ActionAt(d, n * b + k) = ActionAt(d, n * b + 0)
    <3>. HIDE DEF k
    <3>1. k \in 0..(n - 1)
      BY <2>1 DEF k
    <3>. QED  BY <2>1, <3>1, SameBlock
  <2>3. n * b + k = q /\ n * b + 0 = n * b
    BY <1>2
  <2>. QED  BY <2>2, <2>3 DEF Ruled
<1>4. \A q : q \in 0..(p + n - 1) <=> q \in 0..(p - 1) \/ q \in p..(p + n - 1)
  BY <1>1, <1>2
<1>. HIDE DEF p, n
<1>5. Offered(d, p + n, key) = Offered(d, p, key)
  <2>1. (p + n) - 1 = p + n - 1
    BY <1>1, <1>2
  <2>. QED  BY <1>3, <1>4, <2>1 DEF Offered, Ruled
<1>. QED  BY <1>5 DEF p, n

\* The grid ends at the end of a block.
LEMMA WholeBlocks ==
  ASSUME NEW d \in Domains
  PROVE  \E t \in Nat : t > 0 /\ Positions(d) = Len(NumericGrid[d]) * t
<1>. DEFINE n == Len(NumericGrid[d])
            na == Len(Table[d].actions)
            nt == Len(Table[d].tools)
            nc == Len(CategoricalGrid(d))
<1>1. n \in Nat /\ n > 0 /\ nt \in Nat /\ nt > 0 /\ nc \in Nat /\ nc > 0 /\ na \in Nat /\ na > 0
  BY GridAssumption, NonEmptyLen
<1>2. Positions(d) = ((na * nc) * nt) * n
  BY DEF Positions
<1>. HIDE DEF n, nt, nc, na
<1>3. na * nc \in Nat /\ na * nc > 0
  BY <1>1, ProductPositive
<1>. DEFINE t == (na * nc) * nt
<1>4. t \in Nat /\ t > 0
  BY <1>1, <1>3, ProductPositive
<1>. HIDE DEF t
<1>5. t * n = n * t
  BY <1>1, <1>4
<1>. QED  BY <1>2, <1>4, <1>5 DEF n, t

\* An empty scan: no cell has anything, at the start of every domain.
LEMMA FreshDomain ==
  ASSUME NEW d \in Domains, NEW key
  PROVE  /\ \E b \in Nat, k \in 0..(Len(NumericGrid[d]) - 1) :
              0 = Len(NumericGrid[d]) * b + k /\ k = 0
         /\ 0 <= Positions(d)
         /\ Min({PerCategory, Cardinality(Offered(d, 0, key))}) = 0
<1>1. Len(NumericGrid[d]) \in Nat /\ Len(NumericGrid[d]) > 0
  BY GridAssumption, NonEmptyLen
<1>2. \E b \in Nat, k \in 0..(Len(NumericGrid[d]) - 1) :
        0 = Len(NumericGrid[d]) * b + k /\ k = 0
  <2>1. 0 \in Nat /\ 0 \in 0..(Len(NumericGrid[d]) - 1) /\ 0 = Len(NumericGrid[d]) * 0 + 0
    BY <1>1
  <2>. QED  BY <2>1
<1>3. 0 <= Positions(d)
  <2>1. PICK t \in Nat : t > 0 /\ Positions(d) = Len(NumericGrid[d]) * t
    BY WholeBlocks
  <2>. QED  BY <1>1, <2>1
<1>4. Offered(d, 0, key) = {}
  BY DEF Offered
<1>5. PerCategory \in Nat /\ Cardinality({}) = 0
  BY GridAssumption, FS_EmptySet
<1>6. Min({PerCategory, 0}) = 0
  BY <1>5, MinOfTwo
<1>. QED  BY <1>2, <1>3, <1>4, <1>5, <1>6

LEMMA SkipStep ==
  ASSUME TypeOK, CellInv, SkipTool
  PROVE  CellInv'
<1>. DEFINE d == Current
            n == Len(NumericGrid[d])
<1>1. d \in Domains /\ d' = d /\ phase = "generate" /\ pos \in Nat
  BY CurrentTyped DEF TypeOK, SkipTool, Current
<1>2. n \in Nat /\ n > 0
  BY <1>1, GridAssumption, NonEmptyLen
<1>3. /\ pos < Positions(d) /\ ~Ruled(d, pos) /\ pos' = pos + n
      /\ phase' = phase /\ caps' = caps /\ rid' = rid /\ combined' = combined
  BY DEF SkipTool, Ruled
<1>4. PICK b \in Nat, k \in 0..(n - 1) : pos = n * b + k /\ (k # 0 => Ruled(d, pos))
  BY <1>1 DEF CellInv, Aligned
<1>5. pos = n * b /\ n * b \in Nat
  BY <1>2, <1>3, <1>4
<1>6. PICK t \in Nat : t > 0 /\ Positions(d) = n * t
  BY <1>1, WholeBlocks
<1>7. pos' <= Positions(d)
  <2>. HIDE DEF n, d
  <2>1. b + 1 <= t
    <3>1. SUFFICES ASSUME t <= b  PROVE FALSE
      OBVIOUS
    <3>2. n * t <= n * b
      <4>1. CASE t = b  BY <1>5, <4>1
      <4>2. CASE t + 1 <= b
        <5>1. n * t + n <= n * b /\ n * t \in Nat
          BY <1>2, <4>2, ProductStep
        <5>. QED  BY <1>2, <1>5, <5>1
      <4>. QED  BY <3>1, <4>1, <4>2
    <3>3. n * t \in Nat
      BY <1>2
    <3>. QED  BY <1>3, <1>5, <1>6, <3>2, <3>3
  <2>2. n * b + n <= n * t
    BY <1>2, <2>1, ProductStep
  <2>. QED  BY <1>3, <1>5, <1>6, <2>2
<1>8. Aligned'
  <2>1. b + 1 \in Nat /\ 0 \in 0..(n - 1) /\ n * b + n = n * (b + 1) + 0
    BY <1>2, NextBlock
  <2>2. pos' = n * (b + 1) + 0
    BY <1>3, <1>5, <2>1
  <2>. QED  BY <1>1, <2>1, <2>2 DEF Aligned
<1>9. CapsCount'
  <2>. SUFFICES ASSUME NEW key \in Cells
                PROVE  /\ caps[key] = Min({PerCategory, Cardinality(Offered(d, pos', key))})
                       /\ Cardinality(KeptNow(key)') = caps[key]
    BY <1>1, <1>3 DEF CapsCount
  <2>1. Offered(d, n * b + n, key) = Offered(d, n * b, key)
    BY <1>1, <1>3, <1>5, OfferedSkip
  <2>2. Offered(d, pos', key) = Offered(d, pos, key)
    BY <1>3, <1>5, <2>1
  <2>3. KeptNow(key)' = KeptNow(key)
    BY <1>1, <1>3 DEF KeptNow
  <2>. QED  BY <1>1, <2>2, <2>3 DEF CellInv, CapsCount
<1>. QED  BY <1>1, <1>3, <1>7, <1>8, <1>9 DEF CellInv

\* What a turn of the innermost loop does to the position.
LEMMA GenerateMoves ==
  ASSUME TypeOK, CellInv, Generate
  PROVE  /\ Current \in Domains /\ Current' = Current /\ phase = "generate" /\ phase' = phase
         /\ pos \in Nat /\ pos < Positions(Current) /\ pos' = pos + 1
         /\ Ruled(Current, pos)
         /\ Aligned' /\ pos' <= Positions(Current)
<1>. DEFINE d == Current
            n == Len(NumericGrid[d])
<1>1. d \in Domains /\ d' = d /\ phase = "generate" /\ pos \in Nat
  BY CurrentTyped DEF TypeOK, Generate, Current
<1>2. n \in Nat /\ n > 0
  BY <1>1, GridAssumption, NonEmptyLen
<1>3. pos < Positions(d) /\ Ruled(d, pos) /\ pos' = pos + 1 /\ phase' = phase
  BY DEF Generate, Ruled
<1>4. PICK b \in Nat, k \in 0..(n - 1) : pos = n * b + k
  BY <1>1 DEF CellInv, Aligned
<1>5. n * b \in Nat
  BY <1>2
<1>6. Aligned'
  <2>1. CASE k + 1 \in 0..(n - 1)
    <3>1. pos' = n * b + (k + 1)
      <4>. HIDE DEF n
      <4>. QED  BY <1>2, <1>3, <1>4, <1>5
    <3>2. /\ CandidateAt(d, n * b + (k + 1)).tool = CandidateAt(d, n * b + k).tool
          /\ ActionAt(d, n * b + (k + 1)) = ActionAt(d, n * b + k)
      <4>. DEFINE l == k + 1
      <4>1. l \in 0..(n - 1)  BY <2>1
      <4>. HIDE DEF l
      <4>2. /\ CandidateAt(d, n * b + l).tool = CandidateAt(d, n * b + k).tool
            /\ ActionAt(d, n * b + l) = ActionAt(d, n * b + k)
        BY <1>1, <4>1, SameBlock
      <4>. QED  BY <4>2 DEF l
    <3>3. Ruled(d, pos')
      BY <1>3, <1>4, <3>1, <3>2 DEF Ruled
    <3>. QED  BY <1>1, <2>1, <3>1, <3>3 DEF Aligned, Ruled
  <2>2. CASE k + 1 = n
    <3>1. b + 1 \in Nat /\ 0 \in 0..(n - 1) /\ n * b + n = n * (b + 1) + 0
      BY <1>2, NextBlock
    <3>2. pos' = n * (b + 1) + 0
      <4>. HIDE DEF n
      <4>1. pos' = n * b + n
        BY <1>2, <1>3, <1>4, <1>5, <2>2
      <4>. QED  BY <3>1, <4>1
    <3>. QED  BY <1>1, <3>1, <3>2 DEF Aligned
  <2>. QED  BY <1>2, <2>1, <2>2
<1>7. pos' <= Positions(d)
  <2>1. PICK t \in Nat : Positions(d) = n * t
    BY <1>1, WholeBlocks
  <2>2. Positions(d) \in Nat
    BY <1>2, <2>1
  <2>. QED  BY <1>1, <1>3, <2>2
<1>. QED  BY <1>1, <1>3, <1>6, <1>7

LEMMA GenerateStep ==
  ASSUME TypeOK, CellInv, Generate
  PROVE  CellInv'
<1>. DEFINE d == Current
            z == CandidateAt(d, pos)
            a == ActionAt(d, pos)
            own == CellOf(d, pos)
            N == Len(combined)
<1>1. /\ d \in Domains /\ d' = d /\ phase = "generate" /\ phase' = phase
      /\ pos \in Nat /\ pos' = pos + 1 /\ Ruled(d, pos)
      /\ Aligned' /\ pos' <= Positions(d)
  BY GenerateMoves
<1>2. /\ combined \in Seq(Records) /\ N \in Nat /\ rid \in 0..N /\ PerCategory \in Nat
      /\ caps \in [Cells -> 0..PerCategory]
  BY GridAssumption DEF TypeOK, CellInv
<1>3. z \in Returns /\ z.domain = d /\ a \in Actions(d)
  BY <1>1, CandidateTyped
<1>4. own = CellKey(z, a) /\ own \in Cells
  <2>1. own = CellKey(z, a)
    BY DEF CellOf, CellKey
  <2>2. CellKey(z, a) \in Cells
    BY <1>1, <1>3, CategoryTyped DEF CellKey, Cells, Returns, DiscreteStates, StateOf
  <2>. QED  BY <2>1, <2>2
<1>. HIDE DEF own
<1>5. \A key \in Cells :
        /\ caps[key] = Min({PerCategory, Cardinality(Offered(d, pos, key))})
        /\ Cardinality(KeptNow(key)) = caps[key]
        /\ Cardinality(Offered(d, pos, key)) \in Nat
        /\ Cardinality(Offered(d, pos + 1, key))
             = Cardinality(Offered(d, pos, key)) + (IF own = key THEN 1 ELSE 0)
  <2>. TAKE key \in Cells
  <2>1. Cardinality(Offered(d, pos, key)) \in Nat
    BY <1>1, OfferedFinite
  <2>2. Cardinality(Offered(d, pos + 1, key))
          = Cardinality(Offered(d, pos, key)) + (IF own = key THEN 1 ELSE 0)
    BY <1>1, OfferedNext DEF own
  <2>. QED  BY <1>1, <2>1, <2>2 DEF CellInv, CapsCount
<1>6. \A c \in Int : Min({PerCategory, c}) = IF PerCategory <= c THEN PerCategory ELSE c
  BY <1>2, MinOfTwo
<1>7. SUFFICES /\ rid' \in 0..Len(combined')
               /\ \A key \in Cells :
                    /\ caps'[key] = Min({PerCategory, Cardinality(Offered(d, pos + 1, key))})
                    /\ Cardinality(KeptNow(key)') = caps'[key]
  <2>1. \A key : Offered(Current, pos, key)' = Offered(d, pos + 1, key)
    BY <1>1 DEF Offered, Current
  <2>. QED  BY <1>1, <1>7, <2>1 DEF CellInv, CapsCount
<1>8. CASE CellFull(own)
  <2>1. caps' = caps /\ rid' = rid /\ combined' = combined
    BY <1>4, <1>8 DEF Generate
  <2>2. caps[own] >= PerCategory
    BY <1>8 DEF CellFull
  <2>3. ASSUME NEW key \in Cells
        PROVE  caps[key] = Min({PerCategory, Cardinality(Offered(d, pos + 1, key))})
    <3>. DEFINE c == Cardinality(Offered(d, pos, key))
    <3>1. c \in Nat /\ caps[key] = Min({PerCategory, c})
          /\ Cardinality(Offered(d, pos + 1, key)) = c + (IF own = key THEN 1 ELSE 0)
      BY <1>5
    <3>. HIDE DEF c
    <3>2. CASE own = key
      <4>1. PerCategory <= c
        BY <1>2, <1>6, <2>2, <3>1, <3>2
      <4>2. PerCategory <= c + 1
        BY <1>2, <3>1, <4>1
      <4>. QED  BY <1>6, <3>1, <3>2, <4>1, <4>2
    <3>3. CASE own # key
      BY <3>1, <3>3
    <3>. QED  BY <3>2, <3>3
  <2>4. \A key : KeptNow(key)' = KeptNow(key)
    BY <1>1, <2>1 DEF KeptNow
  <2>. QED  BY <1>2, <1>5, <2>1, <2>3, <2>4
<1>9. CASE ~CellFull(own)
  <2>1. /\ caps' = [caps EXCEPT ![own] = @ + 1] /\ rid' = rid + 1
        /\ \E w \in WitnessesFor(z, a) : combined' = Append(combined, Record(z, a, rid + 1, w))
    BY <1>4, <1>9 DEF Generate
  <2>2. PICK w \in WitnessesFor(z, a) : combined' = Append(combined, Record(z, a, rid + 1, w))
    BY <2>1
  <2>. DEFINE r == Record(z, a, rid + 1, w)
  <2>3. r.z = z /\ r.action = a /\ r.category = Category(z, a)
    BY DEF Record
  <2>4. <<r.action, r.z.tool, r.category>> = own /\ r.z.domain = d
    BY <1>3, <2>3 DEF own, CellOf
  <2>. HIDE DEF r
  <2>5. /\ Len(combined') = N + 1 /\ combined'[N + 1] = r
        /\ \A i \in 1..N : combined'[i] = combined[i]
    BY <1>2, <2>2 DEF r
  <2>. HIDE DEF N
  <2>6. ASSUME NEW key
        PROVE  KeptNow(key)' = IF own = key THEN KeptNow(key) \cup {N + 1} ELSE KeptNow(key)
    <3>. DEFINE In(i) == /\ combined[i].z.domain = d
                         /\ <<combined[i].action, combined[i].z.tool, combined[i].category>> = key
                In2(i) == /\ combined'[i].z.domain = d
                          /\ <<combined'[i].action, combined'[i].z.tool, combined'[i].category>> = key
    <3>1. KeptNow(key) = {i \in (N - rid + 1)..N : In(i)}
      BY DEF KeptNow, N
    <3>2. KeptNow(key)' = {i \in (N - rid + 1)..(N + 1) : In2(i)}
      <4>1. Len(combined') - rid' + 1 = N - rid + 1
        BY <1>2, <2>1, <2>5
      <4>2. KeptNow(key)' = {i \in (Len(combined') - rid' + 1)..Len(combined') : In2(i)}
        BY <1>1 DEF KeptNow
      <4>. HIDE DEF In2
      <4>. QED  BY <2>5, <4>1, <4>2
    <3>3. \A i : i \in (N - rid + 1)..(N + 1) <=> i \in (N - rid + 1)..N \/ i = N + 1
      BY <1>2
    <3>4. \A i \in (N - rid + 1)..N : In2(i) <=> In(i)
      <4>1. \A i \in (N - rid + 1)..N : i \in 1..N
        BY <1>2
      <4>. QED  BY <2>5, <4>1
    <3>5. In2(N + 1) <=> own = key
      BY <2>4, <2>5
    <3>. HIDE DEF In, In2
    <3>. QED  BY <3>1, <3>2, <3>3, <3>4, <3>5
  <2>7. ASSUME NEW key \in Cells
        PROVE  /\ caps'[key] = Min({PerCategory, Cardinality(Offered(d, pos + 1, key))})
               /\ Cardinality(KeptNow(key)') = caps'[key]
    <3>. DEFINE c == Cardinality(Offered(d, pos, key))
    <3>1. c \in Nat /\ caps[key] = Min({PerCategory, c})
          /\ Cardinality(Offered(d, pos + 1, key)) = c + (IF own = key THEN 1 ELSE 0)
          /\ Cardinality(KeptNow(key)) = caps[key]
      BY <1>5
    <3>. HIDE DEF c
    <3>2. CASE own = key
      <4>1. caps'[key] = caps[key] + 1
        BY <1>2, <1>4, <2>1, <3>2
      <4>2. caps[key] < PerCategory /\ caps[key] \in Nat
        BY <1>2, <1>4, <1>9, <3>2 DEF CellFull
      <4>3. caps[key] = c /\ c < PerCategory
        BY <1>2, <1>6, <3>1, <4>2
      <4>4. Min({PerCategory, c + 1}) = c + 1
        <5>1. c + 1 \in Int /\ (PerCategory <= c + 1 => PerCategory = c + 1)
          BY <1>2, <3>1, <4>3
        <5>. QED  BY <1>6, <5>1
      <4>5. Cardinality(KeptNow(key) \cup {N + 1}) = Cardinality(KeptNow(key)) + 1
        <5>1. N + 1 \notin KeptNow(key)
          <6>1. N + 1 \notin (N - rid + 1)..N
            BY <1>2
          <6>. QED  BY <6>1 DEF KeptNow, N
        <5>. QED  BY <5>1, KeptFinite, FS_AddElement
      <4>. QED  BY <2>6, <3>1, <3>2, <4>1, <4>3, <4>4, <4>5
    <3>3. CASE own # key
      <4>1. caps'[key] = caps[key]
        BY <1>2, <1>4, <2>1, <3>3
      <4>2. c + 0 = c
        BY <3>1
      <4>. QED  BY <2>6, <3>1, <3>3, <4>1, <4>2
    <3>. QED  BY <3>2, <3>3
  <2>8. rid' \in 0..Len(combined')
    BY <1>2, <2>1, <2>5
  <2>. QED  BY <2>7, <2>8
<1>. QED  BY <1>8, <1>9

LEMMA FinishStep ==
  ASSUME TypeOK, CellInv, FinishDomain
  PROVE  CellInv'
<1>. DEFINE e == DomainOrder[dom']
<1>1. /\ pos' = 0 /\ rid' = 0 /\ combined' = combined /\ caps' = [key \in Cells |-> 0]
      /\ Len(combined) \in Nat
  BY DEF FinishDomain, TypeOK
<1>2. Current' = e
  BY DEF Current
<1>3. e \in Domains
  <2>1. dom' \in DOMAIN DomainOrder
    BY GridAssumption DEF FinishDomain, TypeOK
  <2>. QED  BY <2>1, GridAssumption
<1>. HIDE DEF e
<1>4. rid' \in 0..Len(combined')
  BY <1>1
<1>5. Aligned' /\ pos' <= Positions(Current)'
  <2>1. 0 <= Positions(e) /\ \E b \in Nat, k \in 0..(Len(NumericGrid[e]) - 1) :
          0 = Len(NumericGrid[e]) * b + k /\ k = 0
    BY <1>3, FreshDomain
  <2>2. Positions(Current)' = Positions(e)
    BY <1>2
  <2>3. Aligned'
    BY <1>1, <1>2, <2>1 DEF Aligned
  <2>. QED  BY <1>1, <2>1, <2>2, <2>3
<1>6. CapsCount'
  <2>1. ASSUME NEW key \in Cells
        PROVE  /\ caps'[key] = Min({PerCategory, Cardinality(Offered(e, 0, key))})
               /\ Cardinality(KeptNow(key)') = caps'[key]
    <3>1. caps'[key] = 0
      BY <1>1, <2>1
    <3>2. KeptNow(key)' = {}
      <4>1. (Len(combined') - rid' + 1)..Len(combined') = {}
        BY <1>1
      <4>. QED  BY <4>1 DEF KeptNow
    <3>3. Min({PerCategory, Cardinality(Offered(e, 0, key))}) = 0
      BY <1>3, FreshDomain
    <3>. QED  BY <3>1, <3>2, <3>3, FS_EmptySet
  <2>2. \A key : Offered(Current, pos, key)' = Offered(e, 0, key)
    BY <1>1, <1>2 DEF Offered, Current
  <2>. QED  BY <2>1, <2>2 DEF CapsCount
<1>. QED  BY <1>4, <1>5, <1>6 DEF CellInv

\* generate_domain keeps the first candidates of every cell, as many as the cap
\* allows and no fewer than the grid offers: whatever the order, or repetition, of
\* the domains on the command line.
THEOREM CellsTheorem == Spec => []CellsFilled
<1>1. Init => CellInv
  <2>. SUFFICES ASSUME Init  PROVE CellInv
    OBVIOUS
  <2>1. /\ pos = 0 /\ rid = 0 /\ Len(combined) = 0 /\ caps = [key \in Cells |-> 0] /\ dom = 1
    BY DEF Init
  <2>. DEFINE e == Current
  <2>2. e \in Domains
    <3>1. 1 \in DOMAIN DomainOrder
      BY GridAssumption, NonEmptyLen
    <3>. QED  BY <2>1, <3>1, GridAssumption DEF Current
  <2>3. ASSUME NEW key \in Cells
        PROVE  /\ caps[key] = Min({PerCategory, Cardinality(Offered(e, pos, key))})
               /\ Cardinality(KeptNow(key)) = caps[key]
    <3>1. caps[key] = 0
      BY <2>1, <2>3
    <3>2. KeptNow(key) = {}
      <4>1. (Len(combined) - rid + 1)..Len(combined) = {}
        BY <2>1
      <4>. QED  BY <4>1 DEF KeptNow
    <3>3. Min({PerCategory, Cardinality(Offered(e, 0, key))}) = 0
      BY <2>2, FreshDomain
    <3>. QED  BY <2>1, <3>1, <3>2, <3>3, FS_EmptySet
  <2>4. Aligned /\ pos <= Positions(e)
    <3>1. 0 <= Positions(e) /\ \E b \in Nat, k \in 0..(Len(NumericGrid[e]) - 1) :
            0 = Len(NumericGrid[e]) * b + k /\ k = 0
      BY <2>2, FreshDomain
    <3>. QED  BY <2>1, <3>1 DEF Aligned
  <2>5. CapsCount
    BY <2>3 DEF CapsCount
  <2>. QED  BY <2>1, <2>4, <2>5 DEF CellInv
<1>2. TypeOK /\ CellInv /\ [Next]_vars => CellInv'
  <2>. SUFFICES ASSUME TypeOK, CellInv, [Next]_vars  PROVE CellInv'
    OBVIOUS
  <2>1. CASE SkipTool      BY <2>1, SkipStep
  <2>2. CASE Generate      BY <2>2, GenerateStep
  <2>3. CASE FinishDomain  BY <2>3, FinishStep
  <2>4. CASE Audit
    <3>1. phase' # "generate" /\ rid' = rid /\ combined' = combined
      BY <2>4 DEF Audit
    <3>. QED  BY <3>1 DEF CellInv
  <2>5. CASE UNCHANGED vars
    <3>. USE <2>5 DEF vars
    <3>1. Current' = Current
      BY DEF Current
    <3>2. Aligned' <=> Aligned
      BY <3>1 DEF Aligned, Ruled
    <3>3. \A key : KeptNow(key)' = KeptNow(key)
      BY <3>1 DEF KeptNow
    <3>4. CapsCount' <=> CapsCount
      BY <3>1, <3>3 DEF CapsCount
    <3>5. Positions(Current)' = Positions(Current)
      BY <3>1
    <3>. QED  BY <3>2, <3>4, <3>5 DEF CellInv
  <2>. QED  BY <2>1, <2>2, <2>3, <2>4, <2>5 DEF Next
<1>3. TypeOK /\ CellInv => CellsFilled
  <2>. SUFFICES ASSUME TypeOK, CellInv, phase = "generate", pos >= Positions(Current),
                       NEW key \in Cells
                PROVE  Cardinality(KeptNow(key))
                         = Min({PerCategory, Cardinality(Offered(Current, Positions(Current), key))})
    BY DEF CellsFilled
  <2>1. pos = Positions(Current)
    <3>1. Current \in Domains
      BY CurrentTyped
    <3>2. PICK t \in Nat : Positions(Current) = Len(NumericGrid[Current]) * t
      BY <3>1, WholeBlocks
    <3>3. Len(NumericGrid[Current]) \in Nat
      BY <3>1, GridAssumption, NonEmptyLen
    <3>4. Positions(Current) \in Nat
      BY <3>2, <3>3
    <3>. QED  BY <3>4 DEF CellInv, TypeOK
  <2>. QED  BY <2>1 DEF CellInv, CapsCount
<1>. QED  BY <1>1, <1>2, <1>3, TypeTheorem, PTL DEF Spec
=============================================================================
