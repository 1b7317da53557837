------------------------- MODULE BenchmarkGenerator -------------------------
(***************************************************************************)
(* bridge_benchmark/generators/generate.py: the loop that walks the        *)
(* categorical and numeric grids of every domain, labels each candidate    *)
(* with the oracle, keeps the first ones of every (action, tool, category) *)
(* cell, and finally re-audits every C witness it wrote.                   *)
(*                                                                         *)
(* The nested loops are one position counter over their product, outermost *)
(* loop first.  Serialisation of the records is left out.                  *)
(***************************************************************************)
EXTENDS RuleOracle

CONSTANTS
  DomainOrder,   \* sequence of domains, the --domains argument
  NumericGrid,   \* _numeric_grid, by domain: a sequence of points
  PerCategory,   \* --per-category
  NoWitness

VARIABLES
  phase,     \* "generate", "audit" or "exited"
  dom,       \* index in DomainOrder of the domain being generated
  pos,       \* position in the product of the four loops
  caps,      \* caps[key]: records kept of a cell
  rid,       \* id counter of the current domain
  combined,  \* all records kept, in order
  bad        \* C witnesses that failed the final audit

vars == <<phase, dom, pos, caps, rid, combined, bad>>

Categories == {"U", "A", "B", "C", "R"}

Cells == UNION {Actions(d) \X Tools(d) \X Categories : d \in Domains}

Nth(seq, block) == seq[(block % Len(seq)) + 1]

-----------------------------------------------------------------------------
\* _categorical_grid: the first value of every field, and one variant per
\* field that has a second value.
BaseContext(d) == [f \in Fields(d) |-> Table[d].categories[f][1]]

CategoricalGrid(d) ==
  LET variants == SelectSeq(Table[d].fieldOrder, LAMBDA f : Len(Table[d].categories[f]) > 1)
  IN  <<BaseContext(d)>> \o
      [i \in DOMAIN variants |->
         [BaseContext(d) EXCEPT ![variants[i]] = Table[d].categories[variants[i]][2]]]

Positions(d) ==
  Len(Table[d].actions) * Len(CategoricalGrid(d)) * Len(Table[d].tools) * Len(NumericGrid[d])

ActionAt(d, p) ==
  Nth(Table[d].actions, p \div (Len(CategoricalGrid(d)) * Len(Table[d].tools) * Len(NumericGrid[d])))

CandidateAt(d, p) ==
  [domain |-> d,
   tool   |-> Nth(Table[d].tools, p \div Len(NumericGrid[d])),
   x1     |-> Nth(CategoricalGrid(d), p \div (Len(Table[d].tools) * Len(NumericGrid[d]))),
   x2     |-> Nth(NumericGrid[d], p)]

\* Some rule of any context names the tool and the action.
ToolHasAction(d, tool, a) ==
  \E i \in RuleIds(d) : Table[d].rules[i].tool = tool /\ Table[d].rules[i].action = a

\* No (tool, action) pair is ruled in some contexts only, so safe() never
\* raises KeyError in the loop, and both grids hold typed returns.
ASSUME LookupAssumption ==
  \A d \in Domains : \A s \in DiscreteStates(d) : \A a \in Actions(d) :
    ToolHasAction(d, s.tool, a) => HasRule(d, s, a)

ASSUME GridAssumption ==
  /\ DomainOrder \in Seq(Domains) \ {<<>>}
  /\ PerCategory \in Nat
  /\ \A d \in Domains :
       /\ Table[d].actions \in Seq(Actions(d)) \ {<<>>}
       /\ Table[d].tools \in Seq(Tools(d)) \ {<<>>}
       /\ CategoricalGrid(d) \in Seq(Contexts(d)) \ {<<>>}
       /\ NumericGrid[d] \in Seq(Int \X Int) \ {<<>>}

-----------------------------------------------------------------------------
Init ==
  /\ phase = "generate"
  /\ dom = 1
  /\ pos = 0
  /\ caps = [key \in Cells |-> 0]
  /\ rid = 0
  /\ combined = <<>>
  /\ bad = 0

Current == DomainOrder[dom]

\* The tool has no rule for the action: its inner loop never starts.
SkipTool ==
  /\ phase = "generate" /\ pos < Positions(Current)
  /\ ~ToolHasAction(Current, CandidateAt(Current, pos).tool, ActionAt(Current, pos))
  /\ pos' = pos + Len(NumericGrid[Current])
  /\ UNCHANGED <<phase, dom, caps, rid, combined, bad>>

WitnessesFor(z, a) == IF Category(z, a) = "C" THEN JointWitnesses(z, a) ELSE {NoWitness}

\* Mutant: records of all tools share a cell.
CellKey_NoTool(z, a) == <<a, Table[z.domain].tools[1], Category(z, a)>>

CellKey(z, a) == <<a, z.tool, Category(z, a)>>

\* Mutant: one record too many.
CellFull_OffByOne(key) == caps[key] > PerCategory

CellFull(key) == caps[key] >= PerCategory

Record(z, a, id, w) ==
  [id |-> id, z |-> z, action |-> a, safe |-> Safe(z, a),
   category |-> Category(z, a), witness |-> w]

\* One turn of the innermost loop: label, then keep unless the cell is full.
Generate ==
  /\ phase = "generate" /\ pos < Positions(Current)
  /\ LET z   == CandidateAt(Current, pos)
         a   == ActionAt(Current, pos)
         key == CellKey(z, a)
     IN
     /\ ToolHasAction(Current, z.tool, a)
     /\ IF CellFull(key)
        THEN UNCHANGED <<caps, rid, combined>>
        ELSE /\ caps' = [caps EXCEPT ![key] = @ + 1]
             /\ rid' = rid + 1
             /\ \E w \in WitnessesFor(z, a) :
                  combined' = Append(combined, Record(z, a, rid + 1, w))
  /\ pos' = pos + 1
  /\ UNCHANGED <<phase, dom, bad>>

\* generate_domain returns; the next call starts with fresh caps and ids.
FinishDomain ==
  /\ phase = "generate" /\ pos >= Positions(Current)
  /\ IF dom < Len(DomainOrder)
     THEN dom' = dom + 1 /\ phase' = phase
     ELSE dom' = dom /\ phase' = "audit"
  /\ pos' = 0
  /\ caps' = [key \in Cells |-> 0]
  /\ rid' = 0
  /\ UNCHANGED <<combined, bad>>

WitnessAuditOK(r) ==
  /\ Margin(r.z.domain, r.witness, r.action, r.z.x2) < 0
  /\ After(r.z, r.witness, r.action) >= 0

\* main's audit of the written C witnesses; a violation makes it exit with 1.
Audit ==
  /\ phase = "audit"
  /\ bad' = Cardinality({i \in DOMAIN combined :
                           combined[i].category = "C" /\ ~WitnessAuditOK(combined[i])})
  /\ phase' = "exited"
  /\ UNCHANGED <<dom, pos, caps, rid, combined>>

Next == SkipTool \/ Generate \/ FinishDomain \/ Audit

Spec == Init /\ [][Next]_vars

-----------------------------------------------------------------------------
(* Properties.                                                             *)

Kept == {combined[i] : i \in DOMAIN combined}

Records ==
  [id : Nat, z : Returns, action : UNION {Actions(d) : d \in Domains}, safe : BOOLEAN,
   category : Categories, witness : (UNION {DiscreteStates(d) : d \in Domains}) \cup {NoWitness}]

\* Types of the generator's state.
TypeOK ==
  /\ phase \in {"generate", "audit", "exited"}
  /\ dom \in DOMAIN DomainOrder
  /\ pos \in Nat
  /\ caps \in [Cells -> 0..PerCategory]
  /\ rid \in Nat
  /\ bad \in Nat
  /\ combined \in Seq(Records)

\* A record labelled R_robust_interior is safe on its whole hybrid budget, the
\* clean discrete state included: no point of the L2 ball, at no backed
\* state, is unsafe.  The closed-form margins of category() never overlook a
\* concrete perturbation.
RobustInteriorSound == \A r \in Kept : r.category = "R" => BallSafe(r.z, r.action)

\* What generates a joint gap: on a C record every purely discrete and every
\* purely continuous perturbation is safe, yet (where the grid is fine enough
\* to tell, on scalar rules) some swap with some numeric move is not.
ScalarDomain(d) == \A i \in RuleIds(d) : Table[d].rules[i].family = "scalar_threshold"

JointGapGenuine ==
  \A r \in Kept : r.category = "C" =>
    /\ \A s \in BallStates(r.z, r.action) : AllSafe(r.z.domain, s, r.action, {r.z.x2})
    /\ AllSafe(r.z.domain, StateOf(r.z), r.action, NumericBall(r.z.x2))
    /\ ScalarDomain(r.z.domain) => ~BallSafe(r.z, r.action)

\* The stored witness of a C record is a genuine swap of the record's own
\* state, with a rule, as verify_interaction_type re-audits it.
Distance(s, t) ==
  Cardinality({f \in DOMAIN s.x1 : s.x1[f] # t.x1[f]}) + (IF s.tool # t.tool THEN 1 ELSE 0)

WitnessGenuine ==
  \A r \in Kept : r.category = "C" =>
    /\ WitnessAuditOK(r)
    /\ Distance(StateOf(r.z), r.witness) \in 1..Budget
    /\ HasRule(r.z.domain, r.witness, r.action)

\* The cell a candidate falls into, and the candidates before position p in a cell.
CellOf(d, p) ==
  <<ActionAt(d, p), CandidateAt(d, p).tool, Category(CandidateAt(d, p), ActionAt(d, p))>>

Offered(d, p, key) ==
  {q \in 0..(p - 1) :
     ToolHasAction(d, CandidateAt(d, q).tool, ActionAt(d, q)) /\ CellOf(d, q) = key}

\* The last rid records are those of the current call of generate_domain.
KeptNow(key) ==
  {i \in (Len(combined) - rid + 1)..Len(combined) :
     /\ combined[i].z.domain = Current
     /\ <<combined[i].action, combined[i].z.tool, combined[i].category>> = key}

\* When a domain is finished, every cell holds exactly as many records as the
\* grid offered, up to the cap: the caps drop no category that occurs, leak
\* from no other domain and never admit one record too many.
CellsFilled ==
  phase = "generate" /\ pos >= Positions(Current) =>
    \A key \in Cells :
      Cardinality(KeptNow(key))
        = Min({PerCategory, Cardinality(Offered(Current, Positions(Current), key))})

\* The final audit of the written file finds nothing: main exits with 0.
AuditPasses == phase = "exited" => bad = 0

\* generate_dataset's labels mean what they say, and stay so in the file main
\* writes: R is safe on the whole budget, C is safe on either budget alone and
\* not on both, its witness is a swap of its own state, and the audit agrees.
LabelsSound == RobustInteriorSound /\ JointGapGenuine /\ WitnessGenuine /\ AuditPasses
=============================================================================
