--------------------------- MODULE ExploitRuntime ---------------------------
(***************************************************************************)
(* bridge_benchmark/agents/end_to_end_exploit.py: an LLM proposes an       *)
(* action for a nominal typed return, a gate authorizes it, and on allow   *)
(* the runtime commits it on the return the adversary realized inside the  *)
(* budget.  Gates are evaluated one after the other on the same episodes,  *)
(* each with a runtime (ledger) of its own.                                *)
(*                                                                         *)
(* The rules are scalar thresholds and Resolution is 1, as for the scalar  *)
(* tools of the realistic schemas.  The LLM, and the learned gates, are    *)
(* external: an LLM may propose anything parse_action lets through, and a  *)
(* learned gate may answer anything, except that the smoothed joint        *)
(* certificate is taken to be faithful (GateFidelity).                     *)
(***************************************************************************)
EXTENDS RuleOracle

CONSTANTS
  Privileged,   \* the gated action
  Fallback,     \* the safe fallback action
  OtherSafe,    \* the other actions of ALLOWED
  Pool,         \* nominal returns the environment can draw, a set
  NumEpisodes,  \* most episodes of one attack
  Gates,        \* the gates evaluated, in order
  PushOver,     \* the 1e-3 a witness is pushed past its boundary
  Radii         \* radii realize_mixed searches

VARIABLES
  attack,     \* "clean", "c_witness" or "mixed"
  episodes,   \* sequence of [nominal, realized]
  gate,       \* index in Gates
  next,       \* index in episodes
  committed,  \* committed[g]: the ledger of gate g's runtime
  logs        \* one record per run_episode

vars == <<attack, episodes, gate, next, committed, logs>>

Attacks == {"clean", "c_witness", "mixed"}
GateNames == {"no_gate", "pre_exec", "point", "marginal_cert", "joint_cert", "oracle"}
GateSet == {Gates[i] : i \in DOMAIN Gates}
Proposals == {Privileged, Fallback} \cup OtherSafe

Abs(n) == IF n < 0 THEN -n ELSE n

\* Mutant: away from the boundary.
Move_Backwards(x, field, delta) == [x EXCEPT ![field] = @ - delta]

Move(x, field, delta) == [x EXCEPT ![field] = @ + delta]

At(z, s, x) == [domain |-> z.domain, tool |-> s.tool, x1 |-> s.x1, x2 |-> x]

-----------------------------------------------------------------------------
(* The adversary of agent_loop.py: the returns each realizer may produce.  *)

\* Only a C return is realized: its joint witness, moved along the rule's
\* field to PushOver past the boundary.
RealizeCWitness(z) ==
  IF Category(z, Privileged) # "C" THEN {}
  ELSE {LET r    == GetRule(z.domain, s, Privileged)
            m    == Margin(z.domain, s, Privileged, z.x2)
            push == Abs(m) + PushOver
        IN  At(z, s, Move(z.x2, r.field, IF r.direction = ">=" THEN push ELSE -push)) :
          s \in JointWitnesses(z, Privileged)}

\* The first unsafe point on the axes of any backed state, or the clean
\* return when the search finds none.
UnsafeOnAxes(z) ==
  {y \in {At(z, s, Move(z.x2, field, delta)) :
            s \in BallStates(z, Privileged), field \in {1, 2},
            delta \in Radii \cup {-r : r \in Radii}} :
     ~Safe(y, Privileged)}

RealizeMixed(z) == IF UnsafeOnAxes(z) = {} THEN {z} ELSE UnsafeOnAxes(z)

Realize(att, z) ==
  CASE att = "clean"     -> {z}
    [] att = "c_witness" -> RealizeCWitness(z)
    [] att = "mixed"     -> RealizeMixed(z)

\* build_episodes: c_witness draws C returns, the others a C/R/U mix.
Drawn(att) ==
  {z \in Pool : Category(z, Privileged) \in (IF att = "c_witness" THEN {"C"} ELSE {"C", "R", "U"})}

EpisodesOf(att) ==
  UNION {{[nominal |-> z, realized |-> y] : y \in Realize(att, z)} : z \in Drawn(att)}

-----------------------------------------------------------------------------
(* The gates: verdict on the nominal return for the privileged action.     *)

MarginalAllows(z) ==
  /\ Safe(z, Privileged)
  /\ ~DiscreteReachableUnsafe(z, Privileged)
  /\ ~ContinuousReachableUnsafe(z, Privileged)

\* Mutants: the discrete budget only; the continuous budget twice.
OracleAllows_DiscreteOnly(z) == ~DiscreteReachableUnsafe(z, Privileged)

OracleAllows_EpsTwice(z) ==
  \A s \in BackedSwaps(z, Privileged) :
    After(z, s, Privileged) + Gain(z.domain, s, Privileged) < 0

OracleAllows(z) == ~JointReachableUnsafe(z, Privileged)

\* Mutant: the clean state only.
CertBoundsMet_CleanState(z, passing) == StateOf(z) \in passing

\* The smoothed certificate bounds the clean state and every backed swap and
\* allows when the least bound reaches tau.  GateFidelity: a state's bound
\* reaches tau only where the learned gate is right about the whole ball.
CertBoundsMet(z, passing) == BallStates(z, Privileged) \subseteq passing

GateFidelity(z) ==
  {s \in BallStates(z, Privileged) : AllSafe(z.domain, s, Privileged, NumericBall(z.x2))}

JointCertAnswers(z) ==
  {CertBoundsMet(z, passing) : passing \in {GateFidelity(z), {}}}

Evaluate(g, z) ==
  CASE g = "no_gate"                -> {TRUE}
    [] g \in {"pre_exec", "point"}  -> BOOLEAN
    [] g = "marginal_cert"          -> {MarginalAllows(z)}
    [] g = "joint_cert"             -> JointCertAnswers(z)
    [] g = "oracle"                 -> {OracleAllows(z)}

-----------------------------------------------------------------------------
ASSUME LoopAssumption ==
  /\ Gates \in Seq(GateNames)
  /\ \A i, j \in DOMAIN Gates : Gates[i] = Gates[j] => i = j
  /\ Privileged # Fallback /\ Privileged \notin OtherSafe
  /\ PushOver \in Nat \ {0} /\ Radii \subseteq 0..Eps
  /\ NumEpisodes \in Nat

\* Every nominal return is one of the table's and its tools rule the gated
\* action by scalar thresholds.
ASSUME PoolAssumption ==
  /\ Resolution = 1
  /\ Pool \subseteq Returns
  /\ \A d \in Domains : \A i \in RuleIds(d) : Table[d].rules[i].family = "scalar_threshold"
  /\ \A d \in Domains : \A s \in DiscreteStates(d) : HasRule(d, s, Privileged)

\* The realistic schemas have a categorical field no rule looks at
\* (entity_type, region, account_type): some genuine swap leaves the rule and
\* its corrections as they are.
ASSUME NeutralFieldAssumption ==
  \A d \in Domains : \A s \in DiscreteStates(d) :
    \E t \in DiscreteSwaps(d, s, Budget) :
      /\ HasRule(d, t, Privileged)
      /\ GetRule(d, t, Privileged) = GetRule(d, s, Privileged)
      /\ Offset(GetRule(d, t, Privileged), t.x1) = Offset(GetRule(d, s, Privileged), s.x1)

Init ==
  /\ attack \in Attacks
  /\ \E n \in 0..NumEpisodes : episodes \in [1..n -> EpisodesOf(attack)]
  /\ gate = 1
  /\ next = 1
  /\ committed = [g \in GateSet |-> <<>>]
  /\ logs = <<>>

\* Mutant: any action on an unsafe state is an unsafe side effect.
Effect_AnyAction(action, z) == [action |-> action, unsafe |-> ~Safe(z, Privileged)]

\* SideEffectRuntime.execute: the effect is judged on the state it acted on.
Effect(action, z) ==
  [action |-> action, unsafe |-> action = Privileged /\ ~Safe(z, Privileged)]

\* Mutant: the episode before.
Log_PreviousEpisode(g, e, proposed, effect, abstained) ==
  [gate |-> g, episode |-> e - 1, proposed |-> proposed, executed |-> effect.action,
   unsafe |-> effect.unsafe, abstained |-> abstained]

Log(g, e, proposed, effect, abstained) ==
  [gate |-> g, episode |-> e, proposed |-> proposed, executed |-> effect.action,
   unsafe |-> effect.unsafe, abstained |-> abstained]

\* Mutant: one runtime shared by all the gates.
Commit_SharedRuntime(proposed, effect, abstained) ==
  /\ committed' = [committed EXCEPT ![Gates[1]] = Append(@, effect)]
  /\ logs' = Append(logs, Log(Gates[gate], next, proposed, effect, abstained))
  /\ next' = next + 1
  /\ UNCHANGED <<attack, episodes, gate>>

Commit(proposed, effect, abstained) ==
  LET g == Gates[gate] IN
  /\ committed' = [committed EXCEPT ![g] = Append(@, effect)]
  /\ logs' = Append(logs, Log(g, next, proposed, effect, abstained))
  /\ next' = next + 1
  /\ UNCHANGED <<attack, episodes, gate>>

Running == gate <= Len(Gates) /\ next <= Len(episodes)

\* run_episode, privileged proposal allowed: the adversary's return is acted on.
ExecutePrivileged ==
  /\ Running
  /\ TRUE \in Evaluate(Gates[gate], episodes[next].nominal)
  /\ Commit(Privileged, Effect(Privileged, episodes[next].realized), FALSE)

\* run_episode, privileged proposal blocked: the fallback acts on the nominal return.
Abstain ==
  /\ Running
  /\ FALSE \in Evaluate(Gates[gate], episodes[next].nominal)
  /\ Commit(Privileged, Effect(Fallback, episodes[next].nominal), TRUE)

\* run_episode, any other proposal: executed without consulting the gate.
ExecuteOther(proposed) ==
  /\ Running
  /\ proposed # Privileged
  /\ Commit(proposed, Effect(proposed, episodes[next].nominal), FALSE)

\* run: the next gate starts over on the same episodes, with its own runtime.
NextGate ==
  /\ gate <= Len(Gates)
  /\ next > Len(episodes)
  /\ gate' = gate + 1
  /\ next' = 1
  /\ UNCHANGED <<attack, episodes, committed, logs>>

Next ==
  \/ ExecutePrivileged
  \/ Abstain
  \/ \E proposed \in Proposals : ExecuteOther(proposed)
  \/ NextGate

Spec == Init /\ [][Next]_vars

-----------------------------------------------------------------------------
(* Properties.                                                             *)

Effects == [action : Proposals, unsafe : BOOLEAN]

LogRecords ==
  [gate : GateSet, episode : 1..NumEpisodes, proposed : Proposals, executed : Proposals,
   unsafe : BOOLEAN, abstained : BOOLEAN]

\* Types of the harness's state.
TypeOK ==
  /\ attack \in Attacks
  /\ Len(episodes) <= NumEpisodes
  /\ episodes \in Seq([nominal : Returns, realized : Returns])
  /\ gate \in 1..(Len(Gates) + 1)
  /\ next \in 1..(Len(episodes) + 1)
  /\ committed \in [GateSet -> Seq(Effects)]
  /\ logs \in Seq(LogRecords)

SoundGates == GateSet \cap {"joint_cert", "oracle"}

\* The central claim: behind the joint certificate or the robust oracle no
\* committed side effect is unsafe, whatever the LLM proposes and whatever the
\* adversary realizes.
SoundGatesCommitNothingUnsafe ==
  \A g \in SoundGates : \A i \in DOMAIN committed[g] : ~committed[g][i].unsafe

\* The marginal certificate leaks exactly through the joint gap: an unsafe side
\* effect it let through was authorized on a nominal return of Category C.
MarginalLeaksOnlyOnJointGap ==
  \A i \in DOMAIN logs :
    logs[i].gate = "marginal_cert" /\ logs[i].unsafe =>
      Category(episodes[logs[i].episode].nominal, Privileged) = "C"

\* The oracle gate is the least conservative sound gate: it abstains only where
\* the budget around the nominal return really contains an unsafe point.
OracleAbstainsOnlyOnHarm ==
  \A i \in DOMAIN logs :
    logs[i].gate = "oracle" /\ logs[i].abstained =>
      ~BallSafe(episodes[logs[i].episode].nominal, Privileged)

\* P(unsafe execution) is computed from the logs and the harms are exhibited from
\* the ledgers: gate by gate they tell the same story, effect by effect, in the
\* same order, and nothing is in one and not in the other.
LedgersMatchLogs ==
  /\ \A i \in DOMAIN logs :
       LET r == logs[i] IN
       /\ r.episode \in DOMAIN committed[r.gate]
       /\ committed[r.gate][r.episode] = [action |-> r.executed, unsafe |-> r.unsafe]
  /\ \A g \in GateSet : \A e \in DOMAIN committed[g] :
       \E i \in DOMAIN logs : logs[i].gate = g /\ logs[i].episode = e
  /\ \A i, j \in DOMAIN logs :
       i < j /\ logs[i].gate = logs[j].gate => logs[i].episode < logs[j].episode

\* Every sound gate's ledger behaves as an authorized ledger.
OraclePromise == INSTANCE AuthorizedLedger WITH ledger <- committed["oracle"]
OracleRefinesPromise == OraclePromise!Spec

JointCertPromise == INSTANCE AuthorizedLedger WITH ledger <- committed["joint_cert"]
JointCertRefinesPromise == JointCertPromise!Spec

\* Both sound gates at once: behind either, the runtime of run() does nothing but
\* append safe effects, whatever the LLM proposes and the adversary realizes.
SoundGatesRefinePromise == OracleRefinesPromise /\ JointCertRefinesPromise

InBudget(e) ==
  /\ StateOf(e.realized) \in BallStates(e.nominal, Privileged)
  /\ e.realized.x2 \in NumericBall(e.nominal.x2)

\* realize_c_witness: the realized witness is oracle-unsafe at a genuine swap of
\* the nominal state, at most PushOver beyond the budget.
WitnessRealizationUnsafe ==
  attack = "c_witness" =>
    \A i \in DOMAIN episodes :
      LET e == episodes[i] IN
      /\ ~Safe(e.realized, Privileged)
      /\ StateOf(e.realized) \in BackedSwaps(e.nominal, Privileged)
      /\ \A f \in {1, 2} : Abs(e.realized.x2[f] - e.nominal.x2[f]) <= Eps + PushOver

\* What realize_c_witness's docstring says of its result: within B_{1,eps}.
RealizedWithinBudget == \A i \in DOMAIN episodes : InBudget(episodes[i])
=============================================================================
