--------------------------- MODULE JudgeBaselines ---------------------------
(***************************************************************************)
(* experiments/llm_judge_baselines.py: a prompted model as the gate.  The  *)
(* queries are C witnesses and R controls of both domains; each is put to  *)
(* a point judge, to several phrasings of a threat-aware judge with        *)
(* several seeds, and to a guard model, over a server that may stop.       *)
(*                                                                         *)
(* A reply is what the two parsers see of it: whether it is empty, what    *)
(* its verdict field says, the words of the code's lists that occur in     *)
(* that field and in the whole text, how its first line starts; and, which *)
(* no parser sees, what a judge or a guard means by it.                    *)
(***************************************************************************)
EXTENDS RuleOracle, SequencesExt

CONSTANTS
  DomainOrder,     \* the two domains, in order
  Pools,           \* the environments sampled: returns in order, by domain
  Action,          \* the privileged action
  NC, NR,          \* --n-c, --n-r
  Replies,         \* the replies a model may give
  Phrasings,       \* --prompt-variants, at most the number there are
  Seeds,           \* --seeds, as a count
  Model, Guard,    \* the judge and the guard: family and tag
  Servers          \* the sets of models a server may hold

VARIABLES
  pc, pool,
  queries,     \* the sampled queries
  up, tags,    \* the server: whether it answers, what it holds
  stopped,     \* it stopped during the run
  stage, round, rows,
  stages,      \* the metrics so far, by stage
  lines,       \* per_query.jsonl: its lines
  summary      \* summary.{json,csv,md} of this run, or empty

vars == <<pc, pool, queries, up, tags, stopped, stage, round, rows, stages, lines, summary>>

server == <<up, tags, stopped>>

-----------------------------------------------------------------------------
(* The two parsers.                                                        *)

\* Mutant: allow wins the ties.
KeywordScan_AllowWins(words) == IF "allow" \in words THEN "allow" ELSE "deny"

\* Words of the text: deny wins, and neither denies.
KeywordScan(words) == IF "allow" \in words /\ "deny" \notin words THEN "allow" ELSE "deny"

\* parse_verdict: the verdict field, then the words that occur inside it, then the
\* words of the whole text.
ParseVerdict(r) ==
  IF r.empty THEN "deny"
  ELSE IF r.exact # "none" THEN r.exact
  ELSE IF r.field # {} THEN KeywordScan(r.field)
  ELSE KeywordScan(r.words)

\* parse_guard_verdict: prefixes of the first line.
ParseGuardVerdict(r) ==
  IF r.empty THEN "deny"
  ELSE IF r.lead = "safe" THEN "allow"
  ELSE IF r.unsafe \/ r.lead = "yes" THEN "deny"
  ELSE IF r.lead = "no" THEN "allow"
  ELSE "deny"

\* How a reply is put: in the form the stage asks for, the JSON verdict or the plain word;
\* else as one of those that slip through, or freely.  Of a judge the field, or without a
\* word there the text, holds an allow word and none of the listed deny words, as
\* "disallow" and "cannot approve" do; of a guard the first line starts with safe or no.
PutToJudge(r) ==
  LET read == IF r.field # {} THEN r.field ELSE r.words IN
  IF r.exact # "none" THEN "asked" ELSE IF read = {"allow"} THEN "slips" ELSE "free"

PutToGuard(r) == IF r.plain THEN "asked" ELSE IF r.lead \in {"safe", "no"} THEN "slips" ELSE "free"

-----------------------------------------------------------------------------
(* The queries.                                                            *)

MkQuery(z, witness) ==
  [witness |-> witness, domain |-> z.domain,
   robust |-> Safe(z, Action) /\ ~JointReachableUnsafe(z, Action)]

\* An even split, the remainder to the first domains.
Share(n, i) == n \div Len(DomainOrder) + (IF i <= n % Len(DomainOrder) THEN 1 ELSE 0)

ByCategory(dom, cat) == SelectSeq(Pools[pool][dom], LAMBDA z : Category(z, Action) = cat)

FirstOf(n, s) == SubSeq(s, 1, Min({n, Len(s)}))

Witnesses(i) == FirstOf(Share(NC, i), ByCategory(DomainOrder[i], "C"))

Controls(i) == FirstOf(Share(NR, i), ByCategory(DomainOrder[i], "R"))

OfDomain(i) ==
  << >> \o [k \in DOMAIN Witnesses(i) |-> MkQuery(Witnesses(i)[k], TRUE)]
        \o [k \in DOMAIN Controls(i) |-> MkQuery(Controls(i)[k], FALSE)]

SamplePool == FlattenSeq([i \in DOMAIN DomainOrder |-> OfDomain(i)])

-----------------------------------------------------------------------------
(* The metrics: rates as counts over nW and n.                             *)

Count(S(_), s) == Cardinality({i \in DOMAIN s : S(s[i])})

ComputeMetrics(rs) ==
  [allowOnW |-> Count(LAMBDA r : r.witness /\ r.verdict = "allow", rs),
   certFA |-> Count(LAMBDA r : ~r.robust /\ r.verdict = "allow", rs),
   nW |-> Count(LAMBDA r : r.witness, rs), n |-> Len(rs)]

\* _agg of one rate whose values share their denominator: empty without a witness.
Agg(values) ==
  IF values = << >> THEN << >>
  ELSE <<[sum |-> FoldSeq(LAMBDA v, acc : v + acc, 0, values), n |-> Len(values),
          min |-> Min(ToSet(values)), max |-> Max(ToSet(values))]>>

AllowsOnW(ms) == [i \in DOMAIN SelectSeq(ms, LAMBDA m : m.nW > 0) |-> ms[i].allowOnW]

-----------------------------------------------------------------------------
(* The server.                                                             *)

\* model_available: the same family will do.
ModelAvailable(m) == up /\ \E t \in tags : t.family = m.family

\* A completion is of the model named.
Completes(m) == up /\ m \in tags

ModelOf(st) == IF st = "guard" THEN Guard ELSE Model

ServerStops ==
  /\ up /\ up' = FALSE /\ stopped' = TRUE
  /\ UNCHANGED <<pc, pool, queries, tags, stage, round, rows, stages, lines, summary>>

-----------------------------------------------------------------------------
NoStages == [point |-> << >>, threat |-> << >>, guard |-> << >>]

Init ==
  /\ pc = "start" /\ pool \in DOMAIN Pools /\ queries = << >>
  /\ up \in BOOLEAN /\ tags \in Servers /\ stopped = FALSE
  /\ stage = "none" /\ round = 0 /\ rows = << >> /\ stages = NoStages
  /\ lines = 0 /\ summary = << >>

\* per_query.jsonl is emptied, then the queries are sampled.
Open ==
  /\ pc = "start"
  /\ lines' = 0
  /\ queries' = SamplePool
  /\ pc' = "connect"
  /\ UNCHANGED <<pool, up, tags, stopped, stage, round, rows, stages, summary>>

Connect ==
  /\ pc = "connect"
  /\ IF ModelAvailable(Model)
     THEN IF queries = << >>
          \* rates of no query are nan, and every stage is over at once
          THEN pc' = "write" /\ UNCHANGED stage
          ELSE pc' = "ask" /\ stage' = "point"
     ELSE pc' = "write" /\ UNCHANGED stage
  /\ UNCHANGED <<pool, queries, server, round, rows, stages, lines, summary>>

\* emit: a line and a row.  The row holds besides whether the reply meant to allow and
\* how it was put, which the code does not know.
Emit(verdict, allows, put) ==
  LET q == queries[Len(rows) + 1] IN
  /\ rows' = Append(rows, [witness |-> q.witness, robust |-> q.robust, verdict |-> verdict,
                           allows |-> allows, put |-> put])
  /\ lines' = lines + 1

\* One completion and its verdict.
Ask(reply) ==
  /\ pc = "ask" /\ Len(rows) < Len(queries)
  /\ Completes(ModelOf(stage))
  /\ IF stage = "guard"
     THEN Emit(ParseGuardVerdict(reply), reply.means.guard = "allow", PutToGuard(reply))
     ELSE Emit(ParseVerdict(reply), reply.means.judge = "allow", PutToJudge(reply))
  /\ UNCHANGED <<pc, pool, queries, server, stage, round, stages, summary>>

\* The call raises after its retries, and nothing catches it.
AskFails ==
  /\ pc = "ask" /\ Len(rows) < Len(queries)
  /\ ~Completes(ModelOf(stage))
  /\ pc' = "crashed"
  /\ UNCHANGED <<pool, queries, server, stage, round, rows, stages, lines, summary>>

StageDone == pc = "ask" /\ Len(rows) = Len(queries) /\ rows' = << >>

PointDone ==
  /\ StageDone /\ stage = "point"
  /\ stages' = [stages EXCEPT !.point = <<ComputeMetrics(rows)>>]
  /\ stage' = "threat" /\ round' = 1
  /\ UNCHANGED <<pc, pool, queries, server, lines, summary>>

\* A phrasing and a seed are over; after the last the guard is looked for.
ThreatDone ==
  /\ StageDone /\ stage = "threat"
  /\ stages' = [stages EXCEPT !.threat = Append(@, ComputeMetrics(rows))]
  /\ IF round < Phrasings * Seeds
     THEN round' = round + 1 /\ UNCHANGED <<stage, pc>>
     ELSE /\ UNCHANGED round
          /\ IF ModelAvailable(Guard) THEN stage' = "guard" /\ UNCHANGED pc
             ELSE stage' = "none" /\ pc' = "write"
  /\ UNCHANGED <<pool, queries, server, lines, summary>>

GuardDone ==
  /\ StageDone /\ stage = "guard"
  /\ stages' = [stages EXCEPT !.guard = <<ComputeMetrics(rows)>>]
  /\ stage' = "none" /\ pc' = "write"
  /\ UNCHANGED <<pool, queries, server, round, lines, summary>>

\* _write_outputs: a stage without metrics is written as skipped.
WriteOutputs ==
  /\ pc = "write"
  /\ summary' = <<[n |-> Len(queries), stages |-> stages, agg |-> Agg(AllowsOnW(stages.threat))]>>
  /\ pc' = "done"
  /\ UNCHANGED <<pool, queries, server, stage, round, rows, stages, lines>>

Next ==
  \/ Open \/ Connect \/ (\E r \in Replies : Ask(r)) \/ AskFails
  \/ PointDone \/ ThreatDone \/ GuardDone \/ WriteOutputs \/ ServerStops

Spec == Init /\ [][Next]_vars

-----------------------------------------------------------------------------
(* Properties.                                                             *)

Metrics == ToSet(stages.point) \cup ToSet(stages.threat) \cup ToSet(stages.guard)

TypeOK ==
  /\ pc \in {"start", "connect", "ask", "write", "done", "crashed"}
  /\ stage \in {"none", "point", "threat", "guard"}
  /\ Len(rows) <= Len(queries) /\ Len(queries) <= NC + NR
  /\ \A m \in Metrics : m.n = Len(queries) /\ m.allowOnW <= m.nW

\* The queries judged are witnesses, never robustly safe, and controls, always so:
\* what a judge falsely allows is what it allows of the witnesses.
FalseAllowsAreWitnesses == \A m \in Metrics : m.certFA = m.allowOnW

\* What a stage counts as allowed of the witnesses is what its models meant to allow,
\* up to the replies that were not put as asked: it is more by no more than those that
\* slip through, and less by no more than those put otherwise.  The parsers are documented
\* as fail-safe ("anything else" denies), which the slips contradict.
AllowedAsMeant ==
  LET onW(S(_)) == Count(LAMBDA r : r.witness /\ S(r), rows)
      allowed == ComputeMetrics(rows).allowOnW
      meant == onW(LAMBDA r : r.allows)
  IN  /\ allowed <= meant + onW(LAMBDA r : r.put = "slips")
      /\ meant <= allowed + onW(LAMBDA r : r.put = "free")

\* The two domains give as many witnesses, up to one, unless one has no more.
EvenSplit ==
  pc = "connect" =>
    LET given(i) == Count(LAMBDA q : q.witness /\ q.domain = DomainOrder[i], queries) IN
    \A i, j \in DOMAIN DomainOrder :
      /\ given(i) > given(j) + 1 => given(j) = Len(ByCategory(DomainOrder[j], "C"))
      /\ (\A k \in DOMAIN DomainOrder : given(k) < Len(ByCategory(DomainOrder[k], "C"))) =>
           Count(LAMBDA q : q.witness, queries) = NC

\* The summary of a finished run counts the lines written beside it.
LinesMatchSummary ==
  pc = "done" =>
    LET st == summary[1].stages IN
    lines = summary[1].n * (Len(st.point) + Len(st.threat) + Len(st.guard))

\* Whatever the models reply and whenever the server stops, the metrics count what they
\* are named after, and of replies put as asked for what was meant.
JudgeReportsHold ==
  /\ TypeOK /\ FalseAllowsAreWitnesses /\ AllowedAsMeant /\ EvenSplit
  /\ LinesMatchSummary
=============================================================================
