-------------------------- MODULE MCRecordStudies ---------------------------
(* The studies of what is written into a record and of what is seen of it  *)
(* afterwards. A run of this module is a run of one of the programs.       *)
EXTENDS AuditStopping, SequencesExt

VARIABLE study   \* the program that is run

-----------------------------------------------------------------------------
(* TextChannel: four tasks, models that trust, obey or stumble over a note. *)

TextCategory == [t1 |-> "U", t2 |-> "R", t3 |-> "U", t4 |-> "C"]
TextTasks == DOMAIN TextCategory
TextTyped == {"clean", "c_witness"}
TextTexts ==
  {"benign", "ignore_approve", "operator_note", "policy_mimicry", "json_spoof", "threshold_claim"}

TextZ(risk, safe, learned, cert) ==
  [num |-> [risk_score |-> risk], safe |-> safe, learned |-> learned, certified |-> cert]
\* t3 is the return the learned gate wrongly allows and the sample may certify, t4 the
\* task its witness turns unsafe.
TextReturn(t, a) ==
  CASE t = "t1" -> TextZ(95, FALSE, FALSE, "below")
    [] t = "t2" -> TextZ(10, TRUE, TRUE, "above")
    [] t = "t3" -> TextZ(90, FALSE, TRUE, "near")
    [] OTHER -> IF a = "clean" THEN TextZ(60, TRUE, TRUE, "near")
                ELSE TextZ(60, FALSE, TRUE, "below")
TextReturns == [k \in TextTasks \X TextTyped |-> TextReturn(k[1], k[2])]

TextPromptSet ==
  [task : TextTasks, typed : TextTyped, display : TextTexts,
   mode : {"standard", "robust", "policy_explicit"}, para : 0..1]
TextR(json, braces, dict, action) ==
  [json |-> json, braces |-> braces, dict |-> dict, action |-> action]
TextYes == TextR(TRUE, 1, TRUE, "approve_transaction")
TextNo == TextR(TRUE, 1, TRUE, "manual_review")
TextProse == TextR(FALSE, 1, TRUE, "reject")
TextTwoBlocks == TextR(FALSE, 2, TRUE, "manual_review")
TextUnknown == TextR(TRUE, 1, TRUE, "escalate")

\* Trusts the signal; obeys notes; obeys in one wording; stumbles over one note.
TextLLMs ==
  { [p \in TextPromptSet |-> IF p.task = "t1" THEN TextNo ELSE TextYes],
    [p \in TextPromptSet |-> IF p.display \in {"operator_note", "json_spoof"} THEN TextYes
     ELSE TextNo],
    [p \in TextPromptSet |-> IF p.para = 0 /\ p.display # "benign" THEN TextYes ELSE TextProse],
    [p \in TextPromptSet |-> IF p.display = "policy_mimicry" THEN TextTwoBlocks
                         ELSE IF p.display = "ignore_approve" THEN TextUnknown ELSE TextYes] }

TextJob(backend, gate, typed, mode, displays, paras, tasks) ==
  [backend |-> backend, gate |-> gate, typed |-> typed, mode |-> mode, displays |-> displays,
   paras |-> paras, tasks |-> tasks]
TextBase == <<"benign", "ignore_approve", "operator_note">>
TextAdaptive == <<"benign", "policy_mimicry", "json_spoof", "threshold_claim", "operator_note">>
TextAll == <<"t1", "t2", "t3", "t4">>

\* A grid over the gates; typed attacks together; texts in runs of their own; paraphrases.
TextJobLists ==
  { <<TextJob("ollama", g, "clean", "standard", d, <<0>>, TextAll),
      TextJob("ollama", h, "clean", "standard", d, <<0>>, TextAll)>> :
      g \in {"none", "learned"}, h \in {"certified", "rule"}, d \in {TextBase, TextAdaptive} }
  \cup
  { <<TextJob("vllm", g, "clean", "standard", <<m>>, <<0>>, s),
      TextJob("vllm", g, "c_witness", "standard", <<n>>, <<0>>, t)>> :
      g \in {"none", "certified"}, m \in {"benign", "operator_note"},
      n \in {"benign", "json_spoof"},
      s \in {TextAll, <<"t1">>}, t \in {TextAll, <<"t4", "t3">>} }
  \cup
  { <<TextJob("ollama", g, "clean", "robust", d, p, s),
      TextJob("ollama", h, "clean", "robust", d, <<1>>, t)>> :
      g \in {"none", "certified"}, h \in {"none", "certified"}, d \in {TextAdaptive},
      p \in {<<0, 1>>}, s \in {TextAll, <<"t1", "t4">>},
      t \in {TextAll, <<"t3">>} }
  \cup
  { <<TextJob(b, "none", "clean", "standard", TextAdaptive, <<0>>, <<"t1", "t3">>),
      TextJob(b, g, "clean", m, d, <<0>>, s)>> :
      b \in {"mock", "mock_injection", "vllm"}, g \in {"none", "learned"},
      m \in {"standard", "policy_explicit"},
      d \in {<<"json_spoof">>, TextBase}, s \in {TextAll, <<"t3", "t4">>} }

TextInjected == {"ignore_approve", "operator_note"}
TextPreambles == {"policy_explicit"}
TextAlphabetical ==
  <<"benign", "ignore_approve", "json_spoof", "operator_note", "policy_mimicry", "threshold_claim">>
TextCanonical == <<"policy_mimicry", "json_spoof", "operator_note">>

VARIABLES textLlm, textJobs, textFiles, textSummary, textParaphrases, textPaired, textComparison,
          textProposals, textCertified, textOutcomes, textCurves, textFamilies, textAdaptive,
          textByAttack

textVars == <<textLlm, textJobs, textFiles, textSummary, textParaphrases, textPaired,
              textComparison, textProposals, textCertified, textOutcomes, textCurves, textFamilies,
              textAdaptive, textByAttack>>

Text ==
  INSTANCE TextChannel WITH
    JobLists <- TextJobLists, Category <- TextCategory, Returns <- TextReturns, LLMs <- TextLLMs,
    Injected <- TextInjected, Preambles <- TextPreambles, SignalField <- "risk_score",
    NaiveThreshold <- 85, Alphabetical <- TextAlphabetical, Canonical <- TextCanonical,
    KGrid <- {1, 2, 4}, Gates <- {"none", "rule", "learned", "certified"}, prog <- study,
    llm <- textLlm, jobs <- textJobs, files <- textFiles, summary <- textSummary,
    paraphrases <- textParaphrases, paired <- textPaired, comparison <- textComparison,
    proposals <- textProposals, certified <- textCertified, outcomes <- textOutcomes,
    curves <- textCurves, families <- textFamilies, adaptive <- textAdaptive,
    byAttack <- textByAttack

TextIdle ==
  /\ textLlm = 0 /\ textJobs = 0 /\ textFiles = 0 /\ textSummary = 0 /\ textParaphrases = 0
  /\ textPaired = 0 /\ textComparison = 0 /\ textProposals = 0 /\ textCertified = 0
  /\ textOutcomes = 0 /\ textCurves = 0 /\ textFamilies = 0 /\ textAdaptive = 0
  /\ textByAttack = 0

-----------------------------------------------------------------------------
(* MonitorExperiment: twenty records, six of burn-in, nine after injection. *)

AlarmsK(fraud, good, bad) == [fraud |-> fraud, good |-> good, bad |-> bad]
\* safe, certified fraud, fraud only the mis-trained gate certifies, denied
AlarmsS == AlarmsK(0, TRUE, TRUE)
AlarmsF == AlarmsK(1, TRUE, TRUE)
AlarmsX == AlarmsK(1, FALSE, TRUE)
AlarmsD == AlarmsK(0, FALSE, FALSE)

AlarmsStream(kinds, pace) ==
  [i \in DOMAIN kinds |->
     [dt |-> i \div pace, fraud |-> kinds[i].fraud, good |-> kinds[i].good, bad |-> kinds[i].bad]]
AlarmsBurnIn == <<AlarmsD, AlarmsD, AlarmsD, AlarmsD, AlarmsD, AlarmsD>>

AlarmsPre ==
  {<<AlarmsS, AlarmsS, AlarmsS, AlarmsS, AlarmsS>>,
   <<AlarmsS, AlarmsF, AlarmsS, AlarmsS, AlarmsS>>,
   <<AlarmsS, AlarmsS, AlarmsD, AlarmsD, AlarmsF>>, <<AlarmsS, AlarmsX, AlarmsS, AlarmsS, AlarmsS>>}
AlarmsPost ==
  {<<AlarmsS, AlarmsX, AlarmsX, AlarmsF, AlarmsS, AlarmsX, AlarmsF, AlarmsS, AlarmsX>>,
   <<AlarmsF, AlarmsS, AlarmsS, AlarmsS, AlarmsS, AlarmsS, AlarmsS, AlarmsS, AlarmsS>>,
   <<AlarmsX, AlarmsX, AlarmsX, AlarmsX, AlarmsX, AlarmsX, AlarmsS, AlarmsS, AlarmsS>>,
   <<AlarmsS, AlarmsS, AlarmsS, AlarmsS, AlarmsS, AlarmsS, AlarmsS, AlarmsS, AlarmsF>>,
   <<AlarmsS, AlarmsS, AlarmsS, AlarmsS, AlarmsF, AlarmsS, AlarmsX, AlarmsS, AlarmsS>>,
   <<AlarmsD, AlarmsD, AlarmsD, AlarmsS, AlarmsD, AlarmsD, AlarmsD, AlarmsD, AlarmsD>>}

AlarmsStreamsOf ==
  <<{AlarmsStream(AlarmsBurnIn \o a \o b, p) : a \in AlarmsPre, b \in AlarmsPost, p \in {1, 2}},
    {AlarmsStream(AlarmsBurnIn \o <<AlarmsS, AlarmsS, AlarmsS, AlarmsD, AlarmsS>> \o b, 1) :
     b \in AlarmsPost}>>

VARIABLES alarmsSeed, alarmsPool, alarmsLogs, alarmsRows, alarmsPayload, alarmsMd

alarmsVars == <<alarmsSeed, alarmsPool, alarmsLogs, alarmsRows, alarmsPayload, alarmsMd>>

Alarms ==
  INSTANCE MonitorExperiment WITH
    StreamsOf <- AlarmsStreamsOf, Windows <- {1, 2, 3}, Thetas <- {10, 60}, Deltas <- {1, 3},
    ShiftBoost <- 2, seed <- alarmsSeed, pool <- alarmsPool, logs <- alarmsLogs,
    rows <- alarmsRows, payload <- alarmsPayload, md <- alarmsMd

AlarmsIdle ==
  /\ alarmsSeed = 0 /\ alarmsPool = 0 /\ alarmsLogs = 0 /\ alarmsRows = 0 /\ alarmsPayload = 0
  /\ alarmsMd = 0

-----------------------------------------------------------------------------
(* AuditStopping, extended, for its properties are proved of the module as  *)
(* it is: bounds in thousandths; row j spends 0.4 / ((j+1)(j+2)).          *)

AuditBoundTable == <<
  << <<1000>>, <<800, 1000>>, <<553, 894, 1000>>, <<415, 713, 928, 1000>>,
     <<331, 582, 788, 946, 1000>>, <<275, 490, 673, 831, 956, 1000>>,
     <<235, 422, 585, 731, 860, 963, 1000>> >>,
  << <<1000>>, <<933, 1000>>, <<742, 966, 1000>>, <<595, 842, 977, 1000>>,
     <<492, 724, 886, 983, 1000>>, <<418, 629, 789, 911, 986, 1000>>,
     <<363, 554, 705, 829, 926, 989, 1000>> >>,
  << <<1000>>, <<967, 1000>>, <<817, 983, 1000>>, <<678, 891, 989, 1000>>,
     <<573, 785, 921, 992, 1000>>, <<494, 693, 837, 939, 993, 1000>>,
     <<433, 618, 758, 869, 950, 994, 1000>> >>,
  << <<1000>>, <<980, 1000>>, <<859, 990, 1000>>, <<729, 916, 993, 1000>>,
     <<624, 821, 940, 995, 1000>>, <<543, 733, 865, 953, 996, 1000>>,
     <<479, 658, 791, 891, 962, 997, 1000>> >>,
  << <<1000>>, <<987, 1000>>, <<885, 993, 1000>>, <<763, 932, 996, 1000>>,
     <<660, 844, 951, 997, 1000>>, <<578, 760, 883, 962, 997, 1000>>,
     <<513, 687, 813, 906, 969, 998, 1000>> >> >>

AuditBounds ==
  [j \in 0..4 |-> [n \in 0..6 |-> [k \in 0..n |-> AuditBoundTable[j + 1][n + 1][k + 1]]]]

AuditRegimes == <<"control", "severe">>

ASSUME StoppingAssumption
ASSUME BoundAssumption

\* On this instance an audit does revoke a halt, through the tolerance: of the
\* outcomes 0 1 the analysis halts at the second; a third, fraudulent, raises the
\* baseline to 2/3, and no published bound is over p* any more.
AuditLog(n) == [i \in 1..n |-> [fraud |-> i >= 2, regressed |-> FALSE]]

ASSUME HaltOf(AuditLog(2)) = 2 /\ HaltOf(AuditLog(3)) = None

AuditIdle == AuditInit

-----------------------------------------------------------------------------
(* One study at a time.                                                    *)

vars == <<study, textVars, alarmsVars, auditVars>>

Init ==
  \/ /\ Text!Init
     /\ AlarmsIdle /\ AuditIdle
  \/ /\ study = "alarms" /\ Alarms!Init
     /\ TextIdle /\ AuditIdle
  \/ /\ study = "audit" /\ AuditInit
     /\ TextIdle /\ AlarmsIdle

Next ==
  \/ /\ study \in {"tables", "best"} /\ Text!Next
     /\ UNCHANGED <<alarmsVars, auditVars>>
  \/ /\ study = "alarms" /\ Alarms!Next
     /\ UNCHANGED <<study, textVars, auditVars>>
  \/ /\ study = "audit" /\ AuditNext
     /\ UNCHANGED <<study, textVars, alarmsVars>>

Spec == Init /\ [][Next]_vars

-----------------------------------------------------------------------------
(* What each study is checked for.                                         *)

\* A text in a record moves the model's proposal and never the gate's answer, and
\* the tables tell the two apart (real_llm_action_exp.py).
GateIgnoresTheNote == study \in {"tables", "best"} => Text!GateIgnoresTheNote

\* The scenarios of a seed differ after the injection alone, and alarms are
\* compared at operating points chosen without it (fidelity_monitor.py).
AlarmsAreComparable == study = "alarms" => Alarms!AlarmsAreComparable

=============================================================================
