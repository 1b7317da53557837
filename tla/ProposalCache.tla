---------------------------- MODULE ProposalCache ----------------------------
(***************************************************************************)
(* agents/llm_clients.py: CachingLLMClient memoizes the model's proposals  *)
(* in one JSON file that the gate processes of agents/run_real_llm_grid.sh *)
(* load, extend and rewrite one after the other (real_llm_action_exp.py).  *)
(*                                                                         *)
(* One action per file-system or network step of the running process; it   *)
(* may be killed between any two of them, and the grid goes on (`|| true`).*)
(* A prompt stands for its cache key (backend and model are fixed by the   *)
(* file name); an unparseable proposal is an answer like any other, as it  *)
(* is in the code.  One domain label: the other has a cache of its own.    *)
(***************************************************************************)
EXTENDS Integers, Sequences

CONSTANTS
  Prompts,     \* cache keys
  Answers,     \* what the wrapped client's propose_action may return
  Grid,        \* the runs of one invocation of the script: sequence of attacks
  Episodes,    \* attack -> the prompts of its episodes, in order
  Retries,     \* attempts of _http_post_json
  MaxInvocations, MaxFaults   \* bounds; MaxFaults has one per kind of fault

VARIABLES
  disk,        \* the file cache_path
  tmp,         \* the file cache_path.with_suffix(".tmp")
  out,         \* run -> the .jsonl at its --out path
  invocation,  \* times the script was started
  run,         \* the run the script is at
  pc,          \* where its process is
  cache,       \* self._cache
  pos,         \* episodes of the process that have their proposal, or rows written
  attempt,     \* failed attempts of the current POST
  asked,       \* prompt -> POSTs that carried it
  excused,     \* prompt -> its POSTs, answers or entries that a fault lost
  faults       \* [crash, post, read]: faults so far

client == <<pc, cache, pos, attempt>>
vars == <<disk, tmp, out, invocation, run, client, asked, excused, faults>>

Absent  == [kind |-> "absent"]
Torn    == [kind |-> "torn"]
Json(c) == [kind |-> "json", map |-> c]

Empty == [p \in {} |-> p]

\* Mutant: the new entry replaces the others.
Put_Only(c, p, a) == [q \in {p} |-> a]

\* self._cache[k] = out
Put(c, p, a) == [q \in DOMAIN c \cup {p} |-> IF q = p THEN a ELSE c[q]]
Mappings == UNION {[S -> Answers] : S \in SUBSET Prompts}

Runs == 1..Len(Grid)
FaultKinds == {"crash", "post", "read"}

ASSUME GridAssumption ==
  /\ Grid \in Seq(DOMAIN Episodes)
  /\ \A a \in DOMAIN Episodes : Episodes[a] \in Seq(Prompts)

ASSUME BoundAssumption ==
  /\ Retries \in Nat \ {0} /\ MaxInvocations \in Nat
  /\ MaxFaults \in [FaultKinds -> Nat]

Todo == Episodes[Grid[run]]
Prompt == Todo[pos + 1]
Proposing == pc = "episode" /\ pos < Len(Todo)

Bump(f, S) == [p \in Prompts |-> IF p \in S THEN f[p] + 1 ELSE f[p]]

Fault(kind) ==
  /\ faults[kind] < MaxFaults[kind]
  /\ faults' = [faults EXCEPT ![kind] = @ + 1]

-----------------------------------------------------------------------------
Init ==
  /\ disk = Absent /\ tmp = Absent
  /\ out = [r \in Runs |-> Absent]
  /\ invocation = 1 /\ run = 1
  /\ pc = "start" /\ cache = Empty /\ pos = 0 /\ attempt = 0
  /\ asked = [p \in Prompts |-> 0] /\ excused = [p \in Prompts |-> 0]
  /\ faults = [k \in FaultKinds |-> 0]

\* Mutant: __init__ does not look at the file.
Loaded_Never(d) == Empty

\* __init__: a file that is missing or does not parse holds no entries.
Loaded(d) == IF d.kind = "json" THEN d.map ELSE Empty

Begin(entries) ==
  /\ pc = "start" /\ run \in Runs
  /\ pc' = "episode" /\ cache' = entries
  /\ UNCHANGED <<disk, tmp, out, invocation, run, pos, attempt, asked>>

Start == Begin(Loaded(disk)) /\ UNCHANGED <<excused, faults>>

\* read_text raises OSError on a file that is there: no entries either.
StartUnread ==
  /\ disk # Absent
  /\ Begin(Empty)
  /\ Fault("read")
  /\ excused' = Bump(excused, DOMAIN Loaded(disk))

\* The process is gone; the script starts the next one.
Leave ==
  /\ run' = run + 1
  /\ pc' = "start" /\ cache' = Empty /\ pos' = 0 /\ attempt' = 0

\* propose_action, prompt known.
Hit ==
  /\ Proposing /\ Prompt \in DOMAIN cache
  /\ pos' = pos + 1
  /\ UNCHANGED <<disk, tmp, out, invocation, run, pc, cache, attempt, asked, excused, faults>>

\* propose_action, prompt not known: the model answers, _flush is next.
Answered ==
  /\ Proposing /\ Prompt \notin DOMAIN cache
  /\ \E a \in Answers : cache' = Put(cache, Prompt, a)
  /\ asked' = Bump(asked, {Prompt})
  /\ attempt' = 0
  /\ pc' = "truncate"
  /\ UNCHANGED <<disk, tmp, out, invocation, run, pos, excused, faults>>

\* Mutant: one attempt too many.
Exhausted_Late(n) == n > Retries

Exhausted(n) == n >= Retries

\* The POST times out or loses its connection, whether or not the model ran;
\* the error of the last attempt ends the process.
PostFails ==
  /\ Proposing /\ Prompt \notin DOMAIN cache
  /\ Fault("post")
  /\ asked' = Bump(asked, {Prompt})
  /\ excused' = Bump(excused, {Prompt})
  /\ IF Exhausted(attempt + 1)
     THEN Leave
     ELSE attempt' = attempt + 1 /\ UNCHANGED <<run, pc, cache, pos>>
  /\ UNCHANGED <<disk, tmp, out, invocation>>

\* Mutant: the temporary file is moved before it is written.
FlushTruncate_InPlace ==
  /\ pc = "truncate"
  /\ disk' = Torn /\ tmp' = Torn
  /\ pc' = "write"
  /\ UNCHANGED <<out, invocation, run, cache, pos, attempt, asked, excused, faults>>

\* _flush: tmp.write_text opens with "w", then writes.
FlushTruncate ==
  /\ pc = "truncate"
  /\ tmp' = Torn
  /\ pc' = "write"
  /\ UNCHANGED <<disk, out, invocation, run, cache, pos, attempt, asked, excused, faults>>

FlushWrite ==
  /\ pc = "write"
  /\ tmp' = Json(cache)
  /\ pc' = "replace"
  /\ UNCHANGED <<disk, out, invocation, run, cache, pos, attempt, asked, excused, faults>>

\* Mutant: the new file is written but never moved into place.
FlushReplace_Left ==
  /\ pc = "replace"
  /\ pc' = "episode" /\ pos' = pos + 1
  /\ UNCHANGED <<disk, tmp, out, invocation, run, cache, attempt, asked, excused, faults>>

FlushReplace ==
  /\ pc = "replace"
  /\ disk' = tmp /\ tmp' = Absent
  /\ pc' = "episode" /\ pos' = pos + 1
  /\ UNCHANGED <<out, invocation, run, cache, attempt, asked, excused, faults>>

\* main: the rows are kept in memory until every episode has run.
OpenOut ==
  /\ pc = "episode" /\ pos = Len(Todo)
  /\ out' = [out EXCEPT ![run] = [kind |-> "rows", epoch |-> faults["read"], rows |-> <<>>]]
  /\ pc' = "out" /\ pos' = 0
  /\ UNCHANGED <<disk, tmp, invocation, run, cache, attempt, asked, excused, faults>>

WriteRow ==
  /\ pc = "out" /\ pos < Len(Todo)
  /\ out' = [out EXCEPT ![run].rows = Append(@, [prompt |-> Prompt, answer |-> cache[Prompt]])]
  /\ pos' = pos + 1
  /\ UNCHANGED <<disk, tmp, invocation, run, pc, cache, attempt, asked, excused, faults>>

Exit ==
  /\ pc = "out" /\ pos = Len(Todo)
  /\ Leave
  /\ UNCHANGED <<disk, tmp, out, invocation, asked, excused, faults>>

\* The process is killed, or a write raises: what it had in memory is lost.
Crash ==
  /\ pc # "start"
  /\ Fault("crash")
  /\ excused' = Bump(excused, DOMAIN cache \ DOMAIN Loaded(disk))
  /\ Leave
  /\ UNCHANGED <<disk, tmp, out, invocation, asked>>

\* The script is started again over the files it left.
Rerun ==
  /\ run = Len(Grid) + 1 /\ invocation < MaxInvocations
  /\ invocation' = invocation + 1
  /\ run' = 1
  /\ UNCHANGED <<disk, tmp, out, client, asked, excused, faults>>

Next ==
  \/ Start \/ StartUnread \/ Hit \/ Answered \/ PostFails
  \/ FlushTruncate \/ FlushWrite \/ FlushReplace
  \/ OpenOut \/ WriteRow \/ Exit \/ Crash \/ Rerun

Spec == Init /\ [][Next]_vars

-----------------------------------------------------------------------------
(* Properties.                                                             *)

Rows == [prompt : Prompts, answer : Answers]
Results == [kind : {"rows"}, epoch : Nat, rows : Seq(Rows)]
Files == {Absent, Torn} \cup {Json(m) : m \in Mappings}

\* Types of the files, of the client's fields and of the script's position.
TypeOK ==
  /\ disk \in Files /\ tmp \in Files
  /\ out \in [Runs -> {Absent} \cup Results]
  /\ invocation \in Nat
  /\ run \in 1..(Len(Grid) + 1)
  /\ pc \in {"start", "episode", "truncate", "write", "replace", "out"}
  /\ cache \in Mappings
  /\ pos \in Nat /\ attempt \in 0..(Retries - 1)
  /\ asked \in [Prompts -> Nat] /\ excused \in [Prompts -> Nat]
  /\ faults \in [FaultKinds -> Nat]

\* Whenever a process is killed, and whatever it leaves in the temporary file,
\* the next one finds no cache or a whole one: __init__ never falls into its
\* JSONDecodeError branch.
CacheNeverTorn == disk.kind # "torn"

\* An answer that reached the file stays there, unchanged, as long as every
\* process could read the file when it started.
EntriesSurvive ==
  [][faults["read"] = 0 =>
       \A p \in DOMAIN Loaded(disk) :
         p \in DOMAIN Loaded(disk') /\ Loaded(disk')[p] = Loaded(disk)[p]]_vars

\* "the real model is queried once per unique prompt": every further POST of a
\* prompt is due to a POST, an answer or an entry that a fault lost, however
\* many runs and restarts of the script ask for it.
QueriedOncePerPrompt == \A p \in Prompts : asked[p] <= 1 + excused[p]

\* "the 4 gates share one set of LLM generations": two result files, whole or
\* cut short by a crash, old or new, never give one prompt two answers, unless
\* the cache could not be read between their runs.
GatesShareProposals ==
  \A r, s \in Runs :
    out[r] # Absent /\ out[s] # Absent /\ out[r].epoch = out[s].epoch =>
      \A i \in DOMAIN out[r].rows, j \in DOMAIN out[s].rows :
        out[r].rows[i].prompt = out[s].rows[j].prompt =>
          out[r].rows[i].answer = out[s].rows[j].answer
=============================================================================
