------------------------- MODULE ProposalCacheProofs -------------------------
(***************************************************************************)
(* What the two caches of the experiments promise.                         *)
(*                                                                         *)
(* First ProposalCache, for any prompts, answers, grid, number of attempts *)
(* and bounds on the faults.  The invariant follows the entries: from the  *)
(* file into the process that loads it, from there through the temporary   *)
(* file back, and into the result rows.                                    *)
(*                                                                         *)
(* Then the file cache of RegistryScan: what it makes of runs that follow  *)
(* one another over one cache.                                             *)
(***************************************************************************)
EXTENDS ProposalCache, RegistryScan, FiniteSetTheorems, FunctionTheorems, SequenceTheorems, TLAPS

Flushing == pc \in {"truncate", "write", "replace"}
Entries == Loaded(disk)

Within(c, d) == \A p \in DOMAIN c : p \in DOMAIN d /\ d[p] = c[p]

\* The result files of the current epoch hold no row yet.
NoRows == \A r \in Runs : out[r] # Absent /\ out[r].epoch = faults["read"] => out[r].rows = <<>>

\* The files: only a whole file is ever moved into place.
FileInv ==
  /\ disk.kind # "torn"
  /\ pc = "replace" => tmp = Json(cache)

\* The process: it holds what the file holds, and the entry being flushed; one
\* that could not read the file holds less until its first flush, and then no
\* row of its epoch was written before.
CacheInv ==
  /\ pc = "start" => cache = Empty /\ pos = 0
  /\ pc \in {"episode", "out"} => cache = Entries \/ (cache = Empty /\ NoRows /\ faults["read"] > 0)
  /\ Flushing => Within(Entries, cache) \/ (NoRows /\ faults["read"] > 0)
  /\ pc # "start" => run \in Runs
  /\ Flushing => pos < Len(Todo) /\ Prompt \in DOMAIN cache
  /\ pc \in {"episode", "truncate", "write", "replace"} =>
       pos <= Len(Todo) /\ \A i \in 1..pos : Todo[i] \in DOMAIN cache
  /\ pc = "out" => \A i \in 1..Len(Todo) : Todo[i] \in DOMAIN cache

\* The result files: the rows of this epoch are in the file.
RowInv ==
  \A r \in Runs : out[r] # Absent =>
    /\ out[r].epoch <= faults["read"]
    /\ out[r].epoch = faults["read"] =>
         \A i \in DOMAIN out[r].rows :
           /\ out[r].rows[i].prompt \in DOMAIN Entries
           /\ Entries[out[r].rows[i].prompt] = out[r].rows[i].answer

\* pc = "out" is reached through OpenOut only.
OutInv == pc = "out" => out[run] # Absent /\ out[run].epoch = faults["read"]

\* The count: a prompt nobody holds has had every POST excused.
AskInv ==
  \A p \in Prompts :
    /\ asked[p] <= 1 + excused[p]
    /\ pc = "start" /\ p \notin DOMAIN Entries => asked[p] <= excused[p]
    /\ pc # "start" /\ p \notin DOMAIN cache => asked[p] <= excused[p]

IInv ==
  /\ TypeOK /\ FileInv /\ CacheInv /\ RowInv /\ OutInv
  /\ GatesShareProposals /\ AskInv

-----------------------------------------------------------------------------
(* Typing.                                                                 *)

LEMMA MappingType == \A c : c \in Mappings <=> (DOMAIN c \subseteq Prompts /\ c \in [DOMAIN c -> Answers])
  BY DEF Mappings

LEMMA EmptyType == Empty \in Mappings /\ DOMAIN Empty = {}
  BY DEF Mappings, Empty

LEMMA LoadedType ==
  ASSUME NEW d \in Files
  PROVE  Loaded(d) \in Mappings
  BY EmptyType DEF Files, Loaded, Json, Absent, Torn

LEMMA PutType ==
  ASSUME NEW c \in Mappings, NEW p \in Prompts, NEW a \in Answers
  PROVE  /\ Put(c, p, a) \in Mappings
         /\ DOMAIN Put(c, p, a) = DOMAIN c \cup {p}
         /\ p \notin DOMAIN c => Within(c, Put(c, p, a))
  <1>1. DOMAIN c \subseteq Prompts /\ c \in [DOMAIN c -> Answers]
    BY MappingType
  <1>2. Put(c, p, a) \in [DOMAIN c \cup {p} -> Answers]
    BY <1>1 DEF Put
  <1>3. DOMAIN c \cup {p} \in SUBSET Prompts
    BY <1>1
  <1>4. Put(c, p, a) \in Mappings
    BY <1>2, <1>3 DEF Mappings
  <1>. QED
    BY <1>1, <1>4 DEF Put, Within

LEMMA BumpType ==
  ASSUME NEW f \in [Prompts -> Nat], NEW S
  PROVE  /\ Bump(f, S) \in [Prompts -> Nat]
         /\ \A p \in Prompts : Bump(f, S)[p] = IF p \in S THEN f[p] + 1 ELSE f[p]
  BY DEF Bump

LEMMA FaultType ==
  ASSUME faults \in [FaultKinds -> Nat], NEW k \in FaultKinds, Fault(k)
  PROVE  /\ faults' \in [FaultKinds -> Nat]
         /\ faults'["read"] = IF k = "read" THEN faults["read"] + 1 ELSE faults["read"]
  BY DEF Fault, FaultKinds

\* A prompt of the grid is a prompt.
LEMMA TodoType ==
  ASSUME run \in Runs
  PROVE  /\ Todo \in Seq(Prompts) /\ Len(Todo) \in Nat
         /\ \A i \in 1..Len(Todo) : Todo[i] \in Prompts
         /\ pos \in Nat /\ pos < Len(Todo) => Prompt \in Prompts /\ Prompt = Todo[pos + 1]
  <1>1. Grid[run] \in DOMAIN Episodes
    BY GridAssumption DEF Runs
  <1>2. Todo \in Seq(Prompts)
    BY <1>1, GridAssumption DEF Todo
  <1>. QED
    BY <1>2 DEF Prompt

LEMMA InitType == Init => TypeOK
  <1>. SUFFICES ASSUME Init PROVE TypeOK
    OBVIOUS
  <1>1. Len(Grid) \in Nat
    BY GridAssumption
  <1>. QED
    BY <1>1, EmptyType, BoundAssumption DEF Init, TypeOK, Files, Runs, FaultKinds

LEMMA NextType == TypeOK /\ CacheInv /\ OutInv /\ [Next]_vars => TypeOK'
  <1>. SUFFICES ASSUME TypeOK, CacheInv, OutInv, [Next]_vars PROVE TypeOK'
    OBVIOUS
  <1>. USE DEF TypeOK
  <1>g. Len(Grid) \in Nat
    BY GridAssumption
  <1>d. Entries \in Mappings /\ Empty \in Mappings
    BY LoadedType, EmptyType DEF Entries
  <1>l. ASSUME Leave, run \in Runs
        PROVE  /\ run' \in 1..(Len(Grid) + 1) /\ pc' = "start" /\ cache' \in Mappings
               /\ pos' \in Nat /\ attempt' \in 0..(Retries - 1)
    BY <1>l, <1>g, EmptyType, BoundAssumption DEF Leave, Runs
  <1>r. pc # "start" => run \in Runs
    BY DEF CacheInv
  <1>1. CASE Start
    BY <1>1, <1>d DEF Start, Begin, Entries
  <1>2. CASE StartUnread
    BY <1>2, <1>d, FaultType, BumpType DEF StartUnread, Begin, FaultKinds
  <1>3. CASE Hit
    BY <1>3 DEF Hit
  <1>4. CASE Answered
    <2>1. Prompt \in Prompts
      BY <1>4, <1>r, TodoType DEF Answered, Proposing
    <2>2. PICK a \in Answers : cache' = Put(cache, Prompt, a)
      BY <1>4 DEF Answered
    <2>4. cache' \in Mappings
      BY <2>1, <2>2, PutType
    <2>3. asked' \in [Prompts -> Nat] /\ attempt' \in 0..(Retries - 1)
      BY <1>4, BumpType, BoundAssumption DEF Answered
    <2>. QED
      BY <1>4, <2>3, <2>4 DEF Answered
  <1>5. CASE PostFails
    <2>1. asked' \in [Prompts -> Nat] /\ excused' \in [Prompts -> Nat] /\ faults' \in [FaultKinds -> Nat]
      BY <1>5, BumpType, FaultType DEF PostFails, FaultKinds
    <2>2. CASE Leave
      BY <1>5, <2>1, <2>2, <1>l, <1>r DEF PostFails, Proposing
    <2>3. CASE ~Exhausted(attempt + 1)
      <3>1. attempt + 1 \in 0..(Retries - 1)
        BY <2>3, BoundAssumption DEF Exhausted
      <3>2. attempt' = attempt + 1 /\ UNCHANGED <<run, pc, cache, pos>>
        BY <1>5, <2>3 DEF PostFails
      <3>. QED
        BY <1>5, <2>1, <3>1, <3>2 DEF PostFails
    <2>. QED
      BY <1>5, <2>2, <2>3 DEF PostFails
  <1>6. CASE FlushTruncate
    BY <1>6 DEF FlushTruncate, Files
  <1>7. CASE FlushWrite
    BY <1>7 DEF FlushWrite, Files
  <1>8. CASE FlushReplace
    BY <1>8 DEF FlushReplace, Files
  <1>9. CASE OpenOut
    <2>1. [kind |-> "rows", epoch |-> faults["read"], rows |-> <<>>] \in Results
      BY DEF Results, FaultKinds
    <2>. QED
      BY <1>9, <2>1 DEF OpenOut
  <1>10. CASE WriteRow
    <2>1. Prompt \in Prompts /\ pos + 1 \in 1..Len(Todo) /\ Prompt = Todo[pos + 1]
      BY <1>10, <1>r, TodoType DEF WriteRow
    <2>2. Prompt \in DOMAIN cache
      BY <1>10, <2>1 DEF WriteRow, CacheInv
    <2>5. cache[Prompt] \in Answers
      BY <2>2, MappingType
    <2>6. out[run] \in Results
      BY <1>10, <1>r DEF WriteRow, OutInv
    <2>7. [prompt |-> Prompt, answer |-> cache[Prompt]] \in Rows
      BY <2>1, <2>5 DEF Rows
    <2>8. Append(out[run].rows, [prompt |-> Prompt, answer |-> cache[Prompt]]) \in Seq(Rows)
      BY <2>6, <2>7 DEF Results
    <2>3. [out[run] EXCEPT !.rows = Append(@, [prompt |-> Prompt, answer |-> cache[Prompt]])] \in Results
      BY <2>6, <2>8 DEF Results
    <2>4. out' = [out EXCEPT ![run] =
                    [out[run] EXCEPT !.rows = Append(@, [prompt |-> Prompt, answer |-> cache[Prompt]])]]
      BY <1>10 DEF WriteRow
    <2>. QED
      BY <1>10, <1>r, <2>3, <2>4 DEF WriteRow
  <1>11. CASE Exit
    BY <1>11, <1>l, <1>r DEF Exit
  <1>12. CASE Crash
    <2>1. excused' \in [Prompts -> Nat] /\ faults' \in [FaultKinds -> Nat]
      BY <1>12, BumpType, FaultType DEF Crash, FaultKinds
    <2>2. Leave /\ run \in Runs
      BY <1>12, <1>r DEF Crash
    <2>3. UNCHANGED <<disk, tmp, out, invocation, asked>>
      BY <1>12 DEF Crash
    <2>. QED
      BY <1>l, <2>1, <2>2, <2>3
  <1>13. CASE Rerun
    BY <1>13, <1>g DEF Rerun, client
  <1>14. CASE UNCHANGED vars
    BY <1>14 DEF vars, client
  <1>. QED
    BY <1>1, <1>2, <1>3, <1>4, <1>5, <1>6, <1>7, <1>8, <1>9, <1>10, <1>11, <1>12, <1>13, <1>14 DEF Next

-----------------------------------------------------------------------------
(* The files, the entries and the rows.                                    *)

LEMMA NextFile == IInv /\ [Next]_vars => FileInv'
  <1>. SUFFICES ASSUME IInv, [Next]_vars PROVE FileInv'
    OBVIOUS
  <1>. USE DEF IInv, FileInv
  <1>1. CASE FlushReplace
    BY <1>1 DEF FlushReplace, Json
  <1>2. CASE FlushWrite
    BY <1>2 DEF FlushWrite
  <1>3. CASE PostFails
    BY <1>3 DEF PostFails, Proposing, Leave
  <1>. QED
    BY <1>1, <1>2, <1>3 DEF Next, vars, client, Start, StartUnread, Begin, Hit, Answered,
         FlushTruncate, OpenOut, WriteRow, Exit, Leave, Crash, Rerun, Proposing

\* What an action that leaves the file and the epoch alone preserves.
LEMMA SameEntries ==
  ASSUME TypeOK, UNCHANGED disk
  PROVE  Entries' = Entries
  BY DEF Entries

LEMMA NextOut == IInv /\ [Next]_vars => OutInv'
  <1>. SUFFICES ASSUME IInv, [Next]_vars PROVE OutInv'
    OBVIOUS
  <1>. USE DEF IInv, OutInv
  <1>1. CASE OpenOut
    <2>1. run \in Runs
      BY <1>1 DEF OpenOut, CacheInv
    <2>. QED
      BY <1>1, <2>1 DEF OpenOut, TypeOK, Absent
  <1>2. CASE WriteRow
    <2>1. run \in Runs /\ out[run] \in Results
      BY <1>2 DEF WriteRow, CacheInv, TypeOK
    <2>2. out'[run] = [out[run] EXCEPT !.rows = Append(@, [prompt |-> Prompt, answer |-> cache[Prompt]])]
      BY <1>2, <2>1 DEF WriteRow, TypeOK
    <2>3. out'[run].epoch = out[run].epoch /\ out'[run].kind = "rows"
      BY <2>1, <2>2 DEF Results
    <2>. QED
      BY <1>2, <2>3 DEF WriteRow, Absent
  <1>3. CASE PostFails
    BY <1>3 DEF PostFails, Proposing, Leave
  <1>4. CASE Rerun
    <2>1. Len(Grid) \in Nat
      BY GridAssumption
    <2>. QED
      BY <1>4, <2>1 DEF Rerun, client, CacheInv, Runs
  <1>. QED
    BY <1>1, <1>2, <1>3, <1>4 DEF Next, vars, client, Start, StartUnread, Begin, Hit, Answered,
         FlushTruncate, FlushWrite, FlushReplace, Exit, Leave, Crash, Proposing

LEMMA AppendRow ==
  ASSUME NEW old \in Seq(Rows), NEW row, NEW i \in DOMAIN Append(old, row)
  PROVE  \/ i = Len(old) + 1 /\ Append(old, row)[i] = row
         \/ i \in DOMAIN old /\ Append(old, row)[i] = old[i]
  OBVIOUS

\* The epochs of the files, and the rows that are new.
LEMMA RowStep ==
  ASSUME IInv, WriteRow
  PROVE  /\ run \in Runs
         /\ Prompt \in DOMAIN Entries
         /\ out'[run].kind = "rows" /\ out'[run].epoch = faults["read"]
         /\ \A i \in DOMAIN out'[run].rows :
              \/ out'[run].rows[i] = [prompt |-> Prompt, answer |-> Entries[Prompt]]
              \/ i \in DOMAIN out[run].rows /\ out'[run].rows[i] = out[run].rows[i]
         /\ out[run] # Absent /\ out[run].epoch = faults["read"]
         /\ \A r \in Runs : r # run => out'[r] = out[r]
  <1>1. run \in Runs
    BY DEF WriteRow, CacheInv, IInv
  <1>2. out[run] \in Results /\ out[run].epoch = faults["read"] /\ out[run] # Absent
    BY <1>1 DEF WriteRow, OutInv, IInv, TypeOK
  <1>3. pos + 1 \in 1..Len(Todo) /\ Prompt = Todo[pos + 1]
    BY <1>1, TodoType DEF WriteRow, IInv, TypeOK
  <1>4. Prompt \in DOMAIN cache
    BY <1>3 DEF WriteRow, CacheInv, IInv
  <1>5. cache = Entries
    BY <1>4, EmptyType DEF WriteRow, CacheInv, IInv
  <1>6. out'[run] = [out[run] EXCEPT !.rows = Append(@, [prompt |-> Prompt, answer |-> cache[Prompt]])]
    BY <1>1 DEF WriteRow, IInv, TypeOK
  <1>7. \A r \in Runs : r # run => out'[r] = out[r]
    BY DEF WriteRow, IInv, TypeOK
  <1>8. /\ out'[run].kind = "rows" /\ out'[run].epoch = out[run].epoch
        /\ out'[run].rows = Append(out[run].rows, [prompt |-> Prompt, answer |-> Entries[Prompt]])
        /\ out[run].rows \in Seq(Rows)
    BY <1>2, <1>5, <1>6 DEF Results
  <1>9. \A i \in DOMAIN out'[run].rows :
          \/ out'[run].rows[i] = [prompt |-> Prompt, answer |-> Entries[Prompt]]
          \/ i \in DOMAIN out[run].rows /\ out'[run].rows[i] = out[run].rows[i]
    BY <1>8, AppendRow
  <1>. QED
    BY <1>1, <1>2, <1>4, <1>5, <1>7, <1>8, <1>9

\* The other actions write no row.
LEMMA NoRowStep ==
  ASSUME IInv, [Next]_vars, ~WriteRow, NEW r \in Runs
  PROVE  \/ out'[r] = out[r]
         \/ /\ OpenOut /\ r = run
            /\ out'[r].epoch = faults["read"] /\ out'[r].rows = <<>> /\ out'[r].kind = "rows"
  <1>1. CASE OpenOut
    BY <1>1 DEF OpenOut, IInv, TypeOK
  <1>. QED
    BY <1>1 DEF Next, vars, client, Start, StartUnread, Begin, Hit, Answered, PostFails,
         FlushTruncate, FlushWrite, FlushReplace, Exit, Leave, Crash, Rerun

LEMMA NextShare == IInv /\ [Next]_vars => GatesShareProposals'
  <1>. SUFFICES ASSUME IInv, [Next]_vars PROVE GatesShareProposals'
    OBVIOUS
  <1>1. CASE WriteRow
    <2>1. ASSUME NEW r \in Runs, out'[r] # Absent, out'[r].epoch = faults["read"],
                 NEW i \in DOMAIN out'[r].rows
          PROVE  out'[r].rows[i].prompt \in DOMAIN Entries
                 /\ Entries[out'[r].rows[i].prompt] = out'[r].rows[i].answer
      <3>1. CASE r = run
        <4>1. CASE out'[r].rows[i] = [prompt |-> Prompt, answer |-> Entries[Prompt]]
          BY <1>1, <4>1, RowStep
        <4>2. CASE i \in DOMAIN out[r].rows /\ out'[r].rows[i] = out[r].rows[i]
          BY <1>1, <3>1, <4>2, RowStep DEF IInv, RowInv
        <4>. QED
          BY <1>1, <2>1, <3>1, <4>1, <4>2, RowStep
      <3>2. CASE r # run
        BY <1>1, <2>1, <3>2, RowStep DEF IInv, RowInv
      <3>. QED
        BY <3>1, <3>2
    <2>2. ASSUME NEW r \in Runs, out'[r] # Absent, out'[r].epoch # faults["read"]
          PROVE  out'[r] = out[r]
      BY <1>1, <2>2, RowStep
    <2>3. SUFFICES ASSUME NEW r \in Runs, NEW s \in Runs, out'[r] # Absent, out'[s] # Absent,
                          out'[r].epoch = out'[s].epoch,
                          NEW i \in DOMAIN out'[r].rows, NEW j \in DOMAIN out'[s].rows,
                          out'[r].rows[i].prompt = out'[s].rows[j].prompt
                   PROVE  out'[r].rows[i].answer = out'[s].rows[j].answer
      BY DEF GatesShareProposals
    <2>4. CASE out'[r].epoch = faults["read"]
      BY <2>1, <2>3, <2>4
    <2>5. CASE out'[r].epoch # faults["read"]
      <3>1. out'[r] = out[r] /\ out'[s] = out[s]
        BY <2>2, <2>3, <2>5
      <3>. QED
        BY <2>3, <3>1 DEF IInv, GatesShareProposals
    <2>. QED
      BY <2>4, <2>5
  <1>2. CASE ~WriteRow
    <2>1. \A r \in Runs : out'[r] = out[r] \/ out'[r].rows = <<>>
      BY <1>2, NoRowStep
    <2>. QED
      BY <2>1 DEF IInv, GatesShareProposals
  <1>. QED
    BY <1>1, <1>2

LEMMA NextRow == IInv /\ [Next]_vars => RowInv'
  <1>. SUFFICES ASSUME IInv, [Next]_vars, NEW r \in Runs, out'[r] # Absent
                PROVE  /\ out'[r].epoch <= faults'["read"]
                       /\ out'[r].epoch = faults'["read"] =>
                            \A i \in DOMAIN out'[r].rows :
                              /\ out'[r].rows[i].prompt \in DOMAIN Entries'
                              /\ Entries'[out'[r].rows[i].prompt] = out'[r].rows[i].answer
    BY DEF RowInv
  <1>t. faults \in [FaultKinds -> Nat] /\ faults["read"] \in Nat
    BY DEF IInv, TypeOK, FaultKinds
  <1>1. CASE WriteRow
    <2>1. Entries' = Entries /\ faults' = faults
      BY <1>1 DEF WriteRow, Entries
    <2>2. CASE r # run
      BY <1>1, <2>1, <2>2, RowStep DEF IInv, RowInv
    <2>3. CASE r = run
      <3>1. ASSUME NEW i \in DOMAIN out'[r].rows
            PROVE  /\ out'[r].rows[i].prompt \in DOMAIN Entries
                   /\ Entries[out'[r].rows[i].prompt] = out'[r].rows[i].answer
        <4>1. CASE out'[r].rows[i] = [prompt |-> Prompt, answer |-> Entries[Prompt]]
          BY <1>1, <4>1, RowStep
        <4>2. CASE i \in DOMAIN out[r].rows /\ out'[r].rows[i] = out[r].rows[i]
          BY <1>1, <2>3, <4>2, RowStep DEF IInv, RowInv
        <4>. QED
          BY <1>1, <2>3, <3>1, <4>1, <4>2, RowStep
      <3>. QED
        BY <1>1, <1>t, <2>1, <2>3, <3>1, RowStep
    <2>. QED
      BY <2>2, <2>3
  <1>2. CASE OpenOut
    <2>1. Entries' = Entries /\ faults' = faults
      BY <1>2 DEF OpenOut, Entries
    <2>2. CASE out'[r] = out[r]
      BY <2>1, <2>2 DEF IInv, RowInv
    <2>3. CASE out'[r].epoch = faults["read"] /\ out'[r].rows = <<>>
      BY <1>t, <2>1, <2>3
    <2>4. ~WriteRow
      BY <1>2 DEF OpenOut, WriteRow
    <2>. QED
      BY <2>2, <2>3, <2>4, NoRowStep
  <1>3. CASE FlushReplace
    <2>1. out' = out /\ faults' = faults
      BY <1>3 DEF FlushReplace
    <2>2. Entries' = cache
      BY <1>3 DEF FlushReplace, Entries, IInv, FileInv, Json, Loaded
    <2>3. Within(Entries, cache) \/ NoRows
      BY <1>3 DEF FlushReplace, IInv, CacheInv, Flushing
    <2>. QED
      BY <2>1, <2>2, <2>3 DEF IInv, RowInv, Within, NoRows
  <1>4. CASE StartUnread
    <2>1. out' = out /\ faults'["read"] = faults["read"] + 1
      BY <1>4, <1>t, FaultType DEF StartUnread, Begin, FaultKinds
    <2>. QED
      BY <1>t, <2>1 DEF IInv, RowInv, TypeOK, Results
  <1>5. CASE ~WriteRow /\ ~OpenOut /\ ~FlushReplace /\ ~StartUnread
    <2>1. out' = out /\ disk' = disk
      BY <1>5 DEF Next, vars, client, Start, Begin, Hit, Answered, PostFails,
           FlushTruncate, FlushWrite, Exit, Leave, Crash, Rerun
    <2>2. faults'["read"] = faults["read"]
      <3>1. CASE PostFails
        BY <3>1, <1>t, FaultType DEF PostFails, FaultKinds
      <3>2. CASE Crash
        BY <3>2, <1>t, FaultType DEF Crash, FaultKinds
      <3>. QED
        BY <1>5, <3>1, <3>2 DEF Next, vars, client, Start, Begin, Hit, Answered,
           FlushTruncate, FlushWrite, Exit, Leave, Rerun
    <2>. QED
      BY <2>1, <2>2 DEF IInv, RowInv, Entries
  <1>. QED
    BY <1>1, <1>2, <1>3, <1>4, <1>5

-----------------------------------------------------------------------------
(* The process.                                                            *)

\* Nothing of CacheInv is left to show for a process that has not started.
LEMMA LeaveCache ==
  ASSUME Leave
  PROVE  CacheInv'
  BY DEF Leave, CacheInv, Flushing

LEMMA NoRowsKept ==
  ASSUME IInv, out' = out, faults'["read"] = faults["read"], NoRows
  PROVE  NoRows'
  BY DEF NoRows

LEMMA NextCache == IInv /\ [Next]_vars => CacheInv'
  <1>. SUFFICES ASSUME IInv, [Next]_vars PROVE CacheInv'
    OBVIOUS
  <1>t. /\ faults \in [FaultKinds -> Nat] /\ faults["read"] \in Nat
        /\ pos \in Nat /\ cache \in Mappings
    BY DEF IInv, TypeOK, FaultKinds
  <1>g. Len(Grid) \in Nat
    BY GridAssumption
  <1>c. CacheInv
    BY DEF IInv
  <1>1. CASE Start
    <2>1. /\ cache' = Entries /\ Entries' = Entries /\ pc' = "episode" /\ pos' = 0
          /\ run' = run /\ run \in Runs
      BY <1>1, <1>c DEF Start, Begin, Entries, CacheInv
    <2>2. Len(Todo) \in Nat
      BY <2>1, TodoType
    <2>. QED
      BY <2>1, <2>2 DEF CacheInv, Flushing, Todo
  <1>2. CASE StartUnread
    <2>1. /\ cache' = Empty /\ pc' = "episode" /\ pos' = 0 /\ out' = out
          /\ run' = run /\ run \in Runs
      BY <1>2, <1>c DEF StartUnread, Begin, CacheInv
    <2>2. faults'["read"] = faults["read"] + 1
      BY <1>2, <1>t, FaultType DEF StartUnread, FaultKinds
    <2>3. NoRows'
      BY <1>t, <2>1, <2>2 DEF NoRows, IInv, RowInv, TypeOK, Results
    <2>4. Len(Todo) \in Nat
      BY <2>1, TodoType
    <2>. QED
      BY <1>t, <2>1, <2>2, <2>3, <2>4 DEF CacheInv, Flushing, Todo
  <1>3. CASE Hit
    <2>1. run \in Runs /\ Len(Todo) \in Nat /\ Prompt = Todo[pos + 1]
      BY <1>3, <1>c, TodoType DEF Hit, Proposing, CacheInv, Prompt
    <2>2. UNCHANGED <<disk, out, run, pc, cache, faults>> /\ pos' = pos + 1 /\ pc = "episode"
          /\ pos < Len(Todo) /\ Prompt \in DOMAIN cache
      BY <1>3 DEF Hit, Proposing
    <2>3. \A i \in 1..pos' : Todo[i] \in DOMAIN cache
      BY <1>c, <1>t, <2>1, <2>2 DEF CacheInv
    <2>. QED
      BY <1>c, <1>t, <2>1, <2>2, <2>3 DEF CacheInv, Flushing, Todo, Entries, NoRows
  <1>4. CASE Answered
    <2>1. run \in Runs /\ Len(Todo) \in Nat /\ Prompt \in Prompts
      BY <1>4, <1>c, <1>t, TodoType DEF Answered, Proposing, CacheInv
    <2>2. /\ UNCHANGED <<disk, out, run, pos, faults>> /\ pc = "episode" /\ pc' = "truncate"
          /\ pos < Len(Todo) /\ Prompt \notin DOMAIN cache
      BY <1>4 DEF Answered, Proposing
    <2>3. PICK a \in Answers : cache' = Put(cache, Prompt, a)
      BY <1>4 DEF Answered
    <2>4. DOMAIN cache' = DOMAIN cache \cup {Prompt} /\ Within(cache, cache')
      BY <1>t, <2>1, <2>2, <2>3, PutType
    <2>5. Within(Entries, cache') \/ (NoRows /\ faults["read"] > 0)
      BY <1>c, <2>2, <2>4 DEF CacheInv, Within
    <2>6. Entries' = Entries /\ NoRows' = NoRows /\ Todo' = Todo /\ Prompt' = Prompt
      BY <2>2 DEF Entries, NoRows, Todo, Prompt
    <2>7. (Within(Entries, cache) \/ (NoRows /\ faults["read"] > 0))'
      BY <2>2, <2>5, <2>6 DEF Within
    <2>. QED
      BY <1>c, <2>1, <2>2, <2>4, <2>6, <2>7 DEF CacheInv, Flushing
  <1>5. CASE PostFails
    <2>1. CASE Leave
      BY <2>1, LeaveCache
    <2>2. CASE ~Exhausted(attempt + 1)
      <3>1. UNCHANGED <<disk, out, run, pc, cache, pos>> /\ faults'["read"] = faults["read"]
        BY <1>5, <1>t, <2>2, FaultType DEF PostFails, FaultKinds
      <3>. QED
        BY <1>c, <3>1 DEF CacheInv, Flushing, Entries, NoRows, Within, Todo, Prompt
    <2>. QED
      BY <1>5, <2>1, <2>2 DEF PostFails
  <1>6. CASE FlushTruncate \/ FlushWrite
    <2>1. /\ UNCHANGED <<disk, out, run, cache, pos, faults>>
          /\ Flushing /\ pc' \in {"write", "replace"} /\ pc # "start"
      BY <1>6 DEF FlushTruncate, FlushWrite, Flushing
    <2>2. Entries' = Entries /\ NoRows' = NoRows /\ Todo' = Todo /\ Prompt' = Prompt
      BY <2>1 DEF Entries, NoRows, Todo, Prompt
    <2>3. Within(Entries, cache)' = Within(Entries, cache)
      BY <2>1, <2>2 DEF Within
    <2>. QED
      BY <1>c, <2>1, <2>2, <2>3 DEF CacheInv, Flushing
  <1>7. CASE FlushReplace
    <2>1. /\ UNCHANGED <<out, run, cache, faults>> /\ pos' = pos + 1 /\ pc' = "episode"
          /\ Flushing /\ pc # "start" /\ pc \in {"episode", "truncate", "write", "replace"}
      BY <1>7 DEF FlushReplace, Flushing
    <2>2. Entries' = cache'
      BY <1>7 DEF FlushReplace, Entries, IInv, FileInv, Json, Loaded
    <2>3. run \in Runs /\ Len(Todo) \in Nat /\ pos < Len(Todo) /\ Prompt = Todo[pos + 1]
      BY <1>c, <2>1, TodoType DEF CacheInv, Prompt
    <2>4. \A i \in 1..pos' : Todo[i] \in DOMAIN cache
      BY <1>c, <1>t, <2>1, <2>3 DEF CacheInv
    <2>. QED
      BY <1>t, <2>1, <2>2, <2>3, <2>4 DEF CacheInv, Flushing, Todo
  <1>8. CASE OpenOut
    <2>1. /\ UNCHANGED <<disk, run, cache, faults>> /\ pos' = 0 /\ pc' = "out"
          /\ pc = "episode" /\ pos = Len(Todo)
      BY <1>8 DEF OpenOut
    <2>2. NoRows => NoRows'
      <3>1. \A r \in Runs : out'[r] = out[r] \/ out'[r].rows = <<>>
        BY <1>8, NoRowStep DEF OpenOut, WriteRow
      <3>. QED
        BY <2>1, <3>1 DEF NoRows
    <2>3. Entries' = Entries /\ Todo' = Todo
      BY <2>1 DEF Entries, Todo
    <2>. QED
      BY <1>c, <2>1, <2>2, <2>3 DEF CacheInv, Flushing
  <1>9. CASE WriteRow
    <2>1. /\ UNCHANGED <<disk, run, cache, faults, pc>> /\ pc = "out" /\ pos < Len(Todo)
      BY <1>9 DEF WriteRow
    <2>2. cache = Entries
      <3>1. run \in Runs /\ Len(Todo) \in Nat /\ pos + 1 \in 1..Len(Todo)
        BY <1>c, <1>t, <2>1, TodoType DEF CacheInv
      <3>. QED
        BY <1>c, <2>1, <3>1, EmptyType DEF CacheInv
    <2>3. Entries' = Entries /\ Todo' = Todo
      BY <2>1 DEF Entries, Todo
    <2>. QED
      BY <1>c, <2>1, <2>2, <2>3 DEF CacheInv, Flushing
  <1>10. CASE Exit \/ Crash
    BY <1>10, LeaveCache DEF Exit, Crash
  <1>11. CASE Rerun
    <2>1. pc = "start"
      BY <1>11, <1>c, <1>g DEF Rerun, CacheInv, Runs
    <2>. QED
      BY <1>11, <1>c, <2>1 DEF Rerun, client, CacheInv, Flushing
  <1>12. CASE UNCHANGED vars
    BY <1>12, <1>c DEF vars, client, CacheInv, Flushing, Entries, NoRows, Within, Todo, Prompt
  <1>. QED
    BY <1>1, <1>2, <1>3, <1>4, <1>5, <1>6, <1>7, <1>8, <1>9, <1>10, <1>11, <1>12 DEF Next

-----------------------------------------------------------------------------
(* The count of POSTs.                                                     *)

LEMMA NextAsk == IInv /\ [Next]_vars => AskInv'
  <1>. SUFFICES ASSUME IInv, [Next]_vars, NEW p \in Prompts
                PROVE  /\ asked'[p] <= 1 + excused'[p]
                       /\ pc' = "start" /\ p \notin DOMAIN Entries' => asked'[p] <= excused'[p]
                       /\ pc' # "start" /\ p \notin DOMAIN cache' => asked'[p] <= excused'[p]
    BY DEF AskInv
  <1>t. /\ asked \in [Prompts -> Nat] /\ excused \in [Prompts -> Nat]
        /\ asked[p] \in Nat /\ excused[p] \in Nat /\ cache \in Mappings
    BY DEF IInv, TypeOK
  <1>a. /\ asked[p] <= 1 + excused[p]
        /\ pc = "start" /\ p \notin DOMAIN Entries => asked[p] <= excused[p]
        /\ pc # "start" /\ p \notin DOMAIN cache => asked[p] <= excused[p]
    BY DEF IInv, AskInv
  \* Between episodes the process holds no more than the file.
  <1>b. pc \in {"episode", "out"} /\ p \notin DOMAIN Entries => p \notin DOMAIN cache
    BY EmptyType DEF IInv, CacheInv
  <1>1. CASE Start
    BY <1>1, <1>a DEF Start, Begin, Entries
  <1>2. CASE StartUnread
    <2>1. excused'[p] = IF p \in DOMAIN Entries THEN excused[p] + 1 ELSE excused[p]
      BY <1>2, <1>t, BumpType DEF StartUnread, Entries
    <2>. QED
      BY <1>2, <1>a, <1>t, <2>1 DEF StartUnread, Begin
  <1>3. CASE Answered
    <2>1. asked'[p] = IF p = Prompt THEN asked[p] + 1 ELSE asked[p]
      BY <1>3, <1>t, BumpType DEF Answered
    <2>2. DOMAIN cache' = DOMAIN cache \cup {Prompt}
      BY <1>3 DEF Answered, Put
    <2>. QED
      BY <1>3, <1>a, <1>t, <2>1, <2>2 DEF Answered, Proposing
  <1>4. CASE PostFails
    <2>1. /\ asked'[p] = IF p = Prompt THEN asked[p] + 1 ELSE asked[p]
          /\ excused'[p] = IF p = Prompt THEN excused[p] + 1 ELSE excused[p]
      BY <1>4, <1>t, BumpType DEF PostFails
    <2>2. Entries' = Entries /\ pc = "episode" /\ Prompt \notin DOMAIN cache
      BY <1>4 DEF PostFails, Proposing, Entries
    <2>3. CASE pc' = "start"
      BY <1>a, <1>b, <1>t, <2>1, <2>2, <2>3
    <2>4. CASE pc' = pc /\ cache' = cache
      BY <1>a, <1>t, <2>1, <2>2, <2>4
    <2>. QED
      BY <1>4, <2>3, <2>4 DEF PostFails, Leave
  <1>5. CASE Crash
    <2>1. excused'[p] = IF p \in DOMAIN cache \ DOMAIN Entries THEN excused[p] + 1 ELSE excused[p]
      BY <1>5, <1>t, BumpType DEF Crash, Entries
    <2>2. asked'[p] = asked[p] /\ Entries' = Entries /\ pc' = "start" /\ pc # "start"
      BY <1>5 DEF Crash, Leave, Entries
    <2>. QED
      BY <1>a, <1>t, <2>1, <2>2
  <1>6. CASE FlushReplace
    BY <1>6, <1>a DEF FlushReplace
  <1>7. CASE Exit
    BY <1>7, <1>a, <1>b DEF Exit, Leave, Entries
  <1>8. CASE Hit \/ FlushTruncate \/ FlushWrite \/ OpenOut \/ WriteRow \/ Rerun \/ UNCHANGED vars
    <2>1. /\ UNCHANGED <<disk, asked, excused, cache>>
          /\ pc = "start" <=> pc' = "start"
      BY <1>8 DEF Hit, Proposing, FlushTruncate, FlushWrite, OpenOut, WriteRow, Rerun, vars, client
    <2>. QED
      BY <1>a, <2>1 DEF Entries
  <1>. QED
    BY <1>1, <1>2, <1>3, <1>4, <1>5, <1>6, <1>7, <1>8 DEF Next

-----------------------------------------------------------------------------
(* The theorems.                                                           *)

LEMMA InitInv == Init => IInv
  <1>. SUFFICES ASSUME Init PROVE IInv
    OBVIOUS
  <1>1. TypeOK
    BY InitType
  <1>2. FileInv /\ OutInv
    BY DEF Init, FileInv, OutInv, Absent
  <1>3. CacheInv
    BY DEF Init, CacheInv, Flushing
  <1>4. \A r \in Runs : out[r] = Absent
    BY DEF Init
  <1>5. RowInv /\ GatesShareProposals
    BY <1>4 DEF RowInv, GatesShareProposals
  <1>6. AskInv
    <2>. SUFFICES ASSUME NEW p \in Prompts
                  PROVE  asked[p] <= 1 + excused[p] /\ asked[p] <= excused[p]
      BY DEF AskInv
    <2>1. asked[p] = 0 /\ excused[p] = 0
      BY DEF Init
    <2>. QED
      BY <2>1
  <1>. QED
    BY <1>1, <1>2, <1>3, <1>5, <1>6 DEF IInv

LEMMA NextInv == IInv /\ [Next]_vars => IInv'
  <1>. SUFFICES ASSUME IInv, [Next]_vars PROVE IInv'
    OBVIOUS
  <1>1. TypeOK'
    BY NextType DEF IInv
  <1>. QED
    BY <1>1, NextFile, NextOut, NextCache, NextRow, NextShare, NextAsk DEF IInv

LEMMA Invariance == Spec => []IInv
  BY InitInv, NextInv, PTL DEF Spec

\* The client's fields, the files and the script's position keep their types.
THEOREM TypeCorrect == Spec => []TypeOK
  <1>1. IInv => TypeOK
    BY DEF IInv
  <1>. QED
    BY Invariance, <1>1, PTL

\* Wherever a process is killed, the cache file is absent or whole.
THEOREM NeverTorn == Spec => []CacheNeverTorn
  <1>1. IInv => CacheNeverTorn
    BY DEF IInv, FileInv, CacheNeverTorn
  <1>. QED
    BY Invariance, <1>1, PTL

\* Every POST of a prompt but one is the consequence of a fault.
THEOREM QueriedOnce == Spec => []QueriedOncePerPrompt
  <1>1. IInv => QueriedOncePerPrompt
    BY DEF IInv, AskInv, QueriedOncePerPrompt
  <1>. QED
    BY Invariance, <1>1, PTL

\* The result files of the gates answer one prompt in one way.
THEOREM ProposalsShared == Spec => []GatesShareProposals
  <1>1. IInv => GatesShareProposals
    BY DEF IInv
  <1>. QED
    BY Invariance, <1>1, PTL

LEMMA EntriesStep ==
  ASSUME IInv, Next, faults["read"] = 0
  PROVE  Within(Entries, Entries')
  <1>1. CASE FlushReplace
    <2>1. Entries' = cache
      BY <1>1 DEF FlushReplace, Entries, IInv, FileInv, Json, Loaded
    <2>2. Within(Entries, cache)
      BY <1>1 DEF FlushReplace, IInv, CacheInv, Flushing
    <2>. QED
      BY <2>1, <2>2
  <1>2. CASE ~FlushReplace
    <2>1. disk' = disk
      BY <1>2 DEF Next, Start, StartUnread, Begin, Hit, Answered, PostFails, FlushTruncate,
           FlushWrite, OpenOut, WriteRow, Exit, Crash, Rerun
    <2>. QED
      BY <2>1 DEF Entries, Within
  <1>. QED
    BY <1>1, <1>2

\* An answer in the file is neither lost nor changed while the file can be read.
THEOREM EntriesKept == Spec => EntriesSurvive
  <1>1. IInv /\ [Next]_vars =>
          [faults["read"] = 0 =>
             \A p \in DOMAIN Loaded(disk) :
               p \in DOMAIN Loaded(disk') /\ Loaded(disk')[p] = Loaded(disk)[p]]_vars
    BY EntriesStep DEF Within, Entries, Loaded
  <1>. QED
    BY Invariance, <1>1, PTL DEF Spec, EntriesSurvive

-----------------------------------------------------------------------------
(***************************************************************************)
(* RegistryScan: the files its fetcher keeps and the summaries written     *)
(* over them, for any registries, caps, numbers of runs, deaths and        *)
(* drifts.                                                                 *)
(*                                                                         *)
(* A run is a function of the answers it is given.  So the path of a run   *)
(* in which no request failed is one the files alone determine (ReplayInv) *)
(* and later runs with the same cap are still on it, as a file that parses *)
(* stays.  What the records say rests on the files holding only what some  *)
(* world served for their addresses (ScanInv), for which no two addresses  *)
(* may share a file.                                                       *)
(***************************************************************************)
Running == scanPc \in {"list", "detail", "glama"}
Here == [pc |-> scanPc, page |-> page, names |-> names, total |-> total, todo |-> todo,
         cursor |-> cursor, n |-> glamaN, recs |-> recs]
Fresh == [pc |-> "list", page |-> 1, names |-> << >>, total |-> -1, todo |-> << >>,
          cursor |-> NoCursor, n |-> 0, recs |-> << >>]

CapOf(quick) == IF quick THEN Min({MaxServers, QuickServers}) ELSE MaxServers

\* What a run does with an answer it was served.
AfterList(s, d, cap) ==
  LET all == s.names \o d.servers
      stop == d.servers = << >> \/ s.page >= d.pages \/ Len(all) >= cap
  IN  [pc |-> IF stop THEN "detail" ELSE s.pc, page |-> IF stop THEN s.page ELSE s.page + 1,
       names |-> all, total |-> IF d.servers = << >> THEN s.total ELSE d.total,
       todo |-> IF stop THEN Capped(all, cap) ELSE s.todo,
       cursor |-> s.cursor, n |-> s.n, recs |-> s.recs]

AfterDetail(s, d) ==
  [pc |-> s.pc, page |-> s.page, names |-> s.names, total |-> s.total, todo |-> Tail(s.todo),
   cursor |-> s.cursor, n |-> s.n,
   recs |-> IF d = Nothing THEN s.recs
            ELSE Append(s.recs, TallyServer("smithery", Head(s.todo), d.tools))]

AfterDetails(s) ==
  [pc |-> "glama", page |-> s.page, names |-> s.names, total |-> s.total, todo |-> s.todo,
   cursor |-> s.cursor, n |-> s.n, recs |-> s.recs]

AfterGlama(s, d, cap) ==
  LET taken == SubSeq(d.servers, 1, Min({cap - s.n, Len(d.servers)}))
      stop == d.servers = << >> \/ ~d.more \/ s.n + Len(taken) >= cap
  IN  [pc |-> IF stop THEN "idle" ELSE s.pc, page |-> s.page, names |-> s.names,
       total |-> s.total, todo |-> s.todo, cursor |-> IF stop THEN s.cursor ELSE d.next,
       n |-> s.n + Len(taken),
       recs |-> s.recs \o [i \in DOMAIN taken |-> TallyServer("glama", taken[i], d.tools)]]

Served(c, url) == Key[url] \in DOMAIN c /\ c[Key[url]] # Corrupt
Answer(c, url) == c[Key[url]]

\* The one step of a run that finds every answer in the cache c.
Moves(c, cap, s, u) ==
  \/ /\ s.pc = "list" /\ Served(c, ListUrl[s.page])
     /\ u = AfterList(s, Answer(c, ListUrl[s.page]), cap)
  \/ /\ s.pc = "detail" /\ s.todo # << >> /\ Served(c, DetailUrl[Head(s.todo)])
     /\ u = AfterDetail(s, Answer(c, DetailUrl[Head(s.todo)]))
  \/ s.pc = "detail" /\ s.todo = << >> /\ u = AfterDetails(s)
  \/ /\ s.pc = "glama" /\ Served(c, GlamaUrl[s.cursor])
     /\ u = AfterGlama(s, Answer(c, GlamaUrl[s.cursor]), cap)

Path(c, cap, k, p) == p[1] = Fresh /\ \A i \in 1..(k - 1) : Moves(c, cap, p[i], p[i + 1])

Reaches(c, cap, k, s) == \E p : Path(c, cap, k, p) /\ p[k] = s

\* A whole run from the cache c that ends with the records rs.
Replay(c, cap, k, p, rs) == Path(c, cap, k, p) /\ p[k].pc = "idle" /\ p[k].recs = rs

\* No file that parses is lost or changed.
Keeps(c, d) == \A k \in DOMAIN c : c[k] # Corrupt => k \in DOMAIN d /\ d[k] = c[k]

Complete(i) == reports[i].fail = 0

\* A report without a failure can be replayed from the cache, and a run with the
\* same cap is on the way to do so.
Repeats(i) ==
  \E k \in Nat \ {0} : \E p :
    /\ Replay(scanCache, CapOf(reports[i].opts.quick), k, p, reports[i].records)
    /\ Running /\ opts.quick = reports[i].opts.quick => \E m \in 1..k : p[m] = Here

\* The cache holds the way a run has come.
Behind == \E k \in Nat \ {0} : Reaches(scanCache, Cap, k, Here)

ReplayInv ==
  /\ world \in Worlds /\ fail \in Nat
  /\ \E S : reports \in Seq(S)
  /\ \A i \in DOMAIN reports : Complete(i) => Repeats(i)
  /\ Running /\ fail = 0 => Behind
  /\ ReplaysExactly

LEMMA MovesKept ==
  ASSUME NEW c, NEW d, Keeps(c, d), NEW cap, NEW s, NEW u, Moves(c, cap, s, u)
  PROVE  Moves(d, cap, s, u)
<1>1. \A url : Served(c, url) => Served(d, url) /\ Answer(d, url) = Answer(c, url)
  BY DEF Keeps, Served, Answer
<1>. HIDE DEF Served, Answer
<1>. QED  BY <1>1 DEF Moves

LEMMA PathKept ==
  ASSUME NEW c, NEW d, Keeps(c, d), NEW cap, NEW k, NEW p
  PROVE  /\ Path(c, cap, k, p) => Path(d, cap, k, p)
         /\ \A rs : Replay(c, cap, k, p, rs) => Replay(d, cap, k, p, rs)
BY MovesKept DEF Path, Replay

LEMMA ReachesKept ==
  ASSUME NEW c, NEW d, Keeps(c, d), NEW cap, NEW k, NEW s, Reaches(c, cap, k, s)
  PROVE  Reaches(d, cap, k, s)
BY PathKept DEF Reaches

LEMMA ReachesNext ==
  ASSUME NEW c, NEW cap, NEW k \in Nat \ {0}, NEW s, NEW u,
         Reaches(c, cap, k, s), Moves(c, cap, s, u)
  PROVE  Reaches(c, cap, k + 1, u)
<1>0. PICK p : Path(c, cap, k, p) /\ p[k] = s
  BY DEF Reaches
<1>. DEFINE q == [i \in 1..(k + 1) |-> IF i = k + 1 THEN u ELSE p[i]]
<1>1. q[k + 1] = u /\ \A i \in 1..k : q[i] = p[i]
  OBVIOUS
<1>2. q[1] = Fresh
  BY <1>0, <1>1 DEF Path
<1>3. ASSUME NEW i \in 1..((k + 1) - 1)  PROVE Moves(c, cap, q[i], q[i + 1])
  <2>1. CASE i = k
    BY <1>0, <1>1, <2>1
  <2>2. CASE i # k
    <3>1. i \in 1..(k - 1) /\ i + 1 \in 1..k
      BY <2>2
    <3>. QED  BY <1>0, <1>1, <3>1 DEF Path
  <2>. QED  BY <2>1, <2>2
<1>4. Path(c, cap, k + 1, q)
  BY <1>2, <1>3 DEF Path
<1>. QED  BY <1>1, <1>4 DEF Reaches

\* A step only adds files that were missing or did not parse.
LEMMA StoreKeeps ==
  ASSUME NEW url, NEW data, ~Usable(url)
  PROVE  Keeps(scanCache, Stored(url, data))
BY DEF Keeps, Stored, Usable, Cached

LEMMA GetKeeps ==
  ASSUME NEW url, NEW a \in Get(url)
  PROVE  Keeps(scanCache, a.cache)
<1>1. CASE Usable(url)
  BY <1>1 DEF Get, Keeps
<1>2. CASE ~Usable(url)
  <2>1. a.cache = scanCache \/ a.cache = Stored(url, world[url])
    BY <1>2 DEF Get
  <2>. QED  BY <1>2, <2>1, StoreKeeps DEF Keeps
<1>. QED  BY <1>1, <1>2

LEMMA StepKeeps ==
  ASSUME [ScanNext]_scanVars
  PROVE  Keeps(scanCache, scanCache')
<1>1. ASSUME scanCache' = scanCache  PROVE Keeps(scanCache, scanCache')
  BY <1>1 DEF Keeps
<1>2. CASE StartScan         BY <1>1, <1>2 DEF StartScan
<1>3. CASE SmitheryPage
  <2>1. PICK a \in Get(ListUrl[page]) : Fetched(a)
    BY <1>3 DEF SmitheryPage
  <2>. QED  BY <2>1, GetKeeps DEF Fetched
<1>4. CASE SmitheryDetail
  <2>1. PICK a \in Get(DetailUrl[Head(todo)]) : Fetched(a)
    BY <1>4 DEF SmitheryDetail
  <2>. QED  BY <2>1, GetKeeps DEF Fetched
<1>5. CASE DetailsDone   BY <1>1, <1>5 DEF DetailsDone, fetcher
<1>6. CASE GlamaPage
  <2>1. PICK a \in Get(GlamaUrl[cursor]) : Fetched(a)
    BY <1>6 DEF GlamaPage
  <2>. QED  BY <2>1, GetKeeps DEF Fetched
<1>7. CASE DieWriting    BY <1>7, StoreKeeps DEF DieWriting
<1>8. CASE Restart       BY <1>1, <1>8 DEF Restart, fetcher
<1>9. CASE Drift         BY <1>1, <1>9 DEF Drift, fetcher
<1>10. CASE UNCHANGED scanVars  BY <1>1, <1>10 DEF scanVars
<1>. QED
  BY <1>2, <1>3, <1>4, <1>5, <1>6, <1>7, <1>8, <1>9, <1>10 DEF ScanNext, ScanStep

\* Fetcher.get: a file that parses is never replaced or lost, whatever the registries
\* have become and wherever a run dies.
THEOREM CacheTheorem == ScanSpec => CacheIsStable
<1>1. [ScanNext]_scanVars =>
        [\A k \in DOMAIN scanCache : scanCache[k] # Corrupt =>
           k \in DOMAIN scanCache' /\ scanCache'[k] = scanCache[k]]_scanVars
  BY StepKeeps DEF Keeps
<1>. QED  BY <1>1, PTL DEF ScanSpec, CacheIsStable

-----------------------------------------------------------------------------
(* A run without a failure leaves a way behind it; a run that finds every  *)
(* answer goes the way that was gone before.                               *)

LEMMA WorldsWhole ==
  ASSUME ScanAssumption, NEW w \in Worlds, NEW u \in DOMAIN w
  PROVE  w[u] # Corrupt
BY DEF ScanAssumption, Corrupt

LEMMA GetServed ==
  ASSUME ScanAssumption, world \in Worlds, fail \in Nat, NEW url, NEW a \in Get(url)
  PROVE  /\ a.fail \in Nat
         /\ a.fail = 0 => fail = 0 /\ Served(a.cache, url) /\ a.data = Answer(a.cache, url)
         /\ Served(scanCache, url) =>
               a.cache = scanCache /\ a.fail = fail /\ a.data = Answer(scanCache, url)
<1>1. CASE Usable(url)
  BY <1>1 DEF Get, Usable, Cached, Served, Answer
<1>2. CASE ~Usable(url)
  <2>1. ~Served(scanCache, url)
    BY <1>2 DEF Usable, Cached, Served
  <2>2. CASE a = [data |-> Nothing, cache |-> scanCache, net |-> net, fail |-> fail + 1]
    BY <2>1, <2>2
  <2>3. CASE /\ url \in DOMAIN world
             /\ a = [data |-> world[url], cache |-> Stored(url, world[url]), net |-> net + 1,
                     fail |-> fail]
    <3>1. world[url] # Corrupt
      BY <2>3, WorldsWhole
    <3>2. Served(a.cache, url) /\ Answer(a.cache, url) = world[url]
      BY <2>3, <3>1 DEF Stored, Served, Answer
    <3>. QED  BY <2>1, <2>3, <3>2
  <2>. QED  BY <1>2, <2>2, <2>3 DEF Get
<1>. QED  BY <1>1, <1>2

\* The address a step asks for, and what it makes of the answer.
LEMMA StepAnswers ==
  ASSUME ScanStep, NEW c, NEW cap, cap = Cap,
         \A url \in Asking : \A a \in Get(url) :
           Fetched(a) => Served(c, url) /\ a.data = Answer(c, url)
  PROVE  Moves(c, cap, Here, Here')
<1>. USE DEF Here, Fetched
<1>1. CASE SmitheryPage
  <2>1. PICK a \in Get(ListUrl[page]) :
          LET all == names \o a.data.servers
              stop == a.data.servers = << >> \/ page >= a.data.pages \/ Len(all) >= Cap
          IN  /\ Fetched(a)
              /\ names' = all
              /\ total' = IF a.data.servers = << >> THEN total ELSE a.data.total
              /\ page' = IF stop THEN page ELSE page + 1
              /\ scanPc' = IF stop THEN "detail" ELSE scanPc
              /\ todo' = IF stop THEN Capped(all, Cap) ELSE todo
    BY <1>1 DEF SmitheryPage
  <2>2. scanPc = "list" /\ cursor' = cursor /\ glamaN' = glamaN /\ recs' = recs
    BY <1>1 DEF SmitheryPage
  <2>3. Here' = AfterList(Here, a.data, cap)
    BY <2>1, <2>2 DEF AfterList
  <2>4. Served(c, ListUrl[page]) /\ a.data = Answer(c, ListUrl[page])
    BY <2>1, <2>2 DEF Asking
  <2>. QED  BY <2>2, <2>3, <2>4 DEF Moves
<1>2. CASE SmitheryDetail
  <2>1. PICK a \in Get(DetailUrl[Head(todo)]) :
          /\ Fetched(a)
          /\ recs' = IF Missed(a) THEN recs
               ELSE Append(recs, TallyServer("smithery", Head(todo), a.data.tools))
    BY <1>2 DEF SmitheryDetail
  <2>2. /\ scanPc = "detail" /\ todo # << >> /\ todo' = Tail(todo)
        /\ UNCHANGED <<scanPc, page, names, total, cursor, glamaN>>
    BY <1>2 DEF SmitheryDetail
  <2>3. Here' = AfterDetail(Here, a.data)
    BY <2>1, <2>2 DEF AfterDetail, Missed
  <2>4. Served(c, DetailUrl[Head(todo)]) /\ a.data = Answer(c, DetailUrl[Head(todo)])
    BY <2>1, <2>2 DEF Asking
  <2>. QED  BY <2>2, <2>3, <2>4 DEF Moves
<1>3. CASE DetailsDone
  BY <1>3 DEF DetailsDone, Moves, AfterDetails
<1>4. CASE GlamaPage
  <2>1. PICK a \in Get(GlamaUrl[cursor]) :
          LET taken == Taken(a.data.servers)
              all == recs \o [i \in DOMAIN taken |-> TallyServer("glama", taken[i], a.data.tools)]
              stop == GlamaOver(a.data, glamaN + Len(taken))
          IN  /\ Fetched(a)
              /\ recs' = all /\ glamaN' = glamaN + Len(taken)
              /\ cursor' = IF stop THEN cursor ELSE a.data.next
              /\ scanPc' = IF stop THEN "idle" ELSE scanPc
    BY <1>4 DEF GlamaPage
  <2>2. scanPc = "glama" /\ UNCHANGED <<page, names, total, todo>>
    BY <1>4 DEF GlamaPage
  <2>3. Here' = AfterGlama(Here, a.data, cap)
    BY <2>1, <2>2 DEF AfterGlama, Taken, GlamaOver
  <2>4. Served(c, GlamaUrl[cursor]) /\ a.data = Answer(c, GlamaUrl[cursor])
    BY <2>1, <2>2 DEF Asking
  <2>. QED  BY <2>2, <2>3, <2>4 DEF Moves
<1>. QED  BY <1>1, <1>2, <1>3, <1>4 DEF ScanStep

\* From the cache a run has one way to go.
LEMMA MovesAgree ==
  ASSUME NEW c, NEW cap, NEW s, NEW u, NEW v, Moves(c, cap, s, u), Moves(c, cap, s, v)
  PROVE  u = v
BY DEF Moves

LEMMA StepFollows ==
  ASSUME ScanAssumption, world \in Worlds, fail \in Nat, ScanStep, NEW u,
         Moves(scanCache, Cap, Here, u)
  PROVE  Here' = u /\ scanCache' = scanCache /\ fail' = fail
<1>1. \A url \in Asking : Served(scanCache, url)
  BY DEF Moves, Asking, Here
<1>2. \A url \in Asking : \A a \in Get(url) :
        a.cache = scanCache /\ a.fail = fail /\ a.data = Answer(scanCache, url)
  BY <1>1, GetServed
<1>3. Here' = u
  <2>1. Moves(scanCache, Cap, Here, Here')
    BY <1>1, <1>2, StepAnswers
  <2>. QED  BY <2>1, MovesAgree
<1>4. scanCache' = scanCache /\ fail' = fail
  <2>1. CASE SmitheryPage    BY <1>2, <2>1 DEF SmitheryPage, Asking, Fetched
  <2>2. CASE SmitheryDetail  BY <1>2, <2>2 DEF SmitheryDetail, Asking, Fetched
  <2>3. CASE DetailsDone     BY <2>3 DEF DetailsDone, fetcher
  <2>4. CASE GlamaPage       BY <1>2, <2>4 DEF GlamaPage, Asking, Fetched
  <2>. QED  BY <2>1, <2>2, <2>3, <2>4 DEF ScanStep
<1>. QED  BY <1>3, <1>4

LEMMA StepGoesOn ==
  ASSUME ScanAssumption, world \in Worlds, fail \in Nat, ScanStep
  PROVE  /\ fail' \in Nat
         /\ fail' = 0 => fail = 0 /\ Moves(scanCache', Cap, Here, Here')
<1>1. \A url : \A a \in Get(url) : Fetched(a) =>
        /\ fail' \in Nat
        /\ fail' = 0 => fail = 0 /\ Served(scanCache', url) /\ a.data = Answer(scanCache', url)
  BY GetServed DEF Fetched
<1>2. fail' \in Nat /\ (fail' = 0 => fail = 0)
  <2>1. CASE SmitheryPage    BY <1>1, <2>1 DEF SmitheryPage
  <2>2. CASE SmitheryDetail  BY <1>1, <2>2 DEF SmitheryDetail
  <2>3. CASE DetailsDone     BY <2>3 DEF DetailsDone, fetcher
  <2>4. CASE GlamaPage       BY <1>1, <2>4 DEF GlamaPage
  <2>. QED  BY <2>1, <2>2, <2>3, <2>4 DEF ScanStep
<1>3. fail' = 0 => Moves(scanCache', Cap, Here, Here')
  BY <1>1, StepAnswers
<1>. QED  BY <1>2, <1>3

-----------------------------------------------------------------------------
(* The invariant.                                                          *)

LEMMA ReplayInit == ASSUME ScanAssumption, ScanInit PROVE ReplayInv
<1>1. reports \in Seq({}) /\ DOMAIN reports = {}
  BY DEF ScanInit
<1>. QED  BY <1>1 DEF ScanInit, ReplayInv, Running, ReplaysExactly

\* What a step of a run, or one that leaves the runs alone, does to both.
LEMMA BehindKept ==
  ASSUME ScanAssumption, world \in Worlds, fail \in Nat, Behind, Keeps(scanCache, scanCache'),
         Cap' = Cap,
         fail' = 0, Here' = Here \/ ScanStep
  PROVE  Behind'
<1>1. PICK k \in Nat \ {0} : Reaches(scanCache, Cap, k, Here)
  BY DEF Behind
<1>2. Reaches(scanCache', Cap, k, Here)
  BY <1>1, ReachesKept
<1>3. CASE Here' = Here
  BY <1>2, <1>3 DEF Behind
<1>4. CASE ScanStep
  <2>1. Moves(scanCache', Cap, Here, Here')
    BY <1>4, StepGoesOn
  <2>2. Reaches(scanCache', Cap, k + 1, Here')
    BY <1>2, <2>1, ReachesNext
  <2>3. k + 1 \in Nat \ {0}
    OBVIOUS
  <2>. QED  BY <2>2, <2>3 DEF Behind
<1>. QED  BY <1>3, <1>4

LEMMA RepeatsKept ==
  ASSUME ScanAssumption, world \in Worlds, fail \in Nat, Keeps(scanCache, scanCache'),
         NEW i, Repeats(i), reports'[i] = reports[i],
         Running' => \/ Here' = Fresh
                     \/ Running /\ opts' = opts /\ (Here' = Here \/ ScanStep)
  PROVE  Repeats(i)'
<1>. DEFINE cap == CapOf(reports[i].opts.quick)
<1>0. PICK k \in Nat \ {0} : \E p :
        /\ Replay(scanCache, cap, k, p, reports[i].records)
        /\ Running /\ opts.quick = reports[i].opts.quick => \E m \in 1..k : p[m] = Here
  BY DEF Repeats
<1>1. PICK p :
        /\ Replay(scanCache, cap, k, p, reports[i].records)
        /\ Running /\ opts.quick = reports[i].opts.quick => \E m \in 1..k : p[m] = Here
  BY <1>0
<1>2. Replay(scanCache', cap, k, p, reports[i].records)
  BY <1>1, PathKept
<1>3. ASSUME Running', opts'.quick = reports[i].opts.quick  PROVE \E m \in 1..k : p[m] = Here'
  <2>1. CASE Here' = Fresh
    BY <1>1, <2>1 DEF Replay, Path
  <2>2. CASE Running /\ opts' = opts /\ (Here' = Here \/ ScanStep)
    <3>1. PICK m \in 1..k : p[m] = Here
      BY <1>1, <1>3, <2>2
    <3>2. m \in 1..(k - 1)
      BY <1>1, <2>2, <3>1 DEF Replay, Running, Here
    <3>3. Moves(scanCache, Cap, Here, p[m + 1])
      BY <1>1, <1>3, <2>2, <3>1, <3>2 DEF Replay, Path, CapOf, Cap
    <3>4. Here' = Here \/ Here' = p[m + 1]
      BY <2>2, <3>3, StepFollows
    <3>. QED  BY <3>1, <3>2, <3>4
  <2>. QED  BY <1>3, <2>1, <2>2
<1>4. /\ Replay(scanCache', CapOf(reports'[i].opts.quick), k, p, reports'[i].records)
      /\ Running' /\ opts'.quick = reports'[i].opts.quick => \E m \in 1..k : p[m] = Here'
  BY <1>2, <1>3
<1>. QED  BY <1>4 DEF Repeats

\* The last page of a run with a complete report and its cap: the same records.
LEMMA EndRepeats ==
  ASSUME ScanAssumption, world \in Worlds, fail \in Nat, NEW i, Repeats(i),
         opts.quick = reports[i].opts.quick, Running, ScanStep, scanPc' = "idle"
  PROVE  recs' = reports[i].records
<1>. DEFINE cap == CapOf(reports[i].opts.quick)
<1>0. PICK k \in Nat \ {0} : \E p :
        /\ Replay(scanCache, cap, k, p, reports[i].records)
        /\ \E m \in 1..k : p[m] = Here
  BY DEF Repeats
<1>1. PICK p :
        /\ Replay(scanCache, cap, k, p, reports[i].records)
        /\ \E m \in 1..k : p[m] = Here
  BY <1>0
<1>2. PICK m \in 1..k : p[m] = Here
  BY <1>1
<1>3. m \in 1..(k - 1)
  BY <1>1, <1>2 DEF Replay, Running, Here
<1>4. Moves(scanCache, Cap, Here, p[m + 1])
  BY <1>1, <1>2, <1>3 DEF Replay, Path, CapOf, Cap
<1>5. Here' = p[m + 1]
  BY <1>4, StepFollows
<1>6. p[m + 1].pc = "idle" /\ p[m + 1].recs = recs'
  BY <1>5 DEF Here
<1>7. m + 1 = k
  <2>1. ASSUME m + 1 # k  PROVE FALSE
    <3>1. Moves(scanCache, cap, p[m + 1], p[m + 1 + 1])
      BY <1>1, <1>3, <2>1 DEF Replay, Path
    <3>. QED  BY <1>6, <3>1 DEF Moves
  <2>. QED  BY <2>1
<1>. QED  BY <1>1, <1>6, <1>7 DEF Replay

\* Every step but the last of a run.
LEMMA ReplayQuiet ==
  ASSUME ScanAssumption, ReplayInv, Keeps(scanCache, scanCache'), world' \in Worlds,
         fail' \in Nat,
         reports' = reports,
         Running' => \/ Here' = Fresh
                     \/ Running /\ opts' = opts /\ (fail' = 0 => fail = 0)
                          /\ (Here' = Here \/ ScanStep)
  PROVE  ReplayInv'
<1>1. \A i \in DOMAIN reports' : Complete(i)' => Repeats(i)'
  BY RepeatsKept DEF ReplayInv, Complete
<1>2. ASSUME Running', fail' = 0  PROVE Behind'
  <2>1. CASE Here' = Fresh
    <3>. DEFINE p == [i \in 1..1 |-> Fresh]
    <3>1. Reaches(scanCache', Cap', 1, Here')
      <4>1. Path(scanCache', Cap', 1, p) /\ p[1] = Here'
        BY <2>1 DEF Path
      <4>. QED  BY <4>1 DEF Reaches
    <3>2. 1 \in Nat \ {0}
      OBVIOUS
    <3>. QED  BY <3>1, <3>2 DEF Behind
  <2>2. CASE Running /\ opts' = opts /\ fail = 0 /\ (Here' = Here \/ ScanStep)
    BY <1>2, <2>2, BehindKept DEF ReplayInv, Cap
  <2>. QED  BY <1>2, <2>1, <2>2
<1>3. ReplaysExactly'
  BY DEF ReplayInv, ReplaysExactly
<1>4. \E S : reports' \in Seq(S)
  BY DEF ReplayInv
<1>. QED  BY <1>1, <1>2, <1>3, <1>4 DEF ReplayInv

\* The last step of a run: its report is written.
LEMMA ReplayReport ==
  ASSUME ScanAssumption, ReplayInv, Keeps(scanCache, scanCache'), world' = world,
         ScanStep, Running,
         scanPc' = "idle", opts' = opts,
         NEW r, r.records = recs', r.fail = fail', r.opts = opts, reports' = Append(reports, r)
  PROVE  ReplayInv'
<1>. DEFINE new == Len(reports')
<1>1. PICK S : reports \in Seq(S)
  BY DEF ReplayInv
<1>2. /\ reports' \in Seq(S \cup {r}) /\ new = Len(reports) + 1 /\ reports'[new] = r
      /\ DOMAIN reports' = DOMAIN reports \cup {new}
      /\ \A i \in DOMAIN reports : i < new /\ reports'[i] = reports[i]
  BY <1>1
<1>. HIDE DEF new
<1>3. ~Running'
  BY DEF Running
<1>4. ASSUME NEW i \in DOMAIN reports', Complete(i)'  PROVE Repeats(i)'
  <2>1. CASE i \in DOMAIN reports
    BY <1>2, <1>3, <1>4, <2>1, RepeatsKept DEF ReplayInv, Complete
  <2>2. CASE i = new
    <3>1. fail' = 0
      BY <1>2, <1>4, <2>2 DEF Complete
    <3>2. Behind'
      BY <3>1, StepGoesOn, BehindKept DEF ReplayInv, Cap
    <3>3. PICK k \in Nat \ {0} : Reaches(scanCache', Cap', k, Here')
      BY <3>2 DEF Behind
    <3>4. PICK p : Path(scanCache', Cap', k, p) /\ p[k] = Here'
      BY <3>3 DEF Reaches
    <3>5. p[k].pc = "idle" /\ p[k].recs = reports'[i].records
      BY <1>2, <2>2, <3>4 DEF Here
    <3>6. Cap' = CapOf(reports'[i].opts.quick)
      BY <1>2, <2>2 DEF Cap, CapOf
    <3>. QED  BY <1>3, <3>4, <3>5, <3>6 DEF Repeats, Replay
  <2>. QED  BY <1>2, <2>1, <2>2
<1>5. ASSUME NEW i \in DOMAIN reports', NEW j \in DOMAIN reports', i < j, reports'[i].fail = 0,
             reports'[i].opts.quick = reports'[j].opts.quick
      PROVE  reports'[j].records = reports'[i].records
  <2>1. i \in DOMAIN reports
    BY <1>1, <1>2, <1>5
  <2>2. CASE j \in DOMAIN reports
    BY <1>2, <1>5, <2>1, <2>2 DEF ReplayInv, ReplaysExactly
  <2>3. CASE j = new
    <3>1. Repeats(i) /\ opts.quick = reports[i].opts.quick
      BY <1>2, <1>5, <2>1, <2>3 DEF ReplayInv, Complete
    <3>2. recs' = reports[i].records
      BY <3>1, EndRepeats DEF ReplayInv
    <3>. QED  BY <1>2, <2>1, <2>3, <3>2
  <2>. QED  BY <1>2, <2>2, <2>3
<1>6. world' \in Worlds /\ fail' \in Nat
  BY StepGoesOn DEF ReplayInv
<1>. QED  BY <1>2, <1>3, <1>4, <1>5, <1>6 DEF ReplayInv, ReplaysExactly

LEMMA ReplayNext == ASSUME ScanAssumption, ReplayInv, [ScanNext]_scanVars PROVE ReplayInv'
<1>1. Keeps(scanCache, scanCache')
  BY StepKeeps
<1>2. CASE StartScan
  <2>1. Here' = Fresh
    BY <1>2 DEF StartScan, Here, Fresh
  <2>2. fail' = 0 /\ world' = world /\ reports' = reports
    BY <1>2 DEF StartScan
  <2>. QED  BY <1>1, <2>1, <2>2, ReplayQuiet DEF ReplayInv
<1>3. CASE ScanStep /\ reports' = reports
  <2>1. world' = world /\ opts' = opts /\ Running
    BY <1>3 DEF ScanStep, SmitheryPage, SmitheryDetail, DetailsDone,
                  GlamaPage, Running
  <2>2. fail' \in Nat /\ (fail' = 0 => fail = 0)
    BY <1>3, StepGoesOn DEF ReplayInv
  <2>. QED  BY <1>1, <1>3, <2>1, <2>2, ReplayQuiet DEF ReplayInv
<1>4. CASE ScanStep /\ reports' # reports
  <2>1. GlamaPage
    BY <1>4 DEF ScanStep, SmitheryPage, SmitheryDetail, DetailsDone
  <2>2. world' = world /\ opts' = opts /\ Running
    BY <2>1 DEF GlamaPage, Running
  <2>3. scanPc' = "idle" /\ reports' = Append(reports, Summary(recs', fail', net'))
    BY <1>4, <2>1 DEF GlamaPage, Fetched
  <2>4. LET r == Summary(recs', fail', net')
        IN  r.records = recs' /\ r.fail = fail' /\ r.opts = opts
    BY DEF Summary
  <2>. QED  BY <1>1, <1>4, <2>2, <2>3, <2>4, ReplayReport
<1>5. CASE DieWriting
  BY <1>1, <1>5, ReplayQuiet DEF DieWriting, ReplayInv, Running
<1>6. CASE Restart
  BY <1>1, <1>6, ReplayQuiet DEF Restart, ReplayInv, Running, fetcher
<1>7. CASE Drift
  <2>1. Here' = Here /\ Running' = Running /\ opts' = opts /\ fail' = fail /\ world' \in Worlds
        /\ reports' = reports
    BY <1>7 DEF Drift, Here, Running, fetcher
  <2>. QED  BY <1>1, <2>1, ReplayQuiet DEF ReplayInv
<1>8. CASE UNCHANGED scanVars
  <2>1. Here' = Here /\ Running' = Running /\ opts' = opts /\ fail' = fail /\ world' = world
        /\ reports' = reports
    BY <1>8 DEF scanVars, Here, Running
  <2>. QED  BY <1>1, <2>1, ReplayQuiet DEF ReplayInv
<1>. QED  BY <1>2, <1>3, <1>4, <1>5, <1>6, <1>7, <1>8 DEF ScanNext

\* Runs are replayable: after a run of registry_scan.py's run() in which no request
\* failed, every run with the same cap writes the same records, online or offline.
THEOREM ReplayTheorem == ASSUME ScanAssumption PROVE ScanSpec => []ReplaysExactly
<1>1. ScanInit => ReplayInv
  BY ReplayInit
<1>2. ReplayInv /\ [ScanNext]_scanVars => ReplayInv'
  BY ReplayNext
<1>3. ReplayInv => ReplaysExactly
  BY DEF ReplayInv
<1>. QED  BY <1>1, <1>2, <1>3, PTL DEF ScanSpec

-----------------------------------------------------------------------------
(* The operators of the scan.                                              *)

\* The scan counts as the library does.
LEMMA Counting ==
  ASSUME NEW S
  PROVE  /\ Cardinality(S) = Cardinality(S)
         /\ Sorted(S) =
              [k \in 1..Cardinality(S) |-> CHOOSE s \in S : Cardinality({r \in S : r < s}) = k - 1]
BY DEF Cardinality, Cardinality, Sorted

LEMMA Tallied ==
  ASSUME NEW registry, NEW name, NEW tools
  PROVE  TallyServer(registry, name, tools) =
           [registry |-> registry, server |-> name, tools |-> Len(tools),
            typed |-> Cardinality({i \in DOMAIN tools : tools[i] # << >>}),
            continuous |-> Cardinality({i \in DOMAIN tools : Carries(tools[i], "continuous_x")}),
            pipeline |-> Cardinality({i \in DOMAIN tools : Carries(tools[i], "pipeline_set_s")}),
            substrate |-> Cardinality({i \in DOMAIN tools : Substrate(tools[i])})]
BY DEF TallyServer, Cardinality, Cardinality

LEMMA MinOfTwo ==
  ASSUME NEW a \in Int, NEW b \in Int
  PROVE  Min({a, b}) \in {a, b} /\ Min({a, b}) <= a /\ Min({a, b}) <= b
<1>1. \E x \in {a, b} : \A y \in {a, b} : x <= y
  OBVIOUS
<1>. QED  BY <1>1 DEF Min

LEMMA CapBounds == ASSUME ScanAssumption PROVE Cap \in 1..MaxServers
<1>1. MaxServers \in Nat \ {0} /\ QuickServers \in Nat \ {0}
  BY DEF ScanAssumption
<1>2. Min({MaxServers, QuickServers}) \in 1..MaxServers
  <2>1. MaxServers \in Int /\ QuickServers \in Int
    BY <1>1
  <2>2. /\ Min({MaxServers, QuickServers}) \in {MaxServers, QuickServers}
        /\ Min({MaxServers, QuickServers}) <= MaxServers
    BY <2>1, MinOfTwo
  <2>. QED  BY <1>1, <2>2
<1>. QED  BY <1>1, <1>2 DEF Cap

\* How many members of a set are below one of them tells them apart, and is any
\* number below the size of the set.
LEMMA RankSurjective ==
  ASSUME NEW S \in SUBSET Int, IsFiniteSet(S), NEW k \in 1..Cardinality(S)
  PROVE  \E s \in S : Cardinality({r \in S : r < s}) = k - 1
<1>. DEFINE Rank == [s \in S |-> Cardinality({r \in S : r < s})]
            N == Cardinality(S)
<1>1. N \in Nat
  BY FS_CardinalityType
<1>2. ASSUME NEW s \in S
      PROVE  IsFiniteSet({r \in S : r < s}) /\ Rank[s] \in 0..(N - 1)
  <2>1. IsFiniteSet(S \ {s}) /\ Cardinality(S \ {s}) = N - 1
    BY FS_RemoveElement
  <2>2. {r \in S : r < s} \in SUBSET (S \ {s})
    OBVIOUS
  <2>3. IsFiniteSet({r \in S : r < s}) /\ Cardinality({r \in S : r < s}) <= N - 1
    BY <2>1, <2>2, FS_Subset
  <2>4. Cardinality({r \in S : r < s}) \in Nat
    BY <2>3, FS_CardinalityType
  <2>. QED  BY <1>1, <2>3, <2>4
<1>3. ASSUME NEW s \in S, NEW t \in S, s < t  PROVE Rank[s] < Rank[t]
  <2>. DEFINE A == {r \in S : r < s}
              B == {r \in S : r < t}
  <2>1. IsFiniteSet(A) /\ IsFiniteSet(B) /\ Cardinality(A) \in Nat /\ Cardinality(B) \in Nat
    BY <1>2, FS_CardinalityType
  <2>2. s \notin A /\ A \cup {s} \in SUBSET B
    <3>1. \A r \in S : r < s => r < t
      BY <1>3
    <3>2. s \notin A /\ s \in B
      BY <1>3
    <3>3. \A r \in A : r \in B
      BY <3>1
    <3>. QED  BY <3>2, <3>3
  <2>. HIDE DEF A, B
  <2>3. Cardinality(A \cup {s}) = Cardinality(A) + 1
    BY <2>1, <2>2, FS_AddElement
  <2>4. Cardinality(A \cup {s}) <= Cardinality(B)
    BY <2>1, <2>2, FS_Subset
  <2>5. Cardinality(A) < Cardinality(B)
    BY <2>1, <2>3, <2>4
  <2>. QED  BY <2>5 DEF A, B
<1>4. Rank \in Injection(S, 0..(N - 1))
  <2>1. Rank \in [S -> 0..(N - 1)]
    BY <1>2
  <2>2. ASSUME NEW s \in S, NEW t \in S, Rank[s] = Rank[t]  PROVE s = t
    <3>1. ~(s < t) /\ ~(t < s)
      BY <1>2, <1>3, <2>2
    <3>. QED  BY <3>1
  <2>. QED  BY <2>1, <2>2 DEF Injection, IsInjective
<1>5. IsFiniteSet(0..(N - 1)) /\ Cardinality(0..(N - 1)) = N
  <2>1. 0 \in Int /\ N - 1 \in Int
    BY <1>1
  <2>. HIDE DEF N
  <2>2. /\ IsFiniteSet(0..(N - 1))
        /\ Cardinality(0..(N - 1)) = IF 0 > N - 1 THEN 0 ELSE N - 1 - 0 + 1
    BY <2>1, FS_Interval
  <2>. QED  BY <1>1, <2>2
<1>6. Rank \in Surjection(S, 0..(N - 1))
  BY <1>4, <1>5, FS_Injection
<1>7. k - 1 \in 0..(N - 1)
  BY <1>1
<1>8. PICK s \in S : Rank[s] = k - 1
  BY <1>6, <1>7 DEF Surjection
<1>. QED  BY <1>8

LEMMA SortedTyped ==
  ASSUME NEW S \in SUBSET Int, IsFiniteSet(S)
  PROVE  /\ Sorted(S) \in Seq(S)
         /\ Len(Sorted(S)) = Cardinality(S)
         /\ \A i, j \in 1..Len(Sorted(S)) : Sorted(S)[i] = Sorted(S)[j] => i = j
<1>1. Cardinality(S) \in Nat
  BY FS_CardinalityType
<1>2. \A k \in 1..Cardinality(S) :
        Sorted(S)[k] \in S /\ Cardinality({r \in S : r < Sorted(S)[k]}) = k - 1
  <2>1. TAKE k \in 1..Cardinality(S)
  <2>. DEFINE Nth(s) == Cardinality({r \in S : r < s}) = k - 1
  <2>2. \E s \in S : Nth(s)
    BY RankSurjective
  <2>3. Sorted(S)[k] = CHOOSE s \in S : Nth(s)
    BY Counting
  <2>. HIDE DEF Nth
  <2>4. Sorted(S)[k] \in S /\ Nth(Sorted(S)[k])
    BY <2>2, <2>3
  <2>. QED  BY <2>4 DEF Nth
<1>3. Sorted(S) = [k \in 1..Cardinality(S) |-> Sorted(S)[k]]
  BY Counting
<1>4. Sorted(S) \in [1..Cardinality(S) -> S]
  BY <1>2, <1>3
<1>5. Sorted(S) \in Seq(S) /\ Len(Sorted(S)) = Cardinality(S)
  BY <1>1, <1>4
<1>6. ASSUME NEW i \in 1..Cardinality(S), NEW j \in 1..Cardinality(S),
             Sorted(S)[i] = Sorted(S)[j]
      PROVE  i = j
  <2>1. i - 1 = j - 1
    BY <1>2, <1>6
  <2>. QED  BY <1>1, <2>1
<1>. QED  BY <1>5, <1>6

LEMMA NamesRange ==
  ASSUME NEW S, NEW q \in Seq(S)
  PROVE  Range(q) \subseteq S /\ IsFiniteSet(Range(q))
  <1>1. Len(q) \in Nat /\ q \in [1..Len(q) -> S] /\ DOMAIN q = 1..Len(q)
    BY LenProperties
  <1>2. Range(q) \subseteq S /\ q \in Surjection(1..Len(q), Range(q))
    <2>1. Range(q) \subseteq S /\ q \in Surjection(1..Len(q), Range(q))
      BY <1>1, Fun_RangeProperties
    <2>. QED  BY <2>1 DEF Range, Range
  <1>3. IsFiniteSet(1..Len(q))
    BY <1>1, FS_Interval
  <1>4. IsFiniteSet(Range(q))
    BY <1>2, <1>3, FS_Surjection
  <1>. QED  BY <1>2, <1>4

\* What is kept of the names has none twice and is no longer than the cap.
LEMMA CappedTyped ==
  ASSUME NEW S \in SUBSET Int, NEW all \in Seq(S), NEW cap \in Nat
  PROVE  /\ Capped(all, cap) \in Seq(S)
         /\ Len(Capped(all, cap)) <= cap
         /\ \A i, j \in 1..Len(Capped(all, cap)) :
              Capped(all, cap)[i] = Capped(all, cap)[j] => i = j
<1>. DEFINE R == Range(all)
            sorted == Sorted(R)
            m == Min({cap, Len(sorted)})
<1>1. R \in SUBSET S /\ R \in SUBSET Int /\ IsFiniteSet(R)
  <2>1. Range(all) \subseteq S /\ IsFiniteSet(Range(all))
    BY NamesRange
  <2>. QED  BY <2>1
<1>. HIDE DEF R
<1>2. /\ sorted \in Seq(R) /\ Len(sorted) = Cardinality(R) /\ Len(sorted) \in Nat
      /\ \A i, j \in 1..Len(sorted) : sorted[i] = sorted[j] => i = j
  BY <1>1, SortedTyped, LenProperties
<1>. HIDE DEF sorted
<1>3. m \in Nat /\ m <= cap /\ m <= Len(sorted)
  <2>1. cap \in Int /\ Len(sorted) \in Int
    BY <1>2
  <2>2. m \in {cap, Len(sorted)} /\ m <= cap /\ m <= Len(sorted)
    BY <2>1, MinOfTwo
  <2>. QED  BY <1>2, <2>2
<1>4. Capped(all, cap) = SubSeq(sorted, 1, m)
  BY DEF Capped, R, sorted
<1>. HIDE DEF m
<1>5. \A i \in 1..m : sorted[i] \in S
  <2>1. \A i \in 1..Len(sorted) : sorted[i] \in R
    BY <1>2, ElementOfSeq
  <2>2. \A i \in 1..m : i \in 1..Len(sorted)
    BY <1>2, <1>3
  <2>. QED  BY <1>1, <2>1, <2>2
<1>6. /\ Capped(all, cap) \in Seq(S) /\ Len(Capped(all, cap)) = m
      /\ \A i \in 1..m : Capped(all, cap)[i] = sorted[i]
  BY <1>3, <1>4, <1>5, SubSeqProperties
<1>. QED  BY <1>2, <1>3, <1>6

LEMMA TakenTyped ==
  ASSUME ScanAssumption, glamaN \in Nat, glamaN <= Cap, NEW q \in Seq(Int)
  PROVE  Taken(q) \in Seq(Int) /\ Len(Taken(q)) \in Nat /\ glamaN + Len(Taken(q)) <= Cap
<1>. DEFINE m == Min({Cap - glamaN, Len(q)})
<1>1. Len(q) \in Nat /\ Cap \in Nat
  BY CapBounds, LenProperties DEF ScanAssumption
<1>2. m \in Nat /\ m <= Cap - glamaN /\ m <= Len(q)
  <2>1. Cap - glamaN \in Int /\ Len(q) \in Int
    BY <1>1
  <2>2. m \in {Cap - glamaN, Len(q)} /\ m <= Cap - glamaN /\ m <= Len(q)
    BY <2>1, MinOfTwo
  <2>. QED  BY <1>1, <2>2
<1>3. Taken(q) = SubSeq(q, 1, m)
  BY DEF Taken
<1>. HIDE DEF m
<1>4. \A i \in 1..m : q[i] \in Int
  <2>1. \A i \in 1..m : i \in 1..Len(q)
    BY <1>1, <1>2
  <2>. QED  BY <2>1, ElementOfSeq
<1>5. Taken(q) \in Seq(Int) /\ Len(Taken(q)) = m
  BY <1>2, <1>3, <1>4, SubSeqProperties
<1>. QED  BY <1>1, <1>2, <1>5

Records ==
  [registry : {"smithery", "glama"}, server : Int, tools : Nat, typed : Nat, continuous : Nat,
   pipeline : Nat, substrate : Nat]

LEMMA TallyTyped ==
  ASSUME NEW registry \in {"smithery", "glama"}, NEW name \in Int, NEW F, NEW tools \in Seq(F)
  PROVE  LET r == TallyServer(registry, name, tools)
         IN  /\ r \in Records /\ r.registry = registry /\ r.server = name
             /\ r.substrate <= r.typed /\ r.typed <= r.tools
<1>. DEFINE D == DOMAIN tools
            Those(label) == {i \in D : Carries(tools[i], label)}
            T == {i \in D : tools[i] # << >>}
            S == {i \in D : Substrate(tools[i])}
<1>1. Len(tools) \in Nat /\ D = 1..Len(tools)
  BY LenProperties
<1>2. IsFiniteSet(D) /\ Cardinality(D) = Len(tools)
  <2>1. /\ IsFiniteSet(1..Len(tools))
        /\ Cardinality(1..Len(tools)) = IF 1 > Len(tools) THEN 0 ELSE Len(tools) - 1 + 1
    BY <1>1, FS_Interval
  <2>. QED  BY <1>1, <2>1
<1>3. \A X \in SUBSET D : IsFiniteSet(X) /\ Cardinality(X) \in Nat /\ Cardinality(X) <= Len(tools)
  BY <1>2, FS_Subset, FS_CardinalityType
<1>4. S \subseteq T
  BY DEF Substrate, Carries
<1>5. Cardinality(S) <= Cardinality(T)
  <2>1. T \in SUBSET D /\ S \in SUBSET T
    BY <1>4
  <2>. HIDE DEF S, T
  <2>. QED  BY <1>3, <2>1, FS_Subset
<1>6. \A label : Cardinality(Those(label)) \in Nat
  <2>1. \A label : Those(label) \in SUBSET D
    OBVIOUS
  <2>. QED  BY <1>3, <2>1
<1>7. Cardinality(T) \in Nat /\ Cardinality(S) \in Nat /\ Cardinality(T) <= Len(tools)
  BY <1>3
<1>8. TallyServer(registry, name, tools) =
        [registry |-> registry, server |-> name, tools |-> Len(tools), typed |-> Cardinality(T),
         continuous |-> Cardinality(Those("continuous_x")),
         pipeline |-> Cardinality(Those("pipeline_set_s")), substrate |-> Cardinality(S)]
  BY Tallied
<1>. HIDE DEF S, T, Those, D
<1>. QED  BY <1>1, <1>5, <1>6, <1>7, <1>8 DEF Records

-----------------------------------------------------------------------------
(* What is in the files was served, and at the address it is kept for.     *)

Genuine(c) ==
  \A k \in DOMAIN c : c[k] # Corrupt =>
    \E w \in Worlds : \E u \in DOMAIN w : Key[u] = k /\ c[k] = w[u]

Honest(d, url) ==
  d = Nothing \/ \E w \in Worlds : \E u \in DOMAIN w : d = w[u] /\ (url \in Urls => u = url)

Names == Int \cap DOMAIN DetailUrl

LEMMA StoredGenuine ==
  ASSUME Genuine(scanCache), NEW url, NEW data,
         data = Corrupt \/ \E w \in Worlds : url \in DOMAIN w /\ data = w[url]
  PROVE  Genuine(Stored(url, data))
<1>1. ASSUME NEW k \in DOMAIN Stored(url, data), Stored(url, data)[k] # Corrupt
      PROVE  \E w \in Worlds : \E u \in DOMAIN w : Key[u] = k /\ Stored(url, data)[k] = w[u]
  <2>1. CASE k = Key[url]
    BY <1>1, <2>1 DEF Stored
  <2>2. CASE k # Key[url]
    BY <1>1, <2>2 DEF Stored, Genuine
  <2>. QED  BY <2>1, <2>2
<1>. QED  BY <1>1 DEF Genuine

LEMMA GetGenuine ==
  ASSUME ScanAssumption, KeysDistinct, world \in Worlds, Genuine(scanCache),
         NEW url, NEW a \in Get(url)
  PROVE  Genuine(a.cache) /\ Honest(a.data, url)
<1>1. CASE Usable(url)
  <2>1. a.cache = scanCache /\ a.data = scanCache[Key[url]]
    BY <1>1 DEF Get
  <2>2. PICK w \in Worlds : \E u \in DOMAIN w : Key[u] = Key[url] /\ scanCache[Key[url]] = w[u]
    BY <1>1 DEF Usable, Cached, Genuine
  <2>3. PICK u \in DOMAIN w : Key[u] = Key[url] /\ scanCache[Key[url]] = w[u]
    BY <2>2
  <2>4. u \in Urls
    BY DEF ScanAssumption
  <2>5. url \in Urls => u = url
    BY <2>3, <2>4 DEF KeysDistinct
  <2>. QED  BY <2>1, <2>3, <2>5 DEF Honest
<1>2. CASE ~Usable(url)
  <2>1. CASE a = [data |-> Nothing, cache |-> scanCache, net |-> net, fail |-> fail + 1]
    BY <2>1 DEF Honest
  <2>2. CASE /\ url \in DOMAIN world
             /\ a = [data |-> world[url], cache |-> Stored(url, world[url]), net |-> net + 1,
                     fail |-> fail]
    <3>1. Genuine(Stored(url, world[url]))
      BY <2>2, StoredGenuine
    <3>. QED  BY <2>2, <3>1 DEF Honest
  <2>. QED  BY <1>2, <2>1, <2>2 DEF Get
<1>. QED  BY <1>1, <1>2

LEMMA HonestTyped ==
  ASSUME ScanAssumption, NEW d, NEW url, Honest(d, url)
  PROVE  /\ d.servers \in Seq(Int) /\ d.tools \in Seq(Range(d.tools))
         /\ d.pages \in Int /\ d.pages <= Len(ListUrl)
         /\ url \in Range(ListUrl) => d.servers \in Seq(Names)
<1>1. ListUrl \in Seq(Urls) /\ Len(ListUrl) \in Nat
  BY LenProperties DEF ScanAssumption
<1>2. CASE d = Nothing
  <2>1. d.servers = << >> /\ d.tools = << >> /\ d.pages = -1
    BY <1>2 DEF Nothing
  <2>. QED  BY <1>1, <2>1
<1>3. CASE d # Nothing
  <2>1. PICK w \in Worlds : \E u \in DOMAIN w : d = w[u] /\ (url \in Urls => u = url)
    BY <1>3 DEF Honest
  <2>2. PICK u \in DOMAIN w : d = w[u] /\ (url \in Urls => u = url)
    BY <2>1
  <2>3. /\ d.pages \in 0..Len(ListUrl)
        /\ d.servers \in Seq(Int) /\ d.tools \in Seq(Range(d.tools))
        /\ u \in Range(ListUrl) => Range(d.servers) \subseteq DOMAIN DetailUrl
    BY <2>2 DEF ScanAssumption
  <2>4. ASSUME url \in Range(ListUrl)  PROVE d.servers \in Seq(Names)
    <3>1. url \in Urls
      BY <1>1, <2>4, NamesRange
    <3>2. Range(d.servers) \subseteq DOMAIN DetailUrl
      BY <2>2, <2>3, <2>4, <3>1
    <3>3. /\ Len(d.servers) \in Nat /\ DOMAIN d.servers = 1..Len(d.servers)
          /\ d.servers \in [1..Len(d.servers) -> Int]
      BY <2>3, LenProperties
    <3>4. d.servers \in [1..Len(d.servers) -> Names]
      BY <3>2, <3>3 DEF Range, Names
    <3>. QED  BY <3>3, <3>4
  <2>. QED  BY <1>1, <2>3, <2>4
<1>. QED  BY <1>2, <1>3

-----------------------------------------------------------------------------
(* The second invariant: what a run holds, and what it has counted.        *)

FilesInv == world \in Worlds /\ Genuine(scanCache)

ReportsInv ==
  /\ scanRun \in Nat /\ Len(reports) <= scanRun
  /\ \E S : reports \in Seq(S)
  /\ scanPc \in {"idle", "list", "detail", "glama", "dead"}
  /\ Running => Len(reports) < scanRun

ListInv ==
  /\ page \in DOMAIN ListUrl
  /\ names \in Seq(Names) /\ todo \in Seq(Names) /\ Len(todo) <= MaxServers
  /\ \A i, j \in 1..Len(todo) : todo[i] = todo[j] => i = j

CountInv ==
  /\ glamaN \in Nat /\ glamaN <= MaxServers
  /\ recs \in Seq(Records) /\ Len(recs) <= 2 * MaxServers
  /\ Running => glamaN <= Cap
  /\ scanPc = "list" => recs = << >> /\ glamaN = 0
  /\ scanPc = "detail" => glamaN = 0 /\ Len(recs) + Len(todo) <= Cap
  /\ scanPc = "glama" => Len(recs) <= Cap + glamaN

Smithery(r) == r.registry = "smithery"

\* A record of the first registry is the tally of a published answer.
Told(r) ==
  Smithery(r) =>
    \E w \in Worlds : /\ DetailUrl[r.server] \in DOMAIN w
                      /\ r = TallyServer("smithery", r.server, w[DetailUrl[r.server]].tools)

RecsInv ==
  /\ SmitheryServersDistinct
  /\ \A i \in DOMAIN recs : recs[i].substrate <= recs[i].typed /\ recs[i].typed <= recs[i].tools
  /\ \A i \in DOMAIN recs : Told(recs[i])
  /\ scanPc = "detail" => \A i \in DOMAIN recs, j \in 1..Len(todo) :
       Smithery(recs[i]) => recs[i].server # todo[j]

ScanInv == FilesInv /\ ReportsInv /\ ListInv /\ CountInv /\ RecsInv

LEMMA ScanInvInit == ASSUME ScanAssumption, ScanInit PROVE ScanInv
<1>1. 1 \in DOMAIN ListUrl
  <2>1. ListUrl \in Seq(Urls) /\ ListUrl # << >>
    BY DEF ScanAssumption
  <2>. QED  BY <2>1, EmptySeq, LenProperties
<1>2. MaxServers \in Nat
  BY DEF ScanAssumption
<1>3. FilesInv
  BY DEF ScanInit, FilesInv, Genuine
<1>4. ReportsInv
  BY DEF ScanInit, ReportsInv, Running
<1>5. ListInv
  BY <1>1, <1>2 DEF ScanInit, ListInv
<1>6. CountInv
  BY <1>2 DEF ScanInit, CountInv, Running
<1>7. RecsInv
  BY DEF ScanInit, RecsInv, SmitheryServersDistinct
<1>. QED  BY <1>3, <1>4, <1>5, <1>6, <1>7 DEF ScanInv

LEMMA ScanInvStart == ASSUME ScanAssumption, ScanInv, StartScan PROVE ScanInv'
<1>1. 1 \in DOMAIN ListUrl
  <2>1. ListUrl \in Seq(Urls) /\ ListUrl # << >>
    BY DEF ScanAssumption
  <2>. QED  BY <2>1, EmptySeq, LenProperties
<1>2. MaxServers \in Nat /\ Cap' \in Nat
  <2>1. MaxServers \in Nat \ {0} /\ QuickServers \in Nat \ {0}
    BY DEF ScanAssumption
  <2>2. Min({MaxServers, QuickServers}) \in 1..MaxServers
    BY <2>1, MinOfTwo
  <2>. QED  BY <2>1, <2>2 DEF Cap
<1>3. FilesInv'
  BY DEF StartScan, ScanInv, FilesInv
<1>4. ReportsInv'
  <2>1. PICK S : reports \in Seq(S)
    BY DEF ScanInv, ReportsInv
  <2>2. Len(reports) \in Nat
    BY <2>1, LenProperties
  <2>. QED  BY <2>1, <2>2 DEF StartScan, ScanInv, ReportsInv, Running
<1>5. ListInv'
  BY <1>1, <1>2 DEF StartScan, ListInv
<1>6. CountInv'
  BY <1>2 DEF StartScan, CountInv, Running
<1>7. RecsInv'
  BY DEF StartScan, RecsInv, SmitheryServersDistinct
<1>. QED  BY <1>3, <1>4, <1>5, <1>6, <1>7 DEF ScanInv

LEMMA ScanPage ==
  ASSUME ScanAssumption, KeysDistinct, ScanInv, SmitheryPage
  PROVE  ScanInv'
<1>. USE DEF ScanInv
<1>1. PICK a \in Get(ListUrl[page]) :
        LET all == names \o a.data.servers
            stop == a.data.servers = << >> \/ page >= a.data.pages \/ Len(all) >= Cap
        IN  /\ Fetched(a)
            /\ names' = all
            /\ page' = IF stop THEN page ELSE page + 1
            /\ scanPc' = IF stop THEN "detail" ELSE scanPc
            /\ todo' = IF stop THEN Capped(all, Cap) ELSE todo
  BY DEF SmitheryPage
<1>2. /\ scanPc = "list" /\ UNCHANGED <<world, scanRun, opts, glamaN, recs, reports>>
      /\ Cap \in Nat /\ Cap <= MaxServers /\ MaxServers \in Nat /\ Cap' = Cap
  BY CapBounds DEF SmitheryPage, ScanAssumption, Cap
<1>3. ListUrl \in Seq(Urls) /\ DOMAIN ListUrl = 1..Len(ListUrl) /\ Len(ListUrl) \in Nat
  BY LenProperties DEF ScanAssumption
<1>4. ListUrl[page] \in Range(ListUrl)
  BY DEF ListInv, Range
<1>5. Genuine(scanCache') /\ Honest(a.data, ListUrl[page])
  BY <1>1, GetGenuine DEF FilesInv, Fetched
<1>6. a.data.servers \in Seq(Names) /\ a.data.pages \in Int /\ a.data.pages <= Len(ListUrl)
  BY <1>4, <1>5, HonestTyped
<1>7. names' \in Seq(Names)
  BY <1>1, <1>6, ConcatProperties DEF ListInv
<1>8. Names \in SUBSET Int
  BY DEF Names
<1>9. FilesInv'
  BY <1>2, <1>5 DEF FilesInv
<1>10. ReportsInv'
  BY <1>1, <1>2 DEF ReportsInv, Running
<1>11. CASE scanPc' = "detail"
  <2>1. page' = page /\ todo' = Capped(names', Cap)
    BY <1>1, <1>2, <1>11
  <2>2. /\ todo' \in Seq(Names) /\ Len(todo') <= Cap
        /\ \A i, j \in 1..Len(todo') : todo'[i] = todo'[j] => i = j
    BY <1>2, <1>7, <1>8, <2>1, CappedTyped
  <2>3. Len(todo') \in Nat
    BY <2>2, LenProperties
  <2>4. ListInv'
    BY <1>2, <1>7, <2>1, <2>2, <2>3 DEF ListInv
  <2>5. CountInv'
    BY <1>2, <1>11, <2>2, <2>3 DEF CountInv, Running
  <2>6. RecsInv'
    BY <1>2, <1>11 DEF RecsInv, CountInv, SmitheryServersDistinct
  <2>. QED  BY <1>9, <1>10, <2>4, <2>5, <2>6
<1>12. CASE scanPc' = "list"
  <2>1. page' = page + 1 /\ todo' = todo /\ page < a.data.pages
    BY <1>1, <1>2, <1>3, <1>6, <1>12 DEF ListInv
  <2>2. page' \in DOMAIN ListUrl
    BY <1>3, <1>6, <2>1 DEF ListInv
  <2>3. ListInv'
    BY <1>7, <2>1, <2>2 DEF ListInv
  <2>4. CountInv'
    BY <1>2, <1>12 DEF CountInv, Running
  <2>5. RecsInv'
    BY <1>2, <1>12 DEF RecsInv, CountInv, SmitheryServersDistinct
  <2>. QED  BY <1>9, <1>10, <2>3, <2>4, <2>5
<1>. QED  BY <1>1, <1>2, <1>11, <1>12

LEMMA ScanDetail ==
  ASSUME ScanAssumption, KeysDistinct, ScanInv, SmitheryDetail
  PROVE  ScanInv'
<1>. USE DEF ScanInv
<1>. DEFINE name == Head(todo)
            url == DetailUrl[name]
<1>1. PICK a \in Get(url) :
        /\ Fetched(a)
        /\ recs' = IF Missed(a) THEN recs
             ELSE Append(recs, TallyServer("smithery", name, a.data.tools))
  BY DEF SmitheryDetail
<1>2. /\ scanPc = "detail" /\ todo # << >> /\ todo' = Tail(todo)
      /\ UNCHANGED <<world, scanPc, scanRun, opts, page, names, glamaN, reports>>
      /\ Cap \in Nat /\ Cap <= MaxServers /\ MaxServers \in Nat /\ Cap' = Cap
  BY CapBounds DEF SmitheryDetail, ScanAssumption, Cap
<1>3. /\ name \in Names /\ todo' \in Seq(Names) /\ Len(todo') = Len(todo) - 1
      /\ \A i \in 1..Len(todo') : todo'[i] = todo[i + 1]
      /\ Len(todo) \in Nat \ {0} /\ name = todo[1]
  BY <1>2, HeadTailProperties, EmptySeq DEF ListInv
<1>4. url \in Urls
  BY <1>3 DEF Names, ScanAssumption, Range
<1>5. Genuine(scanCache') /\ Honest(a.data, url)
  BY <1>1, GetGenuine DEF FilesInv, Fetched
<1>6. FilesInv' /\ ReportsInv'
  BY <1>2, <1>5 DEF FilesInv, ReportsInv, Running
<1>7. ListInv'
  <2>1. \A i \in 1..Len(todo') : i + 1 \in 1..Len(todo)
    BY <1>3
  <2>2. \A i, j \in 1..Len(todo') : todo'[i] = todo'[j] => i = j
    <3>1. ASSUME NEW i \in 1..Len(todo'), NEW j \in 1..Len(todo'), todo'[i] = todo'[j]
          PROVE  i = j
      <4>1. i + 1 = j + 1
        BY <1>3, <2>1, <3>1 DEF ListInv
      <4>. QED  BY <4>1
    <3>. QED  BY <3>1
  <2>. QED  BY <1>2, <1>3, <2>2 DEF ListInv
<1>8. \A i \in 1..Len(todo') : todo'[i] # name
  <2>1. \A i \in 1..Len(todo') : i + 1 \in 1..Len(todo) /\ i + 1 # 1 /\ 1 \in 1..Len(todo)
    BY <1>3
  <2>. QED  BY <1>3, <2>1 DEF ListInv
<1>9. recs \in Seq(Records) /\ Len(recs) \in Nat /\ DOMAIN recs = 1..Len(recs)
  BY LenProperties DEF CountInv
<1>10. CASE Missed(a)
  <2>1. recs' = recs
    BY <1>1, <1>10
  <2>2. CountInv'
    BY <1>2, <1>3, <1>9, <2>1 DEF CountInv, Running
  <2>3. \A i \in 1..Len(todo') : \E j \in 1..Len(todo) : todo'[i] = todo[j]
    BY <1>3
  <2>4. RecsInv'
    BY <1>2, <2>1, <2>3 DEF RecsInv, SmitheryServersDistinct
  <2>. QED  BY <1>6, <1>7, <2>2, <2>4
<1>11. CASE ~Missed(a)
  <2>. DEFINE r == TallyServer("smithery", name, a.data.tools)
              k == Len(recs) + 1
  <2>1. a.data.tools \in Seq(Range(a.data.tools))
    BY <1>5, HonestTyped
  <2>2. /\ r \in Records /\ Smithery(r) /\ r.server = name
        /\ r.substrate <= r.typed /\ r.typed <= r.tools
    BY <1>3, <2>1, TallyTyped DEF Names, Smithery
  <2>3. Told(r)
    <3>1. a.data # Nothing
      BY <1>11 DEF Missed
    <3>2. PICK w \in Worlds : url \in DOMAIN w /\ a.data = w[url]
      BY <1>4, <1>5, <3>1 DEF Honest
    <3>3. r = TallyServer("smithery", name, w[url].tools)
      BY <3>2
    <3>. HIDE DEF r
    <3>. QED  BY <2>2, <3>2, <3>3 DEF Told
  <2>4. recs' = Append(recs, r)
    BY <1>1, <1>11
  <2>. HIDE DEF r
  <2>5. /\ recs' \in Seq(Records) /\ Len(recs') = k /\ recs'[k] = r
        /\ DOMAIN recs' = DOMAIN recs \cup {k} /\ k \notin DOMAIN recs
        /\ \A i \in DOMAIN recs : recs'[i] = recs[i]
    BY <1>9, <2>2, <2>4
  <2>. HIDE DEF k
  <2>6. CountInv'
    <3>1. Len(recs') = Len(recs) + 1
      BY <2>5 DEF k
    <3>. QED  BY <1>2, <1>3, <1>9, <2>5, <3>1 DEF CountInv, Running
  <2>7. \A i \in DOMAIN recs : Smithery(recs[i]) => recs[i].server # name
    <3>1. 1 \in 1..Len(todo)
      BY <1>3
    <3>. QED  BY <1>2, <1>3, <3>1 DEF RecsInv
  <2>8. SmitheryServersDistinct'
    BY <2>2, <2>5, <2>7 DEF RecsInv, SmitheryServersDistinct, Smithery
  <2>9. /\ \A i \in DOMAIN recs' : recs'[i].substrate <= recs'[i].typed /\ recs'[i].typed <= recs'[i].tools
        /\ \A i \in DOMAIN recs' : Told(recs'[i])
    BY <2>2, <2>3, <2>5 DEF RecsInv
  <2>10. \A i \in DOMAIN recs', j \in 1..Len(todo') : Smithery(recs'[i]) => recs'[i].server # todo'[j]
    <3>1. ASSUME NEW i \in DOMAIN recs', NEW j \in 1..Len(todo'), Smithery(recs'[i])
          PROVE  recs'[i].server # todo'[j]
      <4>1. CASE i = k
        BY <1>8, <2>2, <2>5, <4>1
      <4>2. CASE i \in DOMAIN recs
        <5>1. j + 1 \in 1..Len(todo) /\ todo'[j] = todo[j + 1]
          BY <1>3
        <5>. QED  BY <1>2, <2>5, <3>1, <4>2, <5>1 DEF RecsInv
      <4>. QED  BY <2>5, <4>1, <4>2
    <3>. QED  BY <3>1
  <2>11. RecsInv'
    BY <2>8, <2>9, <2>10 DEF RecsInv
  <2>. QED  BY <1>6, <1>7, <2>6, <2>11
<1>. QED  BY <1>10, <1>11

LEMMA ScanGlama ==
  ASSUME ScanAssumption, KeysDistinct, ScanInv, GlamaPage
  PROVE  ScanInv'
<1>. USE DEF ScanInv
<1>1. PICK a \in Get(GlamaUrl[cursor]) :
        LET taken == Taken(a.data.servers)
            all == recs \o [i \in DOMAIN taken |-> TallyServer("glama", taken[i], a.data.tools)]
            stop == GlamaOver(a.data, glamaN + Len(taken))
        IN  /\ Fetched(a)
            /\ recs' = all /\ glamaN' = glamaN + Len(taken)
            /\ scanPc' = IF stop THEN "idle" ELSE scanPc
            /\ reports' = IF stop THEN Append(reports, Summary(all, a.fail, a.net)) ELSE reports
  BY DEF GlamaPage
<1>2. /\ scanPc = "glama" /\ scanPc' \in {"idle", "glama"}
      /\ UNCHANGED <<world, scanRun, opts, page, names, todo>>
      /\ Cap \in Nat /\ Cap <= MaxServers /\ MaxServers \in Nat /\ Cap' = Cap
  BY <1>1, CapBounds DEF GlamaPage, ScanAssumption, Cap
<1>3. Genuine(scanCache') /\ Honest(a.data, GlamaUrl[cursor])
  BY <1>1, GetGenuine DEF FilesInv, Fetched
<1>4. a.data.servers \in Seq(Int) /\ a.data.tools \in Seq(Range(a.data.tools))
  BY <1>3, HonestTyped
<1>. DEFINE taken == Taken(a.data.servers)
            more == [i \in DOMAIN taken |-> TallyServer("glama", taken[i], a.data.tools)]
<1>5. taken \in Seq(Int) /\ Len(taken) \in Nat /\ glamaN + Len(taken) <= Cap
  BY <1>2, <1>4, TakenTyped DEF CountInv, Running
<1>6. recs' = recs \o more /\ glamaN' = glamaN + Len(taken)
  BY <1>1
<1>. HIDE DEF taken
<1>7. DOMAIN taken = 1..Len(taken) /\ \A i \in 1..Len(taken) : taken[i] \in Int
  BY <1>5, LenProperties
<1>8. \A i \in 1..Len(taken) :
        /\ more[i] \in Records /\ more[i].registry = "glama"
        /\ more[i].substrate <= more[i].typed /\ more[i].typed <= more[i].tools
  BY <1>4, <1>7, TallyTyped
<1>9. more \in Seq(Records) /\ Len(more) = Len(taken)
  BY <1>5, <1>7, <1>8
<1>. HIDE DEF more
<1>10. recs \in Seq(Records) /\ Len(recs) \in Nat /\ DOMAIN recs = 1..Len(recs)
  BY LenProperties DEF CountInv
<1>11. /\ recs' \in Seq(Records) /\ Len(recs') = Len(recs) + Len(taken)
       /\ DOMAIN recs' = 1..(Len(recs) + Len(taken))
       /\ \A i \in DOMAIN recs : recs'[i] = recs[i]
       /\ \A i \in DOMAIN recs' \ DOMAIN recs :
            \E j \in 1..Len(taken) : recs'[i] = more[j]
  <2>1. /\ recs' \in Seq(Records) /\ Len(recs') = Len(recs) + Len(taken)
        /\ \A i \in 1..(Len(recs) + Len(taken)) :
             recs'[i] = IF i <= Len(recs) THEN recs[i] ELSE more[i - Len(recs)]
    <3>1. /\ recs \o more \in Seq(Records) /\ Len(recs \o more) = Len(recs) + Len(more)
          /\ \A i \in 1..(Len(recs) + Len(more)) :
               (recs \o more)[i] = IF i <= Len(recs) THEN recs[i] ELSE more[i - Len(recs)]
      BY <1>9, <1>10, ConcatProperties
    <3>. QED  BY <1>6, <1>9, <3>1
  <2>2. DOMAIN recs' = 1..(Len(recs) + Len(taken))
    BY <2>1, LenProperties
  <2>3. ASSUME NEW i \in DOMAIN recs' \ DOMAIN recs
        PROVE  \E j \in 1..Len(taken) : recs'[i] = more[j]
    <3>1. i - Len(recs) \in 1..Len(taken) /\ recs'[i] = more[i - Len(recs)]
      BY <1>5, <1>10, <2>1, <2>2, <2>3
    <3>. QED  BY <3>1
  <2>4. \A i \in DOMAIN recs : recs'[i] = recs[i]
    BY <1>5, <1>10, <2>1
  <2>. QED  BY <2>1, <2>2, <2>3, <2>4
<1>12. \A i \in DOMAIN recs' \ DOMAIN recs :
         /\ ~Smithery(recs'[i])
         /\ recs'[i].substrate <= recs'[i].typed /\ recs'[i].typed <= recs'[i].tools
  BY <1>8, <1>11 DEF Smithery
<1>13. ReportsInv'
  <2>1. PICK S : reports \in Seq(S)
    BY DEF ReportsInv
  <2>2. CASE reports' = reports
    BY <1>2, <2>1, <2>2 DEF ReportsInv, Running
  <2>3. CASE scanPc' = "idle" /\ reports' # reports
    <3>1. PICK r : reports' = Append(reports, r)
      BY <1>1, <2>3
    <3>2. reports' \in Seq(S \cup {r}) /\ Len(reports') = Len(reports) + 1 /\ Len(reports) \in Nat
      BY <2>1, <3>1
    <3>3. Len(reports) < scanRun /\ scanRun \in Nat
      BY <1>2 DEF ReportsInv, Running
    <3>. QED  BY <1>2, <2>3, <3>2, <3>3 DEF ReportsInv, Running
  <2>. QED  BY <1>1, <2>2, <2>3
<1>14. FilesInv' /\ ListInv'
  BY <1>2, <1>3 DEF FilesInv, ListInv
<1>15. CountInv'
  BY <1>2, <1>5, <1>6, <1>10, <1>11 DEF CountInv, Running
<1>16. RecsInv'
  <2>1. SmitheryServersDistinct'
    BY <1>11, <1>12 DEF RecsInv, SmitheryServersDistinct, Smithery
  <2>2. \A i \in DOMAIN recs' :
          /\ recs'[i].substrate <= recs'[i].typed /\ recs'[i].typed <= recs'[i].tools
          /\ Told(recs'[i])
    BY <1>11, <1>12 DEF RecsInv, Told
  <2>. QED  BY <1>2, <2>1, <2>2 DEF RecsInv
<1>. QED  BY <1>13, <1>14, <1>15, <1>16

\* The steps that touch neither what a run holds nor what it has counted.
LEMMA ScanIdle ==
  ASSUME ScanAssumption, ScanInv, world' \in Worlds, Genuine(scanCache'),
         UNCHANGED <<scanRun, opts, page, names, todo, glamaN, recs, reports>>,
         scanPc' = scanPc \/ scanPc' \in {"idle", "dead"}
  PROVE  ScanInv'
<1>. USE DEF ScanInv
<1>1. Cap' = Cap
  BY DEF Cap
<1>2. FilesInv' /\ ListInv'
  BY DEF FilesInv, ListInv
<1>3. ReportsInv' /\ CountInv'
  BY <1>1 DEF ReportsInv, CountInv, Running
<1>4. RecsInv'
  BY DEF RecsInv, SmitheryServersDistinct
<1>. QED  BY <1>2, <1>3, <1>4

LEMMA ScanDone == ASSUME ScanAssumption, ScanInv, DetailsDone PROVE ScanInv'
<1>. USE DEF ScanInv
<1>1. /\ scanPc = "detail" /\ scanPc' = "glama"
      /\ UNCHANGED <<world, scanCache, scanRun, opts, page, names, todo, glamaN, recs, reports>>
  BY DEF DetailsDone, fetcher
<1>2. Cap' = Cap
  BY <1>1 DEF Cap
<1>3. FilesInv' /\ ListInv'
  BY <1>1 DEF FilesInv, ListInv
<1>4. ReportsInv'
  BY <1>1 DEF ReportsInv, Running
<1>5. CountInv'
  <2>1. Len(recs) \in Nat /\ Len(todo) \in Nat /\ Cap \in Nat
    BY LenProperties, CapBounds DEF CountInv, ListInv, ScanAssumption
  <2>. QED  BY <1>1, <1>2, <2>1 DEF CountInv, Running
<1>6. RecsInv'
  BY <1>1 DEF RecsInv, SmitheryServersDistinct
<1>. QED  BY <1>3, <1>4, <1>5, <1>6

LEMMA ScanInvNext ==
  ASSUME ScanAssumption, KeysDistinct, ScanInv, [ScanNext]_scanVars
  PROVE  ScanInv'
<1>1. CASE StartScan           BY <1>1, ScanInvStart
<1>2. CASE SmitheryPage    BY <1>2, ScanPage
<1>3. CASE SmitheryDetail  BY <1>3, ScanDetail
<1>4. CASE DetailsDone     BY <1>4, ScanDone
<1>5. CASE GlamaPage       BY <1>5, ScanGlama
<1>6. CASE DieWriting
  <2>1. \A url : Genuine(Stored(url, Corrupt))
    BY StoredGenuine DEF ScanInv, FilesInv
  <2>2. Genuine(scanCache') /\ scanPc' = "dead" /\ world' \in Worlds
    BY <1>6, <2>1 DEF DieWriting, ScanInv, FilesInv
  <2>. QED  BY <1>6, <2>2, ScanIdle DEF DieWriting
<1>7. CASE Restart         BY <1>7, ScanIdle DEF Restart, fetcher, ScanInv, FilesInv
<1>8. CASE Drift           BY <1>8, ScanIdle DEF Drift, fetcher, ScanInv, FilesInv
<1>9. CASE UNCHANGED scanVars  BY <1>9, ScanIdle DEF scanVars, ScanInv, FilesInv
<1>. QED
  BY <1>1, <1>2, <1>3, <1>4, <1>5, <1>6, <1>7, <1>8, <1>9 DEF ScanNext, ScanStep

-----------------------------------------------------------------------------
(* What follows.                                                           *)

LEMMA PipelineIsUnkeyed ==
  ASSUME NEW f, ClassifyField(f) = "pipeline_set_s"
  PROVE  f.pipe /\ ~f.subj
BY Zenon DEF ClassifyField, DiscreteCall

LEMMA TypesFollow == ASSUME ScanInv PROVE ScanTypeOK
BY DEF ScanInv, ReportsInv, ListInv, CountInv, RecsInv, ScanTypeOK

LEMMA RecordsFollow ==
  ASSUME ScanInv
  PROVE  SmitheryServersDistinct /\ RecordsWerePublished
BY DEF ScanInv, RecsInv, Told, Smithery, RecordsWerePublished

LEMMA AmbiguousFollows == ASSUME RecordsWerePublished PROVE AmbiguousIsOut
<1>1. ASSUME NEW i \in DOMAIN recs, recs[i].registry = "smithery", recs[i].pipeline > 0
      PROVE  \E w \in Worlds : \E f \in Published(w, recs[i].server) : f.pipe /\ ~f.subj
  <2>. DEFINE url == DetailUrl[recs[i].server]
  <2>1. PICK w \in Worlds :
          /\ url \in DOMAIN w
          /\ recs[i] = TallyServer("smithery", recs[i].server, w[url].tools)
    BY <1>1 DEF RecordsWerePublished
  <2>. DEFINE tools == w[url].tools
              Those == {k \in DOMAIN tools : Carries(tools[k], "pipeline_set_s")}
  <2>2. recs[i].pipeline = Cardinality(Those)
    <3>1. TallyServer("smithery", recs[i].server, tools).pipeline = Cardinality(Those)
      BY Tallied
    <3>. QED  BY <2>1, <3>1
  <2>3. Those # {}
    BY <1>1, <2>2, FS_EmptySet
  <2>4. PICK k \in DOMAIN tools : Carries(tools[k], "pipeline_set_s")
    BY <2>3
  <2>5. PICK j \in DOMAIN tools[k] : ClassifyField(tools[k][j]) = "pipeline_set_s"
    BY <2>4 DEF Carries
  <2>6. tools[k][j].pipe /\ ~tools[k][j].subj
    BY <2>5, PipelineIsUnkeyed
  <2>7. tools[k] \in Range(tools) /\ tools[k][j] \in Range(tools[k])
    BY DEF Range
  <2>8. tools[k][j] \in Published(w, recs[i].server)
    BY <2>1, <2>7 DEF Published
  <2>. QED  BY <2>6, <2>8
<1>. QED  BY <1>1 DEF AmbiguousIsOut

\* What run() and per_server_scan report: every record of a server is the tally of what
\* the registry once published for it, none is counted twice, an ambiguous field never
\* counts as one the pipeline sets, the caps are kept, and a complete run can be
\* repeated from the files.
THEOREM ScanTheorem ==
  ASSUME ScanAssumption, KeysDistinct
  PROVE  ScanSpec => []RecordsAreReplayable
<1>1. ScanInit => ScanInv /\ ReplayInv
  BY ScanInvInit, ReplayInit
<1>2. ScanInv /\ ReplayInv /\ [ScanNext]_scanVars => ScanInv' /\ ReplayInv'
  BY ScanInvNext, ReplayNext
<1>3. ScanInv /\ ReplayInv => RecordsAreReplayable
  BY TypesFollow, RecordsFollow, AmbiguousFollows DEF ReplayInv, RecordsAreReplayable
<1>. QED  BY <1>1, <1>2, <1>3, PTL DEF ScanSpec
=============================================================================
