------------------------------ MODULE MCPClient ------------------------------
(***************************************************************************)
(* experiments/e2e/real_harness/mcp_client.py: calls of several threads to *)
(* one MCP server over its stdin and stdout, serialized by _lock, and      *)
(* close(), which does not take it.                                        *)
(*                                                                         *)
(* The server is external: it answers the requests it has read in any      *)
(* order, prints other lines, dies, or is silent.  Lines of its own carry  *)
(* no id of the client's (the client announces no capabilities, so they    *)
(* are notifications).  A payload is the call it answers.                  *)
(***************************************************************************)
EXTENDS Integers, Sequences, SequencesExt

CONSTANTS
  Callers,            \* threads that share the client
  MaxCalls,           \* bound: caller -> its calls
  MaxLines,           \* bound: lines the server prints unasked
  None                \* not a caller

VARIABLES
  lock,     \* who holds _lock, or None
  id,       \* _id
  stdin,    \* requests in the pipe or in the server: records [id, of]
  stdout,   \* lines in the pipe
  alive,    \* the server process runs
  open,     \* proc.stdin is open
  closer,   \* where close() is
  calls,    \* caller -> calls it made
  phase,    \* caller -> "idle", "blocked" on the lock, "notify" (blocked too), "reading"
  want,     \* caller -> its local of that name
  result    \* caller -> [n, got]: how its call number n ended

vars == <<lock, id, stdin, stdout, alive, open, closer, calls, phase, want, result>>
client == <<lock, id, calls, phase, want, result>>

ASSUME ClientAssumption ==
  /\ None \notin Callers
  /\ MaxCalls \in [Callers -> Nat] /\ MaxLines \in Nat

Raised == <<>>                            \* the call ended with an exception
Returned == <<None>>                      \* a notification returns None

Text    == [kind |-> "text"]              \* not JSON, blank, or another message
Scalar  == [kind |-> "scalar"]            \* JSON, but not an object
Answer(kind, req) == [kind |-> kind, id |-> req.id, of |-> req.of]

ThisCall(c) == <<c, calls[c]>>

-----------------------------------------------------------------------------
Init ==
  /\ lock = None /\ id = 0
  /\ stdin = <<>> /\ stdout = <<>>
  /\ alive = TRUE /\ open = TRUE /\ closer = "no"
  /\ calls = [c \in Callers |-> 0]
  /\ phase = [c \in Callers |-> "idle"]
  /\ want = [c \in Callers |-> 0]
  /\ result = [c \in Callers |-> [n |-> 0, got |-> Returned]]

\* list_tools, call_tool, or the notification of initialize.
Call(c) ==
  /\ phase[c] = "idle" /\ calls[c] < MaxCalls[c]
  /\ calls' = [calls EXCEPT ![c] = @ + 1]
  /\ \E p \in {"blocked", "notify"} : phase' = [phase EXCEPT ![c] = p]
  /\ UNCHANGED <<lock, id, stdin, stdout, alive, open, closer, want, result>>

\* The call of c ends and the with statement releases the lock.
End(c, got) ==
  /\ lock' = None
  /\ phase' = [phase EXCEPT ![c] = "idle"]
  /\ result' = [result EXCEPT ![c] = [n |-> calls[c], got |-> got]]

\* Mutant: every request carries the same id.
NextId_Constant == 1

\* Mutant: the counter runs down.
NextId_Down == id - 1

NextId == id + 1

\* _rpc up to the flush; a closed pipe or a dead reader raises.  The id is
\* taken before the write, so it is not used again.
Send(c) ==
  /\ phase[c] = "blocked" /\ lock = None
  /\ id' = NextId
  /\ IF open /\ alive
     THEN /\ lock' = c
          /\ stdin' = Append(stdin, [id |-> NextId, of |-> ThisCall(c)])
          /\ want' = [want EXCEPT ![c] = NextId]
          /\ phase' = [phase EXCEPT ![c] = "reading"]
          /\ UNCHANGED result
     ELSE End(c, Raised) /\ UNCHANGED <<stdin, want>>
  /\ UNCHANGED <<stdout, alive, open, closer, calls>>

\* _rpc with notify: no id, no answer to wait for.
Notify(c) ==
  /\ phase[c] = "notify" /\ lock = None
  /\ End(c, IF open /\ alive THEN Returned ELSE Raised)
  /\ UNCHANGED <<id, stdin, stdout, alive, open, closer, calls, want>>

\* Mutant: the first response is taken whatever its id.
Mine_Any(line, w) == line.kind \in {"result", "error"}

\* Mutant: an error response is not recognized.
Mine_ResultsOnly(line, w) == line.kind = "result" /\ line.id = w

\* resp.get("id") == want
Mine(line, w) == line.kind \in {"result", "error"} /\ line.id = w

\* One turn of the loop: the line ends the call, or is dropped.
Read(c) ==
  LET line == Head(stdout) IN
  /\ phase[c] = "reading" /\ stdout # <<>>
  /\ stdout' = Tail(stdout)
  /\ CASE Mine(line, want[c]) ->
            End(c, IF line.kind = "result" THEN line.of ELSE Raised)
       [] line.kind = "scalar" -> End(c, Raised)
       [] OTHER -> UNCHANGED <<lock, phase, result>>
  /\ UNCHANGED <<id, stdin, alive, open, closer, calls, want>>

\* Mutant: the exception of the last line leaves the lock held.
ReadEOF_KeepsLock(c) ==
  /\ phase[c] = "reading" /\ stdout = <<>> /\ ~alive
  /\ phase' = [phase EXCEPT ![c] = "idle"]
  /\ UNCHANGED <<lock, result, id, stdin, stdout, alive, open, closer, calls, want>>

\* readline returns "" at the end of the output.
ReadEOF(c) ==
  /\ phase[c] = "reading" /\ stdout = <<>> /\ ~alive
  /\ End(c, Raised)
  /\ UNCHANGED <<id, stdin, stdout, alive, open, closer, calls, want>>

-----------------------------------------------------------------------------
(* close(): any exception goes to kill.                                    *)

CloseStdin ==
  /\ closer = "no"
  /\ open' = FALSE
  /\ closer' \in IF alive THEN {"terminate"} ELSE {"terminate", "kill"}
  /\ UNCHANGED <<client, stdin, stdout, alive>>

\* terminate() may be obeyed or not; wait(timeout=10) tells.
Terminate ==
  /\ closer = "terminate"
  /\ closer' = "wait"
  /\ UNCHANGED <<client, stdin, stdout, alive, open>>

Waited ==
  /\ closer = "wait"
  /\ closer' = IF alive THEN "kill" ELSE "closed"
  /\ UNCHANGED <<client, stdin, stdout, alive, open>>

\* Mutant: close() gives up on a server that outlives the wait.
Kill_Skipped ==
  /\ closer = "kill"
  /\ closer' = "closed"
  /\ UNCHANGED <<client, stdin, stdout, alive, open>>

Kill ==
  /\ closer = "kill"
  /\ alive' = FALSE
  /\ closer' = "closed"
  /\ UNCHANGED <<client, stdin, stdout, open>>

-----------------------------------------------------------------------------
(* The server, external.                                                   *)

Serve ==
  /\ alive
  /\ \E i \in DOMAIN stdin, kind \in {"result", "error"} :
       /\ stdout' = Append(stdout, Answer(kind, stdin[i]))
       /\ stdin' = RemoveAt(stdin, i)
  /\ UNCHANGED <<client, alive, open, closer>>

\* Unasked lines, at most MaxLines of them in the pipe.
Chatter ==
  /\ alive
  /\ Len(stdout) < MaxLines
  /\ \E line \in {Text, Scalar} : stdout' = Append(stdout, line)
  /\ UNCHANGED <<client, stdin, alive, open, closer>>

Die ==
  /\ alive
  /\ alive' = FALSE
  /\ UNCHANGED <<client, stdin, stdout, open, closer>>

-----------------------------------------------------------------------------
Close == CloseStdin \/ Terminate \/ Waited \/ Kill
Step(c) == Send(c) \/ Notify(c) \/ Read(c) \/ ReadEOF(c)

Next ==
  \/ \E c \in Callers : Call(c) \/ Send(c) \/ Notify(c) \/ Read(c) \/ ReadEOF(c)
  \/ CloseStdin \/ Terminate \/ Waited \/ Kill
  \/ Serve \/ Chatter \/ Die

\* The threads run, and so does a close() that has begun.  Nothing is assumed
\* of the server.
ClientFairness ==
  /\ \A c \in Callers : WF_vars(Step(c))
  /\ WF_vars(Terminate \/ Waited \/ Kill)

Spec == Init /\ [][Next]_vars /\ ClientFairness

-----------------------------------------------------------------------------
(* Properties.                                                             *)

CallIds == Callers \X Nat
Requests == [id : 1..id, of : CallIds]
Lines == {Text, Scalar} \cup [kind : {"result", "error"}, id : 1..id, of : CallIds]

\* Types of the client's fields, of the pipes and of close().
TypeOK ==
  /\ lock \in Callers \cup {None}
  /\ id \in Nat
  /\ stdin \in Seq(Requests) /\ stdout \in Seq(Lines)
  /\ alive \in BOOLEAN /\ open \in BOOLEAN
  /\ closer \in {"no", "terminate", "wait", "kill", "closed"}
  /\ calls \in [Callers -> Nat]
  /\ phase \in [Callers -> {"idle", "blocked", "notify", "reading"}]
  /\ want \in [Callers -> 0..id]
  /\ result \in [Callers -> [n : Nat, got : {Raised, Returned} \cup CallIds]]

\* A call that returns a value returns the server's answer to itself: not to
\* another thread's call, and not to an earlier call whose exception left its
\* answer behind in the pipe.
OwnAnswer ==
  \A c \in Callers :
    result[c].got \notin {Raised, Returned} => result[c].got = <<c, result[c].n>>

\* No answer a call waits for is dropped: while it reads, its request is still
\* with the server, or the answer is in the pipe, or the server died with it.
AnswerInFlight ==
  \A c \in Callers :
    phase[c] = "reading" =>
      \/ \E i \in DOMAIN stdin : stdin[i] = [id |-> want[c], of |-> ThisCall(c)]
      \/ \E i \in DOMAIN stdout :
           stdout[i] \in {Answer(k, [id |-> want[c], of |-> ThisCall(c)]) : k \in {"result", "error"}}
      \/ ~alive

\* A server that goes on answering what it has read keeps no caller for ever,
\* whatever else it prints, and whether or not it dies or is closed.
CallsEnd ==
  WF_vars(Serve) => \A c \in Callers : phase[c] # "idle" ~> phase[c] = "idle"

\* close() needs neither the lock nor the server's help: it frees the thread
\* that is blocked in readline, and through it the threads blocked on the lock.
CloseReleases ==
  \A c \in Callers : closer # "no" /\ phase[c] # "idle" ~> phase[c] = "idle"

\* _rpc pairs requests and answers: what a call waits for is still to come or
\* lost with the server, and what it returns is the answer to itself.
AnswersMatched == OwnAnswer /\ AnswerInFlight
=============================================================================
