--------------------------- MODULE MCPClientProofs ---------------------------
(***************************************************************************)
(* What MCPClient promises, for any number of threads and calls.  The lock *)
(* makes the reader the only one that sends and reads; the growing id      *)
(* makes everything that carries its id its own.                           *)
(***************************************************************************)
EXTENDS MCPClient, TLAPS

\* Only the holder of the lock reads.
LockInv == \A c \in Callers : phase[c] = "reading" => lock = c

\* What carries the id a reader waits for is the reader's.
Owned(entry, c) == entry.id = want[c] => entry.of = ThisCall(c)
OwnInv ==
  \A c \in Callers : phase[c] = "reading" =>
    /\ \A i \in DOMAIN stdin : Owned(stdin[i], c)
    /\ \A i \in DOMAIN stdout : stdout[i].kind \in {"result", "error"} => Owned(stdout[i], c)

IInv == TypeOK /\ LockInv /\ OwnInv /\ OwnAnswer /\ AnswerInFlight

-----------------------------------------------------------------------------
(* Sequences.                                                              *)

LEMMA SeqMonotonic ==
  ASSUME NEW S, NEW T, S \subseteq T, NEW s \in Seq(S)
  PROVE  s \in Seq(T)
  OBVIOUS

LEMMA AppendElems ==
  ASSUME NEW S, NEW s \in Seq(S), NEW e \in S
  PROVE  /\ Append(s, e) \in Seq(S)
         /\ DOMAIN Append(s, e) = DOMAIN s \cup {Len(s) + 1}
         /\ \A i \in DOMAIN s : Append(s, e)[i] = s[i]
         /\ Append(s, e)[Len(s) + 1] = e
  OBVIOUS

LEMMA TailElems ==
  ASSUME NEW S, NEW s \in Seq(S), s # <<>>
  PROVE  /\ Tail(s) \in Seq(S)
         /\ Head(s) = s[1] /\ Head(s) \in S
         /\ \A i \in DOMAIN Tail(s) : i + 1 \in DOMAIN s /\ Tail(s)[i] = s[i + 1]
         /\ \A i \in DOMAIN s : i # 1 => i - 1 \in DOMAIN Tail(s) /\ Tail(s)[i - 1] = s[i]
  OBVIOUS

LEMMA RemoveAtElems ==
  ASSUME NEW S, NEW s \in Seq(S), NEW i \in DOMAIN s
  PROVE  /\ RemoveAt(s, i) \in Seq(S)
         /\ \A k \in DOMAIN RemoveAt(s, i) : \E j \in DOMAIN s : RemoveAt(s, i)[k] = s[j]
         /\ \A j \in DOMAIN s : j # i => \E k \in DOMAIN RemoveAt(s, i) : RemoveAt(s, i)[k] = s[j]
  <1> DEFINE a == SubSeq(s, 1, i - 1)
             b == SubSeq(s, i + 1, Len(s))
  <1>1. a \in Seq(S) /\ Len(a) = i - 1 /\ \A k \in 1..(i - 1) : a[k] = s[k]
    OBVIOUS
  <1>2. b \in Seq(S) /\ Len(b) = Len(s) - i /\ \A k \in 1..(Len(s) - i) : b[k] = s[k + i]
    OBVIOUS
  <1>3. RemoveAt(s, i) = a \o b
    BY DEF RemoveAt
  <1> HIDE DEF a, b
  <1>4. /\ a \o b \in Seq(S)
        /\ Len(a \o b) = Len(s) - 1
        /\ \A k \in 1..(i - 1) : (a \o b)[k] = s[k]
        /\ \A k \in i..(Len(s) - 1) : (a \o b)[k] = s[k + 1]
    BY <1>1, <1>2
  <1>5. \A k \in 1..(Len(s) - 1) : \E j \in DOMAIN s : (a \o b)[k] = s[j]
    <2>1. \A k \in 1..(i - 1) : k \in DOMAIN s
      OBVIOUS
    <2>2. \A k \in i..(Len(s) - 1) : k + 1 \in DOMAIN s
      OBVIOUS
    <2>3. \A k \in 1..(Len(s) - 1) : k \in 1..(i - 1) \/ k \in i..(Len(s) - 1)
      OBVIOUS
    <2>. QED
      BY <1>4, <2>1, <2>2, <2>3
  <1>6. \A j \in DOMAIN s : j # i => \E k \in 1..(Len(s) - 1) : (a \o b)[k] = s[j]
    <2> SUFFICES ASSUME NEW j \in DOMAIN s, j # i
                 PROVE  \E k \in 1..(Len(s) - 1) : (a \o b)[k] = s[j]
      OBVIOUS
    <2>1. CASE j < i
      <3>1. j \in 1..(i - 1) /\ j \in 1..(Len(s) - 1)
        BY <2>1
      <3>2. (a \o b)[j] = s[j]
        BY <1>4, <3>1
      <3>. QED
        BY <3>1, <3>2
    <2>2. CASE j > i
      <3>1. j - 1 \in i..(Len(s) - 1) /\ j - 1 \in 1..(Len(s) - 1)
        BY <2>2
      <3>2. (a \o b)[j - 1] = s[(j - 1) + 1]
        BY <1>4, <3>1
      <3>3. (j - 1) + 1 = j
        OBVIOUS
      <3>. QED
        BY <3>1, <3>2, <3>3
    <2>3. j < i \/ j > i
      OBVIOUS
    <2>. QED
      BY <2>1, <2>2, <2>3
  <1>7. DOMAIN (a \o b) = 1..(Len(s) - 1)
    BY <1>4
  <1>. QED
    BY <1>3, <1>4, <1>5, <1>6, <1>7

-----------------------------------------------------------------------------
(* Typing.                                                                 *)

LEMMA InitType == Init => TypeOK
  BY ClientAssumption DEF Init, TypeOK, Requests, Lines, Returned, Raised

LEMMA CallType == TypeOK => \A c \in Callers : ThisCall(c) \in CallIds
  BY DEF TypeOK, ThisCall, CallIds

LEMMA EndType ==
  ASSUME TypeOK, NEW c \in Callers, NEW got \in {Raised, Returned} \cup CallIds, End(c, got)
  PROVE  /\ lock' \in Callers \cup {None}
         /\ phase' \in [Callers -> {"idle", "blocked", "notify", "reading"}]
         /\ result' \in [Callers -> [n : Nat, got : {Raised, Returned} \cup CallIds]]
  BY DEF TypeOK, End

LEMMA NextType == TypeOK /\ [Next]_vars => TypeOK'
  <1> SUFFICES ASSUME TypeOK, [Next]_vars
               PROVE  TypeOK'
    OBVIOUS
  <1>1. ASSUME NEW c \in Callers, Call(c) PROVE TypeOK'
    BY <1>1 DEF TypeOK, Call, Requests, Lines
  <1>2. ASSUME NEW c \in Callers, Send(c) PROVE TypeOK'
    <2>1. id' = id + 1 /\ id' \in Nat
      BY <1>2 DEF Send, NextId, TypeOK
    <2>2. Requests \subseteq Requests' /\ Lines \subseteq Lines'
      BY <2>1 DEF Requests, Lines, TypeOK
    <2>3. stdin \in Seq(Requests') /\ stdout \in Seq(Lines')
      BY <2>2, SeqMonotonic DEF TypeOK
    <2>4. [id |-> id', of |-> ThisCall(c)] \in Requests'
      <3>1. id' \in 1..id'
        BY <2>1 DEF TypeOK
      <3>. QED
        BY <3>1, CallType DEF Requests, CallIds
    <2>5. want \in [Callers -> 0..id']
      BY <2>1 DEF TypeOK
    <2>6. stdout' = stdout /\ alive' = alive /\ open' = open /\ closer' = closer /\ calls' = calls
      BY <1>2 DEF Send
    <2>7. CASE open /\ alive
      <3>1. /\ lock' = c /\ UNCHANGED result
            /\ stdin' = Append(stdin, [id |-> id', of |-> ThisCall(c)])
            /\ want' = [want EXCEPT ![c] = id']
            /\ phase' = [phase EXCEPT ![c] = "reading"]
        BY <1>2, <2>7 DEF Send
      <3>2. stdin' \in Seq(Requests')
        BY <2>3, <2>4, <3>1, AppendElems
      <3>3. want' \in [Callers -> 0..id']
        BY <2>1, <2>5, <3>1
      <3>4. phase' \in [Callers -> {"idle", "blocked", "notify", "reading"}]
        BY <3>1 DEF TypeOK
      <3>. QED
        BY <2>1, <2>3, <2>6, <3>1, <3>2, <3>3, <3>4 DEF TypeOK, CallIds
    <2>8. CASE ~(open /\ alive)
      <3>1. End(c, Raised) /\ UNCHANGED <<stdin, want>>
        BY <1>2, <2>8 DEF Send
      <3>. QED
        BY <2>1, <2>3, <2>5, <2>6, <3>1, EndType DEF TypeOK, CallIds
    <2>. QED
      BY <2>7, <2>8
  <1>3. ASSUME NEW c \in Callers, Notify(c) PROVE TypeOK'
    <2>1. PICK got \in {Raised, Returned} : End(c, got)
      BY <1>3 DEF Notify
    <2>. QED
      BY <1>3, <2>1, EndType DEF TypeOK, Notify, Requests, Lines, CallIds
  <1>4. ASSUME NEW c \in Callers, Read(c) PROVE TypeOK'
    <2>1. Tail(stdout) \in Seq(Lines) /\ Head(stdout) \in Lines
      BY <1>4, TailElems DEF Read, TypeOK
    <2>2. stdout' \in Seq(Lines')
      BY <1>4, <2>1 DEF Read, Lines, CallIds
    <2>3. \/ \E got \in {Raised, Returned} \cup CallIds : End(c, got)
          \/ UNCHANGED <<lock, phase, result>>
      <3>1. CASE Mine(Head(stdout), want[c])
        <4>1. Head(stdout).of \in CallIds
          BY <2>1, <3>1 DEF Mine, Lines, Text, Scalar
        <4>2. End(c, IF Head(stdout).kind = "result" THEN Head(stdout).of ELSE Raised)
          BY <1>4, <3>1 DEF Read, Mine
        <4>. QED
          BY <4>1, <4>2
      <3>2. CASE ~Mine(Head(stdout), want[c]) /\ Head(stdout).kind = "scalar"
        BY <1>4, <3>2 DEF Read
      <3>3. CASE ~Mine(Head(stdout), want[c]) /\ Head(stdout).kind # "scalar"
        BY <1>4, <3>3 DEF Read
      <3>. QED
        BY <3>1, <3>2, <3>3
    <2>. QED
      BY <1>4, <2>2, <2>3, EndType DEF TypeOK, Read, Requests, CallIds
  <1>5. ASSUME NEW c \in Callers, ReadEOF(c) PROVE TypeOK'
    BY <1>5, EndType DEF TypeOK, ReadEOF, Requests, Lines, CallIds
  <1>6. ASSUME CloseStdin \/ Terminate \/ Waited \/ Kill \/ Die PROVE TypeOK'
    BY <1>6 DEF TypeOK, CloseStdin, Terminate, Waited, Kill, Die, client, Requests, Lines, CallIds
  <1>7. ASSUME Serve PROVE TypeOK'
    <2>1. PICK i \in DOMAIN stdin, kind \in {"result", "error"} :
            /\ stdout' = Append(stdout, Answer(kind, stdin[i]))
            /\ stdin' = RemoveAt(stdin, i)
      BY <1>7 DEF Serve
    <2>2. stdin[i] \in Requests
      BY <2>1 DEF TypeOK
    <2>3. Answer(kind, stdin[i]) \in Lines
      BY <2>1, <2>2 DEF Answer, Requests, Lines
    <2>4. stdin' \in Seq(Requests) /\ stdout' \in Seq(Lines)
      BY <2>1, <2>3, RemoveAtElems, AppendElems DEF TypeOK
    <2>. QED
      BY <1>7, <2>4 DEF TypeOK, Serve, client, Requests, Lines, CallIds
  <1>8. ASSUME Chatter PROVE TypeOK'
    <2>1. PICK line \in {Text, Scalar} : stdout' = Append(stdout, line)
      BY <1>8 DEF Chatter
    <2>2. stdout' \in Seq(Lines)
      BY <2>1, AppendElems DEF TypeOK, Lines
    <2>. QED
      BY <1>8, <2>2 DEF TypeOK, Chatter, client, Requests, Lines, CallIds
  <1>9. ASSUME UNCHANGED vars PROVE TypeOK'
    BY <1>9 DEF TypeOK, vars, Requests, Lines, CallIds
  <1>. QED
    BY <1>1, <1>2, <1>3, <1>4, <1>5, <1>6, <1>7, <1>8, <1>9 DEF Next

-----------------------------------------------------------------------------
(* The invariant, action by action.                                        *)

LEMMA InitInv == Init => IInv
  BY InitType DEF Init, IInv, LockInv, OwnInv, OwnAnswer, AnswerInFlight

\* A reader that the step leaves alone: it keeps its call and its id.
Undisturbed(c) ==
  /\ phase[c] = "reading" /\ phase'[c] = "reading"
  /\ want'[c] = want[c] /\ calls'[c] = calls[c]

InFlight(c) ==
  \/ \E i \in DOMAIN stdin : stdin[i] = [id |-> want[c], of |-> ThisCall(c)]
  \/ \E i \in DOMAIN stdout :
       stdout[i] \in {Answer(k, [id |-> want[c], of |-> ThisCall(c)]) : k \in {"result", "error"}}
  \/ ~alive

OwnedBy(c) ==
  /\ \A i \in DOMAIN stdin : Owned(stdin[i], c)
  /\ \A i \in DOMAIN stdout : stdout[i].kind \in {"result", "error"} => Owned(stdout[i], c)

LEMMA InvParts ==
  /\ OwnInv <=> \A c \in Callers : phase[c] = "reading" => OwnedBy(c)
  /\ AnswerInFlight <=> \A c \in Callers : phase[c] = "reading" => InFlight(c)
  BY DEF OwnInv, OwnedBy, AnswerInFlight, InFlight

\* Nobody reads when the lock is free.
LEMMA NoReader ==
  ASSUME IInv, lock = None
  PROVE  \A c \in Callers : phase[c] # "reading"
  BY ClientAssumption DEF IInv, LockInv

LEMMA CallStep ==
  ASSUME IInv, NEW d \in Callers, Call(d)
  PROVE  LockInv' /\ OwnInv' /\ OwnAnswer' /\ AnswerInFlight'
  <1>1. \A c \in Callers : phase'[c] = "reading" =>
          /\ phase[c] = "reading" /\ ThisCall(c)' = ThisCall(c)
    BY DEF Call, IInv, TypeOK, ThisCall
  <1>2. UNCHANGED <<lock, stdin, stdout, alive, want, result>>
    BY DEF Call
  <1>. QED
    BY <1>1, <1>2 DEF IInv, LockInv, OwnInv, Owned, OwnAnswer, AnswerInFlight

LEMMA EndStep ==
  ASSUME IInv, NEW d \in Callers, NEW got, End(d, got), UNCHANGED calls,
         got \notin {Raised, Returned} => got = ThisCall(d),
         \A c \in Callers : phase[c] = "reading" => c = d
  PROVE  LockInv' /\ OwnInv' /\ OwnAnswer' /\ AnswerInFlight'
  <1>1. \A c \in Callers : phase'[c] # "reading"
    BY DEF End, IInv, TypeOK
  <1>2. OwnAnswer'
    <2> SUFFICES ASSUME NEW c \in Callers, result'[c].got \notin {Raised', Returned'}
                 PROVE  result'[c].got = <<c, result'[c].n>>
      BY DEF OwnAnswer
    <2>1. CASE c = d
      BY <2>1 DEF End, IInv, TypeOK, ThisCall, Raised, Returned
    <2>2. CASE c # d
      BY <2>2 DEF End, IInv, TypeOK, OwnAnswer, Raised, Returned
    <2>. QED
      BY <2>1, <2>2
  <1>. QED
    BY <1>1, <1>2 DEF LockInv, OwnInv, AnswerInFlight

LEMMA SendStep ==
  ASSUME IInv, NEW d \in Callers, Send(d)
  PROVE  LockInv' /\ OwnInv' /\ OwnAnswer' /\ AnswerInFlight'
  <1>1. lock = None /\ \A c \in Callers : phase[c] # "reading"
    BY NoReader DEF Send
  <1>2. CASE ~(open /\ alive)
    BY <1>1, <1>2, EndStep DEF Send
  <1>3. CASE open /\ alive
    <2> DEFINE req == [id |-> id + 1, of |-> ThisCall(d)]
    <2>1. /\ lock' = d
          /\ stdin' = Append(stdin, req) /\ stdout' = stdout
          /\ want' = [want EXCEPT ![d] = id + 1]
          /\ phase' = [phase EXCEPT ![d] = "reading"]
          /\ calls' = calls /\ result' = result
      BY <1>3 DEF Send, NextId
    <2>2. want'[d] = id + 1 /\ ThisCall(d)' = ThisCall(d)
      BY <2>1 DEF IInv, TypeOK, ThisCall
    <2>3. \A c \in Callers : phase'[c] = "reading" => c = d
      BY <1>1, <2>1 DEF IInv, TypeOK
    <2>4. /\ DOMAIN stdin' = DOMAIN stdin \cup {Len(stdin) + 1}
          /\ \A i \in DOMAIN stdin : stdin'[i] = stdin[i]
          /\ stdin'[Len(stdin) + 1] = req
      <3>1. req \in [id : Nat, of : CallIds]
        BY CallType DEF IInv, TypeOK
      <3>2. stdin \in Seq([id : Nat, of : CallIds])
        <4>1. Requests \subseteq [id : Nat, of : CallIds]
          BY DEF Requests, IInv, TypeOK
        <4>. QED
          BY <4>1, SeqMonotonic DEF IInv, TypeOK
      <3>. QED
        BY <2>1, <3>1, <3>2, AppendElems
    <2>5. \A i \in DOMAIN stdin : stdin[i].id # id + 1
      <3>1. \A i \in DOMAIN stdin : stdin[i] \in Requests
        BY DEF IInv, TypeOK
      <3>2. \A i \in DOMAIN stdin : stdin[i].id \in 1..id
        BY <3>1 DEF Requests
      <3>. QED
        BY <3>2 DEF IInv, TypeOK
    <2>6. \A i \in DOMAIN stdout : stdout[i].kind \in {"result", "error"} => stdout[i].id # id + 1
      <3> SUFFICES ASSUME NEW i \in DOMAIN stdout, stdout[i].kind \in {"result", "error"}
                   PROVE  stdout[i].id # id + 1
        OBVIOUS
      <3>1. stdout[i] \in Lines
        BY DEF IInv, TypeOK
      <3>2. stdout[i].id \in 1..id
        BY <3>1 DEF Lines, Text, Scalar
      <3>. QED
        BY <3>2 DEF IInv, TypeOK
    <2>7. OwnedBy(d)'
      <3>1. \A i \in DOMAIN stdin' : Owned(stdin[i], d)'
        BY <2>2, <2>4, <2>5 DEF Owned
      <3>2. \A i \in DOMAIN stdout' : stdout'[i].kind \in {"result", "error"} => Owned(stdout[i], d)'
        BY <2>1, <2>2, <2>6 DEF Owned
      <3>. QED
        BY <3>1, <3>2 DEF OwnedBy
    <2>8. InFlight(d)'
      BY <2>2, <2>4 DEF InFlight
    <2>9. LockInv' /\ OwnAnswer'
      BY <2>1, <2>3 DEF LockInv, OwnAnswer, IInv, Raised, Returned
    <2>. QED
      BY <2>3, <2>7, <2>8, <2>9 DEF OwnInv, OwnedBy, AnswerInFlight, InFlight
  <1>. QED
    BY <1>2, <1>3

LEMMA ReadStep ==
  ASSUME IInv, NEW d \in Callers, Read(d)
  PROVE  LockInv' /\ OwnInv' /\ OwnAnswer' /\ AnswerInFlight'
  <1> DEFINE line == Head(stdout)
  <1>1. \A c \in Callers : phase[c] = "reading" => c = d
    BY DEF Read, IInv, LockInv
  <1>2. UNCHANGED <<stdin, alive, calls, want>> /\ phase[d] = "reading" /\ stdout # <<>>
    BY DEF Read
  <1>3. /\ stdout' = Tail(stdout)
        /\ line = stdout[1] /\ 1 \in DOMAIN stdout
        /\ \A i \in DOMAIN stdout' : i + 1 \in DOMAIN stdout /\ stdout'[i] = stdout[i + 1]
        /\ \A i \in DOMAIN stdout : i # 1 => i - 1 \in DOMAIN stdout' /\ stdout'[i - 1] = stdout[i]
    BY TailElems DEF Read, IInv, TypeOK
  <1>4. CASE Mine(line, want[d])
    <2>1. line.of = ThisCall(d)
      BY <1>2, <1>3, <1>4 DEF IInv, OwnInv, Owned, Mine
    <2>2. End(d, IF line.kind = "result" THEN line.of ELSE Raised)
      BY <1>4 DEF Read, Mine
    <2>3. CASE line.kind = "result"
      BY <1>1, <1>2, <2>1, <2>2, <2>3, EndStep
    <2>4. CASE line.kind # "result"
      BY <1>1, <1>2, <2>2, <2>4, EndStep
    <2>. QED
      BY <2>3, <2>4
  <1>5. CASE ~Mine(line, want[d]) /\ line.kind = "scalar"
    <2>1. End(d, Raised)
      BY <1>5 DEF Read
    <2>. QED
      BY <1>1, <1>2, <2>1, EndStep
  <1>6. CASE ~Mine(line, want[d]) /\ line.kind # "scalar"
    <2>1. UNCHANGED <<lock, phase, result>>
      BY <1>6 DEF Read
    <2>2. LockInv' /\ OwnAnswer'
      BY <2>1 DEF LockInv, OwnAnswer, IInv, Raised, Returned
    <2>3. ThisCall(d)' = ThisCall(d)
      BY <1>2 DEF ThisCall
    <2>4. OwnedBy(d)'
      <3>1. OwnedBy(d)
        BY <1>2 DEF IInv, OwnInv, OwnedBy
      <3>. QED
        BY <1>2, <1>3, <2>3, <3>1 DEF OwnedBy, Owned
    <2>5. InFlight(d)'
      <3>1. InFlight(d)
        BY <1>2 DEF IInv, AnswerInFlight, InFlight
      <3>2. CASE \E i \in DOMAIN stdin : stdin[i] = [id |-> want[d], of |-> ThisCall(d)]
        BY <1>2, <2>3, <3>2 DEF InFlight
      <3>3. CASE \E i \in DOMAIN stdout :
              stdout[i] \in {Answer(k, [id |-> want[d], of |-> ThisCall(d)]) : k \in {"result", "error"}}
        <4>1. PICK i \in DOMAIN stdout, k \in {"result", "error"} :
                stdout[i] = Answer(k, [id |-> want[d], of |-> ThisCall(d)])
          BY <3>3
        <4>2. i # 1
          BY <1>3, <1>6, <4>1 DEF Answer, Mine
        <4>3. i - 1 \in DOMAIN stdout' /\ stdout'[i - 1] = stdout[i]
          BY <1>3, <4>2
        <4>. QED
          BY <1>2, <2>3, <4>1, <4>3 DEF InFlight, Answer
      <3>4. CASE ~alive
        BY <1>2, <3>4 DEF InFlight
      <3>. QED
        BY <3>1, <3>2, <3>3, <3>4 DEF InFlight
    <2>6. \A c \in Callers : phase'[c] = "reading" => c = d
      BY <1>1, <2>1
    <2>. QED
      BY <2>2, <2>4, <2>5, <2>6 DEF OwnInv, OwnedBy, AnswerInFlight, InFlight
  <1>. QED
    BY <1>4, <1>5, <1>6

\* A step of the server or of close() leaves the client as it is.
LEMMA ServerStep ==
  ASSUME IInv, UNCHANGED client,
         \A c \in Callers : phase[c] = "reading" /\ OwnedBy(c) /\ InFlight(c) => OwnedBy(c)' /\ InFlight(c)'
  PROVE  LockInv' /\ OwnInv' /\ OwnAnswer' /\ AnswerInFlight'
  <1>1. UNCHANGED <<lock, calls, phase, want, result>>
    BY DEF client
  <1>2. LockInv' /\ OwnAnswer'
    BY <1>1 DEF LockInv, OwnAnswer, IInv, Raised, Returned
  <1>3. \A c \in Callers : phase'[c] = "reading" => OwnedBy(c)' /\ InFlight(c)'
    BY <1>1, InvParts DEF IInv
  <1>. QED
    BY <1>2, <1>3 DEF OwnInv, OwnedBy, AnswerInFlight, InFlight

LEMMA ServeStep ==
  ASSUME IInv, Serve
  PROVE  LockInv' /\ OwnInv' /\ OwnAnswer' /\ AnswerInFlight'
  <1>1. PICK j \in DOMAIN stdin, kind \in {"result", "error"} :
          /\ stdout' = Append(stdout, Answer(kind, stdin[j]))
          /\ stdin' = RemoveAt(stdin, j)
    BY DEF Serve
  <1>2. UNCHANGED <<lock, id, calls, phase, want, result>> /\ UNCHANGED client /\ alive' = alive
    BY DEF Serve, client
  <1>3. Answer(kind, stdin[j]) \in Lines
    <2>1. stdin[j] \in Requests
      BY DEF IInv, TypeOK
    <2>. QED
      BY <2>1 DEF Answer, Requests, Lines
  <1>4. /\ DOMAIN stdout' = DOMAIN stdout \cup {Len(stdout) + 1}
        /\ \A i \in DOMAIN stdout : stdout'[i] = stdout[i]
        /\ stdout'[Len(stdout) + 1] = Answer(kind, stdin[j])
    BY <1>1, <1>3, AppendElems DEF IInv, TypeOK
  <1>5. /\ \A k \in DOMAIN stdin' : \E i \in DOMAIN stdin : stdin'[k] = stdin[i]
        /\ \A i \in DOMAIN stdin : i # j => \E k \in DOMAIN stdin' : stdin'[k] = stdin[i]
    BY <1>1, RemoveAtElems DEF IInv, TypeOK
  <1> SUFFICES ASSUME NEW c \in Callers, phase[c] = "reading", OwnedBy(c), InFlight(c)
               PROVE  OwnedBy(c)' /\ InFlight(c)'
    BY <1>2, ServerStep
  <1>6. want'[c] = want[c] /\ ThisCall(c)' = ThisCall(c)
    BY <1>2 DEF ThisCall
  <1>7. OwnedBy(c)'
    <2>1. \A k \in DOMAIN stdin' : Owned(stdin[k], c)'
      BY <1>5, <1>6 DEF OwnedBy, Owned
    <2>2. \A k \in DOMAIN stdout' : stdout'[k].kind \in {"result", "error"} => Owned(stdout[k], c)'
      BY <1>4, <1>6 DEF OwnedBy, Owned, Answer
    <2>. QED
      BY <2>1, <2>2 DEF OwnedBy
  <1>8. InFlight(c)'
    <2>1. CASE \E i \in DOMAIN stdin : stdin[i] = [id |-> want[c], of |-> ThisCall(c)]
      <3>1. PICK i \in DOMAIN stdin : stdin[i] = [id |-> want[c], of |-> ThisCall(c)]
        BY <2>1
      <3>2. CASE i = j
        BY <1>4, <1>6, <3>1, <3>2 DEF InFlight, Answer
      <3>3. CASE i # j
        BY <1>5, <1>6, <3>1, <3>3 DEF InFlight
      <3>. QED
        BY <3>2, <3>3
    <2>2. CASE \E i \in DOMAIN stdout :
            stdout[i] \in {Answer(k, [id |-> want[c], of |-> ThisCall(c)]) : k \in {"result", "error"}}
      BY <1>4, <1>6, <2>2 DEF InFlight, Answer
    <2>3. CASE ~alive
      BY <1>2, <2>3 DEF InFlight
    <2>. QED
      BY <2>1, <2>2, <2>3 DEF InFlight
  <1>. QED
    BY <1>7, <1>8

LEMMA ChatterStep ==
  ASSUME IInv, Chatter
  PROVE  LockInv' /\ OwnInv' /\ OwnAnswer' /\ AnswerInFlight'
  <1>1. PICK line \in {Text, Scalar} : stdout' = Append(stdout, line)
    BY DEF Chatter
  <1>2. UNCHANGED <<lock, id, calls, phase, want, result>> /\ UNCHANGED client /\ UNCHANGED <<stdin, alive>>
    BY DEF Chatter, client
  <1>3. /\ DOMAIN stdout' = DOMAIN stdout \cup {Len(stdout) + 1}
        /\ \A i \in DOMAIN stdout : stdout'[i] = stdout[i]
        /\ stdout'[Len(stdout) + 1] = line
    BY <1>1, AppendElems DEF IInv, TypeOK, Lines
  <1> SUFFICES ASSUME NEW c \in Callers, phase[c] = "reading", OwnedBy(c), InFlight(c)
               PROVE  OwnedBy(c)' /\ InFlight(c)'
    BY <1>2, ServerStep
  <1>4. want'[c] = want[c] /\ ThisCall(c)' = ThisCall(c)
    BY <1>2 DEF ThisCall
  <1>5. line.kind \notin {"result", "error"}
    BY DEF Text, Scalar
  <1>6. OwnedBy(c)'
    BY <1>2, <1>3, <1>4, <1>5 DEF OwnedBy, Owned
  <1>7. InFlight(c)'
    BY <1>2, <1>3, <1>4 DEF InFlight, Answer
  <1>. QED
    BY <1>6, <1>7

LEMMA NextInv == IInv /\ [Next]_vars => IInv'
  <1> SUFFICES ASSUME IInv, [Next]_vars
               PROVE  IInv'
    OBVIOUS
  <1> DEFINE Goal == LockInv' /\ OwnInv' /\ OwnAnswer' /\ AnswerInFlight'
  <1>1. TypeOK'
    BY NextType DEF IInv
  <1>2. ASSUME NEW d \in Callers, Notify(d) PROVE Goal
    <2>1. PICK got \in {Raised, Returned} : End(d, got)
      BY <1>2 DEF Notify
    <2>. QED
      BY <1>2, <2>1, NoReader, EndStep DEF Notify
  <1>3. ASSUME NEW d \in Callers, ReadEOF(d) PROVE Goal
    <2>1. \A c \in Callers : phase[c] = "reading" => c = d
      BY <1>3 DEF ReadEOF, IInv, LockInv
    <2>. QED
      BY <1>3, <2>1, EndStep DEF ReadEOF
  <1>4. ASSUME CloseStdin \/ Terminate \/ Waited \/ Kill \/ Die PROVE Goal
    <2>1. UNCHANGED <<stdin, stdout, calls, want>> /\ UNCHANGED client /\ (~alive => ~alive')
      BY <1>4 DEF CloseStdin, Terminate, Waited, Kill, Die, client
    <2> SUFFICES ASSUME NEW c \in Callers, phase[c] = "reading", OwnedBy(c), InFlight(c)
                 PROVE  OwnedBy(c)' /\ InFlight(c)'
      BY <2>1, ServerStep
    <2>. QED
      BY <2>1 DEF OwnedBy, Owned, InFlight, ThisCall
  <1>5. ASSUME UNCHANGED vars PROVE Goal
    BY <1>5 DEF vars, IInv, LockInv, OwnInv, Owned, ThisCall, OwnAnswer, AnswerInFlight, Raised, Returned
  <1>6. Goal
    BY <1>2, <1>3, <1>4, <1>5, CallStep, SendStep, ReadStep, ServeStep, ChatterStep DEF Next
  <1>. QED
    BY <1>1, <1>6 DEF IInv

LEMMA Invariance == Spec => []IInv
  BY InitInv, NextInv, PTL DEF Spec

-----------------------------------------------------------------------------
(* Type correctness of _rpc and close().                                   *)
THEOREM TypeCorrect == Spec => []TypeOK
  <1>1. IInv => TypeOK
    BY DEF IInv
  <1>. QED
    BY <1>1, Invariance, PTL

(* _rpc returns to each call the server's answer to that call, whatever     *)
(* the other threads, earlier exceptions, close() and the server do.        *)
THEOREM AnswersOwn == Spec => []OwnAnswer
  <1>1. IInv => OwnAnswer
    BY DEF IInv
  <1>. QED
    BY <1>1, Invariance, PTL

(* _rpc drops no line that carries the answer its call waits for.           *)
THEOREM AnswersKept == Spec => []AnswerInFlight
  <1>1. IInv => AnswerInFlight
    BY DEF IInv
  <1>. QED
    BY <1>1, Invariance, PTL

(* The property the run checks: _rpc pairs every call with its own answer.  *)
THEOREM AnswersPaired == Spec => []AnswersMatched
  BY AnswersOwn, AnswersKept, PTL DEF AnswersMatched
=============================================================================
