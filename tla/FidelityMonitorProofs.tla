----------------------- MODULE FidelityMonitorProofs -----------------------
(***************************************************************************)
(* The fidelity monitor's guarantees, for every set of logs, every label   *)
(* delay, window, threshold and injection index.                           *)
(*                                                                         *)
(* The properties speak of sets of decisions, the loop of two sequences.   *)
(* The first part relates the two: InOrder(S) enumerates a finite set of   *)
(* decisions by rank, grows at its end when a later decision is added, and *)
(* an initial segment of S is enumerated by a prefix of it.                *)
(*                                                                         *)
(* The last part is about AuditStopping, whose labels mature through the   *)
(* same pair of queues: its published bounds are read twice over by two    *)
(* searches, and the proof turns each search into the place where an       *)
(* online automaton changes its mode.                                      *)
(***************************************************************************)
EXTENDS FidelityMonitor, AuditStopping, FiniteSetTheorems, SequenceTheorems, TLAPS

\* The position of i in S, counted from 0.
Below(S, i) == {j \in S : j < i}
Rank(S, i) == Cardinality(Below(S, i))

LEMMA RankTyped ==
  ASSUME NEW S \in SUBSET Nat, IsFiniteSet(S), NEW i \in S
  PROVE  /\ IsFiniteSet(Below(S, i))
         /\ Rank(S, i) \in 0..(Cardinality(S) - 1)
<1>1. IsFiniteSet(S \ {i}) /\ Cardinality(S \ {i}) = Cardinality(S) - 1
  BY FS_RemoveElement
<1>2. Below(S, i) \in SUBSET (S \ {i})
  BY DEF Below
<1>3. IsFiniteSet(Below(S, i)) /\ Cardinality(Below(S, i)) <= Cardinality(S \ {i})
  BY <1>1, <1>2, FS_Subset
<1>4. Cardinality(Below(S, i)) \in Nat /\ Cardinality(S) \in Nat
  BY <1>3, FS_CardinalityType
<1>. QED  BY <1>1, <1>3, <1>4 DEF Rank

LEMMA RankMonotone ==
  ASSUME NEW S \in SUBSET Nat, IsFiniteSet(S), NEW i \in S, NEW j \in S, i < j
  PROVE  Rank(S, i) < Rank(S, j)
<1>1. IsFiniteSet(Below(S, i)) /\ IsFiniteSet(Below(S, j))
  BY RankTyped
<1>2. i \notin Below(S, i)
  BY DEF Below
<1>3. /\ IsFiniteSet(Below(S, i) \cup {i})
      /\ Cardinality(Below(S, i) \cup {i}) = Cardinality(Below(S, i)) + 1
  BY <1>1, <1>2, FS_AddElement
<1>4. Below(S, i) \cup {i} \in SUBSET Below(S, j)
  <2>1. i \in Nat /\ j \in Nat /\ \A k \in S : k \in Nat
    OBVIOUS
  <2>2. \A k \in S : k < i => k < j
    BY <2>1
  <2>. QED  BY <2>2 DEF Below
<1>5. Cardinality(Below(S, i) \cup {i}) <= Cardinality(Below(S, j))
  BY <1>1, <1>4, FS_Subset
<1>6. Cardinality(Below(S, i)) \in Nat /\ Cardinality(Below(S, j)) \in Nat
  BY <1>1, FS_CardinalityType
<1>. QED  BY <1>3, <1>5, <1>6 DEF Rank

\* Distinct elements have distinct ranks, and every rank is taken.
LEMMA RankBijective ==
  ASSUME NEW S \in SUBSET Nat, IsFiniteSet(S)
  PROVE  /\ \A i, j \in S : Rank(S, i) = Rank(S, j) => i = j
         /\ \A r \in 0..(Cardinality(S) - 1) : \E i \in S : Rank(S, i) = r
<1>1. \A i, j \in S : Rank(S, i) = Rank(S, j) => i = j
  <2>1. SUFFICES ASSUME NEW i \in S, NEW j \in S, Rank(S, i) = Rank(S, j), i # j
                 PROVE  FALSE
    OBVIOUS
  <2>2. Rank(S, i) \in Int /\ Rank(S, j) \in Int
    BY RankTyped
  <2>3. CASE i < j  BY <2>1, <2>2, <2>3, RankMonotone
  <2>4. CASE j < i  BY <2>1, <2>2, <2>4, RankMonotone
  <2>. QED  BY <2>1, <2>3, <2>4
<1>2. \A r \in 0..(Cardinality(S) - 1) : \E i \in S : Rank(S, i) = r
  <2>. DEFINE f == [i \in S |-> Rank(S, i)]
              R == 0..(Cardinality(S) - 1)
  <2>1. Cardinality(S) \in Nat
    BY FS_CardinalityType
  <2>2. IsFiniteSet(R) /\ Cardinality(R) = Cardinality(S)
    <3>. DEFINE c == Cardinality(S)
    <3>1. 0 \in Int /\ c - 1 \in Int /\ c \in Nat
      BY <2>1
    <3>. HIDE DEF c
    <3>2. IsFiniteSet(0..(c - 1)) /\ Cardinality(0..(c - 1)) = c
      BY <3>1, FS_Interval
    <3>. QED  BY <3>2 DEF c
  <2>3. f \in Injection(S, R)
    <3>1. f \in [S -> R]  BY RankTyped
    <3>. QED  BY <3>1, <1>1 DEF Injection, IsInjective
  <2>4. f \in Surjection(S, R)
    <3>. HIDE DEF f, R
    <3>. QED  BY <2>2, <2>3, FS_Injection
  <2>. QED  BY <2>4 DEF Surjection
<1>. QED  BY <1>1, <1>2

\* InOrder(S) at n is the element of rank n - 1, and the only one.
LEMMA InOrderAt ==
  ASSUME NEW S \in SUBSET Nat, IsFiniteSet(S), NEW n \in 1..Cardinality(S)
  PROVE  InOrder(S)[n] \in S /\ Rank(S, InOrder(S)[n]) = n - 1
<1>1. Cardinality(S) \in Nat
  BY FS_CardinalityType
<1>2. n - 1 \in 0..(Cardinality(S) - 1)
  BY <1>1
<1>3. \E i \in S : Rank(S, i) = n - 1
  BY <1>2, RankBijective
<1>4. InOrder(S)[n] = CHOOSE i \in S : Rank(S, i) = n - 1
  BY DEF InOrder, Rank, Below
<1>. QED  BY <1>3, <1>4

LEMMA InOrderUnique ==
  ASSUME NEW S \in SUBSET Nat, IsFiniteSet(S), NEW i \in S
  PROVE  /\ Rank(S, i) + 1 \in 1..Cardinality(S)
         /\ InOrder(S)[Rank(S, i) + 1] = i
<1>1. Cardinality(S) \in Nat /\ Rank(S, i) \in 0..(Cardinality(S) - 1)
  BY FS_CardinalityType, RankTyped
<1>. DEFINE n == Rank(S, i) + 1
<1>2. n \in 1..Cardinality(S) /\ n - 1 = Rank(S, i)
  BY <1>1
<1>3. InOrder(S)[n] \in S /\ Rank(S, InOrder(S)[n]) = n - 1
  <2>. HIDE DEF n
  <2>. QED  BY <1>2, InOrderAt
<1>4. InOrder(S)[n] = i
  <2>1. \A j, k \in S : Rank(S, j) = Rank(S, k) => j = k
    BY RankBijective
  <2>. HIDE DEF n
  <2>. QED  BY <1>2, <1>3, <2>1
<1>. QED  BY <1>2, <1>4

\* A later element goes to the end of the enumeration.
LEMMA InOrderGrows ==
  ASSUME NEW S \in SUBSET Nat, IsFiniteSet(S), NEW m \in Nat, \A j \in S : j < m
  PROVE  /\ IsFiniteSet(S \cup {m})
         /\ Cardinality(S \cup {m}) = Cardinality(S) + 1
         /\ \A n \in 1..Cardinality(S) : InOrder(S \cup {m})[n] = InOrder(S)[n]
         /\ InOrder(S \cup {m})[Cardinality(S) + 1] = m
<1>. DEFINE T == S \cup {m}
<1>1. m \notin S
  <2>1. \A j \in S : j # m  OBVIOUS
  <2>. QED  BY <2>1
<1>2. IsFiniteSet(T) /\ Cardinality(T) = Cardinality(S) + 1
  BY <1>1, FS_AddElement
<1>3. Cardinality(S) \in Nat
  BY FS_CardinalityType
<1>4. T \in SUBSET Nat
  OBVIOUS
<1>5. Below(T, m) = S
  <2>1. ~(m < m)
    OBVIOUS
  <2>. QED  BY <2>1 DEF Below
<1>6. \A i \in S : Below(T, i) = Below(S, i)
  <2>1. \A i \in S : ~(m < i)
    OBVIOUS
  <2>. QED  BY <2>1 DEF Below
<1>. HIDE DEF T
<1>7. ASSUME NEW n \in 1..Cardinality(S)
      PROVE  InOrder(T)[n] = InOrder(S)[n]
  <2>. DEFINE i == InOrder(S)[n]
  <2>1. i \in S /\ Rank(S, i) = n - 1
    BY InOrderAt
  <2>2. i \in T
    BY <2>1 DEF T
  <2>. HIDE DEF i
  <2>3. Rank(T, i) + 1 = n
    <3>1. Rank(T, i) = n - 1
      BY <2>1, <1>6 DEF Rank
    <3>. QED  BY <3>1, <1>3
  <2>4. InOrder(T)[Rank(T, i) + 1] = i
    BY <1>2, <1>4, <2>2, InOrderUnique
  <2>. QED  BY <2>3, <2>4 DEF i
<1>8. InOrder(T)[Cardinality(S) + 1] = m
  <2>1. m \in T
    BY DEF T
  <2>2. Rank(T, m) = Cardinality(S)
    BY <1>5 DEF Rank
  <2>3. InOrder(T)[Rank(T, m) + 1] = m
    BY <1>2, <1>4, <2>1, InOrderUnique
  <2>. QED  BY <2>2, <2>3
<1>. QED  BY <1>2, <1>7, <1>8 DEF T

\* An initial segment is enumerated by a prefix.
LEMMA InOrderInitial ==
  ASSUME NEW S \in SUBSET Nat, IsFiniteSet(S), NEW K \in SUBSET S,
         \A i \in K : \A j \in S : j < i => j \in K
  PROVE  /\ IsFiniteSet(K) /\ Cardinality(K) \in 0..Cardinality(S)
         /\ \A n \in 1..Cardinality(S) : InOrder(S)[n] \in K <=> n <= Cardinality(K)
         /\ \A n \in 1..Cardinality(K) : InOrder(K)[n] = InOrder(S)[n]
<1>1. IsFiniteSet(K) /\ Cardinality(K) <= Cardinality(S)
  BY FS_Subset
<1>2. Cardinality(K) \in Nat /\ Cardinality(S) \in Nat
  BY <1>1, FS_CardinalityType
<1>3. K \in SUBSET Nat
  OBVIOUS
<1>4. \A i \in K : Rank(K, i) = Rank(S, i)
  BY DEF Rank, Below
<1>5. ASSUME NEW n \in 1..Cardinality(K)
      PROVE  InOrder(K)[n] = InOrder(S)[n] /\ InOrder(S)[n] \in K
  <2>. DEFINE i == InOrder(K)[n]
  <2>1. i \in K /\ Rank(K, i) = n - 1
    BY <1>1, <1>3, InOrderAt
  <2>. HIDE DEF i
  <2>2. i \in S /\ Rank(S, i) + 1 = n
    <3>1. i \in S /\ Rank(S, i) = n - 1
      BY <2>1, <1>4
    <3>. QED  BY <3>1, <1>2
  <2>3. InOrder(S)[Rank(S, i) + 1] = i
    BY <2>2, InOrderUnique
  <2>4. InOrder(S)[n] = i
    BY <2>2, <2>3
  <2>. QED  BY <2>1, <2>4 DEF i
<1>6. ASSUME NEW n \in 1..Cardinality(S), InOrder(S)[n] \in K
      PROVE  n <= Cardinality(K)
  <2>. DEFINE i == InOrder(S)[n]
  <2>1. Rank(S, i) = n - 1
    BY InOrderAt
  <2>2. Rank(K, i) = n - 1
    BY <1>4, <1>6, <2>1
  <2>3. Rank(K, i) \in 0..(Cardinality(K) - 1)
    <3>1. i \in K  BY <1>6
    <3>. HIDE DEF i
    <3>. QED  BY <3>1, <1>1, <1>3, RankTyped
  <2>. HIDE DEF i
  <2>. QED  BY <1>2, <2>2, <2>3
<1>7. ASSUME NEW n \in 1..Cardinality(S), n <= Cardinality(K)
      PROVE  InOrder(S)[n] \in K
  BY <1>2, <1>5, <1>7
<1>. QED  BY <1>1, <1>2, <1>5, <1>6, <1>7

\* What comes after the n-th element.
LEMMA AboveRank ==
  ASSUME NEW S \in SUBSET Nat, IsFiniteSet(S), NEW i \in S
  PROVE  Cardinality({k \in S : k > i}) = Cardinality(S) - 1 - Rank(S, i)
<1>. DEFINE A == {k \in S : k > i}
            B == Below(S, i)
<1>1. IsFiniteSet(S \ {i}) /\ Cardinality(S \ {i}) = Cardinality(S) - 1
  BY FS_RemoveElement
<1>2. IsFiniteSet(A) /\ IsFiniteSet(B)
  <2>1. A \in SUBSET S /\ B \in SUBSET S
    BY DEF Below
  <2>. QED  BY <2>1, FS_Subset
<1>3. A \cup B = S \ {i}
  <2>1. \A k \in S : (k > i \/ k < i) <=> k # i
    OBVIOUS
  <2>. QED  BY <2>1 DEF Below
<1>4. A \cap B = {}
  <2>1. \A k \in S : ~(k > i /\ k < i)
    OBVIOUS
  <2>. QED  BY <2>1 DEF Below
<1>5. Cardinality(A \cup B) = Cardinality(A) + Cardinality(B) - Cardinality(A \cap B)
  <2>. HIDE DEF A, B
  <2>. QED  BY <1>2, FS_Union
<1>6. Cardinality(A \cap B) = 0
  BY <1>4, FS_EmptySet
<1>7. Cardinality(A) \in Nat /\ Cardinality(B) \in Nat /\ Cardinality(S) \in Nat
  BY <1>2, FS_CardinalityType
<1>8. Cardinality(S \ {i}) = Cardinality(A) + Cardinality(B) - Cardinality(A \cap B)
  BY <1>3, <1>5
<1>. HIDE DEF A, B
<1>9. Cardinality(A) = Cardinality(S) - 1 - Cardinality(B)
  BY <1>1, <1>6, <1>7, <1>8
<1>. QED  BY <1>9 DEF A, B, Rank

-----------------------------------------------------------------------------
(* The two windows of the loop count what the declarative rule counts.     *)

LEMMA Slice ==
  ASSUME NEW T, NEW s \in Seq(T), NEW u \in Nat, NEW v \in Nat, u <= v, v <= Len(s)
  PROVE  /\ SubSeq(s, u + 1, v) \in Seq(T)
         /\ Len(SubSeq(s, u + 1, v)) = v - u
         /\ \A i \in 1..(v - u) : SubSeq(s, u + 1, v)[i] = s[u + i]
<1>1. u + 1 \in Int /\ v \in Int /\ \A i \in (u + 1)..v : i \in 1..Len(s)
  OBVIOUS
<1>2. \A i \in (u + 1)..v : s[i] \in T
  BY <1>1
<1>. DEFINE w == u + 1
<1>3. /\ SubSeq(s, w, v) \in Seq(T)
      /\ Len(SubSeq(s, w, v)) = IF w <= v THEN v - w + 1 ELSE 0
      /\ \A i \in 1..(v - w + 1) : SubSeq(s, w, v)[i] = s[w + i - 1]
  <2>1. w \in Int /\ \A i \in w..v : s[i] \in T
    BY <1>1, <1>2
  <2>. HIDE DEF w
  <2>. QED  BY <1>1, <2>1, SubSeqProperties
<1>4. v - w + 1 = v - u /\ \A i \in 1..(v - u) : w + i - 1 = u + i
  OBVIOUS
<1>5. (IF w <= v THEN v - w + 1 ELSE 0) = v - u
  OBVIOUS
<1>. QED  BY <1>3, <1>4, <1>5

\* m lists the outcomes of K in order.
Lists(m, K) ==
  /\ m \in Seq({0, 1}) /\ Len(m) = Cardinality(K)
  /\ \A n \in 1..Len(m) : m[n] = log[InOrder(K)[n]].fraud

\* The frauds of K with a to b - 1 younger members of K.
Windowed(K, a, b) ==
  Cardinality({i \in K : /\ log[i].fraud = 1
                         /\ Cardinality({k \in K : k > i}) \in a..(b - 1)})

\* Entries a to b - 1 from the end of a sequence that lists the outcomes of K hold
\* the frauds with that many younger members of K.
LEMMA WindowFrauds ==
  ASSUME NEW K \in SUBSET Nat, IsFiniteSet(K),
         NEW m, Lists(m, K), NEW a \in Nat, NEW b \in Nat, a <= b, b <= Len(m)
  PROVE  Frauds(SubSeq(m, Len(m) - b + 1, Len(m) - a)) = Windowed(K, a, b)
<1>. DEFINE c == Len(m)
            sub == SubSeq(m, c - b + 1, c - a)
            P == {p \in DOMAIN sub : sub[p] = 1}
            G == {i \in K : /\ log[i].fraud = 1
                            /\ Cardinality({k \in K : k > i}) \in a..(b - 1)}
            g == [p \in P |-> InOrder(K)[c - b + p]]
<1>0. /\ m \in Seq({0, 1}) /\ Len(m) = Cardinality(K)
      /\ \A n \in 1..Len(m) : m[n] = log[InOrder(K)[n]].fraud
  BY DEF Lists
<1>1. c \in Nat /\ c = Cardinality(K) /\ b <= c
  BY <1>0
<1>2. DOMAIN sub = 1..(b - a) /\ \A p \in 1..(b - a) : sub[p] = m[c - b + p]
  <2>. DEFINE u == c - b
              v == c - a
  <2>1. u \in Nat /\ v \in Nat /\ u <= v /\ v <= Len(m) /\ v - u = b - a
    BY <1>1
  <2>. HIDE DEF u, v
  <2>2. /\ Len(SubSeq(m, u + 1, v)) = v - u
        /\ DOMAIN SubSeq(m, u + 1, v) = 1..(v - u)
        /\ \A p \in 1..(v - u) : SubSeq(m, u + 1, v)[p] = m[u + p]
    <3>. DEFINE T == {0, 1}
                part == SubSeq(m, u + 1, v)
    <3>1. m \in Seq(T)
      BY <1>0
    <3>. HIDE DEF T
    <3>2. part \in Seq(T) /\ Len(part) = v - u /\ \A p \in 1..(v - u) : part[p] = m[u + p]
      BY <2>1, <3>1, Slice
    <3>. HIDE DEF part
    <3>3. DOMAIN part = 1..Len(part)
      BY <3>2
    <3>. QED  BY <3>2, <3>3 DEF part
  <2>. QED  BY <2>1, <2>2 DEF u, v
<1>. HIDE DEF sub, c
<1>3. \A p \in 1..(b - a) : c - b + p \in 1..Cardinality(K)
  BY <1>1
<1>4. ASSUME NEW p \in 1..(b - a)
      PROVE  /\ InOrder(K)[c - b + p] \in K
             /\ Rank(K, InOrder(K)[c - b + p]) = c - b + p - 1
             /\ Cardinality({k \in K : k > InOrder(K)[c - b + p]}) = b - p
             /\ log[InOrder(K)[c - b + p]].fraud = sub[p]
  <2>. DEFINE i == InOrder(K)[c - b + p]
  <2>1. i \in K /\ Rank(K, i) = c - b + p - 1
    <3>1. \A n \in 1..Cardinality(K) : InOrder(K)[n] \in K /\ Rank(K, InOrder(K)[n]) = n - 1
      BY InOrderAt
    <3>2. c - b + p \in 1..Cardinality(K) /\ (c - b + p) - 1 = c - b + p - 1
      BY <1>1, <1>3
    <3>. QED  BY <3>1, <3>2
  <2>2. log[i].fraud = sub[p]
    <3>1. Len(m) = c
      BY DEF c
    <3>. QED  BY <1>0, <1>1, <1>2, <1>3, <3>1
  <2>. HIDE DEF i
  <2>3. Cardinality({k \in K : k > i}) = Cardinality(K) - 1 - Rank(K, i)
    BY <2>1, AboveRank
  <2>4. Cardinality({k \in K : k > i}) = b - p
    BY <1>1, <2>1, <2>3
  <2>. QED  BY <2>1, <2>2, <2>4 DEF i
<1>5. P = {p \in 1..(b - a) : sub[p] = 1}
  BY <1>2
<1>6. \A p \in P : p \in 1..(b - a) /\ sub[p] = 1
  BY <1>5
<1>7. g \in [P -> G]
  <2>1. ASSUME NEW p \in P  PROVE InOrder(K)[c - b + p] \in G
    <3>1. b - p \in a..(b - 1)  BY <1>6
    <3>. QED  BY <3>1, <1>4, <1>6
  <2>. HIDE DEF P, G
  <2>. QED  BY <2>1
<1>8. ASSUME NEW p \in P, NEW q \in P, g[p] = g[q]
      PROVE  p = q
  <2>1. c - b + p - 1 = c - b + q - 1
    <3>1. InOrder(K)[c - b + p] = InOrder(K)[c - b + q]
      BY <1>8
    <3>. QED  BY <3>1, <1>4, <1>6
  <2>. QED  BY <2>1, <1>1, <1>6
<1>9. ASSUME NEW i \in G
      PROVE  \E p \in P : g[p] = i
  <2>. DEFINE y == Cardinality({k \in K : k > i})
              p == b - y
  <2>1. y \in a..(b - 1) /\ i \in K /\ log[i].fraud = 1
    OBVIOUS
  <2>2. y = Cardinality(K) - 1 - Rank(K, i) /\ Rank(K, i) \in Int
    BY <2>1, AboveRank, RankTyped
  <2>3. InOrder(K)[Rank(K, i) + 1] = i
    BY <2>1, InOrderUnique
  <2>. HIDE DEF y
  <2>4. p \in 1..(b - a) /\ c - b + p = Rank(K, i) + 1
    <3>. DEFINE r == Rank(K, i)
    <3>1. /\ y \in a..(b - 1) /\ y = c - 1 - r /\ r \in Int
          /\ a \in Nat /\ b \in Nat /\ c \in Nat
      BY <1>1, <2>1, <2>2
    <3>. HIDE DEF r
    <3>2. p \in 1..(b - a) /\ c - b + p = r + 1
      BY <3>1
    <3>. QED  BY <3>2 DEF r
  <2>. HIDE DEF p
  <2>5. InOrder(K)[c - b + p] = i
    BY <2>3, <2>4
  <2>6. sub[p] = 1
    BY <1>4, <2>1, <2>4, <2>5
  <2>7. p \in P
    BY <1>5, <2>4, <2>6
  <2>. HIDE DEF P
  <2>. QED  BY <2>5, <2>7
<1>10. g \in Bijection(P, G)
  <2>. HIDE DEF g, P, G
  <2>. QED  BY <1>7, <1>8, <1>9 DEF Bijection, Injection, IsInjective, Surjection
<1>11. IsFiniteSet(P)
  <2>1. IsFiniteSet(1..(b - a))
    <3>1. 1 \in Int /\ b - a \in Int  OBVIOUS
    <3>. QED  BY <3>1, FS_Interval
  <2>2. P \in SUBSET (1..(b - a))
    BY <1>5
  <2>. HIDE DEF P
  <2>. QED  BY <2>1, <2>2, FS_Subset
<1>12. Cardinality(P) = Cardinality(G)
  <2>. HIDE DEF g, P, G
  <2>1. ExistsBijection(P, G)
    BY <1>10 DEF ExistsBijection
  <2>. QED  BY <1>11, <2>1, FS_Bijection
<1>. QED  BY <1>12 DEF Frauds, Windowed, sub, c

-----------------------------------------------------------------------------
(* The log, the decisions it allows and the audits known at a decision.    *)

LEMMA LogFacts ==
  ASSUME TypeOK
  PROVE  /\ Len(log) \in Nat /\ DOMAIN log = 1..Len(log)
         /\ \A i \in 1..Len(log) : /\ log[i].dt \in Nat
                                   /\ log[i].cert_allow \in BOOLEAN
                                   /\ log[i].fraud \in {0, 1}
         /\ \A i, j \in 1..Len(log) : i <= j => log[i].dt <= log[j].dt
         /\ delta \in Nat \ {0}
         /\ idx \in Nat /\ idx <= Len(log)
<1>1. log \in Seq([dt : Nat, cert_allow : BOOLEAN, fraud : {0, 1}])
  BY LogAssumption DEF TypeOK
<1>2. Len(log) \in Nat /\ DOMAIN log = 1..Len(log)
  BY <1>1
<1>3. \A i \in 1..Len(log) : log[i] \in [dt : Nat, cert_allow : BOOLEAN, fraud : {0, 1}]
  <2>. DEFINE R == [dt : Nat, cert_allow : BOOLEAN, fraud : {0, 1}]
  <2>1. log \in Seq(R)  BY <1>1
  <2>. HIDE DEF R
  <2>2. \A i \in 1..Len(log) : log[i] \in R  BY <2>1
  <2>. QED  BY <2>2 DEF R
<1>4. \A i, j \in DOMAIN log : i <= j => log[i].dt <= log[j].dt
  BY LogAssumption DEF TypeOK
<1>5. delta \in Nat \ {0}
  BY MonitorAssumption DEF TypeOK
<1>6. idx \in Nat /\ idx <= Len(log)
  BY <1>2 DEF TypeOK
<1>. QED  BY <1>2, <1>3, <1>4, <1>5, <1>6

LEMMA AllowedFinite ==
  ASSUME NEW j \in Nat
  PROVE  AllowedBefore(j) \in SUBSET Nat /\ IsFiniteSet(AllowedBefore(j))
<1>1. IsFiniteSet(1..(j - 1))
  <2>1. 1 \in Int /\ j - 1 \in Int  OBVIOUS
  <2>. QED  BY <2>1, FS_Interval
<1>2. AllowedBefore(j) \in SUBSET (1..(j - 1))
  BY DEF AllowedBefore
<1>3. IsFiniteSet(AllowedBefore(j))
  BY <1>1, <1>2, FS_Subset
<1>. QED  BY <1>2, <1>3

\* The audits known at decision j are an initial segment of the decisions allowed
\* before it, and of those allowed up to it: j's own label is still to come.
LEMMA KnownInitial ==
  ASSUME TypeOK, NEW j \in 1..Len(log), NEW a \in {j, j + 1}
  PROVE  /\ KnownAt(j) \in SUBSET AllowedBefore(a)
         /\ \A i \in AllowedBefore(a) : i \in KnownAt(j) <=> log[i].dt + delta <= log[j].dt
         /\ \A i \in KnownAt(j) : \A k \in AllowedBefore(a) : k < i => k \in KnownAt(j)
<1>. USE LogFacts
<1>1. \A i \in AllowedBefore(a) : i \in 1..Len(log) /\ i <= j
  BY DEF AllowedBefore
<1>2. \A i \in KnownAt(j) : i \in AllowedBefore(a) /\ log[i].dt + delta <= log[j].dt
  BY DEF KnownAt, AllowedBefore
<1>3. ASSUME NEW i \in AllowedBefore(a), log[i].dt + delta <= log[j].dt
      PROVE  i \in KnownAt(j)
  <2>1. i # j
    <3>1. log[i].dt \in Nat /\ delta \in Nat \ {0}
      BY <1>1
    <3>. QED  BY <3>1, <1>3
  <2>2. i \in 1..(j - 1)
    BY <1>1, <2>1
  <2>3. log[i].cert_allow
    BY DEF AllowedBefore
  <2>. QED  BY <1>3, <2>2, <2>3 DEF KnownAt, AllowedBefore
<1>4. ASSUME NEW i \in KnownAt(j), NEW k \in AllowedBefore(a), k < i
      PROVE  k \in KnownAt(j)
  <2>1. i \in 1..Len(log) /\ k \in 1..Len(log) /\ log[i].dt + delta <= log[j].dt
    BY <1>1, <1>2
  <2>2. log[k].dt <= log[i].dt
    BY <1>4, <2>1
  <2>3. log[k].dt + delta <= log[j].dt
    BY <2>1, <2>2
  <2>. QED  BY <1>3, <2>3
<1>. QED  BY <1>2, <1>3, <1>4

\* A label that has arrived stays known.
LEMMA KnownGrows ==
  ASSUME TypeOK, NEW j \in 1..Len(log), j + 1 \in 1..Len(log)
  PROVE  KnownAt(j) \in SUBSET KnownAt(j + 1)
<1>1. log[j].dt \in Nat /\ log[j + 1].dt \in Nat /\ log[j].dt <= log[j + 1].dt /\ delta \in Nat
  BY LogFacts
<1>2. ASSUME NEW i \in KnownAt(j)
      PROVE  i \in KnownAt(j + 1)
  <2>1. i \in 1..(j - 1) /\ log[i].cert_allow /\ log[i].dt + delta <= log[j].dt
    BY DEF KnownAt, AllowedBefore
  <2>2. i \in 1..((j + 1) - 1) /\ log[i].dt \in Nat
    BY <2>1, LogFacts
  <2>3. log[i].dt + delta <= log[j + 1].dt
    BY <1>1, <2>1, <2>2
  <2>. QED  BY <2>1, <2>2, <2>3 DEF KnownAt, AllowedBefore
<1>. QED  BY <1>2

\* The inner loop stops where it should: at the last of the due audits.
LEMMA DuePrefixIs ==
  ASSUME NEW p, Len(p) \in Nat, NEW now, NEW k \in 0..Len(p),
         \A n \in 1..Len(p) : p[n].due <= now <=> n <= k
  PROVE  DuePrefix(p, now) = k
<1>. DEFINE D == {x \in 0..Len(p) : \A i \in 1..x : p[i].due <= now}
<1>1. k \in D
  OBVIOUS
<1>2. ASSUME NEW x \in D
      PROVE  k >= x
  <2>1. SUFFICES ASSUME x > k  PROVE FALSE
    OBVIOUS
  <2>2. x \in 1..Len(p) /\ x \in 1..x
    BY <2>1
  <2>3. p[x].due <= now
    BY <2>2
  <2>. QED  BY <2>1, <2>2, <2>3
<1>3. \A x \in D : x \in Int
  OBVIOUS
<1>. HIDE DEF D
<1>4. \A x \in D : (\A y \in D : x >= y) <=> x = k
  BY <1>1, <1>2, <1>3
<1>5. Max(D) = k
  BY <1>1, <1>4 DEF Max
<1>. QED  BY <1>5 DEF DuePrefix, D

-----------------------------------------------------------------------------
(* The inductive invariant.                                                *)

Allowed == AllowedBefore(idx + 1)

\* Decisions whose inner loop has run: an alarm stops the turn half way.
Seen == IF alarm.raised THEN idx + 1 ELSE idx

\* The two queues together enumerate the allowed decisions; the cut between
\* them is at the last one known.
QueueInv ==
  /\ Len(matured) + Len(pending) = Cardinality(Allowed)
  /\ \A n \in 1..Len(matured) : matured[n] = log[InOrder(Allowed)[n]].fraud
  /\ \A n \in 1..Len(pending) :
       LET i == InOrder(Allowed)[Len(matured) + n]
       IN  pending[n] = [due |-> log[i].dt + delta, fraud |-> log[i].fraud]
  /\ Len(matured) = IF Seen = 0 THEN 0 ELSE Cardinality(KnownAt(Seen))

\* The alarm dict describes the turn it stopped.
AlarmInv ==
  \/ alarm = NoAlarm
  \/ /\ alarm = [raised |-> TRUE, alarm_decision_idx |-> idx,
                 cum_at_alarm |-> cum, calib_done_idx |-> calib]
     /\ idx < Len(log)

CountInv == cum = total_cert_allowed_frauds(log, 0, idx)

IInv ==
  /\ TypeOK /\ QueueInv /\ AlarmInv /\ CountInv
  /\ AlarmsAtFirstCrossing /\ CalibrationMarksWarmUp

LEMMA QueueTypes ==
  ASSUME TypeOK
  PROVE  /\ Len(matured) \in Nat /\ Len(pending) \in Nat
         /\ \A n \in 1..Len(matured) : matured[n] \in {0, 1}
         /\ \A n \in 1..Len(pending) : pending[n].due \in Nat /\ pending[n].fraud \in {0, 1}
<1>. DEFINE A == [due : Nat, fraud : {0, 1}]
<1>1. matured \in Seq({0, 1}) /\ pending \in Seq(A)
  BY DEF TypeOK
<1>2. \A r \in A : r.due \in Nat /\ r.fraud \in {0, 1}
  OBVIOUS
<1>. HIDE DEF A
<1>3. \A n \in 1..Len(pending) : pending[n] \in A
  BY <1>1
<1>. QED  BY <1>1, <1>2, <1>3

LEMMA OutcomesTyped ==
  ASSUME NEW p \in Seq([due : Nat, fraud : {0, 1}])
  PROVE  /\ Outcomes(p) \in Seq({0, 1}) /\ Len(Outcomes(p)) = Len(p)
         /\ \A n \in 1..Len(p) : Outcomes(p)[n] = p[n].fraud
<1>. DEFINE A == [due : Nat, fraud : {0, 1}]
<1>1. p \in Seq(A) /\ \A r \in A : r.fraud \in {0, 1}
  OBVIOUS
<1>. HIDE DEF A
<1>2. Len(p) \in Nat /\ DOMAIN p = 1..Len(p) /\ \A n \in 1..Len(p) : p[n] \in A
  BY <1>1
<1>3. Outcomes(p) = [n \in 1..Len(p) |-> p[n].fraud]
  BY <1>2 DEF Outcomes
<1>4. \A n \in 1..Len(p) : p[n].fraud \in {0, 1}
  BY <1>1, <1>2
<1>. QED  BY <1>2, <1>3, <1>4

-----------------------------------------------------------------------------
(* One turn of the loop up to the alarm test: what has matured is what is  *)
(* known at this decision, whatever the turn does next.                    *)

Popped == DuePrefix(pending, log[idx + 1].dt)
NowMatured == matured \o Outcomes(SubSeq(pending, 1, Popped))
StillPending == SubSeq(pending, Popped + 1, Len(pending))

LEMMA TurnPops ==
  ASSUME TypeOK, QueueInv, ~alarm.raised, idx < Len(log)
  PROVE  LET c == Cardinality(KnownAt(idx + 1))
         IN  /\ c \in Nat /\ c <= Cardinality(Allowed)
             /\ Len(matured) <= c
             /\ c - Len(matured) \in 0..Len(pending)
             /\ Popped = c - Len(matured)
             /\ \A n \in 1..c : InOrder(KnownAt(idx + 1))[n] = InOrder(Allowed)[n]
<1>. DEFINE A == Allowed
            K == KnownAt(idx + 1)
            c == Cardinality(K)
            L == Len(matured)
            now == log[idx + 1].dt
<1>1. idx + 1 \in 1..Len(log) /\ idx \in Nat
  BY LogFacts
<1>2. A \in SUBSET Nat /\ IsFiniteSet(A)
  BY <1>1, AllowedFinite DEF Allowed
<1>3. /\ K \in SUBSET A
      /\ \A i \in A : i \in K <=> log[i].dt + delta <= now
      /\ \A i \in K : \A k \in A : k < i => k \in K
  BY <1>1, KnownInitial DEF Allowed
<1>. HIDE DEF A, K
<1>4. /\ IsFiniteSet(K) /\ c \in 0..Cardinality(A)
      /\ \A n \in 1..Cardinality(A) : InOrder(A)[n] \in K <=> n <= c
      /\ \A n \in 1..c : InOrder(K)[n] = InOrder(A)[n]
  BY <1>2, <1>3, InOrderInitial
<1>5. Cardinality(A) \in Nat /\ L \in Nat /\ Len(pending) \in Nat
      /\ L + Len(pending) = Cardinality(A)
  BY <1>2, FS_CardinalityType, QueueTypes DEF QueueInv, A
<1>6. L <= c
  <2>1. L = IF idx = 0 THEN 0 ELSE Cardinality(KnownAt(idx))
    BY DEF QueueInv, Seen
  <2>2. CASE idx = 0
    BY <1>4, <2>1, <2>2
  <2>3. CASE idx # 0
    <3>1. idx \in 1..Len(log)
      BY <1>1, <2>3
    <3>2. KnownAt(idx) \in SUBSET K
      BY <1>1, <3>1, KnownGrows DEF K
    <3>. QED  BY <1>4, <2>1, <2>3, <3>2, FS_Subset
  <2>. QED  BY <2>2, <2>3
<1>7. \A n \in 1..Len(pending) :
         /\ L + n \in 1..Cardinality(A)
         /\ InOrder(A)[L + n] \in A
         /\ pending[n].due = log[InOrder(A)[L + n]].dt + delta
  <2>1. \A n \in 1..Len(pending) : L + n \in 1..Cardinality(A)
    BY <1>5
  <2>2. \A n \in 1..Cardinality(A) : InOrder(A)[n] \in A
    BY <1>2, InOrderAt
  <2>3. \A n \in 1..Len(pending) :
          pending[n] = [due |-> log[InOrder(A)[L + n]].dt + delta,
                        fraud |-> log[InOrder(A)[L + n]].fraud]
    BY DEF QueueInv, A
  <2>. TAKE n \in 1..Len(pending)
  <2>. DEFINE i == InOrder(A)[L + n]
  <2>4. L + n \in 1..Cardinality(A)
    BY <2>1
  <2>5. i \in A
    BY <2>2, <2>4
  <2>6. pending[n] = [due |-> log[i].dt + delta, fraud |-> log[i].fraud]
    BY <2>3
  <2>. HIDE DEF i
  <2>7. pending[n].due = log[i].dt + delta
    BY <2>6
  <2>. QED  BY <2>4, <2>5, <2>7 DEF i
<1>8. \A n \in 1..Len(pending) : pending[n].due <= now <=> n <= c - L
  <2>. TAKE n \in 1..Len(pending)
  <2>1. pending[n].due <= now <=> InOrder(A)[L + n] \in K
    BY <1>3, <1>7
  <2>2. InOrder(A)[L + n] \in K <=> L + n <= c
    BY <1>4, <1>7
  <2>3. L + n <= c <=> n <= c - L
    BY <1>4, <1>5
  <2>. QED  BY <2>1, <2>2, <2>3
<1>9. c - L \in 0..Len(pending)
  BY <1>4, <1>5, <1>6
<1>10. DuePrefix(pending, now) = c - L
  <2>. DEFINE k == c - L
  <2>1. k \in 0..Len(pending) /\ \A n \in 1..Len(pending) : pending[n].due <= now <=> n <= k
    BY <1>8, <1>9
  <2>. HIDE DEF k, now
  <2>2. DuePrefix(pending, now) = k
    BY <1>5, <2>1, DuePrefixIs
  <2>. QED  BY <2>2 DEF k
<1>. QED  BY <1>4, <1>5, <1>6, <1>9, <1>10 DEF A, K, Popped

LEMMA TurnMatures ==
  ASSUME TypeOK, QueueInv, ~alarm.raised, idx < Len(log)
  PROVE  /\ NowMatured \in Seq({0, 1})
         /\ Len(NowMatured) = Cardinality(KnownAt(idx + 1))
         /\ \A n \in 1..Len(NowMatured) : NowMatured[n] = log[InOrder(Allowed)[n]].fraud
         /\ StillPending \in Seq([due : Nat, fraud : {0, 1}])
         /\ Len(NowMatured) + Len(StillPending) = Cardinality(Allowed)
         /\ \A n \in 1..Len(StillPending) :
              LET i == InOrder(Allowed)[Len(NowMatured) + n]
              IN  StillPending[n] = [due |-> log[i].dt + delta, fraud |-> log[i].fraud]
<1>. DEFINE Audits == [due : Nat, fraud : {0, 1}]
            c == Cardinality(KnownAt(idx + 1))
            L == Len(matured)
            k == Popped
            N == Len(pending)
            front == SubSeq(pending, 1, k)
            out == Outcomes(front)
            Entry(n) == [due |-> log[InOrder(Allowed)[n]].dt + delta,
                         fraud |-> log[InOrder(Allowed)[n]].fraud]
<1>1. c \in Nat /\ L \in Nat /\ N \in Nat /\ k = c - L /\ k \in 0..N
      /\ L + N = Cardinality(Allowed)
  BY TurnPops, QueueTypes DEF QueueInv
<1>2. matured \in Seq({0, 1}) /\ pending \in Seq(Audits)
  BY DEF TypeOK
<1>3. /\ \A n \in 1..L : matured[n] = log[InOrder(Allowed)[n]].fraud
      /\ \A n \in 1..N : pending[n] = Entry(L + n)
  BY DEF QueueInv
<1>. HIDE DEF c, L, k, N, Audits
<1>4. /\ front \in Seq(Audits) /\ Len(front) = k
      /\ \A n \in 1..k : front[n] = pending[n]
  <2>1. /\ SubSeq(pending, 0 + 1, k) \in Seq(Audits)
        /\ Len(SubSeq(pending, 0 + 1, k)) = k - 0
        /\ \A n \in 1..(k - 0) : SubSeq(pending, 0 + 1, k)[n] = pending[0 + n]
    <3>1. 0 \in Nat /\ k \in Nat /\ 0 <= k /\ k <= Len(pending)
      BY <1>1 DEF N
    <3>. QED  BY <1>2, <3>1, Slice
  <2>2. 0 + 1 = 1 /\ k - 0 = k /\ \A n \in 1..k : 0 + n = n
    BY <1>1
  <2>. QED  BY <2>1, <2>2
<1>5. /\ StillPending \in Seq(Audits) /\ Len(StillPending) = N - k
      /\ \A n \in 1..(N - k) : StillPending[n] = pending[k + n]
  <2>1. k \in Nat /\ N \in Nat /\ k <= N /\ N <= Len(pending)
    BY <1>1 DEF N
  <2>2. StillPending = SubSeq(pending, k + 1, N)
    BY DEF StillPending, k, N
  <2>. HIDE DEF Entry, front, out
  <2>3. /\ SubSeq(pending, k + 1, N) \in Seq(Audits)
        /\ Len(SubSeq(pending, k + 1, N)) = N - k
        /\ \A i \in 1..(N - k) : SubSeq(pending, k + 1, N)[i] = pending[k + i]
    BY <1>2, <2>1, Slice
  <2>. QED  BY <2>2, <2>3
<1>6. /\ out \in Seq({0, 1}) /\ Len(out) = k
      /\ \A n \in 1..k : out[n] = pending[n].fraud
  <2>. HIDE DEF front
  <2>1. Outcomes(front) \in Seq({0, 1}) /\ Len(Outcomes(front)) = Len(front)
        /\ \A n \in 1..Len(front) : Outcomes(front)[n] = front[n].fraud
    BY <1>4, OutcomesTyped DEF Audits
  <2>. QED  BY <1>4, <2>1
<1>7. \A n \in 1..k : out[n] = log[InOrder(Allowed)[L + n]].fraud
  <2>. TAKE n \in 1..k
  <2>1. n \in 1..N
    BY <1>1
  <2>2. pending[n] = Entry(L + n)
    BY <1>3, <2>1
  <2>3. Entry(L + n).fraud = log[InOrder(Allowed)[L + n]].fraud
    OBVIOUS
  <2>. HIDE DEF Entry, out
  <2>. QED  BY <1>6, <2>2, <2>3
<1>8. NowMatured = matured \o out
  BY DEF NowMatured, k
<1>. HIDE DEF out, front
<1>9. /\ NowMatured \in Seq({0, 1}) /\ Len(NowMatured) = L + k
      /\ \A n \in 1..(L + k) : NowMatured[n] = IF n <= L THEN matured[n] ELSE out[n - L]
  BY <1>1, <1>2, <1>6, <1>8 DEF L
<1>10. Len(NowMatured) = c
  BY <1>1, <1>9
<1>11. ASSUME NEW n \in 1..c
       PROVE  NowMatured[n] = log[InOrder(Allowed)[n]].fraud
  <2>1. CASE n <= L
    <3>1. n \in 1..L /\ n \in 1..(L + k)
      BY <1>1, <2>1
    <3>. QED  BY <1>3, <1>9, <2>1, <3>1
  <2>2. CASE ~(n <= L)
    <3>1. n - L \in 1..k /\ L + (n - L) = n /\ n \in 1..(L + k)
      BY <1>1, <2>2
    <3>. QED  BY <1>7, <1>9, <2>2, <3>1
  <2>. QED  BY <2>1, <2>2
<1>12. Len(NowMatured) + Len(StillPending) = Cardinality(Allowed)
  BY <1>1, <1>5, <1>10
<1>13. ASSUME NEW n \in 1..Len(StillPending)
       PROVE  StillPending[n] = Entry(Len(NowMatured) + n)
  <2>1. n \in 1..(N - k) /\ k + n \in 1..N /\ L + (k + n) = c + n
    BY <1>1, <1>5
  <2>2. StillPending[n] = Entry(L + (k + n))
    BY <1>3, <1>5, <2>1
  <2>. QED  BY <1>10, <2>1, <2>2
<1>. QED  BY <1>5, <1>9, <1>10, <1>11, <1>12, <1>13 DEF Audits, c

\* The alarm test on the sequences decides what the rule says of the decisions.
LEMMA TurnDecides ==
  ASSUME TypeOK, QueueInv, ~alarm.raised, idx < Len(log)
  PROVE  /\ Full(NowMatured) <=> WarmedUp(idx + 1)
         /\ Full(NowMatured) /\ Crossed(NowMatured) <=> Fires(idx + 1)
<1>. DEFINE K == KnownAt(idx + 1)
            m == NowMatured
            c == Len(m)
<1>1. idx + 1 \in 1..Len(log) /\ idx + 1 \in Nat
  BY LogFacts
<1>2. K \in SUBSET Nat /\ IsFiniteSet(K)
  <2>1. AllowedBefore(idx + 1) \in SUBSET Nat /\ IsFiniteSet(AllowedBefore(idx + 1))
    BY <1>1, AllowedFinite
  <2>2. K \in SUBSET AllowedBefore(idx + 1)
    BY DEF KnownAt
  <2>. QED  BY <2>1, <2>2, FS_Subset
<1>3. m \in Seq({0, 1}) /\ Len(m) = Cardinality(K)
      /\ \A n \in 1..Len(m) : m[n] = log[InOrder(K)[n]].fraud
  BY TurnMatures, TurnPops
<1>4. NWindow \in Nat \ {0} /\ c \in Nat
  BY <1>3, MonitorAssumption
<1>5. Full(m) <=> WarmedUp(idx + 1)
  BY <1>3 DEF Full, WarmedUp
<1>6. ASSUME Full(m)
      PROVE  /\ Frauds(Recent(m)) = KnownFrauds(idx + 1, 0..(NWindow - 1))
             /\ Frauds(Reference(m)) = KnownFrauds(idx + 1, NWindow..(2 * NWindow - 1))
  <2>1. NWindow <= c /\ 2 * NWindow <= c
    BY <1>4, <1>6 DEF Full
  <2>. HIDE DEF K, m
  <2>2. \A a, b \in Nat :
          a <= b /\ b <= c => Frauds(SubSeq(m, c - b + 1, c - a)) = Windowed(K, a, b)
    <3>1. Lists(m, K)
      BY <1>3 DEF Lists
    <3>. QED  BY <1>2, <3>1, WindowFrauds
  <2>. HIDE DEF c
  <2>3. Frauds(SubSeq(m, c - NWindow + 1, c - 0)) = Windowed(K, 0, NWindow)
    <3>1. 0 \in Nat /\ NWindow \in Nat /\ 0 <= NWindow
      BY <1>4
    <3>. QED  BY <2>1, <2>2, <3>1, Zenon
  <2>4. Frauds(SubSeq(m, c - 2 * NWindow + 1, c - NWindow)) = Windowed(K, NWindow, 2 * NWindow)
    <3>1. NWindow \in Nat /\ 2 * NWindow \in Nat /\ NWindow <= 2 * NWindow
      BY <1>4
    <3>. QED  BY <2>1, <2>2, <3>1, Zenon
  <2>5. c - 0 = c
    BY <1>4
  <2>. QED  BY <2>3, <2>4, <2>5 DEF Recent, Reference, KnownFrauds, K, Windowed, c
<1>. QED  BY <1>5, <1>6 DEF Crossed, Fires

-----------------------------------------------------------------------------
(* A step preserves the invariant: a turn that alarms, or one that goes on *)
(* to certify the decision.                                                *)

AlarmTurn ==
  /\ Full(NowMatured) /\ Crossed(NowMatured)
  /\ alarm' = [raised |-> TRUE, alarm_decision_idx |-> idx,
               cum_at_alarm |-> cum, calib_done_idx |-> calib']
  /\ pending' = StillPending
  /\ cum' = cum /\ idx' = idx

QuietTurn ==
  /\ ~(Full(NowMatured) /\ Crossed(NowMatured))
  /\ alarm' = alarm
  /\ pending' = Enqueue(StillPending, log[idx + 1])
  /\ cum' = IF log[idx + 1].cert_allow THEN cum + log[idx + 1].fraud ELSE cum
  /\ idx' = idx + 1

LEMMA DecideTurn ==
  ASSUME Decide
  PROVE  /\ ~alarm.raised /\ idx < Len(log)
         /\ log' = log /\ delta' = delta
         /\ matured' = NowMatured
         /\ calib' = IF Full(NowMatured) /\ calib = -1 THEN idx ELSE calib
         /\ AlarmTurn \/ QuietTurn
BY DEF Decide, AlarmTurn, QuietTurn, NowMatured, StillPending, Popped

LEMMA DataFixed ==
  ASSUME log' = log, delta' = delta
  PROVE  /\ \A j : AllowedBefore(j)' = AllowedBefore(j)
         /\ \A j : KnownAt(j)' = KnownAt(j)
         /\ \A j : WarmedUp(j)' = WarmedUp(j)
         /\ \A j : Fires(j)' = Fires(j)
<1>1. \A j : AllowedBefore(j)' = AllowedBefore(j)
  BY DEF AllowedBefore
<1>2. \A j : KnownAt(j)' = KnownAt(j)
  BY <1>1 DEF KnownAt
<1>3. \A j : WarmedUp(j)' = WarmedUp(j)
  BY <1>2 DEF WarmedUp
<1>4. \A j, y : KnownFrauds(j, y)' = KnownFrauds(j, y)
  BY <1>2 DEF KnownFrauds
<1>5. \A j : Fires(j)' = Fires(j)
  BY <1>3, <1>4 DEF Fires
<1>. QED  BY <1>1, <1>2, <1>3, <1>5

LEMMA AllowedGrows ==
  ASSUME NEW j \in Nat \ {0}, log[j].cert_allow \in BOOLEAN
  PROVE  AllowedBefore(j + 1)
           = IF log[j].cert_allow THEN AllowedBefore(j) \cup {j} ELSE AllowedBefore(j)
<1>1. \A i : i \in 1..((j + 1) - 1) <=> i \in 1..(j - 1) \/ i = j
  OBVIOUS
<1>. QED  BY <1>1 DEF AllowedBefore

\* The counters of a stretch of the log, as sets.
LEMMA CountFinite ==
  ASSUME NEW a \in Nat, NEW b \in Nat, NEW T \in SUBSET ((a + 1)..b)
  PROVE  IsFiniteSet(T) /\ Cardinality(T) \in Nat
<1>1. a + 1 \in Int /\ b \in Int
  OBVIOUS
<1>2. IsFiniteSet((a + 1)..b)
  BY <1>1, FS_Interval
<1>. QED  BY <1>2, FS_Subset, FS_CardinalityType

\* A stretch splits at any decision in it.
LEMMA CountSplits ==
  ASSUME NEW l, NEW a \in Nat, NEW b \in Nat, NEW c \in Nat, a <= b, b <= c
  PROVE  /\ total_cert_allowed_frauds(l, a, b) \in Nat
         /\ total_cert_allowed_frauds(l, b, c) \in Nat
         /\ total_cert_allowed_frauds(l, a, c)
              = total_cert_allowed_frauds(l, a, b) + total_cert_allowed_frauds(l, b, c)
<1>. DEFINE T(x, y) == {i \in (x + 1)..y : l[i].cert_allow /\ l[i].fraud = 1}
<1>1. T(a, c) = T(a, b) \cup T(b, c)
  <2>1. \A i : i \in (a + 1)..c <=> i \in (a + 1)..b \/ i \in (b + 1)..c
    OBVIOUS
  <2>. QED  BY <2>1
<1>2. T(a, b) \cap T(b, c) = {}
  <2>1. \A i : ~(i \in (a + 1)..b /\ i \in (b + 1)..c)
    OBVIOUS
  <2>. QED  BY <2>1
<1>3. T(a, b) \in SUBSET ((a + 1)..b) /\ T(b, c) \in SUBSET ((b + 1)..c)
  OBVIOUS
<1>4. \A x, y \in Nat : total_cert_allowed_frauds(l, x, y) = Cardinality(T(x, y))
  BY DEF total_cert_allowed_frauds
<1>. HIDE DEF T
<1>5. /\ IsFiniteSet(T(a, b)) /\ Cardinality(T(a, b)) \in Nat
      /\ IsFiniteSet(T(b, c)) /\ Cardinality(T(b, c)) \in Nat
  BY <1>3, CountFinite
<1>6. Cardinality(T(a, b) \cup T(b, c))
        = Cardinality(T(a, b)) + Cardinality(T(b, c)) - Cardinality(T(a, b) \cap T(b, c))
  BY <1>5, FS_Union
<1>7. Cardinality(T(a, b) \cap T(b, c)) = 0
  BY <1>2, FS_EmptySet
<1>8. Cardinality(T(a, c)) = Cardinality(T(a, b)) + Cardinality(T(b, c))
  BY <1>1, <1>5, <1>6, <1>7
<1>. QED  BY <1>4, <1>5, <1>8

\* One decision adds its own fraud.
LEMMA CountStep ==
  ASSUME NEW l, NEW j \in Nat, l[j + 1].cert_allow \in BOOLEAN, l[j + 1].fraud \in {0, 1}
  PROVE  total_cert_allowed_frauds(l, j, j + 1)
           = IF l[j + 1].cert_allow THEN l[j + 1].fraud ELSE 0
<1>. DEFINE T == {i \in (j + 1)..(j + 1) : l[i].cert_allow /\ l[i].fraud = 1}
<1>1. (j + 1)..(j + 1) = {j + 1}
  OBVIOUS
<1>2. T = IF l[j + 1].cert_allow /\ l[j + 1].fraud = 1 THEN {j + 1} ELSE {}
  BY <1>1
<1>3. Cardinality({j + 1}) = 1 /\ Cardinality({}) = 0
  BY FS_Singleton, FS_EmptySet
<1>4. Cardinality(T) = IF l[j + 1].cert_allow /\ l[j + 1].fraud = 1 THEN 1 ELSE 0
  BY <1>2, <1>3
<1>. QED  BY <1>4 DEF total_cert_allowed_frauds

LEMMA TypeStep ==
  ASSUME IInv, Decide
  PROVE  TypeOK'
<1>. USE DecideTurn DEF IInv
<1>1. /\ idx \in Nat /\ idx < Len(log) /\ Len(log) \in Nat
      /\ log[idx + 1].dt \in Nat /\ log[idx + 1].fraud \in {0, 1}
      /\ log[idx + 1].cert_allow \in BOOLEAN /\ delta \in Nat
  <2>1. idx + 1 \in 1..Len(log)
    BY LogFacts
  <2>. QED  BY <2>1, LogFacts
<1>2. NowMatured \in Seq({0, 1}) /\ StillPending \in Seq([due : Nat, fraud : {0, 1}])
  BY TurnMatures
<1>3. log' \in Logs /\ delta' \in Deltas
  BY DEF TypeOK
<1>4. matured' \in Seq({0, 1})
  BY <1>2
<1>5. calib' \in -1..Len(log')
  BY <1>1 DEF TypeOK
<1>6. idx' \in 0..Len(log')
  BY <1>1 DEF AlarmTurn, QuietTurn
<1>7. cum' \in Nat
  <2>1. cum \in Nat
    BY DEF TypeOK
  <2>. QED  BY <1>1, <2>1 DEF AlarmTurn, QuietTurn
<1>8. pending' \in Seq([due : Nat, fraud : {0, 1}])
  <2>. DEFINE Audits == [due : Nat, fraud : {0, 1}]
              entry == [due |-> log[idx + 1].dt + delta, fraud |-> log[idx + 1].fraud]
  <2>1. entry \in Audits
    BY <1>1
  <2>2. StillPending \in Seq(Audits)
    BY <1>2
  <2>3. pending' = StillPending \/ pending' = Append(StillPending, entry)
    BY DEF AlarmTurn, QuietTurn, Enqueue
  <2>. HIDE DEF Audits, entry
  <2>4. pending' \in Seq(Audits)
    BY <2>1, <2>2, <2>3
  <2>. QED  BY <2>4 DEF Audits
<1>. QED  BY <1>3, <1>4, <1>5, <1>6, <1>7, <1>8 DEF TypeOK

LEMMA QueueStep ==
  ASSUME IInv, Decide
  PROVE  QueueInv'
<1>. DEFINE m == NowMatured
            rest == StillPending
            Entry(i) == [due |-> log[i].dt + delta, fraud |-> log[i].fraud]
            new == idx + 1
<1>1. /\ ~alarm.raised /\ idx \in Nat /\ idx < Len(log)
      /\ new \in Nat \ {0} /\ new \in 1..Len(log)
      /\ log[new].cert_allow \in BOOLEAN
  BY DecideTurn, LogFacts DEF IInv
<1>2. /\ m \in Seq({0, 1})
      /\ Len(m) = Cardinality(KnownAt(new))
      /\ \A n \in 1..Len(m) : m[n] = log[InOrder(Allowed)[n]].fraud
      /\ rest \in Seq([due : Nat, fraud : {0, 1}])
      /\ Len(m) + Len(rest) = Cardinality(Allowed)
      /\ \A n \in 1..Len(rest) : rest[n] = Entry(InOrder(Allowed)[Len(m) + n])
  BY <1>1, TurnMatures DEF IInv
<1>3. Len(m) \in Nat /\ Len(rest) \in Nat
  BY <1>2
<1>4. /\ matured' = m /\ log' = log /\ delta' = delta
      /\ AlarmTurn \/ QuietTurn
  BY DecideTurn
<1>5. /\ \A j : KnownAt(j)' = KnownAt(j)
      /\ \A j : AllowedBefore(j)' = AllowedBefore(j)
  BY <1>4, DataFixed
<1>6. Seen' = new
  BY <1>1, <1>4 DEF Seen, AlarmTurn, QuietTurn, IInv, AlarmInv, NoAlarm
<1>7. Len(matured') = IF Seen' = 0 THEN 0 ELSE Cardinality(KnownAt(Seen)')
  <2>1. KnownAt(Seen)' = KnownAt(new)
    BY <1>4, <1>6 DEF KnownAt, AllowedBefore
  <2>. QED  BY <1>1, <1>2, <1>4, <1>6, <2>1
<1>. HIDE DEF m, rest, Entry
<1>8. SUFFICES
        /\ Len(m) + Len(pending') = Cardinality(Allowed')
        /\ \A n \in 1..Len(m) : m[n] = log[InOrder(Allowed')[n]].fraud
        /\ \A n \in 1..Len(pending') : pending'[n] = Entry(InOrder(Allowed')[Len(m) + n])
  BY <1>4, <1>7 DEF QueueInv, Entry
<1>9. CASE AlarmTurn
  <2>1. pending' = rest /\ Allowed' = Allowed
    BY <1>4, <1>9 DEF AlarmTurn, rest, Allowed, AllowedBefore
  <2>. QED  BY <1>2, <2>1
<1>10. CASE QuietTurn
  <2>1. Allowed' = AllowedBefore(new + 1) /\ Allowed = AllowedBefore(new)
    BY <1>4, <1>10 DEF QuietTurn, Allowed, AllowedBefore
  <2>2. CASE ~log[new].cert_allow
    <3>1. pending' = rest
      BY <1>10, <2>2 DEF QuietTurn, Enqueue, rest
    <3>2. Allowed' = Allowed
      BY <1>1, <2>1, <2>2, AllowedGrows
    <3>. QED  BY <1>2, <3>1, <3>2
  <2>3. CASE log[new].cert_allow
    <3>1. pending' = Append(rest, Entry(new))
      BY <1>10, <2>3 DEF QuietTurn, Enqueue, rest, Entry
    <3>2. Allowed' = Allowed \cup {new}
      BY <1>1, <2>1, <2>3, AllowedGrows
    <3>. DEFINE A == Allowed
    <3>3. A \in SUBSET Nat /\ IsFiniteSet(A) /\ \A j \in A : j < new
      <4>1. A \in SUBSET Nat /\ IsFiniteSet(A)
        BY <1>1, <2>1, AllowedFinite
      <4>2. \A j \in A : j < new
        BY <1>1, <2>1 DEF AllowedBefore
      <4>. QED  BY <4>1, <4>2
    <3>. HIDE DEF A, new
    <3>4. /\ Cardinality(A \cup {new}) = Cardinality(A) + 1
          /\ \A n \in 1..Cardinality(A) : InOrder(A \cup {new})[n] = InOrder(A)[n]
          /\ InOrder(A \cup {new})[Cardinality(A) + 1] = new
      BY <1>1, <3>3, InOrderGrows
    <3>. DEFINE B == A \cup {new}
    <3>5. Allowed' = B /\ Len(m) + Len(rest) = Cardinality(A)
      BY <1>2, <3>2 DEF A
    <3>. HIDE DEF B
    <3>6. /\ Len(pending') = Len(rest) + 1
          /\ \A n \in 1..Len(rest) : pending'[n] = rest[n]
          /\ pending'[Len(rest) + 1] = Entry(new)
      BY <1>2, <3>1
    <3>7. Len(m) + Len(pending') = Cardinality(B)
      BY <1>3, <3>4, <3>5, <3>6 DEF B
    <3>8. ASSUME NEW n \in 1..Len(m)
          PROVE  m[n] = log[InOrder(B)[n]].fraud
      <4>1. n \in 1..Cardinality(A)
        BY <1>3, <3>5
      <4>. QED  BY <1>2, <3>4, <4>1 DEF A, B
    <3>9. ASSUME NEW n \in 1..Len(pending')
          PROVE  pending'[n] = Entry(InOrder(B)[Len(m) + n])
      <4>1. CASE n \in 1..Len(rest)
        <5>1. Len(m) + n \in 1..Cardinality(A)
          BY <1>3, <3>5, <4>1
        <5>2. InOrder(B)[Len(m) + n] = InOrder(A)[Len(m) + n]
          BY <3>4, <5>1 DEF B
        <5>. QED  BY <1>2, <3>6, <4>1, <5>2 DEF A
      <4>2. CASE n = Len(rest) + 1
        <5>1. Len(m) + n = Cardinality(A) + 1
          BY <1>3, <3>5, <4>2
        <5>. QED  BY <3>4, <3>6, <4>2, <5>1 DEF B
      <4>. QED  BY <1>3, <3>6, <4>1, <4>2
    <3>. QED  BY <3>5, <3>7, <3>8, <3>9
  <2>. QED  BY <1>1, <2>2, <2>3
<1>. QED  BY <1>4, <1>9, <1>10

LEMMA AlarmStep ==
  ASSUME IInv, Decide
  PROVE  AlarmInv' /\ AlarmsAtFirstCrossing' /\ CalibrationMarksWarmUp'
<1>1. /\ ~alarm.raised /\ idx \in Nat /\ idx < Len(log) /\ alarm = NoAlarm
      /\ TypeOK /\ QueueInv /\ calib \in Int
  BY DecideTurn, LogFacts DEF IInv, AlarmInv, TypeOK
<1>2. /\ Full(NowMatured) <=> WarmedUp(idx + 1)
      /\ Full(NowMatured) /\ Crossed(NowMatured) <=> Fires(idx + 1)
  BY <1>1, TurnDecides
<1>3. /\ log' = log
      /\ calib' = IF Full(NowMatured) /\ calib = -1 THEN idx ELSE calib
      /\ AlarmTurn \/ QuietTurn
      /\ \A j : WarmedUp(j)' = WarmedUp(j)
      /\ \A j : Fires(j)' = Fires(j)
  BY DecideTurn, DataFixed
<1>4. /\ \A j \in 1..idx : ~Fires(j)
      /\ IF calib = -1
         THEN \A j \in 1..idx : ~WarmedUp(j)
         ELSE calib < idx /\ WarmedUp(calib + 1) /\ \A j \in 1..calib : ~WarmedUp(j)
  BY <1>1 DEF IInv, AlarmsAtFirstCrossing, CalibrationMarksWarmUp
<1>5. AlarmInv'
  BY <1>1, <1>3 DEF AlarmInv, AlarmTurn, QuietTurn
<1>6. AlarmsAtFirstCrossing'
  <2>1. CASE AlarmTurn
    <3>1. idx' = idx /\ Fires(idx + 1)
      BY <1>2, <2>1 DEF AlarmTurn
    <3>2. \A j \in 1..idx' : ~Fires(j)'
      BY <1>3, <1>4, <3>1
    <3>3. Fires(idx + 1)' = Fires(idx + 1)
      BY <1>3, <3>1, DecideTurn DEF Fires, WarmedUp, KnownFrauds, KnownAt, AllowedBefore
    <3>. QED  BY <3>1, <3>2, <3>3 DEF AlarmsAtFirstCrossing
  <2>2. CASE QuietTurn
    <3>1. idx' = idx + 1 /\ ~Fires(idx + 1) /\ ~alarm'.raised
      BY <1>1, <1>2, <2>2 DEF QuietTurn
    <3>2. \A j \in 1..idx' : ~Fires(j)
      BY <1>1, <1>4, <3>1
    <3>3. \A j \in 1..idx' : ~Fires(j)'
      BY <1>3, <3>2
    <3>. QED  BY <3>1, <3>3 DEF AlarmsAtFirstCrossing
  <2>. QED  BY <1>3, <2>1, <2>2
<1>7. CalibrationMarksWarmUp'
  <2>1. (IF alarm.raised THEN idx + 1 ELSE idx)' = idx + 1
    BY <1>1, <1>3 DEF AlarmTurn, QuietTurn
  <2>2. SUFFICES
          IF calib' = -1
          THEN \A j \in 1..(idx + 1) : ~WarmedUp(j)
          ELSE calib' < idx + 1 /\ WarmedUp(calib' + 1) /\ \A j \in 1..calib' : ~WarmedUp(j)
    <3>1. WarmedUp(calib + 1)' = WarmedUp(calib' + 1)
      BY DecideTurn DEF WarmedUp, KnownAt, AllowedBefore
    <3>. QED  BY <1>3, <2>1, <2>2, <3>1 DEF CalibrationMarksWarmUp
  <2>3. CASE calib # -1
    <3>1. calib' = calib /\ calib < idx + 1
      BY <1>1, <1>3, <1>4, <2>3
    <3>. QED  BY <1>4, <2>3, <3>1
  <2>4. CASE calib = -1 /\ Full(NowMatured)
    <3>1. calib' = idx /\ calib' # -1 /\ idx < idx + 1
      BY <1>1, <1>3, <2>4
    <3>. QED  BY <1>2, <1>4, <2>4, <3>1
  <2>5. CASE calib = -1 /\ ~Full(NowMatured)
    <3>1. calib' = -1 /\ ~WarmedUp(idx + 1)
      BY <1>2, <1>3, <2>5
    <3>2. \A j \in 1..(idx + 1) : ~WarmedUp(j)
      BY <1>1, <1>4, <2>5, <3>1
    <3>. QED  BY <3>1, <3>2
  <2>. QED  BY <2>3, <2>4, <2>5
<1>. QED  BY <1>5, <1>6, <1>7

LEMMA CountInvStep ==
  ASSUME IInv, Decide
  PROVE  CountInv'
<1>1. /\ idx \in Nat /\ log[idx + 1].cert_allow \in BOOLEAN
      /\ log[idx + 1].fraud \in {0, 1}
      /\ cum = total_cert_allowed_frauds(log, 0, idx)
      /\ log' = log
      /\ AlarmTurn \/ QuietTurn
  <2>1. idx + 1 \in 1..Len(log) /\ idx \in Nat
    BY DecideTurn, LogFacts DEF IInv
  <2>. QED  BY <2>1, DecideTurn, LogFacts DEF IInv, CountInv
<1>2. CASE AlarmTurn
  <2>1. cum' = cum /\ idx' = idx
    BY <1>2 DEF AlarmTurn
  <2>2. total_cert_allowed_frauds(log, 0, idx)' = total_cert_allowed_frauds(log, 0, idx)
    BY <1>1, <2>1 DEF total_cert_allowed_frauds
  <2>. QED  BY <1>1, <2>1, <2>2 DEF CountInv
<1>3. CASE QuietTurn
  <2>1. total_cert_allowed_frauds(log, 0, idx + 1)
          = total_cert_allowed_frauds(log, 0, idx)
            + total_cert_allowed_frauds(log, idx, idx + 1)
        /\ total_cert_allowed_frauds(log, 0, idx) \in Nat
    <3>1. 0 \in Nat /\ idx + 1 \in Nat /\ 0 <= idx /\ idx <= idx + 1
      BY <1>1
    <3>. QED  BY <1>1, <3>1, CountSplits
  <2>2. total_cert_allowed_frauds(log, idx, idx + 1)
          = IF log[idx + 1].cert_allow THEN log[idx + 1].fraud ELSE 0
    BY <1>1, CountStep
  <2>3. cum' = total_cert_allowed_frauds(log, 0, idx + 1)
    BY <1>1, <1>3, <2>1, <2>2 DEF QuietTurn
  <2>4. idx' = idx + 1
    BY <1>3 DEF QuietTurn
  <2>5. total_cert_allowed_frauds(log, 0, idx)' = total_cert_allowed_frauds(log, 0, idx + 1)
    BY <1>1, <2>4 DEF total_cert_allowed_frauds
  <2>. QED  BY <2>3, <2>5 DEF CountInv
<1>. QED  BY <1>1, <1>2, <1>3

LEMMA Inductive == Init => IInv
<1>. SUFFICES ASSUME Init  PROVE IInv
  OBVIOUS
<1>1. TypeOK
  <2>1. log \in Seq([dt : Nat, cert_allow : BOOLEAN, fraud : {0, 1}])
    BY LogAssumption DEF Init
  <2>2. Len(log) \in Nat
    BY <2>1
  <2>. QED  BY <2>2 DEF Init, TypeOK
<1>2. QueueInv
  <2>1. Allowed = {}
    BY DEF Init, Allowed, AllowedBefore
  <2>2. Cardinality({}) = 0
    BY FS_EmptySet
  <2>3. Seen = 0 /\ Len(matured) = 0 /\ Len(pending) = 0
    BY DEF Init, Seen, NoAlarm
  <2>. QED  BY <2>1, <2>2, <2>3 DEF QueueInv
<1>3. CountInv
  <2>1. {i \in (0 + 1)..0 : log[i].cert_allow /\ log[i].fraud = 1} = {}
    OBVIOUS
  <2>. QED  BY <2>1, FS_EmptySet DEF Init, CountInv, total_cert_allowed_frauds
<1>. QED  BY <1>1, <1>2, <1>3
          DEF Init, IInv, AlarmInv, AlarmsAtFirstCrossing, CalibrationMarksWarmUp, NoAlarm

LEMMA Preserved == IInv /\ [Next]_vars => IInv'
<1>1. ASSUME IInv, Decide  PROVE IInv'
  BY <1>1, TypeStep, QueueStep, AlarmStep, CountInvStep DEF IInv
<1>2. ASSUME IInv, UNCHANGED vars  PROVE IInv'
  <2>. USE <1>2 DEF vars
  <2>1. TypeOK'
    BY DEF IInv, TypeOK
  <2>2. QueueInv'
    <3>1. Allowed' = Allowed
      BY DEF Allowed, AllowedBefore
    <3>2. Seen' = Seen /\ KnownAt(Seen)' = KnownAt(Seen)
      BY DEF Seen, KnownAt, AllowedBefore
    <3>. QED  BY <3>1, <3>2 DEF IInv, QueueInv
  <2>3. AlarmInv' /\ CountInv'
    BY DEF IInv, AlarmInv, CountInv, total_cert_allowed_frauds, NoAlarm
  <2>4. AlarmsAtFirstCrossing'
    <3>1. \A j : Fires(j)' = Fires(j)
      BY DataFixed
    <3>2. Fires(idx + 1)' = Fires(idx + 1)
      BY DEF Fires, WarmedUp, KnownFrauds, KnownAt, AllowedBefore
    <3>. QED  BY <3>1, <3>2 DEF IInv, AlarmsAtFirstCrossing
  <2>5. CalibrationMarksWarmUp'
    BY DEF IInv, CalibrationMarksWarmUp, WarmedUp, KnownAt, AllowedBefore
  <2>. QED  BY <2>1, <2>2, <2>3, <2>4, <2>5 DEF IInv
<1>. QED  BY <1>1, <1>2 DEF Next

LEMMA Invariant == Spec => []IInv
BY Inductive, Preserved, PTL DEF Spec

-----------------------------------------------------------------------------
(* What run_monitor guarantees.                                            *)

\* run_monitor's locals keep their types: the audits queue stays a queue of due
\* dates and 0/1 labels, the index inside the log.
THEOREM MonitorTypes == Spec => []TypeOK
<1>1. IInv => TypeOK
  BY DEF IInv
<1>. QED  BY <1>1, Invariant, PTL

LEMMA QueueFIFO ==
  ASSUME IInv
  PROVE  AuditFIFO
<1>. DEFINE out == Outcomes(pending)
            L == Len(matured)
            c == Cardinality(Allowed)
<1>1. /\ L \in Nat /\ Len(pending) \in Nat /\ L + Len(pending) = c
      /\ matured \in Seq({0, 1})
  BY QueueTypes DEF IInv, QueueInv, TypeOK
<1>2. /\ out \in Seq({0, 1}) /\ Len(out) = Len(pending)
      /\ \A n \in 1..Len(pending) : out[n] = pending[n].fraud
  BY OutcomesTyped DEF IInv, TypeOK
<1>3. \A n \in 1..L : matured[n] = log[InOrder(Allowed)[n]].fraud
  BY DEF IInv, QueueInv
<1>4. \A n \in 1..Len(pending) : out[n] = log[InOrder(Allowed)[L + n]].fraud
  <2>. TAKE n \in 1..Len(pending)
  <2>. DEFINE i == InOrder(Allowed)[L + n]
  <2>1. pending[n] = [due |-> log[i].dt + delta, fraud |-> log[i].fraud]
    BY DEF IInv, QueueInv
  <2>2. pending[n].fraud = log[i].fraud
    BY <2>1
  <2>. QED  BY <1>2, <2>2
<1>. DEFINE both == matured \o out
<1>. HIDE DEF out, L, c
<1>5. /\ both \in Seq({0, 1}) /\ Len(both) = c
      /\ \A n \in 1..c : both[n] = IF n <= L THEN matured[n] ELSE out[n - L]
  BY <1>1, <1>2 DEF L
<1>. HIDE DEF both
<1>6. ASSUME NEW n \in 1..c
      PROVE  both[n] = log[InOrder(Allowed)[n]].fraud
  <2>1. c \in Nat
    BY <1>1
  <2>2. CASE n <= L
    <3>1. n \in 1..L
      BY <1>1, <2>2
    <3>. QED  BY <1>3, <1>5, <2>2, <3>1
  <2>3. CASE ~(n <= L)
    <3>1. n - L \in 1..Len(pending) /\ L + (n - L) = n
      BY <1>1, <2>1, <2>3
    <3>. QED  BY <1>4, <1>5, <2>3, <3>1
  <2>. QED  BY <2>2, <2>3
<1>7. both = [n \in 1..c |-> both[n]]
  BY <1>5
<1>8. both = [n \in 1..c |-> log[InOrder(Allowed)[n]].fraud]
  BY <1>6, <1>7
<1>. QED  BY <1>8 DEF AuditFIFO, both, out, c, Allowed

LEMMA QueueOnTime ==
  ASSUME IInv
  PROVE  LabelsOnTime
<1>. DEFINE A == Allowed
            K == KnownAt(Seen)
            c == Cardinality(K)
<1>1. SUFFICES ASSUME Seen > 0
               PROVE  /\ matured = KnownOutcomes(Seen)
                      /\ \A n \in DOMAIN pending : pending[n].due > log[Seen].dt
  BY DEF LabelsOnTime, Seen
<1>2. /\ Seen \in 1..Len(log) /\ idx + 1 \in {Seen, Seen + 1}
      /\ idx + 1 \in Nat
  <2>1. idx \in Nat /\ idx <= Len(log) /\ Len(log) \in Nat /\ (alarm.raised => idx < Len(log))
    BY LogFacts DEF IInv, AlarmInv, NoAlarm
  <2>. QED  BY <1>1, <2>1 DEF Seen
<1>3. /\ Len(matured) = c
      /\ matured \in Seq({0, 1})
      /\ Len(matured) \in Nat /\ Len(pending) \in Nat
      /\ Len(matured) + Len(pending) = Cardinality(A)
      /\ \A n \in 1..Len(matured) : matured[n] = log[InOrder(A)[n]].fraud
  BY <1>2, QueueTypes DEF IInv, TypeOK, QueueInv
<1>4. A \in SUBSET Nat /\ IsFiniteSet(A)
  BY <1>2, AllowedFinite DEF Allowed
<1>5. /\ K \in SUBSET A
      /\ \A i \in A : i \in K <=> log[i].dt + delta <= log[Seen].dt
      /\ \A i \in K : \A k \in A : k < i => k \in K
  BY <1>2, KnownInitial DEF Allowed, IInv
<1>. HIDE DEF A, K
<1>6. /\ \A n \in 1..Cardinality(A) : InOrder(A)[n] \in K <=> n <= c
      /\ \A n \in 1..c : InOrder(K)[n] = InOrder(A)[n]
  BY <1>4, <1>5, InOrderInitial
<1>7. matured = KnownOutcomes(Seen)
  <2>1. \A n \in 1..c : matured[n] = log[InOrder(K)[n]].fraud
    BY <1>3, <1>6
  <2>2. matured = [n \in 1..c |-> matured[n]]
    BY <1>3
  <2>3. matured = [n \in 1..c |-> log[InOrder(K)[n]].fraud]
    BY <2>1, <2>2
  <2>. QED  BY <2>3 DEF KnownOutcomes, K
<1>8. ASSUME NEW n \in DOMAIN pending
      PROVE  pending[n].due > log[Seen].dt
  <2>. DEFINE i == InOrder(A)[Len(matured) + n]
  <2>1. n \in 1..Len(pending)
    BY DEF IInv, TypeOK
  <2>2. pending[n] = [due |-> log[i].dt + delta, fraud |-> log[i].fraud]
    BY <2>1 DEF IInv, QueueInv, A
  <2>3. Len(matured) + n \in 1..Cardinality(A) /\ ~(Len(matured) + n <= c)
    BY <1>3, <2>1
  <2>4. i \in A /\ i \notin K
    <3>1. \A x \in 1..Cardinality(A) : InOrder(A)[x] \in A
      BY <1>4, InOrderAt
    <3>. QED  BY <1>6, <2>3, <3>1
  <2>. HIDE DEF i
  <2>5. pending[n].due = log[i].dt + delta
    BY <2>2
  <2>6. ~(log[i].dt + delta <= log[Seen].dt)
    BY <1>5, <2>4
  <2>7. log[i].dt \in Nat /\ log[Seen].dt \in Nat /\ delta \in Nat
    <3>1. i \in 1..Len(log)
      <4>1. i \in 1..idx /\ idx \in Nat /\ idx <= Len(log)
        BY <2>4, LogFacts DEF A, Allowed, AllowedBefore, IInv
      <4>2. Len(log) \in Nat
        BY LogFacts DEF IInv
      <4>. QED  BY <4>1, <4>2
    <3>. QED  BY <1>2, <3>1, LogFacts DEF IInv
  <2>. QED  BY <2>5, <2>6, <2>7
<1>. QED  BY <1>7, <1>8

\* Every certified allow is audited exactly once and in order, and the matured
\* labels at any decision are those that have arrived by then, no more, no fewer:
\* for every log in time order, whatever the label delay.
THEOREM QueueTheorem == Spec => []AuditQueueExact
<1>1. IInv => AuditQueueExact
  BY QueueFIFO, QueueOnTime DEF AuditQueueExact
<1>. QED  BY <1>1, Invariant, PTL

\* The alarm is raised at the first decision whose two windows of known audits
\* differ by more than the threshold, and warm-up ends at the first with two full
\* windows: the incremental queue decides the declarative rule.
THEOREM AlarmTheorem == Spec => []AlarmExact
<1>1. IInv => AlarmExact
  BY DEF IInv, AlarmExact
<1>. QED  BY <1>1, Invariant, PTL

\* The exposure column is what was certified between injection and alarm, never
\* above the exposure without a monitor.
THEOREM ExposureTheorem == Spec => []ExposureAccounts
<1>1. ASSUME IInv, Returned, NEW regime \in {"control", "underfit", "label_shift"}
      PROVE  /\ exposure(regime) <= no_monitor_exposure
             /\ true_detection(regime) =>
                  alarm.cum_at_alarm = exposure(regime) + total_cert_allowed_frauds(log, 0, TReg)
             /\ alarm.raised => (true_detection(regime) <=> ~false_alarm(regime))
  <2>. DEFINE T(a, b) == total_cert_allowed_frauds(log, a, b)
              N == Len(log)
  <2>1. /\ idx \in Nat /\ idx <= N /\ N \in Nat /\ TReg \in Nat
        /\ cum = T(0, idx)
        /\ alarm.raised => alarm.alarm_decision_idx = idx /\ alarm.cum_at_alarm = cum
    <3>1. alarm.raised => alarm.alarm_decision_idx = idx /\ alarm.cum_at_alarm = cum
      BY <1>1 DEF IInv, AlarmInv, NoAlarm
    <3>2. TypeOK /\ cum = T(0, idx)
      BY <1>1 DEF IInv, CountInv
    <3>. QED  BY <3>1, <3>2, LogFacts, MonitorAssumption
  <2>2. T(TReg, N) \in Nat
    <3>1. T(TReg, N) = Cardinality({i \in (TReg + 1)..N : log[i].cert_allow /\ log[i].fraud = 1})
      BY DEF total_cert_allowed_frauds
    <3>. QED  BY <2>1, <3>1, CountFinite
  <2>. HIDE DEF T, N
  <2>3. CASE true_detection(regime)
    <3>1. alarm.raised /\ TReg <= idx /\ regime # "control"
      BY <2>1, <2>3 DEF true_detection
    <3>2. exposure(regime) = T(TReg, idx)
      BY <2>1, <2>3, <3>1 DEF exposure, T
    <3>3. /\ T(TReg, idx) \in Nat /\ T(idx, N) \in Nat
          /\ T(TReg, N) = T(TReg, idx) + T(idx, N)
      BY <2>1, <3>1, CountSplits DEF T
    <3>4. T(0, TReg) \in Nat /\ T(0, idx) = T(0, TReg) + T(TReg, idx)
      <4>1. 0 \in Nat /\ 0 <= TReg
        BY <2>1
      <4>. QED  BY <2>1, <3>1, <4>1, CountSplits DEF T
    <3>5. no_monitor_exposure = T(TReg, N)
      BY DEF no_monitor_exposure, T, N
    <3>6. ~false_alarm(regime)
      BY <2>1, <3>1 DEF false_alarm
    <3>7. exposure(regime) <= no_monitor_exposure
      BY <3>2, <3>3, <3>5
    <3>8. alarm.cum_at_alarm = exposure(regime) + T(0, TReg)
      BY <2>1, <3>1, <3>2, <3>3, <3>4
    <3>. QED  BY <2>3, <3>6, <3>7, <3>8 DEF T
  <2>4. CASE ~true_detection(regime)
    <3>1. exposure(regime) = T(TReg, N) /\ no_monitor_exposure = T(TReg, N)
      BY <2>4 DEF exposure, no_monitor_exposure, T, N
    <3>2. exposure(regime) <= no_monitor_exposure
      BY <2>2, <3>1
    <3>3. alarm.raised => false_alarm(regime)
      BY <2>1, <2>4 DEF true_detection, false_alarm
    <3>. QED  BY <2>4, <3>2, <3>3
  <2>. QED  BY <2>3, <2>4
<1>2. IInv => ExposureAccounts
  BY <1>1 DEF ExposureAccounts
<1>. QED  BY <1>2, Invariant, PTL

-----------------------------------------------------------------------------
(***************************************************************************)
(* AuditStopping, for any regimes, log length, delay, schedule, tolerance  *)
(* and table of bounds.                                                    *)
(***************************************************************************)

\* What holds at 0 and is handed from each index to the next holds up to n.
LEMMA Along ==
  ASSUME NEW n \in Nat, NEW T, 0 \in T, \A j \in 1..n : j - 1 \in T => j \in T
  PROVE  0..n \subseteq T
<1>. SUFFICES ASSUME NEW x \in 0..n, x \notin T  PROVE FALSE
  OBVIOUS
<1>. DEFINE U == {k \in 0..n : k \notin T}
            R == {ss \in Nat \X Nat : ss[1] < ss[2]}
<1>1. U \in SUBSET Nat /\ U # {}
  OBVIOUS
<1>2. \E u \in U : \A v \in U : ~ (<<v, u>> \in R)
  <2>1. IsWellFoundedOn(R, Nat)
    BY NatLessThanWellFounded, Zenon DEF OpToRel
  <2>. HIDE DEF R, U
  <2>. QED  BY <1>1, <2>1, WFMin
<1>3. PICK u \in U : \A v \in U : ~ (v < u)
  BY <1>1, <1>2
<1>4. u \in 1..n /\ u - 1 \in T
  BY <1>3
<1>. QED  BY <1>3, <1>4

\* A value at 0 and a step give a function on 0..n.
Steps(step, n, S) == \A j \in 1..n : \A x \in S : step[<<j, x>>] \in S
Iterates(f, step, start, n, S) ==
  f \in [0..n -> S] /\ f[0] = start /\ \A j \in 1..n : f[j] = step[<<j, f[j - 1]>>]

LEMMA Recursion ==
  ASSUME NEW n \in Nat, NEW S, NEW start \in S, NEW step, Steps(step, n, S)
  PROVE  \E f : Iterates(f, step, start, n, S)
<1>. USE DEF Steps, Iterates
<1>. DEFINE Up(k, f) == Iterates(f, step, start, k, S)
            T == {k \in 0..n : \E f : Up(k, f)}
<1>1. 0 \in T
  <2>1. Up(0, [i \in 0..0 |-> start])
    OBVIOUS
  <2>2. \E f : Up(0, f)
    <3>. HIDE DEF Up
    <3>. QED  BY <2>1
  <2>3. 0 \in 0..n
    OBVIOUS
  <2>. QED  BY <2>2, <2>3
<1>2. ASSUME NEW k \in 1..n, k - 1 \in T  PROVE k \in T
  <2>1. PICK f : Up(k - 1, f)
    BY <1>2
  <2>. DEFINE g == [i \in 0..k |-> IF i = k THEN step[<<k, f[k - 1]>>] ELSE f[i]]
  <2>2. f[k - 1] \in S /\ \A i \in 0..(k - 1) : f[i] \in S
    BY <2>1
  <2>3. g \in [0..k -> S] /\ g[k] = step[<<k, f[k - 1]>>] /\ \A i \in 0..(k - 1) : g[i] = f[i]
    BY <2>2
  <2>4. g[0] = start
    BY <2>1, <2>3
  <2>5. ASSUME NEW j \in 1..k  PROVE g[j] = step[<<j, g[j - 1]>>]
    <3>1. g[j - 1] = f[j - 1]
      BY <2>3
    <3>2. CASE j = k  BY <2>3, <3>1, <3>2
    <3>3. CASE j # k
      <4>1. j \in 1..(k - 1)  BY <3>3
      <4>. QED  BY <2>1, <2>3, <3>1, <4>1
    <3>. QED  BY <3>2, <3>3
  <2>6. Up(k, g)
    BY <2>3, <2>4, <2>5
  <2>7. \E h : Up(k, h)
    <3>. HIDE DEF Up, g
    <3>. QED  BY <2>6
  <2>8. k \in 0..n
    OBVIOUS
  <2>. QED  BY <2>7, <2>8
<1>3. 0..n \subseteq T
  <2>. HIDE DEF T
  <2>. QED  BY <1>1, <1>2, Along
<1>4. n \in T
  BY <1>3
<1>. QED  BY <1>4

LEMMA ScheduleTyped ==
  ASSUME StoppingAssumption
  PROVE  \A j \in 0..Decisions : Schedule[j] \in Nat
<1>. USE DEF StoppingAssumption
<1>. DEFINE Grow(x) == Larger(x + Res, (x * RatioNum) \div RatioDen)
            step == [q \in (1..Decisions) \X Nat |-> Grow(q[2])]
            Is(f) == f = [j \in 0..Decisions |-> IF j = 0 THEN N0 * Res ELSE Grow(f[j - 1])]
<1>1. \A x \in Nat : Grow(x) \in Nat
  <2>1. ASSUME NEW x \in Nat  PROVE Grow(x) \in Nat
    <3>1. x * RatioNum \in Nat /\ x + Res \in Nat
      OBVIOUS
    <3>2. (x * RatioNum) \div RatioDen \in Nat
      <4>. DEFINE y == x * RatioNum
      <4>1. y \in Nat  BY <3>1
      <4>. HIDE DEF y
      <4>2. y \div RatioDen \in Nat  BY <4>1
      <4>. QED  BY <4>2 DEF y
    <3>. QED  BY <3>1, <3>2 DEF Larger
  <2>. QED  BY <2>1
<1>. HIDE DEF Grow
<1>2. N0 * Res \in Nat
  OBVIOUS
<1>3. Steps(step, Decisions, Nat)
  BY <1>1 DEF Steps
<1>4. PICK g : Iterates(g, step, N0 * Res, Decisions, Nat)
  <2>1. Decisions \in Nat
    OBVIOUS
  <2>. HIDE DEF step
  <2>. QED  BY <1>2, <1>3, <2>1, Recursion
<1>5. Is(g)
  <2>1. ASSUME NEW j \in 1..Decisions  PROVE g[j] = Grow(g[j - 1])
    <3>1. g[j - 1] \in Nat
      BY <1>4 DEF Iterates
    <3>2. \A q \in (1..Decisions) \X Nat : step[q] = Grow(q[2])
      OBVIOUS
    <3>3. step[<<j, g[j - 1]>>] = Grow(g[j - 1])
      <4>. HIDE DEF step
      <4>. QED  BY <3>1, <3>2
    <3>. QED  BY <1>4, <3>3 DEF Iterates
  <2>. QED  BY <1>4, <2>1 DEF Iterates
<1>6. Schedule = CHOOSE f : Is(f)
  BY DEF Schedule, Grow
<1>7. Is(Schedule)
  <2>. HIDE DEF Is
  <2>. QED  BY <1>5, <1>6
<1>. DEFINE T == {j \in 0..Decisions : Schedule[j] \in Nat}
<1>8. 0 \in T /\ \A j \in 1..Decisions : j - 1 \in T => j \in T
  <2>1. Schedule[0] = N0 * Res /\ \A j \in 1..Decisions : Schedule[j] = Grow(Schedule[j - 1])
    <3>. DEFINE s == Schedule
    <3>1. s = [j \in 0..Decisions |-> IF j = 0 THEN N0 * Res ELSE Grow(s[j - 1])]
      BY <1>7
    <3>. HIDE DEF s
    <3>2. s[0] = N0 * Res /\ \A j \in 1..Decisions : s[j] = Grow(s[j - 1])
      BY <3>1
    <3>. QED  BY <3>2 DEF s
  <2>2. Schedule[0] \in Nat
    BY <1>2, <2>1
  <2>3. ASSUME NEW j \in 1..Decisions, Schedule[j - 1] \in Nat  PROVE Schedule[j] \in Nat
    <3>1. Schedule[j] = Grow(Schedule[j - 1])
      BY <2>1
    <3>. QED  BY <1>1, <2>3, <3>1
  <2>. QED  BY <2>2, <2>3
<1>9. 0..Decisions \subseteq T
  <2>. HIDE DEF T
  <2>. QED  BY <1>8, Along
<1>. QED  BY <1>9

\* A checkpoint is an audit count.
LEMMA CheckpointsBounded ==
  ASSUME StoppingAssumption, NEW n \in Nat
  PROVE  /\ CheckpointSet(n) \in SUBSET (0..n)
         /\ CheckpointSet(n) \in SUBSET Nat /\ IsFiniteSet(CheckpointSet(n))
<1>1. ASSUME NEW a \in Nat, a < n * Res  PROVE a \div Res \in 0..n
  <2>1. Res \in Nat \ {0}
    BY DEF StoppingAssumption
  <2>2. a \div Res \in Nat /\ Res * (a \div Res) <= a
    BY <2>1
  <2>. DEFINE q == a \div Res
  <2>3. q \in Nat /\ Res * q <= a
    BY <2>2
  <2>. HIDE DEF q
  <2>4. q <= n
    <3>1. SUFFICES ASSUME q >= n  PROVE q = n
      BY <2>3
    <3>2. Res * q >= Res * n
      BY <2>1, <2>3, <3>1
    <3>. QED  BY <1>1, <2>1, <2>3, <3>2
  <2>. QED  BY <2>3, <2>4 DEF q
<1>2. CheckpointSet(n) \in SUBSET (0..n)
  BY <1>1, ScheduleTyped DEF CheckpointSet
<1>3. IsFiniteSet(0..n)
  BY FS_Interval
<1>. QED  BY <1>2, <1>3, FS_Subset

\* Below m, the checkpoints do not depend on how long the stream goes on after m.
LEMMA CheckpointsAgree ==
  ASSUME StoppingAssumption, NEW n \in Nat, NEW m \in 0..n, NEW c \in 0..(m - 1)
  PROVE  c \in CheckpointSet(m) <=> c \in CheckpointSet(n)
<1>1. Res \in Nat \ {0}
  BY DEF StoppingAssumption
<1>2. ASSUME NEW a \in Nat
      PROVE  /\ a < m * Res => a < n * Res
             /\ a \div Res < m => a < m * Res
  <2>1. m * Res <= n * Res /\ m * Res \in Nat /\ n * Res \in Nat
    BY <1>1
  <2>2. a \div Res < m => a < m * Res
    BY <1>1
  <2>. QED  BY <2>1, <2>2
<1>3. \A j \in 0..Decisions : Schedule[j] \in Nat
  BY ScheduleTyped
<1>4. ASSUME c \in CheckpointSet(m)  PROVE c \in CheckpointSet(n)
  <2>1. PICK j \in 0..Decisions : Schedule[j] < m * Res /\ c = Schedule[j] \div Res
    BY <1>4 DEF CheckpointSet
  <2>. QED  BY <1>2, <1>3, <2>1 DEF CheckpointSet
<1>5. ASSUME c \in CheckpointSet(n)  PROVE c \in CheckpointSet(m)
  <2>1. PICK j \in 0..Decisions : Schedule[j] < n * Res /\ c = Schedule[j] \div Res
    BY <1>5 DEF CheckpointSet
  <2>2. Schedule[j] < m * Res
    BY <1>2, <1>3, <2>1
  <2>. QED  BY <2>1, <2>2 DEF CheckpointSet
<1>. QED  BY <1>4, <1>5

-----------------------------------------------------------------------------
(* The two searches of the stopping rule.                                  *)

First(H) == IF H = {} THEN None ELSE CHOOSE i \in H : \A h \in H : i <= h

LEMMA FirstIs ==
  ASSUME NEW C \in Nat, NEW H \in SUBSET (1..C)
  PROVE  IF H = {} THEN First(H) = None
         ELSE First(H) \in H /\ First(H) # None /\ \A h \in H : First(H) <= h
<1>1. CASE H = {}
  BY <1>1 DEF First
<1>2. CASE H # {}
  <2>. DEFINE T == {k \in 0..C : \A h \in H : h > k}
  <2>1. \E i \in H : \A h \in H : i <= h
    <3>1. SUFFICES ASSUME \A i \in H : \E h \in H : h < i  PROVE FALSE
      <4>1. \A i, h \in H : i \in Int /\ h \in Int
        OBVIOUS
      <4>. QED  BY <4>1
    <3>2. 0 \in T
      OBVIOUS
    <3>3. ASSUME NEW j \in 1..C, j - 1 \in T  PROVE j \in T
      <4>1. j \notin H
        <5>1. SUFFICES ASSUME j \in H  PROVE FALSE
          OBVIOUS
        <5>2. PICK h \in H : h < j
          BY <3>1, <5>1
        <5>. QED  BY <3>3, <5>2
      <4>2. \A h \in H : h > j - 1 /\ h # j /\ h \in Int
        BY <3>3, <4>1
      <4>3. \A h \in H : h > j
        BY <4>2
      <4>. QED  BY <4>3
    <3>4. 0..C \subseteq T
      <4>. HIDE DEF T
      <4>. QED  BY <3>2, <3>3, Along
    <3>5. C \in T
      BY <3>4
    <3>6. PICK h : h \in H
      BY <1>2
    <3>. QED  BY <3>5, <3>6
  <2>. DEFINE best == CHOOSE i \in H : \A h \in H : i <= h
  <2>2. best \in H /\ \A h \in H : best <= h
    BY <2>1
  <2>3. First(H) = best
    BY <1>2 DEF First
  <2>. HIDE DEF best
  <2>4. best # None
    BY <2>2 DEF None
  <2>. QED  BY <1>2, <2>2, <2>3, <2>4
<1>. QED  BY <1>1, <1>2

\* A published sequence: C entries at growing audit counts.
Growing(seq, C) ==
  /\ C \in Nat /\ DOMAIN seq = 1..C /\ Len(seq) = C
  /\ \A i \in 1..C : seq[i].N \in Nat
  /\ \A i, j \in 1..C : i < j => seq[i].N < seq[j].N

LEMMA PublishedGrowing ==
  ASSUME StoppingAssumption, NEW x, Len(x) \in Nat
  PROVE  /\ Growing(PublishedBounds(x), Cardinality(CheckpointSet(Len(x))))
         /\ \A i \in DOMAIN PublishedBounds(x) :
              LET c == InOrder(CheckpointSet(Len(x)))[i]
              IN  /\ PublishedBounds(x)[i].N = c /\ c \in CheckpointSet(Len(x))
                  /\ PublishedBounds(x)[i].p_bar = CPUpper[i - 1][c][FraudCount(SubSeq(x, 1, c))]
<1>. DEFINE S == CheckpointSet(Len(x))
            C == Cardinality(S)
            seq == PublishedBounds(x)
<1>1. S \in SUBSET Nat /\ IsFiniteSet(S) /\ C \in Nat
  BY CheckpointsBounded, FS_CardinalityType
<1>2. Checkpoints(Len(x)) = InOrder(S) /\ DOMAIN InOrder(S) = 1..C
  BY DEF Checkpoints, Ascending, InOrder
<1>3. seq = [j \in 1..C |-> [N |-> InOrder(S)[j],
               p_bar |-> CPUpper[j - 1][InOrder(S)[j]][FraudCount(SubSeq(x, 1, InOrder(S)[j]))]]]
  BY <1>2 DEF PublishedBounds
<1>4. \A j \in 1..C : InOrder(S)[j] \in S /\ Rank(S, InOrder(S)[j]) = j - 1
  BY <1>1, InOrderAt
<1>5. ASSUME NEW i \in 1..C, NEW j \in 1..C, i < j
      PROVE  InOrder(S)[i] < InOrder(S)[j]
  <2>. DEFINE a == InOrder(S)[i]
              b == InOrder(S)[j]
  <2>1. a \in S /\ b \in S /\ Rank(S, a) = i - 1 /\ Rank(S, b) = j - 1 /\ a \in Nat /\ b \in Nat
    BY <1>1, <1>4
  <2>. HIDE DEF a, b, S
  <2>2. ~(b < a)
    <3>1. SUFFICES ASSUME b < a  PROVE FALSE
      OBVIOUS
    <3>2. Rank(S, b) < Rank(S, a)
      BY <1>1, <2>1, <3>1, RankMonotone
    <3>. QED  BY <1>5, <2>1, <3>2
  <2>3. a # b
    BY <1>5, <2>1
  <2>4. a < b
    BY <2>1, <2>2, <2>3
  <2>. QED  BY <2>4 DEF a, b, S
<1>6. DOMAIN seq = 1..C /\ Len(seq) = C
  <2>. DEFINE E(j) == [N |-> InOrder(S)[j],
               p_bar |-> CPUpper[j - 1][InOrder(S)[j]][FraudCount(SubSeq(x, 1, InOrder(S)[j]))]]
  <2>. HIDE DEF E, S, C
  <2>1. \A s : s = [j \in 1..C |-> E(j)] => DOMAIN s = 1..C /\ Len(s) = C
    BY <1>1 DEF C
  <2>. QED  BY <1>3, <2>1 DEF E, S
<1>7. \A i \in 1..C : seq[i].N \in Nat
  BY <1>1, <1>3, <1>4
<1>8. \A i, j \in 1..C : i < j => seq[i].N < seq[j].N
  BY <1>3, <1>5
<1>9. Growing(seq, C)
  BY <1>1, <1>6, <1>7, <1>8 DEF Growing
<1>. QED  BY <1>3, <1>4, <1>6, <1>9

Good(seq, p) == {i \in DOMAIN seq : seq[i].p_bar <= p}

LEMMA EstablishIs ==
  ASSUME NEW seq, NEW C, Growing(seq, C), NEW p
  PROVE  IF Good(seq, p) = {} THEN Establish(seq, p) = None
         ELSE \E e \in Good(seq, p) : /\ \A g \in Good(seq, p) : e <= g
                                      /\ Establish(seq, p) = seq[e].N /\ seq[e].N # None
<1>1. Good(seq, p) \in SUBSET (1..C) /\ C \in Nat
  BY DEF Good, Growing
<1>. DEFINE i == First(Good(seq, p))
<1>2. Establish(seq, p) = IF i = None THEN None ELSE seq[i].N
  BY DEF Establish, FirstIn, First, Good
<1>3. IF Good(seq, p) = {} THEN i = None
      ELSE i \in Good(seq, p) /\ i # None /\ \A g \in Good(seq, p) : i <= g
  BY <1>1, FirstIs
<1>4. \A k \in 1..C : seq[k].N # None
  BY DEF Growing, None
<1>. HIDE DEF i
<1>. QED  BY <1>1, <1>2, <1>3, <1>4

\* The first loss after the first success.
Loses(seq, p, e, h) ==
  /\ e \in Good(seq, p) /\ \A g \in Good(seq, p) : e <= g
  /\ h \in DOMAIN seq /\ e < h /\ seq[h].p_bar > p
  /\ \A i \in DOMAIN seq : e < i /\ i < h => ~(seq[i].p_bar > p)

LEMMA HaltIs ==
  ASSUME NEW seq, NEW C, Growing(seq, C), NEW p
  PROVE  \/ /\ Halt(seq, p) = None
            /\ \A g \in Good(seq, p), h \in DOMAIN seq : g < h => ~(seq[h].p_bar > p)
         \/ \E e, h \in 1..C : Loses(seq, p, e, h) /\ Halt(seq, p) = seq[h].N /\ seq[h].N # None
<1>. DEFINE n_est == Establish(seq, p)
            H == {k \in DOMAIN seq : n_est # None /\ seq[k].N > n_est /\ seq[k].p_bar > p}
            i == First(H)
<1>1. H \in SUBSET (1..C) /\ C \in Nat /\ DOMAIN seq = 1..C
  BY DEF Growing
<1>2. Halt(seq, p) = IF i = None THEN None ELSE seq[i].N
  BY DEF Halt, FirstIn, First
<1>3. IF H = {} THEN i = None ELSE i \in H /\ i # None /\ \A h \in H : i <= h
  <2>. HIDE DEF H
  <2>. QED  BY <1>1, FirstIs
<1>4. \A k \in 1..C : seq[k].N # None /\ seq[k].N \in Nat
  BY DEF Growing, None
<1>5. CASE Good(seq, p) = {}
  <2>1. n_est = None
    BY <1>5, EstablishIs
  <2>2. H = {}
    BY <2>1
  <2>. QED  BY <1>2, <1>3, <1>5, <2>2
<1>6. CASE Good(seq, p) # {}
  <2>1. PICK e \in Good(seq, p) : /\ \A g \in Good(seq, p) : e <= g
                                  /\ n_est = seq[e].N /\ seq[e].N # None
    BY <1>6, EstablishIs
  <2>2. e \in 1..C /\ \A g \in Good(seq, p) : g \in 1..C
    BY <1>1 DEF Good
  <2>3. \A k \in 1..C : seq[k].N > seq[e].N <=> e < k
    <3>1. ASSUME NEW k \in 1..C  PROVE seq[k].N > seq[e].N <=> e < k
      <4>1. e < k => seq[e].N < seq[k].N
        BY <2>2 DEF Growing
      <4>2. k < e => seq[k].N < seq[e].N
        BY <2>2 DEF Growing
      <4>3. seq[k].N \in Nat /\ seq[e].N \in Nat
        BY <1>4, <2>2
      <4>4. k < e \/ k = e \/ e < k
        BY <2>2
      <4>. QED  BY <4>1, <4>2, <4>3, <4>4
    <3>. QED  BY <3>1
  <2>4. H = {k \in 1..C : e < k /\ seq[k].p_bar > p}
    BY <1>1, <2>1, <2>3
  <2>5. CASE H = {}
    <3>1. \A k \in 1..C : e < k => ~(seq[k].p_bar > p)
      BY <2>4, <2>5
    <3>2. \A g \in Good(seq, p), h \in DOMAIN seq : g < h => ~(seq[h].p_bar > p)
      BY <1>1, <2>1, <2>2, <3>1
    <3>. QED  BY <1>2, <1>3, <2>5, <3>2
  <2>6. CASE H # {}
    <3>1. i \in 1..C /\ e < i /\ seq[i].p_bar > p /\ i # None /\ \A h \in H : i <= h
      BY <1>3, <2>4, <2>6
    <3>2. \A k \in 1..C : e < k /\ k < i => ~(seq[k].p_bar > p)
      <4>1. \A k \in 1..C : e < k /\ seq[k].p_bar > p => i <= k
        BY <2>4, <3>1
      <4>. HIDE DEF H, i
      <4>. QED  BY <3>1, <4>1
    <3>3. Loses(seq, p, e, i)
      BY <1>1, <2>1, <3>1, <3>2 DEF Loses
    <3>. QED  BY <1>2, <1>4, <2>2, <3>1, <3>3
  <2>. QED  BY <2>5, <2>6
<1>. QED  BY <1>5, <1>6

LEMMA HaltAt ==
  ASSUME NEW seq, NEW C, Growing(seq, C), NEW p, NEW e \in 1..C, NEW h \in 1..C,
         Loses(seq, p, e, h)
  PROVE  Halt(seq, p) = seq[h].N
<1>1. CASE \A g \in Good(seq, p), k \in DOMAIN seq : g < k => ~(seq[k].p_bar > p)
  BY <1>1 DEF Loses
<1>2. CASE \E d, k \in 1..C : Loses(seq, p, d, k) /\ Halt(seq, p) = seq[k].N
  <2>1. PICK d \in 1..C, k \in 1..C : Loses(seq, p, d, k) /\ Halt(seq, p) = seq[k].N
    BY <1>2
  <2>2. d = e
    <3>1. d <= e /\ e <= d
      BY <2>1 DEF Loses
    <3>. QED  BY <3>1
  <2>3. ~(h < k) /\ ~(k < h)
    BY <2>1, <2>2 DEF Loses
  <2>4. h = k
    BY <2>3
  <2>. QED  BY <2>1, <2>4
<1>. QED  BY <1>1, <1>2, HaltIs

-----------------------------------------------------------------------------
(* The automaton.                                                          *)

ModeNames == {"waiting", "on", "halted"}
NextMode(seq, p, j, m) ==
  IF m = "waiting" THEN IF seq[j].p_bar <= p THEN "on" ELSE "waiting"
  ELSE IF m = "on" /\ seq[j].p_bar > p THEN "halted" ELSE m

LEMMA ModesIs ==
  ASSUME NEW seq, NEW p, Len(seq) \in Nat
  PROVE  /\ Modes(seq, p)[0] = "waiting"
         /\ \A j \in 1..Len(seq) :
              /\ Modes(seq, p)[j - 1] \in ModeNames
              /\ Modes(seq, p)[j] = NextMode(seq, p, j, Modes(seq, p)[j - 1])
<1>. DEFINE C == Len(seq)
            step == [q \in (1..C) \X ModeNames |-> NextMode(seq, p, q[1], q[2])]
            Is(f) == f = [k \in 0..C |-> IF k = 0 THEN "waiting"
                                         ELSE NextMode(seq, p, k, f[k - 1])]
<1>1. \A j \in 1..C, m \in ModeNames : NextMode(seq, p, j, m) \in ModeNames
  BY DEF ModeNames, NextMode
<1>2. "waiting" \in ModeNames
  BY DEF ModeNames
<1>3. \A j \in 1..C, m \in ModeNames : step[<<j, m>>] = NextMode(seq, p, j, m)
  OBVIOUS
<1>4. Modes(seq, p) = CHOOSE f : Is(f)
  BY DEF Modes, NextMode
<1>. HIDE DEF step
<1>5. Steps(step, C, ModeNames)
  BY <1>1, <1>3 DEF Steps
<1>6. PICK g : Iterates(g, step, "waiting", C, ModeNames)
  <2>. HIDE DEF C
  <2>1. C \in Nat
    BY DEF C
  <2>. QED  BY <1>2, <1>5, <2>1, Recursion
<1>7. Is(g)
  <2>1. ASSUME NEW j \in 1..C  PROVE g[j] = NextMode(seq, p, j, g[j - 1])
    <3>1. g[j - 1] \in ModeNames /\ g[j] = step[<<j, g[j - 1]>>]
      BY <1>6 DEF Iterates
    <3>. QED  BY <1>3, <3>1
  <2>2. g = [k \in 0..C |-> g[k]] /\ g[0] = "waiting"
    BY <1>6 DEF Iterates
  <2>. QED  BY <2>1, <2>2
<1>8. Is(Modes(seq, p))
  <2>. HIDE DEF Is
  <2>. QED  BY <1>4, <1>7
<1>. DEFINE mode == Modes(seq, p)
<1>9. mode = [k \in 0..C |-> IF k = 0 THEN "waiting" ELSE NextMode(seq, p, k, mode[k - 1])]
  BY <1>8
<1>. HIDE DEF mode
<1>10. mode[0] = "waiting" /\ \A j \in 1..C : mode[j] = NextMode(seq, p, j, mode[j - 1])
  BY <1>9
<1>. DEFINE T == {k \in 0..C : mode[k] \in ModeNames}
<1>11. 0 \in T /\ \A j \in 1..C : j - 1 \in T => j \in T
  BY <1>1, <1>2, <1>10
<1>12. 0..C \subseteq T
  <2>. HIDE DEF T
  <2>. QED  BY <1>11, Along
<1>13. \A j \in 1..C : mode[j - 1] \in ModeNames
  BY <1>12
<1>. QED  BY <1>10, <1>13 DEF mode

\* Where the automaton stands after k bounds.
ModesSay(seq, p, k) ==
  /\ Modes(seq, p)[k] \in ModeNames
  /\ Modes(seq, p)[k] = "waiting" <=> \A g \in 1..k : ~(seq[g].p_bar <= p)
  /\ Modes(seq, p)[k] = "halted" <=>
       \E g, h \in 1..k : g < h /\ seq[g].p_bar <= p /\ seq[h].p_bar > p

LEMMA ModesTell ==
  ASSUME NEW seq, NEW p, Len(seq) \in Nat
  PROVE  ModesSay(seq, p, Len(seq))
<1>. DEFINE C == Len(seq)
            T == {k \in 0..C : ModesSay(seq, p, k)}
<1>1. 0 \in T
  <2>1. Modes(seq, p)[0] = "waiting"
    BY ModesIs
  <2>2. ModesSay(seq, p, 0)
    BY <2>1 DEF ModesSay, ModeNames
  <2>. QED  BY <2>2
<1>2. ASSUME NEW j \in 1..C, j - 1 \in T  PROVE j \in T
  <2>. DEFINE Ok(i) == seq[i].p_bar <= p
              Over(i) == seq[i].p_bar > p
              m == Modes(seq, p)[j - 1]
              mm == Modes(seq, p)[j]
  <2>1. /\ m \in {"waiting", "on", "halted"}
        /\ m = "waiting" <=> \A g \in 1..(j - 1) : ~Ok(g)
        /\ m = "halted" <=> \E g, h \in 1..(j - 1) : g < h /\ Ok(g) /\ Over(h)
    BY <1>2 DEF ModesSay, ModeNames
  <2>2. mm = IF m = "waiting" THEN IF Ok(j) THEN "on" ELSE "waiting"
             ELSE IF m = "on" /\ Over(j) THEN "halted" ELSE m
    BY ModesIs DEF NextMode
  <2>3. j \in 0..C /\ j - 1 \in Nat /\ 1..j = (1..(j - 1)) \cup {j}
    OBVIOUS
  <2>. HIDE DEF Ok, Over, m, mm
  <2>4. mm \in {"waiting", "on", "halted"}
    BY <2>1, <2>2
  <2>5. mm = "waiting" <=> \A g \in 1..j : ~Ok(g)
    BY <2>1, <2>2, <2>3
  <2>6. mm = "halted" <=> \E g, h \in 1..j : g < h /\ Ok(g) /\ Over(h)
    <3>1. (\E g, h \in 1..j : g < h /\ Ok(g) /\ Over(h)) <=>
             \/ \E g, h \in 1..(j - 1) : g < h /\ Ok(g) /\ Over(h)
             \/ Over(j) /\ \E g \in 1..(j - 1) : Ok(g)
      BY <2>3
    <3>. QED  BY <2>1, <2>2, <3>1
  <2>7. ModesSay(seq, p, j)
    BY <2>4, <2>5, <2>6 DEF ModesSay, ModeNames, Ok, Over, mm
  <2>. QED  BY <2>3, <2>7
<1>3. 0..C \subseteq T
  <2>. HIDE DEF T
  <2>. QED  BY <1>1, <1>2, Along
<1>. QED  BY <1>3

\* The searches and the automaton agree on every published sequence.
LEMMA SearchesAgree ==
  ASSUME NEW seq, NEW C, Growing(seq, C), NEW p
  PROVE  LET mode == Modes(seq, p)[Len(seq)]
         IN  /\ (Establish(seq, p) # None) <=> mode \in {"on", "halted"}
             /\ (Halt(seq, p) # None) <=> mode = "halted"
<1>. DEFINE mode == Modes(seq, p)[Len(seq)]
<1>1. C \in Nat /\ DOMAIN seq = 1..C /\ Len(seq) = C
  BY DEF Growing
<1>2. /\ mode \in ModeNames
      /\ mode = "waiting" <=> Good(seq, p) = {}
      /\ mode = "halted" <=> \E g \in Good(seq, p), h \in 1..C : g < h /\ seq[h].p_bar > p
  <2>1. ModesSay(seq, p, C)
    BY <1>1, ModesTell
  <2>. QED  BY <1>1, <2>1 DEF ModesSay, Good
<1>3. (Establish(seq, p) # None) <=> Good(seq, p) # {}
  BY EstablishIs
<1>4. (Halt(seq, p) # None) <=> \E g \in Good(seq, p), h \in 1..C : g < h /\ seq[h].p_bar > p
  <2>1. CASE \A g \in Good(seq, p), h \in DOMAIN seq : g < h => ~(seq[h].p_bar > p)
    <3>1. ~ \E e, h \in 1..C : Loses(seq, p, e, h)
      BY <2>1 DEF Loses
    <3>2. Halt(seq, p) = None
      BY <3>1, HaltIs
    <3>. QED  BY <1>1, <2>1, <3>2
  <2>2. CASE \E e, h \in 1..C : Loses(seq, p, e, h) /\ Halt(seq, p) = seq[h].N /\ seq[h].N # None
    BY <1>1, <2>2 DEF Loses
  <2>. QED  BY <2>1, <2>2, HaltIs
<1>. QED  BY <1>2, <1>3, <1>4 DEF ModeNames

-----------------------------------------------------------------------------
(* What is published before the m-th audit is the same for every stream    *)
(* with the same first m audits.                                           *)

LEMMA PublishedAgree ==
  ASSUME StoppingAssumption, NEW X, NEW x \in Seq(X), NEW m \in 0..Len(x)
  PROVE  LET y == SubSeq(x, 1, m)
         IN  \E K \in Nat :
               /\ K <= Cardinality(CheckpointSet(m)) /\ K <= Cardinality(CheckpointSet(Len(x)))
               /\ \A i \in 1..K : PublishedBounds(x)[i] = PublishedBounds(y)[i]
               /\ \A i \in DOMAIN PublishedBounds(y) : PublishedBounds(y)[i].N < m => i <= K
               /\ \A i \in DOMAIN PublishedBounds(x) : PublishedBounds(x)[i].N < m => i <= K
<1>. DEFINE n == Len(x)
            y == SubSeq(x, 1, m)
            S == CheckpointSet(m)
            Z == CheckpointSet(n)
            few == {c \in S : c < m}
            K == Cardinality(few)
<1>1. n \in Nat /\ m \in Nat /\ m <= n /\ Len(y) = m
  OBVIOUS
<1>2. /\ S \in SUBSET (0..m) /\ S \in SUBSET Nat /\ IsFiniteSet(S)
      /\ Z \in SUBSET (0..n) /\ Z \in SUBSET Nat /\ IsFiniteSet(Z)
  <2>. HIDE DEF n
  <2>. QED  BY <1>1, CheckpointsBounded
<1>3. \A c \in Nat : c < m => (c \in S <=> c \in Z)
  <2>1. \A c \in 0..(m - 1) : c \in S <=> c \in Z
    <3>. HIDE DEF n
    <3>. QED  BY <1>1, CheckpointsAgree
  <2>. QED  BY <1>1, <2>1
<1>4. \A c \in Nat : c < m => SubSeq(y, 1, c) = SubSeq(x, 1, c)
  OBVIOUS
<1>. HIDE DEF S, Z, y
<1>5. /\ few \in SUBSET S /\ few \in SUBSET Z
      /\ \A i \in few : \A j \in S : j < i => j \in few
      /\ \A i \in few : \A j \in Z : j < i => j \in few
  <2>1. \A c \in few : c \in S /\ c \in Z /\ c \in Nat /\ c < m
    BY <1>2, <1>3
  <2>2. \A i \in few, j \in Nat : j < i => j < m
    BY <1>1, <2>1
  <2>. QED  BY <1>2, <1>3, <2>1, <2>2
<1>6. /\ \A c \in S : c \in few <=> c < m
      /\ \A c \in Z : c \in few <=> c < m
  BY <1>2, <1>3
<1>. HIDE DEF few
<1>7. /\ K \in 0..Cardinality(S)
      /\ \A i \in 1..Cardinality(S) : InOrder(S)[i] \in few <=> i <= K
      /\ \A i \in 1..K : InOrder(few)[i] = InOrder(S)[i]
  BY <1>2, <1>5, InOrderInitial
<1>8. /\ K \in 0..Cardinality(Z)
      /\ \A i \in 1..Cardinality(Z) : InOrder(Z)[i] \in few <=> i <= K
      /\ \A i \in 1..K : InOrder(few)[i] = InOrder(Z)[i]
  BY <1>2, <1>5, InOrderInitial
<1>9. Cardinality(S) \in Nat /\ Cardinality(Z) \in Nat
  BY <1>2, FS_CardinalityType
<1>10. /\ DOMAIN PublishedBounds(y) = 1..Cardinality(S)
       /\ \A i \in 1..Cardinality(S) :
            /\ InOrder(S)[i] \in S
            /\ PublishedBounds(y)[i].N = InOrder(S)[i]
            /\ PublishedBounds(y)[i] =
                 [N |-> InOrder(S)[i],
                  p_bar |-> CPUpper[i - 1][InOrder(S)[i]][FraudCount(SubSeq(y, 1, InOrder(S)[i]))]]
  <2>1. Checkpoints(Len(y)) = InOrder(S) /\ DOMAIN InOrder(S) = 1..Cardinality(S)
    BY <1>1 DEF Checkpoints, Ascending, InOrder, S
  <2>2. \A i \in 1..Cardinality(S) : InOrder(S)[i] \in S
    BY <1>2, InOrderAt
  <2>. QED  BY <2>1, <2>2 DEF PublishedBounds
<1>11. /\ DOMAIN PublishedBounds(x) = 1..Cardinality(Z)
       /\ \A i \in 1..Cardinality(Z) :
            /\ InOrder(Z)[i] \in Z
            /\ PublishedBounds(x)[i].N = InOrder(Z)[i]
            /\ PublishedBounds(x)[i] =
                 [N |-> InOrder(Z)[i],
                  p_bar |-> CPUpper[i - 1][InOrder(Z)[i]][FraudCount(SubSeq(x, 1, InOrder(Z)[i]))]]
  <2>1. Checkpoints(Len(x)) = InOrder(Z) /\ DOMAIN InOrder(Z) = 1..Cardinality(Z)
    BY <1>1 DEF Checkpoints, Ascending, InOrder, Z
  <2>2. \A i \in 1..Cardinality(Z) : InOrder(Z)[i] \in Z
    BY <1>2, InOrderAt
  <2>. QED  BY <2>1, <2>2 DEF PublishedBounds
<1>. HIDE DEF K
<1>12. ASSUME NEW i \in 1..K
       PROVE  PublishedBounds(x)[i] = PublishedBounds(y)[i]
  <2>1. i \in 1..Cardinality(S) /\ i \in 1..Cardinality(Z)
    BY <1>7, <1>8, <1>9
  <2>2. InOrder(Z)[i] = InOrder(S)[i] /\ InOrder(S)[i] \in S /\ InOrder(S)[i] \in few
    BY <1>7, <1>8, <1>10, <2>1
  <2>3. InOrder(S)[i] \in Nat /\ InOrder(S)[i] < m
    BY <1>2, <1>6, <2>2
  <2>4. SubSeq(y, 1, InOrder(S)[i]) = SubSeq(x, 1, InOrder(Z)[i])
    BY <1>4, <2>2, <2>3
  <2>. QED  BY <1>10, <1>11, <2>1, <2>2, <2>4
<1>13. /\ \A i \in 1..Cardinality(S) : PublishedBounds(y)[i].N < m => i <= K
       /\ \A i \in 1..Cardinality(Z) : PublishedBounds(x)[i].N < m => i <= K
  BY <1>6, <1>7, <1>8, <1>10, <1>11
<1>14. K \in Nat /\ K <= Cardinality(S) /\ K <= Cardinality(Z)
  BY <1>7, <1>8, <1>9
<1>. QED  BY <1>10, <1>11, <1>12, <1>13, <1>14 DEF S, Z, y

\* Sequences that agree on K entries lose the guarantee at the same one of them.
LEMMA SameLoss ==
  ASSUME NEW s, NEW t, NEW A, NEW B, Growing(s, A), Growing(t, B), NEW p,
         NEW K \in Nat, K <= A, K <= B, \A i \in 1..K : s[i] = t[i],
         NEW e \in 1..A, NEW h \in 1..A, Loses(s, p, e, h), h <= K
  PROVE  Halt(t, p) = s[h].N
<1>1. /\ A \in Nat /\ DOMAIN s = 1..A /\ B \in Nat /\ DOMAIN t = 1..B
  BY DEF Growing
<1>2. e < h
  BY DEF Loses
<1>3. e \in 1..K /\ h \in 1..K /\ e \in 1..B /\ h \in 1..B
  BY <1>1, <1>2
<1>4. \A i \in 1..K : i \in DOMAIN s /\ i \in DOMAIN t /\ s[i].p_bar = t[i].p_bar
  BY <1>1
<1>5. e \in Good(t, p) /\ h \in DOMAIN t /\ t[h].p_bar > p
  BY <1>3, <1>4 DEF Loses, Good
<1>6. \A g \in Good(t, p) : e <= g
  <2>1. SUFFICES ASSUME NEW g \in Good(t, p), g < e  PROVE FALSE
    BY <1>1, <1>3 DEF Good
  <2>2. g \in 1..K
    BY <1>1, <1>3, <2>1 DEF Good
  <2>3. g \in Good(s, p)
    BY <1>4, <2>1, <2>2 DEF Good
  <2>. QED  BY <1>1, <1>3, <2>1, <2>2, <2>3 DEF Loses
<1>7. \A i \in DOMAIN t : e < i /\ i < h => ~(t[i].p_bar > p)
  <2>1. ASSUME NEW i \in DOMAIN t, e < i, i < h  PROVE ~(t[i].p_bar > p)
    <3>1. i \in 1..K
      BY <1>1, <1>3, <2>1
    <3>. QED  BY <1>4, <2>1, <3>1 DEF Loses
  <2>. QED  BY <2>1
<1>8. Loses(t, p, e, h)
  BY <1>2, <1>5, <1>6, <1>7 DEF Loses
<1>9. Halt(t, p) = t[h].N
  BY <1>3, <1>8, HaltAt
<1>. QED  BY <1>3, <1>9

\* At one tolerance, a beginning of a stream and the whole halt at the same audit, if
\* either halts before the end of that beginning.
LEMMA HaltStays ==
  ASSUME StoppingAssumption, NEW X, NEW x \in Seq(X), NEW m \in 0..Len(x), NEW p
  PROVE  LET whole == Halt(PublishedBounds(x), p)
             part == Halt(PublishedBounds(SubSeq(x, 1, m)), p)
         IN  /\ part # None /\ part < m => whole = part
             /\ whole # None /\ whole < m => part = whole
<1>. DEFINE y == SubSeq(x, 1, m)
            seq == PublishedBounds(x)
            part == PublishedBounds(y)
            CS == Cardinality(CheckpointSet(m))
            CZ == Cardinality(CheckpointSet(Len(x)))
<1>1. PICK K \in Nat : /\ K <= CS /\ K <= CZ
                       /\ \A i \in 1..K : seq[i] = part[i]
                       /\ \A i \in DOMAIN part : part[i].N < m => i <= K
                       /\ \A i \in DOMAIN seq : seq[i].N < m => i <= K
  BY PublishedAgree
<1>2. Len(x) \in Nat /\ Len(y) = m /\ m \in Nat
  OBVIOUS
<1>3. Growing(seq, CZ)
  BY <1>2, PublishedGrowing
<1>4. Growing(part, CS)
  <2>1. Len(y) \in Nat /\ Len(y) = m
    BY <1>2
  <2>. HIDE DEF y
  <2>. QED  BY <2>1, PublishedGrowing
<1>5. /\ CZ \in Nat /\ DOMAIN seq = 1..CZ
      /\ CS \in Nat /\ DOMAIN part = 1..CS
  BY <1>3, <1>4 DEF Growing
<1>. HIDE DEF seq, part, CS, CZ, y
<1>6. ASSUME Halt(part, p) # None, Halt(part, p) < m
      PROVE  Halt(seq, p) = Halt(part, p)
  <2>1. PICK e \in 1..CS, h \in 1..CS : Loses(part, p, e, h) /\ Halt(part, p) = part[h].N
    BY <1>4, <1>6, HaltIs
  <2>2. h <= K /\ \A i \in 1..K : part[i] = seq[i]
    BY <1>1, <1>5, <1>6, <2>1
  <2>. QED  BY <1>1, <1>3, <1>4, <2>1, <2>2, SameLoss
<1>7. ASSUME Halt(seq, p) # None, Halt(seq, p) < m
      PROVE  Halt(part, p) = Halt(seq, p)
  <2>1. PICK e \in 1..CZ, h \in 1..CZ : Loses(seq, p, e, h) /\ Halt(seq, p) = seq[h].N
    BY <1>3, <1>7, HaltIs
  <2>2. h <= K
    BY <1>1, <1>5, <1>7, <2>1
  <2>. QED  BY <1>1, <1>3, <1>4, <2>1, <2>2, SameLoss
<1>. QED  BY <1>6, <1>7 DEF seq, part, y

\* The first regressed audit of a stream is that of a beginning which has one.
LEMMA SettledPrefix ==
  ASSUME NEW X, NEW x \in Seq(X), NEW m \in 0..Len(x), Settled(SubSeq(x, 1, m))
  PROVE  CleanPrefix(SubSeq(x, 1, m)) = CleanPrefix(x)
<1>. DEFINE y == SubSeq(x, 1, m)
            H == {i \in DOMAIN y : y[i].regressed}
            Z == {i \in DOMAIN x : x[i].regressed}
            r == First(H)
<1>1. /\ Len(x) \in Nat /\ m \in Nat /\ m <= Len(x) /\ Len(y) = m
      /\ DOMAIN y = 1..m /\ DOMAIN x = 1..Len(x) /\ \A i \in 1..m : y[i] = x[i]
  OBVIOUS
<1>2. \A k \in 0..m : SubSeq(y, 1, k) = SubSeq(x, 1, k)
  OBVIOUS
<1>3. /\ FirstRegressed(y) = IF r = None THEN None ELSE r - 1
      /\ FirstRegressed(x) = IF First(Z) = None THEN None ELSE First(Z) - 1
  BY DEF FirstRegressed, FirstIn, First
<1>4. FirstRegressed(y) \notin {None, 0}
  BY DEF Settled
<1>. HIDE DEF y
<1>5. H \in SUBSET (1..m) /\ Z \in SUBSET (1..Len(x)) /\ H \subseteq Z
      /\ \A i \in Z : i <= m => i \in H
  BY <1>1
<1>. HIDE DEF H, Z
<1>6. r \in H /\ \A h \in H : r <= h
  BY <1>1, <1>3, <1>4, <1>5, FirstIs
<1>7. First(Z) \in Z /\ \A h \in Z : First(Z) <= h
  BY <1>1, <1>5, <1>6, FirstIs
<1>8. First(Z) = r
  <2>. DEFINE z == First(Z)
  <2>. HIDE DEF r, z
  <2>1. r \in Z /\ r \in 1..m
    BY <1>5, <1>6
  <2>2. z \in 1..Len(x) /\ z <= r
    BY <1>5, <1>7, <2>1 DEF z
  <2>3. z \in H
    BY <1>1, <1>5, <1>7, <2>1, <2>2 DEF z
  <2>. QED  BY <1>1, <1>6, <2>1, <2>2, <2>3 DEF z
<1>9. FirstRegressed(x) = FirstRegressed(y) /\ FirstRegressed(y) = r - 1 /\ r \in 1..m
  BY <1>3, <1>4, <1>5, <1>6, <1>8
<1>10. /\ CleanPrefix(y) = SubSeq(y, 1, r - 1)
       /\ CleanPrefix(x) = SubSeq(x, 1, r - 1)
  BY <1>4, <1>9 DEF CleanPrefix
<1>11. r - 1 \in 0..m
  BY <1>1, <1>9
<1>. QED  BY <1>2, <1>10, <1>11 DEF y

-----------------------------------------------------------------------------
(* The row of a regime.                                                    *)

Label == [fraud : BOOLEAN, regressed : BOOLEAN]
Row == [established : BOOLEAN, halted : BOOLEAN, latency : (-Decisions)..Decisions,
        clean_p_bar : BOOLEAN]

LEMMA RowTyped ==
  ASSUME StoppingAssumption, NEW m \in Seq(Label), Len(m) <= Decisions
  PROVE  analyse_regime(m) \in Row
<1>. DEFINE seq == PublishedBounds(m)
            halt_N == Halt(seq, PStar(m))
            reg == FirstRegressed(m)
            C == Cardinality(CheckpointSet(Len(m)))
<1>1. Len(m) \in Nat /\ DOMAIN m = 1..Len(m) /\ Decisions \in Nat
  BY DEF StoppingAssumption
<1>2. /\ Growing(seq, C)
      /\ \A i \in DOMAIN seq : seq[i].N \in CheckpointSet(Len(m))
  BY <1>1, PublishedGrowing
<1>3. CheckpointSet(Len(m)) \in SUBSET (0..Len(m))
  BY <1>1, CheckpointsBounded
<1>4. halt_N # None => halt_N \in 0..Len(m)
  <2>1. CASE halt_N = None
    BY <2>1
  <2>2. CASE \E e, h \in 1..C : Loses(seq, PStar(m), e, h) /\ halt_N = seq[h].N
    BY <1>2, <1>3, <2>2 DEF Loses
  <2>. HIDE DEF halt_N, seq, C
  <2>3. halt_N = None \/ \E e, h \in 1..C : Loses(seq, PStar(m), e, h) /\ halt_N = seq[h].N
    BY <1>2, HaltIs DEF halt_N
  <2>. QED  BY <2>1, <2>2, <2>3
<1>5. reg # None => reg \in 0..(Len(m) - 1)
  <2>. DEFINE H == {i \in DOMAIN m : m[i].regressed}
              i == First(H)
  <2>1. H \in SUBSET (1..Len(m))
    BY <1>1
  <2>2. reg = IF i = None THEN None ELSE i - 1
    BY DEF FirstRegressed, FirstIn, First
  <2>. HIDE DEF H
  <2>3. IF H = {} THEN i = None ELSE i \in H
    BY <1>1, <2>1, FirstIs
  <2>. HIDE DEF reg, i
  <2>4. reg = None \/ (i \in H /\ reg = i - 1)
    BY <2>2, <2>3
  <2>5. i \in H => i \in 1..Len(m)
    BY <2>1
  <2>6. reg = None \/ (i \in 1..Len(m) /\ reg = i - 1)
    BY <2>4, <2>5
  <2>7. Len(m) \in Nat
    BY <1>1
  <2>. QED  BY <2>6, <2>7
<1>. DEFINE late == IF halt_N # None /\ reg # None THEN halt_N - reg ELSE 0
<1>. HIDE DEF halt_N, reg
<1>6. late \in (-Decisions)..Decisions
  BY <1>1, <1>4, <1>5
<1>7. analyse_regime(m) =
        [established |-> Establish(seq, PStar(m)) # None, halted |-> halt_N # None,
         latency |-> late, clean_p_bar |-> PublishedBounds(CleanPrefix(m)) # <<>>]
  BY DEF analyse_regime, halt_N, reg
<1>. HIDE DEF late, seq
<1>. QED  BY <1>6, <1>7 DEF Row

-----------------------------------------------------------------------------
(* The two queues of matured_stream.                                       *)

Decision == [dt : Nat, cert_allow : BOOLEAN, fraud : BOOLEAN, regressed : BOOLEAN]
Audit == [due : Nat, fraud : BOOLEAN, regressed : BOOLEAN]

LabelAt(i) == [fraud |-> stream[i].fraud, regressed |-> stream[i].regressed]
AuditAt(i) == [due |-> stream[i].dt + DeltaAudit, fraud |-> stream[i].fraud,
               regressed |-> stream[i].regressed]

TimeInv == \A i, j \in DOMAIN stream : i <= j => stream[i].dt <= stream[j].dt

\* The queues together enumerate the allows, cut at the last one labelled.
AuditsInv ==
  /\ Len(audited) = Cardinality(Labelled)
  /\ Len(audited) + Len(pend) = Cardinality(Allows)
  /\ \A n \in 1..Len(audited) : audited[n] = LabelAt(InOrder(Allows)[n])
  /\ \A n \in 1..Len(pend) : pend[n] = AuditAt(InOrder(Allows)[Len(audited) + n])

AuditInv == AuditTypeOK /\ TimeInv /\ AuditsInv

\* The allows whose label is known at a time.
KnownBy(now) == {i \in Allows : stream[i].dt + DeltaAudit <= now}

LEMMA StreamFacts ==
  ASSUME StoppingAssumption, AuditTypeOK, TimeInv
  PROVE  /\ stream \in Seq(Decision) /\ Len(stream) \in Nat /\ DOMAIN stream = 1..Len(stream)
         /\ \A i \in 1..Len(stream) : stream[i].dt \in Nat /\ stream[i].dt <= Now
         /\ Now \in Nat /\ DeltaAudit \in Nat \ {0} /\ Decisions \in Nat
         /\ Allows \in SUBSET (1..Len(stream)) /\ Allows \in SUBSET Nat /\ IsFiniteSet(Allows)
         /\ Cardinality(Allows) \in 0..Len(stream)
         /\ pend \in Seq(Audit) /\ audited \in Seq(Label)
         /\ Len(pend) \in Nat /\ Len(audited) \in Nat
<1>1. /\ stream \in Seq(Decision) /\ pend \in Seq(Audit) /\ audited \in Seq(Label)
      /\ DeltaAudit \in Nat \ {0} /\ Decisions \in Nat
  BY DEF AuditTypeOK, Decision, Audit, Label, StoppingAssumption
<1>2. \A r \in Decision : r.dt \in Nat
  BY DEF Decision
<1>3. /\ Len(stream) \in Nat /\ DOMAIN stream = 1..Len(stream)
      /\ Len(pend) \in Nat /\ Len(audited) \in Nat
      /\ \A i \in 1..Len(stream) : stream[i] \in Decision
  BY <1>1
<1>4. \A i \in 1..Len(stream) : stream[i].dt \in Nat
  BY <1>2, <1>3
<1>5. Now \in Nat /\ \A i \in 1..Len(stream) : stream[i].dt <= Now
  <2>1. CASE stream = <<>>
    BY <2>1 DEF Now
  <2>2. CASE stream # <<>>
    <3>1. Len(stream) \in 1..Len(stream)
      BY <1>1, <1>3, <2>2
    <3>. QED  BY <1>3, <1>4, <2>2, <3>1 DEF Now, TimeInv
  <2>. QED  BY <2>1, <2>2
<1>6. Allows \in SUBSET (1..Len(stream))
  BY <1>3 DEF Allows
<1>7. IsFiniteSet(1..Len(stream)) /\ Cardinality(1..Len(stream)) = Len(stream)
  <2>. DEFINE n == Len(stream)
  <2>. HIDE DEF n
  <2>1. n \in Nat
    BY <1>3 DEF n
  <2>2. IsFiniteSet(1..n) /\ Cardinality(1..n) = IF 1 > n THEN 0 ELSE n - 1 + 1
    BY <2>1, FS_Interval
  <2>3. IsFiniteSet(1..n) /\ Cardinality(1..n) = n
    BY <2>1, <2>2
  <2>. QED  BY <2>3 DEF n
<1>8. IsFiniteSet(Allows) /\ Cardinality(Allows) <= Len(stream)
  BY <1>6, <1>7, FS_Subset
<1>9. Cardinality(Allows) \in 0..Len(stream)
  BY <1>3, <1>8, FS_CardinalityType
<1>. QED  BY <1>1, <1>3, <1>4, <1>5, <1>6, <1>8, <1>9

LEMMA KnownSegment ==
  ASSUME StoppingAssumption, AuditTypeOK, TimeInv, NEW now \in Nat
  PROVE  /\ KnownBy(now) \in SUBSET Allows
         /\ \A i \in Allows : i \in KnownBy(now) <=> stream[i].dt + DeltaAudit <= now
         /\ \A i \in KnownBy(now) : \A j \in Allows : j < i => j \in KnownBy(now)
<1>1. ASSUME NEW i \in KnownBy(now), NEW j \in Allows, j < i
      PROVE  j \in KnownBy(now)
  <2>1. i \in 1..Len(stream) /\ j \in 1..Len(stream) /\ stream[i].dt + DeltaAudit <= now
    BY StreamFacts DEF KnownBy
  <2>2. stream[j].dt <= stream[i].dt
    <3>1. i \in DOMAIN stream /\ j \in DOMAIN stream /\ i \in Nat /\ j \in Nat
      BY <2>1, StreamFacts
    <3>. QED  BY <1>1, <3>1 DEF TimeInv
  <2>3. stream[j].dt \in Nat /\ stream[i].dt \in Nat /\ DeltaAudit \in Nat
    BY <2>1, StreamFacts
  <2>. QED  BY <2>1, <2>2, <2>3 DEF KnownBy
<1>. QED  BY <1>1 DEF KnownBy

\* The audits popped at a time are those that have just become known.
LEMMA HeadsAre ==
  ASSUME StoppingAssumption, AuditInv, NEW now \in Nat, Now <= now
  PROVE  LET c == Cardinality(KnownBy(now))
         IN  /\ c \in Nat /\ c <= Cardinality(Allows) /\ Len(audited) <= c
             /\ c - Len(audited) \in 0..Len(pend)
             /\ DueHeads(now) = c - Len(audited)
<1>. DEFINE A == Allows
            K == KnownBy(now)
            c == Cardinality(K)
            L == Len(audited)
<1>. USE DEF AuditInv
<1>1. A \in SUBSET Nat /\ IsFiniteSet(A) /\ A \in SUBSET (1..Len(stream))
  BY StreamFacts
<1>2. /\ K \in SUBSET A
      /\ \A i \in A : i \in K <=> stream[i].dt + DeltaAudit <= now
      /\ \A i \in K : \A k \in A : k < i => k \in K
  BY KnownSegment
<1>3. L = Cardinality(Labelled) /\ Labelled \in SUBSET K
  <2>1. ASSUME NEW i \in Labelled  PROVE i \in K
    <3>1. i \in A /\ stream[i].dt + DeltaAudit <= Now
      BY DEF Labelled
    <3>2. stream[i].dt + DeltaAudit \in Nat /\ Now \in Nat
      BY <1>1, <3>1, StreamFacts
    <3>3. stream[i].dt + DeltaAudit <= now
      BY <3>1, <3>2
    <3>. QED  BY <1>2, <3>1, <3>3
  <2>. QED  BY <2>1 DEF AuditsInv
<1>4. /\ Len(pend) \in Nat /\ L \in Nat /\ L + Len(pend) = Cardinality(A)
      /\ \A n \in 1..Len(pend) : pend[n] = AuditAt(InOrder(A)[L + n])
  BY StreamFacts DEF AuditsInv
<1>. HIDE DEF A, K, L
<1>5. /\ IsFiniteSet(K) /\ c \in 0..Cardinality(A)
      /\ \A n \in 1..Cardinality(A) : InOrder(A)[n] \in K <=> n <= c
  BY <1>1, <1>2, InOrderInitial
<1>6. L <= c
  BY <1>3, <1>5, FS_Subset
<1>7. Cardinality(A) \in Nat
  BY <1>1, FS_CardinalityType
<1>8. \A n \in 1..Len(pend) : pend[n].due <= now <=> n <= c - L
  <2>. TAKE n \in 1..Len(pend)
  <2>. DEFINE i == InOrder(A)[L + n]
  <2>1. L + n \in 1..Cardinality(A)
    BY <1>4
  <2>2. i \in A
    BY <1>1, <2>1, InOrderAt
  <2>3. pend[n] = AuditAt(i)
    BY <1>4
  <2>. HIDE DEF i
  <2>4. pend[n].due = stream[i].dt + DeltaAudit
    BY <2>3 DEF AuditAt
  <2>5. pend[n].due <= now <=> i \in K
    BY <1>2, <2>2, <2>4
  <2>6. i \in K <=> L + n <= c
    BY <1>5, <2>1 DEF i
  <2>. QED  BY <1>4, <1>5, <1>7, <2>5, <2>6
<1>9. c - L \in 0..Len(pend)
  BY <1>4, <1>5, <1>6, <1>7
<1>10. DueHeads(now) = c - L
  <2>. DEFINE k == c - L
  <2>1. k \in 0..Len(pend) /\ \A n \in 1..Len(pend) : pend[n].due <= now <=> n <= k
    BY <1>8, <1>9
  <2>. HIDE DEF k
  <2>2. DuePrefix(pend, now) = k
    BY <1>4, <2>1, DuePrefixIs
  <2>. QED  BY <2>2 DEF k, DueHeads, DuePrefix
<1>. QED  BY <1>4, <1>5, <1>6, <1>7, <1>9, <1>10 DEF K, L, A

-----------------------------------------------------------------------------
LEMMA LabelsOf ==
  ASSUME NEW p \in Seq(Audit)
  PROVE  /\ OutcomesOf(p) \in Seq(Label) /\ Len(OutcomesOf(p)) = Len(p)
         /\ \A n \in 1..Len(p) :
              OutcomesOf(p)[n] = [fraud |-> p[n].fraud, regressed |-> p[n].regressed]
<1>1. \A r \in Audit : [fraud |-> r.fraud, regressed |-> r.regressed] \in Label
  BY DEF Audit, Label
<1>2. Len(p) \in Nat /\ DOMAIN p = 1..Len(p) /\ \A n \in 1..Len(p) : p[n] \in Audit
  OBVIOUS
<1>3. OutcomesOf(p) = [n \in 1..Len(p) |-> [fraud |-> p[n].fraud, regressed |-> p[n].regressed]]
  BY <1>2 DEF OutcomesOf
<1>4. \A n \in 1..Len(p) : [fraud |-> p[n].fraud, regressed |-> p[n].regressed] \in Label
  BY <1>1, <1>2
<1>. QED  BY <1>2, <1>3, <1>4

\* Popping what is due moves the cut and nothing else.
LEMMA TurnCuts ==
  ASSUME StoppingAssumption, AuditInv, NEW now \in Nat, Now <= now
  PROVE  LET k == DueHeads(now)
             m == audited \o OutcomesOf(SubSeq(pend, 1, k))
             rest == SubSeq(pend, k + 1, Len(pend))
         IN  /\ m \in Seq(Label) /\ Len(m) = Cardinality(KnownBy(now))
             /\ \A n \in 1..Len(m) : m[n] = LabelAt(InOrder(Allows)[n])
             /\ rest \in Seq(Audit)
             /\ Len(m) + Len(rest) = Cardinality(Allows)
             /\ \A n \in 1..Len(rest) : rest[n] = AuditAt(InOrder(Allows)[Len(m) + n])
<1>. DEFINE k == DueHeads(now)
            c == Cardinality(KnownBy(now))
            L == Len(audited)
            N == Len(pend)
            front == SubSeq(pend, 1, k)
            rest == SubSeq(pend, k + 1, Len(pend))
            out == OutcomesOf(front)
            m == audited \o out
<1>1. c \in Nat /\ L \in Nat /\ N \in Nat /\ k = c - L /\ k \in 0..N
      /\ L + N = Cardinality(Allows)
  BY HeadsAre, StreamFacts DEF AuditInv, AuditsInv
<1>2. audited \in Seq(Label) /\ pend \in Seq(Audit)
  BY StreamFacts DEF AuditInv
<1>3. /\ \A n \in 1..L : audited[n] = LabelAt(InOrder(Allows)[n])
      /\ \A n \in 1..N : pend[n] = AuditAt(InOrder(Allows)[L + n])
  BY DEF AuditInv, AuditsInv
<1>. HIDE DEF c, L, k, N
<1>4. /\ front \in Seq(Audit) /\ Len(front) = k
      /\ \A n \in 1..k : front[n] = pend[n]
  <2>1. /\ SubSeq(pend, 0 + 1, k) \in Seq(Audit)
        /\ Len(SubSeq(pend, 0 + 1, k)) = k - 0
        /\ \A n \in 1..(k - 0) : SubSeq(pend, 0 + 1, k)[n] = pend[0 + n]
    <3>1. 0 \in Nat /\ k \in Nat /\ 0 <= k /\ k <= Len(pend)
      BY <1>1 DEF N
    <3>. QED  BY <1>2, <3>1, Slice
  <2>2. 0 + 1 = 1 /\ k - 0 = k /\ \A n \in 1..k : 0 + n = n
    BY <1>1
  <2>. QED  BY <2>1, <2>2
<1>5. /\ rest \in Seq(Audit) /\ Len(rest) = N - k
      /\ \A n \in 1..(N - k) : rest[n] = pend[k + n]
  <2>1. k \in Nat /\ N \in Nat /\ k <= N /\ N <= Len(pend)
    BY <1>1 DEF N
  <2>2. rest = SubSeq(pend, k + 1, N)
    BY DEF N
  <2>3. /\ SubSeq(pend, k + 1, N) \in Seq(Audit)
        /\ Len(SubSeq(pend, k + 1, N)) = N - k
        /\ \A i \in 1..(N - k) : SubSeq(pend, k + 1, N)[i] = pend[k + i]
    BY <1>2, <2>1, Slice
  <2>. QED  BY <2>2, <2>3
<1>6. /\ out \in Seq(Label) /\ Len(out) = k
      /\ \A n \in 1..k : out[n] = [fraud |-> pend[n].fraud, regressed |-> pend[n].regressed]
  <2>. HIDE DEF front
  <2>1. OutcomesOf(front) \in Seq(Label) /\ Len(OutcomesOf(front)) = Len(front)
        /\ \A n \in 1..Len(front) :
             OutcomesOf(front)[n] = [fraud |-> front[n].fraud, regressed |-> front[n].regressed]
    BY <1>4, LabelsOf
  <2>. QED  BY <1>4, <2>1
<1>7. \A n \in 1..k : out[n] = LabelAt(InOrder(Allows)[L + n])
  <2>. TAKE n \in 1..k
  <2>. DEFINE i == InOrder(Allows)[L + n]
  <2>1. n \in 1..N
    BY <1>1
  <2>2. pend[n] = AuditAt(i)
    BY <1>3, <2>1
  <2>. HIDE DEF i, out
  <2>3. pend[n].fraud = stream[i].fraud /\ pend[n].regressed = stream[i].regressed
    BY <2>2 DEF AuditAt
  <2>. QED  BY <1>6, <2>3 DEF LabelAt, i
<1>. HIDE DEF out, rest
<1>9. /\ m \in Seq(Label) /\ Len(m) = L + k
      /\ \A n \in 1..(L + k) : m[n] = IF n <= L THEN audited[n] ELSE out[n - L]
  BY <1>1, <1>2, <1>6 DEF L
<1>. HIDE DEF m
<1>10. Len(m) = c
  BY <1>1, <1>9
<1>11. ASSUME NEW n \in 1..c
       PROVE  m[n] = LabelAt(InOrder(Allows)[n])
  <2>1. CASE n <= L
    <3>1. n \in 1..L /\ n \in 1..(L + k)
      BY <1>1, <2>1
    <3>. QED  BY <1>3, <1>9, <2>1, <3>1
  <2>2. CASE ~(n <= L)
    <3>1. n - L \in 1..k /\ L + (n - L) = n /\ n \in 1..(L + k)
      BY <1>1, <2>2
    <3>. QED  BY <1>7, <1>9, <2>2, <3>1
  <2>. QED  BY <2>1, <2>2
<1>12. Len(m) + Len(rest) = Cardinality(Allows)
  BY <1>1, <1>5, <1>10
<1>13. ASSUME NEW n \in 1..Len(rest)
       PROVE  rest[n] = AuditAt(InOrder(Allows)[Len(m) + n])
  <2>1. n \in 1..(N - k) /\ k + n \in 1..N /\ L + (k + n) = c + n
    BY <1>1, <1>5
  <2>2. rest[n] = AuditAt(InOrder(Allows)[L + (k + n)])
    BY <1>3, <1>5, <2>1
  <2>. QED  BY <1>10, <2>1, <2>2
<1>. QED  BY <1>5, <1>9, <1>10, <1>11, <1>12, <1>13 DEF m, rest, out, k, c

\* One turn of the loop.
LEMMA StreamGrows ==
  ASSUME StoppingAssumption, AuditInv, NEW wait \in {0, 1},
         NEW cert_allow \in BOOLEAN, NEW fraud \in BOOLEAN,
         MaturedTurn(wait, cert_allow, fraud)
  PROVE  LET now == Now + wait
             n == Len(stream)
         IN  /\ now \in Nat /\ Now <= now /\ Now' = now
             /\ stream' \in Seq(Decision) /\ Len(stream') = n + 1 /\ n + 1 <= Decisions
             /\ \A i \in 1..n : stream'[i] = stream[i]
             /\ stream'[n + 1].dt = now /\ stream'[n + 1].cert_allow = cert_allow
             /\ stream'[n + 1] = [dt |-> now, cert_allow |-> cert_allow, fraud |-> fraud,
                                  regressed |-> n >= TRegIdx]
             /\ Allows' = IF cert_allow THEN Allows \cup {n + 1} ELSE Allows
             /\ Labelled' = KnownBy(now)
             /\ TimeInv'
<1>. DEFINE now == Now + wait
            n == Len(stream)
            dec == [dt |-> now, cert_allow |-> cert_allow, fraud |-> fraud,
                    regressed |-> n >= TRegIdx]
<1>1. /\ stream \in Seq(Decision) /\ n \in Nat /\ DOMAIN stream = 1..n /\ Now \in Nat
      /\ \A i \in 1..n : stream[i].dt \in Nat /\ stream[i].dt <= Now
      /\ Allows \in SUBSET (1..n) /\ DeltaAudit \in Nat \ {0} /\ Decisions \in Nat
  BY StreamFacts DEF AuditInv
<1>2. now \in Nat /\ Now <= now
  BY <1>1
<1>3. stream' = Append(stream, dec) /\ n < Decisions
  BY DEF MaturedTurn
<1>4. (n >= TRegIdx) \in BOOLEAN
  OBVIOUS
<1>. HIDE DEF now
<1>5. dec \in Decision /\ dec.dt = now /\ dec.cert_allow = cert_allow
  BY <1>2, <1>4 DEF Decision
<1>. HIDE DEF dec
<1>6. /\ stream' \in Seq(Decision) /\ Len(stream') = n + 1 /\ n + 1 <= Decisions
      /\ DOMAIN stream' = 1..(n + 1)
      /\ \A i \in 1..n : stream'[i] = stream[i]
      /\ stream'[n + 1] = dec
  BY <1>1, <1>3, <1>5
<1>. HIDE DEF n
<1>7. Now' = now
  <2>1. stream' # <<>>
    BY <1>1, <1>6
  <2>. QED  BY <1>5, <1>6, <2>1 DEF Now
<1>8. Allows' = IF cert_allow THEN Allows \cup {n + 1} ELSE Allows
  <2>1. Allows' = {i \in 1..(n + 1) : stream'[i].cert_allow}
    BY <1>6 DEF Allows
  <2>2. Allows = {i \in 1..n : stream[i].cert_allow}
    BY <1>1 DEF Allows
  <2>3. 1..(n + 1) = (1..n) \cup {n + 1}
    BY <1>1
  <2>4. stream'[n + 1].cert_allow = cert_allow
    BY <1>5, <1>6
  <2>5. \A i \in 1..n : stream'[i].cert_allow = stream[i].cert_allow
    BY <1>6
  <2>. QED  BY <2>1, <2>2, <2>3, <2>4, <2>5
<1>9. Labelled' = KnownBy(now)
  <2>1. Labelled' = {i \in Allows' : stream'[i].dt + DeltaAudit <= now}
    BY <1>7 DEF Labelled
  <2>2. ~(stream'[n + 1].dt + DeltaAudit <= now)
    BY <1>1, <1>2, <1>5, <1>6
  <2>3. \A i \in Allows : stream'[i] = stream[i]
    BY <1>1, <1>6
  <2>. QED  BY <1>8, <2>1, <2>2, <2>3 DEF KnownBy
<1>10. TimeInv'
  <2>1. ASSUME NEW i \in 1..(n + 1), NEW j \in 1..(n + 1), i <= j
        PROVE  stream'[i].dt <= stream'[j].dt
    <3>1. CASE j \in 1..n
      <4>1. i \in 1..n
        BY <1>1, <2>1, <3>1
      <4>. QED  BY <1>1, <1>6, <2>1, <3>1, <4>1 DEF AuditInv, TimeInv
    <3>2. CASE i \in 1..n /\ j = n + 1
      <4>1. stream'[i].dt = stream[i].dt /\ stream'[j].dt = now
        BY <1>5, <1>6, <3>2
      <4>. QED  BY <1>1, <1>2, <3>2, <4>1
    <3>3. CASE i = n + 1 /\ j = n + 1
      BY <1>2, <1>5, <1>6, <3>3
    <3>. QED  BY <1>1, <2>1, <3>1, <3>2, <3>3
  <2>. QED  BY <1>6, <2>1 DEF TimeInv
<1>. QED  BY <1>1, <1>2, <1>5, <1>6, <1>7, <1>8, <1>9, <1>10 DEF n, now, dec

-----------------------------------------------------------------------------
(* The inductive invariant is kept.                                        *)

\* The allow of this turn, if it is one, goes to the end of the queue.
LEMMA QueuesStep ==
  ASSUME StoppingAssumption, AuditInv, NEW wait \in {0, 1},
         NEW cert_allow \in BOOLEAN, NEW fraud \in BOOLEAN,
         MaturedTurn(wait, cert_allow, fraud)
  PROVE  AuditsInv' /\ audited' \in Seq(Label) /\ pend' \in Seq(Audit)
<1>. DEFINE now == Now + wait
            new == Len(stream) + 1
            k == DueHeads(now)
            m == audited \o OutcomesOf(SubSeq(pend, 1, k))
            rest == SubSeq(pend, k + 1, Len(pend))
            A == Allows
            last == [due |-> now + DeltaAudit, fraud |-> fraud,
                     regressed |-> Len(stream) >= TRegIdx]
            L(i) == [fraud |-> stream'[i].fraud, regressed |-> stream'[i].regressed]
            E(i) == [due |-> stream'[i].dt + DeltaAudit, fraud |-> stream'[i].fraud,
                     regressed |-> stream'[i].regressed]
<1>1. /\ now \in Nat /\ Now <= now
      /\ \A i \in 1..Len(stream) : stream'[i] = stream[i]
      /\ stream'[new] = [dt |-> now, cert_allow |-> cert_allow, fraud |-> fraud,
                         regressed |-> Len(stream) >= TRegIdx]
      /\ Allows' = IF cert_allow THEN A \cup {new} ELSE A
      /\ Labelled' = KnownBy(now)
  BY StreamGrows
<1>2. /\ A \in SUBSET (1..Len(stream)) /\ A \in SUBSET Nat /\ IsFiniteSet(A)
      /\ Len(stream) \in Nat /\ DeltaAudit \in Nat \ {0}
  BY StreamFacts DEF AuditInv
<1>3. audited' = m /\ pend' = IF cert_allow THEN Append(rest, last) ELSE rest
  BY DEF MaturedTurn
<1>4. last \in Audit
  <2>1. (Len(stream) >= TRegIdx) \in BOOLEAN /\ now + DeltaAudit \in Nat
    BY <1>1, <1>2
  <2>. HIDE DEF now
  <2>. QED  BY <2>1 DEF Audit
<1>5. /\ m \in Seq(Label) /\ Len(m) = Cardinality(KnownBy(now))
      /\ \A n \in 1..Len(m) : m[n] = LabelAt(InOrder(A)[n])
      /\ rest \in Seq(Audit)
      /\ Len(m) + Len(rest) = Cardinality(A)
      /\ \A n \in 1..Len(rest) : rest[n] = AuditAt(InOrder(A)[Len(m) + n])
  <2>. HIDE DEF now
  <2>. QED  BY <1>1, TurnCuts
<1>6. last = E(new)
  BY <1>1
<1>7. \A i \in A : L(i) = LabelAt(i) /\ E(i) = AuditAt(i)
  BY <1>1, <1>2 DEF LabelAt, AuditAt
<1>8. \A n \in 1..Cardinality(A) : InOrder(A)[n] \in A
  BY <1>2, InOrderAt
<1>9. Len(m) \in Nat /\ Len(rest) \in Nat /\ Cardinality(A) \in Nat
  BY <1>2, <1>5, FS_CardinalityType
<1>. HIDE DEF now, m, rest, last, k
<1>. SUFFICES /\ audited' \in Seq(Label) /\ pend' \in Seq(Audit)
              /\ Len(audited') = Cardinality(Labelled')
              /\ Len(audited') + Len(pend') = Cardinality(Allows')
              /\ \A n \in 1..Len(audited') : audited'[n] = L(InOrder(Allows')[n])
              /\ \A n \in 1..Len(pend') : pend'[n] = E(InOrder(Allows')[Len(audited') + n])
  BY DEF AuditsInv, LabelAt, AuditAt, InOrder
<1>. HIDE DEF L, E, A
<1>10. /\ \A n \in 1..Len(m) : m[n] = L(InOrder(A)[n])
       /\ \A n \in 1..Len(rest) : rest[n] = E(InOrder(A)[Len(m) + n])
  <2>1. ASSUME NEW n \in 1..Len(m)  PROVE m[n] = L(InOrder(A)[n])
    <3>1. n \in 1..Cardinality(A)
      BY <1>5, <1>9
    <3>. QED  BY <1>5, <1>7, <1>8, <3>1
  <2>2. ASSUME NEW n \in 1..Len(rest)  PROVE rest[n] = E(InOrder(A)[Len(m) + n])
    <3>1. Len(m) + n \in 1..Cardinality(A)
      BY <1>5, <1>9
    <3>. QED  BY <1>5, <1>7, <1>8, <3>1
  <2>. QED  BY <2>1, <2>2
<1>11. audited' \in Seq(Label) /\ pend' \in Seq(Audit)
  BY <1>3, <1>4, <1>5
<1>12. CASE ~cert_allow
  BY <1>1, <1>3, <1>5, <1>10, <1>11, <1>12
<1>13. CASE cert_allow
  <2>. DEFINE B == A \cup {new}
  <2>1. \A j \in A : j < new
    BY <1>2
  <2>2. /\ Cardinality(B) = Cardinality(A) + 1
        /\ \A n \in 1..Cardinality(A) : InOrder(B)[n] = InOrder(A)[n]
        /\ InOrder(B)[Cardinality(A) + 1] = new
    <3>1. new \in Nat
      BY <1>2
    <3>. HIDE DEF new
    <3>. QED  BY <1>2, <2>1, <3>1, InOrderGrows
  <2>3. /\ Allows' = B
        /\ Len(pend') = Len(rest) + 1
        /\ \A n \in 1..Len(rest) : pend'[n] = rest[n]
        /\ pend'[Len(rest) + 1] = last
    BY <1>1, <1>3, <1>4, <1>5, <1>13
  <2>. HIDE DEF B, new
  <2>4. Len(audited') = Cardinality(Labelled')
    BY <1>1, <1>3, <1>5
  <2>5. Len(audited') + Len(pend') = Cardinality(Allows')
    BY <1>3, <1>5, <1>9, <2>2, <2>3
  <2>6. ASSUME NEW n \in 1..Len(audited')
        PROVE  audited'[n] = L(InOrder(Allows')[n])
    <3>1. n \in 1..Cardinality(A) /\ n \in 1..Len(m)
      BY <1>3, <1>5, <1>9
    <3>. QED  BY <1>3, <1>10, <2>2, <2>3, <3>1
  <2>7. ASSUME NEW n \in 1..Len(pend')
        PROVE  pend'[n] = E(InOrder(Allows')[Len(audited') + n])
    <3>1. CASE n \in 1..Len(rest)
      <4>1. Len(m) + n \in 1..Cardinality(A)
        BY <1>5, <1>9, <3>1
      <4>. QED  BY <1>3, <1>10, <2>2, <2>3, <3>1, <4>1
    <3>2. CASE n = Len(rest) + 1
      <4>1. Len(m) + n = Cardinality(A) + 1
        BY <1>5, <1>9, <3>2
      <4>. QED  BY <1>3, <1>6, <2>2, <2>3, <3>2, <4>1
    <3>. QED  BY <1>9, <2>3, <3>1, <3>2
  <2>. QED  BY <1>11, <2>4, <2>5, <2>6, <2>7
<1>. QED  BY <1>12, <1>13

\* What the analysis is given: as many outcomes as there were allows, at most a log's.
LEMMA DrainedIs ==
  ASSUME StoppingAssumption, AuditInv
  PROVE  /\ Drained \in Seq(Label) /\ Len(Drained) = Cardinality(Allows)
         /\ Len(Drained) <= Decisions
         /\ \A n \in 1..Len(Drained) : Drained[n] = LabelAt(InOrder(Allows)[n])
<1>. DEFINE L == Len(audited)
            c == Cardinality(Allows)
            out == OutcomesOf(pend)
<1>1. /\ audited \in Seq(Label) /\ pend \in Seq(Audit) /\ L \in Nat /\ Len(pend) \in Nat
      /\ c \in 0..Len(stream) /\ Len(stream) \in Nat /\ L + Len(pend) = c /\ Decisions \in Nat
  BY StreamFacts DEF AuditInv, AuditsInv
<1>2. Len(stream) <= Decisions
  BY DEF AuditTypeOK, AuditInv
<1>3. /\ out \in Seq(Label) /\ Len(out) = Len(pend)
      /\ \A n \in 1..Len(pend) :
           out[n] = [fraud |-> pend[n].fraud, regressed |-> pend[n].regressed]
  BY <1>1, LabelsOf
<1>4. \A n \in 1..L : audited[n] = LabelAt(InOrder(Allows)[n])
  BY DEF AuditInv, AuditsInv
<1>5. \A n \in 1..Len(pend) : out[n] = LabelAt(InOrder(Allows)[L + n])
  <2>. TAKE n \in 1..Len(pend)
  <2>. DEFINE i == InOrder(Allows)[L + n]
  <2>1. pend[n] = AuditAt(i)
    BY DEF AuditInv, AuditsInv
  <2>. HIDE DEF i, out
  <2>2. pend[n].fraud = stream[i].fraud /\ pend[n].regressed = stream[i].regressed
    BY <2>1 DEF AuditAt
  <2>. QED  BY <1>3, <2>2 DEF LabelAt, i
<1>6. Drained = audited \o out
  BY DEF Drained
<1>. HIDE DEF out, L, c
<1>7. /\ Drained \in Seq(Label) /\ Len(Drained) = c
      /\ \A n \in 1..c : Drained[n] = IF n <= L THEN audited[n] ELSE out[n - L]
  <2>1. audited \in Seq(Label) /\ out \in Seq(Label) /\ Len(audited) = L /\ L + Len(out) = c
    BY <1>1, <1>3 DEF L
  <2>. DEFINE D == audited \o out
  <2>2. /\ D \in Seq(Label) /\ Len(D) = L + Len(out)
        /\ \A n \in 1..(L + Len(out)) : D[n] = IF n <= L THEN audited[n] ELSE out[n - L]
    BY <2>1
  <2>. HIDE DEF D
  <2>. QED  BY <1>6, <2>1, <2>2 DEF D
<1>8. ASSUME NEW n \in 1..c
      PROVE  Drained[n] = LabelAt(InOrder(Allows)[n])
  <2>1. CASE n <= L
    <3>1. n \in 1..L
      BY <1>1, <2>1
    <3>. QED  BY <1>4, <1>7, <2>1, <3>1
  <2>2. CASE ~(n <= L)
    <3>1. n - L \in 1..Len(pend) /\ L + (n - L) = n
      BY <1>1, <2>2
    <3>. QED  BY <1>5, <1>7, <2>2, <3>1
  <2>. QED  BY <2>1, <2>2
<1>9. c <= Decisions
  BY <1>1, <1>2
<1>. QED  BY <1>7, <1>8, <1>9 DEF c

LEMMA AuditInitial == ASSUME StoppingAssumption, AuditInit PROVE AuditInv
<1>1. stream = <<>> /\ pend = <<>> /\ audited = <<>> /\ rows = <<>> /\ turn = 1 /\ verdict = "none"
  BY DEF AuditInit
<1>2. Decisions \in Nat /\ Len(Regimes) \in Nat
  BY DEF StoppingAssumption
<1>3. AuditTypeOK
  BY <1>1, <1>2 DEF AuditTypeOK
<1>4. TimeInv
  BY <1>1 DEF TimeInv
<1>5. Allows = {} /\ Labelled = {}
  BY <1>1 DEF Allows, Labelled
<1>6. AuditsInv
  BY <1>1, <1>5, FS_EmptySet DEF AuditsInv
<1>. QED  BY <1>3, <1>4, <1>6 DEF AuditInv

LEMMA AuditKept ==
  ASSUME StoppingAssumption, AuditInv, [AuditNext]_auditVars
  PROVE  AuditInv'
<1>0. /\ turn \in 1..(Len(Regimes) + 1) /\ Len(Regimes) \in Nat /\ Decisions \in Nat
      /\ rows \in Seq(Row) /\ Len(rows) = turn - 1
      /\ verdict \in {"none", "died", "kill", "caught", "guarantee"}
      /\ stream \in Seq(Decision) /\ pend \in Seq(Audit) /\ audited \in Seq(Label)
      /\ Len(stream) <= Decisions
  BY DEF AuditInv, AuditTypeOK, StoppingAssumption, Row, Decision, Audit, Label
<1>1. ASSUME NEW wait \in {0, 1}, NEW cert_allow \in BOOLEAN, NEW fraud \in BOOLEAN,
             MaturedTurn(wait, cert_allow, fraud)
      PROVE  AuditInv'
  <2>1. /\ stream' \in Seq(Decision) /\ Len(stream') <= Decisions /\ TimeInv'
    BY <1>1, StreamGrows
  <2>2. AuditsInv' /\ audited' \in Seq(Label) /\ pend' \in Seq(Audit)
    BY <1>1, QueuesStep
  <2>3. turn' = turn /\ rows' = rows /\ verdict' = verdict
    BY <1>1 DEF MaturedTurn
  <2>4. AuditTypeOK'
    BY <1>0, <2>1, <2>2, <2>3 DEF AuditTypeOK, Row, Decision, Audit, Label
  <2>. QED  BY <2>1, <2>2, <2>4 DEF AuditInv
<1>2. CASE Analyse
  <2>1. /\ rows' = Append(rows, analyse_regime(Drained)) /\ turn' = turn + 1
        /\ stream' = <<>> /\ pend' = <<>> /\ audited' = <<>> /\ verdict' = verdict
        /\ turn <= Len(Regimes)
    BY <1>2 DEF Analyse
  <2>2. analyse_regime(Drained) \in Row
    BY DrainedIs, RowTyped
  <2>3. rows' \in Seq(Row) /\ Len(rows') = turn' - 1 /\ turn' \in 1..(Len(Regimes) + 1)
    BY <1>0, <2>1, <2>2
  <2>4. AuditTypeOK'
    BY <1>0, <2>1, <2>3 DEF AuditTypeOK, Row
  <2>5. TimeInv'
    BY <2>1 DEF TimeInv
  <2>6. Allows' = {} /\ Labelled' = {}
    BY <2>1 DEF Allows, Labelled
  <2>7. AuditsInv'
    BY <2>1, <2>6, FS_EmptySet DEF AuditsInv
  <2>. QED  BY <2>4, <2>5, <2>7 DEF AuditInv
<1>3. CASE Report
  <2>1. UNCHANGED <<turn, stream, pend, audited, rows>>
    BY <1>3 DEF Report
  <2>2. verdict' \in {"none", "died", "kill", "caught", "guarantee"}
    BY <1>3 DEF Report
  <2>3. AuditTypeOK'
    BY <2>1, <2>2 DEF AuditInv, AuditTypeOK
  <2>4. TimeInv' /\ AuditsInv'
    BY <2>1 DEF AuditInv, TimeInv, AuditsInv, Labelled, Allows, Now, LabelAt, AuditAt
  <2>. QED  BY <2>3, <2>4 DEF AuditInv
<1>4. CASE UNCHANGED auditVars
  <2>1. UNCHANGED <<turn, stream, pend, audited, rows, verdict>>
    BY <1>4 DEF auditVars
  <2>2. AuditTypeOK'
    BY <2>1 DEF AuditInv, AuditTypeOK
  <2>3. TimeInv' /\ AuditsInv'
    BY <2>1 DEF AuditInv, TimeInv, AuditsInv, Labelled, Allows, Now, LabelAt, AuditAt
  <2>. QED  BY <2>2, <2>3 DEF AuditInv
<1>. QED  BY <1>1, <1>2, <1>3, <1>4 DEF AuditNext

\* What the invariant says of the analysis.
LEMMA AuditAnalysis ==
  ASSUME StoppingAssumption, AuditInv
  PROVE  HaltSettles
<1>. DEFINE D == Drained
            c == Cardinality(Allows)
<1>1. /\ D \in Seq(Label) /\ Len(D) = c /\ Len(D) \in Nat /\ DOMAIN D = 1..c
      /\ \A n \in 1..Len(D) : D[n] = LabelAt(InOrder(Allows)[n])
  BY DrainedIs
<1>2. AuditsInOrder
  <2>. DEFINE q == [n \in 1..c |-> stream[Ascending(Allows)[n]]]
  <2>1. Ascending(Allows) = InOrder(Allows)
    BY DEF Ascending, InOrder
  <2>2. OutcomesOf(q) = [n \in 1..c |-> LabelAt(InOrder(Allows)[n])]
    BY <2>1 DEF OutcomesOf, LabelAt
  <2>3. D = [n \in 1..c |-> D[n]]
    BY <1>1
  <2>. HIDE DEF q, D, c
  <2>4. D = [n \in 1..c |-> LabelAt(InOrder(Allows)[n])]
    BY <1>1, <2>3
  <2>5. D = OutcomesOf(q)
    BY <2>2, <2>4
  <2>. QED  BY <2>5 DEF AuditsInOrder, AuditInv, AuditsInv, D, q, c
<1>3. HaltsAsAutomaton
  <2>1. Growing(PublishedBounds(D), Cardinality(CheckpointSet(Len(D))))
    BY <1>1, PublishedGrowing
  <2>. QED  BY <2>1, SearchesAgree DEF HaltsAsAutomaton
<1>4. ToleranceSettles
  BY <1>1, SettledPrefix DEF ToleranceSettles, PStar
<1>5. HaltMovesWithTolerance
  BY <1>1, HaltStays DEF HaltMovesWithTolerance, HaltOf
<1>. QED  BY <1>2, <1>3, <1>4, <1>5 DEF HaltSettles, AuditInv

\* For every run of the audit: no certified allow is lost, reordered or labelled at
\* another time on its way to the audit; the two searches of analyse_regime are an
\* automaton over the published bounds; and a halt it reports at its own p_star, a mean
\* over the whole clean prefix, is that of every beginning of the audits that holds the
\* halt and has the same p_star, so that audits which arrive later can revoke, move or
\* advance it only before the first regressed one is known.  Any regimes, log length,
\* label delay, schedule, tolerance and table of bounds.
THEOREM StoppingTheorem ==
  ASSUME StoppingAssumption
  PROVE  AuditSpec => []HaltSettles
<1>1. AuditInit => AuditInv
  BY AuditInitial
<1>2. AuditInv /\ [AuditNext]_auditVars => AuditInv'
  BY AuditKept
<1>3. AuditInv => HaltSettles
  BY AuditAnalysis
<1>. QED  BY <1>1, <1>2, <1>3, PTL DEF AuditSpec
=============================================================================
