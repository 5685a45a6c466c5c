---------------------------- MODULE PolicyProofs ----------------------------
(***************************************************************************)
(* What is true of the rule that decides, for any policy.                  *)
(***************************************************************************)
EXTENDS Policy, Induction

\* A set of numbers has a first.
LEMMA FirstIsLeast ==
  ASSUME NEW S, S \subseteq Nat, S # {}
  PROVE  First(S) \in S /\ \A j \in S : First(S) <= j
  BY LeastExists DEF First

-----------------------------------------------------------------------------
(* Patterns *)

\* What pathMatches computes: how far the first i tokens can reach, for all i.
Reaching(f, pattern, path) ==
  f = [i \in 0 .. Len(pattern) |->
         IF i = 0 THEN {0}
         ELSE {j \in 0 .. Len(path) : \E k \in f[i - 1] :
                 k <= j /\ Stands(pattern[i], SubSeq(path, k + 1, j))}]

\* There is such a function: it is made token by token.
LEMMA ReachingExists ==
  ASSUME NEW pattern, NEW path, Len(pattern) \in Nat
  PROVE  \E f : Reaching(f, pattern, path)
<1> DEFINE Entry(f, i) ==
             IF i = 0 THEN {0}
             ELSE {j \in 0 .. Len(path) : \E k \in f[i - 1] :
                     k <= j /\ Stands(pattern[i], SubSeq(path, k + 1, j))}
           S == {r \in Nat : \E f : f = [i \in 0 .. r |-> Entry(f, i)]}
<1>1. 0 \in S
  <2> DEFINE f == [i \in 0 .. 0 |-> {0}]
  <2>1. f = [i \in 0 .. 0 |-> Entry(f, i)]
    OBVIOUS
  <2> QED
    BY <2>1
<1>2. ASSUME NEW r \in Nat, r \in S PROVE r + 1 \in S
  <2>1. PICK f : f = [i \in 0 .. r |-> Entry(f, i)]
    BY <1>2
  <2> HIDE DEF Entry
  <2> DEFINE g == [i \in 0 .. r + 1 |-> IF i <= r THEN f[i] ELSE Entry(f, i)]
  <2>2. \A i \in 0 .. r : g[i] = f[i] /\ f[i] = Entry(f, i)
    BY <2>1
  <2>3. g[r + 1] = Entry(f, r + 1)
    OBVIOUS
  <2>4. g = [i \in 0 .. r + 1 |-> g[i]]
    OBVIOUS
  <2> HIDE DEF g
  <2>5. ASSUME NEW i \in 0 .. r + 1 PROVE g[i] = Entry(g, i)
    <3>1. i = 0 \/ (i # 0 /\ i - 1 \in 0 .. r)
      OBVIOUS
    <3>2. Entry(g, i) = Entry(f, i)
      BY <2>2, <3>1 DEF Entry
    <3>3. i \in 0 .. r \/ i = r + 1
      OBVIOUS
    <3> QED
      BY <2>2, <2>3, <3>2, <3>3
  <2> QED
    BY <2>4, <2>5
<1>3. Len(pattern) \in S
  <2> HIDE DEF S
  <2> QED
    BY <1>1, <1>2, SetInduction
<1> QED
  BY <1>3 DEF Reaching

\* So pathMatches is what the table says.
LEMMA MatchesByReach ==
  ASSUME NEW pattern, NEW path, Len(pattern) \in Nat
  PROVE  \E f : Reaching(f, pattern, path) /\ pathMatches(pattern, path) = (Len(path) \in f[Len(pattern)])
<1> DEFINE f == CHOOSE f : Reaching(f, pattern, path)
<1>1. Reaching(f, pattern, path)
  BY ReachingExists
<1>2. pathMatches(pattern, path) = (Len(path) \in f[Len(pattern)])
  BY DEF pathMatches, Reaching
<1> QED
  BY <1>1, <1>2

\* Of two patterns of one length, the one whose tokens stand for more matches more.
LEMMA WiderMatchesMore ==
  ASSUME NEW p, NEW q, NEW path, Len(p) \in Nat, Len(q) = Len(p),
         \A i \in 1 .. Len(p) : \A part : Stands(p[i], part) => Stands(q[i], part),
         pathMatches(p, path)
  PROVE  pathMatches(q, path)
<1>1. PICK f : Reaching(f, p, path) /\ Len(path) \in f[Len(p)]
  BY MatchesByReach
<1>2. PICK g : Reaching(g, q, path) /\ pathMatches(q, path) = (Len(path) \in g[Len(q)])
  BY MatchesByReach
<1> DEFINE S == {i \in Nat : i <= Len(p) => f[i] \subseteq g[i]}
<1>3. 0 \in S
  BY <1>1, <1>2 DEF Reaching
<1>4. ASSUME NEW i \in Nat, i \in S PROVE i + 1 \in S
  <2> SUFFICES ASSUME i + 1 <= Len(p) PROVE f[i + 1] \subseteq g[i + 1]
    OBVIOUS
  <2>1. i + 1 \in 1 .. Len(p) /\ i + 1 \in 0 .. Len(p) /\ i + 1 # 0 /\ (i + 1) - 1 = i
        /\ f[i] \subseteq g[i]
    BY <1>4
  <2>2. f[i + 1] = {j \in 0 .. Len(path) : \E k \in f[i] :
                      k <= j /\ Stands(p[i + 1], SubSeq(path, k + 1, j))}
    BY <1>1, <2>1 DEF Reaching
  <2>3. g[i + 1] = {j \in 0 .. Len(path) : \E k \in g[i] :
                      k <= j /\ Stands(q[i + 1], SubSeq(path, k + 1, j))}
    BY <1>2, <2>1 DEF Reaching
  <2> QED
    BY <2>1, <2>2, <2>3
<1>5. Len(p) \in S
  <2> HIDE DEF S
  <2> QED
    BY <1>3, <1>4, SetInduction
<1>6. f[Len(p)] \subseteq g[Len(p)]
  BY <1>5
<1> QED
  BY <1>1, <1>2, <1>6
=============================================================================
