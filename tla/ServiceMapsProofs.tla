-------------------------- MODULE ServiceMapsProofs --------------------------
(***************************************************************************)
(* Theorems about the module ServiceMaps, for any routes, stops, trips and *)
(* configurations: the sort of a graph, and what the maps are.             *)
(***************************************************************************)
EXTENDS ServiceMaps, FiniteSetTheorems, TLAPS

(***************************************************************************)
(* Induction over numbers, as the absence of a least counterexample.       *)
(***************************************************************************)

\* A set of numbers has a least one.
LEMMA LeastNumber ==
  ASSUME NEW T, T \subseteq Nat, T # {}
  PROVE  \E x \in T : \A y \in T : x <= y
<1>1. \E R : /\ IsWellFoundedOn(R, Nat)
             /\ \A x, y \in Nat : <<y, x>> \in R <=> y < x
  <2> DEFINE R == OpToRel(<, Nat)
  <2>1. IsWellFoundedOn(R, Nat)
    BY NatLessThanWellFounded
  <2>2. \A x, y \in Nat : <<y, x>> \in R <=> y < x
    BY DEF OpToRel
  <2> HIDE DEF R
  <2>3. QED
    BY <2>1, <2>2
<1>2. PICK R : /\ IsWellFoundedOn(R, Nat)
               /\ \A x, y \in Nat : <<y, x>> \in R <=> y < x
  BY <1>1
<1>3. PICK x \in T : \A y \in T : ~ (<<y, x>> \in R)
  BY <1>2, WFMin
<1>4. ASSUME NEW y \in T PROVE x <= y
  <2>1. x \in Nat /\ y \in Nat /\ <<y, x>> \notin R
    BY <1>3
  <2>2. ~(y < x)
    BY <1>2, <2>1
  <2>3. QED
    BY <2>1, <2>2
<1>5. QED
  BY <1>4

\* What holds of 0 and goes from each number to the next holds up to n.
LEMMA Induction ==
  ASSUME NEW n \in Nat, NEW P \in SUBSET (0..n), 0 \in P,
         \A i \in 1..n : i - 1 \in P => i \in P
  PROVE  P = 0..n
<1> DEFINE T == (0..n) \ P
<1>1. T \subseteq Nat
  OBVIOUS
<1>2. ASSUME T # {} PROVE FALSE
  <2>1. PICK x \in T : \A y \in T : x <= y
    <3> HIDE DEF T
    <3>1. QED
      BY <1>1, <1>2, LeastNumber
  <2>2. x \in 1..n /\ x - 1 \in 0..n /\ x \notin P
    OBVIOUS
  <2>3. x - 1 \in P
    <3>1. x - 1 \notin T
      <4> HIDE DEF T
      <4>1. QED
        BY <1>1, <2>1, <2>2
    <3>2. QED
      BY <2>2, <3>1
  <2>4. QED
    BY <2>2, <2>3
<1>3. QED
  BY <1>2

\* A function over 0..n with a given start, each of whose values is had from
\* the one before, exists.
Steps(f, n, base, step) ==
  f[0] = base /\ \A i \in 1..n : f[i] = step[i][f[i-1]]

\* A recursive function over 0..n exists.
LEMMA RecursiveFunction ==
  ASSUME NEW n \in Nat, NEW V, NEW base \in V, NEW step \in [1..n -> [V -> V]]
  PROVE  \E f \in [0..n -> V] : Steps(f, n, base, step)
<1> DEFINE P == {k \in 0..n : \E f \in [0..k -> V] : Steps(f, k, base, step)}
<1>1. 0 \in P
  <2> DEFINE f == [i \in 0..0 |-> base]
  <2>1. f \in [0..0 -> V] /\ Steps(f, 0, base, step)
    BY DEF Steps
  <2> HIDE DEF f
  <2>2. QED
    BY <2>1
<1>2. ASSUME NEW k \in 1..n, k - 1 \in P PROVE k \in P
  <2>1. PICK f \in [0..k-1 -> V] : Steps(f, k-1, base, step)
    BY <1>2
  <2> DEFINE g == [i \in 0..k |-> IF i = k THEN step[k][f[k-1]] ELSE f[i]]
  <2>2. g \in [0..k -> V]
    OBVIOUS
  <2>3. g[0] = base
    BY <2>1 DEF Steps
  <2>4. ASSUME NEW i \in 1..k PROVE g[i] = step[i][g[i-1]]
    <3>1. CASE i = k
      BY <3>1
    <3>2. CASE i # k
      BY <2>1, <3>2 DEF Steps
    <3>3. QED
      BY <3>1, <3>2
  <2>5. Steps(g, k, base, step)
    BY <2>3, <2>4 DEF Steps
  <2> HIDE DEF g
  <2>6. QED
    BY <2>2, <2>5
<1>3. P = 0..n
  <2>1. P \in SUBSET (0..n)
    OBVIOUS
  <2> HIDE DEF P
  <2>2. QED
    BY <1>1, <1>2, <2>1, Induction
<1>4. QED
  BY <1>3
-----------------------------------------------------------------------------
(***************************************************************************)
(* Sequences without repetition.                                           *)
(***************************************************************************)

\* A sequence without repetition of members of a finite set is no longer than
\* the set is large, and as long only if it has all of them.
LEMMA InjectiveLength ==
  ASSUME NEW S, IsFiniteSet(S), NEW s \in Seq(S), IsInjective(s)
  PROVE  /\ Len(s) \in Nat /\ Cardinality(S) \in Nat /\ Len(s) <= Cardinality(S)
         /\ Len(s) = Cardinality(S) <=> ToSet(s) = S
<1>1. s \in Injection(1..Len(s), S) /\ DOMAIN s = 1..Len(s)
  BY DEF Injection
<1>2. IsFiniteSet(1..Len(s)) /\ Cardinality(1..Len(s)) = Len(s)
  <2>1. Len(s) \in Nat
    OBVIOUS
  <2>2. QED
    BY <2>1, FS_Interval
<1>3. /\ Cardinality(1..Len(s)) <= Cardinality(S)
      /\ Cardinality(1..Len(s)) = Cardinality(S) <=> s \in Surjection(1..Len(s), S)
  BY <1>1, FS_Injection
<1>4. Cardinality(S) \in Nat
  BY FS_CardinalityType
<1>5. s \in Surjection(1..Len(s), S) <=> ToSet(s) = S
  <2>1. s \in [1..Len(s) -> S]
    OBVIOUS
  <2>2. s \in Surjection(1..Len(s), S) <=> \A t \in S : \E i \in 1..Len(s) : s[i] = t
    BY <2>1 DEF Surjection
  <2>3. ToSet(s) = {s[i] : i \in 1..Len(s)}
    BY <1>1 DEF ToSet
  <2>4. QED
    BY <2>1, <2>2, <2>3
<1>6. QED
  BY <1>2, <1>3, <1>4, <1>5

\* The orders of a finite set: there is one, and each has all of it.
LEMMA OrdersOfSet ==
  ASSUME NEW S, IsFiniteSet(S)
  PROVE  /\ SetToSeqs(S) # {}
         /\ \A s \in SetToSeqs(S) :
              s \in Seq(S) /\ Len(s) = Cardinality(S) /\ IsInjective(s) /\ ToSet(s) = S
<1>1. Cardinality(S) \in Nat /\ ExistsBijection(1..Cardinality(S), S)
  BY FS_CardinalityType
<1>2. PICK f : f \in Bijection(1..Cardinality(S), S)
  BY <1>1 DEF ExistsBijection
<1>3. f \in SetToSeqs(S)
  BY <1>2 DEF Bijection, Injection, IsInjective, SetToSeqs
<1>4. ASSUME NEW s \in SetToSeqs(S)
      PROVE  s \in Seq(S) /\ Len(s) = Cardinality(S) /\ IsInjective(s) /\ ToSet(s) = S
  <2>1. /\ s \in [1..Cardinality(S) -> S]
        /\ \A i, j \in 1..Cardinality(S) : i # j => s[i] # s[j]
    BY DEF SetToSeqs
  <2>2. s \in Seq(S) /\ Len(s) = Cardinality(S)
    BY <1>1, <2>1
  <2>3. IsInjective(s)
    BY <2>1 DEF IsInjective
  <2>4. QED
    BY <2>2, <2>3, InjectiveLength
<1>5. QED
  BY <1>3, <1>4

\* A finite set of numbers has an increasing order.
LEMMA InOrderIs ==
  ASSUME NEW S \in SUBSET Nat, IsFiniteSet(S)
  PROVE  /\ InOrder(S) \in SetToSeqs(S)
         /\ \A i, j \in DOMAIN InOrder(S) : i < j => InOrder(S)[i] < InOrder(S)[j]
<1> DEFINE n == Cardinality(S)
           Good(k, f) == /\ \A i, j \in 1..k : i < j => f[i] < f[j]
                         /\ \A x \in S : (\A i \in 1..k : f[i] # x) => \A i \in 1..k : f[i] < x
           P == {k \in 0..n : \E f \in [1..k -> S] : Good(k, f)}
<1>1. n \in Nat /\ \A x \in S : x \in Nat
  BY FS_CardinalityType
<1> HIDE DEF n
<1>2. 0 \in P
  <2> DEFINE f == [i \in 1..0 |-> 0]
  <2>1. f \in [1..0 -> S] /\ Good(0, f)
    OBVIOUS
  <2> HIDE DEF f, Good
  <2>2. 0 \in 0..n
    BY <1>1
  <2>3. QED
    BY <2>1, <2>2
<1>3. ASSUME NEW k \in 1..n, k - 1 \in P PROVE k \in P
  <2>1. PICK f \in [1..k-1 -> S] : Good(k-1, f)
    BY <1>3
  <2> DEFINE T == {x \in S : \A i \in 1..k-1 : f[i] # x}
  <2>2. T # {}
    <3>1. SUFFICES ASSUME T = {} PROVE FALSE
      OBVIOUS
    <3>2. f \in Surjection(1..k-1, S)
      BY <3>1 DEF Surjection
    <3>3. k - 1 \in Nat /\ ExistsSurjection(1..k-1, S)
      BY <3>2 DEF ExistsSurjection
    <3>4. n <= k - 1
      BY <3>3, FS_SurjCardinalityBound DEF n
    <3>5. QED
      BY <1>1, <3>4
  <2>3. PICK x \in T : \A y \in T : x <= y
    <3>1. T \subseteq Nat
      OBVIOUS
    <3> HIDE DEF T
    <3>2. QED
      BY <2>2, <3>1, LeastNumber
  <2> DEFINE g == [i \in 1..k |-> IF i = k THEN x ELSE f[i]]
  <2>4. g \in [1..k -> S]
    OBVIOUS
  <2>5. ASSUME NEW i \in 1..k-1 PROVE g[i] = f[i] /\ f[i] < x /\ f[i] \in Nat
    <3>1. i \in 1..k /\ i # k /\ f[i] \in S
      BY <1>1
    <3>2. f[i] < x
      BY <2>1
    <3>3. QED
      BY <1>1, <3>1, <3>2
  <2>6. g[k] = x /\ x \in Nat
    BY <1>1
  <2>7. ASSUME NEW i \in 1..k, NEW j \in 1..k, i < j PROVE g[i] < g[j]
    <3>1. i \in 1..k-1
      BY <2>7
    <3>2. CASE j = k
      BY <2>5, <2>6, <3>1, <3>2
    <3>3. CASE j # k
      <4>1. j \in 1..k-1
        BY <3>3
      <4>2. QED
        BY <2>1, <2>5, <2>7, <3>1, <4>1
    <3>4. QED
      BY <3>2, <3>3
  <2>8. ASSUME NEW y \in S, \A i \in 1..k : g[i] # y, NEW i \in 1..k PROVE g[i] < y
    <3>1. y \in T /\ y # x
      BY <2>5, <2>6, <2>8
    <3>2. x < y /\ y \in Nat
      BY <2>3, <2>6, <3>1
    <3>3. CASE i = k
      BY <2>6, <3>2, <3>3
    <3>4. CASE i # k
      <4>1. i \in 1..k-1
        BY <1>1, <3>4
      <4>2. g[i] < x /\ g[i] \in Nat
        BY <2>5, <4>1
      <4> HIDE DEF g
      <4>3. QED
        BY <2>6, <3>2, <4>2
    <3>5. QED
      BY <3>3, <3>4
  <2>9. Good(k, g)
    <3> HIDE DEF g
    <3>1. QED
      BY <2>7, <2>8
  <2> HIDE DEF g, Good
  <2>10. QED
    BY <2>4, <2>9
<1>4. n \in P
  <2>1. P = 0..n
    <3>1. P \in SUBSET (0..n)
      OBVIOUS
    <3> HIDE DEF P
    <3>2. QED
      BY <1>1, <1>2, <1>3, <3>1, Induction
  <2>2. n \in 0..n
    BY <1>1
  <2> HIDE DEF P
  <2>3. QED
    BY <2>1, <2>2
<1>5. PICK s \in [1..n -> S] : Good(n, s)
  BY <1>4
<1>6. s \in SetToSeqs(S)
  <2>1. ASSUME NEW i \in 1..n, NEW j \in 1..n, i # j PROVE s[i] # s[j]
    <3>1. s[i] \in Nat /\ s[j] \in Nat
      BY <1>1
    <3>2. i < j \/ j < i
      BY <1>1, <2>1
    <3>3. i < j => s[i] < s[j]
      BY <1>5
    <3>4. j < i => s[j] < s[i]
      BY <1>5
    <3>5. QED
      BY <3>1, <3>2, <3>3, <3>4
  <2>2. QED
    BY <2>1 DEF SetToSeqs, n
<1>7. \A i, j \in DOMAIN s : i < j => s[i] < s[j]
  BY <1>5
<1>8. QED
  BY <1>6, <1>7 DEF InOrder

\* The last member of a sequence, and those before it.
LEMMA FrontAndLast ==
  ASSUME NEW S, NEW s \in Seq(S), s # <<>>
  PROVE  /\ Last(s) \in S /\ Front(s) \in Seq(S) /\ ToSet(s) = ToSet(Front(s)) \cup {Last(s)}
         /\ IsInjective(s) => IsInjective(Front(s)) /\ Last(s) \notin ToSet(Front(s))
<1>1. /\ Len(s) \in Nat \ {0} /\ DOMAIN s = 1..Len(s) /\ s \in [1..Len(s) -> S]
  OBVIOUS
<1>2. Front(s) \in Seq(S) /\ Len(Front(s)) = Len(s) - 1 /\ \A i \in 1..Len(s)-1 : Front(s)[i] = s[i]
  BY <1>1 DEF Front
<1>3. DOMAIN Front(s) = 1..Len(s)-1
  BY <1>2
<1>4. 1..Len(s) = (1..Len(s)-1) \cup {Len(s)} /\ Len(s) \notin 1..Len(s)-1
  BY <1>1
<1>5. ToSet(s) = ToSet(Front(s)) \cup {Last(s)}
  BY <1>1, <1>2, <1>3, <1>4 DEF ToSet, Last
<1>6. ASSUME IsInjective(s) PROVE IsInjective(Front(s)) /\ Last(s) \notin ToSet(Front(s))
  BY <1>1, <1>2, <1>3, <1>4, <1>6 DEF ToSet, Last, IsInjective
<1>7. QED
  BY <1>1, <1>2, <1>5, <1>6 DEF Last

\* One sequence after another.
LEMMA OneAfterAnother ==
  ASSUME NEW S, NEW s \in Seq(S), NEW t \in Seq(S)
  PROVE  /\ s \o t \in Seq(S) /\ ToSet(s \o t) = ToSet(s) \cup ToSet(t)
         /\ IsInjective(s) /\ IsInjective(t) /\ ToSet(s) \cap ToSet(t) = {} => IsInjective(s \o t)
<1> DEFINE m == Len(s)  n == Len(t)  u == s \o t
<1>1. m \in Nat /\ n \in Nat /\ DOMAIN s = 1..m /\ DOMAIN t = 1..n
  OBVIOUS
<1>2. u \in Seq(S) /\ Len(u) = m + n /\ DOMAIN u = 1..m+n
  OBVIOUS
<1>3. \A i \in 1..m : i \in 1..m+n /\ u[i] = s[i]
  OBVIOUS
<1>4. \A i \in 1..n : m + i \in 1..m+n /\ u[m + i] = t[i]
  OBVIOUS
<1>5. \A k \in 1..m+n : k \in 1..m \/ \E i \in 1..n : k = m + i
  <2> HIDE DEF m, n, u
  <2>1. ASSUME NEW k \in 1..m+n, k \notin 1..m PROVE k - m \in 1..n /\ k = m + (k - m)
    BY <1>1, <2>1
  <2>2. QED
    BY <2>1
<1> HIDE DEF m, n, u
<1>6. ToSet(u) = ToSet(s) \cup ToSet(t)
  <2>1. ASSUME NEW x \in ToSet(u) PROVE x \in ToSet(s) \cup ToSet(t)
    <3>1. PICK k \in 1..m+n : x = u[k]
      BY <1>2 DEF ToSet
    <3>2. QED
      BY <1>1, <1>3, <1>4, <1>5, <3>1 DEF ToSet
  <2>2. ASSUME NEW x \in ToSet(s) \cup ToSet(t) PROVE x \in ToSet(u)
    BY <1>1, <1>2, <1>3, <1>4 DEF ToSet
  <2>3. QED
    BY <2>1, <2>2
<1>7. ASSUME IsInjective(s), IsInjective(t), ToSet(s) \cap ToSet(t) = {},
             NEW a \in 1..m+n, NEW b \in 1..m+n, u[a] = u[b]
      PROVE  a = b
  <2>1. \A i \in 1..m, j \in 1..n : s[i] # t[j]
    BY <1>1, <1>7 DEF ToSet
  <2>2. CASE a \in 1..m /\ b \in 1..m
    BY <1>1, <1>3, <1>7, <2>2 DEF IsInjective
  <2>3. CASE a \in 1..m /\ b \notin 1..m
    BY <1>3, <1>4, <1>5, <1>7, <2>1, <2>3
  <2>4. CASE a \notin 1..m /\ b \in 1..m
    BY <1>3, <1>4, <1>5, <1>7, <2>1, <2>4
  <2>5. CASE a \notin 1..m /\ b \notin 1..m
    <3>1. PICK i \in 1..n, j \in 1..n : a = m + i /\ b = m + j
      BY <1>5, <2>5
    <3>2. t[i] = t[j]
      BY <1>4, <1>7, <3>1
    <3>3. i = j
      BY <1>1, <1>7, <3>2 DEF IsInjective
    <3>4. QED
      BY <3>1, <3>3
  <2>6. QED
    BY <2>2, <2>3, <2>4, <2>5
<1>8. IsInjective(s) /\ IsInjective(t) /\ ToSet(s) \cap ToSet(t) = {} => IsInjective(u)
  BY <1>2, <1>7 DEF IsInjective
<1>9. QED
  BY <1>2, <1>6, <1>8 DEF u

LEMMA OneMore ==
  ASSUME NEW S, NEW s \in Seq(S), NEW x \in S
  PROVE  /\ Append(s, x) \in Seq(S) /\ Len(Append(s, x)) = Len(s) + 1
         /\ DOMAIN Append(s, x) = (DOMAIN s) \cup {Len(s) + 1} /\ Len(s) + 1 \notin DOMAIN s
         /\ \A i \in DOMAIN s : Append(s, x)[i] = s[i]
         /\ Append(s, x)[Len(s) + 1] = x
         /\ ToSet(Append(s, x)) = ToSet(s) \cup {x}
         /\ IsInjective(s) /\ x \notin ToSet(s) => IsInjective(Append(s, x))
<1> DEFINE u == Append(s, x)  n == Len(s)
<1>1. n \in Nat /\ DOMAIN s = 1..n /\ u \in Seq(S) /\ Len(u) = n + 1 /\ DOMAIN u = 1..n+1
  OBVIOUS
<1>2. (\A i \in 1..n : u[i] = s[i]) /\ u[n + 1] = x
  OBVIOUS
<1> HIDE DEF u, n
<1>3. 1..n+1 = (1..n) \cup {n + 1} /\ n + 1 \notin 1..n
  BY <1>1
<1>4. ToSet(u) = ToSet(s) \cup {x}
  BY <1>1, <1>2, <1>3 DEF ToSet
<1>5. IsInjective(s) /\ x \notin ToSet(s) => IsInjective(u)
  BY <1>1, <1>2, <1>3 DEF ToSet, IsInjective
<1>6. QED
  BY <1>1, <1>2, <1>3, <1>4, <1>5 DEF u, n
-----------------------------------------------------------------------------
(***************************************************************************)
(* The sort of a graph (graph.SortBasic).                                  *)
(***************************************************************************)

IsGraph(edges) == edges \in SUBSET (Nat \X Nat) /\ IsFiniteSet(edges)

LEMMA ImageIsFinite ==
  ASSUME NEW S, IsFiniteSet(S), NEW f, f = [x \in S |-> f[x]]
  PROVE  IsFiniteSet({f[x] : x \in S})
<1> DEFINE T == {f[x] : x \in S}
<1>1. f \in Surjection(S, T)
  BY DEF Surjection
<1>2. QED
  BY <1>1, FS_Surjection

LEMMA NodesAre ==
  ASSUME NEW edges, IsGraph(edges)
  PROVE  /\ NodesOf(edges) \in SUBSET Nat /\ IsFiniteSet(NodesOf(edges))
         /\ \A n \in NodesOf(edges) : InNodes(edges, n) \subseteq NodesOf(edges)
         /\ \A m, n : <<m, n>> \in edges <=> m \in InNodes(edges, n)
         /\ \A m, n : <<m, n>> \in edges => m \in NodesOf(edges) /\ n \in NodesOf(edges)
<1>1. \A e \in edges : e = <<e[1], e[2]>> /\ e[1] \in Nat /\ e[2] \in Nat
  BY DEF IsGraph
<1>2. IsFiniteSet(NodesOf(edges))
  <2> DEFINE f == [e \in edges |-> e[1]]  g == [e \in edges |-> e[2]]
  <2>1. IsFiniteSet({f[e] : e \in edges}) /\ IsFiniteSet({g[e] : e \in edges})
    <3>1. f = [e \in edges |-> f[e]] /\ g = [e \in edges |-> g[e]] /\ IsFiniteSet(edges)
      BY DEF IsGraph
    <3> HIDE DEF f, g
    <3>2. QED
      BY <3>1, ImageIsFinite
  <2>2. NodesOf(edges) = {f[e] : e \in edges} \cup {g[e] : e \in edges}
    BY DEF NodesOf
  <2>3. QED
    BY <2>1, <2>2, FS_Union
<1>3. \A m, n : <<m, n>> \in edges <=> m \in InNodes(edges, n)
  BY <1>1 DEF InNodes
<1>4. QED
  BY <1>1, <1>2, <1>3 DEF NodesOf, InNodes

\* What holds after k rounds of the loop: a node is on the stack or has left it
\* just if its in-nodes have left, and never comes back.
LoopInv(edges, s, k) ==
  /\ s \in [stack : Seq(NodesOf(edges)), order : Seq(NodesOf(edges))]
  /\ IsInjective(s.stack) /\ IsInjective(s.order) /\ ToSet(s.stack) \cap ToSet(s.order) = {}
  /\ \A n \in NodesOf(edges) :
       n \in ToSet(s.stack) \cup ToSet(s.order) <=> InNodes(edges, n) \subseteq ToSet(s.order)
  /\ \A i, j \in DOMAIN s.order : <<s.order[i], s.order[j]>> \in edges => i < j
  /\ s.stack # <<>> => Len(s.order) = k

LEMMA StackStarts ==
  ASSUME NEW edges, IsGraph(edges), NEW s,
         s = [stack |-> InOrder({n \in NodesOf(edges) : InNodes(edges, n) = {}}), order |-> <<>>]
  PROVE  LoopInv(edges, s, 0)
<1> DEFINE N == NodesOf(edges)
           first == {n \in N : InNodes(edges, n) = {}}
<1>1. first \in SUBSET Nat /\ IsFiniteSet(first)
  BY NodesAre, FS_Subset
<1>2. s.stack \in SetToSeqs(first)
  <2> HIDE DEF first
  <2>1. InOrder(first) \in SetToSeqs(first)
    BY <1>1, InOrderIs
  <2>2. QED
    BY <2>1 DEF first
<1>3. s.stack \in Seq(first) /\ IsInjective(s.stack) /\ ToSet(s.stack) = first
  <2> HIDE DEF first
  <2>1. QED
    BY <1>1, <1>2, OrdersOfSet
<1>4. s.stack \in Seq(N)
  BY <1>3
<1>5. s.order = <<>> /\ s.order \in Seq(N) /\ ToSet(s.order) = {} /\ IsInjective(s.order) /\ Len(s.order) = 0
  BY DEF ToSet, IsInjective
<1>6. s \in [stack : Seq(N), order : Seq(N)]
  BY <1>4, <1>5
<1>7. \A n \in N : n \in first <=> InNodes(edges, n) \subseteq {}
  OBVIOUS
<1>8. DOMAIN s.order = {}
  BY <1>5
<1> HIDE DEF N, first
<1>9. QED
  BY <1>3, <1>5, <1>6, <1>7, <1>8 DEF LoopInv, N

LEMMA PopKeeps ==
  ASSUME NEW edges, IsGraph(edges), NEW k \in Nat, NEW s, LoopInv(edges, s, k), s.stack # <<>>
  PROVE  Pop(edges, s) # {} /\ \A t \in Pop(edges, s) : LoopInv(edges, t, k + 1)
<1> DEFINE N == NodesOf(edges)
           next == Last(s.stack)
           rest == Front(s.stack)
           left == ToSet(s.order)
           ready == Ready(edges, next, left)
<1>1. /\ s.stack \in Seq(N) /\ s.order \in Seq(N) /\ IsInjective(s.stack) /\ IsInjective(s.order)
      /\ ToSet(s.stack) \cap left = {} /\ Len(s.order) = k
  BY DEF LoopInv
<1>2. \A n \in N : n \in ToSet(s.stack) \cup left <=> InNodes(edges, n) \subseteq left
  BY DEF LoopInv
<1>3. \A i, j \in DOMAIN s.order : <<s.order[i], s.order[j]>> \in edges => i < j
  BY DEF LoopInv
<1>4. /\ next \in N /\ rest \in Seq(N) /\ ToSet(s.stack) = ToSet(rest) \cup {next}
      /\ IsInjective(rest) /\ next \notin ToSet(rest)
  BY <1>1, FrontAndLast
<1>5. ready \subseteq N /\ IsFiniteSet(ready)
  <2>1. ready \subseteq N
    BY DEF Ready
  <2>2. QED
    BY <2>1, NodesAre, FS_Subset
<1>6. Pop(edges, s) = {[stack |-> rest \o pushed, order |-> Append(s.order, next)] : pushed \in SetToSeqs(ready)}
  BY DEF Pop
<1>7. \A n \in N : n \in ready <=> next \in InNodes(edges, n) /\ InNodes(edges, n) \subseteq left \cup {next}
  BY DEF Ready
<1> HIDE DEF N, next, rest, left, ready
<1>8. SetToSeqs(ready) # {}
  BY <1>5, OrdersOfSet
<1>9. ASSUME NEW t \in Pop(edges, s) PROVE LoopInv(edges, t, k + 1)
  <2>1. PICK pushed \in SetToSeqs(ready) : t = [stack |-> rest \o pushed, order |-> Append(s.order, next)]
    BY <1>6
  <2>2. pushed \in Seq(N) /\ IsInjective(pushed) /\ ToSet(pushed) = ready
    <3>1. pushed \in Seq(ready) /\ IsInjective(pushed) /\ ToSet(pushed) = ready
      BY <1>5, OrdersOfSet
    <3>2. QED
      BY <1>5, <3>1
  <2>3. next \notin left
    BY <1>1, <1>4
  <2>4. ready \cap (ToSet(s.stack) \cup left) = {}
    BY <1>2, <1>5, <1>7, <2>3
  <2>5. /\ rest \o pushed \in Seq(N) /\ IsInjective(rest \o pushed)
        /\ ToSet(rest \o pushed) = ToSet(rest) \cup ready
    BY <1>4, <2>2, <2>4, OneAfterAnother
  <2>6. /\ Append(s.order, next) \in Seq(N) /\ Len(Append(s.order, next)) = k + 1
        /\ IsInjective(Append(s.order, next)) /\ ToSet(Append(s.order, next)) = left \cup {next}
    BY <1>1, <1>4, <2>3, OneMore DEF left
  <2>7. (ToSet(rest) \cup ready) \cap (left \cup {next}) = {}
    BY <1>1, <1>4, <2>4
  <2>8. ASSUME NEW n \in N
        PROVE  n \in ToSet(rest) \cup ready \cup left \cup {next} <=> InNodes(edges, n) \subseteq left \cup {next}
    BY <1>2, <1>4, <1>7
  <2>9. ASSUME NEW i \in DOMAIN t.order, NEW j \in DOMAIN t.order, <<t.order[i], t.order[j]>> \in edges
        PROVE  i < j
    <3> DEFINE u == Append(s.order, next)
    <3>1. /\ DOMAIN u = (DOMAIN s.order) \cup {k + 1} /\ k + 1 \notin DOMAIN s.order
          /\ u[k + 1] = next /\ \A x \in DOMAIN s.order : u[x] = s.order[x]
      BY <1>1, <1>4, OneMore
    <3>2. t.order = u
      BY <2>1
    <3> HIDE DEF u
    <3>3. DOMAIN s.order = 1..k
      BY <1>1
    <3>4. CASE i = k + 1
      <4>1. <<next, u[j]>> \in edges
        BY <2>9, <3>1, <3>2, <3>4
      <4>2. next \in InNodes(edges, u[j]) /\ u[j] \in N
        BY <4>1, NodesAre DEF N
      <4>3. u[j] \in left \cup {next}
        BY <3>1, <3>2 DEF left, ToSet
      <4>4. InNodes(edges, u[j]) \subseteq left
        BY <1>2, <1>4, <4>2, <4>3
      <4>5. QED
        BY <2>3, <4>2, <4>4
    <3>5. CASE i # k + 1 /\ j = k + 1
      BY <3>1, <3>2, <3>3, <3>5
    <3>6. CASE i # k + 1 /\ j # k + 1
      BY <1>3, <2>9, <3>1, <3>2, <3>6
    <3>7. QED
      BY <3>4, <3>5, <3>6
  <2>10. t \in [stack : Seq(N), order : Seq(N)] /\ t.stack = rest \o pushed /\ t.order = Append(s.order, next)
    BY <2>1, <2>5, <2>6
  <2>11. \A n \in N : n \in ToSet(t.stack) \cup ToSet(t.order) <=> InNodes(edges, n) \subseteq ToSet(t.order)
    BY <2>5, <2>6, <2>8, <2>10
  <2>12. IsInjective(t.stack) /\ IsInjective(t.order) /\ ToSet(t.stack) \cap ToSet(t.order) = {}
    BY <2>5, <2>6, <2>7, <2>10
  <2>13. QED
    BY <2>6, <2>9, <2>10, <2>11, <2>12 DEF LoopInv, N
<1>10. QED
  BY <1>6, <1>8, <1>9

LEMMA LoopIs ==
  ASSUME NEW edges, IsGraph(edges)
  PROVE  Loop(edges) # {} /\ \A s \in Loop(edges) : LoopInv(edges, s, Cardinality(NodesOf(edges)))
<1> DEFINE N == NodesOf(edges)
           n == Cardinality(N)
           first == [stack |-> InOrder({x \in N : InNodes(edges, x) = {}}), order |-> <<>>]
           States == [stack : Seq(N), order : Seq(N)]
           V == {S \in SUBSET States : S # {} /\ \E k \in Nat : \A s \in S : LoopInv(edges, s, k)}
           round(S) == UNION {IF s.stack = <<>> THEN {s} ELSE Pop(edges, s) : s \in S}
           step == [i \in 1..n |-> [S \in V |-> round(S)]]
           Def(f) == [k \in 0..n |-> IF k = 0 THEN {first} ELSE round(f[k - 1])]
           Inv(S, k) == S # {} /\ \A s \in S : LoopInv(edges, s, k)
<1>1. n \in Nat
  BY NodesAre, FS_CardinalityType
<1>2. Inv({first}, 0)
  BY StackStarts
<1>3. ASSUME NEW S, NEW k \in Nat, Inv(S, k) PROVE Inv(round(S), k + 1)
  <2>1. ASSUME NEW s \in S
        PROVE  LET next == IF s.stack = <<>> THEN {s} ELSE Pop(edges, s) IN Inv(next, k + 1)
    <3>1. CASE s.stack = <<>>
      BY <1>3, <3>1 DEF LoopInv
    <3>2. CASE s.stack # <<>>
      BY <1>3, <3>2, PopKeeps
    <3>3. QED
      BY <3>1, <3>2
  <2>2. QED
    BY <1>3, <2>1
<1>4. {first} \in V
  <2> HIDE DEF first
  <2>1. LoopInv(edges, first, 0)
    BY <1>2
  <2>2. first \in States
    BY <2>1 DEF LoopInv
  <2>3. QED
    BY <2>1, <2>2
<1>5. ASSUME NEW S \in V PROVE round(S) \in V
  <2>1. PICK k \in Nat : Inv(S, k)
    OBVIOUS
  <2> HIDE DEF round
  <2>2. Inv(round(S), k + 1) /\ k + 1 \in Nat
    BY <1>3, <2>1
  <2>3. round(S) \subseteq States
    BY <2>2 DEF LoopInv
  <2>4. QED
    BY <2>2, <2>3
<1>6. PICK f \in [0..n -> V] : Steps(f, n, {first}, step)
  <2>1. step \in [1..n -> [V -> V]]
    <3> HIDE DEF round, V
    <3>1. QED
      BY <1>5
  <2> HIDE DEF step, V, first
  <2>2. QED
    BY <1>1, <1>4, <2>1, RecursiveFunction
<1>7. f = Def(f)
  <2>1. ASSUME NEW k \in 0..n PROVE f[k] = Def(f)[k]
    <3>1. CASE k = 0
      BY <1>6, <3>1 DEF Steps
    <3>2. CASE k # 0
      <4>1. k \in 1..n /\ k - 1 \in 0..n
        BY <1>1, <3>2
      <4>2. f[k] = step[k][f[k - 1]] /\ f[k - 1] \in V
        BY <1>6, <4>1 DEF Steps
      <4> HIDE DEF V, round
      <4>3. QED
        BY <3>2, <4>1, <4>2
    <3>3. QED
      BY <3>1, <3>2
  <2> HIDE DEF round, first, V
  <2>2. f = [k \in 0..n |-> f[k]]
    BY <1>6
  <2>3. QED
    BY <2>1, <2>2
<1>8. Loop(edges) = (CHOOSE g : g = Def(g))[n]
  BY DEF Loop
<1>9. PICK g : g = Def(g) /\ Loop(edges) = g[n]
  <2> HIDE DEF Def
  <2>1. QED
    BY <1>7, <1>8
<1>10. g[0] = {first} /\ \A k \in 1..n : g[k] = round(g[k - 1])
  <2> HIDE DEF first, round
  <2>1. \A k \in 0..n : g[k] = IF k = 0 THEN {first} ELSE round(g[k - 1])
    BY <1>9
  <2>2. QED
    BY <1>1, <2>1
<1>11. Inv(g[n], n)
  <2> DEFINE P == {k \in 0..n : Inv(g[k], k)}
  <2> HIDE DEF Inv, round, first
  <2>1. 0 \in P
    <3>1. Inv(g[0], 0)
      BY <1>2, <1>10
    <3>2. 0 \in 0..n
      BY <1>1
    <3>3. QED
      BY <3>1, <3>2
  <2>2. ASSUME NEW k \in 1..n, k - 1 \in P PROVE k \in P
    <3>1. Inv(g[k - 1], k - 1) /\ k - 1 \in Nat /\ (k - 1) + 1 = k
      BY <1>1, <2>2
    <3>2. Inv(round(g[k - 1]), k)
      BY <1>3, <3>1
    <3>3. QED
      BY <1>10, <3>2
  <2>3. P \in SUBSET (0..n)
    OBVIOUS
  <2>4. P = 0..n
    <3> HIDE DEF P
    <3>1. QED
      BY <1>1, <2>1, <2>2, <2>3, Induction
  <2>5. n \in 0..n
    BY <1>1
  <2>6. QED
    BY <2>4, <2>5
<1>12. QED
  BY <1>9, <1>11

\* SortBasic returns an order of all nodes in which each comes after those with
\* an edge to it, unless the graph has a cycle: then, and only then, none.
THEOREM SortIsTopological ==
  ASSUME NEW edges, IsGraph(edges)
  PROVE  /\ HasNoCycle(edges) <=> SortBasic(edges) # {}
         /\ \A o \in SortBasic(edges) :
              /\ o \in Seq(NodesOf(edges)) /\ ToSet(o) = NodesOf(edges) /\ IsInjective(o)
              /\ \A i, j \in DOMAIN o : <<o[i], o[j]>> \in edges => i < j
<1> DEFINE N == NodesOf(edges)
           n == Cardinality(N)
<1>1. IsFiniteSet(N) /\ Loop(edges) # {} /\ \A s \in Loop(edges) : LoopInv(edges, s, n)
  BY NodesAre, LoopIs
<1>2. ASSUME NEW s \in Loop(edges)
      PROVE  /\ s.order \in Seq(N) /\ IsInjective(s.order) /\ s.stack = <<>>
             /\ Len(s.order) = n <=> ToSet(s.order) = N
             /\ \A x \in N : InNodes(edges, x) \subseteq ToSet(s.order) => x \in ToSet(s.order)
             /\ \A i, j \in DOMAIN s.order : <<s.order[i], s.order[j]>> \in edges => i < j
  <2>1. LoopInv(edges, s, n)
    BY <1>1
  <2>2. /\ s.order \in Seq(N) /\ IsInjective(s.order) /\ s.stack \in Seq(N)
        /\ ToSet(s.stack) \cap ToSet(s.order) = {}
        /\ s.stack # <<>> => Len(s.order) = n
        /\ \A i, j \in DOMAIN s.order : <<s.order[i], s.order[j]>> \in edges => i < j
    BY <2>1 DEF LoopInv
  <2>3. Len(s.order) = n <=> ToSet(s.order) = N
    BY <1>1, <2>2, InjectiveLength
  <2>4. s.stack = <<>>
    <3>1. SUFFICES ASSUME s.stack # <<>> PROVE FALSE
      OBVIOUS
    <3>2. Last(s.stack) \in N /\ Last(s.stack) \in ToSet(s.stack)
      <4>1. s.stack \in Seq(N)
        BY <2>2
      <4>2. Last(s.stack) \in N /\ ToSet(s.stack) = ToSet(Front(s.stack)) \cup {Last(s.stack)}
        BY <3>1, <4>1, FrontAndLast
      <4>3. QED
        BY <4>2
    <3>3. Last(s.stack) \in ToSet(s.order)
      BY <2>2, <2>3, <3>1, <3>2
    <3>4. QED
      BY <2>2, <3>2, <3>3
  <2>5. ToSet(s.stack) = {}
    BY <2>4 DEF ToSet
  <2>6. QED
    BY <2>1, <2>2, <2>3, <2>4, <2>5 DEF LoopInv
<1>3. SortBasic(edges) = {s.order : s \in {t \in Loop(edges) : ToSet(t.order) = N}}
  BY <1>2 DEF SortBasic
<1>4. ASSUME HasNoCycle(edges), NEW s \in Loop(edges) PROVE ToSet(s.order) = N
  <2> DEFINE others == N \ ToSet(s.order)
  <2>1. ToSet(s.order) \subseteq N
    BY <1>2 DEF ToSet
  <2>2. ASSUME others # {} PROVE FALSE
    <3>1. PICK x \in others : InNodes(edges, x) \cap others = {}
      BY <1>4, <2>2 DEF HasNoCycle
    <3>2. InNodes(edges, x) \subseteq N
      BY NodesAre
    <3>3. QED
      BY <1>2, <3>1, <3>2
  <2>3. QED
    BY <2>1, <2>2
<1>5. ASSUME NEW s \in Loop(edges), ToSet(s.order) = N PROVE HasNoCycle(edges)
  <2>1. SUFFICES ASSUME NEW ns \in SUBSET N, ns # {}
                 PROVE  \E x \in ns : InNodes(edges, x) \cap ns = {}
    BY DEF HasNoCycle
  <2> DEFINE o == s.order
             T == {i \in DOMAIN o : o[i] \in ns}
  <2>2. o \in Seq(N) /\ \A i, j \in DOMAIN o : <<o[i], o[j]>> \in edges => i < j
    BY <1>2
  <2>3. T \subseteq Nat /\ T # {}
    <3>1. PICK x \in ns : TRUE
      BY <2>1
    <3>2. PICK i \in DOMAIN o : o[i] = x
      BY <1>5, <3>1 DEF ToSet
    <3>3. QED
      BY <2>2, <3>2
  <2>4. PICK i \in T : \A j \in T : i <= j
    <3> HIDE DEF T
    <3>1. QED
      BY <2>3, LeastNumber
  <2>5. ASSUME NEW m \in InNodes(edges, o[i]) \cap ns PROVE FALSE
    <3>1. <<m, o[i]>> \in edges
      BY NodesAre
    <3>2. PICK j \in DOMAIN o : o[j] = m
      BY <1>5, <2>1 DEF ToSet
    <3>3. j \in T /\ j < i
      BY <2>2, <3>1, <3>2
    <3>4. i \in Nat /\ j \in Nat /\ i <= j
      BY <2>3, <2>4, <3>3
    <3>5. QED
      BY <3>3, <3>4
  <2>6. QED
    BY <2>5
<1>6. QED
  BY <1>1, <1>2, <1>3, <1>4, <1>5
-----------------------------------------------------------------------------
(***************************************************************************)
(* The edges of the maps are a graph.                                      *)
(***************************************************************************)

\* Every stop has a station: its parents end.
LEMMA StationsAre ==
  ASSUME NEW file \in Files
  PROVE  StationOf(file) \in [Stops -> Stops]
<1> DEFINE parent == file.parent
           base(s) == s \in file.stations \/ parent[s] = None
           Pairs == Stops \X Stops
           Closed(R) == \A s \in Stops : IF base(s) THEN <<s, s>> \in R
                          ELSE \A t \in Stops : <<parent[s], t>> \in R => <<s, t>> \in R
           Least == {p \in Pairs : \A R \in SUBSET Pairs : Closed(R) => p \in R}
           One(s) == \E t \in Stops : \A u \in Stops : <<s, u>> \in Least <=> u = t
           Def(f) == [s \in Stops |-> IF base(s) THEN s ELSE f[parent[s]]]
<1>1. /\ parent \in [Stops -> Stops \cup {None}] /\ None \notin Stops
      /\ \A group \in SUBSET Stops : group # {} => \E s \in group : parent[s] \notin group
  BY FilesAssumption, StopsAssumption
<1>2. \A s \in Stops : base(s) \/ parent[s] \in Stops
  BY <1>1
<1> HIDE DEF parent, base
<1>3. Closed(Least)
  <2>1. ASSUME NEW s \in Stops, base(s) PROVE <<s, s>> \in Least
    BY <2>1
  <2>2. ASSUME NEW s \in Stops, ~base(s), NEW t \in Stops, <<parent[s], t>> \in Least PROVE <<s, t>> \in Least
    <3>1. ASSUME NEW R \in SUBSET Pairs, Closed(R) PROVE <<s, t>> \in R
      <4>1. <<parent[s], t>> \in R
        BY <2>2, <3>1
      <4>2. QED
        BY <2>2, <3>1, <4>1
    <3>2. QED
      BY <3>1
  <2> HIDE DEF Least
  <2>3. QED
    BY <2>1, <2>2
<1>4. ASSUME NEW R, Closed(R), R \subseteq Least PROVE R = Least
  BY <1>4
<1> HIDE DEF Least
<1>5. Least \subseteq Pairs
  BY DEF Least
<1>6. ASSUME NEW s \in Stops, base(s) PROVE One(s)
  <2>1. ASSUME NEW u \in Stops, u # s, <<s, u>> \in Least PROVE FALSE
    <3>1. Closed(Least \ {<<s, u>>})
      BY <1>3, <1>6, <2>1
    <3> HIDE DEF Closed
    <3>2. Least \ {<<s, u>>} = Least
      BY <1>4, <3>1
    <3>3. QED
      BY <2>1, <3>2
  <2>2. <<s, s>> \in Least
    BY <1>3, <1>6
  <2>3. QED
    BY <2>1, <2>2
<1>7. ASSUME NEW s \in Stops, ~base(s), One(parent[s]) PROVE One(s)
  <2>1. PICK t \in Stops : \A u \in Stops : <<parent[s], u>> \in Least <=> u = t
    BY <1>7
  <2>2. ASSUME NEW u \in Stops, u # t, <<s, u>> \in Least PROVE FALSE
    <3>1. Closed(Least \ {<<s, u>>})
      <4>1. ASSUME NEW x \in Stops, base(x) PROVE <<x, x>> \in Least \ {<<s, u>>}
        BY <1>3, <1>7, <4>1
      <4>2. ASSUME NEW x \in Stops, ~base(x), NEW y \in Stops, <<parent[x], y>> \in Least
            PROVE  <<x, y>> \in Least \ {<<s, u>>}
        <5>1. <<x, y>> \in Least
          BY <1>3, <4>2
        <5>2. x = s => y = t
          BY <2>1, <4>2
        <5>3. QED
          BY <2>2, <5>1, <5>2
      <4>3. QED
        BY <4>1, <4>2
    <3> HIDE DEF Closed
    <3>2. Least \ {<<s, u>>} = Least
      BY <1>4, <3>1
    <3>3. QED
      BY <2>2, <3>2
  <2>3. <<s, t>> \in Least
    BY <1>3, <1>7, <2>1
  <2>4. QED
    BY <2>2, <2>3
<1>8. \A s \in Stops : One(s)
  <2> DEFINE group == {s \in Stops : ~One(s)}
  <2> HIDE DEF One
  <2>1. ASSUME group # {} PROVE FALSE
    <3>1. PICK s \in group : parent[s] \notin group
      BY <1>1, <2>1
    <3>2. QED
      BY <1>2, <1>6, <1>7, <3>1
  <2>2. QED
    BY <2>1
<1> DEFINE f == [s \in Stops |-> CHOOSE t \in Stops : <<s, t>> \in Least]
<1>9. ASSUME NEW s \in Stops PROVE f[s] \in Stops /\ \A u \in Stops : <<s, u>> \in Least <=> u = f[s]
  BY <1>8
<1>10. f = Def(f)
  <2>1. ASSUME NEW s \in Stops PROVE f[s] = Def(f)[s]
    <3> HIDE DEF f
    <3>1. CASE base(s)
      BY <1>3, <1>9, <3>1
    <3>2. CASE ~base(s)
      <4>1. parent[s] \in Stops /\ <<parent[s], f[parent[s]]>> \in Least /\ f[parent[s]] \in Stops
        BY <1>2, <1>9, <3>2
      <4>2. <<s, f[parent[s]]>> \in Least
        BY <1>3, <3>2, <4>1
      <4>3. QED
        BY <1>9, <3>2, <4>1, <4>2
    <3>3. QED
      BY <3>1, <3>2
  <2>2. QED
    BY <2>1
<1>11. StationOf(file) = CHOOSE g : g = Def(g)
  BY DEF StationOf, base, parent
<1>12. PICK g : g = Def(g) /\ StationOf(file) = g
  <2> HIDE DEF Def, f
  <2>1. QED
    BY <1>10, <1>11
<1>13. ASSUME NEW s \in Stops PROVE g[s] \in Stops
  <2> DEFINE group == {x \in Stops : g[x] \notin Stops}
  <2>1. \A x \in Stops : g[x] = IF base(x) THEN x ELSE g[parent[x]]
    BY <1>12
  <2>2. ASSUME group # {} PROVE FALSE
    <3>1. PICK x \in group : parent[x] \notin group
      BY <1>1, <2>2
    <3>2. QED
      BY <1>2, <2>1, <3>1
  <2>3. QED
    BY <2>2
<1>14. g = [s \in Stops |-> g[s]]
  BY <1>12
<1>15. QED
  BY <1>12, <1>13, <1>14

LEMMA PathIs ==
  ASSUME NEW file \in Files, NEW t, t.direction \in BOOLEAN, t.stops \in Seq(Stops)
  PROVE  Path(file, t) \in Seq(Stops)
<1> DEFINE of == StationOf(file)
           stations == [i \in DOMAIN t.stops |-> of[t.stops[i]]]
<1>1. of \in [Stops -> Stops]
  BY StationsAre
<1> HIDE DEF of
<1>2. stations \in Seq(Stops)
  <2>1. DOMAIN t.stops = 1..Len(t.stops) /\ Len(t.stops) \in Nat
    OBVIOUS
  <2>2. \A i \in 1..Len(t.stops) : of[t.stops[i]] \in Stops
    BY <1>1
  <2>3. QED
    BY <2>1, <2>2
<1>3. Path(file, t) = IF t.direction THEN stations ELSE Reverse(stations)
  BY DEF Path, of
<1> HIDE DEF stations
<1>4. Reverse(stations) \in Seq(Stops)
  <2>1. \A i \in 1..Len(stations) : (Len(stations) - i) + 1 \in 1..Len(stations)
    BY <1>2
  <2>2. \A i \in 1..Len(stations) : stations[(Len(stations) - i) + 1] \in Stops
    BY <1>2, <2>1
  <2>3. QED
    BY <1>2, <2>2 DEF Reverse
<1>5. QED
  BY <1>2, <1>3, <1>4

LEMMA PathHasGraph ==
  ASSUME NEW p \in Seq(Stops)
  PROVE  IsGraph(EdgesOf(p))
<1> DEFINE n == Len(p) - 1
           f == [i \in 1..n |-> <<p[i], p[i + 1]>>]
<1>1. n \in Int
  OBVIOUS
<1>2. IsFiniteSet({f[i] : i \in 1..n})
  <2>1. f = [i \in 1..n |-> f[i]]
    OBVIOUS
  <2>2. IsFiniteSet(1..n)
    <3> HIDE DEF n
    <3>1. QED
      BY <1>1, FS_Interval
  <2> HIDE DEF f
  <2>3. QED
    BY <2>1, <2>2, ImageIsFinite
<1>3. EdgesOf(p) = {f[i] : i \in 1..n}
  BY DEF EdgesOf
<1>4. \A i \in 1..n : p[i] \in Nat /\ p[i + 1] \in Nat
  <2>1. \A i \in 1..n : i \in 1..Len(p) /\ i + 1 \in 1..Len(p)
    OBVIOUS
  <2>2. \A i \in 1..Len(p) : p[i] \in Stops
    OBVIOUS
  <2>3. \A s \in Stops : s \in Nat
    BY StopsAssumption
  <2>4. QED
    BY <2>1, <2>2, <2>3
<1>5. \A i \in 1..n : f[i] \in Nat \X Nat
  BY <1>4
<1> HIDE DEF f, n
<1>6. QED
  BY <1>2, <1>3, <1>5 DEF IsGraph

\* The edges of finitely many paths.
LEMMA PathsHaveGraph ==
  ASSUME NEW paths, IsFiniteSet(paths), paths \subseteq Seq(Stops)
  PROVE  IsGraph(UNION {EdgesOf(p) : p \in paths})
<1> DEFINE f == [p \in paths |-> EdgesOf(p)]
<1>1. IsFiniteSet({f[p] : p \in paths})
  <2>1. f = [p \in paths |-> f[p]]
    OBVIOUS
  <2> HIDE DEF f
  <2>2. QED
    BY <2>1, ImageIsFinite
<1>2. {f[p] : p \in paths} = {EdgesOf(p) : p \in paths}
  OBVIOUS
<1>3. \A p \in paths : EdgesOf(p) \subseteq Nat \X Nat /\ IsFiniteSet(EdgesOf(p))
  BY PathHasGraph DEF IsGraph
<1>4. IsFiniteSet(UNION {EdgesOf(p) : p \in paths})
  BY <1>1, <1>2, <1>3, FS_UNION
<1>5. QED
  BY <1>3, <1>4 DEF IsGraph

\* The paths of finitely many trips.
LEMMA TripsHavePaths ==
  ASSUME NEW file \in Files, NEW ts, IsFiniteSet(ts),
         \A t \in ts : t.direction \in BOOLEAN /\ t.stops \in Seq(Stops)
  PROVE  IsFiniteSet({Path(file, t) : t \in ts}) /\ {Path(file, t) : t \in ts} \subseteq Seq(Stops)
<1> DEFINE f == [t \in ts |-> Path(file, t)]
<1>1. IsFiniteSet({f[t] : t \in ts})
  <2>1. f = [t \in ts |-> f[t]]
    OBVIOUS
  <2> HIDE DEF f
  <2>2. QED
    BY <2>1, ImageIsFinite
<1>2. {f[t] : t \in ts} = {Path(file, t) : t \in ts}
  OBVIOUS
<1>3. \A t \in ts : Path(file, t) \in Seq(Stops)
  BY PathIs
<1>4. QED
  BY <1>1, <1>2, <1>3

LEMMA EdgesAreGraphs ==
  ASSUME NEW file \in Files, NEW r
  PROVE  /\ \A c : IsGraph(StaticEdges(c, file, r))
         /\ \A ts \in Timetables \cup {{}} : IsGraph(RealtimeEdges(ts, file, r))
<1>1. ASSUME NEW c PROVE IsGraph(StaticEdges(c, file, r))
  <2> DEFINE included == {t \in file.trips : t.route = r /\ IsIncludedTrip(c, t)}
             taking(p) == {t \in included : Path(file, t) = p}
             paths == {Path(file, t) : t \in included}
             taken == {q \in paths : Cardinality(taking(q)) * 100 >= Cardinality(included) * c.threshold}
  <2>1. IsFiniteSet(included) /\ \A t \in included : t.direction \in BOOLEAN /\ t.stops \in Seq(Stops)
    BY FilesAssumption, FS_Subset DEF IsIncludedTrip
  <2>2. StaticEdges(c, file, r) = UNION {EdgesOf(p) : p \in taken}
    BY DEF StaticEdges
  <2> HIDE DEF included
  <2>3. IsFiniteSet(paths) /\ paths \subseteq Seq(Stops)
    BY <2>1, TripsHavePaths
  <2>4. taken \subseteq paths
    OBVIOUS
  <2> HIDE DEF paths, taken
  <2>5. IsFiniteSet(taken) /\ taken \subseteq Seq(Stops)
    BY <2>3, <2>4, FS_Subset
  <2>6. QED
    BY <2>2, <2>5, PathsHaveGraph
<1>2. ASSUME NEW ts \in Timetables \cup {{}} PROVE IsGraph(RealtimeEdges(ts, file, r))
  <2> DEFINE included == {t \in ts : t.route = r /\ t.direction # None}
             paths == {Path(file, t) : t \in included}
  <2>1. IsFiniteSet(ts) /\ \A t \in ts : t.direction \in {TRUE, FALSE, None} /\ t.stops \in Seq(Stops)
    <3>1. CASE ts = {}
      BY <3>1, FS_EmptySet
    <3>2. CASE ts # {}
      BY <3>2, TimetablesAssumption
    <3>3. QED
      BY <3>1, <3>2
  <2>2. IsFiniteSet(included) /\ \A t \in included : t.direction \in BOOLEAN /\ t.stops \in Seq(Stops)
    BY <2>1, FS_Subset
  <2>3. RealtimeEdges(ts, file, r) = UNION {EdgesOf(p) : p \in paths}
    BY DEF RealtimeEdges
  <2> HIDE DEF included
  <2>4. IsFiniteSet(paths) /\ paths \subseteq Seq(Stops)
    BY <2>2, TripsHavePaths
  <2> HIDE DEF paths
  <2>5. QED
    BY <2>3, <2>4, PathsHaveGraph
<1>3. QED
  BY <1>1, <1>2
-----------------------------------------------------------------------------
(***************************************************************************)
(* The inductive invariant.  The two properties are preserved together     *)
(* with what the variables hold: IDs of stored configurations are unique,  *)
(* as are UIDs of trips, and before the first static update nothing is     *)
(* said of any map.                                                        *)
(***************************************************************************)

TypeOK ==
  /\ configs \in Configs \cup {Defaults, {}}
  /\ data \in Files \cup {None}
  /\ trips \in Timetables \cup {{}}
  /\ built \subseteq configs
  /\ data = None => built = {} /\ behind = Routes

IInv == TypeOK /\ MapsAreSorted /\ MapsAreCurrent

\* What MapsAreSorted says of one map.
MapIsSorted(m) ==
  IF HasNoCycle(m.edges)
  THEN /\ ToSet(m.stops) = NodesOf(m.edges) /\ IsInjective(m.stops)
       /\ \A i, j \in DOMAIN m.stops : <<m.stops[i], m.stops[j]>> \in m.edges => i < j
  ELSE m.stops = <<>> /\ m.source = "static"

LEMMA MapsAreSortedIs ==
  MapsAreSorted <=> /\ \A m, n \in maps : m.config = n.config /\ m.route = n.route => m = n
                    /\ \A m \in maps : m.config \in IDs(configs) /\ MapIsSorted(m)
BY DEF MapsAreSorted, MapIsSorted

\* One of each of some sets, and nothing else.
LEMMA ChoicesAre ==
  ASSUME NEW Sets, NEW rows \in Choices(Sets)
  PROVE  \E f : /\ \A T \in Sets : f[T] \in T /\ f[T] \in rows
                /\ \A m \in rows : \E T \in Sets : m = f[T]
<1>1. PICK f \in [Sets -> UNION Sets] : (\A T \in Sets : f[T] \in T) /\ rows = Range(f)
  BY DEF Choices
<1>2. \A T \in Sets : f[T] \in rows
  BY <1>1 DEF Range
<1>3. \A m \in rows : \E T \in Sets : m = f[T]
  BY <1>1 DEF Range
<1>4. QED
  BY <1>1, <1>2, <1>3

\* No two stored configurations have one ID.
LEMMA IDsAreUnique ==
  ASSUME TypeOK
  PROVE  \A c, d \in configs : c.id = d.id => c = d
BY ConfigsAssumption DEF TypeOK

\* A map in an order that SortBasic returns, or an empty static one if there is
\* none, is sorted.
LEMMA NewMapIsSorted ==
  ASSUME NEW c, NEW r, NEW edges, NEW o, IsGraph(edges),
         o \in SortBasic(edges) \/ (SortBasic(edges) = {} /\ o = <<>> /\ c.source = "static")
  PROVE  LET m == Map(c, r, edges, o)
         IN MapIsSorted(m) /\ m.config = c.id /\ m.route = r /\ m.edges = edges
<1>1. CASE o \in SortBasic(edges)
  <2>1. HasNoCycle(edges)
    BY <1>1, SortIsTopological
  <2>2. /\ ToSet(o) = NodesOf(edges) /\ IsInjective(o)
        /\ \A i, j \in DOMAIN o : <<o[i], o[j]>> \in edges => i < j
    BY <1>1, SortIsTopological
  <2>3. QED
    BY <2>1, <2>2 DEF MapIsSorted, Map
<1>2. CASE SortBasic(edges) = {} /\ o = <<>> /\ c.source = "static"
  <2>1. ~HasNoCycle(edges)
    BY <1>2, SortIsTopological
  <2>2. QED
    BY <1>2, <2>1 DEF MapIsSorted, Map
<1>3. QED
  BY <1>1, <1>2

\* What a round of persistMap stores for some configurations and routes: sorted
\* maps, at most one for each of them.
RowsOf(rows, cs, rs) ==
  /\ \A m, n \in rows : m.config = n.config /\ m.route = n.route => m = n
  /\ \A m \in rows : m.config \in IDs(cs) /\ m.route \in rs /\ MapIsSorted(m)

LEMMA StoredRowsAreSorted ==
  ASSUME MapsAreSorted, NEW cs \in SUBSET configs, NEW rs, NEW rows, RowsOf(rows, cs, rs),
         configs' = configs, maps' = Others(IDs(cs), rs) \cup rows
  PROVE  MapsAreSorted'
<1>1. Others(IDs(cs), rs) \subseteq maps
  BY DEF Others
<1>2. \A m \in Others(IDs(cs), rs), n \in rows : ~(m.config = n.config /\ m.route = n.route)
  BY DEF Others, RowsOf
<1>3. \A m, n \in maps' : m.config = n.config /\ m.route = n.route => m = n
  <2>1. \A m, n \in Others(IDs(cs), rs) : m.config = n.config /\ m.route = n.route => m = n
    BY <1>1, MapsAreSortedIs
  <2>2. QED
    BY <1>2, <2>1 DEF RowsOf
<1>4. \A m \in maps' : m.config \in IDs(configs') /\ MapIsSorted(m)
  <2>1. \A m \in maps : m.config \in IDs(configs) /\ MapIsSorted(m)
    BY MapsAreSortedIs
  <2>2. \A m \in rows : m.config \in IDs(configs) /\ MapIsSorted(m)
    BY DEF RowsOf, IDs
  <2>3. QED
    BY <1>1, <2>1, <2>2
<1>5. QED
  BY <1>3, <1>4 DEF MapsAreSorted, MapIsSorted

\* The maps of other configurations, and of other routes, stay.
LEMMA OtherMapsStay ==
  ASSUME TypeOK, NEW c \in configs, NEW r, NEW cs \in SUBSET configs, NEW rs,
         c \notin cs \/ r \notin rs,
         NEW m \in maps, m.config = c.id, m.route = r
  PROVE  m \in Others(IDs(cs), rs)
BY IDsAreUnique DEF Others, IDs

LEMMA StaticRows ==
  ASSUME TypeOK, NEW file \in Files,
         NEW rows \in AllStaticMaps(file)
  PROVE  /\ RowsOf(rows, Sourced(configs, "static"), Routes)
         /\ \A c \in Sourced(configs, "static") : \A r \in Routes :
              \E m \in rows : m.config = c.id /\ m.route = r /\ m.edges = StaticEdges(c, file, r)
<1> DEFINE static == Sourced(configs, "static")
           Sets == {StaticMaps(file, c, r) : c \in static, r \in Routes}
<1>1. \A T \in Sets : \E c \in static, r \in Routes : T = StaticMaps(file, c, r)
  OBVIOUS
<1>2. \A c \in static, r \in Routes : StaticMaps(file, c, r) \in Sets
  OBVIOUS
<1>3. rows \in Choices(Sets)
  BY DEF AllStaticMaps
<1> HIDE DEF Sets
<1>4. PICK f : /\ \A T \in Sets : f[T] \in T /\ f[T] \in rows
               /\ \A m \in rows : \E T \in Sets : m = f[T]
  BY <1>3, ChoicesAre
<1>5. ASSUME NEW c \in static, NEW r \in Routes, NEW m \in StaticMaps(file, c, r)
      PROVE  MapIsSorted(m) /\ m.config = c.id /\ m.route = r /\ m.edges = StaticEdges(c, file, r)
  <2> DEFINE edges == StaticEdges(c, file, r)
  <2>1. c.source = "static"
    BY DEF Sourced
  <2>2. IsGraph(edges)
    BY EdgesAreGraphs
  <2>3. PICK o \in (IF SortBasic(edges) = {} THEN {<<>>} ELSE SortBasic(edges)) : m = Map(c, r, edges, o)
    BY DEF StaticMaps
  <2> HIDE DEF edges
  <2>4. o \in SortBasic(edges) \/ (SortBasic(edges) = {} /\ o = <<>> /\ c.source = "static")
    BY <2>1, <2>3
  <2>5. MapIsSorted(m) /\ m.config = c.id /\ m.route = r /\ m.edges = edges
    BY <2>2, <2>3, <2>4, NewMapIsSorted
  <2>6. QED
    BY <2>5 DEF edges
<1>6. \A m \in rows : \E c \in static, r \in Routes :
        m = f[StaticMaps(file, c, r)] /\ m \in StaticMaps(file, c, r)
  BY <1>1, <1>4
<1>7. \A c, d \in static : c.id = d.id => c = d
  BY IDsAreUnique DEF Sourced
<1> HIDE DEF static
<1>8. \A m, n \in rows : m.config = n.config /\ m.route = n.route => m = n
  BY <1>5, <1>6, <1>7
<1>9. \A m \in rows : m.config \in IDs(static) /\ m.route \in Routes /\ MapIsSorted(m)
  BY <1>5, <1>6 DEF IDs
<1>10. ASSUME NEW c \in static, NEW r \in Routes
       PROVE  \E m \in rows : m.config = c.id /\ m.route = r /\ m.edges = StaticEdges(c, file, r)
  BY <1>2, <1>4, <1>5
<1>11. QED
  BY <1>8, <1>9, <1>10 DEF RowsOf, static

LEMMA RealtimeRows ==
  ASSUME TypeOK, data # None, NEW ts \in Timetables, NEW sorted \in SUBSET Routes,
         NEW rows \in AllRealtimeMaps(ts, sorted),
         \A r \in sorted : RealtimeMaps(ts, r) # {}
  PROVE  /\ RowsOf(rows, Sourced(configs, "realtime"), sorted)
         /\ \A c \in Sourced(configs, "realtime") : \A r \in sorted :
              \E m \in rows : m.config = c.id /\ m.route = r
                                    /\ m.edges = RealtimeEdges(ts, data, r)
<1> DEFINE realtime == Sourced(configs, "realtime")
           Sets == {RealtimeMaps(ts, r) : r \in sorted}
           Is(m, c, r) == /\ MapIsSorted(m) /\ m.config = c.id /\ m.route = r
                          /\ m.edges = RealtimeEdges(ts, data, r)
<1>1. \A T \in Sets : \E r \in sorted : T = RealtimeMaps(ts, r)
  OBVIOUS
<1>2. \A r \in sorted : RealtimeMaps(ts, r) \in Sets
  OBVIOUS
<1>3. PICK parts \in Choices(Sets) : rows = UNION parts
  BY DEF AllRealtimeMaps
<1> HIDE DEF Sets
<1>4. PICK f : /\ \A T \in Sets : f[T] \in T /\ f[T] \in parts
               /\ \A ms \in parts : \E T \in Sets : ms = f[T]
  BY <1>3, ChoicesAre
<1>5. ASSUME NEW r \in sorted, NEW ms \in RealtimeMaps(ts, r)
      PROVE  /\ \A m \in ms : \E c \in realtime : Is(m, c, r)
             /\ \A c \in realtime : \E m \in ms : Is(m, c, r)
             /\ \A m, n \in ms : m.config = n.config => m = n
  <2> DEFINE edges == RealtimeEdges(ts, data, r)
  <2>1. IsGraph(edges)
    BY EdgesAreGraphs DEF TypeOK
  <2>2. PICK o \in SortBasic(edges) : ms = {Map(c, r, edges, o) : c \in realtime}
    BY DEF RealtimeMaps
  <2>3. \A c \in realtime : Is(Map(c, r, edges, o), c, r)
    <3> HIDE DEF edges
    <3>1. \A c : LET m == Map(c, r, edges, o)
                 IN MapIsSorted(m) /\ m.config = c.id /\ m.route = r /\ m.edges = edges
      BY <2>1, NewMapIsSorted
    <3>2. QED
      BY <3>1 DEF edges
  <2>4. \A c, d \in realtime : c.id = d.id => c = d
    BY IDsAreUnique DEF Sourced
  <2> HIDE DEF edges, realtime, Is
  <2>5. \A m \in ms : \E c \in realtime : Is(m, c, r) /\ m = Map(c, r, edges, o)
    BY <2>2, <2>3
  <2>6. \A c \in realtime : \E m \in ms : Is(m, c, r)
    BY <2>2, <2>3
  <2>7. \A m, n \in ms : m.config = n.config => m = n
    <3>1. SUFFICES ASSUME NEW m \in ms, NEW n \in ms, m.config = n.config PROVE m = n
      OBVIOUS
    <3>2. PICK c \in realtime : Is(m, c, r) /\ m = Map(c, r, edges, o)
      BY <2>5
    <3>3. PICK d \in realtime : Is(n, d, r) /\ n = Map(d, r, edges, o)
      BY <2>5
    <3>4. c.id = d.id
      BY <3>1, <3>2, <3>3 DEF Is
    <3>5. QED
      BY <2>4, <3>2, <3>3, <3>4
  <2>8. QED
    BY <2>5, <2>6, <2>7
<1> HIDE DEF realtime
<1>6. \A m \in rows : \E r \in sorted :
        LET ms == f[RealtimeMaps(ts, r)] IN ms \in RealtimeMaps(ts, r) /\ m \in ms
  BY <1>1, <1>3, <1>4
<1>7. \A m \in rows : \E c \in realtime, r \in sorted : Is(m, c, r)
  BY <1>5, <1>6
<1>8. ASSUME NEW m \in rows, NEW n \in rows, m.config = n.config, m.route = n.route
      PROVE  m = n
  <2>1. PICK r \in sorted : f[RealtimeMaps(ts, r)] \in RealtimeMaps(ts, r) /\ m \in f[RealtimeMaps(ts, r)]
    BY <1>6
  <2>2. PICK q \in sorted : f[RealtimeMaps(ts, q)] \in RealtimeMaps(ts, q) /\ n \in f[RealtimeMaps(ts, q)]
    BY <1>6
  <2>3. m.route = r /\ n.route = q
    BY <1>5, <2>1, <2>2
  <2>4. r = q
    BY <1>8, <2>3
  <2>5. QED
    BY <1>5, <1>8, <2>1, <2>2, <2>4
<1>9. \A m \in rows : m.config \in IDs(realtime) /\ m.route \in sorted /\ MapIsSorted(m)
  BY <1>7 DEF IDs
<1>10. ASSUME NEW c \in realtime, NEW r \in sorted
       PROVE  \E m \in rows : Is(m, c, r)
  <2>1. f[RealtimeMaps(ts, r)] \in RealtimeMaps(ts, r) /\ f[RealtimeMaps(ts, r)] \in parts
    BY <1>2, <1>4
  <2>2. PICK m \in f[RealtimeMaps(ts, r)] : Is(m, c, r)
    BY <1>5, <2>1
  <2>3. QED
    BY <1>3, <2>1, <2>2
<1>11. QED
  BY <1>8, <1>9, <1>10 DEF RowsOf, realtime

LEMMA UIDsAreUnique ==
  ASSUME NEW ts \in Timetables, NEW us \in Timetables, NEW t \in ts, NEW u \in us, t.id = u.id
  PROVE  t.route = u.route /\ (ts = us => t = u)
BY TimetablesAssumption

\* A route that is not rebuilt, and that no trip without stops was added to, has
\* the trips it had.
LEMMA RouteHasItsTrips ==
  ASSUME TypeOK, NEW ts \in Timetables, NEW r,
         r \notin RoutesToRebuild(ts),
         r \notin {t.route : t \in {u \in ts : u.stops = <<>> /\ u \notin trips}}
  PROVE  RealtimeEdges(ts, data, r) = RealtimeEdges(trips, data, r)
<1>1. \A t \in ts : t.route = r => t \in trips
  BY DEF RoutesToRebuild
<1>2. ASSUME NEW t \in trips, t.route = r PROVE t \in ts
  <2>1. PICK u \in ts : u.id = t.id
    BY <1>2 DEF RoutesToRebuild, IDs
  <2>2. trips \in Timetables
    BY <1>2 DEF TypeOK
  <2>3. u.route = r
    BY <1>2, <2>1, <2>2, UIDsAreUnique
  <2>4. u \in trips
    BY <1>1, <2>3
  <2>5. u = t
    BY <1>2, <2>1, <2>2, <2>4, UIDsAreUnique
  <2>6. QED
    BY <2>1, <2>5
<1>3. {u \in ts : u.route = r /\ u.direction # None} = {u \in trips : u.route = r /\ u.direction # None}
  BY <1>1, <1>2
<1>4. QED
  BY <1>3 DEF RealtimeEdges
-----------------------------------------------------------------------------
(***************************************************************************)
(* Each action preserves the invariant.                                    *)
(***************************************************************************)

\* The two parts of MapsAreCurrent.
StaticMapIsCurrent(c, r) ==
  \E m \in maps : m.config = c.id /\ m.route = r /\ m.edges = StaticEdges(c, data, r)

RealtimeMapIsCurrent(c, r) ==
  \/ \E m \in maps : m.config = c.id /\ m.route = r /\ m.edges = RealtimeEdges(trips, data, r)
  \/ SortBasic(RealtimeEdges(trips, data, r)) = {}

LEMMA MapsAreCurrentIs ==
  MapsAreCurrent <=>
    /\ \A c \in Sourced(built, "static") : \A r \in Routes : StaticMapIsCurrent(c, r)
    /\ \A c \in Sourced(configs, "realtime") : \A r \in Routes \ behind : RealtimeMapIsCurrent(c, r)
BY DEF MapsAreCurrent, StaticMapIsCurrent, RealtimeMapIsCurrent

LEMMA Initially ==
  Init => IInv
<1> SUFFICES ASSUME Init PROVE IInv
  OBVIOUS
<1>1. TypeOK
  BY DEF Init, TypeOK
<1>2. MapsAreSorted
  BY DEF Init, MapsAreSorted
<1>3. MapsAreCurrent
  BY DEF Init, MapsAreCurrent, Sourced
<1>4. QED
  BY <1>1, <1>2, <1>3 DEF IInv

\* Maps of the configurations that stay are kept.
LEMMA UpdateConfigPreserves ==
  ASSUME IInv, NEW given \in Configs, UpdateConfig(given)
  PROVE  IInv'
<1> DEFINE cs == IF given = {} THEN Defaults ELSE given
<1>1. /\ configs' = cs /\ cs \in Configs \cup {Defaults}
      /\ maps' = {m \in maps : m.config \in KeptConfigs(cs)}
      /\ built' = built \cap cs
      /\ behind' = IF Sourced(cs, "realtime") \subseteq configs THEN behind ELSE Routes
      /\ data' = data /\ trips' = trips
  BY DEF UpdateConfig
<1> HIDE DEF cs
<1>2. TypeOK /\ MapsAreSorted /\ MapsAreCurrent
  BY DEF IInv
<1>3. TypeOK'
  BY <1>1, <1>2 DEF TypeOK
<1>4. \A m \in maps' : m \in maps /\ m.config \in IDs(configs')
  BY <1>1 DEF KeptConfigs
<1>5. MapsAreSorted'
  <2>1. \A m, n \in maps' : m.config = n.config /\ m.route = n.route => m = n
    BY <1>2, <1>4, MapsAreSortedIs
  <2>2. \A m \in maps' : m.config \in IDs(configs') /\ MapIsSorted(m)
    BY <1>2, <1>4, MapsAreSortedIs
  <2>3. QED
    BY <2>1, <2>2 DEF MapsAreSorted, MapIsSorted
<1>6. \A c \in configs \cap cs : \A m \in maps : m.config = c.id => m \in maps'
  BY <1>1 DEF KeptConfigs, IDs
<1>7. ASSUME NEW c \in Sourced(built', "static"), NEW r \in Routes
      PROVE  StaticMapIsCurrent(c, r)'
  <2>1. c \in Sourced(built, "static") /\ c \in configs \cap cs
    BY <1>1, <1>2 DEF Sourced, TypeOK
  <2>2. PICK m \in maps : m.config = c.id /\ m.route = r /\ m.edges = StaticEdges(c, data, r)
    BY <1>2, <2>1, MapsAreCurrentIs DEF StaticMapIsCurrent
  <2>3. m \in maps'
    BY <1>6, <2>1, <2>2
  <2>4. QED
    BY <1>1, <2>2, <2>3 DEF StaticMapIsCurrent
<1>8. ASSUME NEW c \in Sourced(configs', "realtime"), NEW r \in Routes \ behind'
      PROVE  RealtimeMapIsCurrent(c, r)'
  <2>1. Sourced(cs, "realtime") \subseteq configs /\ r \in Routes \ behind
    BY <1>1, <1>8
  <2>2. c \in Sourced(configs, "realtime") /\ c \in configs \cap cs
    BY <1>1, <2>1 DEF Sourced
  <2>3. RealtimeMapIsCurrent(c, r)
    BY <1>2, <2>1, <2>2, MapsAreCurrentIs
  <2>4. CASE SortBasic(RealtimeEdges(trips, data, r)) = {}
    BY <1>1, <2>4 DEF RealtimeMapIsCurrent
  <2>5. ASSUME NEW m \in maps, m.config = c.id, m.route = r, m.edges = RealtimeEdges(trips, data, r)
        PROVE  RealtimeMapIsCurrent(c, r)'
    <3>1. m \in maps'
      BY <1>6, <2>2, <2>5
    <3>2. QED
      BY <1>1, <2>5, <3>1 DEF RealtimeMapIsCurrent
  <2>6. QED
    BY <2>3, <2>4, <2>5 DEF RealtimeMapIsCurrent
<1>9. MapsAreCurrent'
  BY <1>7, <1>8 DEF MapsAreCurrent, StaticMapIsCurrent, RealtimeMapIsCurrent
<1>10. QED
  BY <1>3, <1>5, <1>9 DEF IInv

\* Every static map is built anew.  Realtime maps stay, and are current if no
\* stop has another station.
LEMMA UpdateStaticMapsPreserves ==
  ASSUME IInv, NEW file \in Files, UpdateStaticMaps(file)
  PROVE  IInv'
<1> DEFINE static == Sourced(configs, "static")
<1>1. PICK rows \in AllStaticMaps(file) :
        maps' = Others(IDs(Sourced(configs, "static")), Routes) \cup rows
  BY DEF UpdateStaticMaps
<1>2. /\ data' = file /\ built' = configs /\ configs' = configs /\ trips' = trips
      /\ behind' = IF data # None /\ StationOf(file) = StationOf(data) THEN behind ELSE Routes
  BY DEF UpdateStaticMaps
<1>3. TypeOK /\ MapsAreSorted /\ MapsAreCurrent
  BY DEF IInv
<1>4. file # None /\ static \subseteq configs
  BY StopsAssumption DEF Sourced
<1>5. TypeOK'
  BY <1>2, <1>3, <1>4 DEF TypeOK
<1>6. /\ RowsOf(rows, static, Routes)
      /\ \A c \in static : \A r \in Routes :
           \E m \in rows : m.config = c.id /\ m.route = r /\ m.edges = StaticEdges(c, file, r)
  BY <1>1, <1>3, StaticRows
<1>7. MapsAreSorted'
  BY <1>1, <1>2, <1>3, <1>4, <1>6, StoredRowsAreSorted
<1>8. ASSUME NEW c \in Sourced(built', "static"), NEW r \in Routes
      PROVE  StaticMapIsCurrent(c, r)'
  BY <1>1, <1>2, <1>6 DEF StaticMapIsCurrent
<1>9. ASSUME NEW c \in Sourced(configs', "realtime"), NEW r \in Routes \ behind'
      PROVE  RealtimeMapIsCurrent(c, r)'
  <2>1. StationOf(file) = StationOf(data) /\ r \in Routes \ behind
    BY <1>2, <1>9
  <2>2. RealtimeEdges(trips, file, r) = RealtimeEdges(trips, data, r)
    <3>1. \A t : Path(file, t) = Path(data, t)
      BY <2>1 DEF Path
    <3>2. QED
      BY <3>1 DEF RealtimeEdges
  <2>3. RealtimeEdges(trips, data, r)' = RealtimeEdges(trips, data, r)
    BY <1>2, <2>2
  <2>4. c \in Sourced(configs, "realtime") /\ c \in configs /\ c \notin static
    BY <1>2 DEF Sourced
  <2>5. RealtimeMapIsCurrent(c, r)
    BY <1>3, <2>1, <2>4, MapsAreCurrentIs
  <2>6. \A m \in maps : m.config = c.id /\ m.route = r => m \in maps'
    BY <1>1, <1>3, <1>4, <2>4, OtherMapsStay
  <2>7. QED
    BY <2>3, <2>5, <2>6 DEF RealtimeMapIsCurrent
<1>10. MapsAreCurrent'
  BY <1>8, <1>9 DEF MapsAreCurrent, StaticMapIsCurrent, RealtimeMapIsCurrent
<1>11. QED
  BY <1>5, <1>7, <1>10 DEF IInv

\* The realtime maps of the routes that are rebuilt and whose edges have no cycle
\* are replaced.  The other routes that are not behind have the trips they had.
LEMMA UpdateRealtimeMapsPreserves ==
  ASSUME IInv, NEW ts \in Timetables, UpdateRealtimeMaps(ts)
  PROVE  IInv'
<1> DEFINE realtime == Sourced(configs, "realtime")
           stopless == {t.route : t \in {u \in ts : u.stops = <<>> /\ u \notin trips}}
<1>1. /\ data # None /\ trips' = ts /\ configs' = configs /\ data' = data /\ built' = built
      /\ TypeOK /\ MapsAreSorted /\ MapsAreCurrent
  BY DEF UpdateRealtimeMaps, IInv
<1>2. PICK others \in SUBSET {t.route : t \in ts} :
        LET routes == RoutesToRebuild(ts) \cup others
            sorted == {r \in routes : RealtimeMaps(ts, r) # {}}
        IN /\ \E rows \in AllRealtimeMaps(ts, sorted) : maps' = Others(IDs(realtime), sorted) \cup rows
           /\ behind' = (behind \ routes) \cup (stopless \ routes)
  BY DEF UpdateRealtimeMaps
<1> DEFINE routes == RoutesToRebuild(ts) \cup others
           sorted == {r \in routes : RealtimeMaps(ts, r) # {}}
<1>3. PICK rows \in AllRealtimeMaps(ts, sorted) : maps' = Others(IDs(realtime), sorted) \cup rows
  BY <1>2
<1>4. behind' = (behind \ routes) \cup (stopless \ routes)
  BY <1>2
<1>5. routes \subseteq Routes
  <2>1. \A us \in Timetables : \A u \in us : u.route \in Routes
    BY TimetablesAssumption
  <2>2. \A u \in trips : u.route \in Routes
    BY <1>1, <2>1 DEF TypeOK
  <2>3. QED
    BY <2>1, <2>2 DEF RoutesToRebuild
<1>6. /\ sorted \subseteq Routes
      /\ \A r \in sorted : RealtimeMaps(ts, r) # {}
      /\ \A r \in routes \ sorted : SortBasic(RealtimeEdges(ts, data, r)) = {}
  <2>1. \A r \in routes \ sorted : RealtimeMaps(ts, r) = {}
    OBVIOUS
  <2>2. \A r : RealtimeMaps(ts, r) = {} => SortBasic(RealtimeEdges(ts, data, r)) = {}
    <3> SUFFICES ASSUME NEW r, NEW o \in SortBasic(RealtimeEdges(ts, data, r))
                 PROVE  RealtimeMaps(ts, r) # {}
      OBVIOUS
    <3>1. {Map(c, r, RealtimeEdges(ts, data, r), o) : c \in realtime} \in RealtimeMaps(ts, r)
      BY DEF RealtimeMaps
    <3>2. QED
      BY <3>1
  <2> HIDE DEF routes
  <2>3. QED
    BY <1>5, <2>1, <2>2
<1>7. RoutesToRebuild(ts) \subseteq routes /\ sorted \subseteq routes
  OBVIOUS
<1> HIDE DEF routes, sorted
<1>8. realtime \subseteq configs /\ TypeOK'
  BY <1>1 DEF Sourced, TypeOK
<1>9. /\ RowsOf(rows, realtime, sorted)
      /\ \A c \in realtime : \A r \in sorted :
           \E m \in rows : m.config = c.id /\ m.route = r /\ m.edges = RealtimeEdges(ts, data, r)
  BY <1>1, <1>3, <1>6, RealtimeRows
<1>10. MapsAreSorted'
  BY <1>1, <1>3, <1>8, <1>9, StoredRowsAreSorted
<1>11. ASSUME NEW c \in Sourced(built', "static"), NEW r \in Routes
       PROVE  StaticMapIsCurrent(c, r)'
  <2>1. c \in Sourced(built, "static") /\ c \in configs /\ c \notin realtime
    BY <1>1 DEF Sourced, TypeOK
  <2>2. PICK m \in maps : m.config = c.id /\ m.route = r /\ m.edges = StaticEdges(c, data, r)
    BY <1>1, <2>1, MapsAreCurrentIs DEF StaticMapIsCurrent
  <2>3. m \in Others(IDs(realtime), sorted)
    BY <1>1, <1>8, <2>1, <2>2, OtherMapsStay
  <2>4. QED
    BY <1>1, <1>3, <2>2, <2>3 DEF StaticMapIsCurrent
<1>12. ASSUME NEW c \in Sourced(configs', "realtime"), NEW r \in Routes \ behind'
       PROVE  RealtimeMapIsCurrent(c, r)'
  <2>1. c \in realtime
    BY <1>1
  <2>2. RealtimeEdges(trips, data, r)' = RealtimeEdges(ts, data, r)
    BY <1>1
  <2>3. CASE r \in sorted
    BY <1>3, <1>9, <2>1, <2>2, <2>3 DEF RealtimeMapIsCurrent
  <2>4. CASE r \in routes \ sorted
    BY <1>6, <2>2, <2>4 DEF RealtimeMapIsCurrent
  <2>5. CASE r \notin routes
    <3>1. r \notin RoutesToRebuild(ts) /\ r \notin stopless /\ r \in Routes \ behind /\ r \notin sorted
      BY <1>4, <1>7, <1>12, <2>5
    <3>2. RealtimeEdges(ts, data, r) = RealtimeEdges(trips, data, r)
      BY <1>1, <3>1, RouteHasItsTrips
    <3>3. RealtimeMapIsCurrent(c, r)
      BY <1>1, <2>1, <3>1, MapsAreCurrentIs
    <3>4. \A m \in maps : m.config = c.id /\ m.route = r => m \in maps'
      BY <1>1, <1>3, <1>8, <2>1, <3>1, OtherMapsStay
    <3>5. QED
      BY <2>2, <3>2, <3>3, <3>4 DEF RealtimeMapIsCurrent
  <2>6. QED
    BY <2>3, <2>4, <2>5
<1>13. MapsAreCurrent'
  BY <1>11, <1>12 DEF MapsAreCurrent, StaticMapIsCurrent, RealtimeMapIsCurrent
<1>14. QED
  BY <1>8, <1>10, <1>13 DEF IInv

LEMMA DeleteRealtimeFeedPreserves ==
  ASSUME IInv, DeleteRealtimeFeed
  PROVE  IInv'
<1>1. /\ trips' = {} /\ behind' = Routes
      /\ configs' = configs /\ data' = data /\ maps' = maps /\ built' = built
      /\ TypeOK /\ MapsAreSorted /\ MapsAreCurrent
  BY DEF DeleteRealtimeFeed, IInv
<1>2. TypeOK'
  BY <1>1 DEF TypeOK
<1>3. MapsAreSorted'
  BY <1>1 DEF MapsAreSorted
<1>4. MapsAreCurrent'
  BY <1>1 DEF MapsAreCurrent
<1>5. QED
  BY <1>2, <1>3, <1>4 DEF IInv

LEMMA Stutters ==
  ASSUME IInv, UNCHANGED vars
  PROVE  IInv'
<1>1. TypeOK'
  BY DEF IInv, TypeOK, vars
<1>2. MapsAreSorted'
  BY DEF IInv, MapsAreSorted, vars
<1>3. MapsAreCurrent'
  BY DEF IInv, MapsAreCurrent, vars
<1>4. QED
  BY <1>1, <1>2, <1>3 DEF IInv

LEMMA Invariance ==
  Spec => []IInv
<1>1. IInv /\ [Next]_vars => IInv'
  <2> SUFFICES ASSUME IInv, [Next]_vars PROVE IInv'
    OBVIOUS
  <2>1. CASE \E given \in Configs : UpdateConfig(given)
    BY <2>1, UpdateConfigPreserves
  <2>2. CASE \E file \in Files : UpdateStaticMaps(file)
    BY <2>2, UpdateStaticMapsPreserves
  <2>3. CASE \E ts \in Timetables : UpdateRealtimeMaps(ts)
    BY <2>3, UpdateRealtimeMapsPreserves
  <2>4. CASE DeleteRealtimeFeed
    BY <2>4, DeleteRealtimeFeedPreserves
  <2>5. CASE UNCHANGED vars
    BY <2>5, Stutters
  <2>6. QED
    BY <2>1, <2>2, <2>3, <2>4, <2>5 DEF Next
<1>2. QED
  BY <1>1, Initially, PTL DEF Spec

(***************************************************************************)
(* Whatever the trips, the parents and the configurations are, a stored    *)
(* map is the only one of its route and configuration and lists its        *)
(* stations once each, in an order that its edges allow.  If a cycle       *)
(* allows none, a static map is empty and a realtime one is not stored     *)
(* (persistMap and graph.SortBasic).                                       *)
(***************************************************************************)
THEOREM MapsSorted ==
  Spec => []MapsAreSorted
<1>1. IInv => MapsAreSorted
  BY DEF IInv
<1>2. QED
  BY <1>1, Invariance, PTL

(***************************************************************************)
(* Whatever the trips, the parents and the configurations are, static maps *)
(* are of the latest static data, and the realtime map of a route is of    *)
(* its trips, except where an update is known not to rebuild it            *)
(* (UpdateConfig, UpdateStaticMaps, UpdateRealtimeMaps).                   *)
(***************************************************************************)
THEOREM MapsCurrent ==
  Spec => []MapsAreCurrent
<1>1. IInv => MapsAreCurrent
  BY DEF IInv
<1>2. QED
  BY <1>1, Invariance, PTL
=============================================================================
