---------------------------- MODULE TotalsProofs ----------------------------
(* What Total returns: enough to follow a SUM as rows are added to a table,
   to compare two of them and to split one up.  The first part counts the
   units of columns of naturals; the second takes a column of integers for
   the difference of two of those; the third is about tables. *)
EXTENDS Totals, Sequences, FunctionTheorems, FiniteSetTheorems, SequenceTheorems, TLAPS

\* A finite column has finitely many units.
LEMMA CountType ==
    ASSUME NEW S, IsFiniteSet(S), NEW c \in [S -> Nat]
    PROVE  IsFiniteSet(Units(c)) /\ Count(c) \in Nat
<1> DEFINE Row(i) == {i} \X (1..c[i])
           T == {Row(i) : i \in S}
           f == [i \in S |-> Row(i)]
<1>1. IsFiniteSet(T)
  <2>1. f \in Surjection(S, T)
    BY DEF Surjection
  <2> HIDE DEF f
  <2>2. QED BY <2>1, FS_Surjection
<1>2. \A R \in T : IsFiniteSet(R)
  <2> SUFFICES ASSUME NEW i \in S PROVE IsFiniteSet(Row(i))
    OBVIOUS
  <2>1. IsFiniteSet({i})
    BY FS_Singleton
  <2>2. c[i] \in Nat /\ IsFiniteSet(1..c[i])
    BY FS_Interval
  <2>3. QED BY <2>1, <2>2, FS_Product
<1>3. IsFiniteSet(UNION T)
  <2> HIDE DEF T
  <2> QED BY <1>1, <1>2, FS_UNION
<1>4. Units(c) = UNION T
  BY DEF Units
<1>5. QED BY <1>3, <1>4, FS_CardinalityType DEF Count

\* No rows, no units.
LEMMA CountEmpty ==
    ASSUME NEW c, DOMAIN c = {}
    PROVE  Count(c) = 0
<1>1. Units(c) = {}
  BY DEF Units
<1>2. QED BY <1>1, FS_EmptySet DEF Count

\* A new row adds its units.
LEMMA CountAdd ==
    ASSUME NEW c, IsFiniteSet(DOMAIN c), c \in [DOMAIN c -> Nat],
           NEW x, x \notin DOMAIN c,
           NEW d, DOMAIN d = DOMAIN c \cup {x}, d[x] \in Nat,
           \A i \in DOMAIN c : d[i] = c[i]
    PROVE  Count(d) = Count(c) + d[x]
<1> DEFINE n == d[x]
           new == {x} \X (1..n)
<1>1. Units(d) = Units(c) \cup new
  BY DEF Units
<1>2. Units(c) \cap new = {}
  BY DEF Units
<1>3. IsFiniteSet(new) /\ Cardinality(new) = n
  <2> HIDE DEF n
  <2>1. IsFiniteSet({x}) /\ Cardinality({x}) = 1
    BY FS_Singleton
  <2>2. IsFiniteSet(1..n) /\ Cardinality(1..n) = n
    BY FS_Interval DEF n
  <2>3. IsFiniteSet(new) /\ Cardinality(new) = Cardinality({x}) * Cardinality(1..n)
    BY <2>1, <2>2, FS_Product, Zenon
  <2>4. QED BY <2>1, <2>2, <2>3 DEF n
<1>4. IsFiniteSet(Units(c)) /\ Cardinality(Units(c)) \in Nat
  BY CountType DEF Count
<1> HIDE DEF new
<1>5. Cardinality(Units(c) \cup new) = Cardinality(Units(c)) + n - Cardinality({})
  BY <1>2, <1>3, <1>4, FS_Union
<1>6. QED BY <1>1, <1>4, <1>5, FS_EmptySet DEF Count

\* Columns whose rows correspond have as many units.
LEMMA CountReindexed ==
    ASSUME NEW S, NEW T, IsFiniteSet(S), NEW f \in Bijection(S, T),
           NEW d \in [S -> Nat], NEW c \in [T -> Nat], \A s \in S : d[s] = c[f[s]]
    PROVE  Count(d) = Count(c)
<1> DEFINE g == [u \in Units(d) |-> <<f[u[1]], u[2]>>]
<1>1. /\ f \in [S -> T]
      /\ \A s, t \in S : f[s] = f[t] => s = t
      /\ \A t \in T : \E s \in S : f[s] = t
  BY DEF Bijection, Injection, Surjection, IsInjective
<1>2. /\ \A u \in Units(d) : u = <<u[1], u[2]>> /\ u[1] \in S /\ u[2] \in 1..d[u[1]]
      /\ \A s \in S, n \in Nat : n \in 1..d[s] => <<s, n>> \in Units(d)
      /\ \A u \in Units(c) : u = <<u[1], u[2]>> /\ u[1] \in T /\ u[2] \in 1..c[u[1]]
      /\ \A t \in T, n \in Nat : n \in 1..c[t] => <<t, n>> \in Units(c)
  BY DEF Units
<1>3. ASSUME NEW u \in Units(d) PROVE g[u] \in Units(c)
  BY <1>1, <1>2
<1>4. ASSUME NEW u \in Units(d), NEW v \in Units(d), g[u] = g[v] PROVE u = v
  BY <1>1, <1>2, <1>4
<1>5. ASSUME NEW w \in Units(c) PROVE \E u \in Units(d) : g[u] = w
  <2>1. PICK s \in S : f[s] = w[1]
    BY <1>1, <1>2
  <2>2. <<s, w[2]>> \in Units(d)
    BY <1>2, <2>1
  <2>3. g[<<s, w[2]>>] = w
    BY <1>2, <2>1, <2>2
  <2>4. QED BY <2>2, <2>3
<1>6. g \in Bijection(Units(d), Units(c))
  <2> HIDE DEF g
  <2>1. g \in [Units(d) -> Units(c)]
    BY <1>3 DEF g
  <2>2. QED BY <2>1, <1>4, <1>5 DEF Bijection, Injection, Surjection, IsInjective
<1>7. ExistsBijection(Units(d), Units(c))
  BY <1>6 DEF ExistsBijection
<1>8. IsFiniteSet(Units(d))
  BY CountType
<1>9. QED BY <1>7, <1>8, FS_Bijection DEF Count

\* A column that is less in every row has less units.
LEMMA CountMonotone ==
    ASSUME NEW S, IsFiniteSet(S), NEW c \in [S -> Nat], NEW d \in [S -> Nat],
           \A s \in S : c[s] <= d[s]
    PROVE  Count(c) <= Count(d)
<1>1. Units(c) \subseteq Units(d)
  BY DEF Units
<1>2. IsFiniteSet(Units(d))
  BY CountType
<1>3. QED BY <1>1, <1>2, FS_Subset DEF Count

\* The units of a sum of columns are those of the two.
LEMMA CountOfSum ==
    ASSUME NEW S, IsFiniteSet(S), NEW c \in [S -> Nat], NEW d \in [S -> Nat],
           NEW e \in [S -> Nat], \A s \in S : e[s] = c[s] + d[s]
    PROVE  /\ Count(c) \in Nat /\ Count(d) \in Nat
           /\ Count(e) = Count(c) + Count(d)
<1> DEFINE g == [u \in Units(d) |-> <<u[1], c[u[1]] + u[2]>>]
           V == Units(e) \ Units(c)
<1>1. /\ \A u \in Units(c) : u = <<u[1], u[2]>> /\ u[1] \in S /\ u[2] \in 1..c[u[1]]
      /\ \A s \in S, n \in Nat : n \in 1..c[s] => <<s, n>> \in Units(c)
      /\ \A u \in Units(d) : u = <<u[1], u[2]>> /\ u[1] \in S /\ u[2] \in 1..d[u[1]]
      /\ \A s \in S, n \in Nat : n \in 1..d[s] => <<s, n>> \in Units(d)
      /\ \A u \in Units(e) : u = <<u[1], u[2]>> /\ u[1] \in S /\ u[2] \in 1..e[u[1]]
      /\ \A s \in S, n \in Nat : n \in 1..e[s] => <<s, n>> \in Units(e)
  BY DEF Units
<1>2. \A s \in S : c[s] \in Nat /\ d[s] \in Nat /\ e[s] = c[s] + d[s]
  OBVIOUS
<1>3. ASSUME NEW u \in Units(d) PROVE g[u] \in V
  <2>1. u[1] \in S /\ u[2] \in Nat /\ c[u[1]] + u[2] \in 1..e[u[1]]
    BY <1>1, <1>2
  <2>2. g[u] = <<u[1], c[u[1]] + u[2]>> /\ g[u] \in Units(e)
    BY <1>1, <1>2, <2>1
  <2>3. g[u] \notin Units(c)
    <3>1. g[u][1] = u[1] /\ g[u][2] = c[u[1]] + u[2]
      BY <2>2
    <3>2. u[2] >= 1
      BY <1>1
    <3> HIDE DEF g
    <3>3. QED BY <1>1, <1>2, <2>1, <3>1, <3>2
  <2>4. QED BY <2>2, <2>3
<1>4. ASSUME NEW u \in Units(d), NEW v \in Units(d), g[u] = g[v] PROVE u = v
  <2>1. u[1] = v[1] /\ c[u[1]] + u[2] = c[v[1]] + v[2]
    BY <1>4
  <2>2. u[2] \in Nat /\ v[2] \in Nat /\ c[u[1]] \in Nat
    BY <1>1, <1>2
  <2>3. u[2] = v[2]
    BY <2>1, <2>2
  <2>4. QED BY <1>1, <2>1, <2>3
<1>5. ASSUME NEW w \in V PROVE \E u \in Units(d) : g[u] = w
  <2>1. w = <<w[1], w[2]>> /\ w[1] \in S /\ w[2] \in 1..e[w[1]] /\ w[2] \notin 1..c[w[1]]
    BY <1>1
  <2>2. w[2] - c[w[1]] \in 1..d[w[1]]
    BY <1>2, <2>1
  <2>3. <<w[1], w[2] - c[w[1]]>> \in Units(d)
    BY <1>1, <2>1, <2>2
  <2>4. g[<<w[1], w[2] - c[w[1]]>>] = <<w[1], c[w[1]] + (w[2] - c[w[1]])>>
    BY <2>3
  <2>5. c[w[1]] + (w[2] - c[w[1]]) = w[2]
    BY <1>2, <2>1
  <2>6. QED BY <2>1, <2>3, <2>4, <2>5
<1>6. ExistsBijection(Units(d), V)
  <2> HIDE DEF g, V
  <2>1. g \in [Units(d) -> V]
    BY <1>3 DEF g
  <2>2. g \in Bijection(Units(d), V)
    BY <2>1, <1>4, <1>5 DEF Bijection, Injection, Surjection, IsInjective
  <2>3. QED BY <2>2 DEF ExistsBijection
<1>7. /\ IsFiniteSet(Units(c)) /\ Count(c) \in Nat
      /\ IsFiniteSet(Units(d)) /\ Count(d) \in Nat
  BY CountType
<1>8. IsFiniteSet(V) /\ Cardinality(V) = Count(d)
  <2> HIDE DEF V
  <2> QED BY <1>6, <1>7, FS_Bijection DEF Count
<1>9. Units(c) \subseteq Units(e)
  <2>1. \A s \in S : 1..c[s] \subseteq 1..e[s]
    BY <1>2
  <2>2. QED BY <2>1 DEF Units
<1>10. Units(e) = Units(c) \cup V /\ Units(c) \cap V = {}
  BY <1>9
<1> HIDE DEF V
<1>11. Cardinality(Units(e)) = Cardinality(Units(c)) + Cardinality(V) - Cardinality({})
  BY <1>7, <1>8, <1>10, FS_Union
<1>12. QED BY <1>7, <1>8, <1>11, FS_EmptySet DEF Count

\* Ones are counted.
LEMMA CountOfOnes ==
    ASSUME NEW S, IsFiniteSet(S), NEW c \in [S -> Nat], \A s \in S : c[s] = 1
    PROVE  Cardinality(S) \in Nat /\ Count(c) = Cardinality(S)
<1> DEFINE g == [s \in S |-> <<s, 1>>]
<1>1. Units(c) = {<<s, 1>> : s \in S}
  <2>1. \A s \in S : 1..c[s] = {1}
    OBVIOUS
  <2>2. QED BY <2>1 DEF Units
<1>2. g \in Bijection(S, Units(c))
  <2>1. g \in [S -> Units(c)]
    BY <1>1
  <2>2. \A s, t \in S : g[s] = g[t] => s = t
    OBVIOUS
  <2>3. \A u \in Units(c) : \E s \in S : g[s] = u
    BY <1>1
  <2> HIDE DEF g
  <2>4. QED BY <2>1, <2>2, <2>3 DEF Bijection, Injection, Surjection, IsInjective
<1>3. ExistsBijection(S, Units(c))
  BY <1>2 DEF ExistsBijection
<1>4. QED BY <1>3, FS_Bijection, FS_CardinalityType DEF Count

\* Every row of D is in one of the parts P, and in no other.
Parts(P, E, D) ==
    /\ P \in [E -> SUBSET D]
    /\ \A x \in D : \E e \in E : x \in P[e]
    /\ \A e, f \in E : P[e] \cap P[f] # {} => e = f

\* The column t holds the units of each part of the column c.
PartCounts(t, P, E, c) == \A e \in E : t[e] = Count([x \in P[e] |-> c[x]])

\* What the parts count is what the whole counts.
LEMMA CountOfParts ==
    ASSUME NEW E, NEW D, IsFiniteSet(D), NEW P, Parts(P, E, D),
           NEW c \in [D -> Nat], NEW t \in [E -> Nat], PartCounts(t, P, E, c)
    PROVE  Count(t) = Count(c)
<1> DEFINE part == [e \in E |-> [x \in P[e] |-> c[x]]]
<1>1. /\ P \in [E -> SUBSET D]
      /\ \A x \in D : \E e \in E : x \in P[e]
      /\ \A e, f \in E : P[e] \cap P[f] # {} => e = f
  BY DEF Parts
<1>2. \A e \in E : t[e] = Count(part[e])
  BY DEF PartCounts
<1>3. /\ \A e \in E : part[e] \in [P[e] -> Nat]
      /\ \A e \in E : \A x \in P[e] : part[e][x] = c[x]
  BY <1>1
<1> HIDE DEF part
<1> DEFINE b == [e \in E |-> CHOOSE h : h \in Bijection(1..t[e], Units(part[e]))]
           g == [u \in Units(t) |-> b[u[1]][u[2]]]
<1>4. ASSUME NEW e \in E PROVE b[e] \in Bijection(1..t[e], Units(part[e]))
  <2> DEFINE q == part[e]
  <2>1. IsFiniteSet(P[e]) /\ q \in [P[e] -> Nat] /\ Count(q) = t[e]
    BY <1>1, <1>2, <1>3, FS_Subset
  <2> HIDE DEF q
  <2>2. IsFiniteSet(Units(q)) /\ Cardinality(Units(q)) = t[e]
    BY <2>1, CountType DEF Count
  <2>3. ExistsBijection(1..t[e], Units(q))
    BY <2>2, FS_CardinalityType
  <2>4. \E h : h \in Bijection(1..t[e], Units(q))
    BY <2>3 DEF ExistsBijection
  <2>5. b[e] = CHOOSE h : h \in Bijection(1..t[e], Units(q))
    BY DEF q
  <2> HIDE DEF b
  <2>6. b[e] \in Bijection(1..t[e], Units(q))
    BY <2>4, <2>5
  <2>7. QED BY <2>6 DEF q
<1>5. ASSUME NEW e \in E
      PROVE  /\ b[e] \in [1..t[e] -> Units(part[e])]
             /\ \A m, n \in 1..t[e] : b[e][m] = b[e][n] => m = n
             /\ \A w \in Units(part[e]) : \E n \in 1..t[e] : b[e][n] = w
  <2> DEFINE whole == Units(part[e])
             ids == 1..t[e]
             f == b[e]
  <2>1. f \in Bijection(ids, whole)
    BY <1>4
  <2> HIDE DEF whole, ids, f
  <2>2. /\ f \in [ids -> whole]
        /\ \A m, n \in ids : f[m] = f[n] => m = n
        /\ \A w \in whole : \E n \in ids : f[n] = w
    BY <2>1 DEF Bijection, Injection, Surjection, IsInjective
  <2>3. QED BY <2>2 DEF whole, ids, f
<1>6. /\ \A e \in E : \A u \in Units(part[e]) : u \in Units(c) /\ u[1] \in P[e]
      /\ \A u \in Units(c), e \in E : u[1] \in P[e] => u \in Units(part[e])
      /\ \A u \in Units(c) : u[1] \in D
  <2>1. \A u : u \in Units(c) <=> \E x \in D : \E n \in 1..c[x] : u = <<x, n>>
    BY DEF Units
  <2>2. ASSUME NEW e \in E
        PROVE  \A u : u \in Units(part[e]) <=> \E x \in P[e] : \E n \in 1..c[x] : u = <<x, n>>
    <3> DEFINE q == part[e]
    <3>1. DOMAIN q = P[e] /\ \A x \in P[e] : q[x] = c[x]
      BY <1>3
    <3> HIDE DEF q
    <3>2. \A u : u \in Units(q) <=> \E x \in P[e] : \E n \in 1..c[x] : u = <<x, n>>
      BY <3>1 DEF Units
    <3>3. QED BY <3>2 DEF q
  <2>3. \A e \in E : P[e] \subseteq D
    BY <1>1
  <2>4. QED BY <2>1, <2>2, <2>3
<1>7. /\ \A u \in Units(t) : u = <<u[1], u[2]>> /\ u[1] \in E /\ u[2] \in 1..t[u[1]]
      /\ \A e \in E : \A n \in 1..t[e] : <<e, n>> \in Units(t)
  BY DEF Units
<1> HIDE DEF b
<1>8. ASSUME NEW u \in Units(t)
      PROVE  g[u] = b[u[1]][u[2]] /\ g[u] \in Units(part[u[1]]) /\ g[u] \in Units(c)
  BY <1>5, <1>6, <1>7
<1>9. g \in [Units(t) -> Units(c)]
  BY <1>8
<1> HIDE DEF g
<1>10. ASSUME NEW u \in Units(t), NEW v \in Units(t), g[u] = g[v] PROVE u = v
  <2>1. u[1] \in E /\ v[1] \in E /\ g[u][1] \in P[u[1]] /\ g[u][1] \in P[v[1]]
    BY <1>6, <1>7, <1>8, <1>10
  <2>2. u[1] = v[1]
    BY <1>1, <2>1
  <2>3. u[2] = v[2]
    <3>1. b[u[1]][u[2]] = b[u[1]][v[2]]
      BY <1>8, <1>10, <2>2
    <3>2. u[2] \in 1..t[u[1]] /\ v[2] \in 1..t[u[1]]
      BY <1>7, <2>2
    <3>3. QED BY <1>5, <2>1, <3>1, <3>2
  <2>4. QED BY <1>7, <2>2, <2>3
<1>11. ASSUME NEW w \in Units(c) PROVE \E u \in Units(t) : g[u] = w
  <2>1. PICK e \in E : w[1] \in P[e]
    BY <1>1, <1>6
  <2>2. PICK n \in 1..t[e] : b[e][n] = w
    BY <1>5, <1>6, <2>1
  <2>3. <<e, n>> \in Units(t)
    BY <1>7
  <2>4. g[<<e, n>>] = w
    BY <1>8, <2>2, <2>3
  <2>5. QED BY <2>3, <2>4
<1>12. g \in Bijection(Units(t), Units(c))
  BY <1>9, <1>10, <1>11 DEF Bijection, Injection, Surjection, IsInjective
<1>13. ExistsBijection(Units(c), Units(t))
  BY <1>12, Fun_ExistsBijSymmetric DEF ExistsBijection
<1>14. IsFiniteSet(Units(c))
  BY CountType
<1>15. QED BY <1>13, <1>14, FS_Bijection DEF Count

\* An injection that takes each row to one with as many units or more.
LEMMA CountInto ==
    ASSUME NEW S, NEW T, IsFiniteSet(T), NEW f \in [S -> T],
           \A r, s \in S : f[r] = f[s] => r = s,
           NEW c \in [S -> Nat], NEW d \in [T -> Nat], \A s \in S : c[s] <= d[f[s]]
    PROVE  Count(c) \in Nat /\ Count(c) <= Count(d)
<1> DEFINE g == [u \in Units(c) |-> <<f[u[1]], u[2]>>]
<1>1. /\ \A u \in Units(c) : u = <<u[1], u[2]>> /\ u[1] \in S /\ u[2] \in 1..c[u[1]]
      /\ \A t \in T, n \in Nat : n \in 1..d[t] => <<t, n>> \in Units(d)
  BY DEF Units
<1>2. ASSUME NEW u \in Units(c) PROVE g[u] \in Units(d)
  <2>1. f[u[1]] \in T /\ u[2] \in 1..d[f[u[1]]]
    BY <1>1
  <2>2. QED BY <1>1, <2>1
<1>3. ASSUME NEW u \in Units(c), NEW v \in Units(c), g[u] = g[v] PROVE u = v
  BY <1>1, <1>3
<1>4. g \in [Units(c) -> Units(d)]
  BY <1>2
<1> HIDE DEF g
<1>5. g \in Injection(Units(c), Units(d))
  BY <1>3, <1>4 DEF Injection, IsInjective
<1>6. IsFiniteSet(Units(d))
  BY CountType
<1>7. QED BY <1>5, <1>6, FS_Injection, FS_CardinalityType DEF Count

-----------------------------------------------------------------------------
(* Columns of integers.                                                    *)

\* The rows above zero, and those below.
Gains(c) == [i \in DOMAIN c |-> IF c[i] > 0 THEN c[i] ELSE 0]

Losses(c) == [i \in DOMAIN c |-> IF c[i] < 0 THEN -c[i] ELSE 0]

\* Every row is what it gains less what it loses, and so is the total.
LEMMA GainsLessLosses ==
    ASSUME NEW S, IsFiniteSet(S), NEW c \in [S -> Int]
    PROVE  /\ Gains(c) \in [S -> Nat] /\ Losses(c) \in [S -> Nat]
           /\ \A s \in S : c[s] = Gains(c)[s] - Losses(c)[s]
           /\ Count(Gains(c)) \in Nat /\ Count(Losses(c)) \in Nat
           /\ Total(c) = Count(Gains(c)) - Count(Losses(c))
<1>1. /\ Gains(c) \in [S -> Nat] /\ Losses(c) \in [S -> Nat]
      /\ \A s \in S : c[s] = Gains(c)[s] - Losses(c)[s]
  BY DEF Gains, Losses
<1>2. Units(Gains(c)) = Units(c)
  <2>1. \A s \in S : 1..Gains(c)[s] = 1..c[s]
    BY DEF Gains
  <2>2. DOMAIN Gains(c) = DOMAIN c /\ DOMAIN c = S
    BY DEF Gains
  <2>3. QED BY <2>1, <2>2 DEF Units
<1>3. Units(Losses(c)) = Units(Opposite(c))
  <2>1. \A s \in S : 1..Losses(c)[s] = 1..Opposite(c)[s]
    BY DEF Losses, Opposite
  <2>2. DOMAIN Losses(c) = S /\ DOMAIN Opposite(c) = S
    BY DEF Losses, Opposite
  <2>3. QED BY <2>1, <2>2 DEF Units
<1>4. Count(Gains(c)) \in Nat /\ Count(Losses(c)) \in Nat
  BY <1>1, CountType
<1>5. QED BY <1>1, <1>2, <1>3, <1>4 DEF Total, Count

IsDifference(c, p, m) == \A s \in DOMAIN c : c[s] = p[s] - m[s]

IsSum(e, c, d) == \A s \in DOMAIN e : e[s] = c[s] + d[s]

\* Equal differences, as sums.
LEMMA EqualDifferences ==
    ASSUME NEW a \in Nat, NEW b \in Nat, NEW x \in Nat, NEW y \in Nat
    PROVE  (a - b) = (x - y) <=> a + y = b + x
OBVIOUS

\* The units of a sum of columns, for a sum that is given by name.
LEMMA CountOfNamedSum ==
    ASSUME NEW S, IsFiniteSet(S), NEW c \in [S -> Nat], NEW d \in [S -> Nat],
           NEW e \in [S -> Nat], IsSum(e, c, d)
    PROVE  Count(e) = Count(c) + Count(d)
<1>1. \A s \in S : e[s] = c[s] + d[s]
  BY DEF IsSum
<1>2. QED BY <1>1, CountOfSum

\* Any two columns whose difference is c give its total.
LEMMA TotalOfDifference ==
    ASSUME NEW S, IsFiniteSet(S), NEW c \in [S -> Int], NEW p \in [S -> Nat],
           NEW m \in [S -> Nat], IsDifference(c, p, m)
    PROVE  /\ Count(p) \in Nat /\ Count(m) \in Nat
           /\ Total(c) = Count(p) - Count(m)
<1> DEFINE gain == Gains(c)
           loss == Losses(c)
           e == [s \in S |-> p[s] + loss[s]]
<1>1. gain \in [S -> Nat] /\ loss \in [S -> Nat] /\ IsDifference(c, gain, loss)
  <2>1. DOMAIN c = S
    OBVIOUS
  <2>2. QED BY <2>1, GainsLessLosses DEF IsDifference
<1>2. Count(gain) \in Nat /\ Count(loss) \in Nat /\ Total(c) = Count(gain) - Count(loss)
  BY GainsLessLosses
<1> HIDE DEF gain, loss
<1>3. e \in [S -> Nat] /\ IsSum(e, p, loss)
  BY <1>1 DEF IsSum
<1>4. IsSum(e, m, gain)
  <2> SUFFICES ASSUME NEW s \in S PROVE e[s] = m[s] + gain[s]
    BY <1>3 DEF IsSum
  <2>1. (p[s] - m[s]) = (gain[s] - loss[s])
    BY <1>1 DEF IsDifference
  <2>2. p[s] \in Nat /\ m[s] \in Nat /\ gain[s] \in Nat /\ loss[s] \in Nat
    BY <1>1
  <2>3. p[s] + loss[s] = m[s] + gain[s]
    BY <2>1, <2>2, EqualDifferences
  <2>4. QED BY <2>3
<1> HIDE DEF e
<1>5. Count(p) \in Nat /\ Count(m) \in Nat
  BY CountType
<1>6. Count(e) = Count(p) + Count(loss)
  BY <1>1, <1>3, CountOfNamedSum
<1>7. Count(e) = Count(m) + Count(gain)
  BY <1>1, <1>3, <1>4, CountOfNamedSum
<1>8. (Count(p) - Count(m)) = (Count(gain) - Count(loss))
  BY <1>2, <1>5, <1>6, <1>7
<1>9. QED BY <1>2, <1>5, <1>8

\* A column without losses is counted.
LEMMA TotalIsCount ==
    ASSUME NEW S, IsFiniteSet(S), NEW c \in [S -> Nat]
    PROVE  Total(c) = Count(c) /\ Total(c) \in Nat
<1> DEFINE z == [s \in S |-> 0]
<1>1. z \in [S -> Nat] /\ c \in [S -> Int] /\ IsDifference(c, c, z)
  BY DEF IsDifference
<1>2. Units(z) = {}
  BY DEF Units
<1>3. Count(z) = 0
  BY <1>2, FS_EmptySet DEF Count
<1> HIDE DEF z
<1>4. Count(c) \in Nat /\ Total(c) = Count(c) - Count(z)
  BY <1>1, TotalOfDifference
<1>5. QED BY <1>3, <1>4

\* The total of a finite column is an integer, and a natural number if every
\* row is one.
LEMMA TotalType ==
    ASSUME NEW S, IsFiniteSet(S), NEW c \in [S -> Int]
    PROVE  /\ Total(c) \in Int
           /\ (\A s \in S : c[s] >= 0) => Total(c) \in Nat
<1>1. Total(c) \in Int
  BY GainsLessLosses
<1>2. ASSUME \A s \in S : c[s] >= 0 PROVE Total(c) \in Nat
  <2>1. c \in [S -> Nat]
    BY <1>2
  <2>2. QED BY <2>1, TotalIsCount
<1>3. QED BY <1>1, <1>2

\* No rows, nothing in total.
LEMMA TotalEmpty ==
    ASSUME NEW c, DOMAIN c = {}
    PROVE  Total(c) = 0
<1>1. DOMAIN Opposite(c) = {}
  BY DEF Opposite
<1>2. Count(c) = 0 /\ Count(Opposite(c)) = 0
  BY <1>1, CountEmpty
<1>3. QED BY <1>2 DEF Total

\* A new row adds its value to the total.
LEMMA TotalAdd ==
    ASSUME NEW c, IsFiniteSet(DOMAIN c), c \in [DOMAIN c -> Int],
           NEW x, x \notin DOMAIN c,
           NEW d, d \in [DOMAIN c \cup {x} -> Int],
           \A i \in DOMAIN c : d[i] = c[i]
    PROVE  Total(c) \in Int /\ Total(d) = Total(c) + d[x]
<1> DEFINE S == DOMAIN c
           T == S \cup {x}
           gc == Gains(c)
           lc == Losses(c)
           gd == Gains(d)
           ld == Losses(d)
<1>1. IsFiniteSet(T) /\ DOMAIN d = T /\ d \in [T -> Int]
  BY FS_AddElement
<1>2. /\ gc \in [S -> Nat] /\ lc \in [S -> Nat]
      /\ Count(gc) \in Nat /\ Count(lc) \in Nat /\ Total(c) = Count(gc) - Count(lc)
  BY GainsLessLosses
<1>3. /\ gd \in [T -> Nat] /\ ld \in [T -> Nat] /\ d[x] = gd[x] - ld[x]
      /\ Total(d) = Count(gd) - Count(ld)
  <2> HIDE DEF T, gd, ld
  <2>1. x \in T
    BY DEF T
  <2>2. QED BY <1>1, <2>1, GainsLessLosses DEF gd, ld
<1>4. \A i \in S : gd[i] = gc[i] /\ ld[i] = lc[i]
  BY <1>1 DEF Gains, Losses
<1> HIDE DEF gc, lc, gd, ld
<1>5. /\ IsFiniteSet(DOMAIN gc) /\ gc \in [DOMAIN gc -> Nat] /\ x \notin DOMAIN gc
      /\ DOMAIN gd = DOMAIN gc \cup {x} /\ gd[x] \in Nat
      /\ \A i \in DOMAIN gc : gd[i] = gc[i]
  BY <1>2, <1>3, <1>4
<1>6. /\ IsFiniteSet(DOMAIN lc) /\ lc \in [DOMAIN lc -> Nat] /\ x \notin DOMAIN lc
      /\ DOMAIN ld = DOMAIN lc \cup {x} /\ ld[x] \in Nat
      /\ \A i \in DOMAIN lc : ld[i] = lc[i]
  BY <1>2, <1>3, <1>4
<1>7. Count(gd) = Count(gc) + gd[x]
  BY <1>5, CountAdd
<1>8. Count(ld) = Count(lc) + ld[x]
  BY <1>6, CountAdd
<1>9. QED BY <1>2, <1>3, <1>5, <1>6, <1>7, <1>8

\* Changing one row changes the total by as much.
LEMMA TotalChange ==
    ASSUME NEW S, IsFiniteSet(S), NEW c \in [S -> Int], NEW d \in [S -> Int],
           NEW x \in S, \A i \in S : i # x => d[i] = c[i]
    PROVE  /\ Total(c) \in Int /\ Total(d) \in Int
           /\ Total(d) + c[x] = Total(c) + d[x]
<1> DEFINE R == S \ {x}
           r == [i \in R |-> c[i]]
<1>1. IsFiniteSet(R)
  BY FS_Subset
<1>2. DOMAIN r = R /\ r \in [DOMAIN r -> Int] /\ \A i \in R : r[i] = c[i] /\ r[i] = d[i]
  OBVIOUS
<1>3. x \notin R /\ S = R \cup {x} /\ c[x] \in Int /\ d[x] \in Int
  OBVIOUS
<1> HIDE DEF R, r
<1>4. /\ IsFiniteSet(DOMAIN r) /\ x \notin DOMAIN r
      /\ c \in [DOMAIN r \cup {x} -> Int] /\ d \in [DOMAIN r \cup {x} -> Int]
      /\ \A i \in DOMAIN r : c[i] = r[i] /\ d[i] = r[i]
  BY <1>1, <1>2, <1>3
<1>5. Total(r) \in Int /\ Total(c) = Total(r) + c[x]
  BY <1>2, <1>4, TotalAdd
<1>6. Total(d) = Total(r) + d[x]
  BY <1>2, <1>4, TotalAdd
<1>7. QED BY <1>3, <1>5, <1>6

\* Columns whose rows correspond have the same total.
LEMMA TotalReindexed ==
    ASSUME NEW S, NEW T, IsFiniteSet(S), NEW f \in Bijection(S, T),
           NEW d \in [S -> Int], NEW c \in [T -> Int], \A s \in S : d[s] = c[f[s]]
    PROVE  Total(d) = Total(c)
<1> DEFINE gc == Gains(c)
           lc == Losses(c)
           gd == Gains(d)
           ld == Losses(d)
<1>1. IsFiniteSet(T)
  BY FS_Bijection DEF ExistsBijection
<1>2. \A s \in S : f[s] \in T
  BY DEF Bijection, Injection
<1>3. /\ gc \in [T -> Nat] /\ lc \in [T -> Nat] /\ Total(c) = Count(gc) - Count(lc)
      /\ gd \in [S -> Nat] /\ ld \in [S -> Nat] /\ Total(d) = Count(gd) - Count(ld)
  BY <1>1, GainsLessLosses
<1>4. \A s \in S : gd[s] = gc[f[s]] /\ ld[s] = lc[f[s]]
  BY <1>2 DEF Gains, Losses
<1> HIDE DEF gc, lc, gd, ld
<1>5. Count(gd) = Count(gc) /\ Count(ld) = Count(lc)
  BY <1>3, <1>4, CountReindexed
<1>6. QED BY <1>3, <1>5

\* The total of the sums is the sum of the totals.
LEMMA TotalOfSum ==
    ASSUME NEW S, IsFiniteSet(S), NEW c \in [S -> Int], NEW d \in [S -> Int],
           NEW e \in [S -> Int], IsSum(e, c, d)
    PROVE  /\ Total(c) \in Int /\ Total(d) \in Int
           /\ Total(e) = Total(c) + Total(d)
<1> DEFINE gc == Gains(c)
           lc == Losses(c)
           gd == Gains(d)
           ld == Losses(d)
           p == [s \in S |-> gc[s] + gd[s]]
           m == [s \in S |-> lc[s] + ld[s]]
<1>1. /\ gc \in [S -> Nat] /\ lc \in [S -> Nat]
      /\ gd \in [S -> Nat] /\ ld \in [S -> Nat]
  BY GainsLessLosses
<1>2. \A s \in S : c[s] = gc[s] - lc[s] /\ d[s] = gd[s] - ld[s]
  BY GainsLessLosses
<1>3. /\ Count(gc) \in Nat /\ Count(lc) \in Nat /\ Total(c) = Count(gc) - Count(lc)
      /\ Count(gd) \in Nat /\ Count(ld) \in Nat /\ Total(d) = Count(gd) - Count(ld)
  BY GainsLessLosses
<1> HIDE DEF gc, lc, gd, ld
<1>4. p \in [S -> Nat] /\ m \in [S -> Nat] /\ IsSum(p, gc, gd) /\ IsSum(m, lc, ld)
  BY <1>1 DEF IsSum
<1>5. IsDifference(e, p, m)
  <2> SUFFICES ASSUME NEW s \in S PROVE e[s] = p[s] - m[s]
    BY DEF IsDifference
  <2>1. e[s] = c[s] + d[s]
    BY DEF IsSum
  <2>2. c[s] = gc[s] - lc[s] /\ d[s] = gd[s] - ld[s]
    BY <1>2
  <2>3. p[s] = gc[s] + gd[s] /\ m[s] = lc[s] + ld[s]
    OBVIOUS
  <2>4. gc[s] \in Nat /\ lc[s] \in Nat /\ gd[s] \in Nat /\ ld[s] \in Nat
    BY <1>1
  <2> HIDE DEF p, m
  <2>5. QED BY <2>1, <2>2, <2>3, <2>4
<1> HIDE DEF p, m
<1>6. Count(p) = Count(gc) + Count(gd)
  BY <1>1, <1>4, CountOfNamedSum
<1>7. Count(m) = Count(lc) + Count(ld)
  BY <1>1, <1>4, CountOfNamedSum
<1>8. Total(e) = Count(p) - Count(m)
  BY <1>4, <1>5, TotalOfDifference
<1>9. QED BY <1>3, <1>6, <1>7, <1>8

\* A column that is less in every row is less in total.
LEMMA TotalMonotone ==
    ASSUME NEW S, IsFiniteSet(S), NEW c \in [S -> Int], NEW d \in [S -> Int],
           \A s \in S : c[s] <= d[s]
    PROVE  /\ Total(c) \in Int /\ Total(d) \in Int
           /\ Total(c) <= Total(d)
<1> DEFINE more == [s \in S |-> d[s] - c[s]]
<1>1. more \in [S -> Int] /\ (\A s \in S : more[s] >= 0) /\ IsSum(d, c, more)
  BY DEF IsSum
<1> HIDE DEF more
<1>2. Total(more) \in Nat
  BY <1>1, TotalType
<1>3. /\ Total(c) \in Int /\ Total(more) \in Int
      /\ Total(d) = Total(c) + Total(more)
  BY <1>1, TotalOfSum
<1>4. QED BY <1>2, <1>3

\* Nothing in every row is nothing together.
LEMMA TotalOfZeros ==
    ASSUME NEW c, \A i \in DOMAIN c : c[i] = 0
    PROVE  Total(c) = 0
<1>1. Units(c) = {}
  BY DEF Units
<1>2. Units(Opposite(c)) = {}
  <2>1. DOMAIN Opposite(c) = DOMAIN c /\ \A i \in DOMAIN c : Opposite(c)[i] = 0
    BY DEF Opposite
  <2>2. QED BY <2>1 DEF Units
<1>3. QED BY <1>1, <1>2, FS_EmptySet DEF Total, Count

\* Rows of nothing add nothing.
LEMMA TotalOfExtension ==
    ASSUME NEW T, IsFiniteSet(T), NEW S \in SUBSET T, NEW c \in [S -> Int],
           NEW d \in [T -> Int], \A s \in S : d[s] = c[s], \A t \in T \ S : d[t] = 0
    PROVE  Total(d) = Total(c)
<1>1. Units(d) = Units(c)
  <2>1. \A t \in T \ S : 1..d[t] = {}
    OBVIOUS
  <2>2. QED BY <2>1 DEF Units
<1>2. Units(Opposite(d)) = Units(Opposite(c))
  <2> DEFINE oc == Opposite(c)
             od == Opposite(d)
  <2>1. /\ DOMAIN od = T /\ DOMAIN oc = S /\ \A s \in S : od[s] = oc[s]
        /\ \A t \in T \ S : od[t] = 0
    BY DEF Opposite
  <2> HIDE DEF oc, od
  <2>2. \A t \in T \ S : 1..od[t] = {}
    BY <2>1
  <2>3. Units(od) = Units(oc)
    BY <2>1, <2>2 DEF Units
  <2>4. QED BY <2>3 DEF oc, od
<1>3. QED BY <1>1, <1>2 DEF Total, Count

\* A column loses no more than the rows it is taken to by an injection.
LEMMA TotalFloor ==
    ASSUME NEW S, NEW T, IsFiniteSet(S), IsFiniteSet(T), NEW f \in [S -> T],
           \A r, s \in S : f[r] = f[s] => r = s,
           NEW c \in [S -> Int], NEW d \in [T -> Nat], \A s \in S : c[s] + d[f[s]] >= 0
    PROVE  Total(c) \in Int /\ Total(d) \in Nat /\ Total(c) + Total(d) >= 0
<1> DEFINE g == Gains(c)
           l == Losses(c)
<1>1. /\ g \in [S -> Nat] /\ l \in [S -> Nat]
      /\ Count(g) \in Nat /\ Count(l) \in Nat /\ Total(c) = Count(g) - Count(l)
  BY GainsLessLosses
<1>2. \A s \in S : l[s] <= d[f[s]]
  BY DEF Losses
<1> HIDE DEF g, l
<1>3. Count(l) <= Count(d)
  BY <1>1, <1>2, CountInto
<1>4. Total(d) = Count(d) /\ Total(d) \in Nat
  BY TotalIsCount
<1>5. QED BY <1>1, <1>3, <1>4

\* Ones are counted.
LEMMA TotalOfOnes ==
    ASSUME NEW S, IsFiniteSet(S), NEW c \in [S -> Nat], \A s \in S : c[s] = 1
    PROVE  Cardinality(S) \in Nat /\ Total(c) = Cardinality(S)
BY CountOfOnes, TotalIsCount

\* Columns that differ by one at most in each row differ by the number of rows
\* at most in total.
LEMMA TotalsWithin ==
    ASSUME NEW S, IsFiniteSet(S), NEW c \in [S -> Int], NEW d \in [S -> Int],
           \A s \in S : c[s] - d[s] \in {-1, 0, 1}
    PROVE  /\ Total(c) \in Int /\ Total(d) \in Int /\ Cardinality(S) \in Nat
           /\ Total(c) - Total(d) \in -Cardinality(S)..Cardinality(S)
<1> DEFINE one == [s \in S |-> 1]
           c1  == [s \in S |-> c[s] + 1]
           d1  == [s \in S |-> d[s] + 1]
<1>1. /\ one \in [S -> Nat] /\ c1 \in [S -> Int] /\ d1 \in [S -> Int]
      /\ one \in [S -> Int]
      /\ \A s \in S : one[s] = 1
      /\ \A s \in S : c[s] <= d1[s] /\ d[s] <= c1[s]
      /\ IsSum(c1, c, one) /\ IsSum(d1, d, one)
  BY DEF IsSum
<1> HIDE DEF one, c1, d1
<1>2. Cardinality(S) \in Nat /\ Total(one) = Cardinality(S)
  BY <1>1, TotalOfOnes
<1>3. /\ Total(c) \in Int /\ Total(d) \in Int
      /\ Total(c1) = Total(c) + Total(one) /\ Total(d1) = Total(d) + Total(one)
  BY <1>1, TotalOfSum
<1>4. Total(c) <= Total(d1) /\ Total(d) <= Total(c1)
  BY <1>1, TotalMonotone
<1>5. QED BY <1>2, <1>3, <1>4

\* The column t holds the total of each part of the column c.
PartTotals(t, P, E, c) == \A e \in E : t[e] = Total([x \in P[e] |-> c[x]])

\* What the parts add up to is what the whole adds up to.
LEMMA TotalOfParts ==
    ASSUME NEW E, IsFiniteSet(E), NEW D, IsFiniteSet(D), NEW P, Parts(P, E, D),
           NEW c \in [D -> Int], NEW t \in [E -> Int], PartTotals(t, P, E, c)
    PROVE  Total(t) = Total(c)
<1> DEFINE g == Gains(c)
           l == Losses(c)
           tg == [e \in E |-> Count([x \in P[e] |-> g[x]])]
           tl == [e \in E |-> Count([x \in P[e] |-> l[x]])]
<1>1. /\ g \in [D -> Nat] /\ l \in [D -> Nat] /\ \A x \in D : c[x] = g[x] - l[x]
      /\ Total(c) = Count(g) - Count(l)
  BY GainsLessLosses
<1> HIDE DEF g, l
<1>2. \A e \in E : P[e] \subseteq D
  BY DEF Parts
<1>3. ASSUME NEW e \in E
      PROVE  tg[e] \in Nat /\ tl[e] \in Nat /\ t[e] = tg[e] - tl[e]
  <2> DEFINE part == [x \in P[e] |-> c[x]]
             pg == [x \in P[e] |-> g[x]]
             pl == [x \in P[e] |-> l[x]]
  <2>1. IsFiniteSet(P[e])
    BY <1>2, FS_Subset
  <2>2. /\ part \in [P[e] -> Int] /\ pg \in [P[e] -> Nat] /\ pl \in [P[e] -> Nat]
        /\ IsDifference(part, pg, pl)
    BY <1>1, <1>2 DEF IsDifference
  <2>3. t[e] = Total(part)
    BY DEF PartTotals
  <2>4. tg[e] = Count(pg) /\ tl[e] = Count(pl)
    OBVIOUS
  <2> HIDE DEF part, pg, pl, tg, tl
  <2>5. Count(pg) \in Nat /\ Count(pl) \in Nat /\ Total(part) = Count(pg) - Count(pl)
    BY <2>1, <2>2, TotalOfDifference
  <2>6. QED BY <2>3, <2>4, <2>5
<1>4. PartCounts(tg, P, E, g) /\ PartCounts(tl, P, E, l)
  BY DEF PartCounts
<1>5. DOMAIN tg = E /\ DOMAIN tl = E /\ tg = [e \in E |-> tg[e]] /\ tl = [e \in E |-> tl[e]]
  OBVIOUS
<1> HIDE DEF tg, tl
<1>6. tg \in [E -> Nat] /\ tl \in [E -> Nat]
  BY <1>3, <1>5
<1>7. Count(tg) = Count(g) /\ Count(tl) = Count(l)
  BY <1>1, <1>4, <1>6, CountOfParts
<1>8. Total(t) = Count(tg) - Count(tl)
  <2>1. IsDifference(t, tg, tl)
    BY <1>3 DEF IsDifference
  <2>2. QED BY <1>6, <2>1, TotalOfDifference
<1>9. QED BY <1>1, <1>7, <1>8

-----------------------------------------------------------------------------
(* Tables.                                                                 *)

\* A table is a function on 1..Len, also after a row is rewritten.
LEMMA TableShape ==
    ASSUME NEW S, NEW t \in Seq(S)
    PROVE  /\ Len(t) \in Nat
           /\ DOMAIN t = 1..Len(t)
           /\ \A i \in 1..Len(t) : t[i] \in S
BY LenProperties

\* The sum over some rows of a table is an integer, and a natural number if
\* every row of it is one.
LEMMA SumOfRows ==
    ASSUME NEW n \in Nat, NEW ids \in SUBSET (1..n), NEW c \in [ids -> Int]
    PROVE  /\ IsFiniteSet(ids) /\ Total(c) \in Int
           /\ (\A i \in ids : c[i] >= 0) => Total(c) \in Nat
<1>1. IsFiniteSet(1..n)
  BY FS_Interval
<1>2. IsFiniteSet(ids)
  BY <1>1, FS_Subset
<1>3. QED BY <1>2, TotalType

\* A table with one row more: the sum over the rows a condition selects
\* grows by the new row's value if it is selected, and not otherwise.
LEMMA SumAfterAppend ==
    ASSUME NEW n \in Nat, NEW ids \in SUBSET (1..n), NEW c \in [ids -> Int],
           NEW k \in Int, NEW d \in [ids \cup {n + 1} -> Int],
           d[n + 1] = k, \A i \in ids : d[i] = c[i]
    PROVE  Total(d) = Total(c) + k
<1>1. IsFiniteSet(ids)
  BY SumOfRows
<1>2. DOMAIN c = ids /\ c \in [DOMAIN c -> Int]
  OBVIOUS
<1>3. n + 1 \notin ids /\ d \in [DOMAIN c \cup {n + 1} -> Int]
  OBVIOUS
<1>4. QED BY <1>1, <1>2, <1>3, TotalAdd

\* A function on 1..n is a table of n rows.
LEMMA FunctionIsTable ==
    ASSUME NEW n \in Nat, NEW f, f = [i \in 1..n |-> f[i]],
           NEW T, \A i \in 1..n : f[i] \in T
    PROVE  f \in Seq(T) /\ Len(f) = n
<1>1. f \in [1..n -> T]
  OBVIOUS
<1>2. f \in Seq(T)
  BY <1>1, SeqDef
<1>3. DOMAIN f = 1..n /\ DOMAIN f = 1..Len(f) /\ Len(f) \in Nat
  BY <1>1, <1>2, LenProperties
<1>4. QED BY <1>2, <1>3

\* A table with one row more, whatever columns of it one looks at.
LEMMA TableWithRow ==
    ASSUME NEW n \in Nat, NEW f, f = [i \in 1..n |-> f[i]],
           NEW g, g = [i \in 1..(n + 1) |-> g[i]], \A i \in 1..n : g[i] = f[i]
    PROVE  g = Append(f, g[n + 1]) /\ Len(f) = n
<1> DEFINE T == {g[i] : i \in 1..(n + 1)}
           row == g[n + 1]
<1>1. /\ \A i \in 1..n : f[i] \in T
      /\ \A i \in 1..(n + 1) : g[i] \in T
      /\ row \in T
  <2>1. \A i \in 1..(n + 1) : g[i] \in T
    OBVIOUS
  <2>2. n + 1 \in 1..(n + 1) /\ \A i \in 1..n : i \in 1..(n + 1)
    OBVIOUS
  <2> HIDE DEF T
  <2>3. QED BY <2>1, <2>2
<1> HIDE DEF T
<1>2. f \in Seq(T) /\ Len(f) = n
  BY <1>1, FunctionIsTable
<1>3. g \in Seq(T) /\ Len(g) = n + 1
  BY <1>1, FunctionIsTable
<1>4. /\ Append(f, row) \in Seq(T) /\ Len(Append(f, row)) = n + 1
      /\ \A i \in 1..n : Append(f, row)[i] = f[i]
      /\ Append(f, row)[n + 1] = row
  BY <1>1, <1>2, AppendProperties
<1>5. \A i \in 1..(n + 1) : g[i] = Append(f, row)[i]
  BY <1>4
<1> HIDE DEF row
<1>6. g = Append(f, row)
  BY <1>3, <1>4, <1>5, SeqEqual
<1>7. QED BY <1>2, <1>6 DEF row

\* Two rows appended are a table of two appended.
LEMMA TwoRows ==
    ASSUME NEW T, NEW t \in Seq(T), NEW one \in T, NEW two \in T
    PROVE  Append(Append(t, one), two) = t \o <<one, two>>
<1> DEFINE pair == <<one, two>>
           part == Append(t, one)
           all == Append(part, two)
<1>1. Len(t) \in Nat
  BY LenProperties
<1>2. /\ part \in Seq(T) /\ Len(part) = Len(t) + 1
      /\ \A i \in 1..Len(t) : part[i] = t[i]
      /\ part[Len(t) + 1] = one
  BY AppendProperties
<1>3. /\ all \in Seq(T) /\ Len(all) = Len(part) + 1
      /\ \A i \in 1..Len(part) : all[i] = part[i]
      /\ all[Len(part) + 1] = two
  <2> HIDE DEF part
  <2> QED BY <1>2, AppendProperties
<1>4. pair \in Seq(T) /\ Len(pair) = 2 /\ pair[1] = one /\ pair[2] = two
  OBVIOUS
<1> HIDE DEF pair, part, all
<1>5. /\ t \o pair \in Seq(T) /\ Len(t \o pair) = Len(t) + 2
      /\ \A i \in 1..(Len(t) + 2) :
            (t \o pair)[i] = IF i <= Len(t) THEN t[i] ELSE pair[i - Len(t)]
  <2>1. /\ t \o pair \in Seq(T) /\ Len(t \o pair) = Len(t) + Len(pair)
        /\ \A i \in 1..Len(t) + Len(pair) :
              (t \o pair)[i] = IF i <= Len(t) THEN t[i] ELSE pair[i - Len(t)]
    BY <1>4, ConcatProperties, Zenon
  <2>2. QED BY <1>4, <2>1
<1>6. \A i \in 1..Len(all) : all[i] = (t \o pair)[i]
  <2> SUFFICES ASSUME NEW i \in 1..Len(all) PROVE all[i] = (t \o pair)[i]
    OBVIOUS
  <2>1. CASE i \in 1..Len(t)
    BY <1>1, <1>2, <1>3, <1>5, <2>1
  <2>2. CASE i = Len(t) + 1
    BY <1>1, <1>2, <1>3, <1>4, <1>5, <2>2
  <2>3. CASE i = Len(t) + 2
    BY <1>1, <1>2, <1>3, <1>4, <1>5, <2>3
  <2>4. i \in 1..Len(t) \/ i = Len(t) + 1 \/ i = Len(t) + 2
    <3>1. Len(all) = Len(t) + 2
      BY <1>1, <1>2, <1>3
    <3>2. i \in 1..(Len(t) + 2)
      BY <3>1
    <3>3. QED BY <1>1, <3>2
  <2>5. QED BY <2>1, <2>2, <2>3, <2>4
<1>7. all = t \o pair
  <2>1. Len(all) = Len(t \o pair)
    BY <1>1, <1>2, <1>3, <1>5
  <2>2. QED BY <1>3, <1>5, <1>6, <2>1, SeqEqual
<1>8. QED BY <1>7 DEF pair, part, all
=============================================================================
