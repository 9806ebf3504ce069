--------------------------- MODULE IndexerMetaProofs ---------------------------
(***************************************************************************)
(* Theorems about the sparse indexer of a step, for every batch, budget,   *)
(* page size and deployment: the metadata builder's chunks partition what  *)
(* the layer scores within the logits budget, the gather workspace and the *)
(* scratch that the profile run reserved, and a row's extent of K rows,    *)
(* which comes from the exact lengths, stays within what was gathered,     *)
(* which comes from the CPU's bounds on them; and every row's logits are   *)
(* those of its own request's K rows, up to its own length.                *)
(*                                                                         *)
(* The recursive functions of the model (sums, the split of the prefills,  *)
(* the lists of chunks) are unfolded by a least counterexample, LeastExists*)
(* taking the place of induction.                                          *)
(***************************************************************************)
EXTENDS IndexerMeta, SequenceTheorems, WellFoundedInduction, FiniteSetTheorems, TLAPS

(* A non-empty set of natural numbers has a least one.                      *)
LEMMA LeastExists ==
  ASSUME NEW S \in SUBSET Nat, S # {}
  PROVE  \E n \in S : \A m \in S : n <= m
<1> DEFINE Below == OpToRel(<, Nat)
<1>1. IsWellFoundedOn(Below, Nat) BY NatLessThanWellFounded
<1>2. \A m, n \in Nat : m < n => <<m, n>> \in Below BY DEF OpToRel
<1> HIDE DEF Below
<1>3. PICK n \in S : \A m \in S : ~(<<m, n>> \in Below) BY <1>1, WFMin
<1>4. ASSUME NEW m \in S PROVE n <= m
  <2>1. m \in Nat /\ n \in Nat /\ ~(m < n) BY <1>2, <1>3
  <2> QED BY <2>1
<1> QED BY <1>4

(* A sequence of values each of which a function of the step gives from the *)
(* one before it: what a recursive definition over 0 .. n computes.         *)
Iterates(n, s0, step, g) ==
  g[0] = s0 /\ \A i \in 1 .. n : g[i] = step[i][g[i - 1]]

(* Such a sequence exists.                                                  *)
LEMMA IteratesExist ==
  ASSUME NEW n \in Nat, NEW S, NEW s0 \in S, NEW step \in [1 .. n -> [S -> S]]
  PROVE  \E g \in [0 .. n -> S] : Iterates(n, s0, step, g)
<1> DEFINE Good(m) == \E g \in [0 .. m -> S] : Iterates(m, s0, step, g)
           Bad == { m \in 0 .. n : ~Good(m) }
<1>1. SUFFICES ASSUME Bad # {} PROVE FALSE
  <2>1. n \in 0 .. n OBVIOUS
  <2> QED BY <2>1
<1>2. Bad \in SUBSET Nat OBVIOUS
<1>3. PICK m \in Bad : \A k \in Bad : m <= k
  <2> HIDE DEF Bad
  <2> QED BY <1>1, <1>2, LeastExists
<1>4. m \in Nat /\ m <= n /\ ~Good(m) OBVIOUS
<1>5. m # 0
  <2>1. [i \in 0 .. 0 |-> s0] \in [0 .. 0 -> S] OBVIOUS
  <2>2. Iterates(0, s0, step, [i \in 0 .. 0 |-> s0])
    BY DEF Iterates
  <2>3. Good(0) BY <2>1, <2>2
  <2> HIDE DEF Good
  <2> QED BY <1>4, <2>3
<1>6. m - 1 \in 0 .. n /\ m - 1 < m BY <1>4, <1>5
<1>7. Good(m - 1)
  <2>1. m - 1 \notin Bad BY <1>3, <1>6
  <2> QED BY <1>6, <2>1
<1>8. PICK g \in [0 .. m - 1 -> S] : Iterates(m - 1, s0, step, g) BY <1>7
<1> DEFINE h == [i \in 0 .. m |-> IF i = m THEN step[m][g[m - 1]] ELSE g[i]]
<1>9. h \in [0 .. m -> S]
  <2>1. g[m - 1] \in S /\ step[m] \in [S -> S] BY <1>4, <1>5, <1>6
  <2>2. step[m][g[m - 1]] \in S BY <2>1
  <2>3. \A i \in 0 .. m : i # m => g[i] \in S BY <1>4
  <2> QED BY <2>2, <2>3
<1>10. Iterates(m, s0, step, h)
  <2>1. h[0] = s0 BY <1>4, <1>5, <1>8 DEF Iterates
  <2>2. ASSUME NEW i \in 1 .. m PROVE h[i] = step[i][h[i - 1]]
    <3>1. CASE i = m
      <4>1. h[m - 1] = g[m - 1] /\ h[m] = step[m][g[m - 1]] BY <1>4, <1>5
      <4> QED BY <3>1, <4>1
    <3>2. CASE i # m
      <4>1. i \in 1 .. m - 1 /\ i - 1 \in 0 .. m /\ i - 1 # m BY <1>4, <3>2
      <4>2. h[i - 1] = g[i - 1] /\ h[i] = g[i] BY <4>1
      <4>3. g[i] = step[i][g[i - 1]] BY <1>8, <4>1 DEF Iterates
      <4> QED BY <4>2, <4>3
    <3> QED BY <3>1, <3>2
  <2> HIDE DEF h
  <2> QED BY <2>1, <2>2 DEF Iterates
<1> QED BY <1>4, <1>9, <1>10

(* A non-empty bounded set of natural numbers has a greatest one.           *)
LEMMA GreatestExists ==
  ASSUME NEW b \in Nat, NEW S \in SUBSET (0 .. b), S # {}
  PROVE  \E n \in S : \A m \in S : m <= n
<1> DEFINE T == { b - n : n \in S }
<1>1. T \in SUBSET Nat /\ T # {}
  <2>1. \A n \in S : n \in 0 .. b OBVIOUS
  <2>2. \A n \in 0 .. b : b - n \in Nat OBVIOUS
  <2> QED BY <2>1, <2>2
<1>2. PICK k \in T : \A j \in T : k <= j
  <2> HIDE DEF T
  <2> QED BY <1>1, LeastExists
<1>3. PICK n \in S : k = b - n OBVIOUS
<1>4. ASSUME NEW m \in S PROVE m <= n
  <2>1. b - m \in T OBVIOUS
  <2>2. k <= b - m BY <1>2, <2>1
  <2> QED BY <1>3, <2>2
<1> QED BY <1>4


-----------------------------------------------------------------------------
(* Sums of the first entries of a list of numbers.                          *)
Sums(f, n) ==
  CHOOSE t : t = [k \in 0 .. n |-> IF k = 0 THEN 0 ELSE t[k - 1] + f[k]]

NatTo(f, n) == \A i \in 1 .. n : f[i] \in Nat

(* The model's sums are the values of that list.                            *)
LEMMA SumToIs ==
  ASSUME NEW f, NEW n
  PROVE  SumTo(f, n) = Sums(f, n)[n]
  BY DEF SumTo, Sums

(* The sums of a list, each from the one before it.                         *)
LEMMA SumsIs ==
  ASSUME NEW p \in Nat, NEW f, NatTo(f, p)
  PROVE  /\ Sums(f, p) \in [0 .. p -> Nat]
         /\ Sums(f, p)[0] = 0
         /\ \A i \in 1 .. p : Sums(f, p)[i] = Sums(f, p)[i - 1] + f[i]
<1> DEFINE step == [i \in 1 .. p |-> [x \in Nat |-> x + f[i]]]
<1>1. step \in [1 .. p -> [Nat -> Nat]] BY DEF NatTo
<1>2. PICK g \in [0 .. p -> Nat] : Iterates(p, 0, step, g)
  <2> HIDE DEF step
  <2> QED BY <1>1, IteratesExist
<1>3. g[0] = 0 /\ \A i \in 1 .. p : g[i] = g[i - 1] + f[i]
  <2>1. \A i \in 1 .. p : g[i - 1] \in Nat OBVIOUS
  <2> QED BY <1>2, <2>1 DEF Iterates
<1> HIDE DEF step
<1>4. g = [i \in 0 .. p |-> IF i = 0 THEN 0 ELSE g[i - 1] + f[i]]
  <2> DEFINE k == [i \in 0 .. p |-> IF i = 0 THEN 0 ELSE g[i - 1] + f[i]]
  <2>1. \A i \in 0 .. p : g[i] = k[i] BY <1>3
  <2>2. DOMAIN g = 0 .. p /\ DOMAIN k = 0 .. p /\ g = [i \in 0 .. p |-> g[i]] OBVIOUS
  <2> QED BY <2>1, <2>2
<1>5. Sums(f, p) = [i \in 0 .. p |-> IF i = 0 THEN 0 ELSE Sums(f, p)[i - 1] + f[i]]
  BY <1>4, Zenon DEF Sums
<1> DEFINE q == Sums(f, p)
<1> HIDE DEF q
<1>6. q = [i \in 0 .. p |-> IF i = 0 THEN 0 ELSE q[i - 1] + f[i]] BY <1>5 DEF q
<1>7. q[0] = 0 /\ \A i \in 1 .. p : q[i] = q[i - 1] + f[i]
  <2>1. 0 \in 0 .. p /\ \A i \in 1 .. p : i \in 0 .. p /\ i # 0 OBVIOUS
  <2> QED BY <1>6, <2>1
<1>8. q \in [0 .. p -> Nat]
  <2> DEFINE Bad == { i \in 0 .. p : q[i] # g[i] }
  <2>1. Bad = {}
    <3> SUFFICES ASSUME Bad # {} PROVE FALSE OBVIOUS
    <3>1. Bad \in SUBSET Nat OBVIOUS
    <3>2. PICK m \in Bad : \A k \in Bad : m <= k
      <4> HIDE DEF Bad
      <4> QED BY <3>1, LeastExists
    <3>3. m \in 0 .. p /\ q[m] # g[m] OBVIOUS
    <3>4. m # 0 BY <1>3, <1>7, <3>3
    <3>5. m - 1 \in 0 .. p /\ m - 1 < m /\ m \in 1 .. p BY <3>3, <3>4
    <3>6. g[m - 1] = q[m - 1] BY <3>2, <3>5
    <3> QED BY <1>3, <1>7, <3>3, <3>5, <3>6
  <2>2. q = [i \in 0 .. p |-> q[i]] BY <1>6
  <2>3. \A i \in 0 .. p : q[i] = g[i] BY <2>1
  <2> QED BY <2>2, <2>3
<1> QED BY <1>7, <1>8 DEF q

(* The sum of the first n entries is that of one less, and the last.        *)
LEMMA SumToStep ==
  ASSUME NEW N \in Nat, NEW f, NatTo(f, N)
  PROVE  /\ SumTo(f, 0) = 0
         /\ \A n \in 0 .. N : SumTo(f, n) \in Nat
         /\ \A n \in 1 .. N : SumTo(f, n) = SumTo(f, n - 1) + f[n]
<1> DEFINE F == Sums(f, N)
<1>1. F \in [0 .. N -> Nat] /\ F[0] = 0 /\ \A i \in 1 .. N : F[i] = F[i - 1] + f[i] BY SumsIs
<1>2. ASSUME NEW n \in 0 .. N PROVE SumTo(f, n) = F[n]
  <2> DEFINE G == Sums(f, n)
  <2>1. NatTo(f, n) BY DEF NatTo
  <2>2. n \in Nat OBVIOUS
  <2>3. G[0] = 0 /\ \A i \in 1 .. n : G[i] = G[i - 1] + f[i] BY <2>1, <2>2, SumsIs
  <2>4. SumTo(f, n) = G[n] BY SumToIs
  <2> HIDE DEF F, G
  <2> DEFINE Bad == { i \in 0 .. n : F[i] # G[i] }
  <2>5. Bad = {}
    <3> SUFFICES ASSUME Bad # {} PROVE FALSE OBVIOUS
    <3>1. Bad \in SUBSET Nat OBVIOUS
    <3>2. PICK m \in Bad : \A k \in Bad : m <= k
      <4> HIDE DEF Bad
      <4> QED BY <3>1, LeastExists
    <3>3. m \in 0 .. n /\ F[m] # G[m] OBVIOUS
    <3>4. m # 0 BY <1>1, <2>3, <3>3
    <3>5. m - 1 \in 0 .. n /\ m - 1 < m /\ m \in 1 .. n /\ m \in 1 .. N BY <3>3, <3>4
    <3>6. F[m - 1] = G[m - 1] BY <3>2, <3>5
    <3> QED BY <1>1, <2>3, <3>3, <3>5, <3>6
  <2>6. F[n] = G[n] BY <2>2, <2>5
  <2> QED BY <2>4, <2>6
<1> HIDE DEF F
<1>3. \A n \in 1 .. N : n \in 0 .. N /\ n - 1 \in 0 .. N OBVIOUS
<1>4. 0 \in 0 .. N OBVIOUS
<1> QED BY <1>1, <1>2, <1>3, <1>4

(* Sums grow with the list.                                                 *)
LEMMA SumToGrows ==
  ASSUME NEW N \in Nat, NEW f, NatTo(f, N), NEW a \in 0 .. N, NEW b \in a .. N
  PROVE  SumTo(f, a) <= SumTo(f, b)
<1>1. /\ \A n \in 0 .. N : SumTo(f, n) \in Nat
      /\ \A n \in 1 .. N : SumTo(f, n) = SumTo(f, n - 1) + f[n]
  BY SumToStep
<1> DEFINE Bad == { n \in a .. N : ~(SumTo(f, a) <= SumTo(f, n)) }
<1>2. Bad = {}
  <2> SUFFICES ASSUME Bad # {} PROVE FALSE OBVIOUS
  <2>1. Bad \in SUBSET Nat OBVIOUS
  <2>2. PICK m \in Bad : \A k \in Bad : m <= k
    <3> HIDE DEF Bad
    <3> QED BY <2>1, LeastExists
  <2>3. m \in a .. N /\ ~(SumTo(f, a) <= SumTo(f, m)) OBVIOUS
  <2>4. m # a BY <1>1, <2>3
  <2>5. m - 1 \in a .. N /\ m - 1 < m /\ m \in 1 .. N /\ m - 1 \in 0 .. N BY <2>3, <2>4
  <2>6. SumTo(f, a) <= SumTo(f, m - 1) BY <2>2, <2>5
  <2>7. SumTo(f, m) = SumTo(f, m - 1) + f[m] /\ f[m] \in Nat BY <1>1, <2>5 DEF NatTo
  <2>8. SumTo(f, m - 1) \in Nat /\ SumTo(f, a) \in Nat BY <1>1, <2>5
  <2> QED BY <2>3, <2>6, <2>7, <2>8
<1> QED BY <1>2

(* What a sum gains between two places is the sum of the entries between.   *)
LEMMA SumToShift ==
  ASSUME NEW d \in Nat, NEW N \in Nat, NEW f, NatTo(f, d + N), NEW g,
         \A i \in 1 .. N : g[i] = f[d + i]
  PROVE  \A n \in 0 .. N : SumTo(f, d + n) = SumTo(f, d) + SumTo(g, n)
<1> DEFINE F(n) == SumTo(f, n)
           G(n) == SumTo(g, n)
<1>1. d + N \in Nat OBVIOUS
<1>2. \A n \in 0 .. d + N : F(n) \in Nat BY <1>1, SumToStep
<1>3. \A n \in 1 .. d + N : F(n) = F(n - 1) + f[n] BY <1>1, SumToStep
<1>4. NatTo(g, N)
  <2>1. \A i \in 1 .. N : d + i \in 1 .. d + N OBVIOUS
  <2> QED BY <2>1 DEF NatTo
<1>5. G(0) = 0 /\ \A n \in 0 .. N : G(n) \in Nat BY <1>4, SumToStep
<1>6. \A n \in 1 .. N : G(n) = G(n - 1) + g[n] BY <1>4, SumToStep
<1>7. \A i \in 1 .. N : g[i] \in Nat BY <1>4 DEF NatTo
<1> HIDE DEF F, G
<1> DEFINE Bad == { n \in 0 .. N : F(d + n) # F(d) + G(n) }
<1>8. Bad = {}
  <2> SUFFICES ASSUME Bad # {} PROVE FALSE OBVIOUS
  <2>1. Bad \in SUBSET Nat OBVIOUS
  <2>2. PICK m \in Bad : \A k \in Bad : m <= k
    <3> HIDE DEF Bad
    <3> QED BY <2>1, LeastExists
  <2>3. m \in 0 .. N /\ F(d + m) # F(d) + G(m) OBVIOUS
  <2>4. F(d) \in Nat
    <3>1. d \in 0 .. d + N OBVIOUS
    <3> QED BY <1>2, <3>1
  <2>5. m # 0 BY <1>5, <2>3, <2>4
  <2>6. m - 1 \in 0 .. N /\ m - 1 < m /\ m \in 1 .. N BY <2>3, <2>5
  <2>7. F(d + (m - 1)) = F(d) + G(m - 1) BY <2>2, <2>6
  <2>8. d + m \in 1 .. d + N /\ (d + m) - 1 = d + (m - 1) BY <2>6
  <2>9. F(d + m) = F(d + (m - 1)) + f[d + m] BY <1>3, <2>8
  <2>10. G(m) = G(m - 1) + g[m] /\ g[m] = f[d + m] /\ g[m] \in Nat BY <1>6, <1>7, <2>6
  <2>11. G(m - 1) \in Nat BY <1>5, <2>6
  <2> HIDE DEF Bad
  <2> QED BY <2>3, <2>4, <2>7, <2>9, <2>10, <2>11
<1> QED BY <1>8 DEF F, G

(* Of two lists, the one with the greater entries gains at least as much.   *)
LEMMA SumToDominated ==
  ASSUME NEW N \in Nat, NEW f, NEW g, NatTo(f, N), NatTo(g, N),
         \A i \in 1 .. N : f[i] <= g[i], NEW a \in 0 .. N, NEW b \in a .. N
  PROVE  SumTo(f, b) - SumTo(f, a) <= SumTo(g, b) - SumTo(g, a)
<1> DEFINE F(n) == SumTo(f, n)
           G(n) == SumTo(g, n)
<1>1. \A n \in 0 .. N : F(n) \in Nat BY SumToStep
<1>2. \A n \in 1 .. N : F(n) = F(n - 1) + f[n] BY SumToStep
<1>3. \A n \in 0 .. N : G(n) \in Nat BY SumToStep
<1>4. \A n \in 1 .. N : G(n) = G(n - 1) + g[n] BY SumToStep
<1> HIDE DEF F, G
<1> DEFINE Bad == { n \in a .. N : ~(F(n) - F(a) <= G(n) - G(a)) }
<1>5. Bad = {}
  <2> SUFFICES ASSUME Bad # {} PROVE FALSE OBVIOUS
  <2>1. Bad \in SUBSET Nat OBVIOUS
  <2>2. PICK m \in Bad : \A k \in Bad : m <= k
    <3> HIDE DEF Bad
    <3> QED BY <2>1, LeastExists
  <2>3. m \in a .. N /\ ~(F(m) - F(a) <= G(m) - G(a)) OBVIOUS
  <2>4. F(a) \in Nat /\ G(a) \in Nat BY <1>1, <1>3
  <2>5. m # a BY <2>3, <2>4
  <2>6. m - 1 \in a .. N /\ m - 1 < m /\ m \in 1 .. N /\ m - 1 \in 0 .. N BY <2>3, <2>5
  <2>7. F(m - 1) - F(a) <= G(m - 1) - G(a) BY <2>2, <2>6
  <2>8. F(m) = F(m - 1) + f[m] /\ G(m) = G(m - 1) + g[m] BY <1>2, <1>4, <2>6
  <2>9. f[m] \in Nat /\ g[m] \in Nat /\ f[m] <= g[m] BY <2>6 DEF NatTo
  <2>10. F(m - 1) \in Nat /\ G(m - 1) \in Nat BY <1>1, <1>3, <2>6
  <2> HIDE DEF Bad
  <2> QED BY <2>3, <2>4, <2>7, <2>8, <2>9, <2>10
<1>6. b \in a .. N /\ b \notin Bad BY <1>5
<1>7. F(b) - F(a) <= G(b) - G(a) BY <1>6
<1> QED BY <1>7 DEF F, G

(* A place below the sum of the first n entries lies in one of them.        *)
LEMMA SumToOwner ==
  ASSUME NEW N \in Nat, NEW f, NatTo(f, N), NEW a \in 0 .. N, NEW z \in a .. N,
         NEW g \in Nat, SumTo(f, a) <= g, g < SumTo(f, z)
  PROVE  \E o \in a + 1 .. z : SumTo(f, o - 1) <= g /\ g < SumTo(f, o - 1) + f[o]
<1> DEFINE F(n) == SumTo(f, n)
           Past == { n \in a .. z : g < F(n) }
<1>1. \A n \in 0 .. N : F(n) \in Nat BY SumToStep
<1>2. \A n \in 1 .. N : F(n) = F(n - 1) + f[n] BY SumToStep
<1>3. F(a) <= g /\ g < F(z) OBVIOUS
<1> HIDE DEF F
<1>4. z \in a .. z OBVIOUS
<1>5. Past \in SUBSET Nat /\ Past # {} BY <1>3, <1>4
<1>6. PICK o \in Past : \A k \in Past : o <= k
  <2> HIDE DEF Past
  <2> QED BY <1>5, LeastExists
<1>7. o \in a .. z /\ g < F(o) OBVIOUS
<1>8. F(a) \in Nat BY <1>1
<1>9. o # a BY <1>3, <1>7, <1>8
<1>10. o \in a + 1 .. z /\ o \in 1 .. N /\ o - 1 \in a .. z /\ o - 1 < o /\ o - 1 \in 0 .. N
  BY <1>7, <1>9
<1>11. ~(g < F(o - 1)) BY <1>6, <1>10
<1>12. F(o - 1) \in Nat BY <1>1, <1>10
<1>13. F(o - 1) <= g BY <1>11, <1>12
<1>14. F(o) = F(o - 1) + f[o] BY <1>2, <1>10
<1>15. g < F(o - 1) + f[o] BY <1>7, <1>14
<1> QED BY <1>10, <1>13, <1>15 DEF F

-----------------------------------------------------------------------------
(* Division rounds down, and divides a sum no better than its multiple.     *)
LEMMA DivBounds ==
  ASSUME NEW a \in Nat, NEW b \in Nat \ {0}
  PROVE  a \div b \in Nat /\ (a \div b) * b <= a /\ a < (a \div b) * b + b
<1>1. a = b * (a \div b) + (a % b) /\ a % b \in 0 .. b - 1 /\ a \div b \in Nat OBVIOUS
<1> DEFINE d == a \div b
           m == a % b
<1>2. a = b * d + m /\ m \in 0 .. b - 1 /\ d \in Nat BY <1>1
<1> HIDE DEF d, m
<1>3. b * d = d * b /\ d * b \in Nat BY <1>2
<1>4. d * b <= a /\ a < d * b + b BY <1>2, <1>3
<1> QED BY <1>2, <1>4 DEF d

(* A multiple at most a fits that often in a.                               *)
LEMMA DivAtLeast ==
  ASSUME NEW a \in Nat, NEW b \in Nat \ {0}, NEW k \in Nat, k * b <= a
  PROVE  k <= a \div b
<1> DEFINE d == a \div b
<1>1. d \in Nat /\ a < d * b + b BY DivBounds
<1> HIDE DEF d
<1> SUFFICES ASSUME d < k PROVE FALSE BY <1>1 DEF d
<1>2. d + 1 <= k BY <1>1
<1>3. (d + 1) * b = d * b + b /\ d * b \in Nat BY <1>1
<1>4. PICK e \in Nat : k = (d + 1) + e
  <2>1. k - (d + 1) \in Nat /\ k = (d + 1) + (k - (d + 1)) BY <1>1, <1>2
  <2> QED BY <2>1
<1>5. k * b = (d + 1) * b + e * b /\ e * b \in Nat BY <1>1, <1>4
<1> QED BY <1>1, <1>3, <1>5

(* Division is monotone.                                                    *)
LEMMA DivGrows ==
  ASSUME NEW a \in Nat, NEW c \in Nat, a <= c, NEW b \in Nat \ {0}
  PROVE  a \div b <= c \div b
<1>1. a \div b \in Nat /\ (a \div b) * b <= a BY DivBounds
<1> DEFINE k == a \div b
<1> HIDE DEF k
<1>2. k \in Nat /\ k * b <= a BY <1>1 DEF k
<1>3. k * b <= c
  <2>1. k * b \in Nat BY <1>2
  <2> QED BY <1>2, <2>1
<1>4. k <= c \div b BY <1>2, <1>3, DivAtLeast
<1> QED BY <1>4 DEF k

(* The k-th of the parts that rounding up makes starts before the end.      *)
LEMMA PartStartsInside ==
  ASSUME NEW m \in Nat, NEW w \in Nat \ {0}, NEW k \in 1 .. Cdiv(m, w)
  PROVE  (k - 1) * w \in Nat /\ (k - 1) * w < m /\ k * w = (k - 1) * w + w
<1> DEFINE d == (m + w - 1) \div w
<1>1. m + w - 1 \in Nat OBVIOUS
<1>2. d \in Nat /\ d * w <= m + w - 1 BY <1>1, DivBounds
<1>3. k \in 1 .. d BY DEF Cdiv
<1> HIDE DEF d
<1>4. k \in Nat /\ k - 1 \in Nat /\ k <= d BY <1>2, <1>3
<1>5. k * w = (k - 1) * w + w /\ (k - 1) * w \in Nat BY <1>4
<1>6. d - k \in Nat /\ d = k + (d - k) BY <1>2, <1>4
<1>7. d * w = k * w + (d - k) * w /\ (d - k) * w \in Nat BY <1>2, <1>4, <1>6
<1>8. k * w <= m + w - 1 BY <1>2, <1>5, <1>7
<1> QED BY <1>5, <1>8

(* Rounding up divides at least as often as rounding down.                  *)
LEMMA CdivGrows ==
  ASSUME NEW a \in Nat, NEW c \in Nat, a <= c, NEW b \in Nat \ {0}
  PROVE  Cdiv(a, b) <= Cdiv(c, b)
<1>1. a + b - 1 \in Nat /\ c + b - 1 \in Nat /\ a + b - 1 <= c + b - 1 OBVIOUS
<1> QED BY <1>1, DivGrows DEF Cdiv

(* The pieces of a list that is cut from its first place on: what is cut at *)
(* a place is followed by what is cut after that piece's end.               *)
Cuts(N, sub, end, h) ==
  /\ h[N + 1] = << >>
  /\ \A a \in 1 .. N : h[a] = sub[a] \o h[end[a] + 1]

(* Such pieces exist.                                                       *)
LEMMA CutsExist ==
  ASSUME NEW N \in Nat, NEW S, NEW sub \in [1 .. N -> Seq(S)], NEW end \in [1 .. N -> 1 .. N],
         \A a \in 1 .. N : a <= end[a]
  PROVE  \E h \in [1 .. N + 1 -> Seq(S)] : Cuts(N, sub, end, h)
<1> DEFINE From(a, h) == /\ h[N + 1] = << >>
                         /\ \A i \in a .. N : h[i] = sub[i] \o h[end[i] + 1]
           Good(m) == \E h \in [N + 1 - m .. N + 1 -> Seq(S)] : From(N + 1 - m, h)
<1> HIDE DEF Good
<1> DEFINE Bad == { m \in 0 .. N : ~Good(m) }
<1>1. SUFFICES ASSUME Bad # {} PROVE FALSE
  <2>1. N \in 0 .. N /\ N + 1 - N = 1 OBVIOUS
  <2>2. Good(N) BY <2>1
  <2> HIDE DEF From
  <2>3. PICK h \in [1 .. N + 1 -> Seq(S)] : From(1, h) BY <2>1, <2>2 DEF Good
  <2> QED BY <2>3 DEF Cuts, From
<1>2. Bad \in SUBSET Nat OBVIOUS
<1>3. PICK m \in Bad : \A k \in Bad : m <= k
  <2> HIDE DEF Bad
  <2> QED BY <1>1, <1>2, LeastExists
<1>4. m \in 0 .. N /\ ~Good(m) OBVIOUS
<1>5. m # 0
  <2>1. N + 1 - 0 = N + 1 OBVIOUS
  <2>2. [i \in N + 1 .. N + 1 |-> << >>] \in [N + 1 .. N + 1 -> Seq(S)]
    <3>1. << >> \in Seq(S) BY EmptySeq
    <3> QED BY <3>1
  <2>3. From(N + 1, [i \in N + 1 .. N + 1 |-> << >>])
    <3>1. N + 1 \in N + 1 .. N + 1 OBVIOUS
    <3>2. \A i \in N + 1 .. N : FALSE OBVIOUS
    <3> QED BY <3>1, <3>2
  <2> HIDE DEF From
  <2>4. Good(0) BY <2>1, <2>2, <2>3 DEF Good
  <2> QED BY <1>4, <2>4
<1> DEFINE a == N + 1 - m
<1>6. a \in 1 .. N /\ N + 1 - (m - 1) = a + 1 /\ m - 1 \in 0 .. N /\ m - 1 < m
  BY <1>4, <1>5
<1>7. Good(m - 1)
  <2>1. m - 1 \notin Bad BY <1>3, <1>6
  <2> QED BY <1>6, <2>1
<1>8. PICK g \in [a + 1 .. N + 1 -> Seq(S)] : From(a + 1, g) BY <1>6, <1>7 DEF Good
<1> HIDE DEF Bad
<1> DEFINE h == [i \in a .. N + 1 |-> IF i = a THEN sub[a] \o g[end[a] + 1] ELSE g[i]]
<1>9. \A i \in a .. N : end[i] + 1 \in a + 1 .. N + 1 /\ end[i] + 1 # a
  <2> SUFFICES ASSUME NEW i \in a .. N PROVE end[i] + 1 \in a + 1 .. N + 1 /\ end[i] + 1 # a OBVIOUS
  <2>1. i \in 1 .. N /\ a \in 1 .. N /\ i \in a .. N BY <1>6
  <2> HIDE DEF a
  <2> DEFINE e == end[i]
  <2>2. e \in 1 .. N /\ i <= e BY <2>1
  <2> HIDE DEF e
  <2>3. a \in Int /\ i \in Int /\ e \in Int /\ a <= i /\ e <= N BY <2>1, <2>2
  <2>4. e + 1 \in a + 1 .. N + 1 /\ e + 1 # a BY <2>2, <2>3
  <2> QED BY <2>4 DEF e
<1>10. a \in Int BY <1>6
<1> HIDE DEF a
<1>11. a \in 1 .. N BY <1>6
<1>12. h \in [a .. N + 1 -> Seq(S)]
  <2>1. a \in a .. N BY <1>11
  <2>2. g[end[a] + 1] \in Seq(S) BY <1>9, <2>1
  <2>3. sub[a] \in Seq(S) BY <1>11
  <2>4. sub[a] \o g[end[a] + 1] \in Seq(S) BY <2>2, <2>3, ConcatProperties
  <2>5. \A i \in a .. N + 1 : i # a => i \in a + 1 .. N + 1 BY <1>10
  <2> QED BY <2>4, <2>5
<1>13. \A i \in a + 1 .. N + 1 : h[i] = g[i]
  <2>1. \A i \in a + 1 .. N + 1 : i \in a .. N + 1 /\ i # a BY <1>10
  <2> QED BY <2>1
<1>14. h[a] = sub[a] \o g[end[a] + 1]
  <2>1. a \in a .. N + 1 BY <1>11
  <2> QED BY <2>1
<1> HIDE DEF h
<1>15. From(a, h)
  <2>1. N + 1 \in a + 1 .. N + 1 BY <1>11
  <2>2. h[N + 1] = << >> BY <1>8, <1>13, <2>1
  <2>3. ASSUME NEW i \in a .. N PROVE h[i] = sub[i] \o h[end[i] + 1]
    <3>1. h[end[i] + 1] = g[end[i] + 1] BY <1>9, <1>13
    <3>2. CASE i = a BY <1>14, <3>1, <3>2
    <3>3. CASE i # a
      <4>1. i \in a + 1 .. N /\ i \in a + 1 .. N + 1 BY <3>3, <1>10
      <4> QED BY <1>8, <1>13, <3>1, <4>1
    <3> QED BY <3>2, <3>3
  <2> QED BY <2>2, <2>3
<1> HIDE DEF From
<1>16. Good(m) BY <1>12, <1>15 DEF Good, a
<1> QED BY <1>4, <1>16

(* Whatever is so cut is a list of the pieces' elements at every place.     *)
LEMMA CutsTyped ==
  ASSUME NEW N \in Nat, NEW S, NEW sub \in [1 .. N -> Seq(S)], NEW end \in [1 .. N -> 1 .. N],
         \A a \in 1 .. N : a <= end[a], NEW h, Cuts(N, sub, end, h)
  PROVE  \A a \in 1 .. N + 1 : h[a] \in Seq(S)
<1> DEFINE Bad == { m \in 0 .. N : h[N + 1 - m] \notin Seq(S) }
<1>1. Bad = {}
  <2> SUFFICES ASSUME Bad # {} PROVE FALSE OBVIOUS
  <2>1. Bad \in SUBSET Nat OBVIOUS
  <2>2. PICK m \in Bad : \A k \in Bad : m <= k
    <3> HIDE DEF Bad
    <3> QED BY <2>1, LeastExists
  <2>3. m \in 0 .. N /\ h[N + 1 - m] \notin Seq(S) OBVIOUS
  <2>4. m # 0
    <3>1. h[N + 1] \in Seq(S) BY EmptySeq DEF Cuts
    <3>2. N + 1 - 0 = N + 1 OBVIOUS
    <3> QED BY <2>3, <3>1, <3>2
  <2> DEFINE a == N + 1 - m
  <2>5. a \in 1 .. N /\ a = N + 1 - m BY <2>3, <2>4
  <2> HIDE DEF a
  <2>6. end[a] \in 1 .. N /\ a <= end[a] BY <2>5
  <2>7. PICK k \in 0 .. N : k < m /\ N + 1 - k = end[a] + 1
    <3>0. m \in Int /\ N \in Int /\ a \in Int /\ end[a] \in Int /\ 1 <= end[a] /\ end[a] <= N
          /\ a <= end[a] /\ a = N + 1 - m
      BY <2>3, <2>5, <2>6
    <3> DEFINE e == end[a]
    <3> HIDE DEF e, Bad
    <3>1. e \in Int /\ 1 <= e /\ e <= N /\ a <= e BY <3>0 DEF e
    <3>3. N - e < m BY <3>0, <3>1
    <3>4. N - e \in 0 .. N BY <3>0, <3>1
    <3>5. N + 1 - (N - e) = e + 1 BY <3>0, <3>1
    <3> DEFINE k == N - e
    <3>2. k \in 0 .. N /\ k < m BY <3>3, <3>4
    <3>6. N + 1 - k = end[a] + 1 BY <3>5 DEF e
    <3> HIDE DEF k
    <3> QED BY <3>2, <3>6
  <2>8. h[end[a] + 1] \in Seq(S)
    <3>1. k \notin Bad
      <4>1. k \in Nat /\ m \in Nat BY <2>3, <2>7
      <4> HIDE DEF Bad
      <4> QED BY <2>2, <2>7, <4>1
    <3> QED BY <2>7, <3>1
  <2>9. sub[a] \in Seq(S) /\ h[a] = sub[a] \o h[end[a] + 1] BY <2>5 DEF Cuts
  <2>10. h[a] \in Seq(S) BY <2>8, <2>9, ConcatProperties
  <2> HIDE DEF Bad
  <2> QED BY <2>3, <2>5, <2>10
<1>2. ASSUME NEW a \in 1 .. N + 1 PROVE h[a] \in Seq(S)
  <2>1. N + 1 - a \in 0 .. N /\ N + 1 - (N + 1 - a) = a OBVIOUS
  <2>2. N + 1 - a \notin Bad BY <1>1
  <2> QED BY <2>1, <2>2
<1> QED BY <1>2

(* The greatest member of a bounded set of numbers is one of them.          *)
LEMMA MaxIsMember ==
  ASSUME NEW b \in Nat, NEW S \in SUBSET (0 .. b), S # {}
  PROVE  Max(S) \in S /\ \A x \in S : x <= Max(S)
<1>1. \E n \in S : \A x \in S : n >= x
  <2>1. \A n \in S : n \in Nat OBVIOUS
  <2>2. PICK n \in S : \A x \in S : x <= n BY GreatestExists
  <2>3. \A x \in S : n >= x BY <2>1, <2>2
  <2> QED BY <2>3
<1>2. Max(S) \in S /\ \A x \in S : Max(S) >= x BY <1>1, Zenon DEF Max
<1>3. \A n \in S : n \in Nat OBVIOUS
<1> QED BY <1>2, <1>3

(* The least member of a set of numbers is one of them.                     *)
LEMMA MinIsMember ==
  ASSUME NEW S \in SUBSET Nat, S # {}
  PROVE  Min(S) \in S /\ \A x \in S : Min(S) <= x
<1>1. \E n \in S : \A x \in S : n <= x BY LeastExists
<1> QED BY <1>1, Zenon DEF Min

-----------------------------------------------------------------------------
(* The budgets, as numbers.                                                 *)
LEMMA Budgets ==
  /\ MaxReqs \in Nat \ {0} /\ MaxModelLen \in Nat \ {0} /\ MaxTokens \in Nat \ {0}
  /\ BlockSize \in Nat \ {0} /\ Supertile \in Nat \ {0} /\ MaxLogits \in Nat \ {0}
  /\ Workspace \in Nat /\ Workspace >= MaxModelLen
  BY IndexerMetaAssumption

(* The lists that are split: query lengths and K rows of some requests.     *)
Loads(qs, ss, offset) ==
  /\ qs \in Seq(Nat \ {0}) /\ ss \in Seq(Nat) /\ Len(ss) = Len(qs) /\ offset \in Nat

(* The chunk specifications the split may make.                             *)
WithinLogits(sp, n) == n > 0 => sp.to - sp.from = 1 \/ (sp.to - sp.from) * n <= MaxLogits

CutSpec(sp, qs, ss, offset, a, z) ==
  /\ sp.first = a + offset /\ sp.last = z + offset
  /\ sp.from < sp.to /\ sp.to <= SumFromTo(qs, a, z)
  /\ z = a \/ Fits(qs, ss, a, z)
  /\ WithinLogits(sp, SumFromTo(ss, a, z))

CutSpecs(qs, ss, offset) ==
  { sp \in [first : Nat, last : Nat, from : Nat, to : Nat] :
      \E a \in 1 .. Len(qs) : \E z \in a .. Len(qs) : CutSpec(sp, qs, ss, offset, a, z) }

(* Sums over the lists are numbers, and a chunk of requests has a query row.*)
LEMMA LoadSums ==
  ASSUME NEW qs, NEW ss, NEW offset, Loads(qs, ss, offset),
         NEW a \in 1 .. Len(qs), NEW z \in a .. Len(qs)
  PROVE  /\ SumFromTo(qs, a, z) \in Nat \ {0}
         /\ SumFromTo(ss, a, z) \in Nat
<1> DEFINE N == Len(qs)
<1>1. N \in Nat /\ NatTo(qs, N) /\ NatTo(ss, N) /\ \A i \in 1 .. N : qs[i] \in Nat \ {0}
  <2>1. N \in Nat /\ N = Len(ss) BY DEF Loads
  <2>2. \A i \in 1 .. N : qs[i] \in Nat \ {0} BY DEF Loads
  <2>3. \A i \in 1 .. N : ss[i] \in Nat BY <2>1 DEF Loads
  <2> QED BY <2>1, <2>2, <2>3 DEF NatTo
<1>2. a \in 1 .. N /\ z \in a .. N OBVIOUS
<1> HIDE DEF N
<1>3. a - 1 \in 0 .. N /\ z \in a - 1 .. N /\ z \in 0 .. N /\ a \in 0 .. N /\ z \in a .. N
  BY <1>1, <1>2
<1> DEFINE Q(n) == SumTo(qs, n)
           S(n) == SumTo(ss, n)
<1>4. Q(a) = Q(a - 1) + qs[a] BY <1>1, <1>2, SumToStep
<1>5. Q(a) <= Q(z) BY <1>1, <1>3, SumToGrows
<1>6. Q(a) \in Nat /\ Q(a - 1) \in Nat /\ Q(z) \in Nat BY <1>1, <1>3, SumToStep
<1>7. S(a - 1) <= S(z) BY <1>1, <1>3, SumToGrows
<1>8. S(a - 1) \in Nat /\ S(z) \in Nat BY <1>1, <1>3, SumToStep
<1>9. qs[a] \in Nat \ {0} BY <1>1, <1>2
<1> HIDE DEF Q, S
<1>10. Q(z) - Q(a - 1) \in Nat \ {0} BY <1>4, <1>5, <1>6, <1>9
<1>11. S(z) - S(a - 1) \in Nat BY <1>7, <1>8
<1> QED BY <1>10, <1>11 DEF SumFromTo, Q, S

(* A chunk ends where it fits, or with its first request.                   *)
LEMMA ChunkEndIs ==
  ASSUME NEW qs, NEW ss, NEW offset, Loads(qs, ss, offset), NEW a \in 1 .. Len(qs)
  PROVE  /\ ChunkEnd(qs, ss, a) \in a .. Len(qs)
         /\ ChunkEnd(qs, ss, a) = a \/ Fits(qs, ss, a, ChunkEnd(qs, ss, a))
<1> DEFINE N == Len(qs)
           S == {a} \cup { z \in a .. N : Fits(qs, ss, a, z) }
<1>1. N \in Nat /\ a \in 1 .. N BY DEF Loads
<1> HIDE DEF N
<1>2. S \in SUBSET (0 .. N) /\ S # {} BY <1>1
<1>3. Max(S) \in S
  <2> HIDE DEF S
  <2> QED BY <1>1, <1>2, MaxIsMember
<1>4. \A z \in S : z \in a .. N /\ (z = a \/ Fits(qs, ss, a, z)) BY <1>1
<1> HIDE DEF S
<1>5. Max(S) \in a .. N /\ (Max(S) = a \/ Fits(qs, ss, a, Max(S))) BY <1>3, <1>4
<1> QED BY <1>5 DEF ChunkEnd, S, N

(* The parts of a chunk cover its query rows in order, each within budget.  *)
LEMMA SubChunksTyped ==
  ASSUME NEW qs, NEW ss, NEW offset, Loads(qs, ss, offset),
         NEW a \in 1 .. Len(qs), NEW z \in a .. Len(qs), z = a \/ Fits(qs, ss, a, z)
  PROVE  SubChunks(qs, ss, a, z, offset) \in Seq(CutSpecs(qs, ss, offset))
<1> DEFINE m == SumFromTo(qs, a, z)
           n == SumFromTo(ss, a, z)
           w == IF n > 0 THEN Most(1, MaxLogits \div n) ELSE m
<1>1. m \in Nat \ {0} /\ n \in Nat BY LoadSums
<1>2. w \in Nat \ {0} /\ (n > 0 => w = 1 \/ w * n <= MaxLogits)
  <2> HIDE DEF m, n
  <2>1. CASE n > 0
    <3>1. n \in Nat \ {0} BY <1>1, <2>1
    <3>2. MaxLogits \div n \in Nat /\ (MaxLogits \div n) * n <= MaxLogits
      BY <3>1, Budgets, DivBounds
    <3> DEFINE d == MaxLogits \div n
    <3> HIDE DEF d
    <3>3. d \in Nat /\ d * n <= MaxLogits BY <3>2 DEF d
    <3>4. w = Most(1, d) BY <2>1 DEF d
    <3> HIDE DEF w
    <3>5. w = IF 1 > d THEN 1 ELSE d BY <3>4 DEF Most
    <3>6. CASE 1 > d BY <3>5, <3>6
    <3>7. CASE ~(1 > d) BY <3>3, <3>5, <3>7
    <3> QED BY <3>6, <3>7
  <2>2. CASE ~(n > 0) BY <1>1, <2>2
  <2> QED BY <2>1, <2>2
<1> DEFINE Part(k) == [first |-> a + offset, last |-> z + offset,
                       from |-> (k - 1) * w, to |-> Least(k * w, m)]
<1>3. SubChunks(qs, ss, a, z, offset) = [k \in 1 .. Cdiv(m, w) |-> Part(k)]
  BY DEF SubChunks
<1>4. Cdiv(m, w) \in Nat
  <2> HIDE DEF m, w
  <2>1. m + w - 1 \in Nat BY <1>1, <1>2
  <2> QED BY <1>2, <2>1, DivBounds DEF Cdiv
<1>5. a + offset \in Nat /\ z + offset \in Nat BY DEF Loads
<1>6. ASSUME NEW k \in 1 .. Cdiv(m, w) PROVE Part(k) \in CutSpecs(qs, ss, offset)
  <2>1. m = SumFromTo(qs, a, z) /\ n = SumFromTo(ss, a, z) OBVIOUS
  <2> HIDE DEF m, n, w
  <2>2. (k - 1) * w \in Nat /\ (k - 1) * w < m /\ k * w = (k - 1) * w + w
    BY <1>1, <1>2, PartStartsInside
  <2> DEFINE u == (k - 1) * w
             t == Least(k * w, m)
  <2>3. u \in Nat /\ u < m /\ t = (IF u + w < m THEN u + w ELSE m) BY <2>2 DEF Least
  <2> HIDE DEF u, t
  <2>4. t \in Nat /\ u < t /\ t <= m /\ t - u \in Nat /\ t - u <= w BY <1>1, <1>2, <2>3
  <2>5. n > 0 => t - u = 1 \/ (t - u) * n <= MaxLogits
    <3> SUFFICES ASSUME n > 0 PROVE t - u = 1 \/ (t - u) * n <= MaxLogits OBVIOUS
    <3>1. CASE w = 1 BY <2>3, <2>4, <3>1
    <3>2. CASE w # 1
      <4>1. w * n <= MaxLogits BY <1>2, <3>2
      <4> DEFINE x == t - u
      <4>2. x \in Nat /\ x <= w /\ w - x \in Nat /\ w = x + (w - x) BY <1>2, <2>4
      <4> HIDE DEF x
      <4>3. w * n = x * n + (w - x) * n /\ (w - x) * n \in Nat /\ x * n \in Nat
        BY <1>1, <1>2, <4>2
      <4>4. x * n <= MaxLogits BY <4>1, <4>3, Budgets
      <4> QED BY <4>4 DEF x
    <3> QED BY <3>1, <3>2
  <2> DEFINE sp == Part(k)
  <2>6. /\ sp.first = a + offset /\ sp.last = z + offset /\ sp.from = u /\ sp.to = t
        /\ sp \in [first : Nat, last : Nat, from : Nat, to : Nat]
    BY <1>5, <2>3, <2>4 DEF u, t
  <2> HIDE DEF sp
  <2>7. CutSpec(sp, qs, ss, offset, a, z)
    BY <2>1, <2>4, <2>5, <2>6 DEF CutSpec, WithinLogits
  <2>8. sp \in CutSpecs(qs, ss, offset) BY <2>6, <2>7 DEF CutSpecs
  <2> QED BY <2>8 DEF sp
<1> HIDE DEF Part, m, w
<1>7. [k \in 1 .. Cdiv(m, w) |-> Part(k)] \in Seq(CutSpecs(qs, ss, offset))
  BY <1>4, <1>6, IsASeq
<1> QED BY <1>3, <1>7

-----------------------------------------------------------------------------
(* The chunks from a request on, as the split's recursion computes them.    *)
SplitOf(qs, ss, offset) ==
  CHOOSE split : split =
    [a \in 1 .. Len(qs) + 1 |->
       IF a > Len(qs) THEN << >>
       ELSE LET z == ChunkEnd(qs, ss, a)
            IN  SubChunks(qs, ss, a, z, offset) \o split[z + 1]]

(* The split returns the chunks from the first request on.                  *)
LEMMA SplitChunksIs ==
  ASSUME NEW qs, NEW ss, NEW offset
  PROVE  SplitChunks(qs, ss, offset) = SplitOf(qs, ss, offset)[1]
  BY DEF SplitChunks, SplitOf

(* What the split cuts at each request, and where each piece ends.          *)
PieceOf(qs, ss, offset) ==
  [a \in 1 .. Len(qs) |-> SubChunks(qs, ss, a, ChunkEnd(qs, ss, a), offset)]

EndOf(qs, ss) == [a \in 1 .. Len(qs) |-> ChunkEnd(qs, ss, a)]

(* The pieces are chunk specifications, and the split cuts them in order.   *)
LEMMA SplitCuts ==
  ASSUME NEW qs, NEW ss, NEW offset, Loads(qs, ss, offset)
  PROVE  /\ PieceOf(qs, ss, offset) \in [1 .. Len(qs) -> Seq(CutSpecs(qs, ss, offset))]
         /\ EndOf(qs, ss) \in [1 .. Len(qs) -> 1 .. Len(qs)]
         /\ \A a \in 1 .. Len(qs) : a <= EndOf(qs, ss)[a]
         /\ Cuts(Len(qs), PieceOf(qs, ss, offset), EndOf(qs, ss), SplitOf(qs, ss, offset))
<1> DEFINE N == Len(qs)
           T == CutSpecs(qs, ss, offset)
           Sub(a) == SubChunks(qs, ss, a, ChunkEnd(qs, ss, a), offset)
           End(a) == ChunkEnd(qs, ss, a)
           sub == PieceOf(qs, ss, offset)
           end == EndOf(qs, ss)
<1>1. N \in Nat BY DEF Loads
<1>2. \A a \in 1 .. N : End(a) \in a .. N /\ Sub(a) \in Seq(T)
  <2> SUFFICES ASSUME NEW a \in 1 .. N PROVE End(a) \in a .. N /\ Sub(a) \in Seq(T) OBVIOUS
  <2>1. /\ End(a) \in a .. Len(qs)
        /\ End(a) = a \/ Fits(qs, ss, a, End(a))
    BY ChunkEndIs
  <2> HIDE DEF End
  <2>2. SubChunks(qs, ss, a, End(a), offset) \in Seq(T) BY <2>1, SubChunksTyped
  <2> QED BY <2>1, <2>2 DEF End
<1>20. sub = [a \in 1 .. N |-> Sub(a)] /\ end = [a \in 1 .. N |-> End(a)] BY DEF PieceOf, EndOf
<1> HIDE DEF Sub, End, N, T, sub, end
<1>3. \A a \in 1 .. N : End(a) \in 1 .. N /\ a <= End(a) BY <1>1, <1>2
<1>4. /\ sub \in [1 .. N -> Seq(T)] /\ end \in [1 .. N -> 1 .. N]
      /\ \A a \in 1 .. N : a <= end[a] /\ sub[a] = Sub(a) /\ end[a] = End(a)
  BY <1>2, <1>3, <1>20
<1>5. PICK h \in [1 .. N + 1 -> Seq(T)] : Cuts(N, sub, end, h) BY <1>1, <1>4, CutsExist
<1>6. N + 1 \in 1 .. N + 1 /\ N + 1 > N BY <1>1
<1>7. \A a \in 1 .. N + 1 : a # N + 1 => a \in 1 .. N /\ ~(a > N) BY <1>1
<1> DEFINE Body(t) == [a \in 1 .. N + 1 |-> IF a > N THEN << >> ELSE Sub(a) \o t[End(a) + 1]]
<1>8. h = Body(h)
  <2>1. \A a \in 1 .. N + 1 : h[a] = Body(h)[a]
    <3> SUFFICES ASSUME NEW a \in 1 .. N + 1 PROVE h[a] = Body(h)[a] OBVIOUS
    <3>1. CASE a = N + 1 BY <1>5, <1>6, <3>1 DEF Cuts
    <3>2. CASE a # N + 1
      <4>1. a \in 1 .. N /\ ~(a > N) BY <1>7, <3>2
      <4>2. h[a] = sub[a] \o h[end[a] + 1] BY <1>5, <4>1 DEF Cuts
      <4> QED BY <1>4, <4>1, <4>2
    <3> QED BY <3>1, <3>2
  <2>2. DOMAIN h = 1 .. N + 1 /\ DOMAIN Body(h) = 1 .. N + 1 /\ h = [a \in 1 .. N + 1 |-> h[a]]
    OBVIOUS
  <2> QED BY <2>1, <2>2
<1> DEFINE s == SplitOf(qs, ss, offset)
<1>9. s = CHOOSE t : t = Body(t) BY DEF SplitOf, N, Sub, End
<1> HIDE DEF s, Body
<1>10. s = Body(s)
  <2>1. \E t : t = Body(t) BY <1>8
  <2> QED BY <1>9, <2>1, Zenon
<1>11. Cuts(N, sub, end, s)
  <2>1. s[N + 1] = << >> BY <1>6, <1>10 DEF Body
  <2>2. ASSUME NEW a \in 1 .. N PROVE s[a] = sub[a] \o s[end[a] + 1]
    <3>1. a \in 1 .. N + 1 /\ ~(a > N) BY <1>1
    <3>2. s[a] = Sub(a) \o s[End(a) + 1] BY <1>10, <3>1 DEF Body
    <3> QED BY <1>4, <3>2
  <2> QED BY <2>1, <2>2 DEF Cuts
<1> QED BY <1>4, <1>11 DEF N, T, sub, end, s

(* Every chunk the split makes is a part of consecutive requests that fit   *)
(* the budgets together, or of one request.                                 *)
LEMMA SplitChunksTyped ==
  ASSUME NEW qs, NEW ss, NEW offset, Loads(qs, ss, offset)
  PROVE  SplitChunks(qs, ss, offset) \in Seq(CutSpecs(qs, ss, offset))
<1> DEFINE N == Len(qs)
           T == CutSpecs(qs, ss, offset)
           sub == PieceOf(qs, ss, offset)
           end == EndOf(qs, ss)
           s == SplitOf(qs, ss, offset)
<1>1. N \in Nat /\ 1 \in 1 .. N + 1 BY DEF Loads
<1>2. /\ sub \in [1 .. N -> Seq(T)] /\ end \in [1 .. N -> 1 .. N]
      /\ \A a \in 1 .. N : a <= end[a]
      /\ Cuts(N, sub, end, s)
  BY SplitCuts
<1> HIDE DEF N, T, sub, end, s
<1>3. \A a \in 1 .. N + 1 : s[a] \in Seq(T) BY <1>1, <1>2, CutsTyped
<1>4. s[1] \in Seq(T) BY <1>1, <1>3
<1> QED BY <1>4, SplitChunksIs DEF s, T

(* What a list computed entry by entry holds stays in a set that every step *)
(* of the computation stays in.                                             *)
LEMMA IteratesTyped ==
  ASSUME NEW n \in Nat, NEW S, NEW step \in [1 .. n -> [S -> S]],
         NEW h, h[0] \in S, \A i \in 1 .. n : h[i - 1] \in S => h[i] = step[i][h[i - 1]]
  PROVE  \A i \in 0 .. n : h[i] \in S
<1> DEFINE Bad == { i \in 0 .. n : h[i] \notin S }
<1>1. Bad = {}
  <2> SUFFICES ASSUME Bad # {} PROVE FALSE OBVIOUS
  <2>1. Bad \in SUBSET Nat OBVIOUS
  <2>2. PICK m \in Bad : \A k \in Bad : m <= k
    <3> HIDE DEF Bad
    <3> QED BY <2>1, LeastExists
  <2>3. m \in 0 .. n /\ h[m] \notin S OBVIOUS
  <2>4. m # 0 BY <2>3
  <2>5. m - 1 \in 0 .. n /\ m - 1 < m /\ m \in 1 .. n BY <2>3, <2>4
  <2>6. h[m - 1] \in S BY <2>2, <2>5
  <2>7. h[m] = step[m][h[m - 1]] BY <2>5, <2>6
  <2>8. step[m] \in [S -> S] BY <2>5
  <2> HIDE DEF Bad
  <2> QED BY <2>3, <2>6, <2>7, <2>8
<1> QED BY <1>1

(* A list that is what a recursive definition over 0 .. n says of it.       *)
Unfolds(n, s0, step, g) == g = [i \in 0 .. n |-> IF i = 0 THEN s0 ELSE step[i][g[i - 1]]]

(* Any list that repeats such steps does what the steps say: the recursive  *)
(* definitions over 0 .. n compute it.                                      *)
LEMMA IterateUnfolds ==
  ASSUME NEW n \in Nat, NEW S, NEW s0 \in S, NEW step \in [1 .. n -> [S -> S]]
  PROVE  \E g \in [0 .. n -> S] : Unfolds(n, s0, step, g)
<1>1. PICK g \in [0 .. n -> S] : Iterates(n, s0, step, g) BY IteratesExist
<1> DEFINE k == [i \in 0 .. n |-> IF i = 0 THEN s0 ELSE step[i][g[i - 1]]]
<1>2. \A i \in 0 .. n : g[i] = k[i]
  <2>1. \A i \in 0 .. n : i # 0 => i \in 1 .. n OBVIOUS
  <2> QED BY <1>1, <2>1 DEF Iterates
<1>3. DOMAIN g = 0 .. n /\ DOMAIN k = 0 .. n /\ g = [i \in 0 .. n |-> g[i]] OBVIOUS
<1>4. Unfolds(n, s0, step, g) BY <1>2, <1>3 DEF Unfolds
<1> QED BY <1>4

-----------------------------------------------------------------------------
(* A deployment's numbers.                                                  *)
LEMMA ConfTyped ==
  ASSUME conf \in Configs
  PROVE  /\ conf.nextN \in Nat \ {0} /\ conf.ratio \in Nat \ {0} /\ conf.cap \in Nat
         /\ BlockSize % conf.ratio = 0 /\ conf.b12x \in BOOLEAN
  BY IndexerMetaAssumption

(* A batch is a list of at most MaxReqs requests.                           *)
LEMMA BatchTyped ==
  ASSUME NEW b \in Batches
  PROVE  /\ b \in Seq(Requests) /\ Len(b) \in 1 .. MaxReqs /\ DOMAIN b = 1 .. Len(b)
         /\ Rows(b) <= MaxTokens
         /\ \A r \in 1 .. Len(b) : b[r] \in Requests
<1>1. PICK n \in 1 .. MaxReqs : b \in [1 .. n -> Requests] BY DEF Batches
<1>2. n \in Nat /\ b \in Seq(Requests) /\ Len(b) = n
  <2>1. n \in Nat BY <1>1
  <2> QED BY <1>1, <2>1
<1>3. Rows(b) <= MaxTokens BY DEF Batches
<1> QED BY <1>1, <1>2, <1>3

(* A request's query tokens are among its tokens, and the bound on its      *)
(* length is no less than its length.                                       *)
LEMMA RequestTyped ==
  ASSUME NEW r \in Requests
  PROVE  /\ r.q \in Nat \ {0} /\ r.s \in Nat /\ r.ub \in Nat
         /\ r.q <= r.s /\ r.s <= r.ub /\ r.ub <= MaxModelLen /\ r.s <= MaxModelLen
  BY Budgets DEF Requests

(* A batch's query lengths, and the K rows its requests own and may own.    *)
LEMMA BatchLoads ==
  ASSUME NEW b \in Batches, conf \in Configs
  PROVE  /\ QueryLens(b) \in Seq(Nat \ {0}) /\ Len(QueryLens(b)) = Len(b)
         /\ CompressedUb(b) \in Seq(Nat) /\ Len(CompressedUb(b)) = Len(b)
         /\ CompressedLens(b) \in Seq(Nat) /\ Len(CompressedLens(b)) = Len(b)
         /\ \A r \in 1 .. Len(b) :
              /\ QueryLens(b)[r] = b[r].q
              /\ CompressedLens(b)[r] = b[r].s \div conf.ratio
              /\ CompressedLens(b)[r] <= CompressedUb(b)[r]
              /\ CompressedUb(b)[r] <= MaxModelLen
<1>1. Len(b) \in Nat /\ DOMAIN b = 1 .. Len(b) /\ \A r \in 1 .. Len(b) : b[r] \in Requests
  BY BatchTyped, Budgets
<1>2. conf.ratio \in Nat \ {0} BY ConfTyped
<1>3. ASSUME NEW r \in 1 .. Len(b)
      PROVE  /\ b[r].q \in Nat \ {0}
             /\ b[r].s \div conf.ratio \in Nat /\ b[r].ub \div conf.ratio \in Nat
             /\ b[r].s \div conf.ratio <= b[r].ub \div conf.ratio
             /\ b[r].ub \div conf.ratio <= MaxModelLen
  <2>1. b[r] \in Requests BY <1>1
  <2> DEFINE x == b[r].s
             y == b[r].ub
             d == conf.ratio
  <2>2. /\ b[r].q \in Nat \ {0} /\ x \in Nat /\ y \in Nat
        /\ x <= y /\ y <= MaxModelLen
    BY <2>1, RequestTyped
  <2>3. d \in Nat \ {0} BY <1>2
  <2> HIDE DEF x, y, d
  <2>4. x \div d \in Nat /\ y \div d \in Nat /\ (y \div d) * d <= y BY <2>2, <2>3, DivBounds
  <2>5. x \div d <= y \div d BY <2>2, <2>3, DivGrows
  <2> DEFINE e == y \div d
  <2>6. e \in Nat /\ e * d <= y BY <2>4
  <2> HIDE DEF e
  <2>7. d - 1 \in Nat /\ d = 1 + (d - 1) BY <2>3
  <2>8. e * d = e + e * (d - 1) /\ e * (d - 1) \in Nat BY <2>6, <2>7
  <2>9. e <= MaxModelLen BY <2>2, <2>6, <2>8, Budgets
  <2> QED BY <2>2, <2>4, <2>5, <2>9 DEF x, y, d, e
<1>4. QueryLens(b) = [r \in 1 .. Len(b) |-> b[r].q] BY <1>1 DEF QueryLens
<1>5. CompressedUb(b) = [r \in 1 .. Len(b) |-> b[r].ub \div conf.ratio] BY <1>1 DEF CompressedUb
<1>6. CompressedLens(b) = [r \in 1 .. Len(b) |-> b[r].s \div conf.ratio]
  BY <1>1 DEF CompressedLens
<1>7. QueryLens(b) \in Seq(Nat \ {0}) /\ Len(QueryLens(b)) = Len(b) BY <1>1, <1>3, <1>4
<1>8. CompressedUb(b) \in Seq(Nat) /\ Len(CompressedUb(b)) = Len(b) BY <1>1, <1>3, <1>5
<1>9. CompressedLens(b) \in Seq(Nat) /\ Len(CompressedLens(b)) = Len(b) BY <1>1, <1>3, <1>6
<1>10. ASSUME NEW r \in 1 .. Len(b)
       PROVE  /\ QueryLens(b)[r] = b[r].q
              /\ CompressedLens(b)[r] = b[r].s \div conf.ratio
              /\ CompressedUb(b)[r] = b[r].ub \div conf.ratio
  BY <1>4, <1>5, <1>6
<1> QED BY <1>3, <1>7, <1>8, <1>9, <1>10

(* The sums of a batch.                                                     *)
LEMMA BatchSums ==
  ASSUME NEW b \in Batches, conf \in Configs
  PROVE  /\ Len(b) \in Nat
         /\ NatTo(QueryLens(b), Len(b)) /\ NatTo(CompressedUb(b), Len(b))
         /\ NatTo(CompressedLens(b), Len(b))
         /\ \A n \in 0 .. Len(b) : SumTo(QueryLens(b), n) \in Nat
         /\ \A n \in 0 .. Len(b) : SumTo(QueryLens(b), n) <= Rows(b)
         /\ Rows(b) \in Nat /\ Rows(b) <= MaxTokens
<1>1. Len(b) \in Nat /\ Rows(b) <= MaxTokens BY BatchTyped, Budgets
<1>2. /\ NatTo(QueryLens(b), Len(b)) /\ NatTo(CompressedUb(b), Len(b))
      /\ NatTo(CompressedLens(b), Len(b))
  <2>1. \A i \in 1 .. Len(b) : QueryLens(b)[i] \in Nat
    <3>1. QueryLens(b) \in Seq(Nat \ {0}) /\ Len(QueryLens(b)) = Len(b) BY BatchLoads
    <3> QED BY <3>1
  <2>2. \A i \in 1 .. Len(b) : CompressedUb(b)[i] \in Nat
    <3>1. CompressedUb(b) \in Seq(Nat) /\ Len(CompressedUb(b)) = Len(b) BY BatchLoads
    <3> QED BY <3>1
  <2>3. \A i \in 1 .. Len(b) : CompressedLens(b)[i] \in Nat
    <3>1. CompressedLens(b) \in Seq(Nat) /\ Len(CompressedLens(b)) = Len(b) BY BatchLoads
    <3> QED BY <3>1
  <2> QED BY <2>1, <2>2, <2>3 DEF NatTo
<1>3. \A n \in 0 .. Len(b) : SumTo(QueryLens(b), n) \in Nat BY <1>1, <1>2, SumToStep
<1>4. ASSUME NEW n \in 0 .. Len(b) PROVE SumTo(QueryLens(b), n) <= Rows(b)
  <2>1. Len(b) \in n .. Len(b) BY <1>1
  <2> QED BY <1>1, <1>2, <2>1, SumToGrows DEF Rows
<1>5. Rows(b) \in Nat
  <2>1. Len(b) \in 0 .. Len(b) BY <1>1
  <2> QED BY <1>3, <2>1 DEF Rows
<1> QED BY <1>1, <1>2, <1>3, <1>4, <1>5

(* A chunk specification of a batch: consecutive requests, some of their    *)
(* query rows, within the logits; one request in b12x, else no more K rows  *)
(* than the workspace holds.                                                *)
GoodSpec(b, sp) ==
  /\ sp.first \in 1 .. Len(b) /\ sp.last \in sp.first .. Len(b)
  /\ sp.from < sp.to /\ sp.to <= SumFromTo(QueryLens(b), sp.first, sp.last)
  /\ conf.b12x => sp.first = sp.last /\ WithinLogits(sp, Supertile)
  /\ ~conf.b12x =>
       /\ WithinLogits(sp, SumFromTo(CompressedUb(b), sp.first, sp.last))
       /\ SumFromTo(CompressedUb(b), sp.first, sp.last) <= Workspace

GoodSpecs(b) == { sp \in [first : Nat, last : Nat, from : Nat, to : Nat] : GoodSpec(b, sp) }

(* List g is the N entries of f that follow the first d.                    *)
PartOf(g, f, d, N) == \A i \in 1 .. N : g[i] = f[d + i]

(* The sum of a part of a list is that of the whole list over its places.   *)
LEMMA PartSums ==
  ASSUME NEW L \in Nat, NEW f, NatTo(f, L), NEW d \in Nat, NEW N \in Nat, d + N <= L, NEW g,
         PartOf(g, f, d, N), NEW a \in 1 .. N, NEW z \in a .. N
  PROVE  \A u, v \in Nat : u = a + d /\ v = z + d => SumFromTo(g, a, z) = SumFromTo(f, u, v)
<1>1. NatTo(f, d + N)
  <2>1. \A i \in 1 .. d + N : i \in 1 .. L OBVIOUS
  <2> QED BY <2>1 DEF NatTo
<1>2. a - 1 \in 0 .. N /\ z \in 0 .. N OBVIOUS
<1>3. SumTo(f, d + (a - 1)) = SumTo(f, d) + SumTo(g, a - 1) BY <1>1, <1>2, SumToShift DEF PartOf
<1>4. SumTo(f, d + z) = SumTo(f, d) + SumTo(g, z) BY <1>1, <1>2, SumToShift DEF PartOf
<1>5. NatTo(g, N)
  <2>1. \A i \in 1 .. N : d + i \in 1 .. L OBVIOUS
  <2> QED BY <2>1 DEF NatTo, PartOf
<1>6. SumTo(g, a - 1) \in Nat /\ SumTo(g, z) \in Nat BY <1>2, <1>5, SumToStep
<1>7. SumTo(f, d) \in Nat
  <2>1. d \in 0 .. d + N OBVIOUS
  <2>2. d + N \in Nat OBVIOUS
  <2> QED BY <1>1, <2>1, <2>2, SumToStep
<1>8. d + (a - 1) = (a + d) - 1 /\ d + z = z + d OBVIOUS
<1> DEFINE A == SumTo(f, d) B == SumTo(g, a - 1) C == SumTo(g, z)
<1>9. A \in Nat /\ B \in Nat /\ C \in Nat BY <1>6, <1>7
<1>10. SumTo(f, (a + d) - 1) = A + B /\ SumTo(f, z + d) = A + C BY <1>3, <1>4, <1>8
<1> HIDE DEF A, B, C
<1>11. (A + C) - (A + B) = C - B BY <1>9
<1>12. SumFromTo(g, a, z) = C - B BY DEF SumFromTo, B, C
<1>13. SumFromTo(g, a, z) = SumFromTo(f, a + d, z + d)
  BY <1>10, <1>11, <1>12 DEF SumFromTo
<1> QED BY <1>13

(* The lists the builder splits are the batch's from the first prefill on.  *)
LEMMA Suffix ==
  ASSUME NEW S, NEW f \in Seq(S), NEW d \in Nat
  PROVE  /\ SubSeq(f, d + 1, Len(f)) \in Seq(S)
         /\ Len(SubSeq(f, d + 1, Len(f))) = IF d < Len(f) THEN Len(f) - d ELSE 0
         /\ \A i \in 1 .. Len(SubSeq(f, d + 1, Len(f))) : SubSeq(f, d + 1, Len(f))[i] = f[d + i]
<1>1. Len(f) \in Nat /\ \A i \in (d + 1) .. Len(f) : f[i] \in S
  <2>1. Len(f) \in Nat /\ \A i \in 1 .. Len(f) : f[i] \in S OBVIOUS
  <2>2. \A i \in (d + 1) .. Len(f) : i \in 1 .. Len(f) BY <2>1
  <2> QED BY <2>1, <2>2
<1> DEFINE N == Len(f)
           t == SubSeq(f, d + 1, N)
<1>2. N \in Nat /\ d + 1 \in Int /\ N \in Int BY <1>1
<1>3. /\ t \in Seq(S)
      /\ Len(t) = IF d + 1 <= N THEN N - (d + 1) + 1 ELSE 0
      /\ \A i \in 1 .. N - (d + 1) + 1 : t[i] = f[(d + 1) + i - 1]
  BY <1>1, <1>2, SubSeqProperties
<1> HIDE DEF t, N
<1>4. Len(t) = IF d < N THEN N - d ELSE 0 BY <1>2, <1>3
<1>5. ASSUME NEW i \in 1 .. Len(t) PROVE t[i] = f[d + i]
  <2>1. i \in 1 .. N - (d + 1) + 1 /\ (d + 1) + i - 1 = d + i BY <1>2, <1>4
  <2> QED BY <1>3, <2>1
<1> QED BY <1>3, <1>4, <1>5 DEF t, N

(* What the workspace holds is enough for every chunk of several requests   *)
(* that fits, and for any request.                                          *)
LEMMA ContextSpecsTyped ==
  ASSUME NEW b \in Batches, conf \in Configs, NEW nd \in Nat
  PROVE  /\ Loads(SubSeq(QueryLens(b), nd + 1, Len(b)), SubSeq(CompressedUb(b), nd + 1, Len(b)), nd)
         /\ ~conf.b12x =>
              CutSpecs(SubSeq(QueryLens(b), nd + 1, Len(b)),
                       SubSeq(CompressedUb(b), nd + 1, Len(b)), nd) \subseteq GoodSpecs(b)
<1> DEFINE L == Len(b)
           F == QueryLens(b)
           G == CompressedUb(b)
           qs == SubSeq(F, nd + 1, L)
           ss == SubSeq(G, nd + 1, L)
           N == Len(qs)
<1>1. L \in Nat /\ NatTo(F, L) /\ NatTo(G, L) BY BatchSums
<1>2. F \in Seq(Nat \ {0}) /\ Len(F) = L /\ G \in Seq(Nat) /\ Len(G) = L BY BatchLoads
<1>3. \A r \in 1 .. L : G[r] <= MaxModelLen BY BatchLoads
<1> HIDE DEF L, F, G
<1>4. /\ qs \in Seq(Nat \ {0})
      /\ N = IF nd < L THEN L - nd ELSE 0
      /\ \A i \in 1 .. N : qs[i] = F[nd + i]
  <2>1. /\ SubSeq(F, nd + 1, Len(F)) \in Seq(Nat \ {0})
        /\ Len(SubSeq(F, nd + 1, Len(F))) = IF nd < Len(F) THEN Len(F) - nd ELSE 0
        /\ \A i \in 1 .. Len(SubSeq(F, nd + 1, Len(F))) :
             SubSeq(F, nd + 1, Len(F))[i] = F[nd + i]
    BY <1>2, Suffix
  <2> QED BY <1>2, <2>1
<1>5. /\ ss \in Seq(Nat)
      /\ Len(ss) = IF nd < L THEN L - nd ELSE 0
      /\ \A i \in 1 .. Len(ss) : ss[i] = G[nd + i]
  <2>1. /\ SubSeq(G, nd + 1, Len(G)) \in Seq(Nat)
        /\ Len(SubSeq(G, nd + 1, Len(G))) = IF nd < Len(G) THEN Len(G) - nd ELSE 0
        /\ \A i \in 1 .. Len(SubSeq(G, nd + 1, Len(G))) :
             SubSeq(G, nd + 1, Len(G))[i] = G[nd + i]
    BY <1>2, Suffix
  <2> QED BY <1>2, <2>1
<1> HIDE DEF qs, ss, N
<1>6. Loads(qs, ss, nd) BY <1>4, <1>5 DEF Loads, N
<1>7. ASSUME ~conf.b12x, NEW sp \in CutSpecs(qs, ss, nd) PROVE sp \in GoodSpecs(b)
  <2>1. PICK a \in 1 .. N : \E z \in a .. N : CutSpec(sp, qs, ss, nd, a, z)
    BY DEF CutSpecs, N
  <2>2. PICK z \in a .. N : CutSpec(sp, qs, ss, nd, a, z) BY <2>1
  <2>3. sp \in [first : Nat, last : Nat, from : Nat, to : Nat] BY DEF CutSpecs
  <2>4. /\ sp.first = a + nd /\ sp.last = z + nd
        /\ sp.from < sp.to /\ sp.to <= SumFromTo(qs, a, z)
        /\ z = a \/ Fits(qs, ss, a, z)
        /\ WithinLogits(sp, SumFromTo(ss, a, z))
    BY <2>2 DEF CutSpec
  <2>5. N \in Nat /\ nd + N <= L /\ N = Len(ss)
        /\ a + nd \in 1 .. L /\ z + nd \in a + nd .. L
    BY <1>1, <1>4, <1>5
  <2> DEFINE u == a + nd v == z + nd
  <2>0. u \in Nat /\ v \in Nat /\ u = a + nd /\ v = z + nd OBVIOUS
  <2> HIDE DEF u, v
  <2>6. SumFromTo(qs, a, z) = SumFromTo(F, u, v)
    <3>1. PartOf(qs, F, nd, N) BY <1>4 DEF PartOf
    <3> QED BY <1>1, <2>0, <2>5, <3>1, PartSums
  <2>7. SumFromTo(ss, a, z) = SumFromTo(G, u, v)
    <3>1. PartOf(ss, G, nd, N) BY <1>5, <2>5 DEF PartOf
    <3> QED BY <1>1, <2>0, <2>5, <3>1, PartSums
  <2>8. SumFromTo(G, u, v) <= Workspace
    <3>1. CASE z = a
      <4>0. u \in 1 .. L /\ u - 1 \in 0 .. L /\ u = v BY <1>1, <2>0, <2>5, <3>1
      <4>1. SumTo(G, u) = SumTo(G, u - 1) + G[u]
        BY <1>1, <4>0, SumToStep
      <4>2. SumTo(G, u - 1) \in Nat
        BY <1>1, <4>0, SumToStep
      <4>3. G[u] <= MaxModelLen /\ G[u] \in Nat BY <1>1, <1>3, <4>0 DEF NatTo
      <4> DEFINE x == SumTo(G, u - 1) y == G[u]
      <4>4. x \in Nat /\ y \in Nat /\ y <= MaxModelLen /\ SumTo(G, u) = x + y
        BY <4>1, <4>2, <4>3
      <4>5. SumFromTo(G, u, u) = (x + y) - x BY <4>4 DEF SumFromTo
      <4> HIDE DEF x, y
      <4>6. (x + y) - x <= Workspace BY <4>4, Budgets
      <4> QED BY <4>0, <4>5, <4>6
    <3>2. CASE z # a BY <2>4, <2>7, <3>2 DEF Fits
    <3> QED BY <3>1, <3>2
  <2>9. GoodSpec(b, sp)
    BY <1>7, <2>0, <2>4, <2>5, <2>6, <2>7, <2>8 DEF GoodSpec, L, F, G
  <2> QED BY <2>3, <2>9 DEF GoodSpecs
<1>8. ~conf.b12x => CutSpecs(qs, ss, nd) \subseteq GoodSpecs(b) BY <1>7
<1> QED BY <1>6, <1>8 DEF qs, ss, L, F, G

(* A list of members of one set is a list of members of a larger one.       *)
LEMMA SeqGrows ==
  ASSUME NEW S, NEW T, S \subseteq T, NEW s \in Seq(S)
  PROVE  s \in Seq(T)
<1>1. Len(s) \in Nat /\ s \in [1 .. Len(s) -> S] OBVIOUS
<1>2. s \in [1 .. Len(s) -> T] BY <1>1
<1> QED BY <1>1, <1>2

(* b12x: the split of one request, over one supertile of K rows.            *)
LEMMA RequestSpecsTyped ==
  ASSUME NEW b \in Batches, conf \in Configs, NEW nd \in Nat, NEW q \in Nat \ {0},
         NEW r \in 1 .. Len(b), r = nd + 1, q = QueryLens(b)[r]
  PROVE  conf.b12x =>
           SplitChunks(<<q>>, <<Supertile>>, nd) \in Seq(GoodSpecs(b))
<1> DEFINE qs == <<q>>
           ss == <<Supertile>>
           L == Len(b)
           F == QueryLens(b)
<1>1. /\ qs \in Seq(Nat \ {0}) /\ Len(qs) = 1 /\ qs[1] = q
      /\ ss \in Seq(Nat) /\ Len(ss) = 1 /\ ss[1] = Supertile
  BY Budgets
<1>2. L \in Nat /\ NatTo(F, L) BY BatchSums
<1> HIDE DEF qs, ss, L, F
<1>3. Loads(qs, ss, nd) BY <1>1 DEF Loads
<1>4. SumFromTo(qs, 1, 1) = q /\ SumFromTo(ss, 1, 1) = Supertile
  <2>1. NatTo(qs, 1) /\ NatTo(ss, 1) BY <1>1, Budgets DEF NatTo
  <2>2. 1 \in Nat /\ 1 \in 1 .. 1 /\ 1 - 1 = 0 OBVIOUS
  <2>3. SumTo(qs, 0) = 0 /\ SumTo(qs, 1) = SumTo(qs, 1 - 1) + qs[1] BY <2>1, <2>2, SumToStep
  <2>4. SumTo(ss, 0) = 0 /\ SumTo(ss, 1) = SumTo(ss, 1 - 1) + ss[1] BY <2>1, <2>2, SumToStep
  <2>5. SumTo(qs, 1) = q /\ SumTo(ss, 1) = Supertile BY <1>1, <2>2, <2>3, <2>4, Budgets
  <2> QED BY <2>2, <2>3, <2>4, <2>5, Budgets DEF SumFromTo
<1>5. SumFromTo(F, r, r) = q
  <2>1. r \in 1 .. L /\ q = F[r] BY DEF L, F
  <2>2. r - 1 \in 0 .. L /\ SumTo(F, r) = SumTo(F, r - 1) + F[r] BY <1>2, <2>1, SumToStep
  <2>3. SumTo(F, r - 1) \in Nat BY <1>2, <2>2, SumToStep
  <2> DEFINE x == SumTo(F, r - 1)
  <2>4. x \in Nat /\ SumTo(F, r) = x + q BY <2>1, <2>2, <2>3
  <2>5. SumFromTo(F, r, r) = (x + q) - x BY <2>4 DEF SumFromTo
  <2> HIDE DEF x
  <2> QED BY <2>4, <2>5
<1>6. ASSUME conf.b12x, NEW sp \in CutSpecs(qs, ss, nd) PROVE sp \in GoodSpecs(b)
  <2>1. PICK a \in 1 .. Len(qs) : \E z \in a .. Len(qs) : CutSpec(sp, qs, ss, nd, a, z)
    BY DEF CutSpecs
  <2>2. PICK z \in a .. Len(qs) : CutSpec(sp, qs, ss, nd, a, z) BY <2>1
  <2>3. sp \in [first : Nat, last : Nat, from : Nat, to : Nat] BY DEF CutSpecs
  <2>4. a = 1 /\ z = 1 BY <1>1, <2>1, <2>2
  <2>5. /\ sp.first = 1 + nd /\ sp.last = 1 + nd
        /\ sp.from < sp.to /\ sp.to <= q /\ WithinLogits(sp, Supertile)
    BY <1>4, <2>2, <2>4 DEF CutSpec
  <2>6. sp.first = r /\ sp.last = r BY <2>5
  <2>7. r \in 1 .. Len(b) /\ r \in r .. Len(b) BY <1>2 DEF L
  <2>8. GoodSpec(b, sp) BY <1>5, <1>6, <2>5, <2>6, <2>7 DEF GoodSpec, F
  <2> QED BY <2>3, <2>8 DEF GoodSpecs
<1>7. SplitChunks(qs, ss, nd) \in Seq(CutSpecs(qs, ss, nd)) BY <1>3, SplitChunksTyped
<1>8. conf.b12x => SplitChunks(qs, ss, nd) \in Seq(GoodSpecs(b))
  <2> SUFFICES ASSUME conf.b12x PROVE SplitChunks(qs, ss, nd) \in Seq(GoodSpecs(b)) OBVIOUS
  <2>1. CutSpecs(qs, ss, nd) \subseteq GoodSpecs(b) BY <1>6
  <2> QED BY <1>7, <2>1, SeqGrows
<1> QED BY <1>8 DEF qs, ss

(* The list of all requests' chunks, as the loop over the requests builds it*)
EachOf(qs, nd) ==
  CHOOSE each : each =
    [k \in 0 .. Len(qs) |->
       IF k = 0 THEN << >> ELSE each[k - 1] \o SplitChunks(<<qs[k]>>, <<Supertile>>, nd + k - 1)]

(* In b12x the specifications are the whole of that list.                   *)
LEMMA EachChunkSpecs ==
  ASSUME NEW b, NEW nd, conf.b12x
  PROVE  ChunkSpecs(b, nd) = EachOf(SubSeq(QueryLens(b), nd + 1, Len(b)), nd)
                               [Len(SubSeq(QueryLens(b), nd + 1, Len(b)))]
  BY DEF ChunkSpecs, EachOf

(* Every chunk specification the builder makes is a good one.               *)
LEMMA ChunkSpecsTyped ==
  ASSUME NEW b \in Batches, conf \in Configs, NEW nd \in Nat
  PROVE  ChunkSpecs(b, nd) \in Seq(GoodSpecs(b))
<1> DEFINE qs == SubSeq(QueryLens(b), nd + 1, Len(b))
           ss == SubSeq(CompressedUb(b), nd + 1, Len(b))
           T == GoodSpecs(b)
<1>1. CASE ~conf.b12x
  <2>1. Loads(qs, ss, nd) /\ CutSpecs(qs, ss, nd) \subseteq T BY <1>1, ContextSpecsTyped
  <2>2. SplitChunks(qs, ss, nd) \in Seq(CutSpecs(qs, ss, nd)) BY <2>1, SplitChunksTyped
  <2>3. ChunkSpecs(b, nd) = SplitChunks(qs, ss, nd) BY <1>1 DEF ChunkSpecs
  <2> HIDE DEF qs, ss, T
  <2>4. SplitChunks(qs, ss, nd) \in Seq(T) BY <2>1, <2>2, SeqGrows
  <2> QED BY <2>3, <2>4 DEF T
<1>2. CASE conf.b12x
  <2> DEFINE F == QueryLens(b)
             L == Len(b)
             N == Len(qs)
  <2>1. L \in Nat /\ F \in Seq(Nat \ {0}) /\ Len(F) = L
    <3>1. L \in Nat BY BatchSums
    <3> QED BY <3>1, BatchLoads
  <2>2. /\ N = (IF nd < L THEN L - nd ELSE 0)
        /\ \A i \in 1 .. N : qs[i] = F[nd + i]
    <3> HIDE DEF F
    <3>1. /\ Len(SubSeq(F, nd + 1, Len(F))) = IF nd < Len(F) THEN Len(F) - nd ELSE 0
          /\ \A i \in 1 .. Len(SubSeq(F, nd + 1, Len(F))) :
               SubSeq(F, nd + 1, Len(F))[i] = F[nd + i]
      BY <2>1, Suffix
    <3> QED BY <2>1, <3>1 DEF F
  <2>3. \A i \in 1 .. L : F[i] \in Nat \ {0} BY <2>1
  <2> DEFINE Of(k) == SplitChunks(<<qs[k]>>, <<Supertile>>, nd + k - 1)
  <2> HIDE DEF F, L, N, qs, T
  <2>4. N \in Nat BY <2>1, <2>2
  <2>5. ASSUME NEW k \in 1 .. N PROVE Of(k) \in Seq(T)
    <3> DEFINE d == nd + k - 1
               r == nd + k
    <3>1. d \in Nat /\ r \in 1 .. L /\ r = d + 1 BY <2>1, <2>2
    <3>2. qs[k] = F[r] /\ qs[k] \in Nat \ {0} BY <2>2, <2>3, <3>1
    <3> HIDE DEF d, r
    <3>3. SplitChunks(<<qs[k]>>, <<Supertile>>, d) \in Seq(T)
      BY <1>2, <3>1, <3>2, RequestSpecsTyped DEF F, L, T
    <3> QED BY <3>3 DEF d
  <2> HIDE DEF Of
  <2> DEFINE step == [k \in 1 .. N |-> [x \in Seq(T) |-> x \o Of(k)]]
             Body(t) == [k \in 0 .. N |-> IF k = 0 THEN << >> ELSE t[k - 1] \o Of(k)]
  <2>6. step \in [1 .. N -> [Seq(T) -> Seq(T)]]
    <3>1. \A k \in 1 .. N : \A x \in Seq(T) : x \o Of(k) \in Seq(T) BY <2>5, ConcatProperties
    <3> QED BY <3>1
  <2>7. << >> \in Seq(T) BY EmptySeq
  <2>8. PICK g \in [0 .. N -> Seq(T)] : Unfolds(N, << >>, step, g)
    <3> HIDE DEF step
    <3> QED BY <2>4, <2>6, <2>7, IterateUnfolds
  <2>9. g = Body(g)
    <3>1. \A k \in 0 .. N : k # 0 => k \in 1 .. N /\ g[k - 1] \in Seq(T) BY <2>4
    <3>2. \A k \in 1 .. N : \A x \in Seq(T) : step[k][x] = x \o Of(k) OBVIOUS
    <3> HIDE DEF step
    <3>3. \A k \in 0 .. N : g[k] = Body(g)[k] BY <2>8, <3>1, <3>2 DEF Unfolds
    <3>4. DOMAIN g = 0 .. N /\ DOMAIN Body(g) = 0 .. N /\ g = [k \in 0 .. N |-> g[k]] OBVIOUS
    <3> QED BY <3>3, <3>4
  <2> DEFINE e == EachOf(qs, nd)
  <2>10. e = CHOOSE t : t = Body(t) BY DEF EachOf, N, Of
  <2> HIDE DEF e, Body
  <2>11. e = Body(e)
    <3>1. \E t : t = Body(t) BY <2>9
    <3> QED BY <2>10, <3>1, Zenon
  <2>12. e[0] \in Seq(T)
    <3>1. 0 \in 0 .. N BY <2>4
    <3>2. e[0] = << >> BY <2>11, <3>1 DEF Body
    <3> QED BY <2>7, <3>2
  <2>13. \A k \in 1 .. N : e[k - 1] \in Seq(T) => e[k] = step[k][e[k - 1]]
    <3> SUFFICES ASSUME NEW k \in 1 .. N, e[k - 1] \in Seq(T) PROVE e[k] = step[k][e[k - 1]]
      OBVIOUS
    <3>1. k \in 0 .. N /\ k # 0 BY <2>4
    <3>2. e[k] = e[k - 1] \o Of(k) BY <2>11, <3>1 DEF Body
    <3>3. \A x \in Seq(T) : step[k][x] = x \o Of(k) OBVIOUS
    <3> HIDE DEF step
    <3> QED BY <3>2, <3>3
  <2> HIDE DEF step
  <2>14. N \in 0 .. N BY <2>4
  <2>15. e[N] \in Seq(T)
    <3>1. \A i \in 0 .. N : e[i] \in Seq(T) BY <2>4, <2>6, <2>12, <2>13, IteratesTyped
    <3> QED BY <2>14, <3>1
  <2> QED BY <1>2, <2>15, EachChunkSpecs DEF e, qs, N, T
<1>3. conf.b12x \in BOOLEAN BY ConfTyped
<1> QED BY <1>1, <1>2, <1>3

(* A chunk of the batch: some of its query rows, within the logits and the  *)
(* workspace, each with an extent of K rows within what is gathered.        *)
FittingChunk(b, c) ==
  /\ c.first \in 1 .. Len(b) /\ c.last \in c.first .. Len(b)
  /\ c.start \in Nat /\ c.rows \in Nat \ {0} /\ c.start + c.rows <= Rows(b)
  /\ c.rows <= MaxTokens /\ c.total \in Nat
  /\ DOMAIN c.ks = 0 .. c.rows - 1 /\ DOMAIN c.ke = 0 .. c.rows - 1
  /\ \A i \in 0 .. c.rows - 1 : c.ks[i] \in Nat /\ c.ke[i] \in Nat /\ c.ke[i] <= c.total
  /\ conf.b12x => WithinLogits([from |-> 0, to |-> c.rows], Supertile)
  /\ ~conf.b12x =>
       c.total <= Workspace /\ WithinLogits([from |-> 0, to |-> c.rows], c.total)

(* The extent of a query row, which the exact lengths give, ends within the *)
(* K rows of its own request, and those within what the bounds promise.     *)
LEMMA RowExtentTyped ==
  ASSUME NEW b \in Batches, conf \in Configs, NEW c, NEW g \in Nat,
         c.first \in 1 .. Len(b), c.last \in c.first .. Len(b),
         SumTo(QueryLens(b), c.first - 1) <= g, g < SumTo(QueryLens(b), c.last)
  PROVE  /\ RowExtent(b, c, g).ks \in Nat /\ RowExtent(b, c, g).ke \in Nat
         /\ RowExtent(b, c, g).ke <= SumFromTo(CompressedUb(b), c.first, c.last)
<1> DEFINE L == Len(b)
           F == QueryLens(b)
           C == CompressedLens(b)
           U == CompressedUb(b)
           a == c.first
           z == c.last
           Owns(o) == StartLoc(b, o) <= g /\ g < StartLoc(b, o) + b[o].q
           r == CHOOSE o \in a .. z : Owns(o)
<1>1. L \in Nat /\ NatTo(F, L) /\ NatTo(U, L) /\ NatTo(C, L) BY BatchSums
<1>2. /\ \A o \in 1 .. L : F[o] = b[o].q /\ C[o] = b[o].s \div conf.ratio /\ C[o] <= U[o]
      /\ \A o \in 1 .. L : b[o] \in Requests
  BY BatchLoads, BatchTyped
<1>3. a \in 1 .. L /\ z \in a .. L /\ SumTo(F, a - 1) <= g /\ g < SumTo(F, z) OBVIOUS
<1>4. conf.ratio \in Nat \ {0} BY ConfTyped
<1>5. /\ RowExtent(b, c, g).ks = SumFromTo(C, a, r - 1)
      /\ RowExtent(b, c, g).ke =
           SumFromTo(C, a, r - 1)
             + (b[r].s - b[r].q + 1 + g - StartLoc(b, r)) \div conf.ratio
  BY DEF RowExtent
<1> HIDE DEF L, C, U, a, z
<1>6. r \in a .. z /\ Owns(r)
  <2>1. \E o \in a .. z : Owns(o)
    <3>1. a - 1 \in 0 .. L /\ z \in a - 1 .. L /\ (a - 1) + 1 = a BY <1>1, <1>3
    <3> DEFINE y == a - 1
    <3>2. y \in 0 .. L /\ z \in y .. L /\ y + 1 = a /\ SumTo(F, y) <= g BY <1>3, <3>1
    <3> HIDE DEF y, F
    <3>3. PICK o \in y + 1 .. z : SumTo(F, o - 1) <= g /\ g < SumTo(F, o - 1) + F[o]
      BY <1>1, <1>3, <3>2, SumToOwner
    <3>4. o \in a .. z /\ o \in 1 .. L BY <1>1, <1>3, <3>2, <3>3
    <3>5. Owns(o) BY <1>2, <3>3, <3>4 DEF StartLoc, F
    <3> QED BY <3>4, <3>5
  <2> HIDE DEF Owns
  <2> QED BY <2>1, Zenon
<1> DEFINE u == StartLoc(b, r)
<1>7. u <= g /\ g < u + b[r].q BY <1>6
<1> HIDE DEF r
<1>8. r \in 1 .. L /\ r - 1 \in 0 .. L /\ r \in 0 .. L /\ a - 1 \in 0 .. L /\ z \in 0 .. L
  BY <1>1, <1>3, <1>6
<1>9. u \in Nat
  <2>1. u = SumTo(F, r - 1) BY DEF StartLoc
  <2> QED BY <1>1, <1>8, <2>1, SumToStep
<1> HIDE DEF F, u
<1> DEFINE s == b[r].s
           q == b[r].q
           d == conf.ratio
           x == s - q + 1 + g - u
<1>10. s \in Nat /\ q \in Nat \ {0} /\ q <= s BY <1>2, <1>8, RequestTyped
<1>11. d \in Nat \ {0} BY <1>4
<1> HIDE DEF s, q, d
<1>12. x \in Nat /\ x <= s
  <2>1. u <= g /\ g < u + q BY <1>7 DEF q
  <2> QED BY <1>9, <1>10, <2>1
<1> HIDE DEF x
<1>13. x \div d \in Nat /\ x \div d <= s \div d /\ s \div d \in Nat
  BY <1>10, <1>11, <1>12, DivBounds, DivGrows
<1>14. C[r] = s \div d BY <1>2, <1>8 DEF s, d
<1> DEFINE c0 == SumTo(C, a - 1)
           c1 == SumTo(C, r - 1)
           c2 == SumTo(C, z)
<1>15. c0 \in Nat /\ c1 \in Nat /\ c2 \in Nat BY <1>1, <1>8, SumToStep
<1>16. c0 <= c1
  <2>1. r - 1 \in a - 1 .. L BY <1>1, <1>3, <1>6
  <2> QED BY <1>1, <1>8, <2>1, SumToGrows
<1>17. c1 + C[r] <= c2
  <2>1. SumTo(C, r) = c1 + C[r] BY <1>1, <1>8, SumToStep
  <2>2. z \in r .. L BY <1>3, <1>6, <1>8
  <2>3. SumTo(C, r) <= SumTo(C, z) BY <1>1, <1>8, <2>2, SumToGrows
  <2> QED BY <2>1, <2>3
<1>18. c2 - c0 <= SumFromTo(U, a, z)
  <2>1. z \in a - 1 .. L BY <1>1, <1>3
  <2>2. \A o \in 1 .. L : C[o] <= U[o] BY <1>2
  <2>3. SumTo(C, z) - SumTo(C, a - 1) <= SumTo(U, z) - SumTo(U, a - 1)
    BY <1>1, <1>8, <2>1, <2>2, SumToDominated
  <2> QED BY <2>3 DEF SumFromTo
<1>19. SumFromTo(U, a, z) \in Int
  <2>1. SumTo(U, z) \in Nat /\ SumTo(U, a - 1) \in Nat BY <1>1, <1>8, SumToStep
  <2> QED BY <2>1 DEF SumFromTo
<1>20. SumFromTo(C, a, r - 1) = c1 - c0 BY DEF SumFromTo
<1> DEFINE e == x \div d
           t == SumFromTo(U, a, z)
<1>21. /\ RowExtent(b, c, g).ks = c1 - c0
       /\ RowExtent(b, c, g).ke = (c1 - c0) + e
  BY <1>5, <1>20 DEF x, s, q, d, u
<1>22. e \in Nat /\ e <= C[r] /\ C[r] \in Nat BY <1>13, <1>14
<1>23. c2 - c0 <= t /\ t \in Int BY <1>18, <1>19
<1> HIDE DEF c0, c1, c2, e, t
<1>24. c1 - c0 \in Nat /\ (c1 - c0) + e \in Nat BY <1>15, <1>16, <1>22
<1>25. (c1 - c0) + e <= t BY <1>15, <1>17, <1>22, <1>23
<1> QED BY <1>21, <1>24, <1>25 DEF t, U, a, z

(* Every chunk that is built from a good specification fits.                *)
LEMMA ChunkMetadataFits ==
  ASSUME NEW b \in Batches, conf \in Configs, NEW sp \in GoodSpecs(b)
  PROVE  FittingChunk(b, ChunkMetadata(b, sp))
<1> DEFINE L == Len(b)
           F == QueryLens(b)
           U == CompressedUb(b)
           a == sp.first
           z == sp.last
           c == ChunkMetadata(b, sp)
           start == StartLoc(b, a) + sp.from
           rows == sp.to - sp.from
<1>1. /\ sp.from \in Nat /\ sp.to \in Nat /\ sp.from < sp.to
      /\ a \in 1 .. L /\ z \in a .. L /\ sp.to <= SumFromTo(F, a, z)
      /\ conf.b12x => WithinLogits(sp, Supertile)
      /\ ~conf.b12x => WithinLogits(sp, SumFromTo(U, a, z)) /\ SumFromTo(U, a, z) <= Workspace
  BY DEF GoodSpecs, GoodSpec
<1>2. /\ L \in Nat /\ NatTo(F, L) /\ NatTo(U, L)
      /\ Rows(b) \in Nat /\ Rows(b) <= MaxTokens
      /\ \A n \in 0 .. L : SumTo(F, n) \in Nat /\ SumTo(F, n) <= Rows(b)
  BY BatchSums
<1>3. /\ c.first = a /\ c.last = z /\ c.start = start /\ c.rows = rows
      /\ c.total = SumFromTo(U, a, z)
      /\ c.ks = [i \in 0 .. rows - 1 |-> RowExtent(b, sp, start + i).ks]
      /\ c.ke = [i \in 0 .. rows - 1 |-> RowExtent(b, sp, start + i).ke]
  BY DEF ChunkMetadata
<1> HIDE DEF c, L, U
<1>4. a - 1 \in 0 .. L /\ z \in 0 .. L BY <1>1, <1>2
<1> DEFINE f0 == SumTo(F, a - 1)
           f1 == SumTo(F, z)
<1>5. f0 \in Nat /\ f1 \in Nat /\ f1 <= Rows(b) /\ SumFromTo(F, a, z) = f1 - f0
      /\ start = f0 + sp.from
  BY <1>2, <1>4 DEF SumFromTo, StartLoc
<1> DEFINE x == sp.from
           y == sp.to
<1>6. x \in Nat /\ y \in Nat /\ x < y /\ y <= f1 - f0 /\ start = f0 + x /\ rows = y - x
  BY <1>1, <1>5
<1> HIDE DEF F, f0, f1, start, rows, x, y
<1>7. start \in Nat /\ rows \in Nat \ {0} /\ start + rows <= f1 /\ rows <= f1 /\ f0 <= start
  BY <1>5, <1>6
<1>8. start + rows <= Rows(b) /\ rows <= MaxTokens BY <1>2, <1>5, <1>7, Budgets
<1>9. SumFromTo(U, a, z) \in Nat
  <2>1. z \in a - 1 .. L BY <1>1, <1>2
  <2>2. SumTo(U, z) \in Nat /\ SumTo(U, a - 1) \in Nat BY <1>2, <1>4, SumToStep
  <2>3. SumTo(U, a - 1) <= SumTo(U, z) BY <1>2, <1>4, <2>1, SumToGrows
  <2> QED BY <2>2, <2>3 DEF SumFromTo
<1>10. ASSUME NEW i \in 0 .. rows - 1
       PROVE  /\ c.ks[i] \in Nat /\ c.ke[i] \in Nat /\ c.ke[i] <= SumFromTo(U, a, z)
  <2> DEFINE g == start + i
  <2>1. g \in Nat /\ f0 <= g /\ g < f1 BY <1>5, <1>7
  <2> HIDE DEF g
  <2>2. SumTo(F, a - 1) <= g /\ g < SumTo(F, z) BY <2>1 DEF f0, f1
  <2>3. /\ RowExtent(b, sp, g).ks \in Nat /\ RowExtent(b, sp, g).ke \in Nat
        /\ RowExtent(b, sp, g).ke <= SumFromTo(U, a, z)
    BY <1>1, <2>1, <2>2, RowExtentTyped DEF F, U, L
  <2>4. c.ks[i] = RowExtent(b, sp, g).ks /\ c.ke[i] = RowExtent(b, sp, g).ke
    BY <1>3 DEF g
  <2> QED BY <2>3, <2>4
<1>11. DOMAIN c.ks = 0 .. rows - 1 /\ DOMAIN c.ke = 0 .. rows - 1 BY <1>3
<1>12. ASSUME NEW n \in Nat, WithinLogits(sp, n) PROVE WithinLogits([from |-> 0, to |-> rows], n)
  <2>1. rows - 0 = rows /\ y - x = rows BY <1>6, <1>7
  <2> QED BY <1>12, <2>1 DEF WithinLogits, x, y
<1>13. conf.b12x => WithinLogits([from |-> 0, to |-> rows], Supertile) BY <1>1, <1>12, Budgets
<1>14. ~conf.b12x => /\ SumFromTo(U, a, z) <= Workspace
                     /\ WithinLogits([from |-> 0, to |-> rows], SumFromTo(U, a, z))
  BY <1>1, <1>9, <1>12
<1>15. c.first \in 1 .. Len(b) /\ c.last \in c.first .. Len(b) BY <1>1, <1>3 DEF L
<1> HIDE DEF a, z
<1>16. FittingChunk(b, c)
  <2> DEFINE total == SumFromTo(U, a, z)
  <2>1. c.start = start /\ c.rows = rows /\ c.total = total BY <1>3
  <2>2. total \in Nat BY <1>9
  <2>3. \A i \in 0 .. rows - 1 : c.ks[i] \in Nat /\ c.ke[i] \in Nat /\ c.ke[i] <= total BY <1>10
  <2>4. ~conf.b12x => total <= Workspace /\ WithinLogits([from |-> 0, to |-> rows], total) BY <1>14
  <2> HIDE DEF total
  <2>5. /\ c.start \in Nat /\ c.rows \in Nat \ {0} /\ c.start + c.rows <= Rows(b)
        /\ c.rows <= MaxTokens /\ c.total \in Nat
    BY <1>7, <1>8, <2>1, <2>2
  <2>6. /\ DOMAIN c.ks = 0 .. c.rows - 1 /\ DOMAIN c.ke = 0 .. c.rows - 1
        /\ \A i \in 0 .. c.rows - 1 : c.ks[i] \in Nat /\ c.ke[i] \in Nat /\ c.ke[i] <= c.total
    BY <1>11, <2>1, <2>3
  <2>7. /\ conf.b12x => WithinLogits([from |-> 0, to |-> c.rows], Supertile)
        /\ ~conf.b12x =>
             c.total <= Workspace /\ WithinLogits([from |-> 0, to |-> c.rows], c.total)
    BY <1>13, <2>1, <2>4
  <2> QED BY <1>15, <2>5, <2>6, <2>7 DEF FittingChunk
<1> QED BY <1>16 DEF c

-----------------------------------------------------------------------------
(* The cells a page table and the gathered rows may hold.                   *)
Pages == {Stale} \cup (1 .. MaxReqs) \X (0 .. FullWidth - 1)
Cells == {Stale} \cup Pages \X (0 .. Storage - 1)

IsList(s) == Len(s) \in Nat /\ s = [k \in 1 .. Len(s) |-> s[k]]

(* What the profile run leaves reserved.                                    *)
Reservation ==
  IF conf.b12x THEN [rows |-> ProfileRows, width |-> ProfileWidth]
  ELSE [rows |-> MaxTokens, width |-> Workspace]

ChunksFit ==
  /\ IsList(chunks)
  /\ \A k \in DOMAIN chunks : FittingChunk(batch, chunks[k]) /\ HasKv(chunks[k])

TablesTyped ==
  /\ DOMAIN decode.lens = DOMAIN decode.table
  /\ \A g \in DOMAIN decode.table : \A j \in DOMAIN decode.table[g] : decode.table[g][j] \in Pages

MetaInv ==
  /\ conf \in Configs /\ phase \in {"boot", "idle", "layer", "done"} /\ graph \in BOOLEAN
  /\ phase = "boot" => chunks = << >>
  /\ phase # "boot" => reserved = Reservation
  /\ batch # << >> => batch \in Batches
  /\ phase = "layer" => batch \in Batches /\ DOMAIN workspace = 0 .. Workspace - 1
  /\ phase # "layer" => chunks = << >>
  /\ ChunksFit
  /\ TablesTyped
  /\ \A x \in DOMAIN workspace : workspace[x] \in Cells
  /\ \A g \in DOMAIN topk : topk[g] \subseteq Cells

(* The chunks of a batch, as the loop over the specifications keeps them.   *)
BuiltOf(b, specs) ==
  CHOOSE built : built =
    [k \in 0 .. Len(specs) |->
       IF k = 0 THEN << >>
       ELSE LET c == ChunkMetadata(b, specs[k])
            IN  IF HasKv(c) THEN Append(built[k - 1], c) ELSE built[k - 1]]

(* The metadata is the whole of that list.                                  *)
LEMMA PrefillMetadataIs ==
  ASSUME NEW b, NEW nd
  PROVE  PrefillMetadata(b, nd) = BuiltOf(b, ChunkSpecs(b, nd))[Len(ChunkSpecs(b, nd))]
  BY DEF PrefillMetadata, BuiltOf

(* The chunks the layer is given are a list of fitting chunks with K rows.  *)
LEMMA PrefillMetadataTyped ==
  ASSUME NEW b \in Batches, conf \in Configs, NEW nd \in Nat
  PROVE  /\ IsList(PrefillMetadata(b, nd))
         /\ \A k \in DOMAIN PrefillMetadata(b, nd) :
              /\ FittingChunk(b, PrefillMetadata(b, nd)[k])
              /\ HasKv(PrefillMetadata(b, nd)[k])
<1> DEFINE specs == ChunkSpecs(b, nd)
           N == Len(specs)
           M(k) == ChunkMetadata(b, specs[k])
           T == { c \in { M(k) : k \in 1 .. N } : HasKv(c) }
<1>1. specs \in Seq(GoodSpecs(b)) BY ChunkSpecsTyped
<1> HIDE DEF specs
<1>2. N \in Nat /\ \A k \in 1 .. N : FittingChunk(b, M(k))
  <2>1. N \in Nat /\ \A k \in 1 .. N : specs[k] \in GoodSpecs(b) BY <1>1
  <2> QED BY <2>1, ChunkMetadataFits
<1> HIDE DEF N, M
<1>3. \A c \in T : FittingChunk(b, c) /\ HasKv(c) BY <1>2
<1> DEFINE Keep(x, k) == IF HasKv(M(k)) THEN Append(x, M(k)) ELSE x
           step == [k \in 1 .. N |-> [x \in Seq(T) |-> Keep(x, k)]]
           Body(t) == [k \in 0 .. N |-> IF k = 0 THEN << >> ELSE Keep(t[k - 1], k)]
<1>4. \A k \in 1 .. N : \A x \in Seq(T) : Keep(x, k) \in Seq(T)
  <2> SUFFICES ASSUME NEW k \in 1 .. N, NEW x \in Seq(T) PROVE Keep(x, k) \in Seq(T) OBVIOUS
  <2>1. CASE HasKv(M(k))
    <3>1. M(k) \in T BY <2>1
    <3> HIDE DEF T
    <3>2. Append(x, M(k)) \in Seq(T) BY <3>1, AppendProperties
    <3> QED BY <2>1, <3>2
  <2>2. CASE ~HasKv(M(k)) BY <2>2
  <2> QED BY <2>1, <2>2
<1> HIDE DEF Keep, T
<1>5. step \in [1 .. N -> [Seq(T) -> Seq(T)]] BY <1>4
<1>6. \A k \in 1 .. N : \A x \in Seq(T) : step[k][x] = Keep(x, k) OBVIOUS
<1>7. << >> \in Seq(T) BY EmptySeq
<1> HIDE DEF step
<1>8. PICK g \in [0 .. N -> Seq(T)] : Unfolds(N, << >>, step, g)
  BY <1>2, <1>5, <1>7, IterateUnfolds
<1>9. g = Body(g)
  <2>1. \A k \in 0 .. N : k # 0 => k \in 1 .. N /\ g[k - 1] \in Seq(T) BY <1>2
  <2>2. \A k \in 0 .. N : g[k] = Body(g)[k] BY <1>6, <1>8, <2>1 DEF Unfolds
  <2>3. DOMAIN g = 0 .. N /\ DOMAIN Body(g) = 0 .. N /\ g = [k \in 0 .. N |-> g[k]] OBVIOUS
  <2> QED BY <2>2, <2>3
<1> DEFINE e == BuiltOf(b, specs)
<1>10. e = CHOOSE t : t = Body(t) BY DEF BuiltOf, N, M, Keep
<1> HIDE DEF e, Body
<1>11. e = Body(e)
  <2>1. \E t : t = Body(t) BY <1>9
  <2> QED BY <1>10, <2>1, Zenon
<1>12. e[0] \in Seq(T)
  <2>1. 0 \in 0 .. N BY <1>2
  <2>2. e[0] = << >> BY <1>11, <2>1 DEF Body
  <2> QED BY <1>7, <2>2
<1>13. \A k \in 1 .. N : e[k - 1] \in Seq(T) => e[k] = step[k][e[k - 1]]
  <2> SUFFICES ASSUME NEW k \in 1 .. N, e[k - 1] \in Seq(T) PROVE e[k] = step[k][e[k - 1]]
    OBVIOUS
  <2>1. k \in 0 .. N /\ k # 0 BY <1>2
  <2>2. e[k] = Keep(e[k - 1], k) BY <1>11, <2>1 DEF Body
  <2> QED BY <1>6, <2>2
<1>14. N \in 0 .. N BY <1>2
<1>15. e[N] \in Seq(T)
  <2>1. \A i \in 0 .. N : e[i] \in Seq(T) BY <1>2, <1>5, <1>12, <1>13, IteratesTyped
  <2> QED BY <1>14, <2>1
<1>16. PrefillMetadata(b, nd) = e[N] BY PrefillMetadataIs DEF e, N, specs
<1> DEFINE p == PrefillMetadata(b, nd)
<1>17. p \in Seq(T) BY <1>15, <1>16
<1> HIDE DEF p
<1>18. Len(p) \in Nat /\ p = [k \in 1 .. Len(p) |-> p[k]] /\ DOMAIN p = 1 .. Len(p)
  BY <1>17
<1>19. \A k \in 1 .. Len(p) : p[k] \in T BY <1>17
<1>20. IsList(p) /\ \A k \in DOMAIN p : FittingChunk(b, p[k]) /\ HasKv(p[k])
  BY <1>3, <1>18, <1>19 DEF IsList
<1> QED BY <1>20 DEF p

-----------------------------------------------------------------------------
(* The number of decodes is at most that of the requests.                   *)
LEMMA LeadingTyped ==
  ASSUME NEW b, Len(b) \in Nat, DOMAIN b = 1 .. Len(b), NEW lens
  PROVE  Leading(b, lens) \in 0 .. Len(b)
<1> DEFINE prefills == { r \in DOMAIN b : b[r].q \notin lens }
<1>1. prefills \in SUBSET (1 .. Len(b)) /\ prefills \in SUBSET Nat OBVIOUS
<1>2. Leading(b, lens) = IF prefills = {} THEN Len(b) ELSE Min(prefills) - 1 BY DEF Leading
<1> HIDE DEF prefills
<1>3. CASE prefills = {} BY <1>2, <1>3
<1>4. CASE prefills # {}
  <2>1. Min(prefills) \in prefills BY <1>1, <1>4, MinIsMember
  <2>2. Min(prefills) \in 1 .. Len(b) BY <1>1, <2>1
  <2> DEFINE k == Min(prefills)
  <2> HIDE DEF k
  <2>3. k \in 1 .. Len(b) /\ Leading(b, lens) = k - 1 BY <1>2, <1>4, <2>2 DEF k
  <2> QED BY <2>3
<1> QED BY <1>3, <1>4

(* The split of the batch is somewhere in it.                               *)
LEMMA NumDecodesTyped ==
  ASSUME NEW b, Len(b) \in Nat, DOMAIN b = 1 .. Len(b)
  PROVE  NumDecodes(b) \in 0 .. Len(b)
<1>1. Leading(b, 0 .. conf.nextN) \in 0 .. Len(b) /\ Leading(b, {b[1].q}) \in 0 .. Len(b)
  BY LeadingTyped
<1>2. 0 \in 0 .. Len(b) /\ Len(b) \in 0 .. Len(b) OBVIOUS
<1> QED BY <1>1, <1>2 DEF NumDecodes

(* A padded batch: the batch, and requests of no tokens.                    *)
LEMMA PaddedTyped ==
  ASSUME NEW b \in Batches, NEW n \in Len(b) .. MaxReqs
  PROVE  /\ Len(Padded(b, n)) = n /\ DOMAIN Padded(b, n) = 1 .. n /\ n \in Nat
         /\ Padded(b, n) = [r \in 1 .. n |-> Padded(b, n)[r]]
         /\ \A r \in 1 .. n : Padded(b, n)[r].q \in 0 .. MaxTokens
<1>1. Len(b) \in Nat /\ \A r \in 1 .. Len(b) : b[r] \in Requests BY BatchTyped, Budgets
<1>2. n \in Nat BY <1>1, Budgets
<1>3. Padded(b, n) = [r \in 1 .. n |->
                        IF r <= Len(b) THEN b[r] ELSE [q |-> 0, s |-> 0, ub |-> 0]]
  BY DEF Padded
<1> DEFINE p == Padded(b, n)
<1> HIDE DEF p
<1>4. p = [r \in 1 .. n |-> IF r <= Len(b) THEN b[r] ELSE [q |-> 0, s |-> 0, ub |-> 0]]
  BY <1>3 DEF p
<1>5. DOMAIN p = 1 .. n /\ p = [r \in 1 .. n |-> p[r]] BY <1>4
<1>6. Len(p) = n BY <1>2, <1>5
<1>7. ASSUME NEW r \in 1 .. n PROVE p[r].q \in 0 .. MaxTokens
  <2>1. CASE r <= Len(b)
    <3>1. r \in 1 .. Len(b) BY <1>1, <1>2, <2>1
    <3>2. p[r] = b[r] BY <1>4, <2>1
    <3> QED BY <1>1, <3>1, <3>2 DEF Requests
  <2>2. CASE ~(r <= Len(b))
    <3>1. p[r] = [q |-> 0, s |-> 0, ub |-> 0] BY <1>4, <2>2
    <3> QED BY <3>1, Budgets
  <2> QED BY <2>1, <2>2
<1> QED BY <1>2, <1>5, <1>6, <1>7 DEF p

(* The decode part of a padded batch.                                       *)
Decodes(d) ==
  /\ Len(d) \in 0 .. MaxReqs /\ d = [r \in 1 .. Len(d) |-> d[r]]
  /\ \A r \in 1 .. Len(d) : d[r].q \in 0 .. MaxTokens

(* The first requests of a padded batch are such a part.                    *)
LEMMA DecodesTyped ==
  ASSUME NEW b \in Batches, NEW n \in Len(b) .. MaxReqs, NEW nd \in 0 .. n
  PROVE  Decodes(SubSeq(Padded(b, n), 1, nd)) /\ Len(SubSeq(Padded(b, n), 1, nd)) = nd
<1> DEFINE p == Padded(b, n)
           S == { p[r] : r \in 1 .. n }
           d == SubSeq(p, 1, nd)
<1>1. n \in Nat /\ DOMAIN p = 1 .. n /\ \A r \in 1 .. n : p[r].q \in 0 .. MaxTokens BY PaddedTyped
<1> HIDE DEF p
<1>2. \A r \in 1 .. nd : p[r] \in S BY <1>1
<1>3. 1 \in Int /\ nd \in Int /\ nd <= n /\ 0 <= nd BY <1>1
<1> HIDE DEF S
<1>4. /\ d \in Seq(S) /\ Len(d) = IF 1 <= nd THEN nd - 1 + 1 ELSE 0
      /\ \A i \in 1 .. nd - 1 + 1 : d[i] = p[1 + i - 1]
  BY <1>2, <1>3, SubSeqProperties
<1> HIDE DEF d
<1>5. Len(d) = nd BY <1>3, <1>4
<1>6. d = [r \in 1 .. Len(d) |-> d[r]] BY <1>4
<1>7. \A i \in 1 .. nd : d[i] = p[i]
  <2>1. nd - 1 + 1 = nd /\ \A i \in 1 .. nd : 1 + i - 1 = i BY <1>3
  <2> QED BY <1>4, <2>1
<1>8. \A r \in 1 .. nd : d[r].q \in 0 .. MaxTokens
  <2>1. \A r \in 1 .. nd : r \in 1 .. n BY <1>1, <1>3
  <2> QED BY <1>1, <1>7, <2>1
<1>9. nd \in 0 .. MaxReqs BY <1>1, <1>3, Budgets
<1> QED BY <1>5, <1>6, <1>8, <1>9 DEF Decodes, d, p

(* A page holds a whole number of K rows, and a table has a page.           *)
LEMMA StorageTyped ==
  ASSUME conf \in Configs
  PROVE  /\ Storage \in Nat \ {0} /\ BlockSize = Storage * conf.ratio
         /\ FullWidth \in Nat
<1> DEFINE d == conf.ratio
           e == BlockSize \div d
<1>1. d \in Nat \ {0} /\ BlockSize % d = 0 BY ConfTyped
<1> HIDE DEF d
<1>2. BlockSize = d * (BlockSize \div d) + (BlockSize % d) /\ BlockSize \div d \in Nat
  BY <1>1, Budgets
<1> HIDE DEF e
<1>3. e \in Nat /\ BlockSize = d * e BY <1>1, <1>2, Budgets DEF e
<1>4. e # 0 /\ d * e = e * d BY <1>1, <1>3, Budgets
<1>5. FullWidth \in Nat
  <2>1. MaxModelLen + BlockSize - 1 \in Nat BY Budgets
  <2> QED BY <2>1, Budgets, DivBounds DEF FullWidth, Cdiv
<1> QED BY <1>3, <1>4, <1>5 DEF Storage, e, d

(* A place below a multiple lies in an earlier part.                        *)
LEMMA DivBelow ==
  ASSUME NEW a \in Nat, NEW b \in Nat \ {0}, NEW k \in Nat, a < k * b
  PROVE  a \div b < k
<1> DEFINE d == a \div b
<1>1. d \in Nat /\ d * b <= a BY DivBounds
<1> HIDE DEF d
<1> SUFFICES ASSUME k <= d PROVE FALSE BY <1>1 DEF d
<1>2. d - k \in Nat /\ d = k + (d - k) BY <1>1
<1>3. d * b = k * b + (d - k) * b /\ (d - k) * b \in Nat /\ k * b \in Nat BY <1>1, <1>2
<1> QED BY <1>1, <1>3

(* The page of a K row that a request owns is in the request's table.       *)
LEMMA PageInTable ==
  ASSUME conf \in Configs, NEW s \in Nat, s <= MaxModelLen, NEW i \in Nat, i < s \div conf.ratio
  PROVE  i \div Storage \in 0 .. FullWidth - 1 /\ i % Storage \in 0 .. Storage - 1
<1> DEFINE d == conf.ratio
           t == Storage
           p == i \div t
           e == s \div d
<1>1. d \in Nat \ {0} /\ t \in Nat \ {0} /\ BlockSize = t * d BY ConfTyped, StorageTyped
<1> HIDE DEF d, t
<1>2. p \in Nat /\ p * t <= i BY <1>1, DivBounds
<1>3. e \in Nat /\ e * d <= s BY <1>1, DivBounds
<1>4. i < e BY DEF d
<1>5. i % t \in 0 .. t - 1 BY <1>1
<1> HIDE DEF p, e
<1>6. (p + 1) * BlockSize <= MaxModelLen + BlockSize - 1
  <2>1. i + 1 <= e BY <1>3, <1>4
  <2>2. PICK k \in Nat : e = (i + 1) + k
    <3>1. e - (i + 1) \in Nat /\ e = (i + 1) + (e - (i + 1)) BY <1>3, <2>1
    <3> QED BY <3>1
  <2>3. e * d = i * d + d + k * d /\ k * d \in Nat /\ i * d \in Nat BY <1>1, <1>3, <2>2
  <2>4. i * d + d <= MaxModelLen BY <1>1, <1>3, <2>3, Budgets
  <2>5. PICK m \in Nat : i = p * t + m
    <3>1. p * t \in Nat BY <1>1, <1>2
    <3>2. i - p * t \in Nat /\ i = p * t + (i - p * t) BY <1>2, <3>1
    <3> QED BY <3>2
  <2>6. p * t \in Nat /\ i * d = (p * t) * d + m * d /\ m * d \in Nat /\ (p * t) * d \in Nat
    BY <1>1, <1>2, <2>5
  <2>7. (p * t) * d = p * (t * d) BY <1>1, <1>2
  <2>8. p * BlockSize = (p * t) * d BY <1>1, <2>7
  <2>9. (p + 1) * BlockSize = p * BlockSize + BlockSize BY <1>2, Budgets
  <2> DEFINE x == (p * t) * d
             y == i * d
             z == m * d
  <2>10. x \in Nat /\ y = x + z /\ z \in Nat /\ y + d <= MaxModelLen
         /\ (p + 1) * BlockSize = x + BlockSize
    BY <2>4, <2>6, <2>8, <2>9
  <2> HIDE DEF x, y, z
  <2>11. x + BlockSize <= MaxModelLen + BlockSize - 1 BY <1>1, <2>10, Budgets
  <2> QED BY <2>10, <2>11
<1>7. p + 1 <= FullWidth
  <2>1. MaxModelLen + BlockSize - 1 \in Nat /\ p + 1 \in Nat BY <1>2, Budgets
  <2> QED BY <1>6, <2>1, Budgets, DivAtLeast DEF FullWidth, Cdiv
<1>8. FullWidth \in Nat BY StorageTyped
<1>9. p \in 0 .. FullWidth - 1 BY <1>2, <1>7, <1>8
<1> QED BY <1>5, <1>9 DEF p, t

-----------------------------------------------------------------------------
(* A full-width row of pages.                                               *)
RowOfPages(t) == DOMAIN t = 0 .. FullWidth - 1 /\ \A j \in 0 .. FullWidth - 1 : t[j] \in Pages

(* A request's own page table is a full row of pages.                       *)
LEMMA BlockTableTyped ==
  ASSUME NEW r \in 1 .. MaxReqs
  PROVE  RowOfPages(BlockTable(r))
  BY DEF RowOfPages, BlockTable, Pages

(* A trimmed row is a full row: what was not copied is stale.               *)
LEMMA TrimmedRowTyped ==
  ASSUME NEW d, NEW r \in 1 .. MaxReqs
  PROVE  RowOfPages(TrimmedRow(d, r))
<1>1. \A j \in 0 .. FullWidth - 1 : BlockTable(r)[j] \in Pages BY BlockTableTyped DEF RowOfPages
<1>2. Stale \in Pages BY DEF Pages
<1>3. \A j \in 0 .. FullWidth - 1 :
        TrimmedRow(d, r)[j] = IF j < CopyWidth(d) THEN BlockTable(r)[j] ELSE Stale
  BY DEF TrimmedRow
<1>4. DOMAIN TrimmedRow(d, r) = 0 .. FullWidth - 1 BY DEF TrimmedRow
<1> QED BY <1>1, <1>2, <1>3, <1>4 DEF RowOfPages

(* A row that no request owns is a full row of stale cells.                 *)
LEMMA StaleRowTyped == RowOfPages([j \in 0 .. FullWidth - 1 |-> Stale])
  BY DEF RowOfPages, Pages

(* The longest query of some decodes.                                       *)
LEMMA MaxLenTyped ==
  ASSUME NEW d, Decodes(d), Len(d) # 0
  PROVE  MaxLen(d) \in Nat
<1> DEFINE S == { d[r].q : r \in DOMAIN d }
<1>1. Len(d) \in Nat \ {0} /\ DOMAIN d = 1 .. Len(d) /\ \A r \in 1 .. Len(d) : d[r].q \in 0 .. MaxTokens
  BY Budgets DEF Decodes
<1>2. S \in SUBSET (0 .. MaxTokens) /\ S # {}
  <2>1. 1 \in DOMAIN d BY <1>1
  <2> QED BY <1>1, <2>1
<1> HIDE DEF S
<1>3. Max(S) \in S BY <1>2, Budgets, MaxIsMember
<1>4. \A x \in S : x \in Nat BY <1>2, Budgets
<1>5. Max(S) \in Nat BY <1>3, <1>4
<1> QED BY <1>5 DEF MaxLen, S

(* Row g of equally many rows a request belongs to one of the requests.     *)
LEMMA RequestOfRow ==
  ASSUME NEW d, Decodes(d), Len(d) # 0, NEW g \in 0 .. Len(d) * MaxLen(d) - 1
  PROVE  g \div MaxLen(d) + 1 \in 1 .. MaxReqs
<1> DEFINE L == Len(d)
           m == MaxLen(d)
<1>1. L \in Nat /\ m \in Nat /\ L <= MaxReqs BY MaxLenTyped, Budgets DEF Decodes
<1>2. g \in 0 .. L * m - 1 OBVIOUS
<1> HIDE DEF L, m
<1>3. L * m \in Nat BY <1>1
<1>4. g \in Nat /\ g < L * m BY <1>2, <1>3
<1>5. m # 0
  <2> SUFFICES ASSUME m = 0 PROVE FALSE OBVIOUS
  <2>1. L * m = 0 BY <1>1
  <2> QED BY <1>4, <2>1
<1>6. g \div m \in Nat /\ g \div m < L BY <1>1, <1>4, <1>5, DivBounds, DivBelow
<1> DEFINE q == g \div m
<1> HIDE DEF q
<1>7. q \in Nat /\ q < L BY <1>6 DEF q
<1>8. q + 1 \in 1 .. MaxReqs BY <1>1, <1>7, Budgets
<1> QED BY <1>8 DEF q, m

(* Row g of the query tokens belongs to one of the requests.                *)
LEMMA OwnerTyped ==
  ASSUME NEW d, Decodes(d), NEW g \in Nat, g < Rows(d)
  PROVE  Owner(d, g) \in 1 .. MaxReqs
<1> DEFINE L == Len(d)
           F == QueryLens(d)
           Owns(r) == StartLoc(d, r) <= g /\ g < StartLoc(d, r) + d[r].q
<1>1. L \in Nat /\ L <= MaxReqs /\ DOMAIN d = 1 .. L /\ \A r \in 1 .. L : d[r].q \in 0 .. MaxTokens
  BY Budgets DEF Decodes
<1>2. F = [r \in 1 .. L |-> d[r].q] BY <1>1 DEF QueryLens
<1>3. NatTo(F, L)
  <2>1. \A r \in 1 .. L : F[r] = d[r].q /\ d[r].q \in Nat BY <1>1, <1>2, Budgets
  <2> QED BY <2>1 DEF NatTo
<1>4. SumTo(F, 0) <= g /\ g < SumTo(F, L)
  <2>1. SumTo(F, 0) = 0 BY <1>1, <1>3, SumToStep
  <2>2. 0 <= g OBVIOUS
  <2> QED BY <2>1, <2>2 DEF Rows
<1>5. \A r \in 1 .. L : F[r] = d[r].q BY <1>2
<1>6. \A r \in 1 .. L : StartLoc(d, r) = SumTo(F, r - 1) BY DEF StartLoc
<1> HIDE DEF L, F
<1>7. PICK r \in 0 + 1 .. L : SumTo(F, r - 1) <= g /\ g < SumTo(F, r - 1) + F[r]
  <2>1. 0 \in 0 .. L /\ L \in 0 .. L BY <1>1
  <2> QED BY <1>1, <1>3, <1>4, <2>1, SumToOwner
<1>8. r \in 1 .. L /\ Owns(r) BY <1>5, <1>6, <1>7
<1>9. Owner(d, g) = CHOOSE o \in DOMAIN d : Owns(o) BY DEF Owner
<1> HIDE DEF Owns
<1>10. Owner(d, g) \in DOMAIN d BY <1>1, <1>8, <1>9, Zenon
<1> DEFINE o == Owner(d, g)
<1> HIDE DEF o
<1>11. o \in 1 .. L BY <1>1, <1>10 DEF o
<1>12. o \in 1 .. MaxReqs BY <1>1, <1>11, Budgets
<1> QED BY <1>12 DEF o

(* Every decode row, however the requests are expanded, is given a full row *)
(* of pages.                                                                *)
LEMMA ExpandedTyped ==
  ASSUME NEW d, Decodes(d), Len(d) # 0, NEW n
  PROVE  \A g \in DOMAIN Expanded(d, n) : RowOfPages(Expanded(d, n)[g].table)
<1>1. \A g \in DOMAIN NativeRows(d) : RowOfPages(NativeRows(d)[g].table)
  <2> DEFINE D == 0 .. Len(d) * MaxLen(d) - 1
             Of(g) == g \div MaxLen(d) + 1
             len(g) == d[Of(g)].s - MaxLen(d) + 1 + (g % MaxLen(d))
  <2>1. NativeRows(d) = [g \in D |-> [len |-> len(g), table |-> BlockTable(Of(g))]]
    BY DEF NativeRows
  <2>2. \A g \in D : Of(g) \in 1 .. MaxReqs BY RequestOfRow
  <2> HIDE DEF D, Of, len
  <2>3. \A g \in D : NativeRows(d)[g].table = BlockTable(Of(g)) BY <2>1
  <2>4. DOMAIN NativeRows(d) = D BY <2>1
  <2> QED BY <2>2, <2>3, <2>4, BlockTableTyped
<1>2. \A g \in DOMAIN UniformRows(d) : RowOfPages(UniformRows(d)[g].table)
  <2> DEFINE D == 0 .. Len(d) * MaxLen(d) - 1
             Of(g) == g \div MaxLen(d) + 1
             len(g) == d[Of(g)].s - MaxLen(d) + (g % MaxLen(d)) + 1
  <2>1. UniformRows(d) = [g \in D |-> [len |-> len(g), table |-> TrimmedRow(d, Of(g))]]
    BY DEF UniformRows
  <2>2. \A g \in D : Of(g) \in 1 .. MaxReqs BY RequestOfRow
  <2> HIDE DEF D, Of, len
  <2>3. \A g \in D : UniformRows(d)[g].table = TrimmedRow(d, Of(g)) BY <2>1
  <2>4. DOMAIN UniformRows(d) = D BY <2>1
  <2> QED BY <2>2, <2>3, <2>4, TrimmedRowTyped
<1>3. \A g \in DOMAIN VariableRows(d, n) : RowOfPages(VariableRows(d, n)[g].table)
  <2> DEFINE D == 0 .. n - 1
             len(g) == d[Owner(d, g)].s - d[Owner(d, g)].q - StartLoc(d, Owner(d, g)) + g + 1
             stale == [j \in 0 .. FullWidth - 1 |-> Stale]
  <2>1. VariableRows(d, n) =
          [g \in D |-> IF g < Rows(d)
                       THEN [len |-> len(g), table |-> TrimmedRow(d, Owner(d, g))]
                       ELSE [len |-> 0, table |-> stale]]
    BY DEF VariableRows
  <2>2. \A g \in D : g \in Nat OBVIOUS
  <2>3. RowOfPages(stale) BY StaleRowTyped
  <2> HIDE DEF D, len, stale
  <2>4. DOMAIN VariableRows(d, n) = D BY <2>1
  <2>5. ASSUME NEW g \in D PROVE RowOfPages(VariableRows(d, n)[g].table)
    <3>1. CASE g < Rows(d)
      <4>1. VariableRows(d, n)[g].table = TrimmedRow(d, Owner(d, g)) BY <2>1, <3>1
      <4>2. Owner(d, g) \in 1 .. MaxReqs BY <2>2, <3>1, OwnerTyped
      <4> QED BY <4>1, <4>2, TrimmedRowTyped
    <3>2. CASE ~(g < Rows(d))
      <4>1. VariableRows(d, n)[g].table = stale BY <2>1, <3>2
      <4> QED BY <2>3, <4>1
    <3> QED BY <3>1, <3>2
  <2> QED BY <2>4, <2>5
<1>4. Expanded(d, n) = NativeRows(d) \/ Expanded(d, n) = UniformRows(d)
        \/ Expanded(d, n) = VariableRows(d, n)
  BY DEF Expanded
<1> QED BY <1>1, <1>2, <1>3, <1>4

(* The table the layer reads, narrowed or not, captured or not.             *)
LEMMA ReadTableTyped ==
  ASSUME conf \in Configs, NEW d, NEW row, RowOfPages(row)
  PROVE  \A j \in DOMAIN ReadTable(d, row) : ReadTable(d, row)[j] \in Pages
<1>1. FullWidth \in Nat BY StorageTyped
<1>2. CapWidth \in Nat
  <2>1. conf.cap + BlockSize - 1 \in Nat BY ConfTyped, Budgets
  <2> QED BY <2>1, Budgets, DivBounds DEF CapWidth, Cdiv
<1>3. Narrowed(d) => \A j \in DOMAIN CappedRow(row) : CappedRow(row)[j] \in Pages
  <2> SUFFICES ASSUME Narrowed(d)
               PROVE  \A j \in DOMAIN CappedRow(row) : CappedRow(row)[j] \in Pages
    OBVIOUS
  <2>1. CapWidth < FullWidth BY DEF Narrowed, CapActive
  <2>2. \A j \in 0 .. CapWidth - 1 : j \in 0 .. FullWidth - 1 BY <1>1, <1>2, <2>1
  <2> QED BY <2>2 DEF CappedRow, RowOfPages
<1>4. \A j \in DOMAIN row : row[j] \in Pages BY DEF RowOfPages
<1> DEFINE stale == [j \in 0 .. CapWidth - 1 |-> Stale]
<1>5. \A j \in DOMAIN stale : stale[j] \in Pages BY DEF Pages
<1>6. \/ Narrowed(d) /\ ReadTable(d, row) = CappedRow(row)
      \/ ReadTable(d, row) = stale \/ ReadTable(d, row) = row
  BY DEF ReadTable
<1> HIDE DEF stale
<1> QED BY <1>3, <1>4, <1>5, <1>6

(* The decode metadata has a table for every row, and only pages in it.     *)
LEMMA DecodeMetadataTyped ==
  ASSUME conf \in Configs, NEW b, NEW d, Decodes(d), Len(d) # 0, NEW n
  PROVE  /\ DOMAIN DecodeMetadata(b, d, n).lens = DOMAIN DecodeMetadata(b, d, n).table
         /\ \A g \in DOMAIN DecodeMetadata(b, d, n).table :
              \A j \in DOMAIN DecodeMetadata(b, d, n).table[g] :
                DecodeMetadata(b, d, n).table[g][j] \in Pages
<1> DEFINE rows == Expanded(d, n)
           m == DecodeMetadata(b, d, n)
<1>1. /\ m.lens = [g \in DOMAIN rows |-> rows[g].len \div conf.ratio]
      /\ m.table = [g \in DOMAIN rows |-> ReadTable(d, rows[g].table)]
  BY DEF DecodeMetadata
<1>2. \A g \in DOMAIN rows : RowOfPages(rows[g].table) BY ExpandedTyped
<1> HIDE DEF rows, m
<1>3. DOMAIN m.lens = DOMAIN rows /\ DOMAIN m.table = DOMAIN rows BY <1>1
<1>4. \A g \in DOMAIN rows : m.table[g] = ReadTable(d, rows[g].table) BY <1>1
<1>5. \A g \in DOMAIN m.table : \A j \in DOMAIN m.table[g] : m.table[g][j] \in Pages
  BY <1>2, <1>3, <1>4, ReadTableTyped
<1> QED BY <1>3, <1>5 DEF m

(* What a row reads through a page table is cells of its pages, or stale.   *)
LEMMA PagedTyped ==
  ASSUME conf \in Configs, NEW table, \A j \in DOMAIN table : table[j] \in Pages, NEW len
  PROVE  Paged(table, len) \subseteq Cells
<1> SUFFICES ASSUME NEW x \in Paged(table, len) PROVE x \in Cells OBVIOUS
<1>1. PICK c \in 0 .. len - 1 :
        x = IF c \div Storage \in DOMAIN table THEN <<table[c \div Storage], c % Storage>> ELSE Stale
  BY DEF Paged
<1>2. Stale \in Cells BY DEF Cells
<1>3. c % Storage \in 0 .. Storage - 1
  <2> DEFINE t == Storage
  <2>1. t \in Nat \ {0} BY StorageTyped
  <2> HIDE DEF t
  <2>2. c \in Int BY <1>1
  <2>3. c % t \in 0 .. t - 1 BY <2>1, <2>2
  <2> QED BY <2>3 DEF t
<1>4. CASE c \div Storage \in DOMAIN table
  <2> DEFINE p == table[c \div Storage]
             k == c % Storage
  <2>1. p \in Pages BY <1>4
  <2>2. x = <<p, k>> BY <1>1, <1>4
  <2>3. k \in 0 .. Storage - 1 BY <1>3
  <2> HIDE DEF p, k
  <2>4. <<p, k>> \in Pages \X (0 .. Storage - 1) BY <2>1, <2>3
  <2> QED BY <2>2, <2>4 DEF Cells
<1>5. CASE ~(c \div Storage \in DOMAIN table) BY <1>1, <1>2, <1>5
<1> QED BY <1>4, <1>5

(* The gather fills the workspace with cells of the requests' own pages.    *)
LEMMA GatheredTyped ==
  ASSUME conf \in Configs, batch \in Batches, NEW c, FittingChunk(batch, c),
         \A x \in DOMAIN workspace : workspace[x] \in Cells
  PROVE  /\ DOMAIN Gathered(c) = DOMAIN workspace
         /\ \A x \in DOMAIN workspace : Gathered(c)[x] \in Cells
<1> DEFINE lens == CompressedLens(batch)
           At(r, i) == SumFromTo(lens, c.first, r - 1) + i
           KRows == { e \in (c.first .. c.last) \X (0 .. MaxModelLen - 1) : e[2] < lens[e[1]] }
           Hit(x) == \E e \in KRows : At(e[1], e[2]) = x /\ x < c.total
           Row(x) == CHOOSE e \in KRows : At(e[1], e[2]) = x
           Cell(e) == <<BlockTable(e[1])[e[2] \div Storage], e[2] % Storage>>
<1>1. Gathered(c) = [x \in DOMAIN workspace |-> IF Hit(x) THEN Cell(Row(x)) ELSE workspace[x]]
  BY DEF Gathered
<1>2. ASSUME NEW e \in KRows PROVE Cell(e) \in Cells
  <2> DEFINE r == e[1]
             i == e[2]
  <2>1. r \in c.first .. c.last /\ i \in 0 .. MaxModelLen - 1 /\ i < lens[r] OBVIOUS
  <2>2. /\ Len(batch) \in Nat /\ Len(batch) <= MaxReqs
        /\ c.first \in 1 .. Len(batch) /\ c.last \in c.first .. Len(batch)
    BY BatchTyped, Budgets DEF FittingChunk
  <2> HIDE DEF r, i, lens
  <2>3. r \in 1 .. Len(batch) /\ r \in 1 .. MaxReqs /\ i \in Nat BY <2>1, <2>2, Budgets
  <2>4. lens[r] = batch[r].s \div conf.ratio BY <2>3, BatchLoads DEF lens
  <2>5. batch[r].s \in Nat /\ batch[r].s <= MaxModelLen BY <2>3, BatchTyped, RequestTyped
  <2>6. i < batch[r].s \div conf.ratio BY <2>1, <2>4
  <2>7. i \div Storage \in 0 .. FullWidth - 1 /\ i % Storage \in 0 .. Storage - 1
    BY <2>3, <2>5, <2>6, PageInTable
  <2>8. BlockTable(r)[i \div Storage] \in Pages BY <2>3, <2>7, BlockTableTyped DEF RowOfPages
  <2>9. <<BlockTable(r)[i \div Storage], i % Storage>> \in Pages \X (0 .. Storage - 1)
    BY <2>7, <2>8
  <2> QED BY <2>9 DEF Cells, r, i
<1> HIDE DEF KRows, Cell, At
<1>3. \A x \in DOMAIN workspace : Hit(x) => Row(x) \in KRows
  <2> SUFFICES ASSUME NEW x \in DOMAIN workspace, Hit(x) PROVE Row(x) \in KRows OBVIOUS
  <2>1. \E e \in KRows : At(e[1], e[2]) = x OBVIOUS
  <2> QED BY <2>1, Zenon
<1> HIDE DEF Hit, Row
<1> QED BY <1>1, <1>2, <1>3

-----------------------------------------------------------------------------
(* What holds of a chunk depends on the batch and the deployment alone.     *)
LEMMA FittingChunkKept ==
  ASSUME conf' = conf
  PROVE  \A b, c : FittingChunk(b, c)' = FittingChunk(b, c)
  BY DEF FittingChunk

(* The cells and the reservation depend on the deployment alone.            *)
LEMMA CellsKept ==
  ASSUME conf' = conf
  PROVE  Pages' = Pages /\ Cells' = Cells /\ Reservation' = Reservation
  BY DEF Pages, Cells, Reservation, ProfileRows, ProfileWidth, Storage, FullWidth

(* Before the profile run there is nothing to be wrong about.               *)
LEMMA MetaInvInit ==
  ASSUME Init
  PROVE  MetaInv
<1> USE DEF Init
<1>1. chunks = << >> /\ IsList(chunks) /\ DOMAIN chunks = {} BY DEF IsList
<1>2. ChunksFit BY <1>1 DEF ChunksFit
<1>3. TablesTyped BY DEF TablesTyped, NoDecode
<1>4. DOMAIN workspace = {} /\ DOMAIN topk = {} OBVIOUS
<1> QED BY <1>2, <1>3, <1>4 DEF MetaInv

(* The profile run reserves what the invariant names.                       *)
LEMMA MetaInvProfile ==
  ASSUME MetaInv, Profile
  PROVE  MetaInv'
<1> USE DEF Profile
<1>1. conf' = conf /\ UNCHANGED <<batch, graph, chunks, decode, workspace, topk>> OBVIOUS
<1>2. ChunksFit' BY <1>1, FittingChunkKept DEF MetaInv, ChunksFit, HasKv, IsList
<1>3. TablesTyped' BY <1>1, CellsKept DEF MetaInv, TablesTyped
<1>4. reserved' = Reservation' BY <1>1, CellsKept DEF Reservation
<1>5. phase' = "idle" /\ phase = "boot" OBVIOUS
<1>6. (\A x \in DOMAIN workspace : workspace[x] \in Cells)' BY <1>1, CellsKept DEF MetaInv
<1>7. (\A g \in DOMAIN topk : topk[g] \subseteq Cells)' BY <1>1, CellsKept DEF MetaInv
<1>8. /\ conf \in Configs /\ graph \in BOOLEAN /\ chunks = << >>
      /\ (batch # << >> => batch \in Batches)
  BY <1>5 DEF MetaInv
<1>9. Batches' = Batches
  BY <1>1 DEF Batches, Requests, Rows, QueryLens, SumTo
<1> QED BY <1>1, <1>2, <1>3, <1>4, <1>5, <1>6, <1>7, <1>8, <1>9 DEF MetaInv

(* The batches depend on the deployment alone.                              *)
LEMMA BatchesKept ==
  ASSUME conf' = conf
  PROVE  Batches' = Batches
  BY DEF Batches, Requests, Rows, QueryLens, SumTo

(* The builder's chunks fit its batch, and its tables hold pages.           *)
LEMMA MetaInvBuild ==
  ASSUME MetaInv, phase = "idle", NEW b \in Batches, NEW replay \in BOOLEAN,
         NEW n \in Len(b) .. MaxReqs, Build(b, replay, n)
  PROVE  MetaInv'
<1> DEFINE p == Padded(b, n)
           nd == NumDecodes(p)
           d == SubSeq(p, 1, nd)
           m == IF replay THEN n * conf.nextN ELSE Rows(d)
<1>1. /\ phase' = "layer" /\ batch' = b /\ graph' = replay
      /\ chunks' = PrefillMetadata(b, nd)
      /\ decode' = (IF nd = 0 THEN NoDecode ELSE DecodeMetadata(b, d, m))
      /\ workspace' = [c \in 0 .. Workspace - 1 |-> Stale]
      /\ topk' = [g \in 0 .. (IF replay THEN n * conf.nextN ELSE Rows(b)) - 1 |-> {}]
      /\ conf' = conf /\ reserved' = reserved
  BY DEF Build
<1>2. conf \in Configs BY DEF MetaInv
<1>3. nd \in 0 .. n
  <2>1. Len(p) = n /\ DOMAIN p = 1 .. n /\ n \in Nat BY PaddedTyped
  <2> HIDE DEF p
  <2> QED BY <2>1, NumDecodesTyped
<1>4. Decodes(d) /\ Len(d) = nd
  <2> HIDE DEF nd
  <2> QED BY <1>3, DecodesTyped
<1>5. n \in Nat BY PaddedTyped
<1> HIDE DEF nd, d, m
<1>6. nd \in Nat BY <1>3, <1>5
<1>7. ChunksFit'
  <2> DEFINE cs == PrefillMetadata(b, nd)
  <2>1. IsList(cs) /\ \A k \in DOMAIN cs : FittingChunk(b, cs[k]) /\ HasKv(cs[k])
    BY <1>2, <1>6, PrefillMetadataTyped
  <2> HIDE DEF cs
  <2>2. chunks' = cs /\ batch' = b BY <1>1 DEF cs
  <2>3. IsList(chunks)' BY <2>1, <2>2 DEF IsList
  <2>4. (\A k \in DOMAIN chunks : FittingChunk(batch, chunks[k]) /\ HasKv(chunks[k]))'
    BY <1>1, <2>1, <2>2, FittingChunkKept DEF HasKv
  <2> QED BY <2>3, <2>4 DEF ChunksFit
<1>8. TablesTyped'
  <2> DEFINE t == DecodeMetadata(b, d, m)
  <2>1. CASE nd = 0
    <3>1. decode' = NoDecode BY <1>1, <2>1
    <3> QED BY <3>1 DEF TablesTyped, NoDecode
  <2>2. CASE nd # 0
    <3>1. Len(d) # 0 BY <1>4, <2>2
    <3>2. /\ DOMAIN t.lens = DOMAIN t.table
          /\ \A g \in DOMAIN t.table : \A j \in DOMAIN t.table[g] : t.table[g][j] \in Pages
      BY <1>2, <1>4, <3>1, DecodeMetadataTyped
    <3> HIDE DEF t
    <3>3. decode' = t BY <1>1, <2>2 DEF t
    <3>4. Pages' = Pages BY <1>1, CellsKept
    <3> QED BY <3>2, <3>3, <3>4 DEF TablesTyped
  <2> QED BY <2>1, <2>2
<1>9. reserved' = Reservation' BY <1>1, CellsKept DEF MetaInv
<1>10. (\A x \in DOMAIN workspace : workspace[x] \in Cells)' BY <1>1 DEF Cells
<1>11. (\A g \in DOMAIN topk : topk[g] \subseteq Cells)' BY <1>1
<1>12. DOMAIN workspace' = 0 .. Workspace - 1 BY <1>1
<1>13. batch' \in Batches' BY <1>1, BatchesKept
<1> QED
  BY <1>1, <1>2, <1>7, <1>8, <1>9, <1>10, <1>11, <1>12, <1>13 DEF MetaInv

(* A chunk reads what was gathered, or one request's page table.            *)
LEMMA MetaInvRunChunk ==
  ASSUME MetaInv, RunChunk
  PROVE  MetaInv'
<1> DEFINE c == Head(chunks)
           Scored(g) == LET i == g - c.start
                      IN  IF i \notin DOMAIN c.ks THEN topk[g]
                          ELSE IF conf.b12x
                          THEN Paged(BlockTable(c.first), Most(0, c.ke[i] - c.ks[i]))
                          ELSE { workspace'[x] : x \in c.ks[i] .. c.ke[i] - 1 }
<1>1. /\ phase = "layer" /\ chunks # << >> /\ chunks' = Tail(chunks)
      /\ workspace' = (IF conf.b12x \/ c.skipGather THEN workspace ELSE Gathered(c))
      /\ topk' = [g \in DOMAIN topk |-> Scored(g)]
      /\ UNCHANGED <<conf, phase, reserved, batch, graph, decode>>
  BY DEF RunChunk
<1>2. /\ conf \in Configs /\ batch \in Batches /\ DOMAIN workspace = 0 .. Workspace - 1
      /\ \A x \in DOMAIN workspace : workspace[x] \in Cells
      /\ \A g \in DOMAIN topk : topk[g] \subseteq Cells
  BY <1>1 DEF MetaInv
<1>3. /\ IsList(chunks)
      /\ \A k \in DOMAIN chunks : FittingChunk(batch, chunks[k]) /\ HasKv(chunks[k])
  BY DEF MetaInv, ChunksFit
<1> DEFINE S == { chunks[k] : k \in DOMAIN chunks }
<1>4. chunks \in Seq(S) /\ DOMAIN chunks = 1 .. Len(chunks) /\ Len(chunks) \in Nat
  <2>1. Len(chunks) \in Nat /\ chunks = [k \in 1 .. Len(chunks) |-> chunks[k]] BY <1>3 DEF IsList
  <2>2. DOMAIN chunks = 1 .. Len(chunks) BY <2>1
  <2>3. \A k \in 1 .. Len(chunks) : chunks[k] \in S BY <2>2
  <2> HIDE DEF S
  <2> QED BY <2>1, <2>2, <2>3
<1>5. \A x \in S : FittingChunk(batch, x) /\ HasKv(x) BY <1>3
<1> HIDE DEF S
<1>6. c \in S BY <1>1, <1>4, HeadTailProperties
<1>7. Tail(chunks) \in Seq(S) BY <1>1, <1>4, HeadTailProperties
<1> HIDE DEF c
<1>8. FittingChunk(batch, c) BY <1>5, <1>6
<1>9. DOMAIN workspace' = 0 .. Workspace - 1 /\ \A x \in DOMAIN workspace' : workspace'[x] \in Cells
  <2>1. CASE conf.b12x \/ c.skipGather BY <1>1, <1>2, <2>1
  <2>2. CASE ~(conf.b12x \/ c.skipGather)
    <3>1. workspace' = Gathered(c) BY <1>1, <2>2
    <3> QED BY <1>2, <1>8, <3>1, GatheredTyped
  <2> QED BY <2>1, <2>2
<1>10. \A g \in DOMAIN topk : Scored(g) \subseteq Cells
  <2> SUFFICES ASSUME NEW g \in DOMAIN topk PROVE Scored(g) \subseteq Cells OBVIOUS
  <2> DEFINE i == g - c.start
  <2>1. CASE i \notin DOMAIN c.ks BY <1>2, <2>1
  <2>2. CASE i \in DOMAIN c.ks /\ conf.b12x
    <3>1. c.first \in 1 .. Len(batch) BY <1>8 DEF FittingChunk
    <3>2. Len(batch) \in Nat /\ Len(batch) <= MaxReqs BY <1>2, BatchTyped, Budgets
    <3>3. c.first \in 1 .. MaxReqs BY <3>1, <3>2, Budgets
    <3>4. \A j \in DOMAIN BlockTable(c.first) : BlockTable(c.first)[j] \in Pages
      BY <3>3, BlockTableTyped DEF RowOfPages
    <3> DEFINE len == Most(0, c.ke[i] - c.ks[i])
    <3>5. Scored(g) = Paged(BlockTable(c.first), len) BY <2>2
    <3> HIDE DEF len
    <3> QED BY <1>2, <3>4, <3>5, PagedTyped
  <2>3. CASE i \in DOMAIN c.ks /\ ~conf.b12x
    <3>1. /\ i \in 0 .. c.rows - 1 /\ c.total <= Workspace /\ c.total \in Nat
          /\ c.ks[i] \in Nat /\ c.ke[i] \in Nat /\ c.ke[i] <= c.total
      BY <1>8, <2>3 DEF FittingChunk
    <3>2. \A x \in c.ks[i] .. c.ke[i] - 1 : x \in 0 .. Workspace - 1 BY <3>1, Budgets
    <3>3. Scored(g) = { workspace'[x] : x \in c.ks[i] .. c.ke[i] - 1 } BY <2>3
    <3> QED BY <1>9, <3>2, <3>3
  <2> QED BY <2>1, <2>2, <2>3
<1> HIDE DEF Scored
<1>11. (\A g \in DOMAIN topk : topk[g] \subseteq Cells)'
  BY <1>1, <1>10, CellsKept
<1>12. (\A x \in DOMAIN workspace : workspace[x] \in Cells)' BY <1>1, <1>9, CellsKept
<1>13. ChunksFit'
  <2> DEFINE t == Tail(chunks)
  <2>1. t \in Seq(S) BY <1>7
  <2> HIDE DEF t
  <2>2. chunks' = t BY <1>1 DEF t
  <2>3. Len(t) \in Nat /\ t = [k \in 1 .. Len(t) |-> t[k]] /\ DOMAIN t = 1 .. Len(t) BY <2>1
  <2>4. \A k \in 1 .. Len(t) : t[k] \in S BY <2>1
  <2>5. \A k \in DOMAIN t : FittingChunk(batch, t[k]) /\ HasKv(t[k]) BY <1>5, <2>3, <2>4
  <2>6. IsList(chunks)' BY <2>2, <2>3 DEF IsList
  <2>7. (\A k \in DOMAIN chunks : FittingChunk(batch, chunks[k]) /\ HasKv(chunks[k]))'
    BY <1>1, <2>2, <2>5, FittingChunkKept DEF HasKv
  <2> QED BY <2>6, <2>7 DEF ChunksFit
<1>14. TablesTyped' BY <1>1, CellsKept DEF MetaInv, TablesTyped
<1>15. reserved' = Reservation' BY <1>1, CellsKept DEF MetaInv
<1>16. batch' \in Batches' BY <1>1, <1>2, BatchesKept
<1>17. phase' = "layer" /\ graph' \in BOOLEAN /\ conf' \in Configs BY <1>1 DEF MetaInv
<1>18. DOMAIN workspace' = 0 .. Workspace - 1 BY <1>9
<1> QED BY <1>11, <1>12, <1>13, <1>14, <1>15, <1>16, <1>17, <1>18 DEF MetaInv

(* The decodes read their rows of pages.                                    *)
LEMMA MetaInvRunDecode ==
  ASSUME MetaInv, RunDecode
  PROVE  MetaInv'
<1> DEFINE Scored(g) == IF g \in DOMAIN decode.lens
                      THEN Paged(decode.table[g], Least(decode.lens[g], decode.width))
                      ELSE topk[g]
<1>1. /\ phase = "layer" /\ chunks = << >> /\ phase' = "done"
      /\ topk' = [g \in DOMAIN topk |-> Scored(g)]
      /\ UNCHANGED <<conf, reserved, batch, graph, chunks, decode, workspace>>
  BY DEF RunDecode
<1>2. conf \in Configs /\ TablesTyped /\ \A g \in DOMAIN topk : topk[g] \subseteq Cells
  BY DEF MetaInv
<1>3. \A g \in DOMAIN topk : Scored(g) \subseteq Cells
  <2> SUFFICES ASSUME NEW g \in DOMAIN topk PROVE Scored(g) \subseteq Cells OBVIOUS
  <2>1. CASE g \in DOMAIN decode.lens
    <3>1. \A j \in DOMAIN decode.table[g] : decode.table[g][j] \in Pages
      BY <1>2, <2>1 DEF TablesTyped
    <3> QED BY <1>2, <2>1, <3>1, PagedTyped
  <2>2. CASE g \notin DOMAIN decode.lens BY <1>2, <2>2
  <2> QED BY <2>1, <2>2
<1> HIDE DEF Scored
<1>4. (\A g \in DOMAIN topk : topk[g] \subseteq Cells)' BY <1>1, <1>3, CellsKept
<1>5. (\A x \in DOMAIN workspace : workspace[x] \in Cells)' BY <1>1, CellsKept DEF MetaInv
<1>6. ChunksFit' BY <1>1, FittingChunkKept DEF MetaInv, ChunksFit, HasKv, IsList
<1>7. TablesTyped' BY <1>1, CellsKept DEF MetaInv, TablesTyped
<1>8. reserved' = Reservation' BY <1>1, CellsKept DEF MetaInv
<1>9. batch' \in Batches' BY <1>1, BatchesKept DEF MetaInv
<1>10. phase' = "done" /\ graph' \in BOOLEAN /\ conf' \in Configs /\ chunks' = << >>
  BY <1>1 DEF MetaInv
<1> QED BY <1>4, <1>5, <1>6, <1>7, <1>8, <1>9, <1>10 DEF MetaInv

(* The end of a step forgets the batch and all that was built for it.       *)
LEMMA MetaInvReturn ==
  ASSUME MetaInv, Return
  PROVE  MetaInv'
<1>1. /\ phase = "done" /\ phase' = "idle" /\ batch' = << >> /\ graph' = FALSE
      /\ chunks' = << >> /\ decode' = NoDecode /\ workspace' = << >> /\ topk' = << >>
      /\ conf' = conf /\ reserved' = reserved
  BY DEF Return
<1>2. ChunksFit' BY <1>1 DEF ChunksFit, IsList
<1>3. TablesTyped' BY <1>1 DEF TablesTyped, NoDecode
<1>4. reserved' = Reservation' BY <1>1, CellsKept DEF MetaInv
<1>5. conf' \in Configs BY <1>1 DEF MetaInv
<1>6. DOMAIN workspace' = {} /\ DOMAIN topk' = {} BY <1>1
<1>7. (\A x \in DOMAIN workspace : workspace[x] \in Cells)' BY <1>6
<1>8. (\A g \in DOMAIN topk : topk[g] \subseteq Cells)' BY <1>6
<1> QED BY <1>1, <1>2, <1>3, <1>4, <1>5, <1>7, <1>8 DEF MetaInv

(* A step that changes nothing keeps the invariant.                         *)
LEMMA MetaInvStutter ==
  ASSUME MetaInv, UNCHANGED vars
  PROVE  MetaInv'
<1> USE DEF vars
<1>1. ChunksFit' BY FittingChunkKept DEF MetaInv, ChunksFit, HasKv, IsList
<1>2. TablesTyped' BY CellsKept DEF MetaInv, TablesTyped
<1>3. (\A x \in DOMAIN workspace : workspace[x] \in Cells)' BY CellsKept DEF MetaInv
<1>4. (\A g \in DOMAIN topk : topk[g] \subseteq Cells)' BY CellsKept DEF MetaInv
<1>5. phase # "boot" => reserved' = Reservation' BY CellsKept DEF MetaInv
<1>6. (batch # << >> => batch' \in Batches') /\ (phase = "layer" => batch' \in Batches')
  BY BatchesKept DEF MetaInv
<1>7. /\ conf' \in Configs /\ phase' \in {"boot", "idle", "layer", "done"} /\ graph' \in BOOLEAN
      /\ phase' = phase /\ batch' = batch /\ chunks' = chunks /\ workspace' = workspace
      /\ (phase = "boot" => chunks = << >>) /\ (phase # "layer" => chunks = << >>)
      /\ (phase = "layer" => DOMAIN workspace = 0 .. Workspace - 1)
  BY DEF MetaInv
<1>8. (batch # << >> => batch \in Batches)' BY <1>6, <1>7
<1>9. (phase = "layer" => batch \in Batches /\ DOMAIN workspace = 0 .. Workspace - 1)'
  BY <1>6, <1>7
<1>10. (phase = "boot" => chunks = << >>)' /\ (phase # "layer" => chunks = << >>)'
  BY <1>7
<1>11. (phase # "boot" => reserved = Reservation)' BY <1>5, <1>7
<1> QED BY <1>1, <1>2, <1>3, <1>4, <1>7, <1>8, <1>9, <1>10, <1>11 DEF MetaInv

(* Every step keeps the invariant.                                          *)
LEMMA MetaInvNext ==
  ASSUME MetaInv, [Next]_vars
  PROVE  MetaInv'
<1>1. CASE Profile BY <1>1, MetaInvProfile
<1>2. CASE Execute
  <2>1. phase = "idle" BY <1>2 DEF Execute
  <2>2. PICK b \in Batches, replay \in BOOLEAN : \E n \in Len(b) .. MaxReqs : Build(b, replay, n)
    BY <1>2 DEF Execute
  <2>3. PICK n \in Len(b) .. MaxReqs : Build(b, replay, n) BY <2>2
  <2> QED BY <2>1, <2>3, MetaInvBuild
<1>3. CASE RunChunk BY <1>3, MetaInvRunChunk
<1>4. CASE RunDecode BY <1>4, MetaInvRunDecode
<1>5. CASE Return BY <1>5, MetaInvReturn
<1>6. CASE UNCHANGED vars BY <1>6, MetaInvStutter
<1> QED BY <1>1, <1>2, <1>3, <1>4, <1>5, <1>6 DEF Next

(* The invariant holds in every reachable state.                            *)
THEOREM MetaInvAlways == Spec => []MetaInv
<1>1. Init => MetaInv BY MetaInvInit
<1>2. MetaInv /\ [Next]_vars => MetaInv' BY MetaInvNext
<1> QED BY <1>1, <1>2, PTL DEF Spec

(* The invariant gives the types.                                           *)
LEMMA MetaInvTypeOK == MetaInv => TypeOK
<1> SUFFICES ASSUME MetaInv PROVE TypeOK OBVIOUS
<1>1. conf \in Configs /\ phase \in {"boot", "idle", "layer", "done"} /\ graph \in BOOLEAN
  BY DEF MetaInv
<1>2. \A r \in DOMAIN batch : batch[r] \in Requests
  <2>1. CASE batch = << >>
    <3>1. DOMAIN batch = {} BY <2>1
    <3> QED BY <3>1
  <2>2. CASE batch # << >>
    <3>1. batch \in Batches BY <2>2 DEF MetaInv
    <3> QED BY <3>1, BatchTyped
  <2> QED BY <2>1, <2>2
<1>3. DOMAIN decode.lens = DOMAIN decode.table BY DEF MetaInv, TablesTyped
<1>4. \A k \in DOMAIN chunks : chunks[k].rows > 0 /\ chunks[k].start + chunks[k].rows <= Rows(batch)
  <2> SUFFICES ASSUME NEW k \in DOMAIN chunks
               PROVE  chunks[k].rows > 0 /\ chunks[k].start + chunks[k].rows <= Rows(batch)
    OBVIOUS
  <2>1. FittingChunk(batch, chunks[k]) BY DEF MetaInv, ChunksFit
  <2>2. chunks[k].rows \in Nat \ {0} BY <2>1 DEF FittingChunk
  <2> QED BY <2>1, <2>2 DEF FittingChunk
<1>5. \A g \in DOMAIN topk : topk[g] \subseteq
        {Stale} \cup ({Stale} \cup (1 .. MaxReqs) \X (0 .. FullWidth - 1)) \X (0 .. Storage - 1)
  BY DEF MetaInv, Cells, Pages
<1> QED BY <1>1, <1>2, <1>3, <1>4, <1>5 DEF TypeOK

(* What is gathered and scored stays within what was reserved.              *)
LEMMA MetaInvBudgets == MetaInv => ChunksWithinBudgets
<1> SUFFICES ASSUME MetaInv, NEW k \in DOMAIN chunks
             PROVE  LET c == chunks[k]
                        n == IF conf.b12x THEN Supertile ELSE c.total
                    IN  /\ c.rows = 1 \/ c.rows * n <= MaxLogits
                        /\ conf.b12x \/ c.total <= reserved.width
                        /\ conf.b12x \/ \A i \in DOMAIN c.ke : c.ke[i] <= c.total
  BY DEF ChunksWithinBudgets
<1> DEFINE c == chunks[k]
<1>1. FittingChunk(batch, c) /\ c.total > 0 BY DEF MetaInv, ChunksFit, HasKv
<1>2. phase # "boot"
  <2> SUFFICES ASSUME phase = "boot" PROVE FALSE OBVIOUS
  <2>1. chunks = << >> BY DEF MetaInv
  <2>2. DOMAIN chunks = {} BY <2>1
  <2> QED BY <2>2
<1>3. reserved = Reservation BY <1>2 DEF MetaInv
<1>4. conf.b12x \in BOOLEAN
  <2>1. conf \in Configs BY DEF MetaInv
  <2> QED BY <2>1, ConfTyped
<1> HIDE DEF c
<1>5. c.rows \in Nat /\ c.rows - 0 = c.rows BY <1>1 DEF FittingChunk
<1>6. CASE conf.b12x
  <2>1. WithinLogits([from |-> 0, to |-> c.rows], Supertile) BY <1>1, <1>6 DEF FittingChunk
  <2>2. c.rows = 1 \/ c.rows * Supertile <= MaxLogits BY <1>5, <2>1, Budgets DEF WithinLogits
  <2> QED BY <1>6, <2>2 DEF c
<1>7. CASE ~conf.b12x
  <2>1. /\ WithinLogits([from |-> 0, to |-> c.rows], c.total)
        /\ c.total <= Workspace /\ DOMAIN c.ke = 0 .. c.rows - 1
        /\ \A i \in 0 .. c.rows - 1 : c.ke[i] <= c.total
    BY <1>1, <1>7 DEF FittingChunk
  <2>2. c.rows = 1 \/ c.rows * c.total <= MaxLogits BY <1>1, <1>5, <2>1 DEF WithinLogits
  <2>3. reserved.width = Workspace BY <1>3, <1>7 DEF Reservation
  <2> QED BY <1>7, <2>1, <2>2, <2>3 DEF c
<1> QED BY <1>4, <1>6, <1>7

(* A page table is never wider than the profile run foresaw.                *)
LEMMA ProfileWidthSuffices ==
  ASSUME conf \in Configs
  PROVE  FullWidth <= ProfileWidth
<1> DEFINE w == Most(MaxModelLen, Workspace)
           t == Storage
           B == BlockSize
           d == conf.ratio
<1>1. t \in Nat \ {0} /\ d \in Nat \ {0} /\ B = t * d /\ B \in Nat \ {0}
  BY StorageTyped, ConfTyped, Budgets
<1>2. w \in Nat /\ MaxModelLen <= w BY Budgets DEF Most
<1> HIDE DEF w, t, B, d
<1> DEFINE p == FullWidth
<1>3. p \in Nat /\ p * B <= MaxModelLen + B - 1
  <2>1. MaxModelLen + B - 1 \in Nat BY <1>1, Budgets
  <2> QED BY <1>1, <2>1, DivBounds DEF FullWidth, Cdiv, B
<1> HIDE DEF p
<1>4. CASE p = 0
  <2>1. 1 <= ProfileWidth
    <3> DEFINE e == Cdiv(w, t)
    <3>1. ProfileWidth = IF 1 > e THEN 1 ELSE e BY DEF ProfileWidth, Most, w, t
    <3>2. e \in Nat
      <4>1. w + t - 1 \in Nat BY <1>1, <1>2
      <4> QED BY <1>1, <4>1, DivBounds DEF Cdiv
    <3> HIDE DEF e
    <3> QED BY <3>1, <3>2
  <2>2. ProfileWidth \in Int
    <3> DEFINE e == Cdiv(w, t)
    <3>1. ProfileWidth = IF 1 > e THEN 1 ELSE e BY DEF ProfileWidth, Most, w, t
    <3>2. e \in Nat
      <4>1. w + t - 1 \in Nat BY <1>1, <1>2
      <4> QED BY <1>1, <4>1, DivBounds DEF Cdiv
    <3> HIDE DEF e
    <3> QED BY <3>1, <3>2
  <2> QED BY <1>4, <2>1, <2>2 DEF p
<1>5. CASE p # 0
  <2>1. p * t <= w + t - 1
    <3>1. PICK m \in Nat : p = m + 1
      <4>1. p - 1 \in Nat /\ p = (p - 1) + 1 BY <1>3, <1>5
      <4> QED BY <4>1
    <3>2. m * B + B <= MaxModelLen + B - 1
      <4>1. p * B = m * B + B BY <1>1, <3>1
      <4> QED BY <1>3, <4>1
    <3>3. m * B \in Nat /\ m * t \in Nat BY <1>1, <3>1
    <3>4. m * B <= MaxModelLen - 1 BY <1>1, <3>2, <3>3, Budgets
    <3>5. m * t <= m * B
      <4>1. PICK e \in Nat : d = e + 1
        <5>1. d - 1 \in Nat /\ d = (d - 1) + 1 BY <1>1
        <5> QED BY <5>1
      <4>2. B = t * e + t BY <1>1, <4>1
      <4>3. m * B = m * (t * e) + m * t BY <1>1, <3>1, <4>1, <4>2
      <4>4. t * e \in Nat BY <1>1, <4>1
      <4>5. m * (t * e) \in Nat BY <3>1, <4>4
      <4> QED BY <3>3, <4>3, <4>5
    <3>6. p * t = m * t + t BY <1>1, <3>1
    <3> QED BY <1>1, <1>2, <3>3, <3>4, <3>5, <3>6, Budgets
  <2>2. p <= Cdiv(w, t)
    <3>1. w + t - 1 \in Nat BY <1>1, <1>2
    <3> QED BY <1>1, <1>3, <2>1, <3>1, DivAtLeast DEF Cdiv
  <2> DEFINE e == Cdiv(w, t)
  <2>3. ProfileWidth = IF 1 > e THEN 1 ELSE e BY DEF ProfileWidth, Most, w, t
  <2>4. e \in Nat
    <3>1. w + t - 1 \in Nat BY <1>1, <1>2
    <3> QED BY <1>1, <3>1, DivBounds DEF Cdiv
  <2> HIDE DEF e
  <2>5. p <= ProfileWidth BY <1>3, <2>2, <2>3, <2>4 DEF e
  <2> QED BY <2>5 DEF p
<1> QED BY <1>4, <1>5

(* The scratch that the profile run reserved suffices for every chunk.      *)
LEMMA MetaInvReserved == MetaInv => ReservedScratchSuffices
<1> SUFFICES ASSUME MetaInv, conf.b12x, NEW k \in DOMAIN chunks
             PROVE  chunks[k].rows <= reserved.rows /\ FullWidth <= reserved.width
  BY DEF ReservedScratchSuffices
<1> DEFINE c == chunks[k]
<1>1. FittingChunk(batch, c) /\ conf \in Configs BY DEF MetaInv, ChunksFit
<1>2. phase # "boot"
  <2> SUFFICES ASSUME phase = "boot" PROVE FALSE OBVIOUS
  <2>1. chunks = << >> BY DEF MetaInv
  <2>2. DOMAIN chunks = {} BY <2>1
  <2> QED BY <2>2
<1>3. reserved.rows = ProfileRows /\ reserved.width = ProfileWidth
  BY <1>2 DEF MetaInv, Reservation
<1> HIDE DEF c
<1> DEFINE n == c.rows
<1>4. n \in Nat \ {0} /\ n <= MaxTokens
      /\ WithinLogits([from |-> 0, to |-> n], Supertile)
  BY <1>1 DEF FittingChunk
<1> HIDE DEF n
<1>5. n = 1 \/ n * Supertile <= MaxLogits
  <2>1. n - 0 = n BY <1>4
  <2> QED BY <1>4, <2>1, Budgets DEF WithinLogits
<1> DEFINE e == MaxLogits \div Supertile
<1>6. e \in Nat BY Budgets, DivBounds
<1>7. n = 1 \/ n <= e BY <1>4, <1>5, Budgets, DivAtLeast
<1>8. Most(1, Supertile) = Supertile BY Budgets DEF Most
<1>9. ProfileRows = Least(MaxTokens, Most(1, e)) BY <1>8 DEF ProfileRows
<1> HIDE DEF e
<1>10. n <= Most(1, e) BY <1>4, <1>6, <1>7 DEF Most
<1>11. n <= ProfileRows BY <1>4, <1>9, <1>10 DEF Least
<1> QED BY <1>1, <1>3, <1>11, ProfileWidthSuffices DEF n, c

(* The types of the indexer's state: every chunk is some of the batch's     *)
(* query rows, and every cell that a row was scored against is a page's.    *)
THEOREM MetaTypeOK == Spec => []TypeOK
  BY MetaInvAlways, MetaInvTypeOK, PTL

(* No chunk asks for more logits than the budget, gathers more K rows       *)
(* than the workspace holds, or reads beyond what it gathered.              *)
THEOREM ChunksAlwaysWithinBudgets == Spec => []ChunksWithinBudgets
  BY MetaInvAlways, MetaInvBudgets, PTL

(* The scratch reserved before the workspace was locked is enough for       *)
(* the plan of every chunk that the chunker makes.                          *)
THEOREM ScratchAlwaysSuffices == Spec => []ReservedScratchSuffices
  BY MetaInvAlways, MetaInvReserved, PTL

-----------------------------------------------------------------------------
(* Lists that agree have the same sums.                                     *)
LEMMA SumToSame ==
  ASSUME NEW N \in Nat, NEW f, NatTo(f, N), NEW g, \A i \in 1 .. N : g[i] = f[i]
  PROVE  NatTo(g, N) /\ \A n \in 0 .. N : SumTo(g, n) = SumTo(f, n)
<1>1. NatTo(f, 0 + N) /\ \A i \in 1 .. N : g[i] = f[0 + i] OBVIOUS
<1>2. \A n \in 0 .. N : SumTo(f, 0 + n) = SumTo(f, 0) + SumTo(g, n) BY <1>1, SumToShift
<1>3. NatTo(g, N) BY DEF NatTo
<1>4. SumTo(f, 0) = 0 BY SumToStep
<1>5. \A n \in 0 .. N : SumTo(g, n) \in Nat BY <1>3, SumToStep
<1> QED BY <1>2, <1>3, <1>4, <1>5

(* A row lies in a single place of a list of lengths.                       *)
LEMMA OwnerUnique ==
  ASSUME NEW N \in Nat, NEW f, NatTo(f, N), NEW o \in 1 .. N, NEW r \in 1 .. N, NEW g \in Nat,
         SumTo(f, o - 1) <= g, g < SumTo(f, o - 1) + f[o],
         SumTo(f, r - 1) <= g, g < SumTo(f, r - 1) + f[r]
  PROVE  o = r
<1>1. ASSUME NEW x \in 1 .. N, NEW y \in 1 .. N, x < y,
             SumTo(f, y - 1) <= g, g < SumTo(f, x - 1) + f[x]
      PROVE  FALSE
  <2>1. x \in 0 .. N /\ y - 1 \in x .. N BY <1>1
  <2>2. SumTo(f, x) <= SumTo(f, y - 1) BY <2>1, SumToGrows
  <2>3. SumTo(f, x) = SumTo(f, x - 1) + f[x] BY SumToStep
  <2>4. SumTo(f, x) \in Nat /\ SumTo(f, y - 1) \in Nat
    <3>1. x \in 0 .. N /\ y - 1 \in 0 .. N BY <2>1
    <3> QED BY <3>1, SumToStep
  <2> QED BY <1>1, <2>2, <2>3, <2>4
<1>2. ~(o < r) BY <1>1
<1>3. ~(r < o) BY <1>1
<1> QED BY <1>2, <1>3

-----------------------------------------------------------------------------
(* Chunk specifications that cover the rows from lo up to hi, where F has   *)
(* the requests' query lengths, and of which each that gathers nothing      *)
(* follows one of the same requests.                                        *)
CoversRow(F, sp, g) ==
  SumTo(F, sp.first - 1) + sp.from <= g /\ g < SumTo(F, sp.first - 1) + sp.to

Follows(s, k) == k - 1 \in DOMAIN s /\ s[k - 1].first = s[k].first /\ s[k - 1].last = s[k].last

Tiles(F, s, lo, hi) ==
  /\ \A g \in lo .. hi - 1 : \E k \in DOMAIN s : CoversRow(F, s[k], g)
  /\ \A k \in DOMAIN s : s[k].from > 0 => Follows(s, k)

(* Nothing covers nothing.                                                  *)
LEMMA EmptyTiles ==
  ASSUME NEW F, NEW lo \in Nat
  PROVE  Tiles(F, << >>, lo, lo)
<1>1. DOMAIN << >> = {} OBVIOUS
<1>2. lo .. lo - 1 = {} OBVIOUS
<1> QED BY <1>1, <1>2 DEF Tiles

(* One list after another covers the rows of both.                          *)
LEMMA ConcatTiles ==
  ASSUME NEW F, NEW S, NEW s \in Seq(S), NEW t \in Seq(S),
         NEW lo \in Nat, NEW mid \in Nat, NEW hi \in Nat, Tiles(F, s, lo, mid), Tiles(F, t, mid, hi)
  PROVE  Tiles(F, s \o t, lo, hi)
<1> DEFINE u == s \o t
           m == Len(s)
           n == Len(t)
<1>1. m \in Nat /\ n \in Nat /\ DOMAIN s = 1 .. m /\ DOMAIN t = 1 .. n OBVIOUS
<1>2. /\ DOMAIN u = 1 .. m + n /\ \A k \in 1 .. m : u[k] = s[k]
      /\ \A k \in 1 .. n : u[m + k] = t[k]
  OBVIOUS
<1> HIDE DEF u, m, n
<1>3. ASSUME NEW g \in lo .. hi - 1 PROVE \E k \in DOMAIN u : CoversRow(F, u[k], g)
  <2>1. CASE g < mid
    <3>1. g \in lo .. mid - 1 BY <2>1
    <3>2. PICK k \in DOMAIN s : CoversRow(F, s[k], g) BY <3>1 DEF Tiles
    <3>3. k \in DOMAIN u /\ u[k] = s[k] BY <1>1, <1>2
    <3> QED BY <3>2, <3>3
  <2>2. CASE ~(g < mid)
    <3>1. g \in mid .. hi - 1 BY <2>2
    <3>2. PICK k \in DOMAIN t : CoversRow(F, t[k], g) BY <3>1 DEF Tiles
    <3>3. m + k \in DOMAIN u /\ u[m + k] = t[k] BY <1>1, <1>2
    <3> QED BY <3>2, <3>3
  <2> QED BY <2>1, <2>2
<1>4. ASSUME NEW k \in DOMAIN u, u[k].from > 0 PROVE Follows(u, k)
  <2>1. CASE k <= m
    <3>1. k \in 1 .. m /\ u[k] = s[k] BY <1>1, <1>2, <2>1
    <3>2. Follows(s, k) BY <1>1, <1>4, <3>1 DEF Tiles
    <3>3. k - 1 \in 1 .. m BY <1>1, <3>2 DEF Follows
    <3>4. u[k - 1] = s[k - 1] /\ k - 1 \in DOMAIN u BY <1>1, <1>2, <3>3
    <3> QED BY <3>1, <3>2, <3>4 DEF Follows
  <2>2. CASE ~(k <= m)
    <3> DEFINE j == k - m
    <3>1. j \in 1 .. n /\ k = m + j BY <1>1, <1>2, <2>2
    <3> HIDE DEF j
    <3>2. u[k] = t[j] BY <1>2, <3>1
    <3>3. Follows(t, j) BY <1>1, <1>4, <3>1, <3>2 DEF Tiles
    <3>4. j - 1 \in 1 .. n /\ k - 1 = m + (j - 1) BY <1>1, <3>1, <3>3 DEF Follows
    <3>5. u[k - 1] = t[j - 1] /\ k - 1 \in DOMAIN u
      <4> DEFINE i == j - 1
      <4>1. i \in 1 .. n /\ k - 1 = m + i BY <3>4
      <4> HIDE DEF i
      <4> QED BY <1>1, <1>2, <4>1 DEF i
    <3> QED BY <3>2, <3>3, <3>5 DEF Follows
  <2> QED BY <2>1, <2>2
<1>5. Tiles(F, u, lo, hi) BY <1>3, <1>4 DEF Tiles
<1> QED BY <1>5 DEF u

(* What is cut piece by piece covers as much as the pieces do.              *)
LEMMA CutsTile ==
  ASSUME NEW N \in Nat, NEW S, NEW sub \in [1 .. N -> Seq(S)], NEW end \in [1 .. N -> 1 .. N],
         \A a \in 1 .. N : a <= end[a], NEW h, Cuts(N, sub, end, h),
         NEW F, NEW start \in [1 .. N + 1 -> Nat],
         \A a \in 1 .. N : Tiles(F, sub[a], start[a], start[end[a] + 1])
  PROVE  \A a \in 1 .. N + 1 : Tiles(F, h[a], start[a], start[N + 1])
<1> DEFINE Bad == { m \in 0 .. N : ~Tiles(F, h[N + 1 - m], start[N + 1 - m], start[N + 1]) }
<1>0. \A a \in 1 .. N + 1 : h[a] \in Seq(S) BY CutsTyped
<1>1. Bad = {}
  <2> SUFFICES ASSUME Bad # {} PROVE FALSE OBVIOUS
  <2>1. Bad \in SUBSET Nat OBVIOUS
  <2>2. PICK m \in Bad : \A k \in Bad : m <= k
    <3> HIDE DEF Bad
    <3> QED BY <2>1, LeastExists
  <2> DEFINE a == N + 1 - m
  <2>3. m \in 0 .. N /\ ~Tiles(F, h[a], start[a], start[N + 1]) OBVIOUS
  <2>4. a \in 1 .. N + 1 BY <2>3
  <2>5. m # 0
    <3> SUFFICES ASSUME m = 0 PROVE FALSE OBVIOUS
    <3>1. a = N + 1 OBVIOUS
    <3> HIDE DEF a
    <3>2. h[a] = << >> BY <3>1 DEF Cuts
    <3>3. start[a] \in Nat BY <2>4
    <3>4. Tiles(F, << >>, start[a], start[a]) BY <3>3, EmptyTiles
    <3> QED BY <2>3, <3>1, <3>2, <3>4
  <2>6. a \in 1 .. N BY <2>3, <2>5
  <2> DEFINE e == end[a] + 1
             k == N + 1 - e
  <2>7. e \in 1 .. N + 1 /\ a < e /\ k \in 0 .. N /\ k < m /\ e = N + 1 - k
    <3> DEFINE z == end[a]
    <3>1. z \in 1 .. N /\ a <= z BY <2>6
    <3>2. a = N + 1 - m /\ m \in 0 .. N /\ a \in 1 .. N BY <2>3, <2>6
    <3>3. e = z + 1 /\ k = N + 1 - e OBVIOUS
    <3> HIDE DEF z, a, e, k, Bad
    <3> QED BY <3>1, <3>2, <3>3
  <2>8. k \notin Bad
    <3>1. m \in Nat /\ k \in Nat BY <2>3, <2>7
    <3> HIDE DEF Bad, k, a, e
    <3> QED BY <2>2, <2>7, <3>1
  <2>9. Tiles(F, h[e], start[e], start[N + 1])
    <3> HIDE DEF k
    <3>1. Tiles(F, h[N + 1 - k], start[N + 1 - k], start[N + 1]) BY <2>7, <2>8
    <3> HIDE DEF e
    <3> QED BY <2>7, <3>1
  <2>10. h[a] = sub[a] \o h[e] BY <2>6 DEF Cuts
  <2>11. Tiles(F, sub[a], start[a], start[e]) BY <2>6
  <2>12. sub[a] \in Seq(S) /\ h[e] \in Seq(S) BY <1>0, <2>6, <2>7
  <2>13. start[a] \in Nat /\ start[e] \in Nat /\ start[N + 1] \in Nat
    <3>1. N + 1 \in 1 .. N + 1 OBVIOUS
    <3> QED BY <2>4, <2>7, <3>1
  <2> HIDE DEF a, e, k, Bad
  <2>14. Tiles(F, sub[a] \o h[e], start[a], start[N + 1]) BY <2>9, <2>11, <2>12, <2>13, ConcatTiles
  <2> QED BY <2>3, <2>10, <2>14
<1>2. ASSUME NEW a \in 1 .. N + 1 PROVE Tiles(F, h[a], start[a], start[N + 1])
  <2> DEFINE m == N + 1 - a
  <2>1. m \in 0 .. N /\ a = N + 1 - m OBVIOUS
  <2>2. m \notin Bad BY <1>1
  <2> HIDE DEF m
  <2>3. Tiles(F, h[N + 1 - m], start[N + 1 - m], start[N + 1]) BY <2>1, <2>2
  <2> QED BY <2>1, <2>3
<1> QED BY <1>2

(* How many query rows of a chunk one call of the layer may score.          *)
RowsPerCall(qs, ss, a, z) ==
  IF SumFromTo(ss, a, z) > 0 THEN Most(1, MaxLogits \div SumFromTo(ss, a, z)) ELSE SumFromTo(qs, a, z)

(* There is one at least.                                                   *)
LEMMA RowsPerCallTyped ==
  ASSUME NEW qs, NEW ss, NEW offset, Loads(qs, ss, offset),
         NEW a \in 1 .. Len(qs), NEW z \in a .. Len(qs)
  PROVE  RowsPerCall(qs, ss, a, z) \in Nat \ {0}
<1> DEFINE m == SumFromTo(qs, a, z)
           n == SumFromTo(ss, a, z)
           w == RowsPerCall(qs, ss, a, z)
<1>1. m \in Nat \ {0} /\ n \in Nat BY LoadSums
<1>2. w = IF n > 0 THEN Most(1, MaxLogits \div n) ELSE m BY DEF RowsPerCall
<1> HIDE DEF m, n, w
<1>3. w \in Nat \ {0}
  <2>1. CASE n > 0
    <3> DEFINE d == MaxLogits \div n
    <3>1. d \in Nat
      <4>1. n \in Nat \ {0} BY <1>1, <2>1
      <4> QED BY <4>1, Budgets, DivBounds
    <3>2. w = Most(1, d) BY <1>2, <2>1
    <3> HIDE DEF d
    <3>3. w = IF 1 > d THEN 1 ELSE d BY <3>2 DEF Most
    <3> QED BY <3>1, <3>3
  <2>2. CASE ~(n > 0) BY <1>1, <1>2, <2>2
  <2> QED BY <2>1, <2>2
<1> QED BY <1>3 DEF w

(* The parts of a chunk of consecutive requests cover all their rows.       *)
LEMMA SubChunksTile ==
  ASSUME NEW L \in Nat, NEW F, NatTo(F, L),
         NEW qs, NEW ss, NEW offset, Loads(qs, ss, offset),
         NEW N \in Nat, N = Len(qs), offset + N <= L, PartOf(qs, F, offset, N),
         NEW a \in 1 .. Len(qs), NEW z \in a .. Len(qs),
         NEW u \in Nat, NEW v \in Nat, u = a + offset, v = z + offset
  PROVE  Tiles(F, SubChunks(qs, ss, a, z, offset), SumTo(F, u - 1), SumTo(F, v))
<1> DEFINE m == SumFromTo(qs, a, z)
           w == RowsPerCall(qs, ss, a, z)
           K == Cdiv(m, w)
           lo == SumTo(F, u - 1)
           hi == SumTo(F, v)
           s == SubChunks(qs, ss, a, z, offset)
<1>1. m \in Nat \ {0} BY LoadSums
<1>2. w \in Nat \ {0} BY RowsPerCallTyped
<1>3. s = [k \in 1 .. K |-> [first |-> u, last |-> v,
                             from |-> (k - 1) * w, to |-> Least(k * w, m)]]
  BY DEF SubChunks, RowsPerCall
<1>4. m = SumFromTo(F, u, v)
  <2>1. offset \in Nat BY DEF Loads
  <2>2. a \in 1 .. N /\ z \in a .. N OBVIOUS
  <2> HIDE DEF m
  <2>3. SumFromTo(qs, a, z) = SumFromTo(F, u, v) BY <2>1, <2>2, PartSums
  <2> QED BY <2>3 DEF m
<1>5. lo \in Nat /\ hi \in Nat /\ hi - lo = m
  <2>1. offset \in Nat BY DEF Loads
  <2>2. u - 1 \in 0 .. L /\ v \in 0 .. L BY <2>1
  <2>3. lo \in Nat /\ hi \in Nat BY <2>2, SumToStep
  <2> QED BY <1>4, <2>3 DEF SumFromTo
<1> HIDE DEF m, w, K, s
<1>6. DOMAIN s = 1 .. K /\ \A k \in 1 .. K : /\ s[k].first = u /\ s[k].last = v
                                              /\ s[k].from = (k - 1) * w /\ s[k].to = Least(k * w, m)
  BY <1>3
<1>7. ASSUME NEW g \in lo .. hi - 1 PROVE \E k \in DOMAIN s : CoversRow(F, s[k], g)
  <2> HIDE DEF lo, hi
  <2> DEFINE x == g - lo
             d == x \div w
             k == d + 1
  <2>1. x \in Nat /\ x < m /\ g = lo + x BY <1>1, <1>5
  <2> HIDE DEF x
  <2>2. d \in Nat /\ d * w <= x /\ x < d * w + w BY <1>2, <2>1, DivBounds
  <2> HIDE DEF d
  <2> DEFINE y == d * w
  <2>3. y \in Nat /\ y <= x /\ x < y + w BY <1>2, <2>2
  <2>4. k \in Nat /\ k * w = y + w /\ (k - 1) * w = y /\ 1 <= k BY <1>2, <2>2
  <2> HIDE DEF k, y
  <2>5. k <= K
    <3>1. m + w - 1 \in Nat BY <1>1, <1>2
    <3>2. k * w <= m + w - 1 BY <1>1, <1>2, <2>1, <2>3, <2>4
    <3>3. k <= (m + w - 1) \div w BY <1>2, <2>4, <3>1, <3>2, DivAtLeast
    <3> QED BY <3>3 DEF K, Cdiv
  <2>6. K \in Nat
    <3>1. m + w - 1 \in Nat BY <1>1, <1>2
    <3> QED BY <1>2, <3>1, DivBounds DEF K, Cdiv
  <2>7. k \in 1 .. K BY <2>4, <2>5, <2>6
  <2>8. s[k].first = u /\ s[k].from = y /\ s[k].to = Least(y + w, m) BY <1>6, <2>4, <2>7
  <2>9. lo + y <= g BY <1>5, <2>1, <2>3
  <2> DEFINE t == Least(y + w, m)
  <2>10. t = IF y + w < m THEN y + w ELSE m BY DEF Least
  <2> HIDE DEF t
  <2>11. t \in Nat /\ x < t BY <1>1, <1>2, <2>1, <2>3, <2>10
  <2>12. g < lo + t BY <1>5, <2>1, <2>11
  <2>13. s[k].to = t BY <2>8 DEF t
  <2>14. CoversRow(F, s[k], g) BY <2>8, <2>9, <2>12, <2>13 DEF CoversRow, lo
  <2> QED BY <1>6, <2>7, <2>14
<1>8. ASSUME NEW k \in DOMAIN s, s[k].from > 0 PROVE Follows(s, k)
  <2>1. k \in 1 .. K BY <1>6
  <2>2. (k - 1) * w > 0 BY <1>6, <1>8, <2>1
  <2>3. k # 1
    <3> SUFFICES ASSUME k = 1 PROVE FALSE OBVIOUS
    <3>1. (k - 1) * w = 0 BY <1>2
    <3> QED BY <2>2, <3>1
  <2>4. K \in Nat
    <3>1. m + w - 1 \in Nat BY <1>1, <1>2
    <3> QED BY <1>2, <3>1, DivBounds DEF K, Cdiv
  <2> DEFINE j == k - 1
  <2>5. j \in 1 .. K BY <2>1, <2>3, <2>4
  <2> HIDE DEF j
  <2>6. s[j].first = u /\ s[j].last = v /\ s[k].first = u /\ s[k].last = v BY <1>6, <2>1, <2>5
  <2> QED BY <1>6, <2>5, <2>6 DEF Follows, j
<1> QED BY <1>7, <1>8 DEF Tiles, s

(* The split of consecutive requests covers all their rows.                 *)
LEMMA SplitTiles ==
  ASSUME NEW L \in Nat, NEW F, NatTo(F, L),
         NEW qs, NEW ss, NEW offset, Loads(qs, ss, offset),
         NEW N \in Nat, N = Len(qs), offset + N <= L, PartOf(qs, F, offset, N)
  PROVE  Tiles(F, SplitChunks(qs, ss, offset), SumTo(F, offset), SumTo(F, offset + N))
<1> DEFINE T == CutSpecs(qs, ss, offset)
           sub == PieceOf(qs, ss, offset)
           end == EndOf(qs, ss)
           s == SplitOf(qs, ss, offset)
           start == [a \in 1 .. N + 1 |-> SumTo(F, (a + offset) - 1)]
<1>0. offset \in Nat BY DEF Loads
<1>1. start \in [1 .. N + 1 -> Nat]
  <2>1. \A a \in 1 .. N + 1 : (a + offset) - 1 \in 0 .. L BY <1>0
  <2>2. \A a \in 1 .. N + 1 : SumTo(F, (a + offset) - 1) \in Nat BY <2>1, SumToStep
  <2> QED BY <2>2
<1>2. /\ sub \in [1 .. N -> Seq(T)] /\ end \in [1 .. N -> 1 .. N]
      /\ \A a \in 1 .. N : a <= end[a]
      /\ Cuts(N, sub, end, s)
  BY SplitCuts
<1>3. \A a \in 1 .. N : sub[a] = SubChunks(qs, ss, a, end[a], offset)
  BY DEF PieceOf, EndOf
<1> HIDE DEF sub, end, T, s
<1>4. \A a \in 1 .. N : Tiles(F, sub[a], start[a], start[end[a] + 1])
  <2> SUFFICES ASSUME NEW a \in 1 .. N PROVE Tiles(F, sub[a], start[a], start[end[a] + 1]) OBVIOUS
  <2> DEFINE z == end[a]
             u == a + offset
             v == z + offset
  <2>1. z \in 1 .. N /\ z \in a .. Len(qs) BY <1>2
  <2>2. start[a] = SumTo(F, u - 1) BY <1>0
  <2>3. start[z + 1] = SumTo(F, v)
    <3> HIDE DEF z
    <3>1. z + 1 \in 1 .. N + 1 /\ ((z + 1) + offset) - 1 = z + offset BY <1>0, <2>1
    <3> QED BY <3>1
  <2>4. u \in Nat /\ v \in Nat
    <3> HIDE DEF z
    <3> QED BY <1>0, <2>1
  <2> HIDE DEF start, z
  <2>5. u = a + offset /\ v = z + offset OBVIOUS
  <2> HIDE DEF u, v
  <2>6. Tiles(F, SubChunks(qs, ss, a, z, offset), SumTo(F, u - 1), SumTo(F, v))
    BY <2>1, <2>4, <2>5, SubChunksTile
  <2> QED BY <1>3, <2>2, <2>3, <2>6 DEF z
<1>5. 1 \in 1 .. N + 1 OBVIOUS
<1>6. start[1] = SumTo(F, offset) /\ start[N + 1] = SumTo(F, offset + N)
  <2>1. (1 + offset) - 1 = offset /\ ((N + 1) + offset) - 1 = offset + N BY <1>0
  <2>2. N + 1 \in 1 .. N + 1 OBVIOUS
  <2> QED BY <1>5, <2>1, <2>2
<1> HIDE DEF start
<1>7. \A a \in 1 .. N + 1 : Tiles(F, s[a], start[a], start[N + 1])
  BY <1>1, <1>2, <1>4, CutsTile
<1>8. Tiles(F, s[1], start[1], start[N + 1]) BY <1>5, <1>7
<1> QED BY <1>6, <1>8, SplitChunksIs DEF s

(* The query lengths of the requests from nd + 1 on.                        *)
RestOf(b, nd) == SubSeq(QueryLens(b), nd + 1, Len(b))

(* b12x: the chunks of the k-th of those requests.                          *)
RequestSpecs(b, nd, k) == SplitChunks(<<RestOf(b, nd)[k]>>, <<Supertile>>, nd + k - 1)

(* They are a part of the batch's query lengths.                            *)
LEMMA RestOfTyped ==
  ASSUME NEW b \in Batches, conf \in Configs, NEW nd \in Nat
  PROVE  /\ Len(RestOf(b, nd)) = IF nd < Len(b) THEN Len(b) - nd ELSE 0
         /\ PartOf(RestOf(b, nd), QueryLens(b), nd, Len(RestOf(b, nd)))
<1> DEFINE F == QueryLens(b)
           L == Len(b)
           t == RestOf(b, nd)
<1>1. L \in Nat /\ F \in Seq(Nat \ {0}) /\ Len(F) = L
  <2>1. L \in Nat BY BatchSums
  <2> QED BY <2>1, BatchLoads
<1>2. t = SubSeq(F, nd + 1, Len(F)) BY <1>1 DEF RestOf
<1> HIDE DEF F, L, t
<1>3. /\ Len(SubSeq(F, nd + 1, Len(F))) = IF nd < Len(F) THEN Len(F) - nd ELSE 0
      /\ \A i \in 1 .. Len(SubSeq(F, nd + 1, Len(F))) :
           SubSeq(F, nd + 1, Len(F))[i] = F[nd + i]
  BY <1>1, Suffix
<1>4. Len(t) = IF nd < L THEN L - nd ELSE 0 BY <1>1, <1>2, <1>3
<1>5. PartOf(t, F, nd, Len(t)) BY <1>2, <1>3 DEF PartOf
<1> QED BY <1>4, <1>5 DEF t, F, L

(* b12x: the loop over the requests appends the chunks of one after another.*)
LEMMA EachUnfolds ==
  ASSUME NEW b \in Batches, conf \in Configs, conf.b12x, NEW nd \in Nat,
         NEW N, N = Len(RestOf(b, nd)), NEW e, e = EachOf(RestOf(b, nd), nd)
  PROVE  /\ e[0] = << >>
         /\ \A k \in 1 .. N : e[k] = e[k - 1] \o RequestSpecs(b, nd, k)
         /\ \A k \in 1 .. N : RequestSpecs(b, nd, k) \in Seq(GoodSpecs(b))
         /\ \A k \in 0 .. N : e[k] \in Seq(GoodSpecs(b))
<1> DEFINE F == QueryLens(b)
           L == Len(b)
           T == GoodSpecs(b)
           qs == RestOf(b, nd)
           Of(k) == RequestSpecs(b, nd, k)
           M == Len(qs)
           f == EachOf(qs, nd)
<1>1. L \in Nat /\ F \in Seq(Nat \ {0}) /\ Len(F) = L
  <2>1. L \in Nat BY BatchSums
  <2> QED BY <2>1, BatchLoads
<1>2. /\ M = (IF nd < L THEN L - nd ELSE 0)
      /\ \A i \in 1 .. M : qs[i] = F[nd + i]
  BY RestOfTyped DEF PartOf
<1>3. \A i \in 1 .. L : F[i] \in Nat \ {0} BY <1>1
<1>4. \A k : Of(k) = SplitChunks(<<qs[k]>>, <<Supertile>>, nd + k - 1) BY DEF RequestSpecs
<1>40. f = EachOf(qs, nd) OBVIOUS
<1> HIDE DEF F, L, qs, T, Of, M, f
<1>5. M \in Nat BY <1>1, <1>2
<1>6. ASSUME NEW k \in 1 .. M PROVE Of(k) \in Seq(T)
  <2> DEFINE d == nd + k - 1
             r == nd + k
  <2>1. d \in Nat /\ r \in 1 .. L /\ r = d + 1 BY <1>1, <1>2
  <2>2. qs[k] = F[r] /\ qs[k] \in Nat \ {0} BY <1>2, <1>3, <2>1
  <2>3. Of(k) = SplitChunks(<<qs[k]>>, <<Supertile>>, d) BY <1>4
  <2> HIDE DEF d, r
  <2>4. SplitChunks(<<qs[k]>>, <<Supertile>>, d) \in Seq(T)
    BY <2>1, <2>2, RequestSpecsTyped DEF F, L, T
  <2> QED BY <2>3, <2>4
<1> DEFINE step == [k \in 1 .. M |-> [x \in Seq(T) |-> x \o Of(k)]]
           Body(t) == [k \in 0 .. M |-> IF k = 0 THEN << >> ELSE t[k - 1] \o Of(k)]
<1>7. step \in [1 .. M -> [Seq(T) -> Seq(T)]]
  <2>1. \A k \in 1 .. M : \A x \in Seq(T) : x \o Of(k) \in Seq(T) BY <1>6, ConcatProperties
  <2> QED BY <2>1
<1>8. << >> \in Seq(T) BY EmptySeq
<1>9. PICK g \in [0 .. M -> Seq(T)] : Unfolds(M, << >>, step, g)
  <2> HIDE DEF step
  <2> QED BY <1>5, <1>7, <1>8, IterateUnfolds
<1>10. g = Body(g)
  <2>1. \A k \in 0 .. M : k # 0 => k \in 1 .. M /\ g[k - 1] \in Seq(T) BY <1>5
  <2>2. \A k \in 1 .. M : \A x \in Seq(T) : step[k][x] = x \o Of(k) OBVIOUS
  <2> HIDE DEF step
  <2>3. \A k \in 0 .. M : g[k] = Body(g)[k] BY <1>9, <2>1, <2>2 DEF Unfolds
  <2>4. DOMAIN g = 0 .. M /\ DOMAIN Body(g) = 0 .. M /\ g = [k \in 0 .. M |-> g[k]] OBVIOUS
  <2> QED BY <2>3, <2>4
<1>11. f = CHOOSE t : t = Body(t) BY <1>4, <1>40 DEF EachOf, M
<1> HIDE DEF Body
<1>12. f = Body(f)
  <2>1. \E t : t = Body(t) BY <1>10
  <2> QED BY <1>11, <2>1, Zenon
<1>13. f[0] = << >>
  <2>1. 0 \in 0 .. M BY <1>5
  <2> QED BY <1>12, <2>1 DEF Body
<1>14. \A k \in 1 .. M : f[k] = f[k - 1] \o Of(k)
  <2> SUFFICES ASSUME NEW k \in 1 .. M PROVE f[k] = f[k - 1] \o Of(k) OBVIOUS
  <2>1. k \in 0 .. M /\ k # 0 BY <1>5
  <2> QED BY <1>12, <2>1 DEF Body
<1>15. \A k \in 1 .. M : f[k - 1] \in Seq(T) => f[k] = step[k][f[k - 1]]
  <2>1. \A k \in 1 .. M : \A x \in Seq(T) : step[k][x] = x \o Of(k) OBVIOUS
  <2> HIDE DEF step
  <2> QED BY <1>14, <2>1
<1> HIDE DEF step
<1>16. \A k \in 0 .. M : f[k] \in Seq(T)
  <2>1. f[0] \in Seq(T) BY <1>8, <1>13
  <2> QED BY <1>5, <1>7, <1>15, <2>1, IteratesTyped
<1> QED BY <1>6, <1>13, <1>14, <1>16 DEF T, Of, M, f, qs

(* b12x: one request's chunks cover its rows.                               *)
LEMMA RequestSpecsTile ==
  ASSUME NEW b \in Batches, conf \in Configs, NEW nd \in Nat, NEW q \in Nat \ {0},
         NEW r \in 1 .. Len(b), r = nd + 1, q = QueryLens(b)[r]
  PROVE  Tiles(QueryLens(b), SplitChunks(<<q>>, <<Supertile>>, nd),
               SumTo(QueryLens(b), nd), SumTo(QueryLens(b), r))
<1> DEFINE qs == <<q>>
           ss == <<Supertile>>
           L == Len(b)
           F == QueryLens(b)
<1>1. /\ qs \in Seq(Nat \ {0}) /\ Len(qs) = 1 /\ qs[1] = q
      /\ ss \in Seq(Nat) /\ Len(ss) = 1
  BY Budgets
<1>2. L \in Nat /\ NatTo(F, L) BY BatchSums
<1> HIDE DEF qs, ss, L, F
<1>3. Loads(qs, ss, nd) BY <1>1 DEF Loads
<1>4. PartOf(qs, F, nd, 1)
  <2>1. q = F[nd + 1] BY DEF F
  <2>2. \A i \in 1 .. 1 : i = 1 OBVIOUS
  <2> QED BY <1>1, <2>1, <2>2 DEF PartOf
<1>5. nd + 1 <= L BY <1>2 DEF L
<1>6. 1 \in Nat OBVIOUS
<1> DEFINE One == 1
<1>7. One \in Nat /\ One = Len(qs) /\ nd + One <= L /\ PartOf(qs, F, nd, One) /\ nd + One = r
  BY <1>1, <1>4, <1>5
<1> HIDE DEF One
<1>8. Tiles(F, SplitChunks(qs, ss, nd), SumTo(F, nd), SumTo(F, nd + One))
  BY <1>2, <1>3, <1>7, SplitTiles
<1> QED BY <1>7, <1>8 DEF qs, ss, F

(* The chunk specifications cover the rows of every request from nd + 1 on. *)
LEMMA SpecsTile ==
  ASSUME NEW b \in Batches, conf \in Configs, NEW nd \in 0 .. Len(b)
  PROVE  Tiles(QueryLens(b), ChunkSpecs(b, nd), SumTo(QueryLens(b), nd), Rows(b))
<1> DEFINE F == QueryLens(b)
           L == Len(b)
           qs == RestOf(b, nd)
           N == Len(qs)
<1>1. L \in Nat /\ NatTo(F, L) /\ Rows(b) = SumTo(F, L) BY BatchSums DEF Rows
<1>2. nd \in Nat /\ nd <= L BY <1>1
<1>3. N = (IF nd < L THEN L - nd ELSE 0) /\ PartOf(qs, F, nd, N) BY <1>2, RestOfTyped
<1>4. N \in Nat /\ nd + N = L
  <2> HIDE DEF N, L
  <2> QED BY <1>1, <1>2, <1>3
<1>5. CASE ~conf.b12x
  <2> DEFINE ss == SubSeq(CompressedUb(b), nd + 1, Len(b))
  <2>1. Loads(qs, ss, nd) BY <1>2, ContextSpecsTyped DEF RestOf
  <2>2. ChunkSpecs(b, nd) = SplitChunks(qs, ss, nd) BY <1>5 DEF ChunkSpecs, RestOf
  <2> HIDE DEF qs, ss, F, L
  <2>3. N = Len(qs) OBVIOUS
  <2> HIDE DEF N
  <2>4. nd + N <= L BY <1>1, <1>4
  <2>5. Tiles(F, SplitChunks(qs, ss, nd), SumTo(F, nd), SumTo(F, nd + N))
    BY <1>1, <1>2, <1>3, <1>4, <2>1, <2>3, <2>4, SplitTiles
  <2> QED BY <1>1, <1>4, <2>2, <2>5 DEF F
<1>6. CASE conf.b12x
  <2> DEFINE e == EachOf(qs, nd)
             T == GoodSpecs(b)
  <2>1. /\ e[0] = << >>
        /\ \A k \in 1 .. N : e[k] = e[k - 1] \o RequestSpecs(b, nd, k)
        /\ \A k \in 1 .. N : RequestSpecs(b, nd, k) \in Seq(T)
        /\ \A k \in 0 .. N : e[k] \in Seq(T)
    BY <1>2, <1>6, EachUnfolds
  <2>2. ChunkSpecs(b, nd) = e[N] BY <1>6, EachChunkSpecs DEF RestOf
  <2>3. \A i \in 1 .. L : F[i] \in Nat \ {0}
    <3>1. F \in Seq(Nat \ {0}) /\ Len(F) = L BY BatchLoads
    <3> QED BY <3>1
  <2>4. ASSUME NEW k \in 1 .. N
        PROVE  Tiles(F, RequestSpecs(b, nd, k), SumTo(F, nd + (k - 1)), SumTo(F, nd + k))
    <3> DEFINE d == nd + k - 1
               r == nd + k
    <3> HIDE DEF F, L, qs, N
    <3>1. d \in Nat /\ r \in 1 .. L /\ r = d + 1 /\ d = nd + (k - 1) BY <1>1, <1>2, <1>4
    <3>2. qs[k] = F[r] /\ qs[k] \in Nat \ {0} BY <1>3, <2>3, <3>1 DEF PartOf
    <3>3. RequestSpecs(b, nd, k) = SplitChunks(<<qs[k]>>, <<Supertile>>, d) BY DEF RequestSpecs, qs
    <3> HIDE DEF d, r
    <3>4. Tiles(F, SplitChunks(<<qs[k]>>, <<Supertile>>, d), SumTo(F, d), SumTo(F, r))
      BY <3>1, <3>2, RequestSpecsTile DEF F, L
    <3> QED BY <3>1, <3>3, <3>4 DEF r
  <2> DEFINE lo == SumTo(F, nd)
             At(k) == SumTo(F, nd + k)
             Bad == { k \in 0 .. N : ~Tiles(F, e[k], lo, At(k)) }
  <2>5. \A k \in 0 .. N : At(k) \in Nat
    <3> HIDE DEF N, F, L
    <3>1. \A k \in 0 .. N : nd + k \in 0 .. L BY <1>1, <1>2, <1>4
    <3> QED BY <1>1, <3>1, SumToStep
  <2>6. lo \in Nat /\ At(0) = lo
    <3>1. 0 \in 0 .. N /\ nd + 0 = nd BY <1>2, <1>4
    <3> QED BY <2>5, <3>1
  <2>7. \A k \in 1 .. N : Tiles(F, RequestSpecs(b, nd, k), At(k - 1), At(k)) BY <2>4
  <2> HIDE DEF N, F, L, qs, e, lo, At, T
  <2>8. Bad = {}
    <3> SUFFICES ASSUME Bad # {} PROVE FALSE OBVIOUS
    <3>1. Bad \in SUBSET Nat BY <1>4
    <3>2. PICK k \in Bad : \A j \in Bad : k <= j
      <4> HIDE DEF Bad
      <4> QED BY <3>1, LeastExists
    <3>3. k \in 0 .. N /\ ~Tiles(F, e[k], lo, At(k)) OBVIOUS
    <3>4. k # 0
      <4> SUFFICES ASSUME k = 0 PROVE FALSE OBVIOUS
      <4>1. Tiles(F, << >>, lo, lo) BY <2>6, EmptyTiles
      <4> QED BY <2>1, <2>6, <3>3, <4>1
    <3> DEFINE j == k - 1
    <3>5. j \in 0 .. N /\ j < k /\ k \in 1 .. N /\ k \in Nat /\ j \in Nat BY <1>4, <3>3, <3>4
    <3>6. Tiles(F, RequestSpecs(b, nd, k), At(j), At(k)) /\ e[k] = e[j] \o RequestSpecs(b, nd, k)
      BY <2>1, <2>7, <3>5
    <3> HIDE DEF j
    <3>7. j \notin Bad
      <4> HIDE DEF Bad
      <4> QED BY <3>2, <3>5
    <3>8. Tiles(F, e[j], lo, At(j)) BY <3>5, <3>7
    <3>9. e[j] \in Seq(T) /\ RequestSpecs(b, nd, k) \in Seq(T) BY <2>1, <3>5
    <3>10. At(j) \in Nat /\ At(k) \in Nat BY <2>5, <3>5
    <3>11. Tiles(F, e[j] \o RequestSpecs(b, nd, k), lo, At(k))
      BY <2>6, <3>6, <3>8, <3>9, <3>10, ConcatTiles
    <3> QED BY <3>3, <3>6, <3>11
  <2>9. N \in 0 .. N BY <1>4
  <2>10. Tiles(F, e[N], lo, At(N)) BY <2>8, <2>9
  <2>11. At(N) = Rows(b) BY <1>1, <1>4 DEF At
  <2> QED BY <2>2, <2>10, <2>11 DEF F, lo
<1>7. conf.b12x \in BOOLEAN BY ConfTyped
<1> QED BY <1>5, <1>6, <1>7

(* The chunks with K rows among the first k of M, in order.                 *)
Keeps(e, M, k) ==
  /\ \A j \in 1 .. k : HasKv(M[j]) => \E i \in DOMAIN e : e[i] = M[j]
  /\ \A i \in DOMAIN e : e[i].skipGather => Follows(e, i)
  /\ k > 0 /\ HasKv(M[k]) => Len(e) > 0 /\ e[Len(e)] = M[k]

(* One more chunk that is kept.                                             *)
LEMMA KeepsAppended ==
  ASSUME NEW N \in Nat, NEW S, NEW M \in [1 .. N -> S],
         NEW k \in 1 .. N, HasKv(M[k]),
         M[k].skipGather => Follows(M, k) /\ HasKv(M[k - 1]),
         NEW e \in Seq(S), Keeps(e, M, k - 1)
  PROVE  Append(e, M[k]) \in Seq(S) /\ Keeps(Append(e, M[k]), M, k)
<1> DEFINE n == Len(e)
           c == M[k]
           t == Append(e, c)
<1>1. c \in S /\ n \in Nat /\ DOMAIN e = 1 .. n OBVIOUS
<1>2. /\ t \in Seq(S) /\ Len(t) = n + 1 /\ DOMAIN t = 1 .. n + 1
      /\ (\A i \in 1 .. n : t[i] = e[i]) /\ t[n + 1] = c
  <2>1. c \in S OBVIOUS
  <2> HIDE DEF c
  <2> QED BY <2>1, AppendProperties
<1>3. c = M[k] OBVIOUS
<1> HIDE DEF t, c, n
<1>4. n + 1 \in 1 .. n + 1 /\ \A i \in 1 .. n : i \in 1 .. n + 1 BY <1>1
<1>5. ASSUME NEW j \in 1 .. k, HasKv(M[j]) PROVE \E i \in DOMAIN t : t[i] = M[j]
  <2>1. CASE j = k BY <1>2, <1>3, <1>4, <2>1
  <2>2. CASE j # k
    <3>1. j \in 1 .. k - 1 BY <2>2
    <3>2. PICK i \in DOMAIN e : e[i] = M[j] BY <1>5, <3>1 DEF Keeps
    <3> QED BY <1>1, <1>2, <1>4, <3>2
  <2> QED BY <2>1, <2>2
<1>6. ASSUME NEW i \in DOMAIN t, t[i].skipGather PROVE Follows(t, i)
  <2>1. CASE i # n + 1
    <3>1. i \in 1 .. n BY <1>1, <1>2, <2>1
    <3>2. Follows(e, i) BY <1>1, <1>2, <1>6, <3>1 DEF Keeps
    <3>3. i - 1 \in 1 .. n BY <1>1, <3>2 DEF Follows
    <3>4. t[i] = e[i] /\ t[i - 1] = e[i - 1] /\ i - 1 \in DOMAIN t BY <1>2, <1>4, <3>1, <3>3
    <3> QED BY <3>2, <3>4 DEF Follows
  <2>2. CASE i = n + 1
    <3>1. Follows(M, k) /\ HasKv(M[k - 1]) BY <1>2, <1>3, <1>6, <2>2
    <3>2. k - 1 \in 1 .. N /\ M[k - 1].first = c.first /\ M[k - 1].last = c.last
      BY <1>3, <3>1 DEF Follows
    <3>3. k - 1 > 0 BY <3>2
    <3>4. n > 0 /\ e[n] = M[k - 1] BY <3>1, <3>3 DEF Keeps, n
    <3>5. n \in 1 .. n /\ i - 1 = n BY <1>1, <2>2, <3>4
    <3>6. t[i - 1] = e[n] /\ i - 1 \in DOMAIN t /\ t[i] = c BY <1>2, <1>4, <2>2, <3>5
    <3> QED BY <3>2, <3>4, <3>6 DEF Follows
  <2> QED BY <2>1, <2>2
<1>7. Len(t) > 0 /\ t[Len(t)] = M[k] BY <1>1, <1>2, <1>3
<1>8. Keeps(t, M, k) BY <1>5, <1>6, <1>7 DEF Keeps
<1> QED BY <1>2, <1>3, <1>8 DEF t

(* One more chunk that is dropped.                                          *)
LEMMA KeepsDropped ==
  ASSUME NEW N \in Nat, NEW M, NEW k \in 1 .. N, ~HasKv(M[k]), NEW e, Keeps(e, M, k - 1)
  PROVE  Keeps(e, M, k)
<1>1. ASSUME NEW j \in 1 .. k, HasKv(M[j]) PROVE \E i \in DOMAIN e : e[i] = M[j]
  <2>1. j # k BY <1>1
  <2>2. j \in 1 .. k - 1 BY <2>1
  <2> QED BY <1>1, <2>2 DEF Keeps
<1>2. \A i \in DOMAIN e : e[i].skipGather => Follows(e, i) BY DEF Keeps
<1> QED BY <1>1, <1>2 DEF Keeps

(* The loop over the chunks keeps those with K rows, in order.              *)
LEMMA FilterKeeps ==
  ASSUME NEW N \in Nat, NEW S, NEW M \in [1 .. N -> S],
         \A k \in 1 .. N : M[k].skipGather /\ HasKv(M[k]) => Follows(M, k) /\ HasKv(M[k - 1]),
         NEW e, e[0] = << >>,
         \A k \in 1 .. N : e[k] = IF HasKv(M[k]) THEN Append(e[k - 1], M[k]) ELSE e[k - 1]
  PROVE  \A k \in 0 .. N : e[k] \in Seq(S) /\ Keeps(e[k], M, k)
<1> DEFINE Good(k) == e[k] \in Seq(S) /\ Keeps(e[k], M, k)
           Bad == { k \in 0 .. N : ~Good(k) }
<1>1. Good(0)
  <2>1. DOMAIN << >> = {} /\ 1 .. 0 = {} OBVIOUS
  <2>2. Keeps(<< >>, M, 0) BY <2>1 DEF Keeps
  <2>3. << >> \in Seq(S) BY EmptySeq
  <2> QED BY <2>2, <2>3
<1>2. ASSUME NEW k \in 1 .. N, Good(k - 1) PROVE Good(k)
  <2> DEFINE x == e[k - 1]
             y == e[k]
  <2>1. y = IF HasKv(M[k]) THEN Append(x, M[k]) ELSE x OBVIOUS
  <2>2. x \in Seq(S) /\ Keeps(x, M, k - 1) BY <1>2
  <2>3. M[k].skipGather /\ HasKv(M[k]) => Follows(M, k) /\ HasKv(M[k - 1]) OBVIOUS
  <2> HIDE DEF x, y
  <2>4. CASE HasKv(M[k])
    <3>1. Append(x, M[k]) \in Seq(S) /\ Keeps(Append(x, M[k]), M, k)
      BY <2>2, <2>3, <2>4, KeepsAppended
    <3> QED BY <2>1, <2>4, <3>1 DEF y
  <2>5. CASE ~HasKv(M[k])
    <3>1. Keeps(x, M, k) BY <2>2, <2>5, KeepsDropped
    <3> QED BY <2>1, <2>2, <2>5, <3>1 DEF y
  <2> QED BY <2>4, <2>5
<1> HIDE DEF Good
<1>3. Bad = {}
  <2> SUFFICES ASSUME Bad # {} PROVE FALSE OBVIOUS
  <2>1. Bad \in SUBSET Nat OBVIOUS
  <2>2. PICK k \in Bad : \A j \in Bad : k <= j
    <3> HIDE DEF Bad
    <3> QED BY <2>1, LeastExists
  <2>3. k \in 0 .. N /\ ~Good(k) OBVIOUS
  <2>4. k # 0 BY <1>1, <2>3
  <2>5. k \in 1 .. N /\ k - 1 \in 0 .. N /\ k - 1 < k BY <2>3, <2>4
  <2>6. Good(k - 1) BY <2>2, <2>5
  <2> QED BY <1>2, <2>3, <2>5, <2>6
<1> QED BY <1>3 DEF Good

(* The chunks of a batch before those without K rows are dropped.           *)
MetadataOf(b, nd) ==
  [k \in 1 .. Len(ChunkSpecs(b, nd)) |-> ChunkMetadata(b, ChunkSpecs(b, nd)[k])]

(* The loop over the specifications, unfolded.                              *)
LEMMA BuiltUnfolds ==
  ASSUME NEW b \in Batches, conf \in Configs, NEW nd \in Nat
  PROVE  /\ Len(ChunkSpecs(b, nd)) \in Nat
         /\ BuiltOf(b, ChunkSpecs(b, nd))[0] = << >>
         /\ \A k \in 1 .. Len(ChunkSpecs(b, nd)) :
              BuiltOf(b, ChunkSpecs(b, nd))[k] =
                IF HasKv(MetadataOf(b, nd)[k])
                THEN Append(BuiltOf(b, ChunkSpecs(b, nd))[k - 1], MetadataOf(b, nd)[k])
                ELSE BuiltOf(b, ChunkSpecs(b, nd))[k - 1]
<1> DEFINE specs == ChunkSpecs(b, nd)
           N == Len(specs)
           M == MetadataOf(b, nd)
           T == { M[k] : k \in 1 .. N }
<1>1. N \in Nat
  <2>1. specs \in Seq(GoodSpecs(b)) BY ChunkSpecsTyped
  <2> QED BY <2>1
<1>2. \A k \in 1 .. N : M[k] = ChunkMetadata(b, specs[k]) BY DEF MetadataOf
<1>3. \A k \in 1 .. N : M[k] \in T OBVIOUS
<1> HIDE DEF specs, N, M, T
<1> DEFINE Keep(x, k) == IF HasKv(M[k]) THEN Append(x, M[k]) ELSE x
           step == [k \in 1 .. N |-> [x \in Seq(T) |-> Keep(x, k)]]
           Body(t) == [k \in 0 .. N |-> IF k = 0 THEN << >> ELSE Keep(t[k - 1], k)]
<1>4. \A k \in 1 .. N : \A x \in Seq(T) : Keep(x, k) \in Seq(T)
  <2> SUFFICES ASSUME NEW k \in 1 .. N, NEW x \in Seq(T) PROVE Keep(x, k) \in Seq(T) OBVIOUS
  <2>1. M[k] \in T BY <1>3
  <2>2. Append(x, M[k]) \in Seq(T) BY <2>1, AppendProperties
  <2> QED BY <2>2
<1> HIDE DEF Keep
<1>5. step \in [1 .. N -> [Seq(T) -> Seq(T)]] BY <1>4
<1>6. \A k \in 1 .. N : \A x \in Seq(T) : step[k][x] = Keep(x, k) OBVIOUS
<1>7. << >> \in Seq(T) BY EmptySeq
<1> HIDE DEF step
<1>8. PICK g \in [0 .. N -> Seq(T)] : Unfolds(N, << >>, step, g)
  BY <1>1, <1>5, <1>7, IterateUnfolds
<1>9. g = Body(g)
  <2>1. \A k \in 0 .. N : k # 0 => k \in 1 .. N /\ g[k - 1] \in Seq(T) BY <1>1
  <2>2. \A k \in 0 .. N : g[k] = Body(g)[k] BY <1>6, <1>8, <2>1 DEF Unfolds
  <2>3. DOMAIN g = 0 .. N /\ DOMAIN Body(g) = 0 .. N /\ g = [k \in 0 .. N |-> g[k]] OBVIOUS
  <2> QED BY <2>2, <2>3
<1> DEFINE e == BuiltOf(b, specs)
<1>10. e = CHOOSE t : t = Body(t)
  <2> DEFINE Own(t) == [k \in 0 .. N |->
                          IF k = 0 THEN << >>
                          ELSE LET c == ChunkMetadata(b, specs[k])
                               IN  IF HasKv(c) THEN Append(t[k - 1], c) ELSE t[k - 1]]
  <2>1. e = CHOOSE t : t = Own(t) BY DEF BuiltOf, N
  <2>2. ASSUME NEW t PROVE Own(t) = Body(t)
    <3>1. \A k \in 0 .. N : k # 0 => k \in 1 .. N BY <1>1
    <3>2. \A k \in 0 .. N : Own(t)[k] = Body(t)[k] BY <1>2, <3>1 DEF Keep
    <3>3. DOMAIN Own(t) = 0 .. N /\ DOMAIN Body(t) = 0 .. N OBVIOUS
    <3> QED BY <3>2, <3>3
  <2> HIDE DEF Own, Body, e
  <2>3. \A t : (t = Own(t)) = (t = Body(t)) BY <2>2
  <2>4. (CHOOSE t : t = Own(t)) = CHOOSE t : t = Body(t) BY <2>3, Zenon
  <2> QED BY <2>1, <2>4
<1> HIDE DEF e, Body
<1>11. e = Body(e)
  <2>1. \E t : t = Body(t) BY <1>9
  <2> QED BY <1>10, <2>1, Zenon
<1>12. e[0] = << >>
  <2>1. 0 \in 0 .. N BY <1>1
  <2> QED BY <1>11, <2>1 DEF Body
<1>13. \A k \in 1 .. N : e[k] = IF HasKv(M[k]) THEN Append(e[k - 1], M[k]) ELSE e[k - 1]
  <2> SUFFICES ASSUME NEW k \in 1 .. N PROVE e[k] = Keep(e[k - 1], k) BY DEF Keep
  <2>1. k \in 0 .. N /\ k # 0 BY <1>1
  <2> QED BY <1>11, <2>1 DEF Body
<1> QED BY <1>1, <1>12, <1>13 DEF N, M, e, specs

RowsOfChunk(c) == c.start .. c.start + c.rows - 1

(* A specification without K rows, as far as the bounds tell.               *)
EmptySpec(b, sp) == SumFromTo(CompressedUb(b), sp.first, sp.last) = 0

(* The chunks of a step, built from good specifications, in order, each     *)
(* that gathers nothing after one of the same requests; they cover the rows *)
(* from lo on, but for those of requests without K rows.                    *)
ChunksCover(b, cs, lo) ==
  /\ \A k \in DOMAIN cs : \E sp \in GoodSpecs(b) : cs[k] = ChunkMetadata(b, sp)
  /\ \A k \in DOMAIN cs : cs[k].skipGather => Follows(cs, k)
  /\ \A g \in lo .. Rows(b) - 1 :
       \/ \E k \in DOMAIN cs : g \in RowsOfChunk(cs[k])
       \/ \E sp \in GoodSpecs(b) : CoversRow(QueryLens(b), sp, g) /\ EmptySpec(b, sp)

(* A chunk has the rows its specification covers.                           *)
LEMMA ChunkRows ==
  ASSUME NEW b \in Batches, conf \in Configs, NEW sp \in GoodSpecs(b)
  PROVE  \A g \in Int : CoversRow(QueryLens(b), sp, g) <=> g \in RowsOfChunk(ChunkMetadata(b, sp))
<1> DEFINE L == Len(b)
           F == QueryLens(b)
           c == ChunkMetadata(b, sp)
           f == SumTo(F, sp.first - 1)
<1>1. sp.from \in Nat /\ sp.to \in Nat /\ sp.first \in 1 .. L BY DEF GoodSpecs, GoodSpec
<1>2. L \in Nat /\ NatTo(F, L) BY BatchSums
<1>3. c.start = f + sp.from /\ c.rows = sp.to - sp.from BY DEF ChunkMetadata, StartLoc
<1> HIDE DEF F, c, L
<1>4. f \in Nat
  <2>1. sp.first - 1 \in 0 .. L BY <1>1, <1>2
  <2> QED BY <1>2, <2>1, SumToStep
<1>5. \A g : CoversRow(F, sp, g) = (f + sp.from <= g /\ g < f + sp.to) BY DEF CoversRow
<1> DEFINE x == sp.from
           y == sp.to
<1>6. x \in Nat /\ y \in Nat /\ c.start = f + x /\ c.rows = y - x BY <1>1, <1>3
<1>7. \A g : CoversRow(F, sp, g) = (f + x <= g /\ g < f + y) BY <1>5
<1> HIDE DEF f, x, y
<1>8. ASSUME NEW g \in Int PROVE CoversRow(F, sp, g) <=> g \in RowsOfChunk(c)
  <2>1. RowsOfChunk(c) = (f + x) .. (f + x) + (y - x) - 1 BY <1>6 DEF RowsOfChunk
  <2>2. (f + x) + (y - x) - 1 = f + y - 1 BY <1>4, <1>6
  <2>3. g \in RowsOfChunk(c) <=> f + x <= g /\ g <= f + y - 1 BY <1>4, <1>6, <2>1, <2>2
  <2>4. g <= f + y - 1 <=> g < f + y BY <1>4, <1>6
  <2> QED BY <1>7, <2>3, <2>4
<1> QED BY <1>8 DEF F, c

(* The builder's chunks cover the rows of the requests from nd + 1 on.      *)
LEMMA PrefillCovers ==
  ASSUME NEW b \in Batches, conf \in Configs, NEW nd \in 0 .. Len(b)
  PROVE  ChunksCover(b, PrefillMetadata(b, nd), SumTo(QueryLens(b), nd))
<1> DEFINE F == QueryLens(b)
           lo == SumTo(F, nd)
           specs == ChunkSpecs(b, nd)
           N == Len(specs)
           M == MetadataOf(b, nd)
           S == { M[k] : k \in 1 .. N }
           e == BuiltOf(b, specs)
           p == PrefillMetadata(b, nd)
<1>1. Len(b) \in Nat /\ lo \in Nat /\ Rows(b) \in Nat BY BatchSums
<1>2. nd \in Nat BY <1>1
<1>3. /\ N \in Nat /\ e[0] = << >>
      /\ \A k \in 1 .. N : e[k] = IF HasKv(M[k]) THEN Append(e[k - 1], M[k]) ELSE e[k - 1]
  BY <1>2, BuiltUnfolds
<1>4. Tiles(F, specs, lo, Rows(b)) BY SpecsTile
<1>5. \A k \in 1 .. N : M[k] = ChunkMetadata(b, specs[k]) BY DEF MetadataOf
<1>6. M \in [1 .. N -> S]
  <2>1. M = [k \in 1 .. N |-> M[k]] BY DEF MetadataOf
  <2>2. \A k \in 1 .. N : M[k] \in S OBVIOUS
  <2> HIDE DEF M, S, N
  <2> QED BY <2>1, <2>2
<1>7. p = e[N] BY PrefillMetadataIs
<1>8. DOMAIN specs = 1 .. N /\ \A k \in 1 .. N : specs[k] \in GoodSpecs(b)
  <2>1. specs \in Seq(GoodSpecs(b)) BY <1>2, ChunkSpecsTyped
  <2> HIDE DEF specs
  <2> QED BY <2>1
<1>9. \A x \in S : \E k \in 1 .. N : x = M[k] OBVIOUS
<1>10. \A k \in 1 .. N :
         /\ M[k].first = specs[k].first /\ M[k].last = specs[k].last
         /\ M[k].skipGather = (specs[k].from > 0)
         /\ M[k].total = SumFromTo(CompressedUb(b), specs[k].first, specs[k].last)
  <2> DEFINE As(c, sp) == /\ c.first = sp.first /\ c.last = sp.last
                          /\ c.skipGather = (sp.from > 0)
                          /\ c.total = SumFromTo(CompressedUb(b), sp.first, sp.last)
  <2>1. ASSUME NEW sp PROVE As(ChunkMetadata(b, sp), sp) BY DEF ChunkMetadata
  <2>2. ASSUME NEW k \in 1 .. N PROVE As(M[k], specs[k])
    <3> HIDE DEF As, M, specs, N
    <3> QED BY <1>5, <2>1
  <2> QED BY <2>2
<1>11. DOMAIN M = 1 .. N BY <1>6
<1> HIDE DEF specs, N, M, S, e, p, lo, F
<1>12. ASSUME NEW k \in 1 .. N, M[k].skipGather, HasKv(M[k])
       PROVE  Follows(M, k) /\ HasKv(M[k - 1])
  <2>1. Follows(specs, k) BY <1>4, <1>8, <1>10, <1>12 DEF Tiles
  <2> DEFINE j == k - 1
  <2>2. j \in 1 .. N /\ specs[j].first = specs[k].first /\ specs[j].last = specs[k].last
    BY <1>8, <2>1 DEF Follows
  <2> HIDE DEF j
  <2>3. M[j].first = M[k].first /\ M[j].last = M[k].last /\ M[j].total = M[k].total
    BY <1>10, <2>2
  <2>4. Follows(M, k) BY <1>11, <2>2, <2>3 DEF Follows, j
  <2>5. HasKv(M[j]) BY <1>12, <2>3 DEF HasKv
  <2> QED BY <2>4, <2>5 DEF j
<1>13. \A k \in 0 .. N : e[k] \in Seq(S) /\ Keeps(e[k], M, k) BY <1>3, <1>6, <1>12, FilterKeeps
<1>14. p \in Seq(S) /\ Keeps(p, M, N)
  <2>1. N \in 0 .. N BY <1>3
  <2> QED BY <1>7, <1>13, <2>1
<1>15. ASSUME NEW k \in DOMAIN p PROVE \E sp \in GoodSpecs(b) : p[k] = ChunkMetadata(b, sp)
  <2>1. p[k] \in S BY <1>14
  <2>2. PICK i \in 1 .. N : p[k] = M[i] BY <1>9, <2>1
  <2> QED BY <1>5, <1>8, <2>2
<1>16. \A k \in DOMAIN p : p[k].skipGather => Follows(p, k) BY <1>14 DEF Keeps
<1>17. ASSUME NEW g \in lo .. Rows(b) - 1
       PROVE  \/ \E k \in DOMAIN p : g \in RowsOfChunk(p[k])
              \/ \E sp \in GoodSpecs(b) : CoversRow(F, sp, g) /\ EmptySpec(b, sp)
  <2>1. PICK k \in 1 .. N : CoversRow(F, specs[k], g) BY <1>4, <1>8 DEF Tiles
  <2>2. specs[k] \in GoodSpecs(b) /\ M[k] = ChunkMetadata(b, specs[k]) BY <1>5, <1>8
  <2>3. CASE HasKv(M[k])
    <3>1. PICK i \in DOMAIN p : p[i] = M[k] BY <1>14, <2>3 DEF Keeps
    <3>2. g \in Int BY <1>1
    <3>3. g \in RowsOfChunk(M[k]) BY <2>1, <2>2, <3>2, ChunkRows DEF F
    <3> QED BY <3>1, <3>3
  <2>4. CASE ~HasKv(M[k])
    <3>1. M[k].total \in Nat BY <2>2, ChunkMetadataFits DEF FittingChunk
    <3>2. M[k].total = 0 BY <2>4, <3>1 DEF HasKv
    <3>3. EmptySpec(b, specs[k]) BY <1>10, <3>2 DEF EmptySpec
    <3> QED BY <2>1, <2>2, <3>3
  <2> QED BY <2>3, <2>4
<1>18. ChunksCover(b, p, lo) BY <1>15, <1>16, <1>17 DEF ChunksCover, F
<1> QED BY <1>18 DEF p, lo, F

(* K row j of request r, where its page holds it; and the first n of them.  *)
KRow(r, j) == <<<<r, j \div Storage>>, j % Storage>>
FirstRows(r, n) == { KRow(r, j) : j \in 0 .. n - 1 }

(* The context of a row of request r, at place i of its query.              *)
ContextLen(b, r, i) == (b[r].s - b[r].q + 1 + i) \div conf.ratio

(* It is part of what the request owns.                                     *)
LEMMA ContextLenTyped ==
  ASSUME NEW b \in Batches, conf \in Configs, NEW r \in 1 .. Len(b), NEW i \in 0 .. b[r].q - 1
  PROVE  /\ ContextLen(b, r, i) \in Nat
         /\ ContextLen(b, r, i) <= CompressedLens(b)[r]
         /\ CompressedLens(b)[r] = b[r].s \div conf.ratio
         /\ OwnContext(r, b[r].s - b[r].q + i) = FirstRows(r, ContextLen(b, r, i))
<1> DEFINE s == b[r].s
           q == b[r].q
           d == conf.ratio
           x == s - q + 1 + i
<1>1. s \in Nat /\ q \in Nat \ {0} /\ q <= s
  <2>1. b[r] \in Requests BY BatchTyped
  <2> QED BY <2>1, RequestTyped
<1>2. d \in Nat \ {0} BY ConfTyped
<1>3. CompressedLens(b)[r] = s \div d BY BatchLoads
<1>4. ContextLen(b, r, i) = x \div d BY DEF ContextLen
<1>5. i \in 0 .. q - 1 OBVIOUS
<1>6. OwnContext(r, s - q + i) = { KRow(r, c) : c \in 0 .. (s - q + i + 1) \div d - 1 }
  BY DEF OwnContext, KRow
<1> HIDE DEF s, q, d
<1>7. x \in Nat /\ x <= s /\ s - q + i + 1 = x BY <1>1, <1>5
<1> HIDE DEF x
<1>8. x \div d \in Nat /\ x \div d <= s \div d BY <1>1, <1>2, <1>7, DivBounds, DivGrows
<1>9. OwnContext(r, s - q + i) = FirstRows(r, x \div d) BY <1>6, <1>7 DEF FirstRows
<1> QED BY <1>3, <1>4, <1>8, <1>9 DEF s, q, d

(* An entry of a list, after those before it, lies within the sum of any    *)
(* stretch of the list that holds it.                                       *)
LEMMA EntryWithin ==
  ASSUME NEW L \in Nat, NEW f, NatTo(f, L), NEW a \in 1 .. L, NEW z \in a .. L, NEW r \in a .. z
  PROVE  /\ SumFromTo(f, a, r - 1) \in Nat /\ f[r] \in Nat
         /\ SumFromTo(f, a, r - 1) + f[r] <= SumFromTo(f, a, z)
         /\ SumFromTo(f, a, z) \in Nat
         /\ SumTo(f, a - 1) \in Nat
         /\ SumTo(f, r - 1) = SumTo(f, a - 1) + SumFromTo(f, a, r - 1)
<1>1. r \in 1 .. L /\ a - 1 \in 0 .. L /\ r - 1 \in a - 1 .. L /\ z \in r .. L
      /\ r \in 0 .. L /\ z \in 0 .. L /\ r - 1 \in 0 .. L
  OBVIOUS
<1> DEFINE x == SumTo(f, a - 1)
           y == SumTo(f, r - 1)
           v == SumTo(f, z)
           w == SumTo(f, r)
<1>2. x \in Nat /\ y \in Nat /\ v \in Nat /\ w \in Nat BY <1>1, SumToStep
<1>3. w = y + f[r] BY <1>1, SumToStep
<1>4. x <= y BY <1>1, SumToGrows
<1>5. w <= v BY <1>1, SumToGrows
<1>6. f[r] \in Nat BY <1>1 DEF NatTo
<1>7. SumFromTo(f, a, r - 1) = y - x /\ SumFromTo(f, a, z) = v - x BY DEF SumFromTo
<1> HIDE DEF x, y, v, w
<1>8. y - x \in Nat /\ (y - x) + f[r] <= v - x /\ v - x \in Nat /\ y = x + (y - x)
  BY <1>2, <1>3, <1>4, <1>5, <1>6
<1> QED BY <1>2, <1>6, <1>7, <1>8 DEF x, y

(* A row's place among the rows of the batch is its request's alone.        *)
LEMMA RowOwned ==
  ASSUME NEW b \in Batches, conf \in Configs, NEW r \in 1 .. Len(b), NEW i \in 0 .. b[r].q - 1,
         NEW g, g = StartLoc(b, r) + i
  PROVE  /\ g \in Nat /\ SumTo(QueryLens(b), r - 1) <= g
         /\ g < SumTo(QueryLens(b), r - 1) + QueryLens(b)[r]
         /\ g < Rows(b)
<1> DEFINE F == QueryLens(b)
           L == Len(b)
           x == SumTo(F, r - 1)
<1>1. L \in Nat /\ NatTo(F, L) /\ (\A n \in 0 .. L : SumTo(F, n) \in Nat /\ SumTo(F, n) <= Rows(b))
      /\ Rows(b) \in Nat
  BY BatchSums
<1>2. F[r] = b[r].q BY BatchLoads
<1>3. r - 1 \in 0 .. L /\ r \in 0 .. L /\ r \in 1 .. L BY <1>1
<1>4. g = x + i BY DEF StartLoc
<1>5. i \in 0 .. F[r] - 1 BY <1>2
<1> HIDE DEF F, L
<1>6. SumTo(F, r) = x + F[r] BY <1>1, <1>3, SumToStep
<1>7. x \in Nat /\ x + F[r] <= Rows(b) BY <1>1, <1>3, <1>6
<1>8. F[r] \in Nat BY <1>1, <1>3 DEF NatTo
<1> HIDE DEF x
<1> DEFINE q == F[r]
<1> HIDE DEF q
<1>9. q \in Nat /\ i \in 0 .. q - 1 /\ x + q <= Rows(b) BY <1>5, <1>7, <1>8 DEF q
<1>10. g \in Nat /\ x <= g /\ g < x + q /\ g < Rows(b) BY <1>1, <1>4, <1>7, <1>9
<1> QED BY <1>10 DEF x, F, q

(* Who else claims the row is the same request.                             *)
LEMMA RowOwnedOnce ==
  ASSUME NEW b \in Batches, conf \in Configs, NEW r \in 1 .. Len(b), NEW i \in 0 .. b[r].q - 1,
         NEW g, g = StartLoc(b, r) + i, NEW o \in 1 .. Len(b),
         SumTo(QueryLens(b), o - 1) <= g, g < SumTo(QueryLens(b), o - 1) + QueryLens(b)[o]
  PROVE  o = r
<1> DEFINE F == QueryLens(b)
           L == Len(b)
<1>1. L \in Nat /\ NatTo(F, L) BY BatchSums
<1>2. g \in Nat /\ SumTo(F, r - 1) <= g /\ g < SumTo(F, r - 1) + F[r] BY RowOwned
<1>3. r \in 1 .. L /\ o \in 1 .. L /\ SumTo(F, o - 1) <= g /\ g < SumTo(F, o - 1) + F[o] OBVIOUS
<1> HIDE DEF F, L
<1> QED BY <1>1, <1>2, <1>3, OwnerUnique

(* A specification that covers a row has its request.                       *)
LEMMA CoveredOwner ==
  ASSUME NEW b \in Batches, conf \in Configs, NEW r \in 1 .. Len(b), NEW i \in 0 .. b[r].q - 1,
         NEW g, g = StartLoc(b, r) + i,
         NEW sp \in GoodSpecs(b), CoversRow(QueryLens(b), sp, g)
  PROVE  r \in sp.first .. sp.last
<1> DEFINE F == QueryLens(b)
           L == Len(b)
           a == sp.first
           z == sp.last
<1>1. L \in Nat /\ NatTo(F, L) BY BatchSums
<1>2. /\ sp.from \in Nat /\ sp.to \in Nat /\ a \in 1 .. L /\ z \in a .. L
      /\ sp.to <= SumFromTo(F, a, z)
  BY DEF GoodSpecs, GoodSpec
<1>3. SumTo(F, a - 1) + sp.from <= g /\ g < SumTo(F, a - 1) + sp.to BY DEF CoversRow
<1>4. g \in Nat BY RowOwned
<1> HIDE DEF F, L, a, z
<1> DEFINE y == a - 1
<1>5. y \in 0 .. L /\ z \in y .. L /\ z \in 0 .. L /\ y + 1 = a BY <1>1, <1>2
<1>6. SumTo(F, y) \in Nat /\ SumTo(F, z) \in Nat BY <1>1, <1>5, SumToStep
<1>7. SumFromTo(F, a, z) = SumTo(F, z) - SumTo(F, y) BY DEF SumFromTo
<1>8. SumTo(F, y) + sp.from <= g /\ g < SumTo(F, y) + sp.to BY <1>3
<1> HIDE DEF y
<1>9. SumTo(F, y) <= g /\ g < SumTo(F, z)
  <2> DEFINE f0 == SumTo(F, y)
             f1 == SumTo(F, z)
             u == sp.from
             t == sp.to
  <2>1. /\ f0 \in Nat /\ f1 \in Nat /\ u \in Nat /\ t \in Nat /\ t <= f1 - f0
        /\ f0 + u <= g /\ g < f0 + t
    BY <1>2, <1>6, <1>7, <1>8
  <2> HIDE DEF f0, f1, u, t
  <2>2. f0 <= g /\ g < f1 BY <1>4, <2>1
  <2> QED BY <2>2 DEF f0, f1
<1>10. PICK o \in y + 1 .. z : SumTo(F, o - 1) <= g /\ g < SumTo(F, o - 1) + F[o]
  BY <1>1, <1>4, <1>5, <1>9, SumToOwner
<1>11. o \in a .. z /\ o \in 1 .. L BY <1>1, <1>2, <1>5, <1>10
<1>12. o = r BY <1>10, <1>11, RowOwnedOnce DEF F, L
<1> QED BY <1>11, <1>12 DEF a, z

(* The extent of a row starts after the K rows of the requests before its   *)
(* own in the chunk, and has the row's own context.                         *)
LEMMA RowExtentIs ==
  ASSUME NEW b \in Batches, conf \in Configs, NEW r \in 1 .. Len(b), NEW i \in 0 .. b[r].q - 1,
         NEW g, g = StartLoc(b, r) + i, NEW c,
         c.first \in 1 .. Len(b), c.last \in c.first .. Len(b), r \in c.first .. c.last
  PROVE  /\ RowExtent(b, c, g).ks = SumFromTo(CompressedLens(b), c.first, r - 1)
         /\ RowExtent(b, c, g).ke =
              SumFromTo(CompressedLens(b), c.first, r - 1) + ContextLen(b, r, i)
<1> DEFINE Owns(o) == StartLoc(b, o) <= g /\ g < StartLoc(b, o) + b[o].q
           t == CHOOSE o \in c.first .. c.last : Owns(o)
           K(o) == SumFromTo(CompressedLens(b), c.first, o - 1)
<1>1. /\ RowExtent(b, c, g).ks = K(t)
      /\ RowExtent(b, c, g).ke =
           K(t) + (b[t].s - b[t].q + 1 + g - StartLoc(b, t)) \div conf.ratio
  BY DEF RowExtent
<1>2. /\ Len(b) \in Nat /\ \A o \in 1 .. Len(b) : QueryLens(b)[o] = b[o].q
  BY BatchSums, BatchLoads
<1>3. \A o \in 1 .. Len(b) :
        Owns(o) <=> SumTo(QueryLens(b), o - 1) <= g
                    /\ g < SumTo(QueryLens(b), o - 1) + QueryLens(b)[o]
  BY <1>2 DEF StartLoc
<1>4. Owns(r) BY <1>3, RowOwned
<1> HIDE DEF Owns, K
<1>5. t \in c.first .. c.last /\ Owns(t) BY <1>4, Zenon
<1> HIDE DEF t
<1>6. t \in 1 .. Len(b) BY <1>2, <1>5
<1>7. t = r BY <1>3, <1>5, <1>6, RowOwnedOnce
<1>8. StartLoc(b, r) \in Nat
  <2>1. r - 1 \in 0 .. Len(b) BY <1>2
  <2> QED BY <2>1, BatchSums DEF StartLoc
<1> DEFINE s == b[r].s
           q == b[r].q
           u == StartLoc(b, r)
<1>9. s \in Nat /\ q \in Nat
  <2>1. b[r] \in Requests BY BatchTyped
  <2> QED BY <2>1, RequestTyped
<1>10. u \in Nat /\ i \in 0 .. q - 1 /\ g = u + i BY <1>8
<1>11. ContextLen(b, r, i) = (s - q + 1 + i) \div conf.ratio BY DEF ContextLen
<1>12. /\ RowExtent(b, c, g).ks = K(r)
       /\ RowExtent(b, c, g).ke = K(r) + (s - q + 1 + g - u) \div conf.ratio
  BY <1>1, <1>7
<1> HIDE DEF s, q, u
<1>13. s - q + 1 + g - u = s - q + 1 + i BY <1>9, <1>10
<1> QED BY <1>11, <1>12, <1>13 DEF K

(* A request's own pages, each read in full, give its first K rows.         *)
LEMMA PagedOwn ==
  ASSUME conf \in Configs, NEW r, NEW table, NEW n \in Nat,
         \A j \in 0 .. n - 1 : j \div Storage \in DOMAIN table /\ table[j \div Storage] = <<r, j \div Storage>>
  PROVE  Paged(table, n) = FirstRows(r, n)
<1> DEFINE Cell(j) == IF j \div Storage \in DOMAIN table
                      THEN <<table[j \div Storage], j % Storage>> ELSE Stale
<1>1. \A j \in 0 .. n - 1 : Cell(j) = KRow(r, j) BY DEF KRow
<1>2. Paged(table, n) = { Cell(j) : j \in 0 .. n - 1 } BY DEF Paged
<1> HIDE DEF Cell
<1>3. { Cell(j) : j \in 0 .. n - 1 } = { KRow(r, j) : j \in 0 .. n - 1 } BY <1>1
<1> QED BY <1>2, <1>3 DEF FirstRows

(* The page of a K row within a request's length is in its table.           *)
LEMMA OwnPage ==
  ASSUME conf \in Configs, NEW b \in Batches, NEW r \in 1 .. Len(b), NEW n \in Nat,
         n <= CompressedLens(b)[r]
  PROVE  \A j \in 0 .. n - 1 :
           j \div Storage \in 0 .. FullWidth - 1 /\ BlockTable(r)[j \div Storage] = <<r, j \div Storage>>
<1>1. b[r].s \in Nat /\ b[r].s <= MaxModelLen
  <2>1. b[r] \in Requests BY BatchTyped
  <2> QED BY <2>1, RequestTyped
<1>2. CompressedLens(b)[r] = b[r].s \div conf.ratio BY BatchLoads
<1> DEFINE s == b[r].s
           e == s \div conf.ratio
<1>3. e \in Nat
  <2>1. conf.ratio \in Nat \ {0} BY ConfTyped
  <2> QED BY <1>1, <2>1, DivBounds
<1>4. n <= e BY <1>2
<1>5. s \in Nat /\ s <= MaxModelLen BY <1>1
<1> HIDE DEF s
<1>6. ASSUME NEW j \in 0 .. n - 1
      PROVE  j \div Storage \in 0 .. FullWidth - 1 /\ BlockTable(r)[j \div Storage] = <<r, j \div Storage>>
  <2>1. j \in Nat /\ j < s \div conf.ratio
    <3> HIDE DEF e
    <3>1. j \in Nat /\ j < e BY <1>3, <1>4
    <3> QED BY <3>1 DEF e
  <2>2. j \div Storage \in 0 .. FullWidth - 1 BY <1>5, <2>1, PageInTable
  <2> QED BY <2>2 DEF BlockTable
<1> QED BY <1>6

(* The gathered rows of some requests, one request after another.           *)
Holds(b, w, first, last) ==
  \A r \in first .. last : \A j \in 0 .. CompressedLens(b)[r] - 1 :
    w[SumFromTo(CompressedLens(b), first, r - 1) + j] = KRow(r, j)

(* The gather of a chunk that was built for the batch.                      *)
LEMMA GatheredHolds ==
  ASSUME conf \in Configs, batch \in Batches, DOMAIN workspace = 0 .. Workspace - 1,
         NEW sp \in GoodSpecs(batch), NEW c, c = ChunkMetadata(batch, sp), ~conf.b12x
  PROVE  Holds(batch, Gathered(c), c.first, c.last)
<1> DEFINE L == Len(batch)
           C == CompressedLens(batch)
           U == CompressedUb(batch)
           a == c.first
           z == c.last
           At(r, j) == SumFromTo(C, a, r - 1) + j
           KRows == { e \in (a .. z) \X (0 .. MaxModelLen - 1) : e[2] < C[e[1]] }
<1>1. /\ L \in Nat /\ NatTo(C, L) /\ NatTo(U, L)
      /\ \A o \in 1 .. L : C[o] <= U[o] /\ U[o] <= MaxModelLen
  BY BatchSums, BatchLoads
<1>2. a \in 1 .. L /\ z \in a .. L /\ c.total = SumFromTo(U, a, z) /\ c.total <= Workspace
  <2>1. a = sp.first /\ z = sp.last /\ c.total = SumFromTo(U, sp.first, sp.last) BY DEF ChunkMetadata
  <2> QED BY <2>1 DEF GoodSpecs, GoodSpec
<1> DEFINE Cell(e) == <<BlockTable(e[1])[e[2] \div Storage], e[2] % Storage>>
           Hit(x) == \E e \in KRows : At(e[1], e[2]) = x /\ x < c.total
           Row(x) == CHOOSE e \in KRows : At(e[1], e[2]) = x
<1>3. \A x \in DOMAIN workspace : Gathered(c)[x] = IF Hit(x) THEN Cell(Row(x)) ELSE workspace[x]
  BY DEF Gathered
<1>4. ASSUME NEW r \in a .. z, NEW j \in 0 .. C[r] - 1
      PROVE  Gathered(c)[At(r, j)] = KRow(r, j)
  <2> DEFINE x == At(r, j)
             e == <<r, j>>
  <2> HIDE DEF L, C, U, a, z
  <2>1. r \in 1 .. L BY <1>1, <1>2
  <2>2. /\ SumFromTo(C, a, r - 1) \in Nat /\ C[r] \in Nat
        /\ SumFromTo(C, a, r - 1) + C[r] <= SumFromTo(C, a, z) /\ SumFromTo(C, a, z) \in Nat
    BY <1>1, <1>2, EntryWithin
  <2>3. SumFromTo(C, a, z) <= c.total
    <3>1. a - 1 \in 0 .. L /\ z \in a - 1 .. L BY <1>1, <1>2
    <3>2. SumTo(C, z) - SumTo(C, a - 1) <= SumTo(U, z) - SumTo(U, a - 1)
      BY <1>1, <3>1, SumToDominated
    <3> QED BY <1>2, <3>2 DEF SumFromTo
  <2>4. x \in Nat /\ x < c.total /\ c.total \in Nat
    <3>1. c.total \in Nat BY ChunkMetadataFits DEF FittingChunk
    <3> DEFINE k == SumFromTo(C, a, r - 1)
    <3>2. k \in Nat /\ k + C[r] <= c.total /\ x = k + j BY <2>2, <2>3, <3>1
    <3> HIDE DEF k, x
    <3> QED BY <2>2, <3>1, <3>2
  <2>5. x \in DOMAIN workspace
    <3> HIDE DEF x
    <3> QED BY <1>2, <2>4, Budgets
  <2>6. e \in KRows
    <3>1. C[r] <= MaxModelLen
      <4> DEFINE x0 == C[r]
                 y0 == U[r]
      <4>1. x0 \in Nat /\ x0 <= y0 /\ y0 <= MaxModelLen BY <1>1, <2>1, <2>2
      <4>2. y0 \in Nat BY <1>1, <2>1 DEF NatTo
      <4> HIDE DEF x0, y0
      <4>3. x0 <= MaxModelLen BY <4>1, <4>2, Budgets
      <4> QED BY <4>3 DEF x0
    <3>2. j \in 0 .. MaxModelLen - 1 /\ j < C[r] BY <2>2, <3>1, Budgets
    <3> QED BY <3>2
  <2>7. At(e[1], e[2]) = x OBVIOUS
  <2>8. Row(x) = e
    <3>1. Row(x) \in KRows /\ At(Row(x)[1], Row(x)[2]) = x
      <4> HIDE DEF KRows, At, x, e
      <4> QED BY <2>6, <2>7, Zenon
    <3>2. PICK o \in a .. z, i \in 0 .. MaxModelLen - 1 : Row(x) = <<o, i>> /\ i < C[o]
      <4> DEFINE y == Row(x)
      <4>1. y \in KRows BY <3>1
      <4> HIDE DEF y
      <4> QED BY <4>1 DEF y
    <3>3. At(o, i) = x
      <4> DEFINE y == Row(x)
      <4>1. At(y[1], y[2]) = x /\ y = <<o, i>> BY <3>1, <3>2
      <4> HIDE DEF y, x, At
      <4> QED BY <4>1
    <3>4. o \in 1 .. L BY <1>1, <1>2
    <3>5. /\ SumFromTo(C, a, o - 1) \in Nat /\ C[o] \in Nat
          /\ SumTo(C, o - 1) = SumTo(C, a - 1) + SumFromTo(C, a, o - 1)
      BY <1>1, <1>2, EntryWithin
    <3>6. /\ SumTo(C, r - 1) = SumTo(C, a - 1) + SumFromTo(C, a, r - 1) /\ SumTo(C, a - 1) \in Nat
      BY <1>1, <1>2, EntryWithin
    <3> DEFINE p == SumTo(C, a - 1)
               u == SumFromTo(C, a, o - 1)
               v == SumFromTo(C, a, r - 1)
               g == p + x
    <3>7. /\ p \in Nat /\ u \in Nat /\ v \in Nat /\ x = u + i /\ x = v + j
          /\ SumTo(C, o - 1) = p + u /\ SumTo(C, r - 1) = p + v
      BY <2>2, <3>3, <3>5, <3>6
    <3>8. i \in Nat /\ i < C[o] /\ j \in Nat /\ j < C[r] /\ C[o] \in Nat /\ C[r] \in Nat
      BY <2>2, <3>2, <3>5, Budgets
    <3> HIDE DEF p, u, v, x
    <3>9. g \in Nat /\ p + u <= g /\ g < (p + u) + C[o] /\ p + v <= g /\ g < (p + v) + C[r]
      BY <3>7, <3>8
    <3> HIDE DEF g
    <3>10. o = r BY <1>1, <2>1, <3>4, <3>7, <3>9, OwnerUnique
    <3>11. i = j
      <4>1. u = v BY <3>10 DEF u, v
      <4> QED BY <3>7, <3>8, <4>1
    <3> QED BY <3>2, <3>10, <3>11
  <2>9. Hit(x)
    <3> HIDE DEF KRows, At, x, e
    <3> QED BY <2>4, <2>6, <2>7
  <2>10. Gathered(c)[x] = Cell(e)
    <3> HIDE DEF Hit, Row, Cell, x, e
    <3> QED BY <1>3, <2>5, <2>8, <2>9
  <2>11. Cell(e) = KRow(r, j)
    <3>1. BlockTable(r)[j \div Storage] = <<r, j \div Storage>>
      <4>1. C[r] \in Nat /\ C[r] <= C[r] BY <2>2
      <4> DEFINE n == C[r]
      <4>2. n \in Nat /\ n <= CompressedLens(batch)[r] /\ j \in 0 .. n - 1 BY <4>1 DEF C
      <4> HIDE DEF n
      <4> QED BY <2>1, <4>2, OwnPage DEF L
    <3> QED BY <3>1 DEF KRow
  <2> QED BY <2>10, <2>11
<1> QED BY <1>4 DEF Holds

(* What a chunk's metadata says of a row in it.                             *)
LEMMA RowInChunk ==
  ASSUME NEW b \in Batches, conf \in Configs, NEW r \in 1 .. Len(b), NEW i \in 0 .. b[r].q - 1,
         NEW g, g = StartLoc(b, r) + i,
         NEW sp \in GoodSpecs(b), NEW c, c = ChunkMetadata(b, sp), g \in RowsOfChunk(c)
  PROVE  /\ c.first \in 1 .. Len(b) /\ c.last \in c.first .. Len(b) /\ r \in c.first .. c.last
         /\ g - c.start \in DOMAIN c.ks
         /\ c.ks[g - c.start] = SumFromTo(CompressedLens(b), c.first, r - 1)
         /\ c.ke[g - c.start] =
              SumFromTo(CompressedLens(b), c.first, r - 1) + ContextLen(b, r, i)
         /\ conf.b12x => c.first = c.last
<1>1. FittingChunk(b, c) BY ChunkMetadataFits
<1>2. c.first = sp.first /\ c.last = sp.last BY DEF ChunkMetadata
<1>3. c.first \in 1 .. Len(b) /\ c.last \in c.first .. Len(b) BY <1>1 DEF FittingChunk
<1>4. conf.b12x => c.first = c.last BY <1>2 DEF GoodSpecs, GoodSpec
<1>5. g \in Nat BY RowOwned
<1>6. CoversRow(QueryLens(b), sp, g) BY <1>5, ChunkRows
<1>7. r \in c.first .. c.last BY <1>2, <1>6, CoveredOwner
<1> DEFINE x == g - c.start
           rows == 0 .. c.rows - 1
<1>8. x \in rows /\ c.start + x = g
  <2>1. c.start \in Nat /\ c.rows \in Nat BY <1>1 DEF FittingChunk
  <2>2. g \in c.start .. c.start + c.rows - 1 BY DEF RowsOfChunk
  <2> QED BY <1>5, <2>1, <2>2
<1>9. DOMAIN c.ks = rows BY <1>1 DEF FittingChunk
<1>10. /\ RowExtent(b, sp, g).ks = SumFromTo(CompressedLens(b), c.first, r - 1)
       /\ RowExtent(b, sp, g).ke =
            SumFromTo(CompressedLens(b), c.first, r - 1) + ContextLen(b, r, i)
  BY <1>2, <1>3, <1>7, RowExtentIs
<1>11. \A e \in rows : c.ks[e] = RowExtent(b, sp, c.start + e).ks
                       /\ c.ke[e] = RowExtent(b, sp, c.start + e).ke
  BY DEF ChunkMetadata
<1> HIDE DEF x, rows
<1>12. x \in DOMAIN c.ks BY <1>8, <1>9
<1>13. c.ks[x] = RowExtent(b, sp, g).ks /\ c.ke[x] = RowExtent(b, sp, g).ke BY <1>8, <1>11
<1> QED BY <1>3, <1>4, <1>7, <1>10, <1>12, <1>13 DEF x

(* b12x: the row reads the first pages of its own request.                  *)
LEMMA ScoredByPage ==
  ASSUME NEW b \in Batches, conf \in Configs, NEW r \in 1 .. Len(b), NEW i \in 0 .. b[r].q - 1,
         NEW g, g = StartLoc(b, r) + i,
         NEW sp \in GoodSpecs(b), NEW c, c = ChunkMetadata(b, sp), g \in RowsOfChunk(c), conf.b12x
  PROVE  Paged(BlockTable(c.first), Most(0, c.ke[g - c.start] - c.ks[g - c.start]))
           = OwnContext(r, b[r].s - b[r].q + i)
<1> DEFINE n == ContextLen(b, r, i)
           k == SumFromTo(CompressedLens(b), c.first, r - 1)
           x == g - c.start
<1>1. c.first = r /\ r \in c.first .. c.last /\ c.ks[x] = k /\ c.ke[x] = k + n
      /\ c.first \in 1 .. Len(b) /\ c.last \in c.first .. Len(b)
  <2>1. /\ c.first \in 1 .. Len(b) /\ c.last \in c.first .. Len(b) /\ r \in c.first .. c.last
        /\ c.ks[x] = k /\ c.ke[x] = k + n /\ c.first = c.last
    BY RowInChunk
  <2>2. Len(b) \in Nat BY BatchSums
  <2>3. c.first = r BY <2>1, <2>2
  <2> QED BY <2>1, <2>3
<1>2. /\ n \in Nat /\ n <= CompressedLens(b)[r]
      /\ OwnContext(r, b[r].s - b[r].q + i) = FirstRows(r, n)
  BY ContextLenTyped
<1>3. k \in Nat BY <1>1, BatchSums, EntryWithin
<1>4. Most(0, c.ke[x] - c.ks[x]) = n
  <2>1. c.ke[x] - c.ks[x] = n
    <3> HIDE DEF n, k, x
    <3> QED BY <1>1, <1>2, <1>3
  <2> HIDE DEF n, x
  <2> QED BY <1>2, <2>1 DEF Most
<1>5. \A j \in 0 .. n - 1 :
        j \div Storage \in 0 .. FullWidth - 1 /\ BlockTable(r)[j \div Storage] = <<r, j \div Storage>>
  <2> HIDE DEF n
  <2> QED BY <1>2, OwnPage
<1>6. DOMAIN BlockTable(r) = 0 .. FullWidth - 1 BY DEF BlockTable
<1>7. Paged(BlockTable(r), n) = FirstRows(r, n)
  <2> DEFINE t == BlockTable(r)
  <2>1. \A j \in 0 .. n - 1 : j \div Storage \in DOMAIN t /\ t[j \div Storage] = <<r, j \div Storage>>
    BY <1>5, <1>6
  <2> HIDE DEF t, n
  <2>2. Paged(t, n) = FirstRows(r, n) BY <1>2, <2>1, PagedOwn
  <2> QED BY <2>2 DEF t
<1> QED BY <1>1, <1>2, <1>4, <1>7 DEF x

(* What a row reads of the workspace.                                       *)
ReadRows(w, lo, hi) == { w[x] : x \in lo .. hi - 1 }

ReadsOwn(b, c, w, r, i, g) ==
  ReadRows(w, c.ks[g - c.start], c.ke[g - c.start]) = OwnContext(r, b[r].s - b[r].q + i)

(* Otherwise it reads the K rows of its request among the gathered ones.    *)
LEMMA ScoredByGather ==
  ASSUME NEW b \in Batches, conf \in Configs, NEW r \in 1 .. Len(b), NEW i \in 0 .. b[r].q - 1,
         NEW g, g = StartLoc(b, r) + i,
         NEW sp \in GoodSpecs(b), NEW c, c = ChunkMetadata(b, sp), g \in RowsOfChunk(c),
         NEW w, Holds(b, w, c.first, c.last)
  PROVE  ReadsOwn(b, c, w, r, i, g)
<1> DEFINE n == ContextLen(b, r, i)
           e == CompressedLens(b)[r]
           k == SumFromTo(CompressedLens(b), c.first, r - 1)
           y == g - c.start
<1>1. /\ c.first \in 1 .. Len(b) /\ c.last \in c.first .. Len(b) /\ r \in c.first .. c.last
      /\ c.ks[y] = k /\ c.ke[y] = k + n
  BY RowInChunk
<1>2. n \in Nat /\ n <= e /\ OwnContext(r, b[r].s - b[r].q + i) = FirstRows(r, n)
  BY ContextLenTyped
<1>3. k \in Nat /\ e \in Nat BY <1>1, BatchSums, EntryWithin
<1>4. \A j \in 0 .. e - 1 : w[k + j] = KRow(r, j) BY <1>1 DEF Holds
<1> HIDE DEF n, e, k, y
<1>5. \A j \in 0 .. n - 1 : w[k + j] = KRow(r, j) BY <1>2, <1>3, <1>4
<1>6. { w[x] : x \in k .. (k + n) - 1 } = { w[k + j] : j \in 0 .. n - 1 }
  <2>1. \A j \in 0 .. n - 1 : k + j \in k .. (k + n) - 1 BY <1>2, <1>3
  <2>2. \A x \in k .. (k + n) - 1 : x - k \in 0 .. n - 1 /\ k + (x - k) = x BY <1>2, <1>3
  <2> QED BY <2>1, <2>2
<1>7. { w[k + j] : j \in 0 .. n - 1 } = { KRow(r, j) : j \in 0 .. n - 1 } BY <1>5
<1>8. ReadRows(w, c.ks[y], c.ke[y]) = FirstRows(r, n)
  <2>1. ReadRows(w, c.ks[y], c.ke[y]) = ReadRows(w, k, k + n) BY <1>1
  <2>2. ReadRows(w, k, k + n) = { w[x] : x \in k .. (k + n) - 1 } BY DEF ReadRows
  <2>3. FirstRows(r, n) = { KRow(r, j) : j \in 0 .. n - 1 } BY DEF FirstRows
  <2> QED BY <1>6, <1>7, <2>1, <2>2, <2>3
<1> QED BY <1>2, <1>8 DEF ReadsOwn, y

(* A row of a request without K rows has no context to be scored against.   *)
LEMMA EmptyOwnContext ==
  ASSUME NEW b \in Batches, conf \in Configs, NEW r \in 1 .. Len(b), NEW i \in 0 .. b[r].q - 1,
         NEW g, g = StartLoc(b, r) + i,
         NEW sp \in GoodSpecs(b), CoversRow(QueryLens(b), sp, g), EmptySpec(b, sp)
  PROVE  OwnContext(r, b[r].s - b[r].q + i) = {}
<1> DEFINE n == ContextLen(b, r, i)
           e == CompressedLens(b)[r]
           U == CompressedUb(b)
           L == Len(b)
           a == sp.first
           z == sp.last
<1>1. n \in Nat /\ n <= e /\ OwnContext(r, b[r].s - b[r].q + i) = FirstRows(r, n)
  BY ContextLenTyped
<1>2. r \in a .. z BY CoveredOwner
<1>3. a \in 1 .. L /\ z \in a .. L BY DEF GoodSpecs, GoodSpec
<1>4. L \in Nat /\ NatTo(U, L) /\ e <= U[r] BY BatchSums, BatchLoads
<1>5. SumFromTo(U, a, z) = 0 BY DEF EmptySpec
<1>6. e \in Nat
  <2>1. NatTo(CompressedLens(b), L) BY BatchSums
  <2> QED BY <2>1 DEF NatTo
<1> HIDE DEF n, e, U, L, a, z
<1>7. SumFromTo(U, a, r - 1) \in Nat /\ U[r] \in Nat /\ SumFromTo(U, a, r - 1) + U[r] <= 0
  BY <1>2, <1>3, <1>4, <1>5, EntryWithin
<1> DEFINE m == SumFromTo(U, a, r - 1)
           u == U[r]
<1>8. m \in Nat /\ u \in Nat /\ m + u <= 0 /\ n <= e /\ e <= u BY <1>1, <1>4, <1>7
<1> HIDE DEF m, u
<1>9. n = 0 BY <1>1, <1>6, <1>8
<1>10. FirstRows(r, 0) = {}
  <2>1. 0 .. 0 - 1 = {} OBVIOUS
  <2> QED BY <2>1 DEF FirstRows
<1> QED BY <1>1, <1>9, <1>10

(* The sums of equal entries are their multiples.                           *)
Multiples(f, N, m) == NatTo(f, N) /\ \A n \in 0 .. N : SumTo(f, n) = n * m

(* That is so.                                                              *)
LEMMA SumOfEqual ==
  ASSUME NEW N \in Nat, NEW f, NEW m \in Nat, \A i \in 1 .. N : f[i] = m
  PROVE  Multiples(f, N, m)
<1>1. NatTo(f, N) BY DEF NatTo
<1> DEFINE F(n) == SumTo(f, n)
           Bad == { n \in 0 .. N : F(n) # n * m }
<1>2. F(0) = 0 /\ \A n \in 1 .. N : F(n) = F(n - 1) + f[n] BY <1>1, SumToStep
<1> HIDE DEF F
<1>3. Bad = {}
  <2> SUFFICES ASSUME Bad # {} PROVE FALSE OBVIOUS
  <2>1. Bad \in SUBSET Nat OBVIOUS
  <2>2. PICK n \in Bad : \A k \in Bad : n <= k BY <2>1, LeastExists
  <2>3. n \in 0 .. N /\ F(n) # n * m OBVIOUS
  <2>4. n # 0
    <3>1. 0 * m = 0 OBVIOUS
    <3> QED BY <1>2, <2>3, <3>1
  <2> DEFINE p == n - 1
  <2>5. p \in 0 .. N /\ ~(n <= p) /\ n \in 1 .. N /\ p \in Nat /\ n = p + 1 BY <2>3, <2>4
  <2>6. p \notin Bad BY <2>2, <2>5
  <2>7. F(p) = p * m BY <2>5, <2>6
  <2>8. F(n) = F(p) + m BY <1>2, <2>5
  <2>9. n * m = p * m + m
    <3> HIDE DEF p
    <3> QED BY <2>5
  <2> QED BY <2>3, <2>7, <2>8, <2>9
<1>4. \A n \in 0 .. N : F(n) = n * m BY <1>3
<1> QED BY <1>1, <1>4 DEF F, Multiples

(* The leading requests are of the lengths asked for, and all of them lead  *)
(* when all are.                                                            *)
LEMMA LeadingIs ==
  ASSUME NEW b, Len(b) \in Nat, DOMAIN b = 1 .. Len(b), NEW lens
  PROVE  /\ \A r \in 1 .. Leading(b, lens) : b[r].q \in lens
         /\ (\A r \in 1 .. Len(b) : b[r].q \in lens) => Leading(b, lens) = Len(b)
<1> DEFINE prefills == { r \in DOMAIN b : b[r].q \notin lens }
           L == Len(b)
<1>1. prefills \in SUBSET (1 .. L) /\ prefills \in SUBSET Nat OBVIOUS
<1>2. Leading(b, lens) = IF prefills = {} THEN L ELSE Min(prefills) - 1 BY DEF Leading
<1>3. \A r \in 1 .. L : r \notin prefills => b[r].q \in lens OBVIOUS
<1>4. (\A r \in 1 .. L : b[r].q \in lens) => prefills = {} OBVIOUS
<1> HIDE DEF prefills
<1>5. CASE prefills = {} BY <1>2, <1>3, <1>5
<1>6. CASE prefills # {}
  <2> DEFINE k == Min(prefills)
  <2>1. k \in prefills /\ \A x \in prefills : k <= x BY <1>1, <1>6, MinIsMember
  <2>2. Leading(b, lens) = k - 1 BY <1>2, <1>6
  <2> HIDE DEF k
  <2>3. k \in 1 .. L BY <1>1, <2>1
  <2>4. ASSUME NEW r \in 1 .. k - 1 PROVE r \in 1 .. L /\ r \notin prefills
    <3>1. r \in 1 .. L /\ ~(k <= r) BY <2>3
    <3> QED BY <2>1, <3>1
  <2>5. \A r \in 1 .. Leading(b, lens) : b[r].q \in lens BY <1>3, <2>2, <2>4
  <2> QED BY <1>4, <1>6, <2>5
<1> QED BY <1>5, <1>6

(* The requests that are decoded: by a flattened expansion when they are    *)
(* within the draft's length, otherwise those as long as the first or       *)
(* padding.                                                                 *)
LEMMA NumDecodesIs ==
  ASSUME NEW b, Len(b) \in Nat, DOMAIN b = 1 .. Len(b)
  PROVE  \A r \in 1 .. NumDecodes(b) :
           IF UseFlattening THEN b[r].q \in 0 .. conf.nextN ELSE b[r].q \in {0, b[1].q}
<1>1. CASE UseFlattening
  <2>1. NumDecodes(b) = Leading(b, 0 .. conf.nextN) BY <1>1 DEF NumDecodes
  <2> QED BY <1>1, <2>1, LeadingIs
<1>2. CASE ~UseFlattening /\ b[1].q > conf.nextN
  <2>1. NumDecodes(b) = 0 BY <1>2 DEF NumDecodes
  <2>2. 1 .. 0 = {} OBVIOUS
  <2> QED BY <2>1, <2>2
<1>3. CASE ~UseFlattening /\ ~(b[1].q > conf.nextN) /\ \A r \in DOMAIN b : b[r].q \in {0, b[1].q}
  <2>1. NumDecodes(b) = Len(b) BY <1>3 DEF NumDecodes
  <2> QED BY <1>3, <2>1
<1>4. CASE ~UseFlattening /\ ~(b[1].q > conf.nextN) /\ ~(\A r \in DOMAIN b : b[r].q \in {0, b[1].q})
  <2>1. NumDecodes(b) = Leading(b, {b[1].q}) BY <1>4 DEF NumDecodes
  <2>2. \A r \in 1 .. Leading(b, {b[1].q}) : b[r].q \in {b[1].q} BY LeadingIs
  <2> QED BY <1>4, <2>1, <2>2
<1> QED BY <1>1, <1>2, <1>3, <1>4

(* The requests of a padded batch.                                          *)
LEMMA PaddedIs ==
  ASSUME NEW b \in Batches, NEW n \in Len(b) .. MaxReqs, NEW p, p = Padded(b, n)
  PROVE  /\ Len(p) = n /\ DOMAIN p = 1 .. n /\ n \in Nat \ {0} /\ Len(b) \in Nat \ {0} /\ Len(b) <= n
         /\ \A r \in 1 .. Len(b) : r \in 1 .. n /\ p[r] = b[r]
         /\ \A r \in 1 .. n : r \notin 1 .. Len(b) => p[r] = [q |-> 0, s |-> 0, ub |-> 0]
<1>1. Len(p) = n /\ DOMAIN p = 1 .. n /\ n \in Nat BY PaddedTyped
<1>2. Len(b) \in Nat \ {0} BY BatchTyped, Budgets
<1>3. p = [r \in 1 .. n |-> IF r <= Len(b) THEN b[r] ELSE [q |-> 0, s |-> 0, ub |-> 0]]
  BY DEF Padded
<1>4. Len(b) <= n /\ n # 0 BY <1>1, <1>2
<1>5. \A r \in 1 .. n : r \in 1 .. Len(b) <=> r <= Len(b) BY <1>1, <1>2
<1>6. \A r \in 1 .. Len(b) : r \in 1 .. n BY <1>1, <1>2, <1>4
<1> QED BY <1>1, <1>2, <1>3, <1>4, <1>5, <1>6

(* The first nd of n requests.                                              *)
IsPart(d, p, nd, n) ==
  Len(d) = nd /\ DOMAIN d = 1 .. nd /\ Decodes(d) /\ \A r \in 1 .. nd : d[r] = p[r] /\ r \in 1 .. n

(* The decoded requests of a padded batch.                                  *)
LEMMA DecodePart ==
  ASSUME NEW b \in Batches, NEW n \in Len(b) .. MaxReqs, NEW p, p = Padded(b, n),
         NEW nd \in 0 .. n, NEW d, d = SubSeq(p, 1, nd)
  PROVE  IsPart(d, p, nd, n)
<1>1. Decodes(d) /\ Len(d) = nd BY DecodesTyped
<1>2. DOMAIN d = 1 .. nd BY <1>1 DEF Decodes
<1>3. n \in Nat /\ DOMAIN p = 1 .. n /\ Len(p) = n BY PaddedIs
<1>4. \A r \in 1 .. nd : r \in 1 .. n BY <1>3
<1> DEFINE S == { p[r] : r \in 1 .. n }
<1>5. \A r \in 1 .. nd : p[r] \in S BY <1>4
<1>6. 1 \in Int /\ nd \in Int /\ nd <= n BY <1>3
<1> HIDE DEF S
<1>7. \A i \in 1 .. nd - 1 + 1 : SubSeq(p, 1, nd)[i] = p[1 + i - 1] BY <1>5, <1>6, SubSeqProperties
<1>8. nd - 1 + 1 = nd /\ \A i \in 1 .. nd : 1 + i - 1 = i BY <1>3
<1> HIDE DEF S
<1>9. \A i \in 1 .. nd : d[i] = p[i] BY <1>7, <1>8
<1> QED BY <1>1, <1>2, <1>4, <1>9 DEF IsPart

(* Every request of a replayed batch is decoded, the padding too.           *)
LEMMA ReplayDecodesAll ==
  ASSUME NEW b \in Batches, conf \in Configs, NEW n \in Len(b) .. MaxReqs, NEW p, p = Padded(b, n),
         Eligible(b)
  PROVE  NumDecodes(p) = n
<1>1. /\ Len(p) = n /\ DOMAIN p = 1 .. n /\ n \in Nat \ {0} /\ Len(b) \in Nat \ {0}
      /\ \A r \in 1 .. Len(b) : r \in 1 .. n /\ p[r] = b[r]
      /\ \A r \in 1 .. n : r \notin 1 .. Len(b) => p[r] = [q |-> 0, s |-> 0, ub |-> 0]
  BY PaddedIs
<1>2. DOMAIN b = 1 .. Len(b) /\ conf.nextN \in Nat BY BatchTyped, ConfTyped
<1>3. \A r \in 1 .. Len(b) : b[r].q = conf.nextN BY <1>2 DEF Eligible
<1>4. \A r \in 1 .. n : p[r].q \in {0, conf.nextN}
  <2> SUFFICES ASSUME NEW r \in 1 .. n PROVE p[r].q \in {0, conf.nextN} OBVIOUS
  <2>1. CASE r \in 1 .. Len(b) BY <1>1, <1>3, <2>1
  <2>2. CASE r \notin 1 .. Len(b)
    <3>1. p[r] = [q |-> 0, s |-> 0, ub |-> 0] BY <1>1, <2>2
    <3> QED BY <3>1
  <2> QED BY <2>1, <2>2
<1>5. p[1].q = conf.nextN
  <2>1. 1 \in 1 .. Len(b) BY <1>1
  <2> QED BY <1>1, <1>3, <2>1
<1>6. CASE UseFlattening
  <2>1. NumDecodes(p) = Leading(p, 0 .. conf.nextN) BY <1>6 DEF NumDecodes
  <2>2. \A r \in 1 .. Len(p) : p[r].q \in 0 .. conf.nextN
    <3>1. 0 \in 0 .. conf.nextN /\ conf.nextN \in 0 .. conf.nextN BY <1>2
    <3> QED BY <1>1, <1>4, <3>1
  <2>3. Len(p) \in Nat /\ DOMAIN p = 1 .. Len(p) BY <1>1
  <2>4. Leading(p, 0 .. conf.nextN) = Len(p) BY <2>2, <2>3, LeadingIs
  <2> QED BY <1>1, <2>1, <2>4
<1>7. CASE ~UseFlattening
  <2>1. ~(p[1].q > conf.nextN) BY <1>2, <1>5
  <2>2. \A r \in DOMAIN p : p[r].q \in {0, p[1].q} BY <1>1, <1>4, <1>5
  <2> QED BY <1>1, <1>7, <2>1, <2>2 DEF NumDecodes
<1> QED BY <1>6, <1>7

(* The longest query is that of some decode, and none is shorter than the   *)
(* shortest.                                                                *)
LensOf(d) ==
  /\ MaxLen(d) \in Nat /\ MinLen(d) \in Nat
  /\ \E r \in 1 .. Len(d) : d[r].q = MaxLen(d)
  /\ \A r \in 1 .. Len(d) : d[r].q \in Nat /\ MinLen(d) <= d[r].q /\ d[r].q <= MaxLen(d)

(* That is what the two are.                                                *)
LEMMA DecodeLens ==
  ASSUME NEW d, Decodes(d), Len(d) # 0
  PROVE  LensOf(d)
<1> DEFINE S == { d[r].q : r \in DOMAIN d }
<1>1. Len(d) \in Nat \ {0} /\ DOMAIN d = 1 .. Len(d) /\ \A r \in 1 .. Len(d) : d[r].q \in 0 .. MaxTokens
  BY Budgets DEF Decodes
<1>2. S \in SUBSET (0 .. MaxTokens) /\ S # {} /\ \A r \in 1 .. Len(d) : d[r].q \in S
  <2>1. 1 \in DOMAIN d BY <1>1
  <2> QED BY <1>1, <2>1
<1>3. \A x \in S : \E r \in 1 .. Len(d) : d[r].q = x BY <1>1
<1>4. MaxLen(d) = Max(S) /\ MinLen(d) = Min(S) BY DEF MaxLen, MinLen
<1>5. \A x \in S : x \in Nat BY <1>2, Budgets
<1> HIDE DEF S
<1>6. Max(S) \in S /\ \A x \in S : x <= Max(S) BY <1>2, Budgets, MaxIsMember
<1>7. S \in SUBSET Nat BY <1>5
<1>8. Min(S) \in S /\ \A x \in S : Min(S) <= x BY <1>2, <1>7, MinIsMember
<1> QED BY <1>2, <1>3, <1>4, <1>5, <1>6, <1>8 DEF LensOf

(* All decodes of the batch are as long as the longest.                     *)
Even(b, d, nd) == \A r \in 1 .. nd : r \in 1 .. Len(b) => b[r].q = MaxLen(d)

(* They are, unless they are expanded by their own lengths.                 *)
LEMMA EvenDecodes ==
  ASSUME NEW b \in Batches, conf \in Configs, NEW n \in Len(b) .. MaxReqs, NEW p, p = Padded(b, n),
         NEW nd, nd = NumDecodes(p), nd # 0, NEW d, d = SubSeq(p, 1, nd),
         ~UseFlattening \/ MaxLen(d) <= 1 \/ MinLen(d) = MaxLen(d)
  PROVE  Even(b, d, nd)
<1>1. /\ Len(p) = n /\ DOMAIN p = 1 .. n /\ n \in Nat \ {0} /\ Len(b) \in Nat \ {0}
      /\ \A r \in 1 .. Len(b) : r \in 1 .. n /\ p[r] = b[r]
      /\ \A r \in 1 .. n : r \notin 1 .. Len(b) => p[r] = [q |-> 0, s |-> 0, ub |-> 0]
  BY PaddedIs
<1>2. Len(p) \in Nat /\ DOMAIN p = 1 .. Len(p) BY <1>1
<1>3. nd \in 0 .. n
  <2>1. NumDecodes(p) \in 0 .. Len(p) BY <1>2, NumDecodesTyped
  <2> QED BY <1>1, <2>1
<1>4. Len(d) = nd /\ DOMAIN d = 1 .. nd /\ Decodes(d) /\ \A r \in 1 .. nd : d[r] = p[r] /\ r \in 1 .. n
  <2>1. IsPart(d, p, nd, n) BY <1>3, DecodePart
  <2> QED BY <2>1 DEF IsPart
<1>5. /\ MaxLen(d) \in Nat /\ MinLen(d) \in Nat
      /\ \E r \in 1 .. nd : d[r].q = MaxLen(d)
      /\ \A r \in 1 .. nd : d[r].q \in Nat /\ MinLen(d) <= d[r].q /\ d[r].q <= MaxLen(d)
  <2>1. Decodes(d) /\ Len(d) # 0 BY <1>4
  <2>2. LensOf(d) BY <2>1, DecodeLens
  <2>3. Len(d) = nd BY <1>4
  <2> QED BY <2>2, <2>3 DEF LensOf
<1>6. \A r \in 1 .. Len(b) : b[r].q \in Nat \ {0}
  <2>1. \A r \in 1 .. Len(b) : b[r] \in Requests BY BatchTyped
  <2> QED BY <2>1, RequestTyped
<1>7. 1 \in 1 .. nd /\ 1 \in 1 .. Len(b) BY <1>1, <1>3
<1>8. d[1] = b[1] BY <1>1, <1>4, <1>7
<1>9. ASSUME NEW r \in 1 .. nd, r \in 1 .. Len(b) PROVE b[r].q = MaxLen(d)
  <2> DEFINE m == MaxLen(d)
             q == b[r].q
  <2>1. d[r] = b[r] BY <1>1, <1>4, <1>9
  <2>2. q \in Nat \ {0} /\ q <= m /\ MinLen(d) <= q /\ m \in Nat BY <1>5, <1>6, <1>9, <2>1
  <2>3. CASE ~UseFlattening
    <3> DEFINE t == b[1].q
    <3>1. \A o \in 1 .. nd : p[o].q \in {0, p[1].q} BY <1>2, <2>3, NumDecodesIs
    <3>2. p[1] = b[1] BY <1>1, <1>7
    <3>3. \A o \in 1 .. nd : d[o].q \in {0, t} BY <1>4, <3>1, <3>2
    <3>4. q \in {0, t} BY <1>9, <2>1, <3>3
    <3>5. m \in {0, t} BY <1>5, <3>3
    <3> HIDE DEF m, q, t
    <3> QED BY <2>2, <3>4, <3>5 DEF m, q
  <2>4. CASE MaxLen(d) <= 1
    <3>1. m <= 1 BY <2>4
    <3> HIDE DEF m, q
    <3> QED BY <2>2, <3>1 DEF m, q
  <2>5. CASE MinLen(d) = MaxLen(d)
    <3>1. m <= q BY <2>2, <2>5
    <3> HIDE DEF m, q
    <3> QED BY <2>2, <3>1 DEF m, q
  <2> QED BY <2>3, <2>4, <2>5
<1> QED BY <1>9 DEF Even

(* A list of queries that starts as another starts each of them there.      *)
LEMMA SameStarts ==
  ASSUME NEW L \in Nat, NEW f, NatTo(f, L), NEW N \in 0 .. L, NEW g, \A i \in 1 .. N : g[i] = f[i]
  PROVE  NatTo(g, N) /\ \A m \in 0 .. N : SumTo(g, m) = SumTo(f, m)
<1>1. N \in Nat /\ NatTo(f, N)
  <2>1. \A i \in 1 .. N : i \in 1 .. L OBVIOUS
  <2> QED BY <2>1 DEF NatTo
<1> QED BY <1>1, SumToSame

(* Row i of request r, with m rows a request.                               *)
LEMMA EvenRow ==
  ASSUME NEW m \in Nat, NEW r \in Nat \ {0}, NEW i \in 0 .. m - 1, NEW g, g = (r - 1) * m + i
  PROVE  g \in Nat /\ g \div m + 1 = r /\ g % m = i /\ \A k \in Nat : r <= k => g < k * m
<1> DEFINE o == r - 1
<1>1. o \in Nat /\ i \in Nat /\ i < m /\ m \in Nat \ {0} /\ r = o + 1 OBVIOUS
<1>2. g = o * m + i OBVIOUS
<1> HIDE DEF o
<1>3. o * m \in Nat BY <1>1
<1>4. g \in Nat BY <1>1, <1>2, <1>3
<1>5. g \div m = o
  <2>1. o <= g \div m
    <3>1. o * m <= g BY <1>1, <1>2, <1>3
    <3> QED BY <1>1, <1>4, <3>1, DivAtLeast
  <2>2. g \div m < o + 1
    <3>1. (o + 1) * m = o * m + m BY <1>1
    <3>2. g < (o + 1) * m BY <1>1, <1>2, <1>3, <3>1
    <3> QED BY <1>1, <1>4, <3>2, DivBelow
  <2>3. g \div m \in Nat BY <1>1, <1>4, DivBounds
  <2> DEFINE e == g \div m
  <2> HIDE DEF e
  <2>4. e \in Nat /\ o <= e /\ e < o + 1 BY <2>1, <2>2, <2>3 DEF e
  <2>5. e = o BY <1>1, <2>4
  <2> QED BY <2>5 DEF e
<1>6. g % m = i
  <2>1. g = (g \div m) * m + (g % m) /\ g % m \in 0 .. m - 1 BY <1>1, <1>4
  <2> DEFINE e == g % m
  <2>2. g = o * m + e /\ e \in 0 .. m - 1 BY <1>5, <2>1
  <2> HIDE DEF e
  <2>3. e = i BY <1>1, <1>2, <1>3, <2>2
  <2> QED BY <2>3 DEF e
<1>7. ASSUME NEW k \in Nat, r <= k PROVE g < k * m
  <2>1. PICK e \in Nat : k = (o + 1) + e
    <3>1. k - (o + 1) \in Nat /\ k = (o + 1) + (k - (o + 1)) BY <1>1, <1>7
    <3> QED BY <3>1
  <2>2. k * m = o * m + m + e * m /\ e * m \in Nat BY <1>1, <2>1
  <2> QED BY <1>1, <1>2, <1>3, <2>2
<1> QED BY <1>1, <1>4, <1>5, <1>6, <1>7

(* The largest bound among the decodes is at least each of their lengths.   *)
LEMMA MaxUbIs ==
  ASSUME NEW b \in Batches, NEW n \in Len(b) .. MaxReqs, NEW p, p = Padded(b, n),
         NEW nd \in 0 .. n, NEW d, IsPart(d, p, nd, n), nd # 0
  PROVE  /\ MaxUb(d) \in Nat
         /\ \A r \in 1 .. nd : r \in 1 .. Len(b) => b[r].s <= MaxUb(d)
<1> DEFINE S == { d[r].ub : r \in DOMAIN d }
<1>1. /\ n \in Nat \ {0}
      /\ \A r \in 1 .. Len(b) : r \in 1 .. n /\ p[r] = b[r]
      /\ \A r \in 1 .. n : r \notin 1 .. Len(b) => p[r] = [q |-> 0, s |-> 0, ub |-> 0]
  BY PaddedIs
<1>2. DOMAIN d = 1 .. nd /\ \A r \in 1 .. nd : d[r] = p[r] /\ r \in 1 .. n BY DEF IsPart
<1>3. \A r \in 1 .. Len(b) : b[r].s \in Nat /\ b[r].ub \in Nat /\ b[r].s <= b[r].ub /\ b[r].ub <= MaxModelLen
  <2>1. \A r \in 1 .. Len(b) : b[r] \in Requests BY BatchTyped
  <2> QED BY <2>1, RequestTyped
<1>4. \A r \in 1 .. nd : d[r].ub \in 0 .. MaxModelLen
  <2> SUFFICES ASSUME NEW r \in 1 .. nd PROVE d[r].ub \in 0 .. MaxModelLen OBVIOUS
  <2>1. CASE r \in 1 .. Len(b)
    <3>1. d[r] = b[r] BY <1>1, <1>2, <2>1
    <3>2. b[r].ub \in Nat /\ b[r].ub <= MaxModelLen BY <1>3, <2>1
    <3> QED BY <3>1, <3>2, Budgets
  <2>2. CASE r \notin 1 .. Len(b)
    <3>1. d[r] = [q |-> 0, s |-> 0, ub |-> 0] BY <1>1, <1>2, <2>2
    <3> QED BY <3>1, Budgets
  <2> QED BY <2>1, <2>2
<1>5. S \in SUBSET (0 .. MaxModelLen) /\ S # {}
  <2>1. 1 \in 1 .. nd BY <1>1
  <2> QED BY <1>2, <1>4, <2>1
<1>6. \A r \in 1 .. nd : d[r].ub \in S BY <1>2
<1>7. MaxUb(d) = Max(S) BY DEF MaxUb
<1>8. \A x \in S : x \in Nat BY <1>5, Budgets
<1> HIDE DEF S
<1>9. Max(S) \in S /\ \A x \in S : x <= Max(S) BY <1>5, Budgets, MaxIsMember
<1>10. MaxUb(d) \in Nat BY <1>7, <1>8, <1>9
<1>11. ASSUME NEW r \in 1 .. nd, r \in 1 .. Len(b) PROVE b[r].s <= MaxUb(d)
  <2> DEFINE s == b[r].s
             u == b[r].ub
             m == MaxUb(d)
  <2>1. d[r] = b[r] BY <1>1, <1>2, <1>11
  <2>2. u <= m BY <1>6, <1>7, <1>9, <2>1
  <2>3. s \in Nat /\ u \in Nat /\ s <= u /\ m \in Nat BY <1>3, <1>10, <1>11
  <2> HIDE DEF s, u, m
  <2>4. s <= m BY <2>2, <2>3
  <2> QED BY <2>4 DEF s, m
<1> QED BY <1>10, <1>11

(* The page of a K row of a request of s tokens starts within them, even if *)
(* they are counted as K rows.                                              *)
LEMMA PageStart ==
  ASSUME conf \in Configs, NEW s \in Nat, NEW i \in Nat, i < s \div conf.ratio
  PROVE  /\ i \div Storage \in Nat
         /\ (i \div Storage) * BlockSize <= s /\ (i \div Storage) * Storage <= s
<1> DEFINE d == conf.ratio
           t == Storage
           p == i \div t
           e == s \div d
<1>1. d \in Nat \ {0} /\ t \in Nat \ {0} /\ BlockSize = t * d BY ConfTyped, StorageTyped
<1>2. i < e OBVIOUS
<1> HIDE DEF d, t
<1>3. p \in Nat /\ p * t <= i /\ e \in Nat /\ e * d <= s BY <1>1, DivBounds
<1> HIDE DEF p, e
<1> DEFINE x == p * t
<1>4. x \in Nat /\ x <= i BY <1>1, <1>3
<1>5. p * BlockSize = x * d
  <2>1. p * (t * d) = (p * t) * d BY <1>1, <1>3
  <2> QED BY <1>1, <2>1
<1> HIDE DEF x
<1>6. PICK k \in Nat : e = x + k
  <2>1. e - x \in Nat /\ e = x + (e - x) BY <1>2, <1>3, <1>4
  <2> QED BY <2>1
<1>7. x * d <= s
  <2>1. e * d = x * d + k * d /\ k * d \in Nat /\ x * d \in Nat BY <1>1, <1>4, <1>6
  <2> QED BY <1>3, <2>1
<1>8. x <= s
  <2>1. PICK c \in Nat : d = c + 1
    <3>1. d - 1 \in Nat /\ d = (d - 1) + 1 BY <1>1
    <3> QED BY <3>1
  <2>2. x * d = x * c + x /\ x * c \in Nat BY <1>1, <1>4, <2>1
  <2> QED BY <1>4, <1>7, <2>2
<1> QED BY <1>3, <1>5, <1>7, <1>8 DEF p, t, x

(* A page that starts within m tokens is among the first pages they need,   *)
(* rounded up.                                                              *)
LEMMA PageBelow ==
  ASSUME NEW p \in Nat, NEW w \in Nat \ {0}, NEW s \in Nat, p * w <= s, NEW m \in Nat, s <= m
  PROVE  Cdiv(m, w) \in Nat /\ p <= Cdiv(m, w)
<1>1. m + w - 1 \in Nat /\ p * w \in Nat OBVIOUS
<1>2. p * w <= m + w - 1
  <2> DEFINE x == p * w
  <2>1. x \in Nat /\ x <= s BY <1>1
  <2> HIDE DEF x
  <2>2. x <= m + w - 1 BY <2>1
  <2> QED BY <2>2 DEF x
<1>3. p <= (m + w - 1) \div w BY <1>1, <1>2, DivAtLeast
<1>4. (m + w - 1) \div w \in Nat BY <1>1, DivBounds
<1> QED BY <1>3, <1>4 DEF Cdiv

(* A table that has the request's own page for each of its K rows.          *)
HasPages(t, r, n) ==
  \A j \in 0 .. n - 1 : j \div Storage \in DOMAIN t /\ t[j \div Storage] = <<r, j \div Storage>>

(* The request's own table has them, whole or trimmed to the largest bound. *)
LEMMA RowHasPages ==
  ASSUME conf \in Configs, NEW d, MaxUb(d) \in Nat, NEW s \in Nat, s <= MaxModelLen, s <= MaxUb(d),
         NEW n \in Nat, n <= s \div conf.ratio, NEW r, NEW t, t \in {BlockTable(r), TrimmedRow(d, r)}
  PROVE  HasPages(t, r, n) /\ DOMAIN t = 0 .. FullWidth - 1
<1> DEFINE u == MaxUb(d)
           e == s \div conf.ratio
           C == Cdiv(u, Storage)
<1>1. e \in Nat
  <2>1. conf.ratio \in Nat \ {0} BY ConfTyped
  <2> QED BY <2>1, DivBounds
<1>2. FullWidth \in Nat /\ Storage \in Nat \ {0} BY StorageTyped
<1>3. ASSUME NEW j \in 0 .. n - 1
      PROVE  j \div Storage \in 0 .. FullWidth - 1 /\ j \div Storage < CopyWidth(d)
  <2> DEFINE p == j \div Storage
  <2>1. j \in Nat /\ j < e
    <3>1. n <= e OBVIOUS
    <3> HIDE DEF e
    <3> QED BY <1>1, <3>1
  <2>2. j < s \div conf.ratio BY <2>1
  <2>3. p \in 0 .. FullWidth - 1 BY <2>1, <2>2, PageInTable
  <2>4. p \in Nat /\ p * Storage <= s BY <2>1, <2>2, PageStart
  <2>5. CASE conf.trim
    <3>1. CopyWidth(d) = Most(1, Least(C + 1, FullWidth)) BY <2>5 DEF CopyWidth
    <3>2. C \in Nat /\ p <= C
      <4> HIDE DEF p
      <4> QED BY <1>2, <2>4, PageBelow
    <3> HIDE DEF p, C
    <3>3. p < FullWidth BY <1>2, <2>3
    <3>4. p < Least(C + 1, FullWidth) BY <2>4, <3>2, <3>3 DEF Least
    <3>5. Least(C + 1, FullWidth) \in Nat BY <1>2, <3>2 DEF Least
    <3>6. p < Most(1, Least(C + 1, FullWidth))
      <4> DEFINE y == Least(C + 1, FullWidth)
      <4> HIDE DEF y
      <4> QED BY <2>4, <3>4, <3>5 DEF Most, y
    <3> QED BY <2>3, <3>1, <3>6 DEF p
  <2>6. CASE ~conf.trim
    <3>1. CopyWidth(d) = FullWidth BY <2>6 DEF CopyWidth
    <3> HIDE DEF p
    <3>2. p < FullWidth BY <1>2, <2>3
    <3> QED BY <2>3, <3>1, <3>2 DEF p
  <2> QED BY <2>5, <2>6
<1>4. CASE t = BlockTable(r)
  <2>1. DOMAIN t = 0 .. FullWidth - 1 /\ \A p \in 0 .. FullWidth - 1 : t[p] = <<r, p>>
    BY <1>4 DEF BlockTable
  <2> QED BY <1>3, <2>1 DEF HasPages
<1>5. CASE t = TrimmedRow(d, r)
  <2>1. DOMAIN t = 0 .. FullWidth - 1
        /\ \A p \in 0 .. FullWidth - 1 : p < CopyWidth(d) => t[p] = <<r, p>>
    BY <1>5 DEF TrimmedRow, BlockTable
  <2> QED BY <1>3, <2>1 DEF HasPages
<1> QED BY <1>4, <1>5

(* So does the capped copy of such a table, when the builder hands it out.  *)
LEMMA CappedHasPages ==
  ASSUME conf \in Configs, NEW d, MaxUb(d) \in Nat, NEW s \in Nat, s <= MaxUb(d), Narrowed(d),
         NEW n \in Nat, n <= s \div conf.ratio, NEW r, NEW t, HasPages(t, r, n)
  PROVE  HasPages(CappedRow(t), r, n)
<1> DEFINE e == s \div conf.ratio
           C == Cdiv(MaxUb(d), BlockSize)
<1>1. e \in Nat
  <2>1. conf.ratio \in Nat \ {0} BY ConfTyped
  <2> QED BY <2>1, DivBounds
<1>2. C + 1 <= CapWidth BY DEF Narrowed
<1>3. CapWidth \in Nat
  <2>1. conf.cap \in Nat /\ BlockSize \in Nat \ {0} BY ConfTyped, Budgets
  <2>2. conf.cap + BlockSize - 1 \in Nat BY <2>1
  <2> QED BY <2>1, <2>2, DivBounds DEF CapWidth, Cdiv
<1>4. ASSUME NEW j \in 0 .. n - 1 PROVE j \div Storage \in 0 .. CapWidth - 1
  <2> DEFINE p == j \div Storage
  <2>1. j \in Nat /\ j < e
    <3>1. n <= e OBVIOUS
    <3> HIDE DEF e
    <3> QED BY <1>1, <3>1
  <2>2. j < s \div conf.ratio BY <2>1
  <2>3. p \in Nat /\ p * BlockSize <= s BY <2>1, <2>2, PageStart
  <2> HIDE DEF p
  <2>4. C \in Nat /\ p <= C BY <2>3, Budgets, PageBelow
  <2> HIDE DEF C
  <2>5. p \in 0 .. CapWidth - 1 BY <1>2, <1>3, <2>3, <2>4
  <2> QED BY <2>5 DEF p
<1>5. DOMAIN CappedRow(t) = 0 .. CapWidth - 1 /\ \A p \in 0 .. CapWidth - 1 : CappedRow(t)[p] = t[p]
  BY DEF CappedRow
<1>6. ASSUME NEW j \in 0 .. n - 1
      PROVE  /\ j \div Storage \in DOMAIN CappedRow(t)
             /\ CappedRow(t)[j \div Storage] = <<r, j \div Storage>>
  <2>1. t[j \div Storage] = <<r, j \div Storage>> BY DEF HasPages
  <2> QED BY <1>4, <1>5, <2>1
<1> QED BY <1>6 DEF HasPages

(* With m rows for every decode, request r starts at row (r - 1) * m.       *)
LEMMA EvenStarts ==
  ASSUME NEW b \in Batches, conf \in Configs, NEW nd \in Nat, NEW m \in Nat,
         \A r \in 1 .. nd : r \in 1 .. Len(b) => b[r].q = m
  PROVE  /\ \A r \in 1 .. Len(b) : r \in 1 .. nd => StartLoc(b, r) = (r - 1) * m
         /\ nd <= Len(b) => SumTo(QueryLens(b), nd) = nd * m
<1> DEFINE L == Len(b)
           F == QueryLens(b)
           k == IF nd <= L THEN nd ELSE L
<1>1. L \in Nat /\ k \in Nat /\ k <= L BY BatchSums
<1>2. \A r \in 1 .. L : F[r] = b[r].q BY BatchLoads
<1>3. \A r \in 1 .. k : r \in 1 .. nd /\ r \in 1 .. L BY <1>1
<1>4. \A r \in 1 .. k : F[r] = m BY <1>2, <1>3
<1>5. \A r \in 1 .. L : r \in 1 .. nd => r - 1 \in 0 .. k BY <1>1
<1>6. nd <= L => nd = k /\ k \in 0 .. k BY <1>1
<1> HIDE DEF F, k, L
<1>7. \A x \in 0 .. k : SumTo(F, x) = x * m
  <2>1. Multiples(F, k, m) BY <1>1, <1>4, SumOfEqual
  <2> QED BY <2>1 DEF Multiples
<1>8. nd <= L => SumTo(F, nd) = nd * m BY <1>6, <1>7
<1>9. ASSUME NEW r \in 1 .. L, r \in 1 .. nd PROVE SumTo(F, r - 1) = (r - 1) * m
  <2> DEFINE x == r - 1
  <2>1. x \in 0 .. k BY <1>5, <1>9
  <2> HIDE DEF x
  <2>2. SumTo(F, x) = x * m BY <1>7, <2>1
  <2> QED BY <2>2 DEF x
<1> QED BY <1>8, <1>9 DEF StartLoc, F, L

(* A row of the expansion belongs to request r, at place i of its query.    *)
RowFor(row, b, d, r, i) ==
  row.len = b[r].s - b[r].q + 1 + i /\ row.table \in {BlockTable(r), TrimmedRow(d, r)}

(* Expansions with equally many rows a request: one decodes them natively,  *)
(* the other flattens them.                                                 *)
LEMMA EvenRowFor ==
  ASSUME NEW b \in Batches, conf \in Configs, NEW n \in Len(b) .. MaxReqs, NEW p, p = Padded(b, n),
         NEW nd \in 0 .. n, NEW d, IsPart(d, p, nd, n), nd # 0, MaxLen(d) \in Nat,
         Even(b, d, nd),
         NEW r \in 1 .. Len(b), NEW i \in 0 .. b[r].q - 1, NEW g, g = StartLoc(b, r) + i,
         NEW rows, rows \in {NativeRows(d), UniformRows(d)}
  PROVE  /\ r \in 1 .. nd => g \in DOMAIN rows /\ RowFor(rows[g], b, d, r, i)
         /\ r \notin 1 .. nd => g \notin DOMAIN rows
<1> DEFINE m == MaxLen(d)
           s == b[r].s
           q == b[r].q
           W == 0 .. nd * m - 1
           Own(o, t) == t \in {BlockTable(o), TrimmedRow(d, o)}
<1>1. nd \in Nat /\ Len(d) = nd /\ (\A o \in 1 .. nd : d[o] = p[o]) /\ Len(b) \in Nat
      /\ \A o \in 1 .. Len(b) : p[o] = b[o]
  <2>1. /\ n \in Nat /\ Len(b) \in Nat /\ \A o \in 1 .. Len(b) : o \in 1 .. n /\ p[o] = b[o]
    BY PaddedIs
  <2>2. Len(d) = nd /\ \A o \in 1 .. nd : d[o] = p[o] BY DEF IsPart
  <2> QED BY <2>1, <2>2
<1>2. /\ \A o \in 1 .. Len(b) : o \in 1 .. nd => StartLoc(b, o) = (o - 1) * m
      /\ nd <= Len(b) => SumTo(QueryLens(b), nd) = nd * m
  <2>1. \A o \in 1 .. nd : o \in 1 .. Len(b) => b[o].q = m BY DEF Even
  <2> QED BY <1>1, <2>1, EvenStarts
<1>3. s \in Nat /\ q \in Nat /\ q <= s
  <2>1. b[r] \in Requests BY BatchTyped
  <2> QED BY <2>1, RequestTyped
<1>4. DOMAIN rows = W
      /\ \A x \in W : /\ rows[x].len \in {d[x \div m + 1].s - m + 1 + (x % m),
                                            d[x \div m + 1].s - m + (x % m) + 1}
                      /\ Own(x \div m + 1, rows[x].table)
  <2>1. CASE rows = NativeRows(d)
    <3>1. rows = [x \in W |-> [len |-> d[x \div m + 1].s - m + 1 + (x % m),
                               table |-> BlockTable(x \div m + 1)]]
      BY <1>1, <2>1 DEF NativeRows
    <3> HIDE DEF W
    <3> QED BY <3>1
  <2>2. CASE rows = UniformRows(d)
    <3>1. rows = [x \in W |-> [len |-> d[x \div m + 1].s - m + (x % m) + 1,
                               table |-> TrimmedRow(d, x \div m + 1)]]
      BY <1>1, <2>2 DEF UniformRows
    <3> HIDE DEF W
    <3> QED BY <3>1
  <2> QED BY <2>1, <2>2
<1>5. g \in Nat
  BY RowOwned
<1>8. m \in Nat OBVIOUS
<1>6. ASSUME r \in 1 .. nd PROVE g \in DOMAIN rows /\ RowFor(rows[g], b, d, r, i)
  <2>1. q = m BY <1>6 DEF Even
  <2>2. StartLoc(b, r) = (r - 1) * m BY <1>2, <1>6
  <2>3. g = (r - 1) * m + i /\ i \in 0 .. m - 1 BY <2>1, <2>2
  <2>4. r \in Nat \ {0} /\ r <= nd BY <1>1, <1>6
  <2>5. g \in Nat /\ g \div m + 1 = r /\ g % m = i /\ \A k \in Nat : r <= k => g < k * m
    <3> HIDE DEF m
    <3> QED BY <2>3, <2>4, EvenRow DEF m
  <2>6. g < nd * m BY <1>1, <2>4, <2>5
  <2>7. g \in W
    <3>1. nd * m \in Nat BY <1>1
    <3> QED BY <2>5, <2>6, <3>1
  <2>8. d[r] = b[r] BY <1>1, <1>6
  <2>9. rows[g].len = s - m + 1 + i /\ Own(r, rows[g].table)
    <3>1. /\ rows[g].len \in {d[g \div m + 1].s - m + 1 + (g % m), d[g \div m + 1].s - m + (g % m) + 1}
          /\ Own(g \div m + 1, rows[g].table)
      <4> HIDE DEF W, Own
      <4> QED BY <1>4, <2>7
    <3> HIDE DEF Own, m
    <3>2. /\ rows[g].len \in {d[r].s - m + 1 + i, d[r].s - m + i + 1}
          /\ Own(r, rows[g].table)
      BY <2>5, <3>1
    <3>3. d[r].s = s BY <2>8
    <3> HIDE DEF s
    <3>4. s - m + 1 + i = s - m + i + 1 BY <1>3, <1>8, <2>3
    <3> QED BY <3>2, <3>3, <3>4
  <2> QED BY <1>4, <2>1, <2>7, <2>9 DEF RowFor
<1>7. ASSUME r \notin 1 .. nd PROVE g \notin DOMAIN rows
  <2>1. nd <= Len(b) /\ nd < r BY <1>1, <1>7
  <2>2. SumTo(QueryLens(b), nd) = nd * m BY <1>2, <2>1
  <2>3. nd * m <= g
    <3> DEFINE F == QueryLens(b)
    <3>1. SumTo(F, r - 1) <= g /\ Len(b) \in Nat /\ NatTo(F, Len(b)) BY RowOwned, BatchSums
    <3>2. nd \in 0 .. Len(b) /\ r - 1 \in nd .. Len(b) BY <1>1, <2>1
    <3> HIDE DEF F
    <3>3. SumTo(F, nd) <= SumTo(F, r - 1) BY <3>1, <3>2, SumToGrows
    <3>4. SumTo(F, nd) \in Nat /\ SumTo(F, r - 1) \in Nat
      <4>1. r - 1 \in 0 .. Len(b) BY <1>1, <3>2
      <4> QED BY <3>1, <3>2, <4>1, SumToStep
    <3> DEFINE x == SumTo(F, nd)
               y == SumTo(F, r - 1)
    <3>5. x = nd * m BY <2>2 DEF F
    <3>6. x <= y /\ y <= g /\ x \in Nat /\ y \in Nat BY <3>1, <3>3, <3>4
    <3> HIDE DEF x, y
    <3>7. x <= g BY <1>5, <3>6
    <3> QED BY <3>5, <3>7
  <2>4. g \notin W
    <3>1. nd * m \in Nat BY <1>1
    <3> QED BY <1>5, <2>3, <3>1
  <2> QED BY <1>4, <2>4
<1> QED BY <1>6, <1>7

(* The decodes start where the batch starts them.                           *)
LEMMA DecodeStarts ==
  ASSUME NEW b \in Batches, conf \in Configs, NEW n \in Len(b) .. MaxReqs, NEW p, p = Padded(b, n),
         NEW nd \in 0 .. n, NEW d, IsPart(d, p, nd, n)
  PROVE  /\ NatTo(QueryLens(d), nd) /\ \A r \in 1 .. nd : QueryLens(d)[r] = d[r].q
         /\ Rows(d) = SumTo(QueryLens(d), nd) /\ Rows(d) \in Nat
         /\ \A r \in 1 .. nd : r \in 1 .. Len(b) => d[r] = b[r] /\ StartLoc(d, r) = StartLoc(b, r)
         /\ nd <= Len(b) => Rows(d) = SumTo(QueryLens(b), nd)
<1> DEFINE L == Len(b)
           F == QueryLens(b)
           D == QueryLens(d)
           k == IF nd <= L THEN nd ELSE L
<1>1. /\ n \in Nat /\ L \in Nat /\ \A r \in 1 .. L : p[r] = b[r]
  BY PaddedIs
<1>2. Len(d) = nd /\ DOMAIN d = 1 .. nd /\ Decodes(d) /\ \A r \in 1 .. nd : d[r] = p[r] BY DEF IsPart
<1>3. \A r \in 1 .. nd : d[r].q \in Nat BY <1>2, Budgets DEF Decodes
<1>4. D = [r \in 1 .. nd |-> d[r].q] BY <1>2 DEF QueryLens
<1>5. \A r \in 1 .. nd : D[r] = d[r].q BY <1>4
<1>6. NatTo(D, nd) BY <1>3, <1>5 DEF NatTo
<1>7. Rows(d) = SumTo(D, nd) BY <1>2 DEF Rows
<1>8. nd \in Nat BY <1>1
<1>9. Rows(d) \in Nat
  <2>1. nd \in 0 .. nd BY <1>8
  <2> HIDE DEF D
  <2> QED BY <1>6, <1>7, <1>8, <2>1, SumToStep
<1>10. k \in 0 .. L /\ k \in 0 .. nd /\ (\A r \in 1 .. k : r \in 1 .. nd /\ r \in 1 .. L)
       /\ (nd <= L => k = nd) /\ (\A r \in 1 .. nd : r \in 1 .. L => r - 1 \in 0 .. k)
       /\ k \in 0 .. k
  BY <1>1, <1>8
<1>11. \A r \in 1 .. L : F[r] = b[r].q BY BatchLoads
<1>12. \A r \in 1 .. k : D[r] = F[r]
  <2> HIDE DEF D, F, k, L
  <2> QED BY <1>1, <1>2, <1>5, <1>10, <1>11
<1>13. NatTo(F, L) BY BatchSums
<1>14. \A x \in 0 .. k : SumTo(D, x) = SumTo(F, x)
  <2> HIDE DEF D, F, k, L
  <2>1. L \in Nat /\ k \in 0 .. L BY <1>1, <1>10
  <2>2. NatTo(D, k) /\ \A x \in 0 .. k : SumTo(D, x) = SumTo(F, x) BY <1>12, <1>13, <2>1, SameStarts
  <2> QED BY <2>2
<1>15. \A r \in 1 .. nd : r \in 1 .. L => StartLoc(d, r) = StartLoc(b, r)
  <2>1. \A r \in 1 .. nd : r \in 1 .. L => SumTo(D, r - 1) = SumTo(F, r - 1)
    <3> HIDE DEF D, F, k, L
    <3> QED BY <1>10, <1>14
  <2> QED BY <2>1 DEF StartLoc
<1>16. nd <= L => SumTo(D, nd) = SumTo(F, nd)
  <2> HIDE DEF D, F, k, L
  <2> QED BY <1>10, <1>14
<1>17. \A r \in 1 .. nd : r \in 1 .. L => d[r] = b[r] BY <1>1, <1>2
<1> QED BY <1>5, <1>6, <1>7, <1>9, <1>15, <1>16, <1>17

(* Rows repeated by each request's own length: a row the expansion has room *)
(* for belongs to its request, and a later request's has no place in it.    *)
LEMMA VariableRowFor ==
  ASSUME NEW b \in Batches, conf \in Configs, NEW n \in Len(b) .. MaxReqs, NEW p, p = Padded(b, n),
         NEW nd \in 0 .. n, NEW d, IsPart(d, p, nd, n), NEW m \in Nat,
         NEW r \in 1 .. Len(b), NEW i \in 0 .. b[r].q - 1, NEW g, g = StartLoc(b, r) + i,
         NEW rows, rows = VariableRows(d, m)
  PROVE  /\ r \in 1 .. nd /\ g < m => g \in DOMAIN rows /\ RowFor(rows[g], b, d, r, i)
         /\ r \notin 1 .. nd /\ m = Rows(d) => g \notin DOMAIN rows
<1> DEFINE F == QueryLens(b)
           D == QueryLens(d)
           Owns(o) == StartLoc(d, o) <= g /\ g < StartLoc(d, o) + d[o].q
<1>1. /\ NatTo(D, nd) /\ \A o \in 1 .. nd : D[o] = d[o].q
      /\ Rows(d) = SumTo(D, nd) /\ Rows(d) \in Nat
      /\ \A o \in 1 .. nd : o \in 1 .. Len(b) => d[o] = b[o] /\ StartLoc(d, o) = StartLoc(b, o)
      /\ nd <= Len(b) => Rows(d) = SumTo(F, nd)
  BY DecodeStarts
<1>2. n \in Nat /\ Len(b) \in Nat BY PaddedIs
<1>3. nd \in Nat BY <1>2
<1>4. g \in Nat /\ SumTo(F, r - 1) <= g /\ g < SumTo(F, r - 1) + F[r] BY RowOwned
<1>5. DOMAIN rows = 0 .. m - 1 BY DEF VariableRows
<1>6. DOMAIN d = 1 .. nd BY DEF IsPart
<1>7. F[r] = b[r].q BY BatchLoads
<1>8. ASSUME r \in 1 .. nd, g < m PROVE g \in DOMAIN rows /\ RowFor(rows[g], b, d, r, i)
  <2>1. d[r] = b[r] /\ StartLoc(d, r) = StartLoc(b, r) BY <1>1, <1>8
  <2>2. g \in 0 .. m - 1 BY <1>4, <1>8
  <2>3. Owns(r)
    <3>1. StartLoc(b, r) = SumTo(F, r - 1) BY DEF StartLoc
    <3> QED BY <1>4, <1>7, <2>1, <3>1
  <2>4. \A o \in 1 .. nd : Owns(o) <=> SumTo(D, o - 1) <= g /\ g < SumTo(D, o - 1) + D[o]
    BY <1>1 DEF StartLoc
  <2>5. Owner(d, g) = r
    <3> DEFINE o == CHOOSE x \in DOMAIN d : Owns(x)
    <3>1. Owner(d, g) = o BY DEF Owner
    <3> HIDE DEF Owns, D
    <3>2. o \in DOMAIN d /\ Owns(o) BY <1>6, <1>8, <2>3, Zenon
    <3> HIDE DEF o
    <3>3. o \in 1 .. nd BY <1>6, <3>2
    <3>4. SumTo(D, o - 1) <= g /\ g < SumTo(D, o - 1) + D[o] BY <2>4, <3>2, <3>3
    <3>5. SumTo(D, r - 1) <= g /\ g < SumTo(D, r - 1) + D[r] BY <1>8, <2>3, <2>4
    <3>6. o = r BY <1>1, <1>3, <1>4, <1>8, <3>3, <3>4, <3>5, OwnerUnique
    <3> QED BY <3>1, <3>6
  <2>6. g < Rows(d)
    <3> HIDE DEF D, Owns
    <3>1. SumTo(D, r - 1) <= g /\ g < SumTo(D, r - 1) + D[r] BY <1>8, <2>3, <2>4
    <3>2. SumTo(D, r) = SumTo(D, r - 1) + D[r] BY <1>1, <1>3, <1>8, SumToStep
    <3>3. r \in 0 .. nd /\ nd \in r .. nd BY <1>3, <1>8
    <3>4. SumTo(D, r) <= SumTo(D, nd) /\ SumTo(D, r) \in Nat BY <1>1, <1>3, <3>3, SumToGrows, SumToStep
    <3> DEFINE x == SumTo(D, r)
               y == Rows(d)
    <3>5. g < x /\ x <= y /\ x \in Nat /\ y \in Nat BY <1>1, <3>1, <3>2, <3>4
    <3> HIDE DEF x, y
    <3>6. g < y BY <1>4, <3>5
    <3> QED BY <3>6 DEF y
  <2>7. rows[g] = [len |-> d[r].s - d[r].q - StartLoc(d, r) + g + 1, table |-> TrimmedRow(d, r)]
    BY <2>2, <2>5, <2>6 DEF VariableRows
  <2>8. d[r].s - d[r].q - StartLoc(d, r) + g + 1 = b[r].s - b[r].q + 1 + i
    <3> DEFINE s == b[r].s
               q == b[r].q
               u == StartLoc(b, r)
    <3>1. s \in Nat /\ q \in Nat
      <4>1. b[r] \in Requests BY BatchTyped
      <4> QED BY <4>1, RequestTyped
    <3>2. u \in Nat
      <4>1. r - 1 \in 0 .. Len(b) BY <1>2
      <4> QED BY <4>1, BatchSums DEF StartLoc
    <3>3. g = u + i /\ i \in 0 .. q - 1 OBVIOUS
    <3>4. d[r].s = s /\ d[r].q = q /\ StartLoc(d, r) = u BY <2>1
    <3> HIDE DEF s, q, u
    <3>5. s - q - u + g + 1 = s - q + 1 + i BY <3>1, <3>2, <3>3
    <3> QED BY <3>4, <3>5 DEF s, q
  <2> QED BY <1>5, <2>2, <2>7, <2>8 DEF RowFor
<1>9. ASSUME r \notin 1 .. nd, m = Rows(d) PROVE g \notin DOMAIN rows
  <2>1. nd <= Len(b) /\ nd \in 0 .. Len(b) /\ r - 1 \in nd .. Len(b) /\ r - 1 \in 0 .. Len(b)
    BY <1>2, <1>3, <1>9
  <2>2. NatTo(F, Len(b)) BY BatchSums
  <2> HIDE DEF F
  <2>3. SumTo(F, nd) <= SumTo(F, r - 1) /\ SumTo(F, nd) \in Nat /\ SumTo(F, r - 1) \in Nat
    BY <1>2, <2>1, <2>2, SumToGrows, SumToStep
  <2> DEFINE x == SumTo(F, nd)
             y == SumTo(F, r - 1)
  <2>4. m = x /\ x \in Nat /\ y \in Nat /\ x <= y /\ y <= g BY <1>1, <1>4, <1>9, <2>1, <2>3
  <2> HIDE DEF x, y
  <2>5. g \notin 0 .. m - 1 BY <1>4, <2>4
  <2> QED BY <1>5, <2>5
<1> QED BY <1>8, <1>9

(* Every row of a decoded request that the expansion has room for is its    *)
(* own, and no row of a later request is among them.                        *)
Placed(rows, b, d, nd, m, r, i, g) ==
  /\ r \in 1 .. nd /\ g < m => g \in DOMAIN rows /\ RowFor(rows[g], b, d, r, i)
  /\ r \notin 1 .. nd /\ m = Rows(d) => g \notin DOMAIN rows

(* The expansions do that.                                                  *)
LEMMA ExpandedRowFor ==
  ASSUME NEW b \in Batches, conf \in Configs, NEW n \in Len(b) .. MaxReqs, NEW p, p = Padded(b, n),
         NEW nd \in 0 .. n, nd = NumDecodes(p), nd # 0, NEW d, d = SubSeq(p, 1, nd), NEW m \in Nat,
         NEW r \in 1 .. Len(b), NEW i \in 0 .. b[r].q - 1, NEW g, g = StartLoc(b, r) + i,
         NEW rows, rows = Expanded(d, m)
  PROVE  Placed(rows, b, d, nd, m, r, i, g)
<1>1. IsPart(d, p, nd, n) BY DecodePart
<1>2. MaxLen(d) \in Nat
  <2>1. Decodes(d) /\ Len(d) # 0 BY <1>1 DEF IsPart
  <2> QED BY <2>1, DecodeLens DEF LensOf
<1>3. CASE ~UseFlattening \/ MaxLen(d) <= 1 \/ MinLen(d) = MaxLen(d)
  <2>1. Even(b, d, nd) BY <1>3, EvenDecodes
  <2>2. rows \in {NativeRows(d), UniformRows(d)} BY <1>3 DEF Expanded
  <2> QED BY <1>1, <1>2, <2>1, <2>2, EvenRowFor DEF Placed
<1>4. CASE ~(~UseFlattening \/ MaxLen(d) <= 1 \/ MinLen(d) = MaxLen(d))
  <2>1. rows = VariableRows(d, m) BY <1>4 DEF Expanded
  <2> QED BY <1>1, <2>1, VariableRowFor DEF Placed
<1> QED BY <1>3, <1>4

(* The page-table cap and full cudagraphs are not deployed together: a      *)
(* replay reads the table it captured, capped or not.                       *)
CapNeverReplayed ==
  \A c \in Configs : c.graphs /\ c.b12x => c.cap = 0 \/ c.cap >= MaxModelLen

(* Then the layer reads the decodes' own pages.                             *)
LEMMA ReadTableHasPages ==
  ASSUME conf \in Configs, CapNeverReplayed, graph' => conf.graphs,
         NEW d, MaxUb(d) \in Nat, NEW s \in Nat, s <= MaxModelLen, s <= MaxUb(d),
         NEW n \in Nat, n <= s \div conf.ratio, NEW r, NEW t, t \in {BlockTable(r), TrimmedRow(d, r)}
  PROVE  HasPages(ReadTable(d, t), r, n)
<1>1. HasPages(t, r, n) BY RowHasPages
<1>2. Narrowed(d) => HasPages(CappedRow(t), r, n) BY <1>1, CappedHasPages
<1>3. graph' => ~CapturedNarrow
  <2> SUFFICES ASSUME graph', CapturedNarrow PROVE FALSE OBVIOUS
  <2>1. conf.b12x /\ CapActive BY DEF CapturedNarrow, Narrowed
  <2>2. 0 < conf.cap /\ conf.cap < MaxModelLen BY <2>1 DEF CapActive
  <2>3. conf.cap = 0 \/ conf.cap >= MaxModelLen BY <2>1 DEF CapNeverReplayed
  <2>4. conf.cap \in Nat BY ConfTyped
  <2> QED BY <2>2, <2>3, <2>4, Budgets
<1>4. ReadTable(d, t) = IF Narrowed(d) THEN CappedRow(t) ELSE t BY <1>3 DEF ReadTable
<1> QED BY <1>1, <1>2, <1>4

(* The bounds of the batch are at least its lengths.                        *)
LEMMA BatchMaxUb ==
  ASSUME NEW b \in Batches
  PROVE  MaxUb(b) \in Nat /\ \A r \in 1 .. Len(b) : b[r].s <= MaxUb(b)
<1> DEFINE L == Len(b)
           p == Padded(b, L)
<1>1. L \in 1 .. MaxReqs /\ DOMAIN b = 1 .. L /\ b \in Seq(Requests) BY BatchTyped
<1>2. L \in L .. MaxReqs BY <1>1, Budgets
<1>3. \A r \in 1 .. L : p[r] = b[r] BY <1>2, PaddedIs
<1>4. \A r \in 1 .. L : b[r].q \in 0 .. MaxTokens
  <2>1. \A r \in 1 .. L : b[r] \in Requests BY BatchTyped
  <2> QED BY <2>1, Budgets DEF Requests
<1>5. b = [r \in 1 .. L |-> b[r]] BY <1>1
<1>6. L \in 0 .. MaxReqs BY <1>1, Budgets
<1>7. Decodes(b) BY <1>4, <1>5, <1>6 DEF Decodes
<1>8. IsPart(b, p, L, L) BY <1>1, <1>3, <1>7 DEF IsPart
<1>9. L \in 0 .. L /\ L # 0 BY <1>1, Budgets
<1> HIDE DEF p, L
<1>10. /\ MaxUb(b) \in Nat
       /\ \A r \in 1 .. L : r \in 1 .. Len(b) => b[r].s <= MaxUb(b)
  BY <1>2, <1>8, <1>9, MaxUbIs DEF p, L
<1> QED BY <1>10 DEF L

(* A decode row is scored against its own context.                          *)
LEMMA DecodeScored ==
  ASSUME NEW b \in Batches, conf \in Configs, CapNeverReplayed, graph' => conf.graphs,
         NEW d, MaxUb(d) \in Nat,
         NEW r \in 1 .. Len(b), b[r].s <= MaxUb(d), NEW i \in 0 .. b[r].q - 1,
         NEW row, RowFor(row, b, d, r, i),
         NEW w, w = IF conf.b12x THEN Cdiv(MaxUb(b), conf.ratio) ELSE MaxModelLen
  PROVE  Paged(ReadTable(d, row.table), Least(row.len \div conf.ratio, w))
           = OwnContext(r, b[r].s - b[r].q + i)
<1> DEFINE n == ContextLen(b, r, i)
           s == b[r].s
           e == s \div conf.ratio
           t == ReadTable(d, row.table)
<1>1. row.len \div conf.ratio = n
  BY DEF RowFor, ContextLen
<1>2. n \in Nat /\ n <= e /\ OwnContext(r, b[r].s - b[r].q + i) = FirstRows(r, n)
  BY ContextLenTyped
<1>3. s \in Nat /\ s <= MaxModelLen
  <2>1. b[r] \in Requests BY BatchTyped
  <2> QED BY <2>1, RequestTyped
<1>4. conf.ratio \in Nat \ {0} BY ConfTyped
<1>5. e \in Nat /\ e * conf.ratio <= s BY <1>3, <1>4, DivBounds
<1>6. w \in Nat /\ e <= w
  <2>1. CASE conf.b12x
    <3>1. MaxUb(b) \in Nat /\ s <= MaxUb(b) BY BatchMaxUb
    <3>2. w = Cdiv(MaxUb(b), conf.ratio) BY <2>1
    <3> HIDE DEF e, s
    <3>3. Cdiv(MaxUb(b), conf.ratio) \in Nat /\ e <= Cdiv(MaxUb(b), conf.ratio)
      BY <1>3, <1>4, <1>5, <3>1, PageBelow
    <3> QED BY <3>2, <3>3
  <2>2. CASE ~conf.b12x
    <3>1. w = MaxModelLen BY <2>2
    <3>2. e <= MaxModelLen
      <4> DEFINE C == CompressedLens(b)[r]
                 U == CompressedUb(b)[r]
      <4>1. C = e BY ContextLenTyped
      <4>2. C <= U /\ U <= MaxModelLen BY BatchLoads, BatchSums
      <4>3. U \in Nat
        <5>1. NatTo(CompressedUb(b), Len(b)) BY BatchSums
        <5> QED BY <5>1 DEF NatTo
      <4> HIDE DEF C, U, e
      <4> QED BY <1>5, <4>1, <4>2, <4>3, Budgets
    <3> QED BY <3>1, <3>2, Budgets
  <2> QED BY <2>1, <2>2
<1>7. Least(row.len \div conf.ratio, w) = n
  <2> HIDE DEF n, e
  <2> QED BY <1>1, <1>2, <1>5, <1>6 DEF Least
<1>8. HasPages(t, r, n)
  <2>1. row.table \in {BlockTable(r), TrimmedRow(d, r)} BY DEF RowFor
  <2> HIDE DEF n
  <2> QED BY <1>2, <1>3, <2>1, ReadTableHasPages
<1>9. Paged(t, n) = FirstRows(r, n)
  <2> HIDE DEF n, t
  <2> QED BY <1>2, <1>8, PagedOwn DEF HasPages
<1> QED BY <1>2, <1>7, <1>9

(* The decode metadata has a decoded request's rows, each to be scored      *)
(* against its own context, and no other's.                                 *)
DecodesOwn(dec, b, d, nd, m, r, i, g) ==
  /\ r \in 1 .. nd /\ g < m =>
       /\ g \in DOMAIN dec.lens
       /\ Paged(dec.table[g], Least(dec.lens[g], dec.width)) = OwnContext(r, b[r].s - b[r].q + i)
  /\ r \notin 1 .. nd /\ m = Rows(d) => g \notin DOMAIN dec.lens

(* Built without the cap under a graph, it does.                            *)
LEMMA DecodeRows ==
  ASSUME NEW b \in Batches, conf \in Configs, CapNeverReplayed, graph' => conf.graphs,
         NEW n \in Len(b) .. MaxReqs, NEW p, p = Padded(b, n),
         NEW nd \in 0 .. n, nd = NumDecodes(p), nd # 0, NEW d, d = SubSeq(p, 1, nd), NEW m \in Nat,
         NEW r \in 1 .. Len(b), NEW i \in 0 .. b[r].q - 1, NEW g, g = StartLoc(b, r) + i,
         NEW dec, dec = DecodeMetadata(b, d, m)
  PROVE  DecodesOwn(dec, b, d, nd, m, r, i, g)
<1> DEFINE own == OwnContext(r, b[r].s - b[r].q + i)
           rows == Expanded(d, m)
           w == IF conf.b12x THEN Cdiv(MaxUb(b), conf.ratio) ELSE MaxModelLen
<1>1. Placed(rows, b, d, nd, m, r, i, g) BY ExpandedRowFor
<1>2. dec = [lens |-> [x \in DOMAIN rows |-> rows[x].len \div conf.ratio],
             table |-> [x \in DOMAIN rows |-> ReadTable(d, rows[x].table)],
             width |-> w]
  BY DEF DecodeMetadata
<1>3. /\ DOMAIN dec.lens = DOMAIN rows
      /\ \A x \in DOMAIN rows : /\ dec.lens[x] = rows[x].len \div conf.ratio
                                /\ dec.table[x] = ReadTable(d, rows[x].table)
      /\ dec.width = w
  <2> HIDE DEF rows, w
  <2> QED BY <1>2
<1>4. ASSUME r \in 1 .. nd, g < m
      PROVE  g \in DOMAIN dec.lens /\ Paged(dec.table[g], Least(dec.lens[g], dec.width)) = own
  <2>1. IsPart(d, p, nd, n) BY DecodePart
  <2>2. MaxUb(d) \in Nat /\ b[r].s <= MaxUb(d) BY <1>4, <2>1, MaxUbIs
  <2> DEFINE row == rows[g]
  <2>3. g \in DOMAIN rows /\ RowFor(row, b, d, r, i) BY <1>1, <1>4 DEF Placed
  <2> HIDE DEF row
  <2>4. Paged(ReadTable(d, row.table), Least(row.len \div conf.ratio, w)) = own
    BY <2>2, <2>3, DecodeScored
  <2> HIDE DEF rows, w, own
  <2>5. g \in DOMAIN dec.lens /\ dec.lens[g] = row.len \div conf.ratio
        /\ dec.table[g] = ReadTable(d, row.table) /\ dec.width = w
    BY <1>3, <2>3 DEF row
  <2> QED BY <2>4, <2>5
<1> QED BY <1>1, <1>3, <1>4 DEF Placed, DecodesOwn

(* When every request of the batch is decoded there are no chunks.          *)
LEMMA NoPrefills ==
  ASSUME NEW b \in Batches, conf \in Configs, NEW nd \in Nat, nd >= Len(b)
  PROVE  PrefillMetadata(b, nd) = << >>
<1> DEFINE qs == RestOf(b, nd)
           ss == SubSeq(CompressedUb(b), nd + 1, Len(b))
           specs == ChunkSpecs(b, nd)
<1>1. Len(qs) = 0
  <2>1. Len(qs) = (IF nd < Len(b) THEN Len(b) - nd ELSE 0) BY RestOfTyped
  <2>2. Len(b) \in Nat BY BatchSums
  <2>3. ~(nd < Len(b)) BY <2>2
  <2> QED BY <2>1, <2>3
<1>2. specs = << >>
  <2>1. CASE conf.b12x
    <3> DEFINE e == EachOf(qs, nd)
    <3>1. e[0] = << >> BY <2>1, EachUnfolds
    <3>2. specs = e[Len(qs)] BY <2>1, EachChunkSpecs DEF RestOf
    <3> HIDE DEF e, qs, specs
    <3> QED BY <1>1, <3>1, <3>2
  <2>2. CASE ~conf.b12x
    <3>1. Loads(qs, ss, nd) BY ContextSpecsTyped DEF RestOf
    <3>2. specs = SplitChunks(qs, ss, nd) BY <2>2 DEF ChunkSpecs, RestOf
    <3> HIDE DEF qs, ss, specs
    <3>3. Cuts(Len(qs), PieceOf(qs, ss, nd), EndOf(qs, ss), SplitOf(qs, ss, nd)) BY <3>1, SplitCuts
    <3>4. SplitOf(qs, ss, nd)[Len(qs) + 1] = << >> BY <3>3 DEF Cuts
    <3>5. Len(qs) + 1 = 1 BY <1>1
    <3> QED BY <3>2, <3>4, <3>5, SplitChunksIs
  <2>3. conf.b12x \in BOOLEAN BY ConfTyped
  <2> QED BY <2>1, <2>2, <2>3
<1>3. BuiltOf(b, specs)[0] = << >> BY BuiltUnfolds
<1>4. PrefillMetadata(b, nd) = BuiltOf(b, specs)[Len(specs)] BY PrefillMetadataIs
<1>5. Len(specs) = 0 BY <1>2
<1> HIDE DEF specs
<1> QED BY <1>3, <1>4, <1>5

(* What the layer still has to do: the chunks are those of specifications   *)
(* of the batch, a chunk that gathers nothing finds its requests' K rows    *)
(* gathered, and every row is read right by the decodes, has been scored    *)
(* right, or is in a chunk to come.                                         *)
ChunksBuilt(b, cs) == \A k \in DOMAIN cs : \E sp \in GoodSpecs(b) : cs[k] = ChunkMetadata(b, sp)

GatheredFirst(b, cs, w) ==
  ~conf.b12x => \A k \in DOMAIN cs : cs[k].skipGather =>
    IF k = 1 THEN Holds(b, w, cs[1].first, cs[1].last) ELSE Follows(cs, k)

RowDone(b, cs, dec, tk, r, i) ==
  LET g == StartLoc(b, r) + i
      own == OwnContext(r, b[r].s - b[r].q + i)
  IN  /\ g \in DOMAIN tk
      /\ IF g \in DOMAIN dec.lens
         THEN Paged(dec.table[g], Least(dec.lens[g], dec.width)) = own
         ELSE tk[g] = own \/ \E k \in DOMAIN cs : g \in RowsOfChunk(cs[k])

RowsCovered(b, cs, dec, tk) ==
  \A r \in DOMAIN b : \A i \in 0 .. b[r].q - 1 : RowDone(b, cs, dec, tk, r, i)

(* A batch that is replayed has a row for every token of it, of the padding *)
(* too, and an eager one no more than its own.                              *)
LEMMA RoomForRows ==
  ASSUME NEW b \in Batches, conf \in Configs, NEW replay \in BOOLEAN, NEW n \in Len(b) .. MaxReqs,
         replay => Eligible(b), ~replay => n = Len(b), NEW p, p = Padded(b, n),
         NEW nd \in 0 .. n, NEW d, IsPart(d, p, nd, n),
         NEW r \in 1 .. Len(b), NEW i \in 0 .. b[r].q - 1, NEW g, g = StartLoc(b, r) + i
  PROVE  /\ g \in Nat /\ g < (IF replay THEN n * conf.nextN ELSE Rows(b))
         /\ r \in 1 .. nd => g < (IF replay THEN n * conf.nextN ELSE Rows(d))
<1> DEFINE F == QueryLens(b)
           m == conf.nextN
<1>1. /\ n \in Nat /\ Len(b) \in Nat /\ Len(b) <= n /\ \A o \in 1 .. Len(b) : o \in 1 .. n
  BY PaddedIs
<1>2. g \in Nat /\ SumTo(F, r - 1) <= g /\ g < SumTo(F, r - 1) + F[r] /\ g < Rows(b) BY RowOwned
<1>3. CASE replay
  <2>1. m \in Nat /\ DOMAIN b = 1 .. Len(b) BY ConfTyped, BatchTyped
  <2>2. \A o \in 1 .. Len(b) : b[o].q = m BY <1>3, <2>1 DEF Eligible
  <2>3. \A o \in 1 .. n : o \in 1 .. Len(b) => b[o].q = m BY <2>2
  <2> HIDE DEF m
  <2>4. StartLoc(b, r) = (r - 1) * m
    <3>1. \A o \in 1 .. Len(b) : o \in 1 .. n => StartLoc(b, o) = (o - 1) * m
      BY <1>1, <2>1, <2>3, EvenStarts
    <3> QED BY <1>1, <3>1
  <2>5. g = (r - 1) * m + i /\ i \in 0 .. m - 1 /\ r \in Nat \ {0} /\ r <= n
    BY <1>1, <2>2, <2>4
  <2>6. g < n * m BY <1>1, <2>1, <2>5, EvenRow
  <2> QED BY <1>2, <1>3, <2>6 DEF m
<1>4. CASE ~replay
  <2>1. n = Len(b) BY <1>4
  <2>2. nd \in 0 .. Len(b) /\ nd <= Len(b) BY <1>1, <2>1
  <2>3. Rows(d) = SumTo(F, nd) BY <2>2, DecodeStarts
  <2>4. ASSUME r \in 1 .. nd PROVE g < SumTo(F, nd)
    <3>1. NatTo(F, Len(b)) BY BatchSums
    <3> HIDE DEF F
    <3>2. r \in 0 .. Len(b) /\ nd \in r .. Len(b) BY <1>1, <2>2, <2>4
    <3>3. SumTo(F, r) = SumTo(F, r - 1) + F[r] BY <1>1, <3>1, SumToStep
    <3>4. SumTo(F, r) <= SumTo(F, nd) /\ SumTo(F, r) \in Nat /\ SumTo(F, nd) \in Nat
      BY <1>1, <2>2, <3>1, <3>2, SumToGrows, SumToStep
    <3> DEFINE x == SumTo(F, r)
               y == SumTo(F, nd)
    <3>5. g < x /\ x <= y /\ x \in Nat /\ y \in Nat BY <1>2, <3>3, <3>4
    <3> HIDE DEF x, y
    <3>6. g < y BY <1>2, <3>5
    <3> QED BY <3>6 DEF y
  <2> QED BY <1>2, <1>4, <2>3, <2>4
<1> QED BY <1>3, <1>4

(* The metadata of a step, as the builder leaves it.                        *)
LEMMA BuiltChunks ==
  ASSUME NEW b \in Batches, conf \in Configs, NEW nd \in Nat,
         NEW cs, cs = PrefillMetadata(b, nd), NEW w
  PROVE  /\ ChunksBuilt(b, cs) /\ GatheredFirst(b, cs, w)
         /\ nd <= Len(b) => ChunksCover(b, cs, SumTo(QueryLens(b), nd))
<1>1. Len(b) \in Nat BY BatchSums
<1>2. CASE nd <= Len(b)
  <2>1. nd \in 0 .. Len(b) BY <1>1, <1>2
  <2>2. ChunksCover(b, cs, SumTo(QueryLens(b), nd)) BY <2>1, PrefillCovers
  <2>3. ChunksBuilt(b, cs) BY <2>2 DEF ChunksCover, ChunksBuilt
  <2>4. \A k \in DOMAIN cs : cs[k].skipGather => Follows(cs, k) BY <2>2 DEF ChunksCover
  <2>5. IsList(cs) BY PrefillMetadataTyped
  <2>6. DOMAIN cs = 1 .. Len(cs) /\ Len(cs) \in Nat
    <3>1. cs = [k \in 1 .. Len(cs) |-> cs[k]] /\ Len(cs) \in Nat BY <2>5 DEF IsList
    <3> DEFINE N == Len(cs)
    <3>2. cs = [k \in 1 .. N |-> cs[k]] BY <3>1
    <3> HIDE DEF N
    <3>3. DOMAIN cs = 1 .. N BY <3>2
    <3> QED BY <3>1, <3>3 DEF N
  <2>7. ~Follows(cs, 1)
    <3>1. 1 - 1 \notin DOMAIN cs BY <2>6
    <3> QED BY <3>1 DEF Follows
  <2>8. GatheredFirst(b, cs, w) BY <2>4, <2>7 DEF GatheredFirst
  <2> QED BY <2>2, <2>3, <2>8
<1>3. CASE ~(nd <= Len(b))
  <2>1. nd >= Len(b) BY <1>1, <1>3
  <2>2. cs = << >> BY <2>1, NoPrefills
  <2>3. DOMAIN cs = {} BY <2>2
  <2> QED BY <1>3, <2>3 DEF ChunksBuilt, GatheredFirst
<1> QED BY <1>2, <1>3

(* Every row of the batch is read right by the decodes or is in a chunk.    *)
LEMMA BuiltRows ==
  ASSUME NEW b \in Batches, conf \in Configs, CapNeverReplayed,
         NEW replay \in BOOLEAN, graph' = replay, NEW n \in Len(b) .. MaxReqs,
         replay => Eligible(b), ~replay => n = Len(b), NEW p, p = Padded(b, n),
         NEW nd, nd = NumDecodes(p), NEW d, d = SubSeq(p, 1, nd),
         NEW m, m = IF replay THEN n * conf.nextN ELSE Rows(d),
         NEW dec, dec = IF nd = 0 THEN NoDecode ELSE DecodeMetadata(b, d, m),
         NEW cs, cs = PrefillMetadata(b, nd),
         NEW tk, tk = [g \in 0 .. (IF replay THEN n * conf.nextN ELSE Rows(b)) - 1 |-> {}],
         NEW r \in 1 .. Len(b), NEW i \in 0 .. b[r].q - 1
  PROVE  RowDone(b, cs, dec, tk, r, i)
<1> DEFINE g == StartLoc(b, r) + i
           own == OwnContext(r, b[r].s - b[r].q + i)
           rows == Expanded(d, m)
           w == IF conf.b12x THEN Cdiv(MaxUb(b), conf.ratio) ELSE MaxModelLen
<1>1. /\ Len(p) = n /\ DOMAIN p = 1 .. n /\ n \in Nat /\ Len(b) \in Nat /\ Len(b) <= n
  BY PaddedIs
<1>2. nd \in 0 .. n
  <2>1. NumDecodes(p) \in 0 .. Len(p)
    <3>1. Len(p) \in Nat /\ DOMAIN p = 1 .. Len(p) BY <1>1
    <3> QED BY <3>1, NumDecodesTyped
  <2> QED BY <1>1, <2>1
<1>3. IsPart(d, p, nd, n) BY <1>2, DecodePart
<1>4. nd \in Nat BY <1>1, <1>2
<1>5. replay => nd = n BY ReplayDecodesAll
<1> DEFINE T == IF replay THEN n * conf.nextN ELSE Rows(b)
<1>6. g \in Nat /\ g < T /\ (r \in 1 .. nd => g < m)
  <2> HIDE DEF g
  <2>1. g = StartLoc(b, r) + i BY DEF g
  <2>2. /\ g \in Nat /\ g < (IF replay THEN n * conf.nextN ELSE Rows(b))
        /\ r \in 1 .. nd => g < (IF replay THEN n * conf.nextN ELSE Rows(d))
    BY <1>2, <1>3, <2>1, RoomForRows
  <2> QED BY <2>2
<1>7. T \in Nat /\ m \in Nat
  <2>1. conf.nextN \in Nat /\ Rows(b) \in Nat BY ConfTyped, BatchSums
  <2>2. Rows(d) \in Nat BY <1>2, <1>3, DecodeStarts
  <2>3. n * conf.nextN \in Nat BY <1>1, <2>1
  <2> QED BY <2>1, <2>2, <2>3
<1>8. g \in DOMAIN tk
  <2>1. DOMAIN tk = 0 .. T - 1 OBVIOUS
  <2>2. g \in 0 .. T - 1
    <3> HIDE DEF T, g
    <3> QED BY <1>6, <1>7
  <2> QED BY <2>1, <2>2
<1> HIDE DEF T
<1>9. nd # 0 => DecodesOwn(dec, b, d, nd, m, r, i, g)
  <2> SUFFICES ASSUME nd # 0 PROVE DecodesOwn(dec, b, d, nd, m, r, i, g) OBVIOUS
  <2>1. dec = DecodeMetadata(b, d, m) /\ (graph' => conf.graphs) BY DEF Eligible
  <2> DEFINE t == g
  <2>2. t = StartLoc(b, r) + i OBVIOUS
  <2> HIDE DEF t
  <2>3. DecodesOwn(dec, b, d, nd, m, r, i, t) BY <1>2, <1>7, <2>1, <2>2, DecodeRows
  <2> QED BY <2>3 DEF t
<1>11. CASE r \in 1 .. nd
  <2>1. nd # 0 BY <1>4, <1>11
  <2>2. g \in DOMAIN dec.lens /\ Paged(dec.table[g], Least(dec.lens[g], dec.width)) = own
    BY <1>6, <1>9, <1>11, <2>1 DEF DecodesOwn
  <2> QED BY <1>8, <2>2 DEF RowDone
<1>10. CASE r \notin 1 .. nd
  <2>1. ~replay /\ nd < r /\ nd <= Len(b) BY <1>1, <1>4, <1>5, <1>10
  <2>2. g \notin DOMAIN dec.lens
    <3>1. CASE nd = 0
      <4>1. dec.lens = << >> BY <3>1 DEF NoDecode
      <4>2. DOMAIN dec.lens = {} BY <4>1
      <4> QED BY <4>2
    <3>2. CASE nd # 0
      <4>1. m = Rows(d) BY <2>1
      <4> QED BY <1>9, <1>10, <3>2, <4>1 DEF DecodesOwn
    <3> QED BY <3>1, <3>2
  <2>3. tk[g] = {}
    <3> HIDE DEF g
    <3>1. \A x \in DOMAIN tk : tk[x] = {} OBVIOUS
    <3> QED BY <1>8, <3>1
  <2>4. ChunksCover(b, cs, SumTo(QueryLens(b), nd)) BY <1>4, <2>1, BuiltChunks
  <2>5. g \in SumTo(QueryLens(b), nd) .. Rows(b) - 1
    <3> DEFINE F == QueryLens(b)
               t == g
    <3>1. t = StartLoc(b, r) + i OBVIOUS
    <3> HIDE DEF t
    <3>2. SumTo(F, r - 1) <= t /\ t < Rows(b) /\ t \in Nat BY <3>1, RowOwned
    <3>3. NatTo(F, Len(b)) /\ Rows(b) \in Nat BY BatchSums
    <3> HIDE DEF F
    <3>4. nd \in 0 .. Len(b) /\ r - 1 \in nd .. Len(b) /\ r - 1 \in 0 .. Len(b) BY <1>1, <1>4, <2>1
    <3>5. SumTo(F, nd) <= SumTo(F, r - 1) /\ SumTo(F, nd) \in Nat /\ SumTo(F, r - 1) \in Nat
      BY <1>1, <3>3, <3>4, SumToGrows, SumToStep
    <3> DEFINE x == SumTo(F, nd)
               y == SumTo(F, r - 1)
               z == Rows(b)
    <3>6. x <= y /\ y <= t /\ t < z /\ x \in Nat /\ y \in Nat /\ z \in Nat BY <3>2, <3>3, <3>5
    <3> HIDE DEF x, y, z
    <3>7. t \in x .. z - 1 BY <3>2, <3>6
    <3> QED BY <3>7 DEF t, x, z, F
  <2>6. \/ \E k \in DOMAIN cs : g \in RowsOfChunk(cs[k])
        \/ \E sp \in GoodSpecs(b) : CoversRow(QueryLens(b), sp, g) /\ EmptySpec(b, sp)
    <3> HIDE DEF g
    <3> QED BY <2>4, <2>5 DEF ChunksCover
  <2>7. tk[g] = own \/ \E k \in DOMAIN cs : g \in RowsOfChunk(cs[k])
    <3>1. CASE \E sp \in GoodSpecs(b) : CoversRow(QueryLens(b), sp, g) /\ EmptySpec(b, sp)
      <4>1. PICK sp \in GoodSpecs(b) : CoversRow(QueryLens(b), sp, g) /\ EmptySpec(b, sp) BY <3>1
      <4> DEFINE t == g
      <4>2. t = StartLoc(b, r) + i /\ CoversRow(QueryLens(b), sp, t) BY <4>1
      <4> HIDE DEF t
      <4>3. own = {} BY <4>1, <4>2, EmptyOwnContext
      <4> QED BY <2>3, <4>3
    <3> QED BY <2>6, <3>1
  <2> QED BY <1>8, <2>2, <2>7 DEF RowDone
<1> QED BY <1>10, <1>11

(* The next chunk of the layer finds its requests' K rows in the workspace. *)
LEMMA HeadHolds ==
  ASSUME conf \in Configs, batch \in Batches, DOMAIN workspace = 0 .. Workspace - 1, ~conf.b12x,
         chunks # << >>, 1 \in DOMAIN chunks, NEW c, c = chunks[1], NEW w,
         w = IF conf.b12x \/ c.skipGather THEN workspace ELSE Gathered(c),
         ChunksBuilt(batch, chunks), GatheredFirst(batch, chunks, workspace)
  PROVE  Holds(batch, w, c.first, c.last)
<1>1. PICK sp \in GoodSpecs(batch) : c = ChunkMetadata(batch, sp) BY DEF ChunksBuilt
<1>2. CASE c.skipGather
  <2>1. Holds(batch, workspace, c.first, c.last) BY <1>2 DEF GatheredFirst
  <2>2. w = workspace BY <1>2
  <2> QED BY <2>1, <2>2
<1>3. CASE ~c.skipGather
  <2>1. w = Gathered(c) BY <1>3
  <2>2. Holds(batch, Gathered(c), c.first, c.last) BY <1>1, GatheredHolds
  <2> QED BY <2>1, <2>2
<1> QED BY <1>2, <1>3

(* A row the chunk has is scored against its own context.                   *)
ScoresOwn(b, c, w, r, i, g) ==
  (IF conf.b12x
   THEN Paged(BlockTable(c.first), Most(0, c.ke[g - c.start] - c.ks[g - c.start]))
   ELSE ReadRows(w, c.ks[g - c.start], c.ke[g - c.start]))
    = OwnContext(r, b[r].s - b[r].q + i)

(* A chunk does that, and its rows are those it has extents for.            *)
LEMMA ChunkScores ==
  ASSUME NEW b \in Batches, conf \in Configs, NEW sp \in GoodSpecs(b),
         NEW c, c = ChunkMetadata(b, sp), NEW w, ~conf.b12x => Holds(b, w, c.first, c.last),
         NEW r \in 1 .. Len(b), NEW i \in 0 .. b[r].q - 1, NEW g, g = StartLoc(b, r) + i
  PROVE  /\ g - c.start \in DOMAIN c.ks <=> g \in RowsOfChunk(c)
         /\ g \in RowsOfChunk(c) => ScoresOwn(b, c, w, r, i, g)
<1>1. FittingChunk(b, c) BY ChunkMetadataFits
<1>2. g \in Nat BY RowOwned
<1>3. g - c.start \in DOMAIN c.ks <=> g \in RowsOfChunk(c)
  <2> DEFINE u == c.start
             n == c.rows
  <2>1. u \in Nat /\ n \in Nat /\ DOMAIN c.ks = 0 .. n - 1 BY <1>1 DEF FittingChunk
  <2>2. RowsOfChunk(c) = u .. u + (n - 1) BY DEF RowsOfChunk
  <2> HIDE DEF u, n
  <2>3. g - u \in 0 .. n - 1 <=> g \in u .. u + (n - 1) BY <1>2, <2>1
  <2> QED BY <2>1, <2>2, <2>3 DEF u
<1>4. CASE conf.b12x
  <2>1. g \in RowsOfChunk(c) =>
          Paged(BlockTable(c.first), Most(0, c.ke[g - c.start] - c.ks[g - c.start]))
            = OwnContext(r, b[r].s - b[r].q + i)
    BY <1>4, ScoredByPage
  <2> QED BY <1>3, <1>4, <2>1 DEF ScoresOwn
<1>5. CASE ~conf.b12x
  <2>1. Holds(b, w, c.first, c.last) BY <1>5
  <2>2. g \in RowsOfChunk(c) => ReadsOwn(b, c, w, r, i, g) BY <2>1, ScoredByGather
  <2> QED BY <1>3, <1>5, <2>2 DEF ReadsOwn, ScoresOwn
<1> QED BY <1>4, <1>5

(* The chunks after the first.                                              *)
LEMMA TailChunks ==
  ASSUME IsList(chunks), chunks # << >>, NEW t, t = Tail(chunks)
  PROVE  /\ 1 \in DOMAIN chunks /\ Head(chunks) = chunks[1]
         /\ \A k \in DOMAIN t : k \in Nat \ {0} /\ k + 1 \in DOMAIN chunks /\ t[k] = chunks[k + 1]
         /\ \A k \in DOMAIN chunks : k # 1 => k - 1 \in DOMAIN t /\ t[k - 1] = chunks[k]
         /\ \A k \in DOMAIN t : k = 1 \/ k - 1 \in DOMAIN t
<1> DEFINE N == Len(chunks)
           S == { chunks[k] : k \in DOMAIN chunks }
<1>1. N \in Nat /\ chunks = [k \in 1 .. N |-> chunks[k]] BY DEF IsList
<1>2. DOMAIN chunks = 1 .. N
  <2> HIDE DEF N
  <2> QED BY <1>1
<1>3. chunks \in Seq(S)
  <2>1. \A k \in 1 .. N : chunks[k] \in S BY <1>2
  <2> HIDE DEF S
  <2> QED BY <1>1, <2>1
<1> HIDE DEF S
<1>4. /\ Head(chunks) = chunks[1] /\ t \in Seq(S) /\ Len(t) = N - 1
      /\ \A k \in 1 .. Len(t) : t[k] = chunks[k + 1]
  BY <1>3, HeadTailProperties
<1>5. N # 0 BY <1>3
<1>6. DOMAIN t = 1 .. N - 1 BY <1>1, <1>4
<1>7. \A k \in 1 .. N - 1 : t[k] = chunks[k + 1] BY <1>4
<1> HIDE DEF N
<1>8. 1 \in 1 .. N /\ \A k \in 1 .. N - 1 : k \in Nat \ {0} /\ k + 1 \in 1 .. N BY <1>1, <1>5
<1>9. ASSUME NEW k \in 1 .. N, k # 1 PROVE k - 1 \in 1 .. N - 1 /\ t[k - 1] = chunks[k]
  <2>1. k - 1 \in 1 .. N - 1 /\ (k - 1) + 1 = k BY <1>1, <1>9
  <2> QED BY <1>7, <2>1
<1>10. \A k \in 1 .. N - 1 : k = 1 \/ k - 1 \in 1 .. N - 1 BY <1>1
<1> QED BY <1>2, <1>4, <1>6, <1>7, <1>8, <1>9, <1>10

(* A chunk that follows one of its request still does when the chunks run   *)
(* so far are taken off.                                                    *)
LEMMA TailFollows ==
  ASSUME IsList(chunks), chunks # << >>, NEW t, t = Tail(chunks), NEW k \in DOMAIN t,
         Follows(chunks, k + 1)
  PROVE  IF k = 1 THEN t[1].first = chunks[1].first /\ t[1].last = chunks[1].last
         ELSE Follows(t, k)
<1>1. k \in Nat \ {0} /\ t[k] = chunks[k + 1] BY TailChunks
<1>2. (k + 1) - 1 = k BY <1>1
<1>3. k \in DOMAIN chunks /\ chunks[k].first = t[k].first /\ chunks[k].last = t[k].last
  BY <1>1, <1>2 DEF Follows
<1>4. CASE k = 1 BY <1>3, <1>4
<1>5. CASE k # 1
  <2>1. k - 1 \in DOMAIN t BY <1>5, TailChunks
  <2>2. t[k - 1] = chunks[k] BY <1>3, <1>5, TailChunks
  <2> QED BY <1>3, <1>5, <2>1, <2>2 DEF Follows
<1> QED BY <1>4, <1>5

(* So the next chunk, too, finds what it does not gather.                   *)
LEMMA TailGathered ==
  ASSUME conf \in Configs, batch \in Batches, DOMAIN workspace = 0 .. Workspace - 1,
         IsList(chunks), chunks # << >>, NEW c, c = chunks[1], NEW t, t = Tail(chunks),
         NEW w, w = IF conf.b12x \/ c.skipGather THEN workspace ELSE Gathered(c),
         ChunksBuilt(batch, chunks), GatheredFirst(batch, chunks, workspace)
  PROVE  GatheredFirst(batch, t, w)
<1> SUFFICES ASSUME ~conf.b12x, NEW k \in DOMAIN t, t[k].skipGather
             PROVE  IF k = 1 THEN Holds(batch, w, t[1].first, t[1].last) ELSE Follows(t, k)
  BY DEF GatheredFirst
<1>1. k \in Nat \ {0} /\ k + 1 \in DOMAIN chunks /\ t[k] = chunks[k + 1] BY TailChunks
<1>2. Follows(chunks, k + 1)
  <2>2. k + 1 # 1 BY <1>1
  <2>3. chunks[k + 1].skipGather BY <1>1
  <2> QED BY <1>1, <2>2, <2>3 DEF GatheredFirst
<1>3. CASE k = 1
  <2>1. t[1].first = c.first /\ t[1].last = c.last BY <1>2, <1>3, TailFollows
  <2>2. 1 \in DOMAIN chunks BY TailChunks
  <2>3. Holds(batch, w, c.first, c.last) BY <2>2, HeadHolds
  <2> QED BY <1>3, <2>1, <2>3
<1>4. CASE k # 1
  <2>1. Follows(t, k) BY <1>2, <1>4, TailFollows
  <2> QED BY <1>4, <2>1
<1> QED BY <1>3, <1>4

(* A row of the chunk is scored right, and the others are still covered.    *)
LEMMA TailCovers ==
  ASSUME conf \in Configs, batch \in Batches, IsList(chunks), chunks # << >>,
         NEW c, c = chunks[1], NEW sp \in GoodSpecs(batch), c = ChunkMetadata(batch, sp),
         NEW t, t = Tail(chunks), NEW w, ~conf.b12x => Holds(batch, w, c.first, c.last),
         NEW tk, tk = [g \in DOMAIN topk |->
                         IF g - c.start \notin DOMAIN c.ks THEN topk[g]
                         ELSE IF conf.b12x
                         THEN Paged(BlockTable(c.first), Most(0, c.ke[g - c.start] - c.ks[g - c.start]))
                         ELSE ReadRows(w, c.ks[g - c.start], c.ke[g - c.start])],
         NEW r \in 1 .. Len(batch), NEW i \in 0 .. batch[r].q - 1,
         RowDone(batch, chunks, decode, topk, r, i)
  PROVE  RowDone(batch, t, decode, tk, r, i)
<1> DEFINE g == StartLoc(batch, r) + i
           own == OwnContext(r, batch[r].s - batch[r].q + i)
           Read(x) == IF conf.b12x
                      THEN Paged(BlockTable(c.first), Most(0, c.ke[x - c.start] - c.ks[x - c.start]))
                      ELSE ReadRows(w, c.ks[x - c.start], c.ke[x - c.start])
<1>1. /\ g - c.start \in DOMAIN c.ks <=> g \in RowsOfChunk(c)
      /\ g \in RowsOfChunk(c) => ScoresOwn(batch, c, w, r, i, g)
  <2> DEFINE x == g
  <2>1. x = StartLoc(batch, r) + i OBVIOUS
  <2> HIDE DEF x
  <2>2. /\ x - c.start \in DOMAIN c.ks <=> x \in RowsOfChunk(c)
        /\ x \in RowsOfChunk(c) => ScoresOwn(batch, c, w, r, i, x)
    BY <2>1, ChunkScores
  <2> QED BY <2>2 DEF x
<1>2. g \in RowsOfChunk(c) => Read(g) = own BY <1>1 DEF ScoresOwn
<1>3. DOMAIN tk = DOMAIN topk
      /\ \A x \in DOMAIN topk : tk[x] = IF x - c.start \notin DOMAIN c.ks THEN topk[x] ELSE Read(x)
  OBVIOUS
<1>4. /\ g \in DOMAIN topk
      /\ IF g \in DOMAIN decode.lens
         THEN Paged(decode.table[g], Least(decode.lens[g], decode.width)) = own
         ELSE topk[g] = own \/ \E k \in DOMAIN chunks : g \in RowsOfChunk(chunks[k])
  BY DEF RowDone
<1> HIDE DEF g, own, Read
<1>5. g \notin DOMAIN decode.lens => tk[g] = own \/ \E k \in DOMAIN t : g \in RowsOfChunk(t[k])
  <2> SUFFICES ASSUME g \notin DOMAIN decode.lens
               PROVE  tk[g] = own \/ \E k \in DOMAIN t : g \in RowsOfChunk(t[k])
    OBVIOUS
  <2>1. CASE g \in RowsOfChunk(c)
    <3>1. tk[g] = Read(g) BY <1>1, <1>3, <1>4, <2>1
    <3> QED BY <1>2, <2>1, <3>1
  <2>2. CASE g \notin RowsOfChunk(c)
    <3>1. tk[g] = topk[g] BY <1>1, <1>3, <1>4, <2>2
    <3>2. CASE \E k \in DOMAIN chunks : g \in RowsOfChunk(chunks[k])
      <4>1. PICK k \in DOMAIN chunks : g \in RowsOfChunk(chunks[k]) BY <3>2
      <4>2. k # 1 BY <2>2, <4>1
      <4>3. k - 1 \in DOMAIN t /\ t[k - 1] = chunks[k] BY <4>2, TailChunks
      <4> QED BY <4>1, <4>3
    <3> QED BY <1>4, <3>1, <3>2
  <2> QED BY <2>1, <2>2
<1> QED BY <1>3, <1>4, <1>5 DEF RowDone, g, own

(* What is still to be scored depends on the deployment, besides the batch, *)
(* the chunks, the decodes and the buffers.                                 *)
LEMMA ScoringKept ==
  ASSUME conf' = conf
  PROVE  /\ \A b, cs : ChunksBuilt(b, cs)' = ChunksBuilt(b, cs)
         /\ \A b, cs, w : GatheredFirst(b, cs, w)' = GatheredFirst(b, cs, w)
         /\ \A b, cs, dec, tk : RowsCovered(b, cs, dec, tk)' = RowsCovered(b, cs, dec, tk)
         /\ \A r, s : OwnContext(r, s)' = OwnContext(r, s)
<1>1. Storage' = Storage /\ \A r, s : OwnContext(r, s)' = OwnContext(r, s) BY DEF OwnContext, Storage
<1>2. \A b : CompressedUb(b)' = CompressedUb(b) /\ CompressedLens(b)' = CompressedLens(b)
  BY DEF CompressedUb, CompressedLens
<1>3. \A b, c : ChunkMetadata(b, c)' = ChunkMetadata(b, c)
  BY DEF ChunkMetadata, RowExtent, CompressedUb, CompressedLens, SumFromTo, SumTo, StartLoc, QueryLens
<1>4. \A b : GoodSpecs(b)' = GoodSpecs(b) 
  BY DEF GoodSpecs, GoodSpec, WithinLogits, CompressedUb, SumFromTo, SumTo, QueryLens
<1>5. \A b, cs : ChunksBuilt(b, cs)' = ChunksBuilt(b, cs) BY <1>3, <1>4 DEF ChunksBuilt
<1>6. \A b, w, a, z : Holds(b, w, a, z)' = Holds(b, w, a, z)
  BY DEF Holds, CompressedLens, SumFromTo, SumTo, KRow, Storage
<1>7. \A cs, k : Follows(cs, k)' = Follows(cs, k) BY DEF Follows
<1>8. \A b, cs, w : GatheredFirst(b, cs, w)' = GatheredFirst(b, cs, w)
  BY <1>6, <1>7 DEF GatheredFirst
<1>9. \A t, n : Paged(t, n)' = Paged(t, n) BY DEF Paged, Storage
<1>10. \A b, cs, dec, tk, r, i : RowDone(b, cs, dec, tk, r, i)' = RowDone(b, cs, dec, tk, r, i)
  <2>1. \A b, r : StartLoc(b, r)' = StartLoc(b, r) BY DEF StartLoc, QueryLens, SumTo
  <2>2. \A c : RowsOfChunk(c)' = RowsOfChunk(c) BY DEF RowsOfChunk
  <2>3. \A x, y : Least(x, y)' = Least(x, y) BY DEF Least
  <2> QED BY <1>1, <1>9, <2>1, <2>2, <2>3 DEF RowDone
<1>11. \A b, cs, dec, tk : RowsCovered(b, cs, dec, tk)' = RowsCovered(b, cs, dec, tk)
  BY <1>10 DEF RowsCovered
<1> QED BY <1>1, <1>5, <1>8, <1>11

(* While the layer runs, what it has not scored yet is covered; when it     *)
(* returns, every row was scored against its own context.                   *)
ScoreInv ==
  /\ phase = "layer" =>
       /\ ChunksBuilt(batch, chunks) /\ GatheredFirst(batch, chunks, workspace)
       /\ RowsCovered(batch, chunks, decode, topk)
  /\ RowsScoreOwnContext

(* The builder covers every row of the batch.                               *)
LEMMA ScoreInvBuild ==
  ASSUME MetaInv, CapNeverReplayed, phase = "idle", NEW b \in Batches, NEW replay \in BOOLEAN,
         NEW n \in Len(b) .. MaxReqs, Build(b, replay, n)
  PROVE  ScoreInv'
<1> DEFINE p == Padded(b, n)
           nd == NumDecodes(p)
           d == SubSeq(p, 1, nd)
           m == IF replay THEN n * conf.nextN ELSE Rows(d)
           cs == PrefillMetadata(b, nd)
           dec == IF nd = 0 THEN NoDecode ELSE DecodeMetadata(b, d, m)
           tk == [g \in 0 .. (IF replay THEN n * conf.nextN ELSE Rows(b)) - 1 |-> {}]
           w == [c \in 0 .. Workspace - 1 |-> Stale]
<1>1. /\ replay => Eligible(b)
      /\ ~replay => n = Len(b)
      /\ phase' = "layer" /\ batch' = b /\ graph' = replay
      /\ chunks' = cs /\ decode' = dec /\ workspace' = w /\ topk' = tk
      /\ conf' = conf
  BY DEF Build
<1>2. conf \in Configs BY DEF MetaInv
<1>3. nd \in Nat
  <2>1. Len(p) = n /\ DOMAIN p = 1 .. n /\ n \in Nat BY PaddedTyped
  <2> HIDE DEF p
  <2>2. NumDecodes(p) \in 0 .. n BY <2>1, NumDecodesTyped
  <2> QED BY <2>1, <2>2
<1>4. ChunksBuilt(b, cs) /\ GatheredFirst(b, cs, w)
  <2> HIDE DEF p, nd, w
  <2> QED BY <1>2, <1>3, BuiltChunks
<1>5. RowsCovered(b, cs, dec, tk)
  <2> SUFFICES ASSUME NEW r \in DOMAIN b, NEW i \in 0 .. b[r].q - 1
               PROVE  RowDone(b, cs, dec, tk, r, i)
    BY DEF RowsCovered
  <2>1. r \in 1 .. Len(b) BY BatchTyped
  <2> HIDE DEF p
  <2>2. p = Padded(b, n) BY DEF p
  <2> HIDE DEF nd
  <2>3. nd = NumDecodes(p) BY DEF nd
  <2> HIDE DEF d
  <2>4. d = SubSeq(p, 1, nd) BY DEF d
  <2> HIDE DEF m
  <2>5. m = IF replay THEN n * conf.nextN ELSE Rows(d) BY DEF m
  <2> HIDE DEF dec, cs, tk
  <2>6. /\ dec = IF nd = 0 THEN NoDecode ELSE DecodeMetadata(b, d, m)
        /\ cs = PrefillMetadata(b, nd)
    BY DEF dec, cs
  <2>7. tk = [g \in 0 .. (IF replay THEN n * conf.nextN ELSE Rows(b)) - 1 |-> {}] BY DEF tk
  <2>8. graph' = replay /\ (replay => Eligible(b)) /\ (~replay => n = Len(b)) BY <1>1
  <2> QED BY <1>2, <2>1, <2>2, <2>3, <2>4, <2>5, <2>6, <2>7, <2>8, BuiltRows
<1> HIDE DEF cs, dec, tk, w
<1>6. (ChunksBuilt(batch, chunks) /\ GatheredFirst(batch, chunks, workspace)
         /\ RowsCovered(batch, chunks, decode, topk))'
  BY <1>1, <1>4, <1>5, ScoringKept
<1>7. phase' # "done" BY <1>1
<1>8. RowsScoreOwnContext' BY <1>7 DEF RowsScoreOwnContext
<1> QED BY <1>6, <1>8 DEF ScoreInv

(* A chunk keeps the rest covered.                                          *)
LEMMA ScoreInvRunChunk ==
  ASSUME MetaInv, ScoreInv, RunChunk
  PROVE  ScoreInv'
<1> DEFINE t == Tail(chunks)
           c == Head(chunks)
           w == IF conf.b12x \/ c.skipGather THEN workspace ELSE Gathered(c)
           tk == [g \in DOMAIN topk |->
                    IF g - c.start \notin DOMAIN c.ks THEN topk[g]
                    ELSE IF conf.b12x
                    THEN Paged(BlockTable(c.first), Most(0, c.ke[g - c.start] - c.ks[g - c.start]))
                    ELSE ReadRows(w, c.ks[g - c.start], c.ke[g - c.start])]
<1>1. /\ phase = "layer" /\ phase' = "layer" /\ chunks # << >> /\ chunks' = t
      /\ workspace' = w /\ conf' = conf /\ batch' = batch /\ decode' = decode
  BY DEF RunChunk
<1>2. topk' = tk BY <1>1 DEF RunChunk, ReadRows
<1>3. /\ conf \in Configs /\ batch \in Batches /\ DOMAIN workspace = 0 .. Workspace - 1
      /\ IsList(chunks)
  BY <1>1 DEF MetaInv, ChunksFit
<1>4. /\ ChunksBuilt(batch, chunks) /\ GatheredFirst(batch, chunks, workspace)
      /\ RowsCovered(batch, chunks, decode, topk)
  BY <1>1 DEF ScoreInv
<1>5. 1 \in DOMAIN chunks /\ c = chunks[1] BY <1>1, <1>3, TailChunks
<1>6. ChunksBuilt(batch, t)
  <2> SUFFICES ASSUME NEW k \in DOMAIN t
               PROVE  \E sp \in GoodSpecs(batch) : t[k] = ChunkMetadata(batch, sp)
    BY DEF ChunksBuilt
  <2>1. k + 1 \in DOMAIN chunks /\ t[k] = chunks[k + 1] BY <1>1, <1>3, TailChunks
  <2> QED BY <1>4, <2>1 DEF ChunksBuilt
<1> HIDE DEF c, t
<1>7. GatheredFirst(batch, t, w)
  <2> HIDE DEF w
  <2>1. t = Tail(chunks) BY DEF t
  <2>2. w = IF conf.b12x \/ c.skipGather THEN workspace ELSE Gathered(c) BY DEF w
  <2> QED BY <1>1, <1>3, <1>4, <1>5, <2>1, <2>2, TailGathered
<1>8. ~conf.b12x => Holds(batch, w, c.first, c.last)
  <2> HIDE DEF w
  <2>1. w = IF conf.b12x \/ c.skipGather THEN workspace ELSE Gathered(c) BY DEF w
  <2> QED BY <1>1, <1>3, <1>4, <1>5, <2>1, HeadHolds
<1>9. RowsCovered(batch, t, decode, tk)
  <2> SUFFICES ASSUME NEW r \in DOMAIN batch, NEW i \in 0 .. batch[r].q - 1
               PROVE  RowDone(batch, t, decode, tk, r, i)
    BY DEF RowsCovered
  <2> HIDE DEF w
  <2>1. r \in 1 .. Len(batch) BY <1>3, BatchTyped
  <2>2. RowDone(batch, chunks, decode, topk, r, i) BY <1>4 DEF RowsCovered
  <2>3. PICK sp \in GoodSpecs(batch) : c = ChunkMetadata(batch, sp) BY <1>4, <1>5 DEF ChunksBuilt
  <2>4. t = Tail(chunks) BY DEF t
  <2>5. tk = [g \in DOMAIN topk |->
                IF g - c.start \notin DOMAIN c.ks THEN topk[g]
                ELSE IF conf.b12x
                THEN Paged(BlockTable(c.first), Most(0, c.ke[g - c.start] - c.ks[g - c.start]))
                ELSE ReadRows(w, c.ks[g - c.start], c.ke[g - c.start])]
    OBVIOUS
  <2> HIDE DEF tk
  <2> QED BY <1>1, <1>3, <1>5, <1>8, <2>1, <2>2, <2>3, <2>4, <2>5, TailCovers
<1> HIDE DEF w, tk
<1>10. (ChunksBuilt(batch, chunks) /\ GatheredFirst(batch, chunks, workspace)
          /\ RowsCovered(batch, chunks, decode, topk))'
  BY <1>1, <1>2, <1>6, <1>7, <1>9, ScoringKept
<1>11. RowsScoreOwnContext' BY <1>1 DEF RowsScoreOwnContext
<1> QED BY <1>10, <1>11 DEF ScoreInv

(* When the decodes have been scored nothing is left.                       *)
LEMMA ScoreInvRunDecode ==
  ASSUME MetaInv, ScoreInv, RunDecode
  PROVE  ScoreInv'
<1> DEFINE Scored(g) == IF g \in DOMAIN decode.lens
                        THEN Paged(decode.table[g], Least(decode.lens[g], decode.width))
                        ELSE topk[g]
<1>1. /\ phase = "layer" /\ phase' = "done" /\ chunks = << >>
      /\ topk' = [g \in DOMAIN topk |-> Scored(g)] /\ conf' = conf /\ batch' = batch
  BY DEF RunDecode
<1>2. RowsCovered(batch, chunks, decode, topk) BY <1>1 DEF ScoreInv
<1>3. \A k \in DOMAIN chunks : FALSE
  <2>1. DOMAIN chunks = {} BY <1>1
  <2> QED BY <2>1
<1>4. ASSUME NEW r \in DOMAIN batch, NEW i \in 0 .. batch[r].q - 1
      PROVE  topk'[StartLoc(batch, r) + i] = OwnContext(r, batch[r].s - batch[r].q + i)
  <2> DEFINE g == StartLoc(batch, r) + i
             own == OwnContext(r, batch[r].s - batch[r].q + i)
  <2>1. RowDone(batch, chunks, decode, topk, r, i) BY <1>2 DEF RowsCovered
  <2>2. g \in DOMAIN topk
        /\ IF g \in DOMAIN decode.lens
           THEN Paged(decode.table[g], Least(decode.lens[g], decode.width)) = own
           ELSE topk[g] = own \/ \E k \in DOMAIN chunks : g \in RowsOfChunk(chunks[k])
    BY <2>1 DEF RowDone
  <2> HIDE DEF g, own
  <2>3. Scored(g) = own BY <1>3, <2>2
  <2> HIDE DEF Scored
  <2>4. topk'[g] = own BY <1>1, <2>2, <2>3
  <2> QED BY <2>4 DEF g, own
<1>5. RowsScoreOwnContext'
  <2>1. \A r : StartLoc(batch, r)' = StartLoc(batch, r) BY <1>1 DEF StartLoc, QueryLens, SumTo
  <2>2. \A r, s : OwnContext(r, s)' = OwnContext(r, s) BY <1>1, ScoringKept
  <2> SUFFICES ASSUME NEW r \in DOMAIN batch, NEW i \in 0 .. batch[r].q - 1
               PROVE  (topk[StartLoc(batch, r) + i] = OwnContext(r, batch[r].s - batch[r].q + i))'
    BY <1>1 DEF RowsScoreOwnContext
  <2> QED BY <1>1, <1>4, <2>1, <2>2
<1>6. phase' # "layer" BY <1>1
<1> QED BY <1>5, <1>6 DEF ScoreInv

(* Every step keeps the rows covered.                                       *)
LEMMA ScoreInvNext ==
  ASSUME CapNeverReplayed, MetaInv, ScoreInv, [Next]_vars
  PROVE  ScoreInv'
<1>1. CASE Profile
  <2>1. phase' = "idle" BY <1>1 DEF Profile
  <2> QED BY <2>1 DEF ScoreInv, RowsScoreOwnContext
<1>2. CASE Execute
  <2>1. phase = "idle" BY <1>2 DEF Execute
  <2>2. PICK b \in Batches, replay \in BOOLEAN : \E n \in Len(b) .. MaxReqs : Build(b, replay, n)
    BY <1>2 DEF Execute
  <2>3. PICK n \in Len(b) .. MaxReqs : Build(b, replay, n) BY <2>2
  <2> QED BY <2>1, <2>3, ScoreInvBuild
<1>3. CASE RunChunk BY <1>3, ScoreInvRunChunk
<1>4. CASE RunDecode BY <1>4, ScoreInvRunDecode
<1>5. CASE Return
  <2>1. phase' = "idle" BY <1>5 DEF Return
  <2> QED BY <2>1 DEF ScoreInv, RowsScoreOwnContext
<1>6. CASE UNCHANGED vars
  <2>1. /\ conf' = conf /\ phase' = phase /\ batch' = batch /\ chunks' = chunks
        /\ decode' = decode /\ workspace' = workspace /\ topk' = topk
    BY <1>6 DEF vars
  <2>2. phase = "layer" =>
          (ChunksBuilt(batch, chunks) /\ GatheredFirst(batch, chunks, workspace)
             /\ RowsCovered(batch, chunks, decode, topk))'
    BY <2>1, ScoringKept DEF ScoreInv
  <2>3. RowsScoreOwnContext'
    <3>1. \A r : StartLoc(batch, r)' = StartLoc(batch, r) BY <2>1 DEF StartLoc, QueryLens, SumTo
    <3>2. \A r, s : OwnContext(r, s)' = OwnContext(r, s) BY <2>1, ScoringKept
    <3>3. RowsScoreOwnContext BY DEF ScoreInv
    <3> QED BY <2>1, <3>1, <3>2, <3>3 DEF RowsScoreOwnContext
  <2> QED BY <2>1, <2>2, <2>3 DEF ScoreInv
<1> QED BY <1>1, <1>2, <1>3, <1>4, <1>5, <1>6 DEF Next

(* Unless the cap is deployed with replayed graphs, every query row of      *)
(* every step has, when the layer returns, been scored against exactly its  *)
(* own request's K rows up to its own position.                             *)
THEOREM RowsScoreOwnContextAlways == CapNeverReplayed => (Spec => []RowsScoreOwnContext)
<1> SUFFICES ASSUME CapNeverReplayed PROVE Spec => []RowsScoreOwnContext OBVIOUS
<1>1. Init => ScoreInv
  <2> SUFFICES ASSUME Init PROVE ScoreInv OBVIOUS
  <2>1. phase = "boot" BY DEF Init
  <2> QED BY <2>1 DEF ScoreInv, RowsScoreOwnContext
<1>2. MetaInv /\ ScoreInv /\ [Next]_vars => ScoreInv' BY ScoreInvNext
<1>3. ScoreInv => RowsScoreOwnContext BY DEF ScoreInv
<1> QED BY <1>1, <1>2, <1>3, MetaInvAlways, PTL DEF Spec
=============================================================================
