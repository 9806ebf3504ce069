--------------------------- MODULE EagleDraftProofs ---------------------------
(***************************************************************************)
(* What SpecInputs and EagleDraft promise, for every number of requests,   *)
(* rows, drafts and prompt tokens and every length limit.                  *)
(*                                                                         *)
(* The argument is about flat layouts.  A cumulative sum splits 0 .. Total *)
(* - 1 into one interval for each row, so a flat index belongs to one row  *)
(* at one offset (RowOf, RowExists).  Everything else is read off at such  *)
(* an index: the tokens of a row (InputIdsOf, for the slice copy and for   *)
(* the scatter), the logits that judge a draft (LogitsAt, TargetAt), the   *)
(* rows kept for the drafter (TokenIndicesOf), and the rows it reads       *)
(* (ShiftedShape, ExpandedShape).                                          *)
(***************************************************************************)
EXTENDS EagleDraft, FiniteSetTheorems, WellFoundedInduction, TLAPS

-----------------------------------------------------------------------------
(* Every set of natural numbers that is not empty has a least element.      *)
LEMMA LeastExists ==
  ASSUME NEW S \in SUBSET Nat, S # {}
  PROVE  \E n \in S : \A m \in S : n <= m
<1> DEFINE Below == OpToRel(<, Nat)
<1>1. IsWellFoundedOn(Below, Nat) BY NatLessThanWellFounded
<1>2. \A m, n \in Nat : m < n => <<m, n>> \in Below BY DEF OpToRel
<1> HIDE DEF Below
<1>3. PICK n \in S : \A m \in S : ~(<<m, n>> \in Below) BY <1>1, WFMin
<1>4. ASSUME NEW m \in S PROVE n <= m
  <2>1. m \in Nat /\ n \in Nat /\ ~(m < n) BY <1>2, <1>3
  <2> QED BY <2>1
<1> QED BY <1>4

(* What holds of 0 and of the successor of each number it holds of.         *)
LEMMA InductionOnSets ==
  ASSUME NEW T, 0 \in T, \A m \in Nat : m \in T => m + 1 \in T
  PROVE  \A m \in Nat : m \in T
<1> DEFINE Missed == { m \in Nat : m \notin T }
<1> SUFFICES ASSUME Missed # {} PROVE FALSE
  OBVIOUS
<1>1. PICK m \in Missed : \A k \in Missed : m <= k
  <2>1. Missed \in SUBSET Nat OBVIOUS
  <2> HIDE DEF Missed
  <2> QED BY <2>1, LeastExists
<1>2. m \in Nat /\ m \notin T OBVIOUS
<1>3. m # 0 BY <1>2
<1>4. m - 1 \in Nat /\ ~(m <= m - 1) /\ (m - 1) + 1 = m BY <1>2, <1>3
<1>5. m - 1 \in T BY <1>1, <1>4
<1>6. (m - 1) + 1 \in T BY <1>4, <1>5
<1> QED BY <1>2, <1>4, <1>6

Counts(n) == [0 .. n - 1 -> Nat]

(* f sums c up to its m-th row.                                             *)
SumsTo(f, c, m) ==
  f \in [0 .. m - 1 -> Nat] /\ \A i \in 0 .. m - 1 : f[i] = IF i = 0 THEN c[0] ELSE f[i - 1] + c[i]

(* A cumulative sum of any counts exists.                                   *)
LEMMA SumsExist ==
  ASSUME NEW n \in Nat, NEW c \in Counts(n)
  PROVE  \E f : SumsTo(f, c, n)
<1> DEFINE T == { m \in Nat : m <= n => \E f : SumsTo(f, c, m) }
<1>1. 0 \in T
  <2>1. SumsTo(<< >>, c, 0) BY DEF SumsTo
  <2> QED BY <2>1
<1>2. ASSUME NEW m \in Nat, m \in T PROVE m + 1 \in T
  <2> SUFFICES ASSUME m + 1 <= n PROVE \E f : SumsTo(f, c, m + 1)
    OBVIOUS
  <2>1. PICK f : SumsTo(f, c, m) BY <1>2
  <2> DEFINE g == [i \in 0 .. (m + 1) - 1 |-> IF i < m THEN f[i]
                                       ELSE IF m = 0 THEN c[0] ELSE f[m - 1] + c[m]]
  <2>2. c[m] \in Nat /\ c[0] \in Nat BY DEF Counts
  <2>3. m # 0 => f[m - 1] \in Nat BY <2>1 DEF SumsTo
  <2>4. \A i \in 0 .. (m + 1) - 1 : i < m => f[i] \in Nat BY <2>1 DEF SumsTo
  <2>5. g \in [0 .. (m + 1) - 1 -> Nat] BY <2>2, <2>3, <2>4
  <2>6. ASSUME NEW i \in 0 .. (m + 1) - 1
        PROVE  g[i] = IF i = 0 THEN c[0] ELSE g[i - 1] + c[i]
    <3>1. CASE i < m
      <4>1. f[i] = IF i = 0 THEN c[0] ELSE f[i - 1] + c[i] BY <2>1, <3>1 DEF SumsTo
      <4>2. i # 0 => i - 1 \in 0 .. (m + 1) - 1 /\ i - 1 < m BY <3>1
      <4> QED BY <3>1, <4>1, <4>2
    <3>2. CASE i = m
      <4>1. i # 0 => i - 1 \in 0 .. (m + 1) - 1 /\ i - 1 < m BY <3>2
      <4> QED BY <3>2, <4>1
    <3> QED BY <3>1, <3>2
  <2> HIDE DEF g
  <2>7. SumsTo(g, c, m + 1) BY <2>5, <2>6 DEF SumsTo
  <2> QED BY <2>7
<1>3. \A m \in Nat : m \in T
  <2> HIDE DEF T
  <2> QED BY <1>1, <1>2, InductionOnSets
<1> QED BY <1>3

(* np.cumsum as the module writes it is that sum.                           *)
LEMMA CumsumSums ==
  ASSUME NEW n \in Nat, NEW c \in Counts(n)
  PROVE  SumsTo(Cumsum(c), c, n)
<1>1. Rows(c) = 0 .. n - 1 BY DEF Rows, Counts
<1>2. PICK f : SumsTo(f, c, n) BY SumsExist
<1>3. f = [i \in 0 .. n - 1 |-> IF i = 0 THEN c[0] ELSE f[i - 1] + c[i]] BY <1>2 DEF SumsTo
<1>4. Cumsum(c) = [i \in 0 .. n - 1 |-> IF i = 0 THEN c[0] ELSE Cumsum(c)[i - 1] + c[i]]
  BY <1>1, <1>3 DEF Cumsum
<1>5. SumsTo(Cumsum(c), c, n)
  <2> DEFINE u == Cumsum(c)
             T == { m \in Nat : m <= n - 1 => u[m] \in Nat }
  <2>1. u = [i \in 0 .. n - 1 |-> IF i = 0 THEN c[0] ELSE u[i - 1] + c[i]] BY <1>4
  <2>2. \A i \in 0 .. n - 1 : c[i] \in Nat BY DEF Counts
  <2> HIDE DEF u
  <2>3. 0 \in T BY <2>1, <2>2
  <2>4. ASSUME NEW m \in Nat, m \in T PROVE m + 1 \in T
    <3> SUFFICES ASSUME m + 1 <= n - 1 PROVE u[m + 1] \in Nat
      OBVIOUS
    <3>1. m + 1 \in 0 .. n - 1 /\ m + 1 # 0 /\ (m + 1) - 1 = m OBVIOUS
    <3>2. u[m + 1] = u[m] + c[m + 1] BY <2>1, <3>1
    <3>3. u[m] \in Nat /\ c[m + 1] \in Nat BY <2>2, <2>4, <3>1
    <3> QED BY <3>2, <3>3
  <2>5. \A m \in Nat : m \in T
    <3> HIDE DEF T
    <3> QED BY <2>3, <2>4, InductionOnSets
  <2>6. \A i \in 0 .. n - 1 : u[i] \in Nat BY <2>5
  <2>7. u \in [0 .. n - 1 -> Nat] BY <2>1, <2>6
  <2>8. \A i \in 0 .. n - 1 : u[i] = IF i = 0 THEN c[0] ELSE u[i - 1] + c[i] BY <2>1
  <2>9. SumsTo(u, c, n) BY <2>7, <2>8 DEF SumsTo
  <2> QED BY <2>9 DEF u
<1> QED BY <1>5

(* Rows are laid out one after the other.                                   *)
LEMMA Layout ==
  ASSUME NEW n \in Nat \ {0}, NEW c \in Counts(n)
  PROVE  /\ Cumsum(c) \in [0 .. n - 1 -> Nat] /\ Rows(c) = 0 .. n - 1
         /\ StartOf(c, 0) = 0
         /\ \A i \in 0 .. n - 1 : c[i] \in Nat /\ StartOf(c, i) \in Nat
                               /\ Cumsum(c)[i] = StartOf(c, i) + c[i]
         /\ \A i \in 0 .. n - 1 : i # 0 => StartOf(c, i) = StartOf(c, i - 1) + c[i - 1]
         /\ Total(c) = Cumsum(c)[n - 1] /\ Total(c) \in Nat
<1> DEFINE u == Cumsum(c)
<1>1. u \in [0 .. n - 1 -> Nat]
      /\ \A i \in 0 .. n - 1 : u[i] = IF i = 0 THEN c[0] ELSE u[i - 1] + c[i]
  BY CumsumSums DEF SumsTo
<1>2. \A i \in 0 .. n - 1 : StartOf(c, i) = u[i] - c[i] BY DEF StartOf
<1>3. Rows(c) = 0 .. n - 1 BY DEF Rows, Counts
<1>4. Total(c) = u[n - 1]
  <2>1. Cardinality(0 .. n - 1) = n BY FS_Interval
  <2> QED BY <1>3, <2>1 DEF Total
<1> HIDE DEF u
<1>5. \A i \in 0 .. n - 1 : c[i] \in Nat /\ u[i] \in Nat BY <1>1 DEF Counts
<1>6. 0 \in 0 .. n - 1 /\ n - 1 \in 0 .. n - 1 OBVIOUS
<1>7. StartOf(c, 0) = 0
  <2>1. u[0] = c[0] BY <1>1, <1>6
  <2> QED BY <1>2, <1>5, <1>6, <2>1
<1>8. \A i \in 0 .. n - 1 : i # 0 => StartOf(c, i) = u[i - 1] /\ i - 1 \in 0 .. n - 1
  <2> TAKE i \in 0 .. n - 1
  <2> HAVE i # 0
  <2>1. i - 1 \in 0 .. n - 1 OBVIOUS
  <2>2. u[i] = u[i - 1] + c[i] BY <1>1
  <2> DEFINE a == u[i] b == u[i - 1] d == c[i]
  <2>3. b \in Nat /\ d \in Nat /\ a = b + d BY <1>5, <2>1, <2>2
  <2>4. StartOf(c, i) = a - d BY <1>2
  <2> HIDE DEF a, b, d
  <2>5. a - d = b BY <2>3
  <2> QED BY <2>1, <2>4, <2>5 DEF b
<1>9. \A i \in 0 .. n - 1 : StartOf(c, i) \in Nat BY <1>5, <1>7, <1>8
<1>10. \A i \in 0 .. n - 1 : u[i] = StartOf(c, i) + c[i] BY <1>2, <1>5
<1>11. \A i \in 0 .. n - 1 : i # 0 => StartOf(c, i) = StartOf(c, i - 1) + c[i - 1] BY <1>8, <1>10
<1> QED BY <1>1, <1>3, <1>4, <1>5, <1>6, <1>7, <1>9, <1>10, <1>11 DEF u

(* A row ends before every later one starts.                                *)
LEMMA LaterRow ==
  ASSUME NEW n \in Nat \ {0}, NEW c \in Counts(n), NEW i \in 0 .. n - 1, NEW j \in 0 .. n - 1, i < j
  PROVE  StartOf(c, i) + c[i] <= StartOf(c, j)
<1> DEFINE T == { m \in Nat : i + 1 + m <= n - 1 => StartOf(c, i) + c[i] <= StartOf(c, i + 1 + m) }
<1>1. /\ \A k \in 0 .. n - 1 : c[k] \in Nat /\ StartOf(c, k) \in Nat
      /\ \A k \in 0 .. n - 1 : k # 0 => StartOf(c, k) = StartOf(c, k - 1) + c[k - 1]
  BY Layout
<1>2. 0 \in T
  <2>1. i + 1 + 0 = i + 1 /\ (i + 1) - 1 = i /\ i + 1 # 0 /\ i + 1 \in 0 .. n - 1 OBVIOUS
  <2>2. StartOf(c, i + 1) = StartOf(c, i) + c[i] BY <1>1, <2>1
  <2> QED BY <1>1, <2>1, <2>2
<1>3. ASSUME NEW m \in Nat, m \in T PROVE m + 1 \in T
  <2> SUFFICES ASSUME i + 1 + (m + 1) <= n - 1
               PROVE  StartOf(c, i) + c[i] <= StartOf(c, i + 1 + (m + 1))
    OBVIOUS
  <2> DEFINE k == i + 1 + (m + 1)
  <2>1. k \in 0 .. n - 1 /\ k # 0 /\ k - 1 = i + 1 + m /\ k - 1 \in 0 .. n - 1 OBVIOUS
  <2>2. StartOf(c, k) = StartOf(c, k - 1) + c[k - 1] BY <1>1, <2>1
  <2>3. StartOf(c, i) + c[i] <= StartOf(c, k - 1) BY <1>3, <2>1
  <2>4. /\ StartOf(c, i) \in Nat /\ c[i] \in Nat /\ StartOf(c, k - 1) \in Nat /\ c[k - 1] \in Nat
    BY <1>1, <2>1
  <2> QED BY <2>2, <2>3, <2>4
<1>4. \A m \in Nat : m \in T
  <2> HIDE DEF T
  <2> QED BY <1>2, <1>3, InductionOnSets
<1>5. j - i - 1 \in Nat /\ i + 1 + (j - i - 1) = j OBVIOUS
<1>6. j - i - 1 \in T BY <1>4, <1>5
<1> QED BY <1>5, <1>6

(* Every row lies within the total.                                         *)
LEMMA WithinTotal ==
  ASSUME NEW n \in Nat \ {0}, NEW c \in Counts(n), NEW i \in 0 .. n - 1
  PROVE  StartOf(c, i) + c[i] <= Total(c)
<1>1. n - 1 \in 0 .. n - 1 OBVIOUS
<1>2. /\ Total(c) = StartOf(c, n - 1) + c[n - 1]
      /\ \A k \in 0 .. n - 1 : c[k] \in Nat /\ StartOf(c, k) \in Nat
  BY <1>1, Layout
<1>3. CASE i = n - 1 BY <1>1, <1>2, <1>3
<1>4. CASE i < n - 1
  <2>1. StartOf(c, i) + c[i] <= StartOf(c, n - 1) BY <1>1, <1>4, LaterRow
  <2> QED BY <1>1, <1>2, <2>1
<1> QED BY <1>3, <1>4

(* The row and the offset of a flat index.                                  *)
LEMMA RowOf ==
  ASSUME NEW n \in Nat \ {0}, NEW c \in Counts(n), NEW i \in 0 .. n - 1, NEW k \in Nat, k < c[i]
  PROVE  /\ RowAt(c, StartOf(c, i) + k) = i /\ OffsetAt(c, StartOf(c, i) + k) = k
         /\ StartOf(c, i) + k \in 0 .. Total(c) - 1
<1> DEFINE g == StartOf(c, i) + k
<1>1. /\ \A j \in 0 .. n - 1 : c[j] \in Nat /\ StartOf(c, j) \in Nat
      /\ Rows(c) = 0 .. n - 1 /\ Total(c) \in Nat
  BY Layout
<1>2. g \in Nat /\ StartOf(c, i) <= g /\ g < StartOf(c, i) + c[i] BY <1>1
<1>3. ASSUME NEW j \in 0 .. n - 1, StartOf(c, j) <= g, g < StartOf(c, j) + c[j] PROVE j = i
  <2>1. CASE i < j
    <3>1. StartOf(c, i) + c[i] <= StartOf(c, j) BY <2>1, LaterRow
    <3> QED BY <1>1, <1>2, <1>3, <3>1
  <2>2. CASE j < i
    <3>1. StartOf(c, j) + c[j] <= StartOf(c, i) BY <2>2, LaterRow
    <3> QED BY <1>1, <1>2, <1>3, <3>1
  <2> QED BY <2>1, <2>2
<1> HIDE DEF g
<1>4. RowAt(c, g) = i BY <1>1, <1>2, <1>3 DEF RowAt
<1>5. OffsetAt(c, g) = k BY <1>1, <1>4 DEF OffsetAt, g
<1>6. g <= Total(c) - 1
  <2>1. StartOf(c, i) + c[i] <= Total(c) BY WithinTotal
  <2> QED BY <1>1, <1>2, <2>1
<1> QED BY <1>1, <1>2, <1>4, <1>5, <1>6 DEF g

(* Every flat index has a row.                                              *)
LEMMA RowExists ==
  ASSUME NEW n \in Nat \ {0}, NEW c \in Counts(n), NEW g \in 0 .. Total(c) - 1
  PROVE  /\ RowAt(c, g) \in 0 .. n - 1 /\ OffsetAt(c, g) \in Nat
         /\ OffsetAt(c, g) < c[RowAt(c, g)] /\ g = StartOf(c, RowAt(c, g)) + OffsetAt(c, g)
<1> DEFINE S == { i \in 0 .. n - 1 : g < StartOf(c, i) + c[i] }
<1>0. n - 1 \in 0 .. n - 1 OBVIOUS
<1>1. /\ \A j \in 0 .. n - 1 : c[j] \in Nat /\ StartOf(c, j) \in Nat
      /\ \A j \in 0 .. n - 1 : j # 0 => StartOf(c, j) = StartOf(c, j - 1) + c[j - 1]
      /\ StartOf(c, 0) = 0
      /\ Rows(c) = 0 .. n - 1 /\ Total(c) \in Nat /\ Total(c) = StartOf(c, n - 1) + c[n - 1]
  BY <1>0, Layout
<1>2. n - 1 \in S BY <1>1
<1>3. PICK i \in S : \A j \in S : i <= j
  <2>1. S \in SUBSET Nat OBVIOUS
  <2> HIDE DEF S
  <2> QED BY <1>2, <2>1, LeastExists
<1>4. i \in 0 .. n - 1 /\ g < StartOf(c, i) + c[i] OBVIOUS
<1>5. StartOf(c, i) <= g
  <2>1. CASE i = 0 BY <1>1, <2>1
  <2>2. CASE i # 0
    <3>1. i - 1 \in 0 .. n - 1 /\ ~(i <= i - 1) BY <1>4, <2>2
    <3>2. i - 1 \notin S BY <1>3, <3>1
    <3>3. ~(g < StartOf(c, i - 1) + c[i - 1]) BY <3>1, <3>2
    <3>4. StartOf(c, i) = StartOf(c, i - 1) + c[i - 1] BY <1>1, <1>4, <2>2
    <3>5. StartOf(c, i) \in Nat /\ g \in Nat BY <1>1, <1>4
    <3> QED BY <3>3, <3>4, <3>5
  <2> QED BY <2>1, <2>2
<1> DEFINE k == g - StartOf(c, i)
<1>6. k \in Nat /\ k < c[i] /\ g = StartOf(c, i) + k
  <2>1. StartOf(c, i) \in Nat /\ c[i] \in Nat /\ g \in Nat BY <1>1, <1>4
  <2> QED BY <1>4, <1>5, <2>1
<1> HIDE DEF k
<1>7. RowAt(c, StartOf(c, i) + k) = i /\ OffsetAt(c, StartOf(c, i) + k) = k BY <1>4, <1>6, RowOf
<1> QED BY <1>4, <1>6, <1>7

-----------------------------------------------------------------------------
(* What a step may be launched with: n rows, of which those that were in    *)
(* the previous step decode.                                                *)
Laid(b, p, prev, n) ==
  /\ n \in Nat \ {0} /\ b \in [0 .. n - 1 -> Reqs] /\ prev \in [0 .. n - 1 -> Nat \cup {None}]
  /\ p \in [0 .. n - 1 -> [n : Nat, d : Nat]]
  /\ \A i \in 0 .. n - 1 :
       IF prev[i] # None THEN p[i].n = 1 + p[i].d /\ p[i].d <= SpecTokens
                         ELSE p[i].n \in 1 .. MaxChunk /\ p[i].d = 0

(* The sizes, from the assumption on the constants.                         *)
LEMMA Sizes == SpecTokens \in Nat \ {0} /\ MaxChunk \in Nat \ {0} /\ MaxRows \in Nat \ {0}
                 /\ None \notin Nat
  BY SpecInputsAssumption

(* The per-row counts of a launched plan, and their bounds: a row has more  *)
(* tokens than drafts.                                                      *)
LEMMA LaidCounts ==
  ASSUME NEW b, NEW p, NEW prev, NEW n, Laid(b, p, prev, n)
  PROVE  /\ Scheduled(p) \in Counts(n) /\ Drafts(p) \in Counts(n) /\ SampledTokens(p) \in Counts(n)
         /\ n \in Nat \ {0} /\ DOMAIN p = 0 .. n - 1 /\ DOMAIN prev = 0 .. n - 1
         /\ \A i \in 0 .. n - 1 :
              /\ p[i].n \in Nat \ {0} /\ p[i].d \in Nat /\ p[i].d < p[i].n /\ p[i].d <= SpecTokens
              /\ Scheduled(p)[i] = p[i].n /\ Drafts(p)[i] = p[i].d /\ SampledTokens(p)[i] = p[i].d + 1
<1>1. n \in Nat \ {0} /\ DOMAIN p = 0 .. n - 1 /\ DOMAIN prev = 0 .. n - 1 BY DEF Laid
<1>2. \A i \in 0 .. n - 1 : p[i].n \in Nat /\ p[i].d \in Nat BY DEF Laid
<1>3. ASSUME NEW i \in 0 .. n - 1
      PROVE  p[i].n \in Nat \ {0} /\ p[i].d < p[i].n /\ p[i].d <= SpecTokens
  <2> DEFINE x == p[i].n y == p[i].d
  <2>1. x \in Nat /\ y \in Nat BY <1>2
  <2>2. \/ x = 1 + y /\ y <= SpecTokens
        \/ x \in 1 .. MaxChunk /\ y = 0
    BY DEF Laid
  <2> HIDE DEF x, y
  <2>3. x \in Nat \ {0} /\ y < x /\ y <= SpecTokens BY <2>1, <2>2, Sizes
  <2> QED BY <2>3 DEF x, y
<1>4. Scheduled(p) = [i \in 0 .. n - 1 |-> p[i].n] BY <1>1 DEF Scheduled
<1>5. Drafts(p) = [i \in 0 .. n - 1 |-> p[i].d] BY <1>1 DEF Drafts
<1>6. SampledTokens(p) = [i \in 0 .. n - 1 |-> p[i].d + 1] BY <1>1 DEF SampledTokens
<1>7. Scheduled(p) \in Counts(n) /\ Drafts(p) \in Counts(n) /\ SampledTokens(p) \in Counts(n)
  BY <1>2, <1>4, <1>5, <1>6 DEF Counts
<1> QED BY <1>1, <1>2, <1>3, <1>4, <1>5, <1>6, <1>7

(* The size of an interval of rows.                                         *)
LEMMA UpTo ==
  ASSUME NEW n \in Nat PROVE IsFiniteSet(0 .. n - 1) /\ Cardinality(0 .. n - 1) = n
<1>1. n - 1 \in Int /\ 0 \in Int OBVIOUS
<1>2. Cardinality(0 .. n - 1) = IF 0 > n - 1 THEN 0 ELSE (n - 1) - 0 + 1 BY <1>1, FS_Interval
<1>3. IsFiniteSet(0 .. n - 1) BY <1>1, FS_Interval
<1> QED BY <1>2, <1>3

(* Each row has a token that is not in c.                                   *)
LEMMA LeftOver ==
  ASSUME NEW n \in Nat \ {0}, NEW a \in Counts(n), NEW c \in Counts(n),
         \A i \in 0 .. n - 1 : c[i] < a[i]
  PROVE  Total(a) - Total(c) >= n
<1> DEFINE T == { m \in Nat : m <= n - 1 => Cumsum(a)[m] >= Cumsum(c)[m] + m + 1 }
<1>1. /\ \A i \in 0 .. n - 1 : a[i] \in Nat /\ Cumsum(a)[i] = StartOf(a, i) + a[i] /\ StartOf(a, i) \in Nat
      /\ \A i \in 0 .. n - 1 : i # 0 => StartOf(a, i) = StartOf(a, i - 1) + a[i - 1]
      /\ Total(a) = Cumsum(a)[n - 1] /\ Total(a) \in Nat /\ StartOf(a, 0) = 0
  BY Layout
<1>2. /\ \A i \in 0 .. n - 1 : c[i] \in Nat /\ Cumsum(c)[i] = StartOf(c, i) + c[i] /\ StartOf(c, i) \in Nat
      /\ \A i \in 0 .. n - 1 : i # 0 => StartOf(c, i) = StartOf(c, i - 1) + c[i - 1]
      /\ Total(c) = Cumsum(c)[n - 1] /\ Total(c) \in Nat /\ StartOf(c, 0) = 0
  BY Layout
<1>3. 0 \in T
  <2>1. 0 \in 0 .. n - 1 OBVIOUS
  <2>2. Cumsum(a)[0] = a[0] /\ Cumsum(c)[0] = c[0] /\ c[0] < a[0] /\ a[0] \in Nat /\ c[0] \in Nat
    BY <1>1, <1>2, <2>1
  <2> QED BY <2>2
<1>4. ASSUME NEW m \in Nat, m \in T PROVE m + 1 \in T
  <2> SUFFICES ASSUME m + 1 <= n - 1 PROVE Cumsum(a)[m + 1] >= Cumsum(c)[m + 1] + (m + 1) + 1
    OBVIOUS
  <2>1. m + 1 \in 0 .. n - 1 /\ m \in 0 .. n - 1 /\ m + 1 # 0 /\ (m + 1) - 1 = m OBVIOUS
  <2>2. Cumsum(a)[m + 1] = Cumsum(a)[m] + a[m + 1] BY <1>1, <2>1
  <2>3. Cumsum(c)[m + 1] = Cumsum(c)[m] + c[m + 1] BY <1>2, <2>1
  <2>4. Cumsum(a)[m] >= Cumsum(c)[m] + m + 1 BY <1>4, <2>1
  <2>5. Cumsum(a)[m] \in Nat /\ Cumsum(c)[m] \in Nat /\ a[m + 1] \in Nat /\ c[m + 1] \in Nat
        /\ c[m + 1] < a[m + 1]
    BY <1>1, <1>2, <2>1
  <2> QED BY <2>2, <2>3, <2>4, <2>5
<1>5. \A m \in Nat : m \in T
  <2> HIDE DEF T
  <2> QED BY <1>3, <1>4, InductionOnSets
<1>6. n - 1 \in T /\ n - 1 <= n - 1 BY <1>5
<1>7. Cumsum(a)[n - 1] >= Cumsum(c)[n - 1] + (n - 1) + 1 BY <1>6
<1> QED BY <1>1, <1>2, <1>7

(* The CPU's tokens are uploaded when a row needs them.                     *)
LEMMA CopiesWhenNeeded ==
  ASSUME NEW b, NEW p, NEW prev, NEW n, Laid(b, p, prev, n), NEW i \in 0 .. n - 1, prev[i] = None
  PROVE  CopiesCpu(p, prev)
<1> DEFINE e == [k \in DOMAIN p |-> IF k \in Common(prev) THEN p[k].d ELSE 0]
<1>1. n \in Nat \ {0} BY DEF Laid
<1>2. e \in Counts(n) BY LaidCounts DEF Counts
<1>3. ASSUME NEW k \in 0 .. n - 1 PROVE e[k] < Scheduled(p)[k]
  <2>1. /\ p[k].n \in Nat \ {0} /\ p[k].d \in Nat /\ p[k].d < p[k].n
        /\ Scheduled(p)[k] = p[k].n /\ DOMAIN p = 0 .. n - 1
    BY LaidCounts
  <2>2. e[k] = IF k \in Common(prev) THEN p[k].d ELSE 0 BY <2>1
  <2> HIDE DEF e
  <2> QED BY <2>1, <2>2
<1> HIDE DEF e
<1>4. Total(Scheduled(p)) - Total(e) >= n BY <1>1, <1>2, <1>3, LaidCounts, LeftOver
<1>5. Cardinality(Common(prev)) \in Nat /\ Cardinality(Common(prev)) < n
  <2>0. DOMAIN prev = 0 .. n - 1 BY LaidCounts
  <2>1. Common(prev) \in SUBSET (0 .. n - 1) /\ i \notin Common(prev) BY <2>0 DEF Common
  <2>2. IsFiniteSet(0 .. n - 1) /\ Cardinality(0 .. n - 1) = n BY <1>1, UpTo
  <2>3. /\ IsFiniteSet(Common(prev)) /\ Cardinality(Common(prev)) <= Cardinality(0 .. n - 1)
        /\ Cardinality(Common(prev)) # Cardinality(0 .. n - 1)
    BY <2>1, <2>2, FS_Subset
  <2>4. Cardinality(Common(prev)) \in Nat BY <2>3, FS_CardinalityType
  <2> QED BY <1>1, <2>2, <2>3, <2>4
<1>6. Total(Scheduled(p)) \in Nat /\ Total(e) \in Nat BY <1>1, <1>2, LaidCounts, Layout
<1>7. Cardinality(Common(prev)) < Total(Scheduled(p)) - Total(e) BY <1>1, <1>4, <1>5, <1>6
<1> QED BY <1>7 DEF CopiesCpu, e

(* The last index of a row.                                                 *)
LEMMA LastIndexOf ==
  ASSUME NEW b, NEW p, NEW prev, NEW n, Laid(b, p, prev, n), NEW i \in 0 .. n - 1
  PROVE  /\ LastIndex(p, i) = StartOf(Scheduled(p), i) + (p[i].n - 1)
         /\ StartOf(Scheduled(p), i) \in Nat /\ LastIndex(p, i) \in 0 .. Total(Scheduled(p)) - 1
         /\ RowAt(Scheduled(p), LastIndex(p, i)) = i
         /\ OffsetAt(Scheduled(p), LastIndex(p, i)) = p[i].n - 1
<1>1. n \in Nat \ {0} BY DEF Laid
<1>2. Scheduled(p) \in Counts(n) /\ Scheduled(p)[i] = p[i].n /\ p[i].n \in Nat \ {0} BY LaidCounts
<1>3. StartOf(Scheduled(p), i) \in Nat
      /\ Cumsum(Scheduled(p))[i] = StartOf(Scheduled(p), i) + Scheduled(p)[i]
  BY <1>1, <1>2, Layout
<1>4. LastIndex(p, i) = StartOf(Scheduled(p), i) + (p[i].n - 1) BY <1>2, <1>3 DEF LastIndex
<1>5. p[i].n - 1 \in Nat /\ p[i].n - 1 < Scheduled(p)[i] BY <1>2
<1> QED BY <1>1, <1>2, <1>3, <1>4, <1>5, RowOf

(* The slice copy is taken only when the rows of the previous step come     *)
(* first, have one token each and have not moved.                           *)
LEMMA SlicedRows ==
  ASSUME NEW b, NEW p, NEW prev, NEW n, Laid(b, p, prev, n), SameRows(p, prev),
         NEW i \in 0 .. n - 1, NEW j \in Nat, j < p[i].n
  PROVE  /\ i \in Common(prev) <=> StartOf(Scheduled(p), i) + j < Cardinality(Common(prev))
         /\ i \in Common(prev) => StartOf(Scheduled(p), i) + j = prev[i] /\ p[i].n = 1
<1> DEFINE L == Scheduled(p)
           S == Common(prev)
           T == 0 .. Cardinality(S) - 1
           f == [m \in S |-> LastIndex(p, m)]
<1>1. n \in Nat \ {0} /\ S \in SUBSET (0 .. n - 1) 
  <2>1. n \in Nat \ {0} /\ DOMAIN prev = 0 .. n - 1 BY LaidCounts
  <2> QED BY <2>1 DEF Common
<1>2. IsFiniteSet(S) /\ Cardinality(S) \in Nat
  <2>1. IsFiniteSet(0 .. n - 1) BY <1>1, UpTo
  <2>2. IsFiniteSet(S) BY <1>1, <2>1, FS_Subset
  <2> QED BY <2>2, FS_CardinalityType
<1>3. IsFiniteSet(T) /\ Cardinality(T) = Cardinality(S) BY <1>2, UpTo
<1>4. \A m \in S : LastIndex(p, m) \in T /\ prev[m] = LastIndex(p, m)
  <2> TAKE m \in S
  <2>1. LastIndex(p, m) <= Cardinality(S) - 1 /\ prev[m] = LastIndex(p, m) BY DEF SameRows
  <2>2. LastIndex(p, m) \in 0 .. Total(L) - 1 BY <1>1, LastIndexOf
  <2> QED BY <1>2, <2>1, <2>2
<1>5. \A m \in S : RowAt(L, LastIndex(p, m)) = m BY <1>1, LastIndexOf
<1>6. f \in Injection(S, T) BY <1>4, <1>5 DEF Injection, IsInjective
<1>7. f \in Surjection(S, T) BY <1>2, <1>3, <1>6, FS_Injection
<1>8. \A t \in T : \E m \in S : LastIndex(p, m) = t BY <1>7 DEF Surjection
<1>9. /\ StartOf(L, i) \in Nat /\ LastIndex(p, i) = StartOf(L, i) + (p[i].n - 1)
      /\ L \in Counts(n) /\ L[i] = p[i].n /\ p[i].n \in Nat \ {0}
  <2>1. StartOf(L, i) \in Nat /\ LastIndex(p, i) = StartOf(L, i) + (p[i].n - 1) BY LastIndexOf
  <2>2. L \in Counts(n) /\ L[i] = p[i].n /\ p[i].n \in Nat \ {0} BY LaidCounts
  <2> QED BY <2>1, <2>2
<1>10. ASSUME NEW k \in Nat, k < p[i].n, StartOf(L, i) + k < Cardinality(S)
       PROVE  i \in S /\ k = p[i].n - 1
  <2> DEFINE g == StartOf(L, i) + k
  <2>1. g \in T BY <1>2, <1>9, <1>10
  <2>2. PICK m \in S : LastIndex(p, m) = g BY <1>8, <2>1
  <2>3. RowAt(L, g) = i /\ OffsetAt(L, g) = k BY <1>1, <1>9, <1>10, RowOf
  <2>4. m = i BY <1>5, <2>2, <2>3
  <2>5. OffsetAt(L, g) = p[i].n - 1 BY <2>2, <2>4, LastIndexOf
  <2> QED BY <2>3, <2>4, <2>5
<1>11. ASSUME i \in S
       PROVE  StartOf(L, i) + j < Cardinality(S) /\ p[i].n = 1 /\ StartOf(L, i) + j = prev[i]
  <2>1. LastIndex(p, i) < Cardinality(S) BY <1>2, <1>4, <1>11
  <2>2. StartOf(L, i) + j <= LastIndex(p, i) /\ StartOf(L, i) + 0 <= LastIndex(p, i) BY <1>9
  <2>3. StartOf(L, i) + j < Cardinality(S) /\ StartOf(L, i) + 0 < Cardinality(S)
    BY <1>2, <1>9, <2>1, <2>2
  <2>4. 0 = p[i].n - 1 /\ j = p[i].n - 1
    <3>1. 0 \in Nat /\ 0 < p[i].n BY <1>9
    <3> QED BY <1>10, <2>3, <3>1
  <2>5. StartOf(L, i) + j = LastIndex(p, i) BY <1>9, <2>4
  <2>6. p[i].n = 1 BY <1>9, <2>4
  <2> QED BY <1>4, <1>11, <2>3, <2>5, <2>6
<1> QED BY <1>10, <1>11

(* Where a draft is in the flattened drafts of the previous step.           *)
LEMMA DivMod ==
  ASSUME NEW q \in Nat, NEW s \in Nat \ {0}, NEW k \in Nat, k < s
  PROVE  (q * s + k) \div s = q /\ (q * s + k) % s = k
<1> DEFINE x == q * s + k
<1>1. x \in Nat OBVIOUS
<1>2. x = s * (x \div s) + (x % s) /\ x % s \in 0 .. s - 1 /\ x \div s \in Nat BY <1>1
<1> DEFINE d == x \div s m == x % s
<1>3. d \in Nat /\ m \in 0 .. s - 1 /\ q * s + k = s * d + m BY <1>2
<1> HIDE DEF d, m
<1>4. CASE d < q
  <2>1. PICK e \in Nat : q = d + 1 + e
    <3>1. q - d - 1 \in Nat /\ q = d + 1 + (q - d - 1) BY <1>3, <1>4
    <3> QED BY <3>1
  <2>2. q * s = s * d + s + e * s BY <1>3, <2>1
  <2>3. e * s \in Nat /\ s * d \in Nat BY <1>3, <2>1
  <2> DEFINE v == s * d w == e * s u == q * s
  <2>4. v \in Nat /\ w \in Nat /\ u = v + s + w /\ u + k = v + m BY <1>3, <2>2, <2>3
  <2> HIDE DEF u, v, w
  <2> QED BY <1>3, <2>4
<1>5. CASE q < d
  <2>1. PICK e \in Nat : d = q + 1 + e
    <3>1. d - q - 1 \in Nat /\ d = q + 1 + (d - q - 1) BY <1>3, <1>5
    <3> QED BY <3>1
  <2>2. s * d = q * s + s + e * s BY <1>3, <2>1
  <2>3. e * s \in Nat /\ q * s \in Nat BY <1>3, <2>1
  <2> DEFINE v == s * d w == e * s u == q * s
  <2>4. u \in Nat /\ w \in Nat /\ v = u + s + w /\ u + k = v + m BY <1>3, <2>2, <2>3
  <2> HIDE DEF u, v, w
  <2> QED BY <1>3, <2>4
<1>6. CASE d = q
  <2>1. s * d = q * s BY <1>3, <1>6
  <2>2. q * s \in Nat OBVIOUS
  <2> DEFINE u == q * s
  <2>3. u \in Nat /\ u + k = u + m BY <1>3, <2>1, <2>2
  <2> HIDE DEF u
  <2>4. k = m BY <1>3, <2>3
  <2> QED BY <1>6, <2>4 DEF d, m
<1> QED BY <1>3, <1>4, <1>5, <1>6

-----------------------------------------------------------------------------
(* The token of row i at offset j.                                          *)
OwnOf(b, prev, i, j) ==
  IF prev[i] = None THEN <<"cpu", b[i], j>>
  ELSE IF j = 0 THEN <<"sampled", b[i]>>
  ELSE <<"draft", b[i], j - 1>>

(* The rows are those of the same requests in the previous step.            *)
Moved(b, prev, n) == \A i \in 0 .. n - 1 : prev[i] # None => batch[prev[i]] = b[i]

(* _prepare_input_ids gives each flat row the token of its own request at   *)
(* its own offset, by the slice copy as well as by the scatter.             *)
LEMMA InputIdsOf ==
  ASSUME NEW b, NEW p, NEW prev, NEW n, Laid(b, p, prev, n), Moved(b, prev, n),
         NEW i \in 0 .. n - 1, NEW j \in Nat, j < p[i].n
  PROVE  InputIds(b, p, prev)[StartOf(Scheduled(p), i) + j] = OwnOf(b, prev, i, j)
<1> DEFINE L == Scheduled(p)
           g == StartOf(L, i) + j
           base == [x \in 0 .. Total(L) - 1 |->
                      IF CopiesCpu(p, prev) THEN <<"cpu", b[RowAt(L, x)], OffsetAt(L, x)>> ELSE Stale]
           sliced == [x \in DOMAIN base |->
                        IF x < Cardinality(Common(prev)) THEN PrevSampledToken(x) ELSE base[x]]
           SampleIndex(k) == LastIndex(p, k) - p[k].d
           scattered == [x \in DOMAIN base |->
                   LET k == RowAt(L, x)
                   IN  IF k \notin Common(prev) \/ x < SampleIndex(k) THEN base[x]
                       ELSE IF x = SampleIndex(k) THEN PrevSampledToken(prev[k])
                       ELSE PrevDraftToken(DraftIndex(prev[k], x - SampleIndex(k) - 1))]
<1>1. InputIds(b, p, prev) = IF SameRows(p, prev) THEN sliced ELSE scattered BY DEF InputIds
<1>2. n \in Nat \ {0} BY DEF Laid
<1>3. /\ L \in Counts(n) /\ L[i] = p[i].n /\ DOMAIN prev = 0 .. n - 1
      /\ p[i].n \in Nat \ {0} /\ p[i].d \in Nat /\ p[i].d < p[i].n /\ p[i].d <= SpecTokens
  BY LaidCounts
<1>4. RowAt(L, g) = i /\ OffsetAt(L, g) = j /\ g \in 0 .. Total(L) - 1 BY <1>2, <1>3, RowOf
<1>5. i \in Common(prev) <=> prev[i] # None BY <1>3 DEF Common
<1>6. prev[i] = None => base[g] = <<"cpu", b[i], j>> BY <1>4, CopiesWhenNeeded
<1>7. CASE SameRows(p, prev)
  <2>1. InputIds(b, p, prev)[g] =
          IF g < Cardinality(Common(prev)) THEN <<"sampled", batch[g]>> ELSE base[g]
    BY <1>1, <1>4, <1>7 DEF PrevSampledToken
  <2>2. /\ i \in Common(prev) <=> g < Cardinality(Common(prev))
        /\ i \in Common(prev) => g = prev[i] /\ p[i].n = 1
    BY <1>7, SlicedRows
  <2> HIDE DEF base, g
  <2>3. CASE prev[i] = None BY <1>5, <1>6, <2>1, <2>2, <2>3 DEF OwnOf, g
  <2>4. CASE prev[i] # None
    <3>1. j = 0 BY <1>5, <2>2, <2>4
    <3>2. batch[g] = b[i] BY <1>5, <2>2, <2>4 DEF Moved
    <3> QED BY <1>5, <2>1, <2>2, <2>4, <3>1, <3>2 DEF OwnOf, g
  <2> QED BY <2>3, <2>4
<1>8. CASE ~SameRows(p, prev)
  <2>1. InputIds(b, p, prev)[g] =
          IF i \notin Common(prev) \/ g < SampleIndex(i) THEN base[g]
          ELSE IF g = SampleIndex(i) THEN <<"sampled", batch[prev[i]]>>
          ELSE PrevDraftToken(DraftIndex(prev[i], g - SampleIndex(i) - 1))
    BY <1>1, <1>4, <1>8 DEF PrevSampledToken
  <2>2. CASE prev[i] = None
    <3> HIDE DEF base, g
    <3> QED BY <1>5, <1>6, <2>1, <2>2 DEF OwnOf, g
  <2>3. CASE prev[i] # None
    <3>1. p[i].n = 1 + p[i].d /\ prev[i] \in Nat /\ batch[prev[i]] = b[i]
      BY <2>3 DEF Laid, Moved
    <3>2. StartOf(L, i) \in Nat /\ LastIndex(p, i) = StartOf(L, i) + (p[i].n - 1) BY LastIndexOf
    <3>3. SampleIndex(i) = StartOf(L, i) BY <1>3, <3>1, <3>2
    <3> DEFINE st == StartOf(L, i)
    <3>4. g - SampleIndex(i) - 1 = j - 1
      <4> HIDE DEF SampleIndex
      <4>1. g - st - 1 = j - 1 BY <3>2
      <4> QED BY <3>3, <4>1
    <3>5. ~(g < SampleIndex(i)) /\ (g = SampleIndex(i) <=> j = 0)
      <4> HIDE DEF SampleIndex
      <4> QED BY <3>2, <3>3
    <3> HIDE DEF SampleIndex, base, g
    <3>6. CASE j = 0 BY <1>5, <2>1, <2>3, <3>1, <3>5, <3>6 DEF OwnOf, g
    <3>7. CASE j # 0
      <4>1. j - 1 \in Nat /\ j - 1 < SpecTokens BY <1>3, <3>1, <3>7, Sizes
      <4>3. /\ DraftIndex(prev[i], j - 1) \div SpecTokens = prev[i]
            /\ DraftIndex(prev[i], j - 1) % SpecTokens = j - 1
        <5> DEFINE q == prev[i] k == j - 1
        <5>1. q \in Nat /\ k \in Nat /\ k < SpecTokens BY <3>1, <4>1
        <5> HIDE DEF q, k
        <5>2. (q * SpecTokens + k) \div SpecTokens = q /\ (q * SpecTokens + k) % SpecTokens = k
          BY <5>1, DivMod, Sizes
        <5>3. DraftIndex(q, k) = q * SpecTokens + k BY DEF DraftIndex
        <5>4. DraftIndex(q, k) \div SpecTokens = q /\ DraftIndex(q, k) % SpecTokens = k
          BY <5>2, <5>3
        <5> QED BY <5>4 DEF q, k
      <4>4. PrevDraftToken(DraftIndex(prev[i], j - 1)) = <<"draft", b[i], j - 1>>
        BY <3>1, <4>3 DEF PrevDraftToken
      <4> QED BY <1>5, <2>1, <2>3, <3>4, <3>5, <3>7, <4>4 DEF OwnOf, g
    <3> QED BY <3>6, <3>7
  <2> QED BY <2>2, <2>3
<1> QED BY <1>7, <1>8

(* The flat rows that are filled are all those scheduled.                   *)
LEMMA InputIdsDomain ==
  ASSUME NEW b, NEW p, NEW prev
  PROVE  /\ DOMAIN InputIds(b, p, prev) = 0 .. Total(Scheduled(p)) - 1
         /\ InputIds(b, p, prev) =
              [x \in 0 .. Total(Scheduled(p)) - 1 |-> InputIds(b, p, prev)[x]]
  BY DEF InputIds

(* The logits of a row's k-th sampled token.                                *)
LEMMA LogitsAt ==
  ASSUME NEW b, NEW p, NEW prev, NEW n, Laid(b, p, prev, n),
         NEW i \in 0 .. n - 1, NEW k \in Nat, k <= p[i].d
  PROVE  /\ StartOf(SampledTokens(p), i) + k \in 0 .. Total(SampledTokens(p)) - 1
         /\ LogitsIndices(p)[StartOf(SampledTokens(p), i) + k] =
              (StartOf(Scheduled(p), i) + p[i].n) - (p[i].d + 1) + k
         /\ LogitsIndices(p)[StartOf(SampledTokens(p), i) + k] \in 0 .. Total(Scheduled(p)) - 1
<1> DEFINE L == Scheduled(p) s == SampledTokens(p) g == StartOf(s, i) + k
<1>1. n \in Nat \ {0} BY DEF Laid
<1>2. /\ L \in Counts(n) /\ L[i] = p[i].n /\ s \in Counts(n) /\ s[i] = p[i].d + 1
      /\ p[i].n \in Nat \ {0} /\ p[i].d \in Nat /\ p[i].d < p[i].n
  BY LaidCounts
<1>3. k < s[i] BY <1>2
<1>4. RowAt(s, g) = i /\ OffsetAt(s, g) = k /\ g \in 0 .. Total(s) - 1 BY <1>1, <1>2, <1>3, RowOf
<1>5. /\ StartOf(L, i) \in Nat /\ Cumsum(L)[i] = StartOf(L, i) + L[i] /\ Total(L) \in Nat
  BY <1>1, <1>2, Layout
<1>6. StartOf(L, i) + L[i] <= Total(L) BY <1>1, <1>2, WithinTotal
<1>7. LogitsIndices(p)[g] = Cumsum(L)[i] - s[i] + k
  <2>1. LogitsIndices(p) =
          [x \in 0 .. Total(s) - 1 |-> Cumsum(L)[RowAt(s, x)] - s[RowAt(s, x)] + OffsetAt(s, x)]
    BY DEF LogitsIndices
  <2> HIDE DEF L, s, g
  <2> QED BY <1>4, <2>1
<1> DEFINE v == LogitsIndices(p)[g] e == StartOf(L, i) t == Total(L) y == p[i].d x == p[i].n
<1>8. /\ v = (e + x) - (y + 1) + k /\ e \in Nat /\ x \in Nat \ {0} /\ y \in Nat /\ y < x /\ k <= y
      /\ t \in Nat /\ e + x <= t
  BY <1>2, <1>5, <1>6, <1>7
<1> HIDE DEF v, e, t, y, x
<1>9. v \in 0 .. t - 1 BY <1>8
<1> QED BY <1>4, <1>8, <1>9 DEF v, e, t, y, x

(* Draft k of a row is judged with the row's k-th sampled token.            *)
LEMMA TargetAt ==
  ASSUME NEW b, NEW p, NEW prev, NEW n, Laid(b, p, prev, n),
         NEW i \in 0 .. n - 1, NEW k \in Nat, k < p[i].d
  PROVE  /\ StartOf(Drafts(p), i) + k \in 0 .. Total(Drafts(p)) - 1
         /\ TargetLogitsIndices(p)[StartOf(Drafts(p), i) + k] = StartOf(SampledTokens(p), i) + k
<1> DEFINE d == Drafts(p) g == StartOf(d, i) + k
<1>1. n \in Nat \ {0} /\ d \in Counts(n) /\ d[i] = p[i].d BY LaidCounts
<1>2. RowAt(d, g) = i /\ OffsetAt(d, g) = k /\ g \in 0 .. Total(d) - 1 BY <1>1, RowOf
<1>3. TargetLogitsIndices(p) =
        [x \in 0 .. Total(d) - 1 |-> StartOf(SampledTokens(p), RowAt(d, x)) + OffsetAt(d, x)]
  BY DEF TargetLogitsIndices
<1> HIDE DEF d, g
<1>4. TargetLogitsIndices(p)[g] = StartOf(SampledTokens(p), i) + k BY <1>2, <1>3
<1> QED BY <1>2, <1>4 DEF d, g

(* The bonus token is the last of the row's sampled tokens.                 *)
LEMMA BonusAt ==
  ASSUME NEW b, NEW p, NEW prev, NEW n, Laid(b, p, prev, n), NEW i \in 0 .. n - 1
  PROVE  BonusLogitsIndices(p)[i] = StartOf(SampledTokens(p), i) + p[i].d
<1> DEFINE s == SampledTokens(p)
<1>1. /\ n \in Nat \ {0} /\ s \in Counts(n) /\ s[i] = p[i].d + 1 /\ p[i].d \in Nat
      /\ DOMAIN p = 0 .. n - 1
  BY LaidCounts
<1>2. StartOf(s, i) \in Nat /\ Cumsum(s)[i] = StartOf(s, i) + s[i] BY <1>1, Layout
<1>3. BonusLogitsIndices(p)[i] = Cumsum(s)[i] - 1 BY <1>1 DEF BonusLogitsIndices
<1> HIDE DEF s
<1>4. StartOf(s, i) + (p[i].d + 1) - 1 = StartOf(s, i) + p[i].d BY <1>1, <1>2
<1> QED BY <1>1, <1>2, <1>3, <1>4 DEF s

(* The indices of the metadata are in range.                                *)
LEMMA LogitsTyped ==
  ASSUME NEW b, NEW p, NEW prev, NEW n, Laid(b, p, prev, n)
  PROVE  /\ LogitsIndices(p) \in [0 .. Total(SampledTokens(p)) - 1 -> 0 .. Total(Scheduled(p)) - 1]
         /\ TargetLogitsIndices(p) \in
              [0 .. Total(Drafts(p)) - 1 -> 0 .. Total(SampledTokens(p)) - 1]
         /\ BonusLogitsIndices(p) \in [0 .. n - 1 -> 0 .. Total(SampledTokens(p)) - 1]
<1> DEFINE s == SampledTokens(p) d == Drafts(p) L == Scheduled(p)
<1>1. n \in Nat \ {0} /\ s \in Counts(n) /\ d \in Counts(n) /\ DOMAIN p = 0 .. n - 1
  BY LaidCounts
<1>2. \A i \in 0 .. n - 1 : s[i] = p[i].d + 1 /\ d[i] = p[i].d /\ p[i].d \in Nat BY LaidCounts
<1>3. ASSUME NEW g \in 0 .. Total(s) - 1 PROVE LogitsIndices(p)[g] \in 0 .. Total(L) - 1
  <2> DEFINE i == RowAt(s, g) k == OffsetAt(s, g)
  <2>1. i \in 0 .. n - 1 /\ k \in Nat /\ k < s[i] /\ g = StartOf(s, i) + k BY <1>1, RowExists
  <2> HIDE DEF i, k
  <2>2. k <= p[i].d BY <1>2, <2>1
  <2> QED BY <2>1, <2>2, LogitsAt
<1>4. ASSUME NEW g \in 0 .. Total(d) - 1 PROVE TargetLogitsIndices(p)[g] \in 0 .. Total(s) - 1
  <2> DEFINE i == RowAt(d, g) k == OffsetAt(d, g)
  <2>1. i \in 0 .. n - 1 /\ k \in Nat /\ k < d[i] /\ g = StartOf(d, i) + k BY <1>1, RowExists
  <2> HIDE DEF i, k
  <2>2. k < p[i].d /\ k <= p[i].d BY <1>2, <2>1
  <2>3. TargetLogitsIndices(p)[g] = StartOf(s, i) + k BY <2>1, <2>2, TargetAt
  <2>4. StartOf(s, i) + k \in 0 .. Total(s) - 1 BY <2>1, <2>2, LogitsAt
  <2> QED BY <2>3, <2>4
<1>5. ASSUME NEW i \in 0 .. n - 1 PROVE BonusLogitsIndices(p)[i] \in 0 .. Total(s) - 1
  <2>1. p[i].d \in Nat /\ p[i].d <= p[i].d BY <1>2
  <2>2. StartOf(s, i) + p[i].d \in 0 .. Total(s) - 1 BY <2>1, LogitsAt
  <2> QED BY <2>2, BonusAt
<1>6. LogitsIndices(p) = [g \in 0 .. Total(s) - 1 |-> LogitsIndices(p)[g]] BY DEF LogitsIndices
<1>7. TargetLogitsIndices(p) = [g \in 0 .. Total(d) - 1 |-> TargetLogitsIndices(p)[g]]
  BY DEF TargetLogitsIndices
<1>8. BonusLogitsIndices(p) = [i \in 0 .. n - 1 |-> BonusLogitsIndices(p)[i]]
  BY <1>1 DEF BonusLogitsIndices
<1> HIDE DEF s, d, L
<1>9. LogitsIndices(p) \in [0 .. Total(s) - 1 -> 0 .. Total(L) - 1] BY <1>3, <1>6
<1>10. TargetLogitsIndices(p) \in [0 .. Total(d) - 1 -> 0 .. Total(s) - 1] BY <1>4, <1>7
<1>11. BonusLogitsIndices(p) \in [0 .. n - 1 -> 0 .. Total(s) - 1] BY <1>5, <1>8
<1> QED BY <1>9, <1>10, <1>11 DEF s, d, L

(* The draft that is compared is the token of its own row.                  *)
LEMMA DraftTokenAt ==
  ASSUME NEW b, NEW p, NEW prev, NEW n, Laid(b, p, prev, n), NEW ids,
         NEW i \in 0 .. n - 1, NEW k \in Nat, k < p[i].d
  PROVE  DraftTokenIds(p, ids)[StartOf(Drafts(p), i) + k] =
           ids[(StartOf(Scheduled(p), i) + p[i].n) - p[i].d + k]
<1> DEFINE d == Drafts(p) s == SampledTokens(p) g == StartOf(d, i) + k
<1>1. p[i].d \in Nat /\ p[i].n \in Nat BY LaidCounts
<1>2. g \in 0 .. Total(d) - 1 /\ TargetLogitsIndices(p)[g] = StartOf(s, i) + k BY TargetAt
<1>3. DOMAIN TargetLogitsIndices(p) = 0 .. Total(d) - 1 BY DEF TargetLogitsIndices
<1>4. DraftTokenIds(p, ids)[g] = ids[LogitsIndices(p)[TargetLogitsIndices(p)[g] + 1]]
  BY <1>2, <1>3 DEF DraftTokenIds
<1>5. k + 1 \in Nat /\ k + 1 <= p[i].d BY <1>1
<1>6. LogitsIndices(p)[StartOf(s, i) + (k + 1)] =
        (StartOf(Scheduled(p), i) + p[i].n) - (p[i].d + 1) + (k + 1)
  BY <1>5, LogitsAt
<1>7. StartOf(s, i) \in Nat /\ StartOf(Scheduled(p), i) \in Nat 
  <2>1. n \in Nat \ {0} /\ s \in Counts(n) /\ Scheduled(p) \in Counts(n) BY LaidCounts
  <2> HIDE DEF s
  <2> QED BY <2>1, Layout
<1> DEFINE a == StartOf(s, i) e == StartOf(Scheduled(p), i) x == p[i].n y == p[i].d
<1>8. a \in Nat /\ e \in Nat /\ x \in Nat /\ y \in Nat BY <1>1, <1>7
<1>9. (a + k) + 1 = a + (k + 1) /\ (e + x) - (y + 1) + (k + 1) = (e + x) - y + k
  <2> HIDE DEF a, e, x, y
  <2> QED BY <1>8
<1> QED BY <1>2, <1>4, <1>6, <1>9

-----------------------------------------------------------------------------
(* The rows kept for the drafter.                                           *)
KeptCounts(p, acc) == [i \in DOMAIN p |-> p[i].n - Rejected(p, acc)[i]]

(* Each request keeps at least one row, and loses one for each rejected     *)
(* draft.                                                                   *)
LEMMA KeptFacts ==
  ASSUME NEW b, NEW p, NEW prev, NEW n, Laid(b, p, prev, n), NEW acc \in Accepts(p)
  PROVE  /\ KeptCounts(p, acc) \in Counts(n) /\ acc \in [0 .. n - 1 -> Nat]
         /\ \A i \in 0 .. n - 1 :
              /\ acc[i] <= p[i].d /\ acc[i] \in Nat
              /\ Rejected(p, acc)[i] = p[i].d - acc[i]
              /\ KeptCounts(p, acc)[i] = p[i].n - (p[i].d - acc[i])
              /\ KeptCounts(p, acc)[i] \in Nat \ {0} /\ KeptCounts(p, acc)[i] <= p[i].n
<1>1. DOMAIN p = 0 .. n - 1 /\ n \in Nat \ {0} BY LaidCounts
<1>2. acc \in [0 .. n - 1 -> 0 .. SpecTokens] /\ \A i \in 0 .. n - 1 : acc[i] <= p[i].d
  BY <1>1 DEF Accepts
<1>3. ASSUME NEW i \in 0 .. n - 1
      PROVE  /\ acc[i] \in Nat /\ Rejected(p, acc)[i] = p[i].d - acc[i]
             /\ KeptCounts(p, acc)[i] = p[i].n - (p[i].d - acc[i])
             /\ KeptCounts(p, acc)[i] \in Nat \ {0} /\ KeptCounts(p, acc)[i] <= p[i].n
  <2> DEFINE x == p[i].n y == p[i].d a == acc[i]
  <2>1. x \in Nat \ {0} /\ y \in Nat /\ y < x BY LaidCounts
  <2>2. a \in Nat /\ a <= y BY <1>2, Sizes
  <2>3. Rejected(p, acc)[i] = IF y > 0 THEN y + 1 - (a + 1) ELSE 0 BY <1>1 DEF Rejected
  <2>4. KeptCounts(p, acc)[i] = x - Rejected(p, acc)[i] BY <1>1 DEF KeptCounts
  <2> HIDE DEF x, y, a
  <2>5. Rejected(p, acc)[i] = y - a BY <2>1, <2>2, <2>3
  <2>6. x - (y - a) \in Nat \ {0} /\ x - (y - a) <= x BY <2>1, <2>2
  <2> QED BY <2>2, <2>4, <2>5, <2>6 DEF x, y, a
<1>4. KeptCounts(p, acc) = [i \in 0 .. n - 1 |-> KeptCounts(p, acc)[i]] BY <1>1 DEF KeptCounts
<1>5. KeptCounts(p, acc) \in Counts(n) BY <1>3, <1>4 DEF Counts
<1>6. acc \in [0 .. n - 1 -> Nat] BY <1>2, Sizes
<1> QED BY <1>2, <1>3, <1>5, <1>6

(* prepare_inputs: the j-th row kept for a request is its j-th row.         *)
LEMMA TokenIndicesOf ==
  ASSUME NEW b, NEW p, NEW prev, NEW n, Laid(b, p, prev, n), NEW acc \in Accepts(p)
  PROVE  /\ DOMAIN TokenIndices(p, acc) = 0 .. Total(KeptCounts(p, acc)) - 1
         /\ \A i \in 0 .. n - 1 : \A k \in Nat : k < KeptCounts(p, acc)[i] =>
              TokenIndices(p, acc)[StartOf(KeptCounts(p, acc), i) + k] = StartOf(Scheduled(p), i) + k
         /\ TokenIndices(p, acc) \in [DOMAIN TokenIndices(p, acc) -> 0 .. Total(Scheduled(p)) - 1]
<1> DEFINE kept == KeptCounts(p, acc) L == Scheduled(p) t == TokenIndices(p, acc)
<1>1. n \in Nat \ {0} /\ L \in Counts(n) BY LaidCounts
<1>2. kept \in Counts(n) BY KeptFacts
<1>3. t = [g \in 0 .. Total(kept) - 1 |-> OffsetAt(kept, g) + StartOf(L, RowAt(kept, g))]
  BY DEF TokenIndices, KeptCounts
<1>4. \A i \in 0 .. n - 1 : StartOf(L, i) \in Nat /\ kept[i] <= L[i] /\ L[i] \in Nat /\ kept[i] \in Nat
  <2>1. \A i \in 0 .. n - 1 : L[i] = p[i].n /\ p[i].n \in Nat BY LaidCounts
  <2>2. \A i \in 0 .. n - 1 : kept[i] <= p[i].n /\ kept[i] \in Nat BY KeptFacts
  <2>3. \A i \in 0 .. n - 1 : StartOf(L, i) \in Nat
    <3> HIDE DEF L
    <3> QED BY <1>1, Layout
  <2> QED BY <2>1, <2>2, <2>3
<1> HIDE DEF kept, L, t
<1>5. ASSUME NEW i \in 0 .. n - 1, NEW k \in Nat, k < kept[i]
      PROVE  t[StartOf(kept, i) + k] = StartOf(L, i) + k
  <2>1. /\ RowAt(kept, StartOf(kept, i) + k) = i /\ OffsetAt(kept, StartOf(kept, i) + k) = k
        /\ StartOf(kept, i) + k \in 0 .. Total(kept) - 1
    BY <1>1, <1>2, <1>5, RowOf
  <2>2. t[StartOf(kept, i) + k] = k + StartOf(L, i) BY <1>3, <2>1
  <2> QED BY <1>4, <2>2
<1>6. ASSUME NEW g \in 0 .. Total(kept) - 1 PROVE t[g] \in 0 .. Total(L) - 1
  <2> DEFINE i == RowAt(kept, g) k == OffsetAt(kept, g)
  <2>1. i \in 0 .. n - 1 /\ k \in Nat /\ k < kept[i] /\ g = StartOf(kept, i) + k
    BY <1>1, <1>2, RowExists
  <2> HIDE DEF i, k
  <2>2. k < L[i] BY <1>4, <2>1
  <2>3. StartOf(L, i) + k \in 0 .. Total(L) - 1 BY <1>1, <2>1, <2>2, RowOf
  <2> QED BY <1>5, <2>1, <2>3
<1>7. DOMAIN t = 0 .. Total(kept) - 1 BY <1>3
<1>8. t \in [DOMAIN t -> 0 .. Total(L) - 1] BY <1>3, <1>6
<1> QED BY <1>5, <1>7, <1>8 DEF kept, L, t

-----------------------------------------------------------------------------
(* The invariant.                                                           *)
StepInv(n) ==
  /\ Laid(batch, plan, prevRow, n)
  /\ \A i \in 0 .. n - 1 : prevRow[i] # None => i \in sampled
  /\ DOMAIN inputIds = 0 .. Total(Scheduled(plan)) - 1
  /\ inputIds = [g \in DOMAIN inputIds |-> inputIds[g]]
  /\ \A i \in 0 .. n - 1 : \A j \in Nat : j < plan[i].n =>
       inputIds[StartOf(Scheduled(plan), i) + j] = OwnOf(batch, prevRow, i, j)
  /\ metadata = Metadata(plan, inputIds)

LayoutInv ==
  /\ batch \in Batches \cup {<< >>} /\ sampled \subseteq DOMAIN batch
  /\ plan # << >> => \E n \in Nat : StepInv(n)
  /\ plan = << >> => accepted = << >> /\ metadata = << >>
  /\ accepted = << >> => tokenIndices = << >>
  /\ accepted # << >> => accepted \in Accepts(plan) /\ tokenIndices = TokenIndices(plan, accepted)

(* A batch is a sequence of distinct requests, with at least one row.       *)
LEMMA BatchRows ==
  ASSUME NEW b \in Batches
  PROVE  \E n \in Nat \ {0} : /\ b \in [0 .. n - 1 -> Reqs] /\ DOMAIN b = 0 .. n - 1
                              /\ \A i, j \in 0 .. n - 1 : b[i] = b[j] => i = j
<1>1. PICK n \in 1 .. MaxRows :
        b \in { f \in [0 .. n - 1 -> Reqs] : \A i, j \in 0 .. n - 1 : f[i] = f[j] => i = j }
  BY DEF Batches
<1>2. n \in Nat \ {0} BY Sizes
<1> QED BY <1>1, <1>2

(* Whatever is launched is laid out, over the rows of the same requests.    *)
LEMMA LaunchLaid ==
  ASSUME LayoutInv, NEW b \in Batches, NEW p \in Plans(b)
  PROVE  \E n \in Nat : /\ Laid(b, p, PrevPositions(b), n) /\ Moved(b, PrevPositions(b), n)
                        /\ DOMAIN b = 0 .. n - 1
<1> DEFINE prev == PrevPositions(b)
<1>1. PICK n \in Nat \ {0} : b \in [0 .. n - 1 -> Reqs] /\ DOMAIN b = 0 .. n - 1 BY BatchRows
<1>2. sampled \subseteq Nat
  <2>1. CASE batch = << >> BY <2>1 DEF LayoutInv
  <2>2. CASE batch # << >>
    <3>1. batch \in Batches BY <2>2 DEF LayoutInv
    <3>2. PICK m \in Nat \ {0} : DOMAIN batch = 0 .. m - 1 BY <3>1, BatchRows
    <3> QED BY <3>2 DEF LayoutInv
  <2> QED BY <2>1, <2>2
<1>3. \A i \in 0 .. n - 1 :
        prev[i] = IF \E q \in sampled : batch[q] = b[i]
                  THEN CHOOSE q \in sampled : batch[q] = b[i] ELSE None
  BY <1>1 DEF PrevPositions
<1>4. ASSUME NEW i \in 0 .. n - 1
      PROVE  prev[i] \in Nat \cup {None} /\ (prev[i] # None => batch[prev[i]] = b[i])
  <2>1. CASE \E q \in sampled : batch[q] = b[i]
    <3>1. prev[i] \in sampled /\ batch[prev[i]] = b[i] BY <1>3, <2>1
    <3> QED BY <1>2, <3>1
  <2>2. CASE ~ \E q \in sampled : batch[q] = b[i] BY <1>3, <2>2
  <2> QED BY <2>1, <2>2
<1>5. prev \in [0 .. n - 1 -> Nat \cup {None}]
  <2>1. prev = [i \in 0 .. n - 1 |-> prev[i]] BY <1>1 DEF PrevPositions
  <2> HIDE DEF prev
  <2> QED BY <1>4, <2>1
<1>6. /\ DOMAIN p = 0 .. n - 1 /\ p = [i \in 0 .. n - 1 |-> p[i]]
      /\ \A i \in 0 .. n - 1 : p[i] \in RowPlans(prev[i])
  BY <1>1 DEF Plans
<1> HIDE DEF prev
<1>7. ASSUME NEW i \in 0 .. n - 1
      PROVE  /\ p[i] \in [n : Nat, d : Nat]
             /\ IF prev[i] # None THEN p[i].n = 1 + p[i].d /\ p[i].d <= SpecTokens
                ELSE p[i].n \in 1 .. MaxChunk /\ p[i].d = 0
  <2>0. p[i] \in RowPlans(prev[i]) BY <1>6
  <2>1. CASE prev[i] # None
    <3>1. PICK d \in 0 .. SpecTokens : p[i] = [n |-> 1 + d, d |-> d]
      BY <2>0, <2>1 DEF RowPlans
    <3> QED BY <2>1, <3>1, Sizes
  <2>2. CASE prev[i] = None
    <3>1. PICK m \in 1 .. MaxChunk : p[i] = [n |-> m, d |-> 0]
      BY <2>0, <2>2 DEF RowPlans
    <3> QED BY <2>2, <3>1, Sizes
  <2> QED BY <2>1, <2>2
<1>8. p \in [0 .. n - 1 -> [n : Nat, d : Nat]] BY <1>6, <1>7
<1>9. Laid(b, p, prev, n) BY <1>1, <1>5, <1>7, <1>8 DEF Laid
<1>10. Moved(b, prev, n) BY <1>4 DEF Moved
<1> QED BY <1>1, <1>9, <1>10 DEF prev

(* execute_model establishes the invariant for its own step.                *)
LEMMA LaunchKeepsLayout ==
  ASSUME LayoutInv, NEW b \in Batches, NEW p \in Plans(b),
         NEW discarded \in SUBSET { i \in DOMAIN b : PrevPositions(b)[i] = None },
         Launch(b, p, discarded)
  PROVE  LayoutInv'
<1> DEFINE prev == PrevPositions(b)
<1>1. PICK n \in Nat : Laid(b, p, prev, n) /\ Moved(b, prev, n) /\ DOMAIN b = 0 .. n - 1
  BY LaunchLaid
<1>2. /\ plan = << >> /\ batch' = b /\ sampled' = DOMAIN b \ discarded /\ plan' = p
      /\ prevRow' = prev /\ inputIds' = InputIds(b, p, prev) /\ metadata' = Metadata(p, inputIds')
      /\ accepted' = accepted /\ tokenIndices' = tokenIndices
  BY DEF Launch
<1>3. \A i \in 0 .. n - 1 : prev[i] # None => i \in sampled' BY <1>1, <1>2
<1> HIDE DEF prev
<1>4. /\ DOMAIN InputIds(b, p, prev) = 0 .. Total(Scheduled(p)) - 1
      /\ InputIds(b, p, prev) = [x \in 0 .. Total(Scheduled(p)) - 1 |-> InputIds(b, p, prev)[x]]
  BY InputIdsDomain
<1>5. \A i \in 0 .. n - 1 : \A j \in Nat : j < p[i].n =>
        InputIds(b, p, prev)[StartOf(Scheduled(p), i) + j] = OwnOf(b, prev, i, j)
  BY <1>1, InputIdsOf
<1>6. StepInv(n)'
  <2>1. Laid(batch, plan, prevRow, n)' BY <1>1, <1>2 DEF Laid
  <2>2. /\ DOMAIN inputIds' = 0 .. Total(Scheduled(p)) - 1
        /\ inputIds' = [g \in DOMAIN inputIds' |-> inputIds'[g]]
    BY <1>2, <1>4
  <2>3. \A i \in 0 .. n - 1 : \A j \in Nat : j < p[i].n =>
          inputIds'[StartOf(Scheduled(p), i) + j] = OwnOf(batch, prevRow, i, j)'
    BY <1>2, <1>5 DEF OwnOf
  <2> QED BY <1>2, <1>3, <2>1, <2>2, <2>3 DEF StepInv
<1>7. accepted = << >> /\ tokenIndices = << >> BY <1>2 DEF LayoutInv
<1>8. p # << >>
  <2>1. DOMAIN p = 0 .. n - 1 /\ n \in Nat \ {0} BY <1>1, LaidCounts
  <2>2. 0 \in DOMAIN p /\ DOMAIN << >> = {} BY <2>1
  <2> QED BY <2>2
<1> QED BY <1>2, <1>6, <1>7, <1>8 DEF LayoutInv

(* What is not assigned keeps its part of the invariant.                    *)
LEMMA StepInvKept ==
  ASSUME NEW n, StepInv(n), UNCHANGED <<batch, sampled, plan, prevRow, inputIds, metadata>>
  PROVE  StepInv(n)'
<1>1. Laid(batch, plan, prevRow, n)' BY DEF StepInv, Laid
<1>2. \A i \in 0 .. n - 1 : \A j \in Nat : OwnOf(batch, prevRow, i, j)' = OwnOf(batch, prevRow, i, j)
  BY DEF OwnOf
<1> QED BY <1>1, <1>2 DEF StepInv

(* Every step preserves the invariant.                                      *)
LEMMA LayoutInductive ==
  ASSUME LayoutInv, [Next]_vars PROVE LayoutInv'
<1>1. CASE LaunchAny BY <1>1, LaunchKeepsLayout DEF LaunchAny
<1>2. ASSUME NEW acc \in Accepts(plan), Verify(acc) PROVE LayoutInv'
  <2>1. /\ plan # << >> /\ accepted' = acc /\ tokenIndices' = TokenIndices(plan, acc)
        /\ UNCHANGED <<batch, sampled, plan, prevRow, inputIds, metadata>>
    BY <1>2 DEF Verify
  <2>2. PICK n \in Nat : StepInv(n) BY <2>1 DEF LayoutInv
  <2>3. StepInv(n)' BY <2>1, <2>2, StepInvKept
  <2>4. acc # << >>
    <3>1. acc \in [0 .. n - 1 -> Nat] /\ n \in Nat \ {0}
      BY <2>2, KeptFacts, LaidCounts DEF StepInv
    <3>2. 0 \in DOMAIN acc /\ DOMAIN << >> = {} BY <3>1
    <3> QED BY <3>2
  <2> QED BY <2>1, <2>3, <2>4 DEF LayoutInv, Accepts
<1>3. CASE Return BY <1>3 DEF Return, LayoutInv
<1>4. CASE UNCHANGED vars
  <2>1. (\E n \in Nat : StepInv(n)) => \E n \in Nat : StepInv(n)' BY <1>4, StepInvKept DEF vars
  <2> QED BY <1>4, <2>1 DEF vars, LayoutInv
<1> QED BY <1>1, <1>2, <1>3, <1>4 DEF Next, VerifyAny

(* The invariant holds before the first step.                               *)
LEMMA LayoutInit == Init => LayoutInv
<1> SUFFICES ASSUME Init PROVE LayoutInv
  OBVIOUS
<1>1. sampled \subseteq DOMAIN batch BY DEF Init
<1> QED BY <1>1 DEF Init, LayoutInv

(* It holds throughout, whatever the requests, rows, drafts and chunks.     *)
THEOREM AlwaysLayoutInv == Spec => []LayoutInv
<1>1. LayoutInv /\ [Next]_vars => LayoutInv' BY LayoutInductive
<1> QED BY LayoutInit, <1>1, PTL DEF Spec

(* A step in flight has rows.                                               *)
LEMMA PlanHasRows ==
  ASSUME LayoutInv, plan # << >>
  PROVE  \E n \in Nat \ {0} : StepInv(n) /\ DOMAIN plan = 0 .. n - 1
<1>1. PICK n \in Nat : StepInv(n) BY DEF LayoutInv
<1>2. n \in Nat \ {0} /\ DOMAIN plan = 0 .. n - 1 BY <1>1, LaidCounts DEF StepInv
<1> QED BY <1>1, <1>2

(* _prepare_input_ids: the slice copy and the scatter both give every flat  *)
(* row its own request's token.                                             *)
LEMMA LayoutGivesInputs == LayoutInv => InputIdsExact
<1> SUFFICES ASSUME LayoutInv, NEW i \in DOMAIN plan, NEW j \in 0 .. plan[i].n - 1
             PROVE  inputIds[StartOf(Scheduled(plan), i) + j] = OwnToken(i, j)
  BY DEF InputIdsExact
<1>1. plan # << >> OBVIOUS
<1>2. PICK n \in Nat \ {0} : StepInv(n) /\ DOMAIN plan = 0 .. n - 1 BY <1>1, PlanHasRows
<1>3. plan[i].n \in Nat BY <1>2, LaidCounts DEF StepInv
<1>4. j \in Nat /\ j < plan[i].n BY <1>3
<1>5. inputIds[StartOf(Scheduled(plan), i) + j] = OwnOf(batch, prevRow, i, j)
  BY <1>2, <1>4 DEF StepInv
<1> QED BY <1>5 DEF OwnOf, OwnToken

(* Each flat row of a launched step holds its own request's token,          *)
(* whichever shortcut _prepare_input_ids took and however the rows moved.   *)
THEOREM AlwaysInputIdsExact == Spec => []InputIdsExact
  BY AlwaysLayoutInv, LayoutGivesInputs, PTL

(* A row that has drafts was in the previous step.                          *)
LEMMA DraftsHavePrevRow ==
  ASSUME NEW n, StepInv(n), NEW i \in 0 .. n - 1, plan[i].d > 0
  PROVE  prevRow[i] # None /\ plan[i].n = 1 + plan[i].d
<1>1. Laid(batch, plan, prevRow, n) BY DEF StepInv
<1>2. ~(plan[i].d = 0)
  <2>1. plan[i].d \in Nat BY <1>1, LaidCounts
  <2> DEFINE y == plan[i].d
  <2>2. y \in Nat /\ y > 0 BY <2>1
  <2> HIDE DEF y
  <2>3. ~(y = 0) BY <2>2
  <2> QED BY <2>3 DEF y
<1> QED BY <1>1, <1>2 DEF Laid

(* _calc_spec_decode_metadata: the indices of the metadata point at the row *)
(* before a draft, at the draft, and after the last one.                    *)
LEMMA LayoutJudgesInPlace == LayoutInv => DraftsJudgedInPlace
<1> SUFFICES ASSUME LayoutInv, metadata # << >>, NEW i \in DOMAIN plan
             PROVE  LET end == StartOf(Scheduled(plan), i) + plan[i].n
                    IN  /\ metadata.logits[metadata.bonus[i]] = end - 1
                        /\ \A k \in 0 .. plan[i].d - 1 :
                             LET g == StartOf(Drafts(plan), i) + k
                                 row == end - plan[i].d + k
                             IN  /\ metadata.logits[metadata.target[g]] = row - 1
                                 /\ metadata.drafts[g] = inputIds[row]
                                 /\ metadata.drafts[g] = <<"draft", batch[i], k>>
  BY DEF DraftsJudgedInPlace
<1> DEFINE end == StartOf(Scheduled(plan), i) + plan[i].n
<1>1. plan # << >> OBVIOUS
<1>2. PICK n \in Nat \ {0} : StepInv(n) /\ DOMAIN plan = 0 .. n - 1 BY <1>1, PlanHasRows
<1>3. Laid(batch, plan, prevRow, n) BY <1>2 DEF StepInv
<1>4. /\ metadata.logits = LogitsIndices(plan) /\ metadata.target = TargetLogitsIndices(plan)
      /\ metadata.bonus = BonusLogitsIndices(plan) /\ metadata.drafts = DraftTokenIds(plan, inputIds)
  <2>1. metadata = Metadata(plan, inputIds) BY <1>2 DEF StepInv
  <2> QED BY <2>1 DEF Metadata
<1>5. /\ plan[i].n \in Nat \ {0} /\ plan[i].d \in Nat /\ plan[i].d < plan[i].n
  BY <1>2, <1>3, LaidCounts
<1>6. StartOf(Scheduled(plan), i) \in Nat
  <2>1. Scheduled(plan) \in Counts(n) BY <1>3, LaidCounts
  <2> QED BY <1>2, <2>1, Layout
<1> DEFINE x == plan[i].n y == plan[i].d e == StartOf(Scheduled(plan), i)
<1>7. x \in Nat \ {0} /\ y \in Nat /\ y < x /\ e \in Nat BY <1>5, <1>6
<1>8. metadata.logits[metadata.bonus[i]] = end - 1
  <2>1. metadata.bonus[i] = StartOf(SampledTokens(plan), i) + y BY <1>2, <1>3, <1>4, BonusAt
  <2>2. \A k \in Nat : k <= y =>
          LogitsIndices(plan)[StartOf(SampledTokens(plan), i) + k] = (e + x) - (y + 1) + k
    BY <1>2, <1>3, LogitsAt
  <2>3. LogitsIndices(plan)[StartOf(SampledTokens(plan), i) + y] = (e + x) - (y + 1) + y
    <3>1. y \in Nat /\ y <= y BY <1>7
    <3> HIDE DEF x, y, e
    <3> QED BY <2>2, <3>1
  <2>4. (e + x) - (y + 1) + y = end - 1
    <3>1. end = e + x OBVIOUS
    <3> HIDE DEF e, x, y, end
    <3> QED BY <1>7, <3>1
  <2> QED BY <1>4, <2>1, <2>3, <2>4
<1>9. ASSUME NEW k \in 0 .. plan[i].d - 1
      PROVE  LET g == StartOf(Drafts(plan), i) + k
                 row == end - plan[i].d + k
             IN  /\ metadata.logits[metadata.target[g]] = row - 1
                 /\ metadata.drafts[g] = inputIds[row]
                 /\ metadata.drafts[g] = <<"draft", batch[i], k>>
  <2> DEFINE g == StartOf(Drafts(plan), i) + k
             row == (end - y) + k
  <2>1. k \in Nat /\ k < plan[i].d /\ k <= plan[i].d BY <1>7
  <2>2. metadata.target[g] = StartOf(SampledTokens(plan), i) + k
    BY <1>2, <1>3, <1>4, <2>1, TargetAt
  <2>3. LogitsIndices(plan)[StartOf(SampledTokens(plan), i) + k] = (e + x) - (y + 1) + k
    BY <1>2, <1>3, <2>1, LogitsAt
  <2>4. (e + x) - (y + 1) + k = row - 1 /\ (e + x) - y + k = row
    <3>1. end = e + x OBVIOUS
    <3> HIDE DEF e, x, y, end
    <3> QED BY <1>7, <2>1, <3>1
  <2>5. metadata.logits[metadata.target[g]] = row - 1 BY <1>4, <2>2, <2>3, <2>4
  <2>6. DraftTokenIds(plan, inputIds)[g] = inputIds[(e + x) - y + k]
    BY <1>2, <1>3, <2>1, DraftTokenAt
  <2>7. metadata.drafts[g] = inputIds[row] BY <1>4, <2>4, <2>6
  <2>8. x = 1 + y /\ prevRow[i] # None
    <3>1. plan[i].d > 0 BY <1>7, <2>1
    <3> QED BY <1>2, <3>1, DraftsHavePrevRow
  <2>9. row = e + (k + 1) /\ k + 1 \in Nat /\ k + 1 < x /\ (k + 1) - 1 = k /\ k + 1 # 0
    <3>1. end = e + x /\ k < y BY <2>1
    <3> HIDE DEF e, x, y, end
    <3> QED BY <1>7, <2>1, <2>8, <3>1
  <2>10. inputIds[e + (k + 1)] = OwnOf(batch, prevRow, i, k + 1) BY <1>2, <2>9 DEF StepInv
  <2>11. OwnOf(batch, prevRow, i, k + 1) = <<"draft", batch[i], k>> BY <2>8, <2>9 DEF OwnOf
  <2>12. inputIds[row] = <<"draft", batch[i], k>>
    <3> HIDE DEF e, row
    <3> QED BY <2>9, <2>10, <2>11
  <2>13. row = (end - plan[i].d) + k OBVIOUS
  <2> HIDE DEF row, end, g
  <2>14. /\ metadata.logits[metadata.target[g]] = row - 1
         /\ metadata.drafts[g] = inputIds[row]
         /\ metadata.drafts[g] = <<"draft", batch[i], k>>
    BY <2>5, <2>7, <2>12
  <2> QED BY <2>13, <2>14 DEF g
<1> HIDE DEF end
<1> QED BY <1>8, <1>9 DEF end

(* Every draft is judged by the logits of the row before it and compared    *)
(* with itself, and the bonus token is sampled after the last.              *)
THEOREM AlwaysDraftsJudgedInPlace == Spec => []DraftsJudgedInPlace
  BY AlwaysLayoutInv, LayoutJudgesInPlace, PTL

(* A row's own token is never a stale one.                                  *)
LEMMA OwnIsToken ==
  ASSUME NEW b, NEW p, NEW prev, NEW n, Laid(b, p, prev, n),
         NEW i \in 0 .. n - 1, NEW j \in Nat, j < p[i].n
  PROVE  OwnOf(b, prev, i, j) \in Tokens
<1>1. b[i] \in Reqs BY DEF Laid
<1>2. p[i].d \in Nat /\ p[i].d <= SpecTokens /\ p[i].n \in Nat BY LaidCounts
<1>3. CASE prev[i] = None
  <2>1. p[i].n \in 1 .. MaxChunk BY <1>3 DEF Laid
  <2> DEFINE x == p[i].n
  <2>2. x \in 1 .. MaxChunk /\ j < x BY <2>1
  <2> HIDE DEF x
  <2>3. j \in 0 .. MaxChunk BY <2>2, Sizes
  <2> QED BY <1>1, <1>3, <2>3 DEF OwnOf, Tokens
<1>4. CASE prev[i] # None /\ j = 0 BY <1>1, <1>4 DEF OwnOf, Tokens
<1>5. CASE prev[i] # None /\ j # 0
  <2>1. p[i].n = 1 + p[i].d BY <1>5 DEF Laid
  <2> DEFINE y == p[i].d
  <2>2. y \in Nat /\ y <= SpecTokens /\ j < 1 + y BY <1>2, <2>1
  <2> HIDE DEF y
  <2>3. j - 1 \in 0 .. SpecTokens - 1 BY <1>5, <2>2, Sizes
  <2> QED BY <1>1, <1>5, <2>3 DEF OwnOf, Tokens
<1> QED BY <1>3, <1>4, <1>5

(* The invariant gives the types of the tensors and the range of every      *)
(* index.                                                                   *)
LEMMA LayoutTyped == LayoutInv => TypeOK
<1> SUFFICES ASSUME LayoutInv, plan # << >>
             PROVE  /\ batch \in Batches /\ sampled \subseteq DOMAIN batch
                    /\ inputIds \in [FlatRows -> Tokens \cup {Stale}]
                    /\ tokenIndices \in [DOMAIN tokenIndices -> FlatRows]
                    /\ metadata # << >> =>
                         /\ metadata.logits \in [DOMAIN metadata.logits -> FlatRows]
                         /\ metadata.target \in [DOMAIN metadata.target -> DOMAIN metadata.logits]
                         /\ metadata.bonus \in [DOMAIN batch -> DOMAIN metadata.logits]
  BY DEF TypeOK
<1>1. PICK n \in Nat \ {0} : StepInv(n) /\ DOMAIN plan = 0 .. n - 1 BY PlanHasRows
<1>2. Laid(batch, plan, prevRow, n) BY <1>1 DEF StepInv
<1>3. DOMAIN batch = 0 .. n - 1 BY <1>2 DEF Laid
<1>4. batch \in Batches /\ sampled \subseteq DOMAIN batch
  <2>1. 0 \in DOMAIN batch /\ DOMAIN << >> = {} BY <1>1, <1>3
  <2>2. batch # << >> BY <2>1
  <2> QED BY <2>2 DEF LayoutInv
<1> DEFINE L == Scheduled(plan)
<1>5. L \in Counts(n) /\ \A i \in 0 .. n - 1 : L[i] = plan[i].n BY <1>2, LaidCounts
<1>6. ASSUME NEW g \in FlatRows PROVE inputIds[g] \in Tokens
  <2> DEFINE i == RowAt(L, g) j == OffsetAt(L, g)
  <2>1. g \in 0 .. Total(L) - 1 BY DEF FlatRows
  <2>2. i \in 0 .. n - 1 /\ j \in Nat /\ j < L[i] /\ g = StartOf(L, i) + j
    BY <1>1, <1>5, <2>1, RowExists
  <2> HIDE DEF i, j
  <2>3. j < plan[i].n BY <1>5, <2>2
  <2>4. inputIds[StartOf(L, i) + j] = OwnOf(batch, prevRow, i, j) BY <1>1, <2>2, <2>3 DEF StepInv
  <2>5. OwnOf(batch, prevRow, i, j) \in Tokens BY <1>2, <2>2, <2>3, OwnIsToken
  <2> QED BY <2>2, <2>4, <2>5
<1>7. inputIds \in [FlatRows -> Tokens \cup {Stale}]
  <2>1. inputIds = [g \in FlatRows |-> inputIds[g]] BY <1>1 DEF StepInv, FlatRows
  <2> QED BY <1>6, <2>1
<1>8. tokenIndices \in [DOMAIN tokenIndices -> FlatRows]
  <2>1. CASE accepted = << >>
    <3>1. tokenIndices = << >> BY <2>1 DEF LayoutInv
    <3> QED BY <3>1
  <2>2. CASE accepted # << >>
    <3>1. accepted \in Accepts(plan) /\ tokenIndices = TokenIndices(plan, accepted)
      BY <2>2 DEF LayoutInv
    <3>2. TokenIndices(plan, accepted) \in
            [DOMAIN TokenIndices(plan, accepted) -> 0 .. Total(Scheduled(plan)) - 1]
      BY <1>2, <3>1, TokenIndicesOf
    <3> QED BY <3>1, <3>2 DEF FlatRows
  <2> QED BY <2>1, <2>2
<1>9. ASSUME metadata # << >>
      PROVE  /\ metadata.logits \in [DOMAIN metadata.logits -> FlatRows]
             /\ metadata.target \in [DOMAIN metadata.target -> DOMAIN metadata.logits]
             /\ metadata.bonus \in [DOMAIN batch -> DOMAIN metadata.logits]
  <2>1. /\ metadata.logits = LogitsIndices(plan) /\ metadata.target = TargetLogitsIndices(plan)
        /\ metadata.bonus = BonusLogitsIndices(plan)
    <3>1. metadata = Metadata(plan, inputIds) BY <1>1 DEF StepInv
    <3> QED BY <1>9, <3>1 DEF Metadata
  <2>2. /\ LogitsIndices(plan) \in [0 .. Total(SampledTokens(plan)) - 1 -> FlatRows]
        /\ TargetLogitsIndices(plan) \in
             [0 .. Total(Drafts(plan)) - 1 -> 0 .. Total(SampledTokens(plan)) - 1]
        /\ BonusLogitsIndices(plan) \in [0 .. n - 1 -> 0 .. Total(SampledTokens(plan)) - 1]
    BY <1>2, LogitsTyped DEF FlatRows
  <2> QED BY <1>3, <2>1, <2>2
<1> QED BY <1>4, <1>7, <1>8, <1>9

(* Every index into a flat tensor is in range, and no row is stale.         *)
THEOREM SpecInputsTypeOK == Spec => []TypeOK
  BY AlwaysLayoutInv, LayoutTyped, PTL

(* The drafter leaves the runner's own steps alone.                         *)
THEOREM EagleRefinesInputs == EagleSpec => Spec
<1>1. EagleInit => Init BY DEF EagleInit
<1>2. [EagleNext]_eagleVars => [Next]_vars
  BY DEF EagleNext, eagleVars, Next, Propose, DraftStep, ReturnDrafts
<1> QED BY <1>1, <1>2, PTL DEF EagleSpec, Spec

-----------------------------------------------------------------------------
(* The drafter's first pass.                                                *)

ShiftOf(d) == IF d.passHidden THEN 1 ELSE 0

(* The rows of request i before the one that is sampled.                    *)
ValidRows(d, i) == Kept(i) - ShiftOf(d)

(* What the j-th row of request i holds.                                    *)
RowShape(d, start, row, i, j) ==
  /\ j < ValidRows(d, i) + ExtraSlots(d) => row.pos = start[i] + j /\ row.slot = <<batch[i], row.pos>>
  /\ row.slot = Padding \/ (row.pos = start[i] + j /\ row.slot = <<batch[i], row.pos>>)
  /\ j <= ValidRows(d, i) /\ d.passHidden => row.hidden = StartOf(Scheduled(plan), i) + j
  /\ j < ValidRows(d, i) => row.id = inputIds[StartOf(Scheduled(plan), i) + (j + ShiftOf(d))]
  /\ j = ValidRows(d, i) /\ (i \in sampled \/ ~d.padded) => row.id = TrueNext(i)

PassShape(d, start, rows, sample, lens, n) ==
  /\ lens \in Counts(n) /\ DOMAIN rows = 0 .. Total(lens) - 1
  /\ \A i \in 0 .. n - 1 :
       /\ ValidRows(d, i) + ExtraSlots(d) <= lens[i]
       /\ sample[i] = [k \in 0 .. ExtraSlots(d) - 1 |-> StartOf(lens, i) + (ValidRows(d, i) + k)]
       /\ \A j \in Nat : j < lens[i] => RowShape(d, start, rows[StartOf(lens, i) + j], i, j)

(* While a step is being verified.                                          *)
Judged(n) ==
  /\ LayoutInv /\ accepted # << >> /\ n \in Nat \ {0} /\ StepInv(n) /\ DOMAIN plan = 0 .. n - 1

(* What the rest of the argument uses of a step that is verified.           *)
LEMMA JudgedFacts ==
  ASSUME NEW n, Judged(n)
  PROVE  /\ Laid(batch, plan, prevRow, n) /\ accepted \in Accepts(plan)
         /\ tokenIndices = TokenIndices(plan, accepted)
         /\ \A i \in 0 .. n - 1 :
              /\ plan[i].n \in Nat \ {0} /\ plan[i].d \in Nat /\ accepted[i] \in Nat
              /\ accepted[i] <= plan[i].d
              /\ Rejected(plan, accepted)[i] = plan[i].d - accepted[i]
              /\ KeptCounts(plan, accepted)[i] = Kept(i)
              /\ Kept(i) \in Nat \ {0} /\ Kept(i) = plan[i].n - (plan[i].d - accepted[i])
              /\ Kept(i) <= plan[i].n /\ StartOf(Scheduled(plan), i) \in Nat
<1>1. Laid(batch, plan, prevRow, n) BY DEF Judged, StepInv
<1>2. accepted \in Accepts(plan) /\ tokenIndices = TokenIndices(plan, accepted)
  BY DEF Judged, LayoutInv
<1>3. \A i \in 0 .. n - 1 : plan[i].n \in Nat \ {0} /\ plan[i].d \in Nat BY <1>1, LaidCounts
<1>4. \A i \in 0 .. n - 1 :
              /\ accepted[i] <= plan[i].d /\ accepted[i] \in Nat
              /\ Rejected(plan, accepted)[i] = plan[i].d - accepted[i]
              /\ KeptCounts(plan, accepted)[i] = plan[i].n - (plan[i].d - accepted[i])
              /\ KeptCounts(plan, accepted)[i] \in Nat \ {0}
              /\ KeptCounts(plan, accepted)[i] <= plan[i].n
  BY <1>1, <1>2, KeptFacts
<1>5. \A i \in 0 .. n - 1 : StartOf(Scheduled(plan), i) \in Nat
  <2>1. Scheduled(plan) \in Counts(n) BY <1>1, LaidCounts
  <2> QED BY <2>1, Layout DEF Judged
<1>6. \A i \in 0 .. n - 1 : Kept(i) = plan[i].n - (plan[i].d - accepted[i]) BY DEF Kept
<1> QED BY <1>1, <1>2, <1>3, <1>4, <1>5, <1>6

(* Without metadata there are no drafts to reject.                          *)
LEMMA MetadataWhenDrafts ==
  ASSUME NEW n, Judged(n), metadata = << >>
  PROVE  \A i \in 0 .. n - 1 : plan[i].d = 0
<1>1. metadata = Metadata(plan, inputIds) BY DEF Judged, StepInv
<1> SUFFICES ASSUME ~ \A i \in DOMAIN plan : plan[i].d = 0 PROVE FALSE
  BY DEF Judged
<1>2. metadata = [logits |-> LogitsIndices(plan), target |-> TargetLogitsIndices(plan),
                  bonus |-> BonusLogitsIndices(plan), drafts |-> DraftTokenIds(plan, inputIds)]
  BY <1>1 DEF Metadata
<1>3. "logits" \in DOMAIN metadata /\ DOMAIN << >> = {} BY <1>2
<1> QED BY <1>3

(* Padded or cut, a drafter batch keeps the rows up to the last accepted    *)
(* draft, and the target's row behind each of them.                         *)
LEMMA PassFacts ==
  ASSUME NEW n, Judged(n), NEW d
  PROVE  /\ PassLens(d) \in Counts(n) /\ DOMAIN PassLens(d) = 0 .. n - 1
         /\ DOMAIN TargetRows(d) = 0 .. Total(PassLens(d)) - 1
         /\ \A i \in 0 .. n - 1 :
              /\ PassLens(d)[i] \in Nat /\ RejectedOnGpu(d)[i] \in Nat
              /\ PassLens(d)[i] - RejectedOnGpu(d)[i] = Kept(i)
              /\ d.padded => plan[i].n - RejectedOnGpu(d)[i] = Kept(i)
              /\ Kept(i) <= PassLens(d)[i]
              /\ \A j \in Nat : j < PassLens(d)[i] =>
                   TargetRows(d)[StartOf(PassLens(d), i) + j] = StartOf(Scheduled(plan), i) + j
<1>1. Laid(batch, plan, prevRow, n) /\ n \in Nat \ {0} /\ DOMAIN plan = 0 .. n - 1
  BY JudgedFacts DEF Judged
<1>2. Scheduled(plan) \in Counts(n) /\ \A i \in 0 .. n - 1 : Scheduled(plan)[i] = plan[i].n
  BY <1>1, LaidCounts
<1>3. ASSUME PassLens(d) = Scheduled(plan),
             TargetRows(d) = [g \in 0 .. Total(Scheduled(plan)) - 1 |-> g],
             \A i \in 0 .. n - 1 : RejectedOnGpu(d)[i] = plan[i].d - accepted[i]
      PROVE  /\ PassLens(d) \in Counts(n) /\ DOMAIN PassLens(d) = 0 .. n - 1
             /\ DOMAIN TargetRows(d) = 0 .. Total(PassLens(d)) - 1
             /\ \A i \in 0 .. n - 1 :
                  /\ PassLens(d)[i] \in Nat /\ RejectedOnGpu(d)[i] \in Nat
                  /\ PassLens(d)[i] - RejectedOnGpu(d)[i] = Kept(i)
                  /\ plan[i].n - RejectedOnGpu(d)[i] = Kept(i)
                  /\ Kept(i) <= PassLens(d)[i]
                  /\ \A j \in Nat : j < PassLens(d)[i] =>
                       TargetRows(d)[StartOf(PassLens(d), i) + j] = StartOf(Scheduled(plan), i) + j
  <2>1. PassLens(d) \in Counts(n) /\ DOMAIN PassLens(d) = 0 .. n - 1
    BY <1>1, <1>2, <1>3 DEF Counts
  <2>2. DOMAIN TargetRows(d) = 0 .. Total(PassLens(d)) - 1 BY <1>3
  <2>3. ASSUME NEW i \in 0 .. n - 1
        PROVE  /\ PassLens(d)[i] \in Nat /\ RejectedOnGpu(d)[i] \in Nat
               /\ PassLens(d)[i] - RejectedOnGpu(d)[i] = Kept(i)
               /\ plan[i].n - RejectedOnGpu(d)[i] = Kept(i)
               /\ Kept(i) <= PassLens(d)[i]
    <3> DEFINE x == plan[i].n y == plan[i].d a == accepted[i]
    <3>1. /\ x \in Nat /\ y \in Nat /\ a \in Nat /\ a <= y
          /\ Kept(i) = x - (y - a) /\ Kept(i) <= x
      BY JudgedFacts
    <3>2. PassLens(d)[i] = x /\ RejectedOnGpu(d)[i] = y - a /\ plan[i].n = x BY <1>2, <1>3
    <3> HIDE DEF x, y, a
    <3> QED BY <3>1, <3>2
  <2>4. ASSUME NEW i \in 0 .. n - 1, NEW j \in Nat, j < PassLens(d)[i]
        PROVE  TargetRows(d)[StartOf(PassLens(d), i) + j] = StartOf(Scheduled(plan), i) + j
    <3>1. StartOf(Scheduled(plan), i) + j \in 0 .. Total(Scheduled(plan)) - 1
      BY <1>1, <1>2, <1>3, <2>4, RowOf
    <3> QED BY <1>3, <3>1
  <2> QED BY <2>1, <2>2, <2>3, <2>4
<1>4. CASE d.padded /\ metadata # << >>
  <2>1. PassLens(d) = Scheduled(plan) BY <1>4 DEF PassLens
  <2>2. TargetRows(d) = [g \in 0 .. Total(Scheduled(plan)) - 1 |-> g] BY <1>4 DEF TargetRows
  <2>3. \A i \in 0 .. n - 1 : RejectedOnGpu(d)[i] = plan[i].d - accepted[i]
    BY <1>4, JudgedFacts DEF RejectedOnGpu
  <2> QED BY <1>3, <2>1, <2>2, <2>3
<1>5. CASE metadata = << >>
  <2>1. PassLens(d) = Scheduled(plan) BY <1>5 DEF PassLens
  <2>2. TargetRows(d) = [g \in 0 .. Total(Scheduled(plan)) - 1 |-> g] BY <1>5 DEF TargetRows
  <2>3. ASSUME NEW i \in 0 .. n - 1 PROVE RejectedOnGpu(d)[i] = plan[i].d - accepted[i]
    <3>1. plan[i].d = 0 BY <1>5, MetadataWhenDrafts
    <3>2. RejectedOnGpu(d)[i] = 0 BY <1>1, <1>5 DEF RejectedOnGpu
    <3>3. accepted[i] \in Nat /\ accepted[i] <= plan[i].d BY JudgedFacts
    <3> QED BY <3>1, <3>2, <3>3
  <2> QED BY <1>3, <2>1, <2>2, <2>3
<1>6. CASE ~d.padded /\ metadata # << >>
  <2> DEFINE kept == KeptCounts(plan, accepted)
  <2>1. PassLens(d) = kept BY <1>6 DEF PassLens, KeptCounts
  <2>2. TargetRows(d) = TokenIndices(plan, accepted) BY <1>6, JudgedFacts DEF TargetRows
  <2>3. \A i \in 0 .. n - 1 : RejectedOnGpu(d)[i] = 0 BY <1>1, <1>6 DEF RejectedOnGpu
  <2>4. accepted \in Accepts(plan) BY JudgedFacts
  <2>5. kept \in Counts(n) BY <1>1, <2>4, KeptFacts
  <2>6. /\ DOMAIN TokenIndices(plan, accepted) = 0 .. Total(kept) - 1
        /\ \A i \in 0 .. n - 1 : \A k \in Nat : k < kept[i] =>
             TokenIndices(plan, accepted)[StartOf(kept, i) + k] = StartOf(Scheduled(plan), i) + k
    BY <1>1, <2>4, TokenIndicesOf
  <2>7. \A i \in 0 .. n - 1 : kept[i] = Kept(i) /\ Kept(i) \in Nat BY JudgedFacts
  <2> HIDE DEF kept
  <2>8. DOMAIN kept = 0 .. n - 1 BY <2>5 DEF Counts
  <2>9. \A i \in 0 .. n - 1 : kept[i] - 0 = Kept(i) /\ Kept(i) <= kept[i] BY <2>7
  <2> QED BY <1>6, <2>1, <2>2, <2>3, <2>5, <2>6, <2>7, <2>8, <2>9
<1> QED BY <1>3, <1>4, <1>5, <1>6

(* The kinds of drafter: extra rows only in a padded batch, and a drafter   *)
(* without them is a head that samples once.                                *)
LEMMA DrafterFacts ==
  ASSUME NEW d \in Drafters
  PROVE  /\ d.passHidden \in BOOLEAN /\ d.parallel \in BOOLEAN /\ d.padded \in BOOLEAN
         /\ ShiftOf(d) \in {0, 1} /\ ExtraSlots(d) \in Nat \ {0}
         /\ ExtraSlots(d) = IF d.parallel THEN SpecTokens ELSE 1
         /\ NetNewSlots(d) = ExtraSlots(d) - ShiftOf(d) /\ NetNewSlots(d) \in Nat
         /\ NeedsExtraSlots(d) => d.padded
         /\ ~NeedsExtraSlots(d) => d.passHidden /\ ExtraSlots(d) = 1 /\ NetNewSlots(d) = 0
<1>1. d.passHidden \in BOOLEAN /\ d.parallel \in BOOLEAN /\ d.padded \in BOOLEAN BY DEF Drafters
<1>2. ShiftOf(d) \in {0, 1} BY DEF ShiftOf
<1>3. ExtraSlots(d) \in Nat \ {0} BY Sizes DEF ExtraSlots
<1>4. NetNewSlots(d) = ExtraSlots(d) - ShiftOf(d) BY DEF NetNewSlots, ShiftOf
<1>5. NetNewSlots(d) \in Nat BY <1>2, <1>3, <1>4
<1>6. ~NeedsExtraSlots(d) => ShiftOf(d) = 1 /\ ExtraSlots(d) = 1 /\ NetNewSlots(d) = 0
  BY <1>2, <1>3, <1>4, <1>5 DEF NeedsExtraSlots
<1>7. ShiftOf(d) = 1 => d.passHidden BY DEF ShiftOf
<1>8. NeedsExtraSlots(d) => d.padded BY DEF Drafters
<1> QED BY <1>1, <1>2, <1>3, <1>4, <1>5, <1>6, <1>7, <1>8 DEF ExtraSlots

(* The row that is sampled is among the request's rows.                     *)
LEMMA ValidRowsFacts ==
  ASSUME NEW n, Judged(n), NEW d \in Drafters, NEW i \in 0 .. n - 1
  PROVE  /\ ValidRows(d, i) \in Nat /\ Kept(i) = ValidRows(d, i) + ShiftOf(d)
         /\ ValidRows(d, i) + ShiftOf(d) <= plan[i].n
<1>1. Kept(i) \in Nat \ {0} /\ plan[i].n \in Nat /\ Kept(i) <= plan[i].n BY JudgedFacts
<1>2. ShiftOf(d) \in {0, 1} BY DrafterFacts
<1> QED BY <1>1, <1>2 DEF ValidRows

(* set_inputs_first_pass of a head on the target.                           *)
LEMMA ShiftedShape ==
  ASSUME NEW n, Judged(n), NEW d \in Drafters, ~NeedsExtraSlots(d),
         NEW start \in [0 .. n - 1 -> Nat], NEW left
  PROVE  PassShape(d, start, ShiftedPass(d, start, NextTokens(d, left)).rows,
                   ShiftedPass(d, start, NextTokens(d, left)).sample, PassLens(d), n)
<1> DEFINE lens == PassLens(d)
           target == TargetRows(d)
           next == NextTokens(d, left)
           pass == ShiftedPass(d, start, next)
           last == [i \in DOMAIN lens |-> LastValidRow(d, i)]
           Row(g) ==
             LET i == RowAt(lens, g)
                 p == start[i] + OffsetAt(lens, g)
             IN  [id   |-> IF g = last[i] THEN next[i]
                           ELSE IF g + 1 \in DOMAIN target THEN inputIds[target[g + 1]] ELSE Stale,
                  pos  |-> p, hidden |-> target[g], slot |-> <<batch[i], p>>]
<1>1. /\ pass.rows = [g \in DOMAIN target |-> Row(g)]
      /\ pass.sample = [i \in DOMAIN lens |-> [k \in {0} |-> last[i]]]
  BY DEF ShiftedPass
<1>2. n \in Nat \ {0} /\ DOMAIN plan = 0 .. n - 1 BY DEF Judged
<1>3. /\ lens \in Counts(n) /\ DOMAIN lens = 0 .. n - 1 /\ DOMAIN target = 0 .. Total(lens) - 1
  BY PassFacts
<1>4. d.passHidden /\ ExtraSlots(d) = 1 /\ ShiftOf(d) = 1 BY DrafterFacts DEF ShiftOf
<1>5. DOMAIN pass.rows = 0 .. Total(lens) - 1 BY <1>1, <1>3
<1>6. ASSUME NEW i \in 0 .. n - 1
      PROVE  /\ last[i] = StartOf(lens, i) + ValidRows(d, i)
             /\ ValidRows(d, i) \in Nat /\ ValidRows(d, i) + 1 <= lens[i]
             /\ StartOf(lens, i) \in Nat /\ lens[i] \in Nat
  <2>1. last[i] = Cumsum(lens)[i] - 1 - RejectedOnGpu(d)[i] BY <1>3 DEF LastValidRow
  <2>2. Cumsum(lens)[i] = StartOf(lens, i) + lens[i] /\ StartOf(lens, i) \in Nat
    <3> HIDE DEF lens
    <3> QED BY <1>2, <1>3, Layout
  <2>3. /\ lens[i] \in Nat /\ RejectedOnGpu(d)[i] \in Nat /\ lens[i] - RejectedOnGpu(d)[i] = Kept(i)
        /\ Kept(i) <= lens[i]
    BY PassFacts
  <2>4. ValidRows(d, i) \in Nat /\ Kept(i) = ValidRows(d, i) + 1 BY <1>4, ValidRowsFacts
  <2> DEFINE l == lens[i] r == RejectedOnGpu(d)[i] s == StartOf(lens, i) c == Cumsum(lens)[i]
             v == ValidRows(d, i)
  <2>5. /\ last[i] = c - 1 - r /\ c = s + l /\ s \in Nat /\ l \in Nat /\ r \in Nat /\ l - r = Kept(i)
        /\ v \in Nat /\ Kept(i) = v + 1 /\ Kept(i) <= l
    BY <2>1, <2>2, <2>3, <2>4
  <2> HIDE DEF last, l, r, s, c, v
  <2>6. last[i] = s + v /\ v + 1 <= l BY <2>5
  <2> QED BY <2>5, <2>6 DEF l, s, v
<1>7. ASSUME NEW i \in 0 .. n - 1
      PROVE  pass.sample[i] = [k \in 0 .. ExtraSlots(d) - 1 |-> StartOf(lens, i) + (ValidRows(d, i) + k)]
  <2>1. pass.sample[i] = [k \in {0} |-> last[i]] BY <1>1, <1>3
  <2> HIDE DEF pass, last, lens
  <2>2. 0 .. ExtraSlots(d) - 1 = {0} BY <1>4
  <2>3. \A k \in {0} : StartOf(lens, i) + (ValidRows(d, i) + k) = last[i] BY <1>6
  <2> QED BY <2>1, <2>2, <2>3
<1>8. ASSUME NEW i \in 0 .. n - 1, NEW j \in Nat, j < lens[i]
      PROVE  RowShape(d, start, pass.rows[StartOf(lens, i) + j], i, j)
  <2> DEFINE g == StartOf(lens, i) + j row == pass.rows[g]
  <2>1. RowAt(lens, g) = i /\ OffsetAt(lens, g) = j /\ g \in 0 .. Total(lens) - 1
    <3> HIDE DEF lens
    <3> QED BY <1>2, <1>3, <1>8, RowOf
  <2>2. target[g] = StartOf(Scheduled(plan), i) + j BY <1>8, PassFacts
  <2> DEFINE p == start[i] + j
  <2>3. row = Row(g) BY <1>1, <1>3, <2>1
  <2>4. row.pos = p /\ row.slot = <<batch[i], p>> /\ row.hidden = target[g]
        /\ row.id = IF g = last[i] THEN next[i]
                    ELSE IF g + 1 \in DOMAIN target THEN inputIds[target[g + 1]] ELSE Stale
    <3> HIDE DEF row, pass, g, last, next, target, lens
    <3> QED BY <2>1, <2>3
  <2>5. ASSUME j < ValidRows(d, i)
        PROVE  row.id = inputIds[StartOf(Scheduled(plan), i) + (j + ShiftOf(d))]
    <3>1. j + 1 \in Nat /\ j + 1 < lens[i] /\ g # last[i] /\ g + 1 = StartOf(lens, i) + (j + 1)
      <4> HIDE DEF lens, last
      <4> QED BY <1>6, <2>5
    <3>2. target[StartOf(lens, i) + (j + 1)] = StartOf(Scheduled(plan), i) + (j + 1)
      BY <3>1, PassFacts
    <3>3. StartOf(lens, i) + (j + 1) \in 0 .. Total(lens) - 1
      <4> HIDE DEF lens
      <4> QED BY <1>2, <1>3, <3>1, RowOf
    <3>4. g + 1 \in DOMAIN target BY <1>3, <3>1, <3>3
    <3> HIDE DEF row, g, last, target, lens
    <3> QED BY <1>4, <2>4, <3>1, <3>2, <3>4
  <2>6. ASSUME j = ValidRows(d, i), i \in sampled \/ ~d.padded PROVE row.id = TrueNext(i)
    <3>1. g = last[i]
      <4> HIDE DEF lens, last
      <4> QED BY <1>6, <2>6
    <3>2. next[i] = TrueNext(i) BY <1>2, <2>6 DEF NextTokens, TrueNext
    <3> HIDE DEF row, g, last, next, target
    <3> QED BY <2>4, <3>1, <3>2
  <2> HIDE DEF row, pass, g, last, next, target, lens
  <2>7. RowShape(d, start, row, i, j) BY <2>2, <2>4, <2>5, <2>6 DEF RowShape
  <2> QED BY <2>7 DEF row, g
<1> HIDE DEF pass, last, next, target
<1>9. \A i \in 0 .. n - 1 : ValidRows(d, i) + ExtraSlots(d) <= lens[i] BY <1>4, <1>6
<1>10. PassShape(d, start, pass.rows, pass.sample, lens, n)
  <2> HIDE DEF lens
  <2> QED BY <1>3, <1>5, <1>7, <1>8, <1>9 DEF PassShape
<1> QED BY <1>10 DEF pass, next

(* A position that InputFits lets through, drafts included.                 *)
LEMMA FitsBelow ==
  ASSUME NEW n, Judged(n), NEW start \in [0 .. n - 1 -> Nat], InputFits(start, plan),
         NEW i \in 0 .. n - 1, NEW k \in Nat, k < plan[i].n + SpecTokens
  PROVE  start[i] + k \in Nat /\ ~(start[i] + k >= MaxModelLen)
<1>1. start[i] + plan[i].n + SpecTokens <= MaxModelLen BY DEF InputFits, Judged
<1>2. start[i] \in Nat /\ plan[i].n \in Nat BY JudgedFacts
<1>3. MaxModelLen \in Nat /\ SpecTokens \in Nat BY EagleDraftAssumption, Sizes
<1> DEFINE s == start[i] x == plan[i].n
<1>4. s \in Nat /\ x \in Nat /\ s + x + SpecTokens <= MaxModelLen /\ k < x + SpecTokens
  BY <1>1, <1>2
<1> HIDE DEF s, x
<1>5. s + k \in Nat /\ ~(s + k >= MaxModelLen) BY <1>3, <1>4
<1> QED BY <1>5 DEF s

(* copy_and_expand_eagle_inputs_kernel.                                     *)
LEMMA ExpandedShape ==
  ASSUME NEW n, Judged(n), NEW d \in Drafters, NeedsExtraSlots(d),
         NEW start \in [0 .. n - 1 -> Nat], InputFits(start, plan), NEW left
  PROVE  PassShape(d, start, ExpandedPass(d, start, NextTokens(d, left)).rows,
                   ExpandedPass(d, start, NextTokens(d, left)).sample, ExpandedLens(d), n)
<1> DEFINE lens == ExpandedLens(d)
           next == NextTokens(d, left)
           pass == ExpandedPass(d, start, next)
           shift == IF d.passHidden THEN 1 ELSE 0
           valid == [i \in DOMAIN plan |-> plan[i].n - RejectedOnGpu(d)[i] - shift]
           Row(g) ==
             LET i == RowAt(lens, g)
                 j == OffsetAt(lens, g)
                 isRejected == j >= valid[i] + ExtraSlots(d)
                 p == IF isRejected THEN 0 ELSE start[i] + j
             IN  [id   |-> IF j < valid[i] THEN inputIds[StartOf(Scheduled(plan), i) + shift + j]
                           ELSE IF j = valid[i] THEN next[i]
                           ELSE IF isRejected THEN Stale ELSE MaskToken,
                  pos  |-> p,
                  hidden |-> IF j > valid[i] /\ ~isRejected THEN MaskToken
                             ELSE IF j < plan[i].n THEN StartOf(Scheduled(plan), i) + j ELSE Stale,
                  slot |-> NewSlot(i, p, isRejected)]
<1>1. /\ pass.rows = [g \in 0 .. Total(lens) - 1 |-> Row(g)]
      /\ pass.sample = [i \in DOMAIN plan |->
                          [k \in 0 .. ExtraSlots(d) - 1 |-> StartOf(lens, i) + valid[i] + k]]
  BY DEF ExpandedPass
<1>2. n \in Nat \ {0} /\ DOMAIN plan = 0 .. n - 1 BY DEF Judged
<1>3. /\ ExtraSlots(d) \in Nat \ {0} /\ NetNewSlots(d) \in Nat /\ d.padded
      /\ NetNewSlots(d) = ExtraSlots(d) - ShiftOf(d) /\ ShiftOf(d) \in {0, 1}
  BY DrafterFacts
<1>4. shift = ShiftOf(d) BY DEF ShiftOf
<1>5. lens \in Counts(n) /\ \A i \in 0 .. n - 1 : lens[i] = plan[i].n + NetNewSlots(d)
  <2>1. \A i \in 0 .. n - 1 : plan[i].n \in Nat BY JudgedFacts
  <2> QED BY <1>2, <1>3, <2>1 DEF ExpandedLens, Counts
<1> HIDE DEF shift
<1>6. DOMAIN pass.rows = 0 .. Total(lens) - 1 BY <1>1
<1>7. ASSUME NEW i \in 0 .. n - 1
      PROVE  /\ valid[i] = ValidRows(d, i) /\ ValidRows(d, i) \in Nat
             /\ ValidRows(d, i) + ExtraSlots(d) <= lens[i] /\ StartOf(lens, i) \in Nat
             /\ lens[i] \in Nat /\ plan[i].n \in Nat /\ StartOf(Scheduled(plan), i) \in Nat
             /\ ValidRows(d, i) + ShiftOf(d) <= plan[i].n
  <2>1. valid[i] = plan[i].n - RejectedOnGpu(d)[i] - shift BY <1>2
  <2>2. plan[i].n - RejectedOnGpu(d)[i] = Kept(i) BY <1>3, PassFacts
  <2>3. ValidRows(d, i) \in Nat /\ ValidRows(d, i) + ShiftOf(d) <= plan[i].n BY ValidRowsFacts
  <2>4. plan[i].n \in Nat /\ StartOf(Scheduled(plan), i) \in Nat BY JudgedFacts
  <2>5. StartOf(lens, i) \in Nat /\ lens[i] \in Nat
    <3> HIDE DEF lens
    <3> QED BY <1>2, <1>5, Layout
  <2>6. valid[i] = ValidRows(d, i)
    <3> HIDE DEF valid
    <3> QED BY <1>4, <2>1, <2>2 DEF ValidRows
  <2>7. lens[i] = plan[i].n + NetNewSlots(d) BY <1>5
  <2> DEFINE x == plan[i].n v == ValidRows(d, i) e == ExtraSlots(d) s == ShiftOf(d) l == lens[i]
  <2>8. /\ x \in Nat /\ v \in Nat /\ e \in Nat /\ s \in {0, 1} /\ l = x + (e - s) /\ v + s <= x
    BY <1>3, <2>3, <2>4, <2>7
  <2> HIDE DEF x, v, e, s, l
  <2>9. v + e <= l BY <2>8
  <2> QED BY <2>3, <2>4, <2>5, <2>6, <2>9 DEF v, e, l
<1>8. ASSUME NEW i \in 0 .. n - 1
      PROVE  pass.sample[i] = [k \in 0 .. ExtraSlots(d) - 1 |-> StartOf(lens, i) + (ValidRows(d, i) + k)]
  <2>1. pass.sample[i] = [k \in 0 .. ExtraSlots(d) - 1 |-> StartOf(lens, i) + valid[i] + k]
    BY <1>1, <1>2
  <2> HIDE DEF pass, valid, lens
  <2>2. \A k \in 0 .. ExtraSlots(d) - 1 :
          StartOf(lens, i) + valid[i] + k = StartOf(lens, i) + (ValidRows(d, i) + k)
    <3> DEFINE s == StartOf(lens, i) v == ValidRows(d, i)
    <3>1. s \in Nat /\ v \in Nat /\ valid[i] = v BY <1>7
    <3> HIDE DEF s, v
    <3>2. \A k \in 0 .. ExtraSlots(d) - 1 : s + v + k = s + (v + k) BY <1>3, <3>1
    <3> QED BY <3>1, <3>2 DEF s, v
  <2> QED BY <2>1, <2>2
<1>9. ASSUME NEW i \in 0 .. n - 1, NEW j \in Nat, j < lens[i]
      PROVE  RowShape(d, start, pass.rows[StartOf(lens, i) + j], i, j)
  <2> DEFINE g == StartOf(lens, i) + j row == pass.rows[g]
             isRejected == j >= valid[i] + ExtraSlots(d)
             p == IF isRejected THEN 0 ELSE start[i] + j
  <2>1. RowAt(lens, g) = i /\ OffsetAt(lens, g) = j /\ g \in 0 .. Total(lens) - 1
    <3> HIDE DEF lens
    <3> QED BY <1>2, <1>5, <1>9, RowOf
  <2>2. row = Row(g) BY <1>1, <2>1
  <2>3. /\ row.pos = p /\ row.slot = NewSlot(i, p, isRejected)
        /\ row.hidden = IF j > valid[i] /\ ~isRejected THEN MaskToken
                        ELSE IF j < plan[i].n THEN StartOf(Scheduled(plan), i) + j ELSE Stale
        /\ row.id = IF j < valid[i] THEN inputIds[StartOf(Scheduled(plan), i) + shift + j]
                    ELSE IF j = valid[i] THEN next[i]
                    ELSE IF isRejected THEN Stale ELSE MaskToken
    <3> HIDE DEF row, pass, g, next, lens, valid
    <3> QED BY <2>1, <2>2
  <2>4. isRejected <=> ~(j < ValidRows(d, i) + ExtraSlots(d))
    <3>1. valid[i] = ValidRows(d, i) /\ ValidRows(d, i) \in Nat BY <1>7
    <3> HIDE DEF valid
    <3> QED BY <1>3, <3>1
  <2> HIDE DEF isRejected
  <2>5. ~isRejected => p = start[i] + j /\ row.slot = <<batch[i], p>>
    <3> SUFFICES ASSUME ~isRejected PROVE p = start[i] + j /\ row.slot = <<batch[i], p>>
      OBVIOUS
    <3>1. p = start[i] + j OBVIOUS
    <3>2. j < plan[i].n + SpecTokens
      <4>1. j < ValidRows(d, i) + ExtraSlots(d) BY <2>4
      <4>2. ExtraSlots(d) <= SpecTokens BY Sizes DEF ExtraSlots
      <4>3. /\ ValidRows(d, i) \in Nat /\ plan[i].n \in Nat
            /\ ValidRows(d, i) + ShiftOf(d) <= plan[i].n
        BY <1>7
      <4> QED BY <1>3, <4>1, <4>2, <4>3, Sizes
    <3>3. ~(p >= MaxModelLen) BY <3>1, <3>2, FitsBelow
    <3> HIDE DEF p, row
    <3> QED BY <2>3, <3>1, <3>3 DEF NewSlot, SlotOf
  <2>6. isRejected => row.slot = Padding
    <3> HIDE DEF p, row
    <3> QED BY <2>3 DEF NewSlot, SlotOf
  <2>7. ASSUME j <= ValidRows(d, i), d.passHidden
        PROVE  row.hidden = StartOf(Scheduled(plan), i) + j
    <3>1. ShiftOf(d) = 1 BY <2>7 DEF ShiftOf
    <3>2. /\ ValidRows(d, i) + ShiftOf(d) <= plan[i].n /\ ValidRows(d, i) \in Nat
          /\ plan[i].n \in Nat /\ valid[i] = ValidRows(d, i)
      BY <1>7
    <3> HIDE DEF valid, row
    <3>3. j < plan[i].n /\ ~(j > valid[i]) BY <2>7, <3>1, <3>2
    <3> QED BY <2>3, <3>3
  <2>8. ASSUME j < ValidRows(d, i)
        PROVE  row.id = inputIds[StartOf(Scheduled(plan), i) + (j + ShiftOf(d))]
    <3>1. valid[i] = ValidRows(d, i) /\ StartOf(Scheduled(plan), i) \in Nat BY <1>7
    <3> HIDE DEF valid, row
    <3>2. StartOf(Scheduled(plan), i) + shift + j = StartOf(Scheduled(plan), i) + (j + ShiftOf(d))
      BY <1>3, <1>4, <3>1
    <3> QED BY <2>3, <2>8, <3>1, <3>2
  <2>9. ASSUME j = ValidRows(d, i), i \in sampled \/ ~d.padded PROVE row.id = TrueNext(i)
    <3>1. valid[i] = ValidRows(d, i) /\ ValidRows(d, i) \in Nat BY <1>7
    <3>2. next[i] = TrueNext(i) BY <1>2, <2>9 DEF NextTokens, TrueNext
    <3> HIDE DEF valid, row, next
    <3>3. j = valid[i] /\ ~(j < valid[i]) BY <2>9, <3>1
    <3> QED BY <2>3, <3>2, <3>3
  <2>10. row.pos = p BY <2>3
  <2> HIDE DEF row, p, g, pass, next, lens, valid
  <2>11. RowShape(d, start, row, i, j) BY <2>4, <2>5, <2>6, <2>7, <2>8, <2>9, <2>10 DEF RowShape
  <2> QED BY <2>11 DEF row, g
<1> HIDE DEF pass, next, valid
<1>10. PassShape(d, start, pass.rows, pass.sample, lens, n)
  <2>1. \A i \in 0 .. n - 1 : ValidRows(d, i) + ExtraSlots(d) <= lens[i] BY <1>7
  <2> HIDE DEF lens
  <2> QED BY <1>5, <1>6, <1>8, <1>9, <2>1 DEF PassShape
<1> QED BY <1>10 DEF pass, next

(* Either way, the rows are in place.                                       *)
LEMMA FirstPassShape ==
  ASSUME NEW n, Judged(n), NEW d \in Drafters, NEW start \in [0 .. n - 1 -> Nat],
         InputFits(start, plan), NEW left
  PROVE  \E lens : PassShape(d, start, FirstPass(d, start, NextTokens(d, left)).rows,
                             FirstPass(d, start, NextTokens(d, left)).sample, lens, n)
<1>1. CASE NeedsExtraSlots(d) BY <1>1, ExpandedShape DEF FirstPass
<1>2. CASE ~NeedsExtraSlots(d) BY <1>2, ShiftedShape DEF FirstPass
<1> QED BY <1>1, <1>2

-----------------------------------------------------------------------------
(* The invariant of propose(): the first pass is in place, and each further *)
(* draft of a drafter that is not parallel is one position on.              *)

Drawn(n, d, start, rows, sample, lens, step, pos, seq, slot) ==
  /\ Judged(n) /\ d \in Drafters /\ start \in [0 .. n - 1 -> Nat] /\ InputFits(start, plan)
  /\ draft = [step |-> step, skipped |-> FALSE, drafter |-> d, start |-> start,
              rows |-> rows, sample |-> sample, pos |-> pos, seq |-> seq, slot |-> slot]
  /\ PassShape(d, start, rows, sample, lens, n)
  /\ step \in 1 .. SpecTokens /\ (d.parallel => step = SpecTokens)
  /\ ~d.parallel =>
       \A i \in 0 .. n - 1 : /\ pos[i] = start[i] + (ValidRows(d, i) + (step - 1))
                             /\ seq[i] = pos[i] + 1 /\ slot[i] = <<batch[i], pos[i]>>

DraftInv ==
  draft # None =>
    /\ accepted # << >>
    /\ \/ draft = [step |-> SpecTokens, skipped |-> TRUE]
       \/ \E n, d, start, rows, sample, lens, step, pos, seq, slot :
            Drawn(n, d, start, rows, sample, lens, step, pos, seq, slot)

(* A step that leaves the runner's state alone leaves the pass in place.    *)
LEMMA ShapeKept ==
  ASSUME NEW n, Judged(n), UNCHANGED vars
  PROVE  /\ Judged(n)' /\ batch' = batch /\ plan' = plan
         /\ \A d, i : ValidRows(d, i)' = ValidRows(d, i)
         /\ \A d, start, rows, sample, lens :
              PassShape(d, start, rows, sample, lens, n) => PassShape(d, start, rows, sample, lens, n)'
<1>1. /\ UNCHANGED <<batch, sampled, plan, prevRow, inputIds, metadata, accepted, tokenIndices>>
  BY DEF vars
<1>2. Judged(n)'
  <2>1. LayoutInv'
    <3>1. LayoutInv BY DEF Judged
    <3> QED BY <3>1, LayoutInductive
  <2>2. StepInv(n)' BY <1>1, StepInvKept DEF Judged
  <2> QED BY <1>1, <2>1, <2>2 DEF Judged
<1>3. \A d, i : ValidRows(d, i)' = ValidRows(d, i) BY <1>1 DEF ValidRows, Kept
<1>4. \A d, start, row, i, j : RowShape(d, start, row, i, j) => RowShape(d, start, row, i, j)'
  BY <1>1, <1>3 DEF RowShape, TrueNext
<1>5. ASSUME NEW d, NEW start, NEW rows, NEW sample, NEW lens,
             PassShape(d, start, rows, sample, lens, n)
      PROVE  PassShape(d, start, rows, sample, lens, n)'
  <2>1. ASSUME NEW i \in 0 .. n - 1, NEW j \in Nat, j < lens[i]
        PROVE  RowShape(d, start, rows[StartOf(lens, i) + j], i, j)'
    <3>1. RowShape(d, start, rows[StartOf(lens, i) + j], i, j) BY <1>5, <2>1 DEF PassShape
    <3> QED BY <1>4, <3>1
  <2>2. \A i \in 0 .. n - 1 :
          /\ ValidRows(d, i)' + ExtraSlots(d) <= lens[i]
          /\ sample[i] = [k \in 0 .. ExtraSlots(d) - 1 |-> StartOf(lens, i) + (ValidRows(d, i)' + k)]
    BY <1>3, <1>5 DEF PassShape
  <2>3. lens \in Counts(n) /\ DOMAIN rows = 0 .. Total(lens) - 1 BY <1>5 DEF PassShape
  <2> QED BY <2>1, <2>2, <2>3 DEF PassShape
<1> QED BY <1>1, <1>2, <1>3, <1>5

(* The row that is sampled.                                                 *)
LEMMA SampledRow ==
  ASSUME NEW n, Judged(n), NEW d \in Drafters, NEW start, NEW rows, NEW sample, NEW lens,
         PassShape(d, start, rows, sample, lens, n), NEW i \in 0 .. n - 1,
         NEW k \in 0 .. ExtraSlots(d) - 1
  PROVE  /\ sample[i][k] = StartOf(lens, i) + (ValidRows(d, i) + k)
         /\ ValidRows(d, i) + k \in Nat /\ ValidRows(d, i) + k < lens[i]
         /\ StartOf(lens, i) \in Nat /\ lens[i] \in Nat
         /\ rows[sample[i][k]].pos = start[i] + (ValidRows(d, i) + k)
         /\ rows[sample[i][k]].slot = <<batch[i], start[i] + (ValidRows(d, i) + k)>>
<1>1. n \in Nat \ {0} /\ lens \in Counts(n) BY DEF Judged, PassShape
<1>2. StartOf(lens, i) \in Nat /\ lens[i] \in Nat BY <1>1, Layout
<1>3. ValidRows(d, i) \in Nat BY ValidRowsFacts
<1>4. ExtraSlots(d) \in Nat BY DrafterFacts
<1>5. sample[i][k] = StartOf(lens, i) + (ValidRows(d, i) + k) BY DEF PassShape
<1>6. ValidRows(d, i) + ExtraSlots(d) <= lens[i] BY DEF PassShape
<1> DEFINE j == ValidRows(d, i) + k
<1>7. j \in Nat /\ j < lens[i] /\ j < ValidRows(d, i) + ExtraSlots(d) BY <1>2, <1>3, <1>4, <1>6
<1> HIDE DEF j
<1>8. RowShape(d, start, rows[StartOf(lens, i) + j], i, j) BY <1>7 DEF PassShape
<1>9. /\ rows[StartOf(lens, i) + j].pos = start[i] + j
      /\ rows[StartOf(lens, i) + j].slot = <<batch[i], start[i] + j>>
  BY <1>7, <1>8 DEF RowShape
<1> QED BY <1>2, <1>5, <1>7, <1>9 DEF j

(* propose() up to its first pass.                                          *)
LEMMA ProposeDraws ==
  ASSUME LayoutInv, NEW d \in Drafters, NEW start \in StartOptions, NEW left \in 1 .. 2,
         Propose(d, start, left)
  PROVE  DraftInv'
<1>1. accepted # << >> /\ UNCHANGED vars BY DEF Propose
<1>2. plan # << >> BY <1>1 DEF LayoutInv
<1>3. PICK n \in Nat \ {0} : StepInv(n) /\ DOMAIN plan = 0 .. n - 1 BY <1>2, PlanHasRows
<1>4. Judged(n) BY <1>1, <1>3 DEF Judged
<1>5. start \in [0 .. n - 1 -> Nat]
  <2>1. PICK s \in Starts : start = [i \in 0 .. n - 1 |-> s + i] BY <1>3 DEF StartOptions
  <2>2. s \in Nat BY EagleDraftAssumption
  <2> QED BY <2>1, <2>2
<1>6. accepted' # << >> BY <1>1 DEF vars
<1>7. CASE ~InputFits(start, plan)
  <2>1. draft' = [step |-> SpecTokens, skipped |-> TRUE] BY <1>7 DEF Propose
  <2> QED BY <1>6, <2>1 DEF DraftInv
<1>8. CASE InputFits(start, plan)
  <2> DEFINE first == FirstPass(d, start, NextTokens(d, left))
             rows == first.rows
             sample == first.sample
             step == IF d.parallel THEN SpecTokens ELSE 1
             pos == [i \in DOMAIN plan |-> rows[sample[i][0]].pos]
             slot == [i \in DOMAIN plan |-> rows[sample[i][0]].slot]
             seq == SeqLens(d, start)
  <2>1. draft' = [step |-> step, skipped |-> FALSE, drafter |-> d, start |-> start,
                  rows |-> rows, sample |-> sample, pos |-> pos, seq |-> seq, slot |-> slot]
    BY <1>8 DEF Propose, FirstStep
  <2>2. PICK lens : PassShape(d, start, rows, sample, lens, n)
    BY <1>4, <1>5, <1>8, FirstPassShape
  <2> HIDE DEF first, rows, sample
  <2>3. step \in 1 .. SpecTokens /\ (d.parallel => step = SpecTokens) BY Sizes
  <2>4. ASSUME ~d.parallel, NEW i \in 0 .. n - 1
        PROVE  /\ pos[i] = start[i] + (ValidRows(d, i) + (step - 1))
               /\ seq[i] = pos[i] + 1 /\ slot[i] = <<batch[i], pos[i]>>
    <3>1. 0 \in 0 .. ExtraSlots(d) - 1 BY DrafterFacts
    <3>2. /\ rows[sample[i][0]].pos = start[i] + (ValidRows(d, i) + 0)
          /\ rows[sample[i][0]].slot = <<batch[i], start[i] + (ValidRows(d, i) + 0)>>
      BY <1>4, <2>2, <3>1, SampledRow
    <3>3. ValidRows(d, i) \in Nat /\ Kept(i) = ValidRows(d, i) + ShiftOf(d)
      BY <1>4, ValidRowsFacts
    <3>4. pos[i] = rows[sample[i][0]].pos /\ slot[i] = rows[sample[i][0]].slot BY <1>3
    <3>5. step - 1 = 0 BY <2>4
    <3>6. pos[i] = start[i] + (ValidRows(d, i) + (step - 1)) /\ slot[i] = <<batch[i], pos[i]>>
      <4> HIDE DEF pos, slot, step
      <4> QED BY <3>2, <3>4, <3>5
    <3>7. seq[i] = start[i] + PassLens(d)[i] + NetNewSlots(d) - RejectedOnGpu(d)[i]
      BY <1>3 DEF SeqLens
    <3>8. /\ PassLens(d)[i] \in Nat /\ RejectedOnGpu(d)[i] \in Nat
          /\ PassLens(d)[i] - RejectedOnGpu(d)[i] = Kept(i)
      BY <1>4, PassFacts
    <3>9. NetNewSlots(d) = 1 - ShiftOf(d) /\ ShiftOf(d) \in {0, 1} BY <2>4, DrafterFacts
    <3> DEFINE s == start[i] l == PassLens(d)[i] r == RejectedOnGpu(d)[i] v == ValidRows(d, i)
               h == ShiftOf(d)
    <3>10. /\ s \in Nat /\ l \in Nat /\ r \in Nat /\ v \in Nat /\ h \in {0, 1}
           /\ seq[i] = s + l + (1 - h) - r /\ l - r = v + h /\ pos[i] = s + (v + 0)
      <4>1. s \in Nat BY <1>5
      <4>2. pos[i] = s + (v + 0) BY <3>2, <3>4
      <4>3. seq[i] = s + l + (1 - h) - r
        <5> HIDE DEF seq
        <5> QED BY <3>7, <3>9
      <4> HIDE DEF pos, seq
      <4> QED BY <3>3, <3>8, <3>9, <4>1, <4>2, <4>3
    <3>11. seq[i] = pos[i] + 1
      <4> HIDE DEF s, l, r, v, h, seq, pos
      <4> QED BY <3>10
    <3> QED BY <3>6, <3>11
  <2> HIDE DEF step, pos, slot, seq
  <2> DEFINE Body(R, S, P, Q, L, t) ==
               /\ draft' = [step |-> t, skipped |-> FALSE, drafter |-> d, start |-> start,
                            rows |-> R, sample |-> S, pos |-> P, seq |-> Q, slot |-> L]
               /\ PassShape(d, start, R, S, lens, n)
               /\ t \in 1 .. SpecTokens /\ (d.parallel => t = SpecTokens)
               /\ ~d.parallel =>
                    \A i \in 0 .. n - 1 : /\ P[i] = start[i] + (ValidRows(d, i) + (t - 1))
                                          /\ Q[i] = P[i] + 1 /\ L[i] = <<batch[i], P[i]>>
  <2>5. PICK R, S, P, Q, L, t : Body(R, S, P, Q, L, t)
    <3>1. Body(rows, sample, pos, seq, slot, step) BY <2>1, <2>2, <2>3, <2>4
    <3> HIDE DEF Body
    <3> QED BY <3>1
  <2>6. Drawn(n, d, start, R, S, lens, t, P, Q, L)'
    <3>1. PassShape(d, start, R, S, lens, n)' BY <1>1, <1>4, <2>5, ShapeKept
    <3>2. Judged(n)' /\ batch' = batch /\ plan' = plan BY <1>1, <1>4, ShapeKept
    <3>3. \A i : ValidRows(d, i)' = ValidRows(d, i) BY <1>1, <1>4, ShapeKept
    <3>4. InputFits(start, plan)' BY <1>8, <3>2 DEF InputFits
    <3>5. ~d.parallel =>
            \A i \in 0 .. n - 1 : /\ P[i] = start[i] + (ValidRows(d, i)' + (t - 1))
                                  /\ Q[i] = P[i] + 1 /\ L[i] = <<batch'[i], P[i]>>
      BY <2>5, <3>2, <3>3
    <3>6. draft' = [step |-> t, skipped |-> FALSE, drafter |-> d, start |-> start,
                    rows |-> R, sample |-> S, pos |-> P, seq |-> Q, slot |-> L]
      BY <2>5
    <3>7. t \in 1 .. SpecTokens /\ (d.parallel => t = SpecTokens) BY <2>5
    <3>8. Judged(n)' BY <3>2
    <3> QED BY <1>5, <3>1, <3>4, <3>5, <3>6, <3>7, <3>8, Zenon DEF Drawn
  <2> QED BY <1>6, <2>6 DEF DraftInv
<1> QED BY <1>7, <1>8

(* _update_positions_dependent_metadata.                                    *)
LEMMA DraftStepDraws ==
  ASSUME LayoutInv, DraftInv, DraftStep PROVE DraftInv'
<1>1. draft # None /\ draft.step < SpecTokens /\ UNCHANGED vars BY DEF DraftStep
<1>2. accepted' # << >> BY <1>1 DEF DraftInv, vars
<1>3. CASE draft = [step |-> SpecTokens, skipped |-> TRUE]
  <2>1. draft.step = SpecTokens BY <1>3
  <2> QED BY <1>1, <2>1, Sizes
<1>4. CASE \E n, d, start, rows, sample, lens, step, pos, seq, slot :
             Drawn(n, d, start, rows, sample, lens, step, pos, seq, slot)
  <2>1. PICK n, d, start, rows, sample, lens, step, pos, seq, slot :
          Drawn(n, d, start, rows, sample, lens, step, pos, seq, slot)
    BY <1>4
  <2>2. /\ draft = [step |-> step, skipped |-> FALSE, drafter |-> d, start |-> start,
                    rows |-> rows, sample |-> sample, pos |-> pos, seq |-> seq, slot |-> slot]
        /\ Judged(n) /\ d \in Drafters /\ start \in [0 .. n - 1 -> Nat] /\ InputFits(start, plan)
        /\ PassShape(d, start, rows, sample, lens, n)
        /\ step \in 1 .. SpecTokens /\ (d.parallel => step = SpecTokens)
    BY <2>1 DEF Drawn
  <2>3. draft.step = step /\ draft.pos = pos /\ draft.seq = seq BY <2>2
  <2>4. step < SpecTokens /\ ~d.parallel /\ step + 1 \in 1 .. SpecTokens BY <1>1, <2>2, <2>3, Sizes
  <2>5. \A i \in 0 .. n - 1 : /\ pos[i] = start[i] + (ValidRows(d, i) + (step - 1))
                              /\ seq[i] = pos[i] + 1 /\ slot[i] = <<batch[i], pos[i]>>
    BY <2>1, <2>4 DEF Drawn
  <2>6. DOMAIN plan = 0 .. n - 1 BY <2>2 DEF Judged
  <2>7. ASSUME NEW i \in 0 .. n - 1
        PROVE  /\ Advanced(i).pos = start[i] + (ValidRows(d, i) + ((step + 1) - 1))
               /\ Advanced(i).seq = Advanced(i).pos + 1
               /\ Advanced(i).slot = <<batch[i], Advanced(i).pos>>
    <3>1. /\ ValidRows(d, i) \in Nat /\ ValidRows(d, i) + ShiftOf(d) <= plan[i].n
          /\ plan[i].n \in Nat /\ ShiftOf(d) \in {0, 1}
      BY <2>2, JudgedFacts, ValidRowsFacts, DrafterFacts
    <3> DEFINE k == ValidRows(d, i) + step
    <3>2. k \in Nat /\ k < plan[i].n + SpecTokens /\ step \in Nat BY <2>2, <2>4, <3>1, Sizes
    <3>3. start[i] + k \in Nat /\ ~(start[i] + k >= MaxModelLen)
      <4> HIDE DEF k
      <4> QED BY <2>2, <3>2, FitsBelow
    <3>4. start[i] \in Nat BY <2>2
    <3> DEFINE s == start[i] v == ValidRows(d, i) p == pos[i] q == seq[i]
    <3>5. /\ s \in Nat /\ v \in Nat /\ step \in Nat /\ k = v + step
          /\ p = s + (v + (step - 1)) /\ q = p + 1
      BY <2>5, <3>1, <3>2, <3>4
    <3>6. p + 1 = s + k /\ q + 1 = (s + k) + 1 /\ s + (v + ((step + 1) - 1)) = s + k
      <4> HIDE DEF s, v, p, q, k
      <4> QED BY <3>5
    <3>7. Advanced(i) = [pos |-> s + k, slot |-> <<batch[i], s + k>>, seq |-> (s + k) + 1]
      <4>1. draft.pos[i] + 1 = s + k /\ draft.seq[i] + 1 = (s + k) + 1 BY <2>3, <3>6
      <4> HIDE DEF k
      <4> QED BY <3>3, <4>1 DEF Advanced
    <3> HIDE DEF k, s, v
    <3>8. Advanced(i).pos = s + k /\ Advanced(i).seq = (s + k) + 1
          /\ Advanced(i).slot = <<batch[i], s + k>>
      BY <3>7
    <3> QED BY <3>6, <3>8 DEF s, v
  <2> DEFINE newPos == [i \in DOMAIN plan |-> Advanced(i).pos]
             newSlot == [i \in DOMAIN plan |-> Advanced(i).slot]
             newSeq == [i \in DOMAIN plan |-> Advanced(i).seq]
  <2>8. draft' = [step |-> step + 1, skipped |-> FALSE, drafter |-> d, start |-> start,
                  rows |-> rows, sample |-> sample, pos |-> newPos, seq |-> newSeq, slot |-> newSlot]
    <3>1. draft' = [draft EXCEPT !.step = @ + 1, !.pos = newPos, !.slot = newSlot, !.seq = newSeq]
      BY DEF DraftStep
    <3> HIDE DEF newPos, newSlot, newSeq
    <3> QED BY <2>2, <3>1
  <2>9. \A i \in 0 .. n - 1 : /\ newPos[i] = start[i] + (ValidRows(d, i) + ((step + 1) - 1))
                              /\ newSeq[i] = newPos[i] + 1 /\ newSlot[i] = <<batch[i], newPos[i]>>
    BY <2>6, <2>7
  <2> HIDE DEF newPos, newSlot, newSeq
  <2> DEFINE Body(P, Q, L) ==
               /\ draft' = [step |-> step + 1, skipped |-> FALSE, drafter |-> d, start |-> start,
                            rows |-> rows, sample |-> sample, pos |-> P, seq |-> Q, slot |-> L]
               /\ \A i \in 0 .. n - 1 : /\ P[i] = start[i] + (ValidRows(d, i) + ((step + 1) - 1))
                                        /\ Q[i] = P[i] + 1 /\ L[i] = <<batch[i], P[i]>>
  <2>10. PICK P, Q, L : Body(P, Q, L)
    <3>1. Body(newPos, newSeq, newSlot) BY <2>8, <2>9
    <3> HIDE DEF Body
    <3> QED BY <3>1
  <2>11. Drawn(n, d, start, rows, sample, lens, step + 1, P, Q, L)'
    <3>1. PassShape(d, start, rows, sample, lens, n)' BY <1>1, <2>2, ShapeKept
    <3>2. Judged(n)' /\ batch' = batch /\ plan' = plan BY <1>1, <2>2, ShapeKept
    <3>3. \A i : ValidRows(d, i)' = ValidRows(d, i) BY <1>1, <2>2, ShapeKept
    <3>4. InputFits(start, plan)' BY <2>2, <3>2 DEF InputFits
    <3>5. \A i \in 0 .. n - 1 : /\ P[i] = start[i] + (ValidRows(d, i)' + ((step + 1) - 1))
                                /\ Q[i] = P[i] + 1 /\ L[i] = <<batch'[i], P[i]>>
      BY <2>10, <3>2, <3>3
    <3>6. draft' = [step |-> step + 1, skipped |-> FALSE, drafter |-> d, start |-> start,
                    rows |-> rows, sample |-> sample, pos |-> P, seq |-> Q, slot |-> L]
      BY <2>10
    <3>8. Judged(n)' BY <3>2
    <3> QED BY <2>2, <2>4, <3>1, <3>4, <3>5, <3>6, <3>8, Zenon DEF Drawn
  <2> QED BY <1>2, <2>11 DEF DraftInv
<1> QED BY <1>1, <1>3, <1>4 DEF DraftInv

EagleInv == LayoutInv /\ DraftInv

(* Every step of the composition preserves the invariant.                   *)
LEMMA EagleInductive == EagleInv /\ [EagleNext]_eagleVars => EagleInv'
<1> SUFFICES ASSUME EagleInv, [EagleNext]_eagleVars PROVE EagleInv'
  OBVIOUS
<1>1. LayoutInv /\ DraftInv BY DEF EagleInv
<1>2. [Next]_vars
  BY DEF EagleNext, eagleVars, Next, Propose, DraftStep, ReturnDrafts
<1>3. LayoutInv' BY <1>1, <1>2, LayoutInductive
<1>4. accepted = << >> => draft = None BY <1>1 DEF DraftInv
<1>5. CASE LaunchAny /\ UNCHANGED draft
  <2>1. plan = << >> /\ draft' = draft BY <1>5 DEF LaunchAny
  <2>2. accepted = << >> BY <1>1, <2>1 DEF LayoutInv
  <2> QED BY <1>3, <1>4, <2>1, <2>2 DEF EagleInv, DraftInv
<1>6. CASE VerifyAny /\ UNCHANGED draft
  <2>1. accepted = << >> /\ draft' = draft BY <1>6 DEF VerifyAny
  <2> QED BY <1>3, <1>4, <2>1 DEF EagleInv, DraftInv
<1>7. CASE \E d \in Drafters, start \in StartOptions, left \in 1 .. 2 : Propose(d, start, left)
  BY <1>1, <1>3, <1>7, ProposeDraws DEF EagleInv
<1>8. CASE DraftStep BY <1>1, <1>3, <1>8, DraftStepDraws DEF EagleInv
<1>9. CASE ReturnDrafts BY <1>3, <1>9 DEF EagleInv, DraftInv, ReturnDrafts
<1>10. CASE UNCHANGED eagleVars
  <2>1. UNCHANGED vars /\ draft' = draft /\ accepted' = accepted BY <1>10 DEF eagleVars, vars
  <2>2. ASSUME NEW n, NEW d, NEW start, NEW rows, NEW sample, NEW lens, NEW step, NEW pos,
               NEW seq, NEW slot, Drawn(n, d, start, rows, sample, lens, step, pos, seq, slot)
        PROVE  Drawn(n, d, start, rows, sample, lens, step, pos, seq, slot)'
    <3>0. Judged(n) BY <2>2 DEF Drawn
    <3>1. PassShape(d, start, rows, sample, lens, n)' BY <2>1, <2>2, <3>0, ShapeKept DEF Drawn
    <3>2. Judged(n)' /\ batch' = batch /\ plan' = plan BY <2>1, <3>0, ShapeKept
    <3>3. \A i : ValidRows(d, i)' = ValidRows(d, i) BY <2>1, <3>0, ShapeKept
    <3>4. InputFits(start, plan)' BY <2>2, <3>2 DEF InputFits, Drawn
    <3>5. ~d.parallel =>
            \A i \in 0 .. n - 1 : /\ pos[i] = start[i] + (ValidRows(d, i)' + (step - 1))
                                  /\ seq[i] = pos[i] + 1 /\ slot[i] = <<batch'[i], pos[i]>>
      BY <2>2, <3>2, <3>3 DEF Drawn
    <3>6. draft' = [step |-> step, skipped |-> FALSE, drafter |-> d, start |-> start,
                    rows |-> rows, sample |-> sample, pos |-> pos, seq |-> seq, slot |-> slot]
      BY <2>1, <2>2 DEF Drawn
    <3>7. Judged(n)' BY <3>2
    <3>8. /\ d \in Drafters /\ start \in [0 .. n - 1 -> Nat]
          /\ step \in 1 .. SpecTokens /\ (d.parallel => step = SpecTokens)
      BY <2>2 DEF Drawn
    <3> QED BY <3>1, <3>4, <3>5, <3>6, <3>7, <3>8, Zenon DEF Drawn
  <2>3. DraftInv' BY <1>1, <2>1, <2>2 DEF DraftInv
  <2> QED BY <1>3, <2>3 DEF EagleInv
<1> QED BY <1>5, <1>6, <1>7, <1>8, <1>9, <1>10 DEF EagleNext

(* The drafter's invariant.                                                 *)
THEOREM AlwaysEagleInv == EagleSpec => []EagleInv
<1>1. EagleInit => EagleInv BY LayoutInit DEF EagleInit, EagleInv, DraftInv
<1> QED BY <1>1, EagleInductive, PTL DEF EagleSpec

(* While a drafter runs, its passes are those of the invariant.             *)
LEMMA DraftingIsDrawn ==
  ASSUME EagleInv, Drafting
  PROVE  \E n, d, start, rows, sample, lens, step, pos, seq, slot :
           /\ Drawn(n, d, start, rows, sample, lens, step, pos, seq, slot)
           /\ draft.step = step /\ draft.drafter = d /\ draft.start = start /\ draft.rows = rows
           /\ draft.sample = sample /\ draft.pos = pos /\ draft.seq = seq /\ draft.slot = slot
<1>1. draft # None /\ ~draft.skipped BY DEF Drafting
<1>2. draft # [step |-> SpecTokens, skipped |-> TRUE] BY <1>1
<1>3. PICK n, d, start, rows, sample, lens, step, pos, seq, slot :
        Drawn(n, d, start, rows, sample, lens, step, pos, seq, slot)
  BY <1>1, <1>2 DEF EagleInv, DraftInv
<1>4. draft = [step |-> step, skipped |-> FALSE, drafter |-> d, start |-> start,
               rows |-> rows, sample |-> sample, pos |-> pos, seq |-> seq, slot |-> slot]
  BY <1>3 DEF Drawn
<1>5. /\ draft.step = step /\ draft.drafter = d /\ draft.start = start /\ draft.rows = rows
      /\ draft.sample = sample /\ draft.pos = pos /\ draft.seq = seq /\ draft.slot = slot
  BY <1>4
<1> QED BY <1>3, <1>5

(* What the drafter reads for a request: the shape of its rows, from the    *)
(* first to the one that is sampled.                                        *)
LEMMA DrawnShiftsInputs == EagleInv => DrafterInputsShifted
<1> SUFFICES ASSUME EagleInv, Drafting, NEW i \in DOMAIN plan
             PROVE  LET at == draft.sample[i][0]
                        base == StartOf(Scheduled(plan), i)
                        first == at - (Kept(i) - Shift)
                    IN  /\ \A j \in 0 .. Kept(i) - Shift :
                             LET row == draft.rows[first + j]
                             IN  /\ row.pos = draft.start[i] + j
                                 /\ row.slot = <<batch[i], row.pos>>
                                 /\ Shift = 1 => row.hidden = base + j
                                 /\ j < Kept(i) - Shift => row.id = inputIds[base + j + Shift]
                        /\ i \in sampled \/ ~draft.drafter.padded => draft.rows[at].id = TrueNext(i)
  BY DEF DrafterInputsShifted
<1>1. PICK n, d, start, rows, sample, lens, step, pos, seq, slot :
           /\ Drawn(n, d, start, rows, sample, lens, step, pos, seq, slot)
           /\ draft.step = step /\ draft.drafter = d /\ draft.start = start /\ draft.rows = rows
           /\ draft.sample = sample /\ draft.pos = pos /\ draft.seq = seq /\ draft.slot = slot
  BY DraftingIsDrawn
<1>2. /\ Judged(n) /\ d \in Drafters /\ start \in [0 .. n - 1 -> Nat]
      /\ PassShape(d, start, rows, sample, lens, n) /\ i \in 0 .. n - 1
  BY <1>1 DEF Drawn, Judged
<1>3. Shift = ShiftOf(d) /\ Kept(i) - Shift = ValidRows(d, i) BY <1>1 DEF Shift, ShiftOf, ValidRows
<1> DEFINE v == ValidRows(d, i) s == StartOf(lens, i) at == draft.sample[i][0] first == at - v
           base == StartOf(Scheduled(plan), i)
<1>4. 0 \in 0 .. ExtraSlots(d) - 1 /\ ExtraSlots(d) \in Nat \ {0} /\ ShiftOf(d) \in {0, 1}
  BY <1>2, DrafterFacts
<1>5. /\ at = s + (v + 0) /\ v + 0 \in Nat /\ v + 0 < lens[i] /\ s \in Nat /\ lens[i] \in Nat
  BY <1>1, <1>2, <1>4, SampledRow
<1>6. v \in Nat /\ base \in Nat BY <1>2, ValidRowsFacts, JudgedFacts
<1>7. at = s + v /\ first = s
  <2> HIDE DEF v, s, at
  <2> QED BY <1>5, <1>6
<1>8. \A j \in Nat : j < lens[i] => RowShape(d, start, rows[s + j], i, j)
  BY <1>2 DEF PassShape
<1>9. ASSUME NEW j \in 0 .. v
      PROVE  /\ draft.rows[first + j].pos = draft.start[i] + j
             /\ draft.rows[first + j].slot = <<batch[i], draft.rows[first + j].pos>>
             /\ Shift = 1 => draft.rows[first + j].hidden = base + j
             /\ j < v => draft.rows[first + j].id = inputIds[base + j + Shift]
  <2>1. j \in Nat /\ j < lens[i] /\ j <= v /\ j < v + ExtraSlots(d)
    <3> HIDE DEF v
    <3> QED BY <1>4, <1>5, <1>6
  <2>2. RowShape(d, start, rows[s + j], i, j) BY <1>8, <2>1
  <2> DEFINE row == rows[s + j]
  <2>3. draft.rows[first + j] = row BY <1>1, <1>7
  <2> HIDE DEF row
  <2>4. /\ row.pos = start[i] + j /\ row.slot = <<batch[i], row.pos>>
        /\ d.passHidden => row.hidden = base + j
        /\ j < v => row.id = inputIds[base + (j + ShiftOf(d))]
    BY <2>1, <2>2 DEF RowShape, row
  <2>5. Shift = 1 => d.passHidden BY <1>1 DEF Shift
  <2>6. base + j + Shift = base + (j + ShiftOf(d))
    <3> HIDE DEF base
    <3> QED BY <1>3, <1>4, <1>6, <2>1
  <2> HIDE DEF base, first, v
  <2> QED BY <1>1, <2>3, <2>4, <2>5, <2>6
<1>10. ASSUME i \in sampled \/ ~draft.drafter.padded PROVE draft.rows[at].id = TrueNext(i)
  <2>1. v < lens[i]
    <3> HIDE DEF v
    <3> QED BY <1>5, <1>6
  <2>2. RowShape(d, start, rows[s + v], i, v) BY <1>6, <1>8, <2>1
  <2>3. rows[s + v].id = TrueNext(i) BY <1>1, <1>10, <2>2 DEF RowShape
  <2>4. draft.rows[at] = rows[s + v] BY <1>1, <1>7
  <2> QED BY <2>3, <2>4
<1> HIDE DEF v, at, base, s
<1> QED BY <1>3, <1>9, <1>10 DEF v, at, base

(* Every drafter reads each request's tokens shifted, in place.             *)
THEOREM AlwaysDrafterInputsShifted == EagleSpec => []DrafterInputsShifted
  BY AlwaysEagleInv, DrawnShiftsInputs, PTL

(* The positions, lengths and slots of the further drafts.                  *)
LEMMA DrawnStepsContiguous == EagleInv => DraftStepsContiguous
<1> SUFFICES ASSUME EagleInv, Drafting, NEW i \in DOMAIN plan
             PROVE  LET last == draft.start[i] + Kept(i) - Shift
                    IN  IF draft.drafter.parallel
                        THEN \A k \in DOMAIN draft.sample[i] :
                               /\ draft.rows[draft.sample[i][k]].pos = last + k
                               /\ draft.rows[draft.sample[i][k]].slot = <<batch[i], last + k>>
                        ELSE /\ draft.pos[i] = last + draft.step - 1
                             /\ draft.seq[i] = draft.pos[i] + 1
                             /\ draft.slot[i] = <<batch[i], draft.pos[i]>>
  BY DEF DraftStepsContiguous
<1>1. PICK n, d, start, rows, sample, lens, step, pos, seq, slot :
           /\ Drawn(n, d, start, rows, sample, lens, step, pos, seq, slot)
           /\ draft.step = step /\ draft.drafter = d /\ draft.start = start /\ draft.rows = rows
           /\ draft.sample = sample /\ draft.pos = pos /\ draft.seq = seq /\ draft.slot = slot
  BY DraftingIsDrawn
<1>2. /\ Judged(n) /\ d \in Drafters /\ start \in [0 .. n - 1 -> Nat]
      /\ PassShape(d, start, rows, sample, lens, n) /\ i \in 0 .. n - 1
      /\ step \in 1 .. SpecTokens
  BY <1>1 DEF Drawn, Judged
<1>3. Shift = ShiftOf(d) BY <1>1 DEF Shift, ShiftOf
<1> DEFINE v == ValidRows(d, i) s == start[i] last == draft.start[i] + Kept(i) - Shift
<1>4. /\ v \in Nat /\ Kept(i) = v + ShiftOf(d) /\ ShiftOf(d) \in {0, 1} /\ s \in Nat /\ step \in Nat
  BY <1>2, ValidRowsFacts, DrafterFacts, Sizes
<1>5. last = s + v
  <2>1. last = s + Kept(i) - Shift BY <1>1
  <2> HIDE DEF last, v, s
  <2> QED BY <1>3, <1>4, <2>1
<1>6. ASSUME NEW k \in DOMAIN draft.sample[i]
      PROVE  /\ draft.rows[draft.sample[i][k]].pos = last + k
             /\ draft.rows[draft.sample[i][k]].slot = <<batch[i], last + k>>
  <2>1. k \in 0 .. ExtraSlots(d) - 1 
    <3>1. sample[i] = [x \in 0 .. ExtraSlots(d) - 1 |-> StartOf(lens, i) + (ValidRows(d, i) + x)]
      BY <1>2 DEF PassShape
    <3> QED BY <1>1, <3>1
  <2>2. /\ rows[sample[i][k]].pos = s + (v + k)
        /\ rows[sample[i][k]].slot = <<batch[i], s + (v + k)>>
    <3>1. /\ rows[sample[i][k]].pos = start[i] + (ValidRows(d, i) + k)
          /\ rows[sample[i][k]].slot = <<batch[i], start[i] + (ValidRows(d, i) + k)>>
      <4>1. /\ Judged(n) /\ d \in Drafters /\ PassShape(d, start, rows, sample, lens, n)
            /\ i \in 0 .. n - 1
        BY <1>2
      <4> HIDE DEF s, v, last
      <4> QED BY <2>1, <4>1, SampledRow
    <3> QED BY <3>1
  <2>3. ExtraSlots(d) \in Nat BY <1>2, DrafterFacts
  <2>4. s + (v + k) = last + k
    <3> HIDE DEF s, v, last
    <3> QED BY <1>4, <1>5, <2>1, <2>3
  <2> HIDE DEF s, v, last
  <2> QED BY <1>1, <2>2, <2>4
<1>7. ASSUME ~draft.drafter.parallel
      PROVE  /\ draft.pos[i] = last + draft.step - 1
             /\ draft.seq[i] = draft.pos[i] + 1
             /\ draft.slot[i] = <<batch[i], draft.pos[i]>>
  <2>1. pos[i] = s + (v + (step - 1)) /\ seq[i] = pos[i] + 1 /\ slot[i] = <<batch[i], pos[i]>>
    BY <1>1, <1>2, <1>7 DEF Drawn
  <2>2. s + (v + (step - 1)) = last + step - 1
    <3> HIDE DEF s, v, last
    <3> QED BY <1>4, <1>5
  <2> HIDE DEF s, v, last
  <2> QED BY <1>1, <2>1, <2>2
<1> HIDE DEF last
<1> QED BY <1>6, <1>7 DEF last

(* The further drafts follow on, one position and one slot each.            *)
THEOREM AlwaysDraftStepsContiguous == EagleSpec => []DraftStepsContiguous
  BY AlwaysEagleInv, DrawnStepsContiguous, PTL

(* Two rows with one slot would be one row of one request.                  *)
LEMMA DrawnWritesOnce == EagleInv => SlotsWrittenOnce
<1> SUFFICES ASSUME EagleInv, Drafting PROVE SlotsWrittenOnce
  BY DEF SlotsWrittenOnce
<1>1. PICK n, d, start, rows, sample, lens, step, pos, seq, slot :
           /\ Drawn(n, d, start, rows, sample, lens, step, pos, seq, slot)
           /\ draft.step = step /\ draft.drafter = d /\ draft.start = start /\ draft.rows = rows
           /\ draft.sample = sample /\ draft.pos = pos /\ draft.seq = seq /\ draft.slot = slot
  BY DraftingIsDrawn
<1>2. /\ Judged(n) /\ d \in Drafters /\ start \in [0 .. n - 1 -> Nat]
      /\ PassShape(d, start, rows, sample, lens, n)
  BY <1>1 DEF Drawn
<1>3. n \in Nat \ {0} /\ DOMAIN plan = 0 .. n - 1 /\ lens \in Counts(n)
      /\ DOMAIN rows = 0 .. Total(lens) - 1
  BY <1>2 DEF Judged, PassShape
<1>4. \A i \in 0 .. n - 1 : StartOf(lens, i) \in Nat /\ lens[i] \in Nat BY <1>3, Layout
<1>5. \A i, k \in 0 .. n - 1 : batch[i] = batch[k] => i = k
  <2>1. batch \in Batches
    <3>1. DOMAIN batch = 0 .. n - 1 BY <1>2, JudgedFacts DEF Laid
    <3>2. 0 \in DOMAIN batch /\ DOMAIN << >> = {} BY <1>3, <3>1
    <3>3. batch # << >> BY <3>2
    <3> QED BY <1>2, <3>3 DEF Judged, LayoutInv
  <2>2. PICK m \in Nat \ {0} : DOMAIN batch = 0 .. m - 1
                               /\ \A i, j \in 0 .. m - 1 : batch[i] = batch[j] => i = j
    BY <2>1, BatchRows
  <2>3. DOMAIN batch = 0 .. n - 1 BY <1>2, JudgedFacts DEF Laid
  <2> QED BY <2>2, <2>3
<1>6. ASSUME NEW g \in DOMAIN rows
      PROVE  \E i \in 0 .. n - 1 : \E j \in Nat :
               /\ g = StartOf(lens, i) + j
               /\ rows[g].slot = Padding
                  \/ (rows[g].pos = start[i] + j /\ rows[g].slot = <<batch[i], start[i] + j>>)
  <2> DEFINE i == RowAt(lens, g) j == OffsetAt(lens, g)
  <2>1. i \in 0 .. n - 1 /\ j \in Nat /\ j < lens[i] /\ g = StartOf(lens, i) + j
    BY <1>3, RowExists
  <2> HIDE DEF i, j
  <2>2. RowShape(d, start, rows[StartOf(lens, i) + j], i, j) BY <1>2, <2>1 DEF PassShape
  <2>3. rows[g].slot = Padding
        \/ (rows[g].pos = start[i] + j /\ rows[g].slot = <<batch[i], rows[g].pos>>)
    BY <2>1, <2>2 DEF RowShape
  <2> QED BY <2>1, <2>3
<1>7. ASSUME NEW g \in DOMAIN draft.rows, NEW h \in DOMAIN draft.rows, g # h,
             draft.rows[g].slot = draft.rows[h].slot
      PROVE  draft.rows[g].slot = Padding
  <2> SUFFICES ASSUME rows[g].slot # Padding PROVE FALSE
    BY <1>1
  <2>0. g \in DOMAIN rows /\ h \in DOMAIN rows /\ rows[g].slot = rows[h].slot BY <1>1, <1>7
  <2>1. PICK i \in 0 .. n - 1, j \in Nat :
          g = StartOf(lens, i) + j /\ rows[g].slot = <<batch[i], start[i] + j>>
    BY <1>6, <2>0
  <2>2. PICK k \in 0 .. n - 1, m \in Nat :
          h = StartOf(lens, k) + m /\ rows[h].slot = <<batch[k], start[k] + m>>
    BY <1>6, <2>0
  <2>3. batch[i] = batch[k] /\ start[i] + j = start[k] + m BY <2>0, <2>1, <2>2
  <2>4. i = k BY <1>5, <2>3
  <2>5. start[i] \in Nat BY <1>2
  <2>6. j = m BY <2>3, <2>4, <2>5
  <2> QED BY <1>7, <2>1, <2>2, <2>4, <2>6
<1>8. ASSUME NEW i \in DOMAIN plan, NEW g \in DOMAIN draft.rows,
             g > draft.sample[i][0], draft.rows[g].slot # Padding, draft.rows[g].slot[1] = batch[i]
      PROVE  draft.rows[g].slot[2] > draft.rows[draft.sample[i][0]].pos
  <2>1. i \in 0 .. n - 1 /\ g \in DOMAIN rows BY <1>1, <1>3, <1>8
  <2>2. PICK k \in 0 .. n - 1, j \in Nat :
          g = StartOf(lens, k) + j /\ rows[g].slot = <<batch[k], start[k] + j>>
    BY <1>1, <1>6, <1>8, <2>1
  <2>3. batch[k] = batch[i]
    <3>1. rows[g].slot[1] = batch[i] BY <1>1, <1>8
    <3> QED BY <2>2, <3>1
  <2>4. k = i BY <1>5, <2>1, <2>3
  <2>5. 0 \in 0 .. ExtraSlots(d) - 1 BY <1>2, DrafterFacts
  <2> DEFINE v == ValidRows(d, i) at == sample[i][0]
  <2>6. at = StartOf(lens, i) + (v + 0) /\ rows[at].pos = start[i] + (v + 0) /\ v + 0 \in Nat
    <3>1. /\ sample[i][0] = StartOf(lens, i) + (ValidRows(d, i) + 0)
          /\ rows[sample[i][0]].pos = start[i] + (ValidRows(d, i) + 0)
          /\ ValidRows(d, i) + 0 \in Nat
      <4>1. /\ Judged(n) /\ d \in Drafters /\ PassShape(d, start, rows, sample, lens, n)
            /\ i \in 0 .. n - 1
        BY <1>2, <2>1
      <4> QED BY <2>5, <4>1, SampledRow
    <3> QED BY <3>1
  <2>7. v \in Nat BY <1>2, <2>1, ValidRowsFacts
  <2>8. g > at BY <1>1, <1>8
  <2>9. rows[g].slot[2] = start[i] + j BY <2>2, <2>4
  <2>10. start[i] \in Nat /\ StartOf(lens, i) \in Nat BY <1>2, <1>4, <2>1
  <2> HIDE DEF v, at
  <2>11. start[i] + j > rows[at].pos BY <2>2, <2>4, <2>6, <2>7, <2>8, <2>10
  <2> QED BY <1>1, <2>9, <2>11 DEF at
<1> QED BY <1>7, <1>8 DEF SlotsWrittenOnce

(* No slot is written twice in a pass, nor below what is sampled.           *)
THEOREM AlwaysSlotsWrittenOnce == EagleSpec => []SlotsWrittenOnce
  BY AlwaysEagleInv, DrawnWritesOnce, PTL
===============================================================================
