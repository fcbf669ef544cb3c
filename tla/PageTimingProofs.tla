--------------------------- MODULE PageTimingProofs ---------------------------
(***************************************************************************)
(* For every size of the average, of the pages, of the losses, of the      *)
(* integers and of what a gap may be off its time: the total kept by       *)
(* adding and subtracting is the sum of the elements, an average filled    *)
(* from few losses and small deviations stays near enough to the sender's  *)
(* page time to take it, and each step is one of StreamTable's.            *)
(*                                                                         *)
(* The sum is a fold.  Its recursion is unfolded once (FoldIsSum), shown   *)
(* to have a solution (SumDefined), and what is said of sums is proved by  *)
(* induction over sets of indices, stated for a set of sets (Subsets).     *)
(***************************************************************************)
EXTENDS PageTiming, FiniteSetTheorems, WellFoundedInduction, TLAPS

Pick(s) == CHOOSE x \in s : TRUE

(* What g has for s agrees with what it has for s without one element.      *)
Adds(f, g, s) == g[s] = IF s = {} THEN 0 ELSE f[Pick(s)] + g[s \ {Pick(s)}]

Summing(E, f, g) ==
  g = [s \in SUBSET E |-> IF s = {} THEN 0 ELSE f[Pick(s)] + g[s \ {Pick(s)}]]

(* For every subset of E the sum of f over it. *)
SumOver(E, f) == CHOOSE g : Summing(E, f, g)

(* F has the sums of f over all subsets of E. *)
Sums(E, f, F) ==
  /\ F[{}] = 0
  /\ \A s \in SUBSET E : s # {} => F[s] = f[Pick(s)] + F[s \ {Pick(s)}]

(* A sum in which one element was replaced. *)
Exchanged(to, from, old, new) == to = from - old + new

SumOf(f) == SumOver(DOMAIN f, f)[DOMAIN f]

-----------------------------------------------------------------------------
(* The fold of the community modules is that sum. *)
LEMMA FoldIsSum == ASSUME NEW f PROVE FoldFunction(+, 0, f) = SumOf(f)
BY DEF FoldFunction, FoldFunctionOnSet, MapThenFoldSet, SumOf, SumOver, Summing, Pick

LEMMA PickIn == \A s : s # {} => Pick(s) \in s
BY DEF Pick

(* Induction over the subsets of a finite set. *)
LEMMA Subsets ==
  ASSUME NEW E, IsFiniteSet(E), NEW T \in SUBSET SUBSET E,
         {} \in T,
         \A s \in SUBSET E : s # {} /\ s \ {Pick(s)} \in T => s \in T
  PROVE  T = SUBSET E
<1> DEFINE Bad == {s \in SUBSET E : s \notin T}
           R == StrictSubsetOrdering(E)
<1>1. SUFFICES ASSUME Bad # {} PROVE FALSE
  OBVIOUS
<1>2. IsWellFoundedOn(R, FiniteSubsetsOf(E))
  BY FS_StrictSubsetOrderingWellFounded
<1>3. Bad \subseteq FiniteSubsetsOf(E)
  BY FS_Subset DEF FiniteSubsetsOf
<1>4. PICK s \in Bad : \A t \in Bad : <<t, s>> \notin R
  <2> HIDE DEF Bad, R
  <2>1. QED
    BY <1>1, <1>2, <1>3, WFMin
<1>5. s # {} /\ Pick(s) \in s
  BY PickIn
<1>6. s \ {Pick(s)} \in Bad
  OBVIOUS
<1>7. <<s \ {Pick(s)}, s>> \in R
  BY <1>5 DEF StrictSubsetOrdering
<1>8. QED
  BY <1>4, <1>6, <1>7

(* A function that sums sets of up to n elements is extended to n + 1.      *)
LEMMA SumExtends ==
  ASSUME NEW E, IsFiniteSet(E), NEW f, NEW n \in Nat, NEW g,
         \A s \in SUBSET E : Cardinality(s) <= n => Adds(f, g, s)
  PROVE  \E h : /\ DOMAIN h = SUBSET E /\ h = [s \in DOMAIN h |-> h[s]]
                /\ \A s \in SUBSET E : Cardinality(s) <= n + 1 => Adds(f, h, s)
<1> DEFINE h == [s \in SUBSET E |-> IF s = {} THEN 0 ELSE f[Pick(s)] + g[s \ {Pick(s)}]]
<1>1. ASSUME NEW s \in SUBSET E, Cardinality(s) <= n + 1 PROVE Adds(f, h, s)
  <2>1. CASE s = {}
    BY <2>1 DEF Adds
  <2>2. CASE s # {}
    <3> DEFINE t == s \ {Pick(s)}
    <3>1. Pick(s) \in s
      BY <2>2, PickIn
    <3>2. IsFiniteSet(s)
      BY FS_Subset
    <3>3. Cardinality(t) = Cardinality(s) - 1 /\ Cardinality(s) \in Nat
      BY <3>1, <3>2, FS_RemoveElement, FS_CardinalityType
    <3>4. Cardinality(t) <= n
      BY <1>1, <3>3
    <3>5. Adds(f, g, t)
      BY <3>4
    <3>6. h[t] = g[t]
      BY <3>5 DEF Adds
    <3>7. QED
      BY <2>2, <3>6 DEF Adds
  <2>3. QED
    BY <2>1, <2>2
<1>2. DOMAIN h = SUBSET E /\ h = [s \in DOMAIN h |-> h[s]]
  OBVIOUS
<1>3. QED
  BY <1>1, <1>2

(* The recursion has a solution. *)
LEMMA SumDefined ==
  ASSUME NEW E, IsFiniteSet(E), NEW f
  PROVE  Summing(E, f, SumOver(E, f))
<1> DEFINE Upto(n, h) ==
             /\ DOMAIN h = SUBSET E /\ h = [s \in DOMAIN h |-> h[s]]
             /\ \A s \in SUBSET E : Cardinality(s) <= n => Adds(f, h, s)
           Bad == {n \in Nat : ~ \E h : Upto(n, h)}
           R == OpToRel(<, Nat)
<1>1. 0 \notin Bad
  <2> DEFINE h == [s \in SUBSET E |-> 0]
  <2>1. \A s \in SUBSET E : Cardinality(s) <= 0 => s = {}
    BY FS_Subset, FS_EmptySet, FS_CardinalityType
  <2>2. Upto(0, h)
    BY <2>1 DEF Adds
  <2>3. QED
    BY <2>2
<1>2. \A n \in Nat : n \notin Bad => n + 1 \notin Bad
  <2> SUFFICES ASSUME NEW n \in Nat, n \notin Bad PROVE \E h : Upto(n + 1, h)
    OBVIOUS
  <2>1. PICK g : Upto(n, g)
    OBVIOUS
  <2>2. QED
    BY <2>1, SumExtends
<1>3. Bad = {}
  <2> SUFFICES ASSUME Bad # {} PROVE FALSE
    OBVIOUS
  <2>1. Bad \subseteq Nat
    OBVIOUS
  <2>2. PICK n \in Bad : \A m \in Bad : <<m, n>> \notin R
    <3>1. IsWellFoundedOn(R, Nat)
      BY NatLessThanWellFounded
    <3> HIDE DEF Bad, R
    <3>2. QED
      BY <2>1, <3>1, WFMin
  <2> HIDE DEF Bad
  <2>3. n \in Nat /\ n # 0
    BY <1>1, <2>1
  <2>4. n - 1 \in Nat /\ n = (n - 1) + 1
    BY <2>3
  <2>5. n - 1 \in Bad
    BY <1>2, <2>4
  <2>6. <<n - 1, n>> \in R
    BY <2>3, <2>4 DEF OpToRel
  <2>7. QED
    BY <2>2, <2>5, <2>6
<1>4. Cardinality(E) \in Nat
  BY FS_CardinalityType
<1>5. PICK h : Upto(Cardinality(E), h)
  BY <1>3, <1>4
<1>6. \A s \in SUBSET E : Adds(f, h, s)
  BY <1>5, FS_Subset
<1>7. Summing(E, f, h)
  BY <1>5, <1>6 DEF Adds, Summing
<1>8. QED
  BY <1>7 DEF SumOver

LEMMA SumStep ==
  ASSUME NEW E, IsFiniteSet(E), NEW f
  PROVE  Sums(E, f, SumOver(E, f))
<1> DEFINE g == SumOver(E, f)
<1>1. Summing(E, f, g)
  BY SumDefined
<1> HIDE DEF g
<1>2. \A s \in SUBSET E : g[s] = IF s = {} THEN 0 ELSE f[Pick(s)] + g[s \ {Pick(s)}]
  BY <1>1 DEF Summing
<1>3. QED
  BY <1>2 DEF g, Sums

-----------------------------------------------------------------------------
LEMMA SumTyped ==
  ASSUME NEW E, IsFiniteSet(E), NEW f \in [E -> Nat]
  PROVE  \A s \in SUBSET E : SumOver(E, f)[s] \in Nat
<1> DEFINE g == SumOver(E, f)
           T == {s \in SUBSET E : g[s] \in Nat}
<1>1. Sums(E, f, g)
  BY SumStep
<1> HIDE DEF g
<1>2. {} \in T
  BY <1>1 DEF Sums
<1>3. \A s \in SUBSET E : s # {} /\ s \ {Pick(s)} \in T => s \in T
  <2> SUFFICES ASSUME NEW s \in SUBSET E, s # {}, s \ {Pick(s)} \in T PROVE g[s] \in Nat
    OBVIOUS
  <2>1. f[Pick(s)] \in Nat
    BY PickIn
  <2>2. g[s \ {Pick(s)}] \in Nat
    OBVIOUS
  <2>3. g[s] = f[Pick(s)] + g[s \ {Pick(s)}]
    BY <1>1 DEF Sums
  <2>4. QED
    BY <2>1, <2>2, <2>3
<1>4. T = SUBSET E
  <2> HIDE DEF T
  <2>1. T \in SUBSET SUBSET E
    BY DEF T
  <2>2. QED
    BY <1>2, <1>3, <2>1, Subsets
<1>5. QED
  BY <1>4 DEF g

(* Replacing an element changes every sum it is in by the difference.       *)
LEMMA SumReplaces ==
  ASSUME NEW E, IsFiniteSet(E), NEW f \in [E -> Nat], NEW p \in E, NEW e \in Nat,
         NEW h, h = [f EXCEPT ![p] = e]
  PROVE  Exchanged(SumOver(E, h)[E], SumOver(E, f)[E], f[p], e)
<1> DEFINE F == SumOver(E, f)
           H == SumOver(E, h)
           T == {s \in SUBSET E : H[s] = IF p \in s THEN F[s] - f[p] + e ELSE F[s]}
<1>1. h \in [E -> Nat]
  OBVIOUS
<1>2. Sums(E, f, F)
  BY SumStep
<1>3. Sums(E, h, H)
  BY SumStep
<1>4. \A s \in SUBSET E : F[s] \in Nat
  BY SumTyped
<1>5. \A x \in E : h[x] = IF x = p THEN e ELSE f[x]
  OBVIOUS
<1> HIDE DEF F, H
<1>6. {} \in T
  BY <1>2, <1>3 DEF Sums
<1>7. \A s \in SUBSET E : s # {} /\ s \ {Pick(s)} \in T => s \in T
  <2> SUFFICES ASSUME NEW s \in SUBSET E, s # {}, s \ {Pick(s)} \in T PROVE s \in T
    OBVIOUS
  <2> DEFINE t == s \ {Pick(s)}
  <2>1. Pick(s) \in s /\ Pick(s) \in E /\ t \in SUBSET E
    BY PickIn
  <2>2. H[t] = IF p \in t THEN F[t] - f[p] + e ELSE F[t]
    OBVIOUS
  <2>3. F[s] = f[Pick(s)] + F[t] /\ H[s] = h[Pick(s)] + H[t]
    BY <1>2, <1>3 DEF Sums
  <2>4. F[t] \in Nat /\ f[p] \in Nat /\ f[Pick(s)] \in Nat /\ e \in Nat
    BY <1>4, <2>1
  <2>5. p \in s <=> p \in t \/ p = Pick(s)
    BY <2>1
  <2>6. ~ (p \in t /\ p = Pick(s))
    OBVIOUS
  <2>7. h[Pick(s)] = IF Pick(s) = p THEN e ELSE f[Pick(s)]
    BY <1>5, <2>1
  <2> HIDE DEF t
  <2>8. H[s] = IF p \in s THEN F[s] - f[p] + e ELSE F[s]
    BY <2>2, <2>3, <2>4, <2>5, <2>6, <2>7
  <2>9. QED
    BY <2>8
<1>8. T = SUBSET E
  <2> HIDE DEF T
  <2>1. T \in SUBSET SUBSET E
    BY DEF T
  <2>2. QED
    BY <1>6, <1>7, <2>1, Subsets
<1>9. E \in T
  BY <1>8
<1>10. QED
  BY <1>9 DEF F, H, Exchanged

LEMMA Product ==
  ASSUME NEW m \in Nat, NEW k \in Nat
  PROVE  m * k \in Nat /\ m * (k + 1) = m * k + m
OBVIOUS

(* A sum is at least its least element as often as there are elements.      *)
LEMMA SumBounds ==
  ASSUME NEW E, IsFiniteSet(E), NEW f \in [E -> Nat], NEW m \in Nat,
         \A x \in E : f[x] >= m
  PROVE  SumOver(E, f)[E] >= m * Cardinality(E)
<1> DEFINE F == SumOver(E, f)
           T == {s \in SUBSET E : F[s] >= m * Cardinality(s)}
<1>1. Sums(E, f, F)
  BY SumStep
<1>2. \A s \in SUBSET E : F[s] \in Nat
  BY SumTyped
<1> HIDE DEF F
<1>3. {} \in T
  <2>1. Cardinality({}) = 0
    BY FS_EmptySet
  <2>2. QED
    BY <1>1, <2>1 DEF Sums
<1>4. \A s \in SUBSET E : s # {} /\ s \ {Pick(s)} \in T => s \in T
  <2> SUFFICES ASSUME NEW s \in SUBSET E, s # {}, s \ {Pick(s)} \in T PROVE s \in T
    OBVIOUS
  <2> DEFINE t == s \ {Pick(s)}
             k == Cardinality(t)
  <2>1. Pick(s) \in s /\ Pick(s) \in E /\ t \in SUBSET E
    BY PickIn
  <2>2. IsFiniteSet(s) /\ IsFiniteSet(t)
    BY <2>1, FS_Subset
  <2>3. k \in Nat /\ Cardinality(s) \in Nat /\ k = Cardinality(s) - 1
    BY <2>1, <2>2, FS_RemoveElement, FS_CardinalityType
  <2>4. F[t] >= m * k /\ F[s] = f[Pick(s)] + F[t]
    BY <1>1 DEF Sums
  <2>5. F[t] \in Nat /\ f[Pick(s)] \in Nat /\ f[Pick(s)] >= m
    BY <1>2, <2>1
  <2>6. Cardinality(s) = k + 1
    BY <2>3
  <2> HIDE DEF k
  <2>7. m * k \in Nat /\ m * (k + 1) = m * k + m
    BY <2>3, Product
  <2>8. F[s] >= m * Cardinality(s)
    BY <2>4, <2>5, <2>6, <2>7
  <2>9. QED
    BY <2>8
<1>5. T = SUBSET E
  <2> HIDE DEF T
  <2>1. T \in SUBSET SUBSET E
    BY DEF T
  <2>2. QED
    BY <1>3, <1>4, <2>1, Subsets
<1>6. E \in T
  BY <1>5
<1>7. QED
  BY <1>6 DEF F

(* Sums keep the order of the elements. *)
LEMMA SumMonotone ==
  ASSUME NEW E, IsFiniteSet(E), NEW f \in [E -> Nat], NEW g \in [E -> Nat],
         \A x \in E : f[x] <= g[x]
  PROVE  SumOver(E, f)[E] <= SumOver(E, g)[E]
<1> DEFINE F == SumOver(E, f)
           G == SumOver(E, g)
           T == {s \in SUBSET E : F[s] <= G[s]}
<1>1. Sums(E, f, F) /\ Sums(E, g, G)
  BY SumStep
<1>2. \A s \in SUBSET E : F[s] \in Nat /\ G[s] \in Nat
  BY SumTyped
<1> HIDE DEF F, G
<1>3. {} \in T
  BY <1>1 DEF Sums
<1>4. \A s \in SUBSET E : s # {} /\ s \ {Pick(s)} \in T => s \in T
  <2> SUFFICES ASSUME NEW s \in SUBSET E, s # {}, s \ {Pick(s)} \in T PROVE s \in T
    OBVIOUS
  <2> DEFINE t == s \ {Pick(s)}
  <2>1. Pick(s) \in E /\ t \in SUBSET E
    BY PickIn
  <2>2. /\ F[t] <= G[t] /\ f[Pick(s)] <= g[Pick(s)]
        /\ F[s] = f[Pick(s)] + F[t] /\ G[s] = g[Pick(s)] + G[t]
    BY <1>1, <2>1 DEF Sums
  <2>3. F[t] \in Nat /\ G[t] \in Nat /\ f[Pick(s)] \in Nat /\ g[Pick(s)] \in Nat
    BY <1>2, <2>1
  <2> HIDE DEF t
  <2>4. F[s] <= G[s]
    BY <2>2, <2>3
  <2>5. QED
    BY <2>4
<1>5. T = SUBSET E
  <2> HIDE DEF T
  <2>1. T \in SUBSET SUBSET E
    BY DEF T
  <2>2. QED
    BY <1>3, <1>4, <2>1, Subsets
<1>6. E \in T
  BY <1>5
<1>7. QED
  BY <1>6 DEF F, G

(* A sum of equal elements. *)
LEMMA SumOfEqual ==
  ASSUME NEW E, IsFiniteSet(E), NEW f \in [E -> Nat], NEW m \in Nat,
         \A x \in E : f[x] = m
  PROVE  SumOver(E, f)[E] = m * Cardinality(E)
<1> DEFINE F == SumOver(E, f)
           T == {s \in SUBSET E : F[s] = m * Cardinality(s)}
<1>1. Sums(E, f, F)
  BY SumStep
<1> HIDE DEF F
<1>2. {} \in T
  <2>1. Cardinality({}) = 0
    BY FS_EmptySet
  <2>2. QED
    BY <1>1, <2>1 DEF Sums
<1>3. \A s \in SUBSET E : s # {} /\ s \ {Pick(s)} \in T => s \in T
  <2> SUFFICES ASSUME NEW s \in SUBSET E, s # {}, s \ {Pick(s)} \in T PROVE s \in T
    OBVIOUS
  <2> DEFINE t == s \ {Pick(s)}
             k == Cardinality(t)
  <2>1. Pick(s) \in s /\ Pick(s) \in E /\ t \in SUBSET E
    BY PickIn
  <2>2. IsFiniteSet(s) /\ IsFiniteSet(t)
    BY <2>1, FS_Subset
  <2>3. k \in Nat /\ Cardinality(s) \in Nat /\ k = Cardinality(s) - 1
    BY <2>1, <2>2, FS_RemoveElement, FS_CardinalityType
  <2>4. F[t] = m * k /\ F[s] = m + F[t]
    BY <1>1, <2>1 DEF Sums
  <2>5. Cardinality(s) = k + 1
    BY <2>3
  <2> HIDE DEF k
  <2>6. m * k \in Nat /\ m * (k + 1) = m * k + m
    BY <2>3, Product
  <2>7. F[s] = m * Cardinality(s)
    BY <2>4, <2>5, <2>6
  <2>8. QED
    BY <2>7
<1>4. T = SUBSET E
  <2> HIDE DEF T
  <2>1. T \in SUBSET SUBSET E
    BY DEF T
  <2>2. QED
    BY <1>2, <1>3, <2>1, Subsets
<1>5. E \in T
  BY <1>4
<1>6. QED
  BY <1>5 DEF F

LEMMA SumOfZeros ==
  ASSUME NEW E, IsFiniteSet(E)
  PROVE  SumOver(E, [x \in E |-> 0])[E] = 0
<1> DEFINE f == [x \in E |-> 0]
<1> HIDE DEF f
<1> DEFINE F == SumOver(E, f)
           T == {s \in SUBSET E : F[s] = 0}
<1>1. Sums(E, f, F)
  BY SumStep
<1> HIDE DEF F
<1>2. {} \in T
  BY <1>1 DEF Sums
<1>3. \A s \in SUBSET E : s # {} /\ s \ {Pick(s)} \in T => s \in T
  BY <1>1, PickIn DEF f, Sums
<1>4. T = SUBSET E
  <2> HIDE DEF T
  <2>1. T \in SUBSET SUBSET E
    BY DEF T
  <2>2. QED
    BY <1>2, <1>3, <2>1, Subsets
<1>5. E \in T
  BY <1>4
<1>6. QED
  BY <1>5 DEF F, f

-----------------------------------------------------------------------------
Sum == FoldFunction(+, 0, elementArray)

TypeInv ==
  /\ packets \in 1 .. MaxPackets /\ timed \in BOOLEAN
  /\ elementArray \in [Elements -> 0 .. TimeMod - 1]
  /\ elementPtr \in Elements /\ elementTotal \in 0 .. TimeMod - 1
  /\ established \in BOOLEAN
  /\ lost \in 0 .. MaxLost /\ strayed \in BOOLEAN /\ resized \in BOOLEAN

(* Before its first page a slot has no trace of earlier ones. *)
Blank ==
  ~ timed => /\ elementPtr = 0 /\ ~ established
             /\ lost = 0 /\ ~ strayed /\ ~ resized

(* While the average is filled the first element is the 0 of the first page *)
(* and what is not reached yet is 0 too.                                    *)
Unfilled ==
  ~ established => /\ timed => elementPtr # 0
                   /\ elementArray[0] = 0
                   /\ \A e \in Elements : e >= elementPtr => elementArray[e] = 0

low == pageTime - Jitter
high == pageTime + Jitter

(* No gap was shorter than the jitter makes it, but for the 0 that the      *)
(* first page has instead.                                                  *)
Low ==
  /\ elementArray[0] = 0 \/ elementArray[0] >= low
  /\ \A e \in Elements : e # 0 /\ (established \/ e < elementPtr) => elementArray[e] >= low

(* The array with every element raised to the longest gap without a loss.   *)
Raised(t) == IF t <= high THEN high ELSE t
Top == [e \in Elements |-> Raised(elementArray[e])]
SumTop == SumOver(Elements, Top)[Elements]

(* What is above that comes from the lost pages.                            *)
High == SumTop <= nElements * high + pageTime * lost

Near == timed /\ Undisturbed => Low /\ High

IInv == TypeInv /\ TotalIsSum /\ Blank /\ Unfilled /\ Near

(* An average filled from few losses lies below the page time by the first  *)
(* page's and the jitter at the most, above by the lost pages and jitter.   *)
NearTotal ==
  established /\ Undisturbed =>
    /\ nElements * low - low <= elementTotal
    /\ elementTotal <= nElements * high + pageTime * lost

-----------------------------------------------------------------------------
LEMMA Division ==
  ASSUME NEW n \in Int, NEW m \in Nat \ {0}
  PROVE  /\ n \div m \in Int
         /\ n % m \in 0 .. m - 1
         /\ n = m * (n \div m) + (n % m)
BY SMT

LEMMA Monotone ==
  ASSUME NEW a \in Nat, NEW b \in Nat, NEW c \in Nat, NEW d \in Nat, a <= b, c <= d
  PROVE  a * c \in Nat /\ b * d \in Nat /\ a * c <= b * d
<1>1. b = a + (b - a) /\ b - a \in Nat /\ d = c + (d - c) /\ d - c \in Nat
  OBVIOUS
<1>2. b * d = a * c + a * (d - c) + (b - a) * c + (b - a) * (d - c)
  BY <1>1
<1>3. a * (d - c) \in Nat /\ (b - a) * c \in Nat /\ (b - a) * (d - c) \in Nat /\ a * c \in Nat
  BY <1>1
<1>4. QED
  BY <1>2, <1>3

LEMMA Remainder ==
  ASSUME NEW m \in Nat \ {0}, NEW k \in Int, NEW r \in 0 .. m - 1
  PROVE  (m * k + r) % m = r
<1> DEFINE n == m * k + r
           q == n \div m
           t == n % m
<1>1. n \in Int
  OBVIOUS
<1> HIDE DEF n
<1>2. q \in Int /\ t \in 0 .. m - 1 /\ n = m * q + t
  BY <1>1, Division
<1> HIDE DEF q, t
<1>3. m * k \in Int /\ m * q \in Int /\ n = m * k + r
  BY <1>2 DEF n
<1>4. m * (k - q) = m * k - m * q
  BY <1>2
<1>5. m * (k - q) = t - r
  BY <1>2, <1>3, <1>4
<1>6. k = q
  <2>1. CASE k - q >= 1
    <3>1. k - q \in Nat /\ 1 <= k - q
      BY <1>2, <2>1
    <3>2. m * 1 <= m * (k - q)
      BY <3>1, Monotone
    <3>3. QED
      BY <1>2, <1>5, <3>2
  <2>2. CASE q - k >= 1
    <3>1. q - k \in Nat /\ 1 <= q - k
      BY <1>2, <2>2
    <3>2. m * 1 <= m * (q - k)
      BY <3>1, Monotone
    <3>3. m * (q - k) = m * q - m * k
      BY <1>2
    <3>4. QED
      BY <1>2, <1>3, <3>2, <3>3
  <2>3. QED
    BY <1>2, <2>1, <2>2
<1>7. t = r
  BY <1>2, <1>3, <1>6
<1>8. QED
  BY <1>7 DEF n, t

(* Adding and subtracting need not be exact to leave the right remainder.   *)
LEMMA Wraps ==
  ASSUME NEW n \in Int, NEW d \in Int, NEW m \in Nat \ {0}
  PROVE  ((n % m) + d) % m = (n + d) % m
<1> DEFINE q == n \div m
           x == (n % m) + d
           y == x \div m
           z == x % m
<1>1. q \in Int /\ n % m \in Int /\ n = m * q + (n % m)
  BY Division
<1>2. x \in Int
  BY <1>1
<1>3. y \in Int /\ z \in 0 .. m - 1 /\ x = m * y + z
  <2> HIDE DEF x
  <2>1. QED
    BY <1>2, Division
<1>4. n + d = m * q + x
  BY <1>1
<1> HIDE DEF q, x, y, z
<1>5. n + d = m * q + m * y + z
  BY <1>1, <1>2, <1>3, <1>4
<1>6. m * q + m * y = m * (q + y)
  BY <1>1, <1>3
<1>7. q + y \in Int /\ n + d = m * (q + y) + z
  BY <1>1, <1>3, <1>5, <1>6
<1>8. (n + d) % m = z
  BY <1>3, <1>7, Remainder
<1>9. QED
  BY <1>8 DEF x, z

-----------------------------------------------------------------------------
LEMMA Constants ==
  /\ nElements \in Nat /\ nElements > 10 /\ MaxPackets \in Nat /\ MaxPackets # 0
  /\ MaxLost \in Nat /\ Jitter \in Nat /\ PacketTime \in Nat /\ PacketTime # 0
  /\ TimeMod \in Nat \ {0} /\ Offsets \subseteq Int
  /\ IsFiniteSet(Elements) /\ Cardinality(Elements) = nElements /\ 0 \in Elements
<1>1. /\ nElements \in Nat /\ nElements > 10 /\ MaxPackets \in Nat /\ MaxPackets # 0
      /\ MaxLost \in Nat /\ Jitter \in Nat /\ PacketTime \in Nat /\ PacketTime # 0
      /\ TimeMod \in Nat /\ Offsets \subseteq Int
      /\ nElements * ((MaxLost + 1) * (MaxPackets * PacketTime) + Jitter) < TimeMod
  BY TimingAssumption
<1>2. TimeMod # 0
  <2>1. MaxPackets * PacketTime \in Nat /\ MaxLost + 1 \in Nat
    BY <1>1, Monotone
  <2>2. (MaxLost + 1) * (MaxPackets * PacketTime) \in Nat
    BY <2>1, Monotone
  <2>3. (MaxLost + 1) * (MaxPackets * PacketTime) + Jitter \in Nat
    BY <1>1, <2>2
  <2>4. nElements * ((MaxLost + 1) * (MaxPackets * PacketTime) + Jitter) \in Nat
    BY <1>1, <2>3, Monotone
  <2>5. QED
    BY <1>1, <2>4
<1>3. 0 <= nElements - 1 /\ nElements - 1 \in Int /\ (nElements - 1) - 0 + 1 = nElements
  BY <1>1
<1>4. IsFiniteSet(Elements) /\ Cardinality(Elements) = nElements
  <2>1. /\ IsFiniteSet(0 .. nElements - 1)
        /\ Cardinality(0 .. nElements - 1) =
             IF 0 > nElements - 1 THEN 0 ELSE (nElements - 1) - 0 + 1
    BY <1>3, FS_Interval
  <2>2. QED
    BY <1>1, <2>1 DEF Elements
<1>5. 0 \in Elements
  BY <1>1 DEF Elements
<1>6. QED
  BY <1>1, <1>2, <1>4, <1>5

LEMMA SumIs == Sum = SumOf(elementArray)
BY FoldIsSum DEF Sum

LEMMA SameSum ==
  ASSUME elementArray' = elementArray
  PROVE  Sum' = Sum
<1>1. Sum = SumOf(elementArray)
  BY SumIs
<1>2. (Sum = SumOf(elementArray))'
  BY SumIs, PTL
<1>3. QED
  BY <1>1, <1>2

LEMMA ArraySum ==
  elementArray \in [Elements -> Nat] =>
    Sum = SumOver(Elements, elementArray)[Elements] /\ Sum \in Nat
<1>1. SUFFICES ASSUME elementArray \in [Elements -> Nat]
               PROVE  Sum = SumOver(Elements, elementArray)[Elements] /\ Sum \in Nat
  OBVIOUS
<1>2. Sum = SumOver(Elements, elementArray)[Elements]
  BY <1>1, SumIs DEF SumOf
<1>3. SumOver(Elements, elementArray)[Elements] \in Nat
  BY <1>1, SumTyped, Constants
<1>4. QED
  BY <1>2, <1>3

LEMMA SumType == TypeInv => elementArray \in [Elements -> Nat] /\ Sum \in Nat
<1>1. TypeInv => elementArray \in [Elements -> Nat]
  BY DEF TypeInv
<1>2. QED
  BY <1>1, ArraySum

-----------------------------------------------------------------------------
LEMMA Pushed ==
  ASSUME TypeInv, TotalIsSum, NEW e \in 0 .. TimeMod - 1, ma_push(e)
  PROVE  /\ elementArray' = [elementArray EXCEPT ![elementPtr] = e]
         /\ elementArray' \in [Elements -> 0 .. TimeMod - 1]
         /\ elementPtr' = IF elementPtr + 1 = nElements THEN 0 ELSE elementPtr + 1
         /\ elementPtr' \in Elements /\ elementTotal' \in 0 .. TimeMod - 1
         /\ established' = (established \/ elementPtr' = 0) /\ established' \in BOOLEAN
         /\ Sum' \in Nat /\ Sum' = Sum - elementArray[elementPtr] + e
         /\ TotalIsSum'
<1> DEFINE old == elementArray[elementPtr]
<1>1. /\ elementTotal' = (elementTotal - old + e) % TimeMod
      /\ elementArray' = [elementArray EXCEPT ![elementPtr] = e]
      /\ elementPtr' = (elementPtr + 1) % nElements
      /\ established' = (established \/ elementPtr' = 0)
  BY DEF ma_push
<1>2. elementPtr \in Elements /\ old \in Nat /\ e \in Nat /\ established \in BOOLEAN
  BY Constants DEF TypeInv
<1>3. elementArray' \in [Elements -> 0 .. TimeMod - 1]
  BY <1>1, <1>2 DEF TypeInv
<1>4. elementPtr' = IF elementPtr + 1 = nElements THEN 0 ELSE elementPtr + 1
  <2>1. CASE elementPtr + 1 = nElements
    <3>1. (nElements * 1 + 0) % nElements = 0
      BY Constants, Remainder
    <3>2. QED
      BY <1>1, <2>1, <3>1, Constants
  <2>2. CASE elementPtr + 1 # nElements
    <3>1. elementPtr + 1 \in 0 .. nElements - 1
      BY <1>2, <2>2, Constants DEF Elements
    <3>2. (nElements * 0 + (elementPtr + 1)) % nElements = elementPtr + 1
      BY <3>1, Constants, Remainder
    <3>3. nElements * 0 + (elementPtr + 1) = elementPtr + 1
      BY <3>1, Constants
    <3>4. QED
      BY <1>1, <2>2, <3>2, <3>3
  <2>3. QED
    BY <2>1, <2>2
<1>5. elementPtr' \in Elements
  BY <1>2, <1>4, Constants DEF Elements
<1>6. Sum \in Nat /\ Sum' = Sum - old + e /\ Sum' \in Nat
  <2>1. elementArray \in [Elements -> Nat] /\ Sum \in Nat
    BY SumType
  <2>2. elementArray' \in [Elements -> Nat]
    BY <1>1, <1>2, <2>1
  <2>3. Sum = SumOver(Elements, elementArray)[Elements]
    BY <2>1, ArraySum
  <2>4. /\ Sum' = SumOver(Elements, elementArray')[Elements]
        /\ Sum' \in Nat
    <3>1. (Sum = SumOf(elementArray))'
      BY SumIs, PTL
    <3>2. DOMAIN elementArray' = Elements
      BY <2>2
    <3>3. SumOver(Elements, elementArray')[Elements] \in Nat
      BY <2>2, Constants, SumTyped
    <3>4. QED
      BY <3>1, <3>2, <3>3 DEF SumOf
  <2>5. Exchanged(SumOver(Elements, elementArray')[Elements],
                  SumOver(Elements, elementArray)[Elements], elementArray[elementPtr], e)
    BY <1>1, <1>2, <2>1, Constants, SumReplaces
  <2>6. QED
    BY <1>1, <2>1, <2>3, <2>4, <2>5 DEF Exchanged
<1>7. elementTotal' = Sum' % TimeMod
  <2>1. elementTotal = Sum % TimeMod
    BY DEF TotalIsSum, Sum
  <2>2. elementTotal' = ((Sum % TimeMod) + (e - old)) % TimeMod
    <3>1. elementTotal \in Int
      BY Constants DEF TypeInv
    <3>2. elementTotal - old + e = elementTotal + (e - old)
      BY <1>2, <3>1
    <3>3. elementTotal' = (elementTotal + (e - old)) % TimeMod
      BY <1>1, <3>2, Zenon
    <3>4. QED
      BY <2>1, <3>3, Zenon
  <2>3. ((Sum % TimeMod) + (e - old)) % TimeMod = (Sum + (e - old)) % TimeMod
    <3>1. Sum \in Int /\ e - old \in Int /\ TimeMod \in Nat \ {0}
      BY <1>2, <1>6, Constants
    <3>2. QED
      BY <3>1, Wraps, Zenon
  <2>4. Sum + (e - old) = Sum'
    BY <1>2, <1>6
  <2>5. QED
    BY <2>2, <2>3, <2>4, Zenon
<1>8. elementTotal' \in 0 .. TimeMod - 1
  <2>1. Sum' \in Int /\ TimeMod \in Nat \ {0}
    BY <1>6, Constants
  <2>2. Sum' % TimeMod \in 0 .. TimeMod - 1
    BY <2>1, Division, Zenon
  <2>3. QED
    BY <1>7, <2>2, Zenon
<1>9. TotalIsSum'
  BY <1>7 DEF TotalIsSum, Sum
<1>10. QED
  BY <1>1, <1>2, <1>3, <1>4, <1>5, <1>6, <1>8, <1>9

LEMMA ZeroSum == elementArray = [e \in Elements |-> 0] => Sum = 0
<1>1. SUFFICES ASSUME elementArray = [e \in Elements |-> 0] PROVE Sum = 0
  OBVIOUS
<1>2. elementArray \in [Elements -> Nat]
  BY <1>1
<1>3. Sum = SumOver(Elements, elementArray)[Elements]
  BY <1>2, ArraySum
<1>4. SumOver(Elements, elementArray)[Elements] = 0
  BY <1>1, Constants, SumOfZeros
<1>5. QED
  BY <1>3, <1>4

-----------------------------------------------------------------------------
(* The longest gap that a page time may be, after all losses. *)
Longest == (MaxLost + 1) * (MaxPackets * PacketTime)

LEMMA Capacity ==
  /\ Longest \in Nat /\ nElements * Longest \in Nat /\ nElements * Jitter \in Nat
  /\ nElements * Longest + nElements * Jitter < TimeMod
  /\ Longest + Jitter < TimeMod
<1>1. Longest \in Nat
  <2>1. MaxPackets * PacketTime \in Nat /\ MaxLost + 1 \in Nat
    BY Constants, Monotone
  <2>2. QED
    BY <2>1, Monotone DEF Longest
<1>2. nElements * (Longest + Jitter) < TimeMod
  BY TimingAssumption DEF Longest
<1>3. /\ nElements * (Longest + Jitter) = nElements * Longest + nElements * Jitter
      /\ nElements * Longest \in Nat /\ nElements * Jitter \in Nat
  <2>1. nElements * Longest \in Nat /\ nElements * Jitter \in Nat
    BY <1>1, Constants, Monotone
  <2>2. QED
    BY <1>1, <2>1, Constants
<1>4. 1 * (Longest + Jitter) <= nElements * (Longest + Jitter)
  <2>1. Longest + Jitter \in Nat /\ 1 <= nElements
    BY <1>1, Constants
  <2>2. QED
    BY <2>1, Constants, Monotone
<1>5. 1 * (Longest + Jitter) = Longest + Jitter /\ Longest + Jitter \in Nat
  BY <1>1, Constants
<1>6. QED
  BY <1>1, <1>2, <1>3, <1>4, <1>5, Constants

LEMMA PageTimes ==
  ASSUME TypeInv
  PROVE  /\ pageTime \in Nat \ {0} /\ Jitter <= pageTime
         /\ 21 * (nElements * Jitter) - 11 * Jitter <= nElements * pageTime - 11 * pageTime
         /\ nElements * pageTime \in Nat /\ nElements * Jitter \in Nat
         /\ \A k \in 0 .. MaxLost :
              /\ (1 + k) * pageTime \in Nat /\ k * pageTime \in Nat
              /\ (1 + k) * pageTime = pageTime + k * pageTime
              /\ (1 + k) * pageTime <= Longest
<1>1. /\ packets \in Nat /\ 1 <= packets /\ packets <= MaxPackets
      /\ PacketTime \in Nat /\ 1 <= PacketTime
      /\ MaxPackets \in Nat /\ nElements \in Nat /\ nElements > 10 /\ Jitter \in Nat
      /\ MaxLost \in Nat
  BY Constants DEF TypeInv
<1>2. pageTime \in Nat /\ 1 * PacketTime <= pageTime /\ pageTime <= MaxPackets * PacketTime
  BY <1>1, Monotone DEF pageTime
<1>3. PacketTime <= pageTime
  BY <1>1, <1>2
<1>4. MaxPackets * PacketTime \in Nat
  BY <1>1, Monotone
<1>5. nElements * pageTime \in Nat /\ nElements * Jitter \in Nat
  BY <1>1, <1>2, Monotone
<1>6. (nElements - 11) * PacketTime <= (nElements - 11) * pageTime
  <2>1. nElements - 11 \in Nat
    BY <1>1
  <2>2. QED
    BY <1>1, <1>2, <1>3, <2>1, Monotone
<1>7. /\ (21 * nElements - 11) * Jitter = 21 * (nElements * Jitter) - 11 * Jitter
      /\ (nElements - 11) * pageTime = nElements * pageTime - 11 * pageTime
      /\ (nElements - 11) * PacketTime \in Int
  BY <1>1, <1>2
<1>8. 21 * (nElements * Jitter) - 11 * Jitter <= nElements * pageTime - 11 * pageTime
  <2> DEFINE a == (nElements - 11) * PacketTime
             b == (21 * nElements - 11) * Jitter
             c == nElements * pageTime - 11 * pageTime
  <2>1. b <= a
    BY TimingAssumption
  <2>2. a <= c
    BY <1>6, <1>7
  <2>3. a \in Int /\ b \in Int /\ c \in Int
    BY <1>1, <1>2, <1>5, <1>7
  <2> HIDE DEF a, b, c
  <2>4. b <= c
    BY <2>1, <2>2, <2>3
  <2>5. QED
    BY <1>7, <2>4 DEF b, c
<1>9. Jitter <= pageTime
  <2>1. SUFFICES ASSUME pageTime <= Jitter PROVE Jitter <= pageTime
    BY <1>1, <1>2
  <2>2. nElements * pageTime <= nElements * Jitter
    BY <1>1, <1>2, <2>1, Monotone
  <2>3. 11 * Jitter <= nElements * Jitter
    BY <1>1, Monotone
  <2> DEFINE b == nElements * Jitter
             c == nElements * pageTime
  <2>4. b \in Nat /\ c \in Nat /\ 21 * b - 11 * Jitter <= c - 11 * pageTime
        /\ c <= b /\ 11 * Jitter <= b
    BY <1>5, <1>8, <2>2, <2>3
  <2> HIDE DEF b, c
  <2>5. QED
    BY <1>1, <1>2, <2>4
<1>10. ASSUME NEW k \in 0 .. MaxLost
       PROVE  /\ (1 + k) * pageTime \in Nat /\ k * pageTime \in Nat
              /\ (1 + k) * pageTime = pageTime + k * pageTime
              /\ (1 + k) * pageTime <= Longest
  <2>1. k \in Nat /\ 1 + k \in Nat /\ 1 + k <= MaxLost + 1 /\ MaxLost + 1 \in Nat
    BY <1>1
  <2>2. (1 + k) * pageTime \in Nat /\ k * pageTime \in Nat
    BY <1>2, <2>1, Monotone
  <2>3. (1 + k) * pageTime = pageTime + k * pageTime
    BY <1>2, <2>1
  <2>4. (1 + k) * pageTime <= (MaxLost + 1) * (MaxPackets * PacketTime)
    BY <1>2, <1>4, <2>1, Monotone
  <2>5. QED
    BY <2>2, <2>3, <2>4 DEF Longest
<1>11. QED
  BY <1>1, <1>2, <1>3, <1>5, <1>8, <1>9, <1>10

(* What enters the average is in range, and exact if the gap is off by no   *)
(* more than the jitter.                                                    *)
LEMMA Times ==
  ASSUME TypeInv, NEW d \in Int
  PROVE  /\ Uint64(d) \subseteq 0 .. TimeMod - 1
         /\ Uint64(0) = {0}
         /\ d \in 0 .. TimeMod - 1 => Uint64(d) = {d}
<1>1. TimeMod \in Nat \ {0} /\ 0 \in 0 .. TimeMod - 1
  BY Constants
<1>2. d % TimeMod \in 0 .. TimeMod - 1
  BY <1>1, Division
<1>3. Uint64(d) \subseteq 0 .. TimeMod - 1
  BY <1>1, <1>2 DEF Uint64
<1>4. ASSUME NEW x \in 0 .. TimeMod - 1 PROVE Uint64(x) = {x}
  <2>1. (TimeMod * 0 + x) % TimeMod = x
    BY <1>1, Remainder
  <2>2. TimeMod * 0 + x = x /\ ~ x < 0
    BY <1>1
  <2>3. x % TimeMod = x
    BY <2>1, <2>2
  <2>4. QED
    BY <2>2, <2>3 DEF Uint64
<1>5. QED
  BY <1>1, <1>3, <1>4

LEMMA GapTimes ==
  ASSUME TypeInv, NEW missing \in 0 .. MaxLost - lost, NEW off \in -Jitter .. Jitter
  PROVE  LET d == (1 + missing) * pageTime + off
         IN  /\ d \in Nat /\ Uint64(d) = {d}
             /\ d >= low /\ d <= high + pageTime * missing
             /\ missing = 0 => d = pageTime + off
             /\ missing # 0 => d >= pageTime + low
<1> DEFINE d == (1 + missing) * pageTime + off
           g == missing * pageTime
<1>1. missing \in 0 .. MaxLost /\ missing \in Nat
  BY Constants DEF TypeInv
<1>2. /\ (1 + missing) * pageTime \in Nat /\ g \in Nat
      /\ (1 + missing) * pageTime = pageTime + g
      /\ (1 + missing) * pageTime <= Longest
      /\ pageTime \in Nat /\ Jitter <= pageTime
  BY <1>1, PageTimes
<1>3. missing # 0 => g >= pageTime
  <2>1. SUFFICES ASSUME missing # 0 PROVE g >= pageTime
    OBVIOUS
  <2>2. 1 * pageTime <= missing * pageTime
    BY <1>1, <1>2, <2>1, Monotone
  <2>3. QED
    BY <1>2, <2>2
<1>4. missing = 0 => g = 0
  BY <1>2
<1>5. d = pageTime + g + off
  BY <1>2
<1>6. pageTime * missing = g
  BY <1>1, <1>2
<1>7. d \in Nat /\ d < TimeMod
  BY <1>2, Constants, Capacity
<1>8. Uint64(d) = {d}
  <2>1. d \in 0 .. TimeMod - 1 /\ d \in Int
    BY <1>7, Constants
  <2> HIDE DEF d
  <2>2. QED
    BY <2>1, Times
<1> HIDE DEF d, g
<1>9. /\ d >= low /\ d <= high + g
      /\ missing = 0 => d = pageTime + off
      /\ missing # 0 => d >= pageTime + low
  BY <1>2, <1>3, <1>4, <1>5, Constants DEF low, high
<1>10. QED
  BY <1>6, <1>7, <1>8, <1>9 DEF d

-----------------------------------------------------------------------------
LEMMA TopTyped ==
  ASSUME TypeInv
  PROVE  /\ Top \in [Elements -> Nat] /\ high \in Nat /\ low \in Nat
         /\ \A e \in Elements : elementArray[e] <= Top[e] /\ Top[e] >= high
         /\ SumTop \in Nat /\ Sum <= SumTop
<1>1. high \in Nat /\ low \in Nat
  <2>1. pageTime \in Nat /\ Jitter \in Nat /\ Jitter <= pageTime
    BY PageTimes, Constants
  <2>2. QED
    BY <2>1 DEF low, high
<1>2. elementArray \in [Elements -> Nat]
  BY SumType
<1>3. /\ Top \in [Elements -> Nat]
      /\ \A e \in Elements : elementArray[e] <= Top[e] /\ Top[e] >= high
  BY <1>1, <1>2 DEF Top, Raised
<1>4. SumTop \in Nat
  BY <1>3, Constants, SumTyped DEF SumTop
<1>5. Sum <= SumTop
  <2>1. Sum = SumOver(Elements, elementArray)[Elements]
    BY <1>2, ArraySum
  <2>2. QED
    BY <1>2, <1>3, <2>1, Constants, SumMonotone DEF SumTop
<1>6. QED
  BY <1>1, <1>3, <1>4, <1>5

(* What a push changes of the raised array. *)
LEMMA TopPushed ==
  ASSUME TypeInv, UNCHANGED packets, NEW e \in 0 .. TimeMod - 1,
         elementArray' = [elementArray EXCEPT ![elementPtr] = e]
  PROVE  SumTop' = SumTop - Top[elementPtr] + Raised(e)
<1>1. high' = high
  BY DEF high, pageTime
<1>2. \A x \in Elements : elementArray'[x] = IF x = elementPtr THEN e ELSE elementArray[x]
  BY DEF TypeInv
<1>3. Top' = [x \in Elements |-> IF x = elementPtr THEN Raised(e) ELSE Raised(elementArray[x])]
  BY <1>1, <1>2 DEF Top, Raised
<1>4. Top' = [Top EXCEPT ![elementPtr] = Raised(e)]
  BY <1>3 DEF Top
<1>5. Raised(e) \in Nat /\ Top \in [Elements -> Nat] /\ elementPtr \in Elements
  BY TopTyped, Constants DEF Raised, TypeInv
<1> DEFINE h == Top'
<1>6. h = [Top EXCEPT ![elementPtr] = Raised(e)]
  BY <1>4
<1>7. SumTop' = SumOver(Elements, h)[Elements]
  BY DEF SumTop
<1> HIDE DEF h
<1>8. Exchanged(SumOver(Elements, h)[Elements], SumOver(Elements, Top)[Elements],
                Top[elementPtr], Raised(e))
  BY <1>5, <1>6, Constants, SumReplaces
<1>9. QED
  BY <1>7, <1>8 DEF Exchanged, SumTop

(* The least that an established average can be the sum of. *)
LEMMA LeastSum ==
  ASSUME TypeInv, established, Low
  PROVE  nElements * low - low <= Sum
<1>1. /\ elementArray \in [Elements -> Nat] /\ Sum \in Nat /\ low \in Nat
      /\ Sum = SumOver(Elements, elementArray)[Elements]
  BY SumType, ArraySum, TopTyped
<1>2. /\ IsFiniteSet(Elements) /\ Cardinality(Elements) = nElements
      /\ nElements \in Nat /\ 0 \in Elements
  BY Constants
<1>3. /\ low * nElements \in Nat /\ low * nElements = nElements * low
  <2>1. low * nElements \in Nat
    BY <1>1, <1>2, Monotone
  <2>2. QED
    BY <1>1, <1>2, <2>1
<1>4. \A e \in Elements : e # 0 => elementArray[e] >= low
  BY DEF Low
<1>5. CASE elementArray[0] >= low
  <2>1. \A e \in Elements : elementArray[e] >= low
    BY <1>4, <1>5
  <2>2. Sum >= low * nElements
    BY <1>1, <1>2, <2>1, SumBounds
  <2>3. QED
    BY <1>1, <1>3, <2>2
<1>6. CASE elementArray[0] = 0
  <2> DEFINE h == [elementArray EXCEPT ![0] = low]
  <2>1. h \in [Elements -> Nat]
    BY <1>1, <1>2
  <2>2. \A e \in Elements : h[e] >= low
    BY <1>1, <1>4
  <2>3. h = [elementArray EXCEPT ![0] = low]
    OBVIOUS
  <2> HIDE DEF h
  <2>4. SumOver(Elements, h)[Elements] >= low * nElements
    BY <1>1, <1>2, <2>1, <2>2, SumBounds
  <2>5. Exchanged(SumOver(Elements, h)[Elements], SumOver(Elements, elementArray)[Elements],
                  elementArray[0], low)
    BY <1>1, <1>2, <2>3, SumReplaces
  <2>6. SumOver(Elements, h)[Elements] = Sum + low
    BY <1>1, <1>6, <2>5 DEF Exchanged
  <2>7. QED
    BY <1>1, <1>3, <2>4, <2>6
<1>7. QED
  BY <1>5, <1>6 DEF Low

-----------------------------------------------------------------------------
(* A sum near to that of nElements page times admits every gap without a    *)
(* loss and no longer one.                                                  *)
LEMMA Admits ==
  ASSUME NEW p \in Nat \ {0}, NEW j \in Nat, NEW n \in Nat \ {0}, NEW m \in Nat, NEW S \in Nat,
         n * p \in Nat, n * j \in Nat, j <= p,
         21 * (n * j) - 11 * j <= n * p - 11 * p,
         9 * m + 19 * (n * j) <= n * p,
         (n * p - n * j) - (p - j) <= S, S <= (n * p + n * j) + m
  PROVE  /\ \A o \in -j .. j : /\ 10 * n * (p + o) <= 11 * S
                               /\ 10 * n * (p + o) >= 9 * S
         /\ \A e \in Nat : e >= p + (p - j) => ~ 10 * n * e <= 11 * S
<1> DEFINE a == n * p
           b == n * j
<1>1. a \in Nat /\ b \in Nat
  OBVIOUS
<1>2. a >= 1
  <2>1. 1 * 1 <= n * p
    BY Monotone
  <2>2. QED
    BY <2>1
<1>3. \A o \in -j .. j : /\ 10 * n * (p + o) = 10 * a + 10 * (n * o)
                         /\ n * o \in Int /\ n * o <= b /\ n * o >= - b
  <2> SUFFICES ASSUME NEW o \in -j .. j
               PROVE  /\ 10 * n * (p + o) = 10 * a + 10 * (n * o)
                      /\ n * o \in Int /\ n * o <= b /\ n * o >= - b
    OBVIOUS
  <2>1. 10 * n * (p + o) = 10 * a + 10 * (n * o) /\ n * o \in Int
    OBVIOUS
  <2>2. n * (o + j) <= n * (j + j) /\ n * (o + j) \in Nat
    <3>1. o + j \in Nat /\ j + j \in Nat /\ o + j <= j + j
      OBVIOUS
    <3>2. QED
      BY <3>1, Monotone
  <2>3. n * (o + j) = n * o + b /\ n * (j + j) = b + b
    OBVIOUS
  <2> DEFINE c == n * o
  <2>4. c \in Int /\ c + b <= b + b /\ c + b >= 0
    BY <2>1, <2>2, <2>3
  <2> HIDE DEF b, c
  <2>5. c <= b /\ c >= - b
    BY <1>1, <2>4
  <2>6. QED
    BY <2>1, <2>5 DEF c
<1>4. \A e \in Nat : e >= p + (p - j) => 10 * n * e \in Nat /\ 10 * n * e >= 20 * a - 10 * b
  <2> SUFFICES ASSUME NEW e \in Nat, e >= p + (p - j)
               PROVE  10 * n * e \in Nat /\ 10 * n * e >= 20 * a - 10 * b
    OBVIOUS
  <2> DEFINE q == p + (p - j)
  <2>1. q \in Nat /\ q <= e
    OBVIOUS
  <2>2. n * q = 2 * a - b
    OBVIOUS
  <2> HIDE DEF q
  <2>3. n * q <= n * e /\ n * e \in Nat
    BY <2>1, Monotone
  <2>4. 10 * n * e = 10 * (n * e)
    OBVIOUS
  <2> DEFINE c == n * e
  <2>5. c \in Nat /\ 2 * a - b <= c
    BY <2>2, <2>3
  <2> HIDE DEF a, b, c
  <2>6. 10 * c >= 20 * a - 10 * b
    BY <1>1, <2>5
  <2>7. QED
    BY <2>4, <2>5, <2>6 DEF c
<1>5. /\ 21 * b - 11 * j <= a - 11 * p /\ 9 * m + 19 * b <= a
      /\ (a - b) - (p - j) <= S /\ S <= (a + b) + m
  OBVIOUS
<1> HIDE DEF a, b
<1>6. 10 * a + 10 * b <= 11 * S /\ 10 * a - 10 * b >= 9 * S /\ 20 * a - 10 * b > 11 * S
  BY <1>1, <1>2, <1>5
<1>7. ASSUME NEW o \in -j .. j
      PROVE  10 * n * (p + o) <= 11 * S /\ 10 * n * (p + o) >= 9 * S
  <2> DEFINE c == n * o
             x == 10 * n * (p + o)
  <2>1. x = 10 * a + 10 * c /\ c \in Int /\ c <= b /\ c >= - b
    BY <1>3
  <2> HIDE DEF c, x
  <2>2. x <= 11 * S /\ x >= 9 * S
    BY <1>1, <1>6, <2>1
  <2>3. QED
    BY <2>2 DEF x
<1>8. ASSUME NEW e \in Nat, e >= p + (p - j) PROVE ~ 10 * n * e <= 11 * S
  <2> DEFINE x == 10 * n * e
  <2>1. x \in Nat /\ x >= 20 * a - 10 * b
    BY <1>4, <1>8
  <2> HIDE DEF x
  <2>2. ~ x <= 11 * S
    BY <1>1, <1>6, <2>1
  <2>3. QED
    BY <2>2 DEF x
<1>9. QED
  BY <1>7, <1>8

(* An established average takes the time of a page, more or less by the     *)
(* jitter, but not that of two pages or more.                               *)
LEMMA Constrains ==
  ASSUME IInv, established, Undisturbed
  PROVE  /\ elementTotal = Sum
         /\ nElements * low - low <= Sum /\ Sum <= nElements * high + pageTime * lost
         /\ \A off \in -Jitter .. Jitter : ma_constrain(pageTime + off)
         /\ \A e \in Nat : e >= pageTime + low => ~ ma_constrain(e)
<1>1. TypeInv /\ TotalIsSum /\ timed
  BY DEF IInv, Blank
<1>2. Low /\ High
  BY <1>1 DEF IInv, Near
<1>3. /\ pageTime \in Nat \ {0} /\ Jitter \in Nat /\ nElements \in Nat \ {0} /\ lost \in Nat
      /\ Sum \in Nat /\ nElements * pageTime \in Nat /\ nElements * Jitter \in Nat
      /\ Jitter <= pageTime
      /\ 21 * (nElements * Jitter) - 11 * Jitter <= nElements * pageTime - 11 * pageTime
  BY <1>1, PageTimes, Constants, SumType DEF TypeInv
<1>4. nElements * low - low <= Sum
  BY <1>1, <1>2, LeastSum
<1>5. Sum <= nElements * high + pageTime * lost
  <2>1. SumTop \in Nat /\ Sum <= SumTop
    BY <1>1, TopTyped
  <2>2. nElements * high \in Nat /\ pageTime * lost \in Nat
    BY <1>1, <1>3, TopTyped, Monotone
  <2> DEFINE c == nElements * high + pageTime * lost
  <2>3. SumTop <= c /\ c \in Nat
    BY <1>2, <2>2 DEF High
  <2> HIDE DEF c
  <2>4. Sum <= c
    BY <1>3, <2>1, <2>3
  <2>5. QED
    BY <2>4 DEF c
<1> DEFINE m == pageTime * lost
<1>6. /\ nElements * low - low = (nElements * pageTime - nElements * Jitter) - (pageTime - Jitter)
      /\ nElements * high = nElements * pageTime + nElements * Jitter
  BY <1>3 DEF low, high
<1>7. m \in Nat /\ 9 * m + 19 * (nElements * Jitter) <= nElements * pageTime
  <2>1. 9 * lost * pageTime + 19 * nElements * Jitter <= nElements * pageTime
    BY DEF Undisturbed
  <2>2. m \in Nat
    BY <1>3, Monotone
  <2>3. 9 * lost * pageTime = 9 * m /\ 19 * nElements * Jitter = 19 * (nElements * Jitter)
    BY <1>3
  <2>4. QED
    BY <2>1, <2>2, <2>3
<1> HIDE DEF m
<1>8. /\ (nElements * pageTime - nElements * Jitter) - (pageTime - Jitter) <= Sum
      /\ Sum <= (nElements * pageTime + nElements * Jitter) + m
  BY <1>4, <1>5, <1>6 DEF m
<1>9. /\ \A o \in -Jitter .. Jitter :
           /\ 10 * nElements * (pageTime + o) <= 11 * Sum
           /\ 10 * nElements * (pageTime + o) >= 9 * Sum
      /\ \A e \in Nat : e >= pageTime + (pageTime - Jitter) => ~ 10 * nElements * e <= 11 * Sum
  BY <1>3, <1>7, <1>8, Admits
<1>10. elementTotal = Sum
  <2>1. /\ (1 + lost) * pageTime \in Nat /\ (1 + lost) * pageTime = pageTime + lost * pageTime
        /\ (1 + lost) * pageTime <= Longest /\ lost * pageTime \in Nat
    <3>1. lost \in 0 .. MaxLost
      BY <1>1 DEF TypeInv
    <3>2. QED
      BY <1>1, <3>1, PageTimes
  <2> DEFINE l == lost * pageTime
  <2>2. m = l /\ l \in Nat
    BY <1>3, <2>1 DEF m
  <2>3. nElements * ((1 + lost) * pageTime) <= nElements * Longest
    BY <1>3, <2>1, Capacity, Monotone
  <2>4. nElements * ((1 + lost) * pageTime) = nElements * pageTime + nElements * l
    BY <1>3, <2>1
  <2> HIDE DEF l
  <2>5. 1 * l <= nElements * l /\ nElements * l \in Nat
    <3>1. 1 <= nElements
      BY <1>3
    <3>2. QED
      BY <1>3, <2>2, <3>1, Monotone
  <2> DEFINE a == nElements * pageTime
             b == nElements * Jitter
             c == nElements * l
             d == nElements * Longest
  <2>6. /\ a \in Nat /\ b \in Nat /\ c \in Nat /\ d \in Nat
        /\ Sum <= (a + b) + l /\ a + c <= d /\ l <= c /\ d + b < TimeMod
    BY <1>3, <1>8, <2>2, <2>3, <2>4, <2>5, Capacity
  <2> HIDE DEF a, b, c, d
  <2>7. Sum \in 0 .. TimeMod - 1
    BY <1>3, <2>2, <2>6, Constants
  <2>8. (TimeMod * 0 + Sum) % TimeMod = Sum /\ TimeMod * 0 + Sum = Sum
    BY <2>7, Constants, Remainder
  <2>9. QED
    BY <1>1, <2>8 DEF TotalIsSum, Sum
<1>11. /\ \A off \in -Jitter .. Jitter : ma_constrain(pageTime + off)
       /\ \A e \in Nat : e >= pageTime + low => ~ ma_constrain(e)
  BY <1>9, <1>10, Zenon DEF ma_constrain, low
<1>12. QED
  BY <1>4, <1>5, <1>10, <1>11

-----------------------------------------------------------------------------
LEMMA InitIInv == Init => IInv
<1>1. SUFFICES ASSUME Init PROVE IInv
  OBVIOUS
<1>2. TypeInv
  <2>1. 0 \in 0 .. TimeMod - 1 /\ 0 \in 0 .. MaxLost /\ 0 \in Elements
    BY Constants
  <2>2. QED
    BY <1>1, <2>1 DEF Init, TypeInv
<1>3. TotalIsSum
  <2>1. Sum = 0
    BY <1>1, ZeroSum DEF Init
  <2>2. 0 \in 0 .. TimeMod - 1 /\ TimeMod * 0 + 0 = 0
    BY Constants
  <2>3. (TimeMod * 0 + 0) % TimeMod = 0
    BY <2>2, Constants, Remainder
  <2>4. QED
    BY <1>1, <2>1, <2>2, <2>3 DEF Init, TotalIsSum, Sum
<1>4. Blank /\ Unfilled /\ Near
  BY <1>1, Constants DEF Init, Blank, Unfilled, Near
<1>5. QED
  BY <1>2, <1>3, <1>4 DEF IInv

(* The first page of a stream: its time is 0. *)
LEMMA FirstStep ==
  ASSUME IInv, ~ timed, timed', ma_push(0), UNCHANGED <<packets, lost, strayed, resized>>
  PROVE  IInv'
<1>1. TypeInv /\ TotalIsSum /\ 0 \in 0 .. TimeMod - 1
  BY Constants DEF IInv
<1>2. elementPtr = 0 /\ ~ established /\ lost = 0
  BY DEF IInv, Blank
<1>3. elementArray = [e \in Elements |-> 0]
  BY <1>1, <1>2, Constants DEF IInv, Unfilled, TypeInv, Elements
<1>4. /\ elementArray' = [elementArray EXCEPT ![elementPtr] = 0]
      /\ elementArray' \in [Elements -> 0 .. TimeMod - 1]
      /\ elementPtr' = IF elementPtr + 1 = nElements THEN 0 ELSE elementPtr + 1
      /\ elementPtr' \in Elements /\ elementTotal' \in 0 .. TimeMod - 1
      /\ established' = (established \/ elementPtr' = 0) /\ established' \in BOOLEAN
      /\ TotalIsSum'
  BY <1>1, Pushed
<1>5. elementPtr' = 1 /\ ~ established'
  <2>1. elementPtr' = 1
    <3>1. nElements # 1
      BY Constants
    <3>2. QED
      BY <1>2, <1>4, <3>1
  <2>2. elementPtr' # 0
    BY <2>1
  <2>3. ~ established'
    BY <1>2, <1>4, <2>2, Zenon
  <2>4. QED
    BY <2>1, <2>3
<1>6. elementArray' = elementArray
  BY <1>2, <1>3, <1>4, Constants
<1>7. TypeInv'
  BY <1>1, <1>4 DEF TypeInv
<1>8. Unfilled' /\ Blank'
  BY <1>3, <1>5, <1>6, Constants DEF Unfilled, Blank
<1>9. Low'
  BY <1>3, <1>5, <1>6, Constants DEF Low, Elements
<1>10. High'
  <2>1. high' = high /\ pageTime' = pageTime
    BY DEF high, pageTime
  <2>2. SumTop' = SumTop
    BY <1>6, <2>1 DEF SumTop, Top, Raised
  <2>3. Top \in [Elements -> Nat] /\ high \in Nat
    BY <1>1, TopTyped
  <2>4. \A x \in Elements : Top[x] = high
    BY <1>3, <2>3 DEF Top, Raised
  <2>5. SumTop = high * nElements
    BY <2>3, <2>4, Constants, SumOfEqual DEF SumTop
  <2>6. pageTime * lost = 0 /\ high * nElements = nElements * high /\ nElements * high \in Int
    <3>1. pageTime \in Nat
      BY <1>1, PageTimes
    <3>2. QED
      BY <1>2, <2>3, <3>1, Constants
  <2>7. SumTop <= nElements * high + pageTime * lost
    BY <2>5, <2>6
  <2>8. lost' = lost
    OBVIOUS
  <2>9. QED
    BY <2>1, <2>2, <2>7, <2>8 DEF High
<1>11. QED
  BY <1>4, <1>7, <1>8, <1>9, <1>10 DEF IInv, Near

(* What every later push while the average is filled leaves in the array.   *)
LEMMA FillingArray ==
  ASSUME IInv, timed, ~ established, NEW e \in 0 .. TimeMod - 1, ma_push(e), timed'
  PROVE  /\ TotalIsSum' /\ Unfilled'
         /\ elementArray' \in [Elements -> 0 .. TimeMod - 1]
         /\ elementArray' = [elementArray EXCEPT ![elementPtr] = e]
         /\ elementPtr' \in Elements /\ elementTotal' \in 0 .. TimeMod - 1
         /\ established' \in BOOLEAN /\ (established' <=> elementPtr' = 0)
         /\ elementPtr' = IF elementPtr + 1 = nElements THEN 0 ELSE elementPtr + 1
         /\ elementPtr \in Elements /\ elementPtr # 0
         /\ elementArray[elementPtr] = 0 /\ elementArray'[0] = 0
<1>1. TypeInv /\ TotalIsSum
  BY DEF IInv
<1>2. /\ elementArray' = [elementArray EXCEPT ![elementPtr] = e]
      /\ elementArray' \in [Elements -> 0 .. TimeMod - 1]
      /\ elementPtr' = IF elementPtr + 1 = nElements THEN 0 ELSE elementPtr + 1
      /\ elementPtr' \in Elements /\ elementTotal' \in 0 .. TimeMod - 1
      /\ established' = (established \/ elementPtr' = 0) /\ established' \in BOOLEAN
      /\ TotalIsSum'
  BY <1>1, Pushed
<1>3. elementPtr \in Elements /\ elementPtr # 0 /\ elementArray \in [Elements -> 0 .. TimeMod - 1]
  BY <1>1 DEF IInv, TypeInv, Unfilled
<1>4. elementArray[elementPtr] = 0 /\ elementArray[0] = 0
  BY <1>3 DEF IInv, Unfilled, Elements
<1>5. elementArray'[0] = 0
  BY <1>2, <1>3, <1>4, Constants
<1>6. Unfilled'
  <2>1. SUFFICES ASSUME ~ established'
                 PROVE  /\ elementPtr' # 0
                        /\ \A x \in Elements : x >= elementPtr' => elementArray'[x] = 0
    BY <1>5 DEF Unfilled
  <2>2. elementPtr' # 0 /\ elementPtr' = elementPtr + 1
    BY <1>2, <2>1
  <2>3. ASSUME NEW x \in Elements, x >= elementPtr' PROVE elementArray'[x] = 0
    <3>1. x # elementPtr /\ x >= elementPtr
      BY <1>3, <2>2, <2>3 DEF Elements
    <3>2. elementArray[x] = 0
      BY <3>1 DEF IInv, Unfilled
    <3>3. QED
      BY <1>2, <1>3, <3>1, <3>2
  <2>4. QED
    BY <2>2, <2>3
<1>7. established' <=> elementPtr' = 0
  BY <1>2
<1>8. QED
  BY <1>2, <1>3, <1>4, <1>5, <1>6, <1>7

(* A page while the average is filled, after so many that were lost.        *)
LEMMA FillStep ==
  ASSUME IInv, timed, ~ established, NEW missing \in 0 .. MaxLost - lost, NEW e \in 0 .. TimeMod - 1,
         ma_push(e), timed', lost' = lost + missing, UNCHANGED <<packets, resized>>,
         strayed' \in BOOLEAN, strayed => strayed',
         ~ strayed' => e >= low /\ e <= high + pageTime * missing
  PROVE  IInv'
<1>1. /\ TotalIsSum' /\ Unfilled'
      /\ elementArray' \in [Elements -> 0 .. TimeMod - 1]
      /\ elementArray' = [elementArray EXCEPT ![elementPtr] = e]
      /\ elementPtr' \in Elements /\ elementTotal' \in 0 .. TimeMod - 1
      /\ established' \in BOOLEAN /\ (established' <=> elementPtr' = 0)
      /\ elementPtr' = IF elementPtr + 1 = nElements THEN 0 ELSE elementPtr + 1
      /\ elementPtr \in Elements /\ elementPtr # 0
      /\ elementArray[elementPtr] = 0 /\ elementArray'[0] = 0
  BY FillingArray
<1>2. TypeInv
  BY DEF IInv
<1>3. TypeInv'
  <2>1. lost' \in 0 .. MaxLost
    BY <1>2, Constants DEF TypeInv
  <2>2. timed' \in BOOLEAN
    OBVIOUS
  <2>3. QED
    BY <1>1, <1>2, <2>1, <2>2 DEF TypeInv
<1>4. UNCHANGED <<pageTime, low, high>>
  BY DEF pageTime, low, high
<1>5. /\ pageTime \in Nat \ {0} /\ lost \in Nat /\ missing \in Nat /\ nElements \in Nat
      /\ high \in Nat
  BY <1>2, PageTimes, TopTyped, Constants DEF TypeInv
<1>6. /\ pageTime * (lost + missing) = pageTime * lost + pageTime * missing
      /\ pageTime * lost \in Nat /\ pageTime * missing \in Nat
      /\ nElements * high \in Nat
  <2>1. pageTime * lost \in Nat /\ pageTime * missing \in Nat /\ nElements * high \in Nat
    BY <1>5, Monotone
  <2>2. QED
    BY <1>5, <2>1
<1>7. ASSUME Undisturbed' PROVE Low' /\ High'
  <2>1. Undisturbed
    <3>1. ~ strayed /\ ~ resized
      BY <1>7 DEF Undisturbed
    <3>2. 9 * lost' * pageTime + 19 * nElements * Jitter <= nElements * pageTime
      BY <1>4, <1>7 DEF Undisturbed
    <3>3. /\ 9 * lost' * pageTime = 9 * (pageTime * lost) + 9 * (pageTime * missing)
          /\ 9 * lost * pageTime = 9 * (pageTime * lost)
      BY <1>5
    <3> DEFINE a == pageTime * lost
               b == pageTime * missing
               c == 19 * nElements * Jitter
               d == nElements * pageTime
    <3>4. c \in Nat /\ d \in Nat
      <4>1. nElements * Jitter \in Nat /\ d \in Nat
        BY <1>5, Constants, Monotone
      <4>2. c = 19 * (nElements * Jitter)
        BY Constants
      <4>3. QED
        BY <4>1, <4>2
    <3>5. (9 * a + 9 * b) + c <= d /\ a \in Nat /\ b \in Nat
      BY <1>6, <3>2, <3>3
    <3>6. 9 * lost * pageTime = 9 * a
      BY <3>3
    <3> HIDE DEF a, b, c, d
    <3>7. 9 * a + c <= d
      BY <3>4, <3>5
    <3>8. 9 * lost * pageTime + 19 * nElements * Jitter <= nElements * pageTime
      BY <3>6, <3>7 DEF c, d
    <3>9. QED
      BY <3>1, <3>8 DEF Undisturbed
  <2>2. Low /\ High
    BY <2>1 DEF IInv, Near
  <2>3. e >= low /\ e <= high + pageTime * missing
    BY <1>7 DEF Undisturbed
  <2>4. Low'
    <3>1. SUFFICES ASSUME NEW x \in Elements, x # 0, established' \/ x < elementPtr'
                   PROVE  elementArray'[x] >= low
      BY <1>1, <1>4 DEF Low
    <3>2. x <= elementPtr
      BY <1>1, <3>1, Constants DEF Elements
    <3>3. CASE x = elementPtr
      BY <1>1, <1>2, <2>3, <3>3 DEF TypeInv
    <3>4. CASE x # elementPtr
      <4>1. x < elementPtr
        BY <1>1, <3>2, <3>4 DEF Elements
      <4>2. elementArray[x] >= low
        BY <2>2, <3>1, <4>1 DEF Low
      <4>3. elementArray'[x] = elementArray[x]
        BY <1>1, <1>2, <3>4 DEF TypeInv
      <4>4. QED
        BY <4>2, <4>3
    <3>5. QED
      BY <3>3, <3>4
  <2>5. High'
    <3>1. SumTop' = SumTop - Top[elementPtr] + Raised(e)
      BY <1>1, <1>2, TopPushed
    <3>2. SumTop \in Nat
      BY <1>2, TopTyped
    <3>3. Top[elementPtr] = high
      BY <1>1, <1>5 DEF Top, Raised
    <3>4. Raised(e) \in Nat /\ Raised(e) <= high + pageTime * missing
      BY <1>5, <1>6, <2>3, Constants DEF Raised
    <3>5. SumTop <= nElements * high + pageTime * lost
      BY <2>2 DEF High
    <3> DEFINE a == pageTime * lost
               b == pageTime * missing
               c == nElements * high
               r == Raised(e)
    <3>6. /\ a \in Nat /\ b \in Nat /\ c \in Nat /\ r \in Nat /\ r <= high + b
          /\ SumTop' = SumTop - high + r /\ SumTop <= c + a
      BY <1>6, <3>1, <3>3, <3>4, <3>5
    <3> HIDE DEF a, b, c, r
    <3>7. SumTop' <= c + (a + b)
      BY <1>5, <3>2, <3>6
    <3>8. SumTop' <= nElements * high + pageTime * (lost + missing)
      BY <1>6, <3>7 DEF a, b, c
    <3>9. QED
      BY <1>4, <3>8 DEF High
  <2>6. QED
    BY <2>4, <2>5
<1>8. QED
  BY <1>1, <1>3, <1>7 DEF IInv, Blank, Near

(* An established average takes a gap; undisturbed ones are near the page   *)
(* time, and the array holds none that is longer than before.               *)
LEMMA TakenStep ==
  ASSUME IInv, established, NEW e \in 0 .. TimeMod - 1, ma_push(e), timed',
         UNCHANGED <<packets, lost, resized>>, strayed' \in BOOLEAN, strayed => strayed',
         Undisturbed' => e >= low /\ e <= high
  PROVE  IInv'
<1>1. TypeInv /\ TotalIsSum /\ timed
  BY DEF IInv, Blank
<1>2. /\ elementArray' = [elementArray EXCEPT ![elementPtr] = e]
      /\ elementArray' \in [Elements -> 0 .. TimeMod - 1]
      /\ elementPtr' \in Elements /\ elementTotal' \in 0 .. TimeMod - 1
      /\ established' = (established \/ elementPtr' = 0) /\ established' \in BOOLEAN
      /\ TotalIsSum'
  BY <1>1, Pushed
<1>3. established'
  BY <1>2
<1>4. TypeInv'
  <2>1. timed' \in BOOLEAN
    OBVIOUS
  <2>2. QED
    BY <1>1, <1>2, <2>1 DEF TypeInv
<1>5. UNCHANGED <<pageTime, low, high>>
  BY DEF pageTime, low, high
<1>6. ASSUME Undisturbed' PROVE Low' /\ High'
  <2>1. Undisturbed
    BY <1>5, <1>6 DEF Undisturbed
  <2>2. Low /\ High
    BY <1>1, <2>1 DEF IInv, Near
  <2>3. e >= low /\ e <= high
    BY <1>6
  <2>4. \A x \in Elements : elementArray'[x] = IF x = elementPtr THEN e ELSE elementArray[x]
    BY <1>1, <1>2 DEF TypeInv
  <2>5. Low'
    BY <1>5, <2>2, <2>3, <2>4, Constants DEF Low
  <2>6. High'
    <3>1. SumTop' = SumTop - Top[elementPtr] + Raised(e)
      BY <1>1, <1>2, TopPushed
    <3>2. /\ SumTop \in Nat /\ high \in Nat /\ Top[elementPtr] \in Nat
          /\ Top[elementPtr] >= high
      BY <1>1, TopTyped DEF TypeInv
    <3>3. Raised(e) = high
      BY <2>3 DEF Raised
    <3>4. SumTop <= nElements * high + pageTime * lost
      BY <2>2 DEF High
    <3>5. nElements * high \in Nat /\ pageTime * lost \in Nat
      <4>1. pageTime \in Nat /\ lost \in Nat /\ nElements \in Nat
        BY <1>1, PageTimes, Constants DEF TypeInv
      <4>2. QED
        BY <3>2, <4>1, Monotone
    <3> DEFINE c == nElements * high + pageTime * lost
    <3>6. c \in Nat /\ SumTop <= c
      BY <3>4, <3>5
    <3> HIDE DEF c
    <3>7. SumTop' <= c
      BY <3>1, <3>2, <3>3, <3>6
    <3>8. QED
      BY <1>5, <3>7 DEF High, c
  <2>7. QED
    BY <2>5, <2>6
<1>7. QED
  BY <1>2, <1>3, <1>4, <1>6 DEF IInv, Blank, Unfilled, Near

(* What does not enter the average leaves it as it was. *)
LEMMA SameAverage ==
  ASSUME IInv, UNCHANGED <<ma, packets, lost>>, timed' = timed,
         strayed' \in BOOLEAN, strayed => strayed', resized' \in BOOLEAN, resized => resized',
         strayed' \/ resized' => timed
  PROVE  IInv'
<1>1. UNCHANGED <<elementArray, elementPtr, elementTotal, established, packets, lost>>
  BY DEF ma
<1>2. TypeInv'
  BY <1>1 DEF IInv, TypeInv
<1>3. TotalIsSum'
  <2>1. Sum' = Sum
    BY <1>1, SameSum
  <2>2. elementTotal' = Sum' % TimeMod
    BY <1>1, <2>1 DEF IInv, TotalIsSum, Sum
  <2>3. QED
    BY <2>2 DEF TotalIsSum, Sum
<1>4. Blank' /\ Unfilled'
  BY <1>1, Zenon DEF IInv, Blank, Unfilled
<1>5. UNCHANGED <<pageTime, low, high>>
  BY DEF pageTime, low, high
<1>6. UNCHANGED SumTop
  BY <1>1, <1>5 DEF SumTop, Top, Raised
<1>7. Low' = Low /\ High' = High
  BY <1>1, <1>5, <1>6 DEF Low, High
<1>8. Undisturbed' => Undisturbed
  BY <1>1, <1>5 DEF Undisturbed
<1>9. Near'
  BY <1>7, <1>8 DEF IInv, Near
<1>10. QED
  BY <1>2, <1>3, <1>4, <1>9 DEF IInv

-----------------------------------------------------------------------------
LEMMA PageStep ==
  ASSUME IInv, NEW missing \in 0 .. MaxLost - lost, NEW off \in Int, Page(missing, off)
  PROVE  IInv'
<1> DEFINE d == (1 + missing) * pageTime + off
<1>1. TypeInv /\ TotalIsSum
  BY DEF IInv
<1>2. d \in Int
  <2>1. missing \in 0 .. MaxLost
    BY <1>1, Constants DEF TypeInv
  <2>2. (1 + missing) * pageTime \in Nat
    BY <1>1, <2>1, PageTimes
  <2>3. QED
    BY <2>2
<1>3. PICK e \in Uint64(IF timed THEN d ELSE 0) :
        IF ma_constrain(e) THEN ma_push(e) ELSE UNCHANGED ma
  BY DEF Page, movingAveragePageTime
<1>4. /\ timed' = TRUE /\ UNCHANGED <<packets, resized>>
      /\ lost' = IF timed /\ ~ established THEN lost + missing ELSE lost
      /\ strayed' = (strayed \/ (timed /\ elementPtr' # elementPtr /\ off \notin -Jitter .. Jitter))
  BY DEF Page, movingAveragePageTime
<1>5. strayed' \in BOOLEAN /\ (strayed => strayed')
  BY <1>4
<1>6. e \in 0 .. TimeMod - 1
  <2> DEFINE x == IF timed THEN d ELSE 0
  <2>1. x \in Int
    BY <1>2
  <2> HIDE DEF d, x
  <2>2. Uint64(x) \subseteq 0 .. TimeMod - 1
    BY <1>1, <2>1, Times
  <2>3. QED
    BY <1>3, <2>2 DEF x
<1>7. CASE ~ timed
  <2>1. e = 0
    BY <1>1, <1>3, <1>7, Times
  <2>2. ~ established /\ lost' = lost /\ strayed' = strayed
    BY <1>1, <1>4, <1>7 DEF IInv, Blank, TypeInv
  <2>3. ma_push(0)
    BY <1>3, <2>1, <2>2 DEF ma_constrain
  <2>4. QED
    BY <1>4, <1>7, <2>2, <2>3, FirstStep
<1>8. ASSUME timed, ma_push(e), ~ strayed'
      PROVE  /\ e >= low /\ e <= high + pageTime * missing
             /\ missing = 0 => e = pageTime + off
             /\ missing # 0 => e >= pageTime + low
             /\ off \in -Jitter .. Jitter
  <2>1. elementPtr' # elementPtr
    <3>1. elementPtr' = IF elementPtr + 1 = nElements THEN 0 ELSE elementPtr + 1
      BY <1>1, <1>6, <1>8, Pushed
    <3>2. elementPtr \in Nat /\ nElements > 10 /\ nElements \in Nat
      BY <1>1, Constants DEF TypeInv, Elements
    <3>3. QED
      BY <3>1, <3>2
  <2>2. off \in -Jitter .. Jitter
    BY <1>4, <1>8, <2>1
  <2>3. /\ Uint64(d) = {d} /\ d >= low /\ d <= high + pageTime * missing
        /\ missing = 0 => d = pageTime + off
        /\ missing # 0 => d >= pageTime + low
    BY <1>1, <2>2, GapTimes
  <2> HIDE DEF d
  <2>4. e = d
    BY <1>3, <1>8, <2>3
  <2>5. QED
    BY <2>2, <2>3, <2>4
<1> HIDE DEF d
<1>9. CASE timed /\ ~ established
  <2>1. ma_push(e) /\ lost' = lost + missing
    BY <1>3, <1>4, <1>9 DEF ma_constrain
  <2>2. ~ strayed' => e >= low /\ e <= high + pageTime * missing
    BY <1>8, <1>9, <2>1
  <2>3. QED
    BY <1>4, <1>5, <1>6, <1>9, <2>1, <2>2, FillStep
<1>10. CASE timed /\ established /\ ma_constrain(e)
  <2>1. ma_push(e) /\ lost' = lost
    BY <1>3, <1>4, <1>10
  <2>2. ASSUME Undisturbed' PROVE e >= low /\ e <= high
    <3>1. ~ strayed' /\ pageTime' = pageTime
      BY <1>4, <2>2 DEF Undisturbed, pageTime
    <3>2. Undisturbed
      BY <1>4, <1>5, <2>1, <2>2, <3>1 DEF Undisturbed
    <3>3. /\ e >= low /\ missing = 0 => e = pageTime + off
          /\ missing # 0 => e >= pageTime + low
          /\ off \in -Jitter .. Jitter
      BY <1>8, <1>10, <2>1, <3>1
    <3>4. \A x \in Nat : x >= pageTime + low => ~ ma_constrain(x)
      BY <1>10, <3>2, Constrains
    <3>5. missing = 0
      BY <1>6, <1>10, <3>3, <3>4, Constants
    <3>6. pageTime \in Nat /\ Jitter \in Nat
      BY <1>1, PageTimes, Constants
    <3>7. e = pageTime + off /\ e >= low
      BY <1>8, <1>10, <2>1, <3>1, <3>5
    <3>8. QED
      BY <3>3, <3>6, <3>7 DEF high
  <2>3. QED
    BY <1>4, <1>5, <1>6, <1>10, <2>1, <2>2, TakenStep
<1>11. CASE timed /\ established /\ ~ ma_constrain(e)
  <2>1. UNCHANGED ma /\ lost' = lost
    BY <1>3, <1>4, <1>11
  <2>2. resized' \in BOOLEAN
    BY <1>1, <1>4 DEF TypeInv
  <2>3. QED
    BY <1>4, <1>5, <1>11, <2>1, <2>2, SameAverage
<1>12. QED
  BY <1>7, <1>9, <1>10, <1>11

LEMMA ResizeStep ==
  ASSUME IInv, NEW n \in 1 .. MaxPackets, Resize(n)
  PROVE  IInv'
<1>1. /\ packets' = n /\ resized' = (resized \/ timed)
      /\ UNCHANGED <<timed, elementArray, elementPtr, elementTotal, established, lost, strayed>>
  BY DEF Resize, ma
<1>2. TypeInv'
  BY <1>1 DEF IInv, TypeInv
<1>3. TotalIsSum'
  <2>1. Sum' = Sum
    BY <1>1, SameSum
  <2>2. elementTotal' = Sum' % TimeMod
    BY <1>1, <2>1 DEF IInv, TotalIsSum, Sum
  <2>3. QED
    BY <2>2 DEF TotalIsSum, Sum
<1>4. Blank' /\ Unfilled'
  BY <1>1 DEF IInv, Blank, Unfilled
<1>5. Near'
  BY <1>1 DEF Near, Undisturbed
<1>6. QED
  BY <1>2, <1>3, <1>4, <1>5 DEF IInv

LEMMA ResetStep ==
  ASSUME IInv, resetStream
  PROVE  IInv'
<1>1. /\ elementPtr' = 0 /\ elementTotal' = 0
      /\ established' = FALSE /\ elementArray' = [e \in Elements |-> 0]
      /\ timed' = FALSE /\ lost' = 0 /\ strayed' = FALSE /\ resized' = FALSE
      /\ packets' = packets
  BY DEF resetStream, ma_reset
<1>2. 0 \in 0 .. TimeMod - 1 /\ 0 \in 0 .. MaxLost /\ 0 \in Elements
  BY Constants
<1>3. TypeInv'
  BY <1>1, <1>2 DEF IInv, TypeInv
<1>4. Sum' = 0
  <2>1. (Sum = SumOf(elementArray))'
    BY SumIs, PTL
  <2>2. DOMAIN elementArray' = Elements
    BY <1>1
  <2>3. SumOver(Elements, elementArray')[Elements] = 0
    BY <1>1, Constants, SumOfZeros
  <2>4. QED
    BY <2>1, <2>2, <2>3 DEF SumOf
<1>5. TotalIsSum'
  <2>1. (TimeMod * 0 + 0) % TimeMod = 0 /\ TimeMod * 0 + 0 = 0
    BY <1>2, Constants, Remainder
  <2>2. elementTotal' = Sum' % TimeMod
    BY <1>1, <1>4, <2>1
  <2>3. QED
    BY <2>2 DEF TotalIsSum, Sum
<1>6. Blank' /\ Unfilled' /\ Near'
  BY <1>1, <1>2 DEF Blank, Unfilled, Near
<1>7. QED
  BY <1>3, <1>5, <1>6 DEF IInv

LEMMA Step == IInv /\ [Next]_vars => IInv'
<1> SUFFICES ASSUME IInv, [Next]_vars PROVE IInv'
  OBVIOUS
<1>1. ASSUME NEW missing \in 0 .. MaxLost - lost, Arrival(missing) PROVE IInv'
  <2>1. PICK off \in Offsets : Page(missing, off)
    BY <1>1 DEF Arrival
  <2>2. off \in Int
    BY Constants
  <2>3. QED
    BY <2>1, <2>2, PageStep
<1>2. ASSUME NEW n \in 1 .. MaxPackets, Resize(n) PROVE IInv'
  BY <1>2, ResizeStep
<1>3. CASE resetStream
  BY <1>3, ResetStep
<1>4. CASE UNCHANGED vars
  <2>1. UNCHANGED <<ma, packets, lost, timed, strayed, resized>>
    BY <1>4 DEF vars, history
  <2>2. strayed \in BOOLEAN /\ resized \in BOOLEAN /\ (strayed \/ resized => timed)
    BY DEF IInv, TypeInv, Blank
  <2>3. QED
    BY <2>1, <2>2, SameAverage
<1>5. QED
  BY <1>1, <1>2, <1>3, <1>4 DEF Next

-----------------------------------------------------------------------------
LEMMA NeverStuckIn == IInv => NeverStuck
BY Constrains DEF NeverStuck

LEMMA NearTotalIn == IInv => NearTotal
BY Constrains, Zenon DEF NearTotal

-----------------------------------------------------------------------------
(* A page and a reset are steps of StreamTable, which has no arithmetic.    *)
AsInTable ==
  \/ Table!movingAveragePageTime(0)
  \/ Table!ma_reset({0}) /\ timed' = FALSE /\ ratio' = Unity
  \/ \E n \in 1 .. MaxPackets : Resize(n)

LEMMA PageInTable ==
  ASSUME NEW d, movingAveragePageTime(d)
  PROVE  Table!movingAveragePageTime(0)
<1>1. PICK e \in Uint64(IF timed THEN d ELSE 0) :
        IF ma_constrain(e) THEN ma_push(e) ELSE UNCHANGED ma
  BY DEF movingAveragePageTime
<1>2. /\ timed' = TRUE
      /\ ~ established' => ratio' = Unity
  BY DEF movingAveragePageTime
<1>3. QED
  BY <1>1, <1>2 DEF Table!movingAveragePageTime, Table!Outcomes, Only, ma_push, ma_constrain, ma

LEMMA StepInTable == [Next]_vars => [AsInTable]_vars
<1> SUFFICES ASSUME [Next]_vars PROVE [AsInTable]_vars
  OBVIOUS
<1>1. ASSUME NEW missing \in 0 .. MaxLost - lost, Arrival(missing) PROVE AsInTable
  BY <1>1, PageInTable DEF Arrival, Page, AsInTable
<1>2. ASSUME NEW n \in 1 .. MaxPackets, Resize(n) PROVE AsInTable
  BY <1>2 DEF AsInTable
<1>3. CASE resetStream
  <2>1. elementPtr' = 0 /\ established' = FALSE /\ timed' = FALSE /\ ratio' = Unity
    BY <1>3 DEF resetStream, ma_reset
  <2>2. Table!ma_reset({0})
    <3>1. Table!Slots = {0}
      BY DEF Table!Slots
    <3>2. /\ Only(elementPtr)' = [s \in {0} |-> 0]
          /\ Only(established)' = [s \in {0} |-> FALSE]
      BY <2>1 DEF Only
    <3>3. [s \in {0} |-> IF s \in {0} THEN 0 ELSE Only(elementPtr)[s]] = [s \in {0} |-> 0]
      OBVIOUS
    <3>4. [s \in {0} |-> s \notin {0} /\ Only(established)[s]] = [s \in {0} |-> FALSE]
      BY Zenon
    <3>5. QED
      BY <3>1, <3>2, <3>3, <3>4 DEF Table!ma_reset
  <2>3. QED
    BY <2>1, <2>2 DEF AsInTable
<1>4. QED
  BY <1>1, <1>2, <1>3 DEF Next

-----------------------------------------------------------------------------
(* For every size of the average, of the pages and of the gaps' deviations  *)
(* the strengthened invariant holds of what ma_push has filled in.          *)
THEOREM Inductive == Spec => []IInv
<1>1. IInv /\ [Next]_vars => IInv'
  BY Step
<1>2. QED
  BY InitIInv, <1>1, PTL DEF Spec

(* The total that ma_push keeps by adding and subtracting in 64 bits is the *)
(* sum of its array.                                                        *)
THEOREM KeepsTotal == Spec => []TotalIsSum
<1>1. IInv => TotalIsSum
  BY DEF IInv
<1>2. QED
  BY Inductive, <1>1, PTL

(* ma_constrain goes on taking the sender's page time, more or less by the  *)
(* jitter, unless the losses while the average was filled and the jitter    *)
(* are too large together, a gap further off was taken, or the page size    *)
(* was changed.                                                             *)
THEOREM TakesPages == Spec => []NeverStuck
BY Inductive, NeverStuckIn, PTL

(* Until then the average that ma_avg returns is off by no more than the    *)
(* jitter, the 0 of the first page and the lost pages.                      *)
THEOREM StaysNear == Spec => []NearTotal
BY Inductive, NearTotalIn, PTL

(* Every page and reset is a step of StreamTable for one slot.              *)
THEOREM ImplementsTable == Spec => AsInStreamTable
<1>1. [Next]_vars => [AsInTable]_vars
  BY StepInTable
<1>2. Spec => [][AsInTable]_vars
  BY <1>1, PTL DEF Spec
<1>3. QED
  BY <1>2 DEF AsInStreamTable, AsInTable
=============================================================================
