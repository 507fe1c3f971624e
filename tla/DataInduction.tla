----------------------------- MODULE DataInduction -----------------------------
(***************************************************************************)
(* Induction over numbers, and what it says of functions defined by        *)
(* recursion over an interval, and of a binary search.  The induction      *)
(* hypothesis is membership in a set, so that every fact here can be cited *)
(* by its instances.                                                       *)
(***************************************************************************)
EXTENDS Integers, WellFoundedInduction, TLAPS

\* A set of natural numbers that is not empty has a least element.
LEMMA LeastElement ==
    ASSUME NEW T, T \subseteq Nat, T # {}
    PROVE  \E x \in T : \A y \in T : x <= y
<1> DEFINE R == OpToRel(<, Nat)
<1>1. IsWellFoundedOn(R, Nat)
  BY NatLessThanWellFounded
<1>2. R = {p \in Nat \X Nat : p[1] < p[2]}
  BY DEF OpToRel
<1> HIDE DEF R
<1>3. PICK x \in T : \A y \in T : <<y, x>> \notin R
  BY <1>1, WFMin
<1>4. ASSUME NEW y \in T PROVE x <= y
  <2>1. y \in Nat /\ x \in Nat /\ <<y, x>> \in Nat \X Nat
    OBVIOUS
  <2>2. <<y, x>>[1] = y /\ <<y, x>>[2] = x
    OBVIOUS
  <2>3. ~ (y < x)
    BY <1>2, <1>3, <2>1, <2>2
  <2> QED
    BY <2>1, <2>3
<1> QED
  BY <1>4

\* A set of numbers up to n that is not empty has a greatest one.
LEMMA GreatestElement ==
  ASSUME NEW n \in Nat, NEW T, T \subseteq 0..n, T # {}
  PROVE  \E x \in T : \A y \in T : y <= x
<1> DEFINE D == {n - y : y \in T}
<1>a. \A y \in T : n - y \in Nat
  OBVIOUS
<1>1. D \subseteq Nat /\ D # {}
  BY <1>a
<1> HIDE DEF D
<1>2. PICK d \in D : \A e \in D : d <= e
  BY <1>1, LeastElement
<1>3. PICK x \in T : d = n - x
  BY DEF D
<1>4. ASSUME NEW y \in T PROVE y <= x
  <2>1. n - y \in D /\ n - x <= n - y /\ x \in 0..n /\ y \in 0..n
    BY <1>2, <1>3 DEF D
  <2> QED
    BY <2>1
<1> QED
  BY <1>4

\* Whatever holds of 0, and of i when it holds of i - 1, holds up to n.
LEMMA UpTo ==
    ASSUME NEW n \in Nat, NEW T, 0 \in T, \A i \in 1..n : i - 1 \in T => i \in T
    PROVE  0..n \subseteq T
<1> SUFFICES ASSUME (0..n) \ T # {} PROVE FALSE
  OBVIOUS
<1>1. (0..n) \ T \subseteq Nat
  OBVIOUS
<1>2. PICK x \in (0..n) \ T : \A y \in (0..n) \ T : x <= y
  BY <1>1, LeastElement
<1>3. x \in 1..n /\ x - 1 \in 0..n
  BY <1>2
<1>4. x - 1 \in T
  BY <1>2, <1>3
<1> QED
  BY <1>2, <1>3, <1>4

-----------------------------------------------------------------------------
(* Functions by recursion over an interval                                 *)

\* f starts at a, and goes from one stage to the next by the step that belongs to it.
Iterates(f, n, a, step) == f[0] = a /\ \A i \in 1..n : f[i] = step[i][f[i - 1]]

\* Two functions that begin alike, and go on alike where they were alike.
GoOnAlike(f, g, n) == f[0] = g[0] /\ \A i \in 1..n : f[i - 1] = g[i - 1] => f[i] = g[i]
Alike(f, g, n)     == \A i \in 0..n : f[i] = g[i]

\* Iterating n steps from a stays among the states, and one function holds every stage.
LEMMA Iteration ==
    ASSUME NEW n \in Nat, NEW S, NEW a \in S, NEW step \in [1..n -> [S -> S]]
    PROVE  \E f \in [0..n -> S] : Iterates(f, n, a, step)
<1> DEFINE Stages(m) == \E f \in [0..m -> S] : Iterates(f, m, a, step)
           T == {m \in 0..n : Stages(m)}
<1>1. 0 \in T
  <2> DEFINE f == [i \in 0..0 |-> a]
  <2>1. f \in [0..0 -> S] /\ Iterates(f, 0, a, step)
    BY DEF Iterates
  <2> HIDE DEF f
  <2>2. Stages(0)
    BY <2>1
  <2> HIDE DEF Stages
  <2> QED
    BY <2>2
<1>2. ASSUME NEW m \in 1..n, m - 1 \in T PROVE m \in T
  <2>1. PICK f \in [0..m - 1 -> S] : Iterates(f, m - 1, a, step)
    BY <1>2
  <2> DEFINE g == [i \in 0..m |-> IF i < m THEN f[i] ELSE step[m][f[m - 1]]]
  <2>2. g \in [0..m -> S]
    OBVIOUS
  <2>3. g[0] = a
    BY <2>1 DEF Iterates
  <2>4. ASSUME NEW i \in 1..m PROVE g[i] = step[i][g[i - 1]]
    BY <2>1 DEF Iterates
  <2> HIDE DEF g
  <2>5. Stages(m)
    BY <2>2, <2>3, <2>4 DEF Iterates
  <2> HIDE DEF Stages
  <2> QED
    BY <2>5
<1> HIDE DEF T
<1>3. 0..n \subseteq T
  BY <1>1, <1>2, UpTo
<1>4. n \in T
  BY <1>3
<1> QED
  BY <1>4 DEF T

\* A recursion over 0..n has one solution.
LEMMA OneIteration ==
    ASSUME NEW n \in Nat, NEW f, NEW g, GoOnAlike(f, g, n)
    PROVE  Alike(f, g, n)
<1> DEFINE T == {i \in 0..n : f[i] = g[i]}
<1>1. 0 \in T
  BY DEF GoOnAlike
<1>2. ASSUME NEW i \in 1..n, i - 1 \in T PROVE i \in T
  BY <1>2 DEF GoOnAlike
<1> HIDE DEF T
<1>3. 0..n \subseteq T
  BY <1>1, <1>2, UpTo
<1> QED
  BY <1>3 DEF T, Alike

-----------------------------------------------------------------------------
(* Division                                                                *)

\* The quotient and the remainder of a division.
LEMMA Divided ==
    ASSUME NEW n \in Nat, NEW L \in Nat \ {0}
    PROVE  n = (n \div L) * L + (n % L) /\ n % L \in 0..L-1 /\ n \div L \in Nat
  OBVIOUS

\* There are no others.
LEMMA DividedOnly ==
    ASSUME NEW n \in Nat, NEW L \in Nat \ {0}, NEW q \in Nat, NEW r \in 0..L-1,
           n = q * L + r
    PROVE  n \div L = q /\ n % L = r
  OBVIOUS

\* One more within a round.
LEMMA OneOnWithin ==
  ASSUME NEW n \in Nat, NEW L \in Nat \ {0}, NEW q \in Nat, NEW r \in 0..L-1,
         n = q * L + r, r < L - 1
  PROVE  (n + 1) \div L = q /\ (n + 1) % L = r + 1
<1>1. n + 1 \in Nat /\ n + 1 = q * L + (r + 1) /\ r + 1 \in 0..L-1
  OBVIOUS
<1> DEFINE N == n + 1
<1> DEFINE s == r + 1
<1>2. N \in Nat /\ N = q * L + s /\ s \in 0..L-1
  BY <1>1
<1> HIDE DEF N, s
<1>3. N \div L = q /\ N % L = s
  BY <1>2, DividedOnly
<1> QED
  BY <1>3 DEF N, s

\* One more than the last of a round begins the next.
LEMMA OneOnOver ==
  ASSUME NEW n \in Nat, NEW L \in Nat \ {0}, NEW q \in Nat, NEW r \in 0..L-1,
         n = q * L + r, r >= L - 1
  PROVE  (n + 1) \div L = q + 1 /\ (n + 1) % L = 0
<1>1. (q + 1) * L = q * L + L
  OBVIOUS
<1>2. n + 1 \in Nat /\ n + 1 = (q + 1) * L + 0 /\ 0 \in 0..L-1 /\ q + 1 \in Nat
  BY <1>1
<1> DEFINE N == n + 1
<1> DEFINE Q == q + 1
<1>3. N \in Nat /\ N = Q * L + 0 /\ 0 \in 0..L-1 /\ Q \in Nat
  BY <1>2
<1> HIDE DEF N, Q
<1>4. N \div L = Q /\ N % L = 0
  BY <1>3, DividedOnly
<1> QED
  BY <1>4 DEF N, Q

-----------------------------------------------------------------------------
(* Binary search                                                           *)

\* A binary search for the end of a set of numbers: the part of 0..n still to look at, and
\* what a function of it says when it halves that part until nothing is left.
Spans(n)  == [low : 0..n + 1, high : -1..n]
Middle(b) == b.low + (b.high - b.low) \div 2
Above(b)  == [low |-> Middle(b) + 1, high |-> b.high]
Below(b)  == [low |-> b.low, high |-> Middle(b) - 1]

Bisects(s, n, Fits) ==
    \A b \in Spans(n) :
        s[b] = IF b.low > b.high THEN b.low
               ELSE IF Middle(b) \in Fits THEN s[Above(b)] ELSE s[Below(b)]

\* Where the numbers below r end in a part.
EndIn(b, r) ==
    IF b.low > b.high THEN b.low
    ELSE IF r <= b.low THEN b.low
    ELSE IF r <= b.high THEN r ELSE b.high + 1

\* The halves of a part that is not empty are parts, and smaller.
LEMMA HalvesAreParts ==
    ASSUME NEW n \in Nat, NEW b \in Spans(n), b.low <= b.high
    PROVE  /\ Middle(b) \in b.low..b.high /\ Middle(b) \in 0..n
           /\ Above(b) \in Spans(n) /\ Below(b) \in Spans(n)
           /\ Above(b).low = Middle(b) + 1 /\ Above(b).high = b.high
           /\ Below(b).low = b.low /\ Below(b).high = Middle(b) - 1
<1>1. b.low \in 0..n + 1 /\ b.high \in -1..n
  BY DEF Spans
<1>2. Middle(b) \in b.low..b.high
  BY <1>1 DEF Middle
<1> QED
  BY <1>1, <1>2 DEF Above, Below, Spans

\* The end is the end in the half where the search goes on.
LEMMA EndIsInHalf ==
    ASSUME NEW n \in Nat, NEW r \in 0..n + 1, NEW b \in Spans(n), b.low <= b.high
    PROVE  EndIn(b, r) = IF Middle(b) < r THEN EndIn(Above(b), r) ELSE EndIn(Below(b), r)
<1>1. b.low \in 0..n + 1 /\ b.high \in -1..n
  BY DEF Spans
<1> DEFINE m == Middle(b)
<1>2. /\ m \in b.low..b.high
      /\ Above(b).low = m + 1 /\ Above(b).high = b.high
      /\ Below(b).low = b.low /\ Below(b).high = m - 1
  BY HalvesAreParts
<1> HIDE DEF m
<1>3. CASE m < r
  BY <1>1, <1>2, <1>3 DEF EndIn, m
<1>4. CASE ~ (m < r)
  BY <1>1, <1>2, <1>4 DEF EndIn, m
<1> QED
  BY <1>3, <1>4

\* There is such a function.
LEMMA BisectionIsDefined ==
    ASSUME NEW n \in Nat, NEW r \in 0..n + 1, NEW Fits, Fits = {i \in 0..n : i < r}
    PROVE  Bisects([b \in Spans(n) |-> EndIn(b, r)], n, Fits)
<1> DEFINE s == [b \in Spans(n) |-> EndIn(b, r)]
<1>1. \A b \in Spans(n) : s[b] = EndIn(b, r)
  OBVIOUS
<1> HIDE DEF s
<1>2. ASSUME NEW b \in Spans(n)
      PROVE  s[b] = IF b.low > b.high THEN b.low
                    ELSE IF Middle(b) \in Fits THEN s[Above(b)] ELSE s[Below(b)]
  <2>1. CASE b.low > b.high
    BY <1>1, <2>1 DEF EndIn
  <2>2. CASE ~ (b.low > b.high)
    <3>1. b.low <= b.high
      BY <2>2 DEF Spans
    <3>2. Middle(b) \in 0..n /\ Above(b) \in Spans(n) /\ Below(b) \in Spans(n)
      BY <3>1, HalvesAreParts
    <3>3. Middle(b) \in Fits <=> Middle(b) < r
      BY <3>2
    <3>4. EndIn(b, r) = IF Middle(b) < r THEN EndIn(Above(b), r) ELSE EndIn(Below(b), r)
      BY <3>1, EndIsInHalf
    <3> QED
      BY <1>1, <2>2, <3>2, <3>3, <3>4, Zenon
  <2> QED
    BY <2>1, <2>2
<1> QED
  BY <1>2 DEF Bisects, s

\* Every such function finds the end of the numbers that fit.
LEMMA BisectionFinds ==
    ASSUME NEW n \in Nat, NEW r \in 0..n + 1, NEW Fits, Fits = {i \in 0..n : i < r},
           NEW s, Bisects(s, n, Fits)
    PROVE  s[[low |-> 0, high |-> n]] = r
<1> DEFINE T == {d \in 0..n + 2 :
                    \A b \in Spans(n) : b.high + 1 - b.low < d => s[b] = EndIn(b, r)}
<1>1. \A b \in Spans(n) : b.low \in 0..n + 1 /\ b.high \in -1..n
  BY DEF Spans
<1>2. ASSUME NEW d \in 0..n + 2,
             \A a \in Spans(n) : a.high + 1 - a.low < d - 1 => s[a] = EndIn(a, r),
             NEW b \in Spans(n), b.high + 1 - b.low < d
      PROVE  s[b] = EndIn(b, r)
  <2>1. s[b] = IF b.low > b.high THEN b.low
               ELSE IF Middle(b) \in Fits THEN s[Above(b)] ELSE s[Below(b)]
    BY DEF Bisects
  <2>2. CASE b.low > b.high
    BY <2>1, <2>2 DEF EndIn
  <2>3. CASE ~ (b.low > b.high)
    <3>1. b.low <= b.high
      BY <1>1, <2>3
    <3>2. /\ Middle(b) \in b.low..b.high /\ Middle(b) \in 0..n
          /\ Above(b) \in Spans(n) /\ Below(b) \in Spans(n)
          /\ Above(b).low = Middle(b) + 1 /\ Above(b).high = b.high
          /\ Below(b).low = b.low /\ Below(b).high = Middle(b) - 1
      BY <3>1, HalvesAreParts
    <3>3. Middle(b) \in Fits <=> Middle(b) < r
      BY <3>2
    <3>4. EndIn(b, r) = IF Middle(b) < r THEN EndIn(Above(b), r) ELSE EndIn(Below(b), r)
      BY <3>1, EndIsInHalf
    <3>5. Above(b).high + 1 - Above(b).low < d - 1 /\ Below(b).high + 1 - Below(b).low < d - 1
      BY <1>1, <1>2, <3>2
    <3>6. s[Above(b)] = EndIn(Above(b), r) /\ s[Below(b)] = EndIn(Below(b), r)
      BY <1>2, <3>2, <3>5
    <3> QED
      BY <2>1, <2>3, <3>3, <3>4, <3>6, Zenon
  <2> QED
    BY <2>2, <2>3
<1>3. 0 \in T
  <2>1. ASSUME NEW b \in Spans(n), b.high + 1 - b.low < 0
        PROVE  s[b] = EndIn(b, r)
    <3>1. b.low > b.high
      BY <1>1, <2>1
    <3> QED
      BY <3>1 DEF Bisects, EndIn
  <2> QED
    BY <2>1
<1>4. ASSUME NEW d \in 1..n + 2, d - 1 \in T PROVE d \in T
  <2>1. \A a \in Spans(n) : a.high + 1 - a.low < d - 1 => s[a] = EndIn(a, r)
    BY <1>4
  <2>2. \A b \in Spans(n) : b.high + 1 - b.low < d => s[b] = EndIn(b, r)
    BY <1>2, <2>1
  <2> QED
    BY <2>2
<1> HIDE DEF T
<1>5. 0..n + 2 \subseteq T
  BY <1>3, <1>4, UpTo
<1>6. n + 2 \in T
  BY <1>5
<1> DEFINE whole == [low |-> 0, high |-> n]
<1>7. whole \in Spans(n) /\ whole.high = n /\ whole.low = 0
  BY DEF Spans
<1>8. EndIn(whole, r) = r
  BY <1>7 DEF EndIn
<1> HIDE DEF whole
<1>9. s[whole] = EndIn(whole, r)
  BY <1>6, <1>7 DEF T
<1> QED
  BY <1>8, <1>9 DEF whole

\* A set that has with a number all smaller ones is the numbers below its end.
LEMMA BeginningHasEnd ==
    ASSUME NEW n \in Nat, NEW Fits, Fits \subseteq 0..n,
           \A i, j \in 0..n : i <= j /\ j \in Fits => i \in Fits
    PROVE  \E r \in 0..n + 1 : Fits = {i \in 0..n : i < r}
<1> DEFINE Rest == (0..n + 1) \ Fits
<1>1. n + 1 \in Rest /\ Rest \subseteq Nat
  OBVIOUS
<1>2. PICK r \in Rest : \A y \in Rest : r <= y
  <2> HIDE DEF Rest
  <2> QED
    BY <1>1, LeastElement
<1>3. r \in 0..n + 1 /\ r \notin Fits
  OBVIOUS
<1>4. ASSUME NEW i \in 0..n PROVE i \in Fits <=> i < r
  <2>1. CASE i < r
    BY <1>2, <1>3, <2>1
  <2>2. CASE r <= i
    BY <1>3, <2>2
  <2> QED
    BY <1>3, <2>1, <2>2
<1>5. Fits = {i \in 0..n : i < r}
  BY <1>4
<1> QED
  BY <1>3, <1>5
=============================================================================
