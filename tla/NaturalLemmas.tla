--------------------------- MODULE NaturalLemmas ---------------------------
(* Facts about natural numbers that the proofs of the other modules share: *)
(* induction, in a form that speaks of sets and that all provers can use,  *)
(* the least and the greatest element of a set, and that a function defined*)
(* by recursion over a range of numbers satisfies its definition.          *)
EXTENDS Integers, FiniteSetsExt, NaturalsInduction, WellFoundedInduction, FiniteSetTheorems, TLAPS

\* A set of natural numbers has a least element.
LEMMA LeastNat ==
    ASSUME NEW T, T \subseteq Nat, T # {}
    PROVE  \E x \in T : \A y \in T : x <= y
<1> DEFINE R == {ss \in Nat \X Nat : ss[1] < ss[2]}
<1>1. IsWellFoundedOn(R, Nat)
  BY NatLessThanWellFounded, Zenon DEF OpToRel
<1> HIDE DEF R
<1>2. PICK x \in T : \A y \in T : ~(<<y, x>> \in R)
  BY <1>1, WFMin
<1>3. ASSUME NEW y \in T PROVE x <= y
  <2>1. x \in Nat /\ y \in Nat
    OBVIOUS
  <2>2. <<y, x>> \in R <=> y < x
    BY <2>1 DEF R
  <2> QED
    BY <1>2, <2>1, <2>2
<1> QED
  BY <1>3

\* Induction: a set with 0 that is closed under successor has every number.
LEMMA SetInduction ==
    ASSUME NEW T, 0 \in T, \A n \in Nat : n \in T => n + 1 \in T
    PROVE  \A n \in Nat : n \in T
<1> SUFFICES ASSUME NEW m \in Nat, m \notin T PROVE FALSE
  OBVIOUS
<1> DEFINE U == {n \in Nat : n \notin T}
<1>1. PICK x \in U : \A y \in U : x <= y
  BY LeastNat
<1>2. x \in Nat /\ x # 0
  OBVIOUS
<1>3. x - 1 \in Nat /\ x - 1 \notin U
  BY <1>1, <1>2
<1>4. (x - 1) + 1 \in T
  BY <1>3
<1> QED
  BY <1>2, <1>4

\* Induction up to a bound.
LEMMA BoundedInduction ==
    ASSUME NEW N \in Nat, NEW T, 0 \in T, \A n \in 1..N : n - 1 \in T => n \in T
    PROVE  \A n \in 0..N : n \in T
<1> DEFINE U == {n \in Nat : n <= N => n \in T}
<1>1. 0 \in U
  OBVIOUS
<1>2. ASSUME NEW n \in Nat, n \in U PROVE n + 1 \in U
  <2> SUFFICES ASSUME n + 1 <= N PROVE n + 1 \in T
    OBVIOUS
  <2>1. n \in T /\ n + 1 \in 1..N /\ (n + 1) - 1 = n
    BY <1>2
  <2> QED
    BY <2>1
<1> HIDE DEF U
<1>3. \A n \in Nat : n \in U
  BY <1>1, <1>2, SetInduction
<1> QED
  BY <1>3 DEF U

\* What Min chooses.
LEMMA MinIsLeast ==
    ASSUME NEW T, T \subseteq Nat, T # {}
    PROVE  Min(T) \in T /\ \A y \in T : Min(T) <= y
<1>1. \E x \in T : \A y \in T : x <= y
  BY LeastNat
<1> QED
  BY <1>1 DEF Min

\* What Max chooses, from a set that has a bound.
LEMMA MaxIsGreatest ==
    ASSUME NEW T, NEW N \in Nat, T \subseteq 0..N, T # {}
    PROVE  Max(T) \in T /\ \A y \in T : y <= Max(T)
<1> DEFINE U == {N - x : x \in T}
<1>1. U \subseteq Nat /\ U # {}
  <2>1. ASSUME NEW x \in T PROVE N - x \in Nat
    OBVIOUS
  <2> QED
    BY <2>1
<1>2. PICK u \in U : \A v \in U : u <= v
  BY <1>1, LeastNat
<1>3. PICK x \in T : u = N - x
  OBVIOUS
<1>4. ASSUME NEW y \in T PROVE y <= x
  <2>1. N - x <= N - y
    BY <1>2, <1>3
  <2> QED
    BY <2>1
<1>5. \E z \in T : \A y \in T : z >= y
  BY <1>4
<1> QED
  BY <1>5 DEF Max

\* The steps F of a recursion over 1..N stay within a set S.
StepsWithin(S, N, F) == F \in [S \X (1..N) -> S]

\* f is the recursion's function with the steps F from s.
FollowsSteps(f, N, s, F) == f[0] = s /\ \A k \in 1..N : f[k] = F[<<f[k - 1], k>>]

\* A recursion over 1..N that steps within a set S has a function.
LEMMA RecursionExists ==
    ASSUME NEW N \in Nat, NEW S, NEW s \in S, NEW F, StepsWithin(S, N, F)
    PROVE  \E f \in [0..N -> S] : FollowsSteps(f, N, s, F)
<1> USE DEF StepsWithin, FollowsSteps
<1> DEFINE Sol(n, f) == f[0] = s /\ \A k \in 1..n : f[k] = F[<<f[k - 1], k>>]
           T == {n \in 0..N : \E f \in [0..n -> S] : Sol(n, f)}
<1>1. 0 \in T
  <2> DEFINE g == [x \in 0..0 |-> s]
  <2>1. g \in [0..0 -> S] /\ Sol(0, g)
    OBVIOUS
  <2> HIDE DEF g
  <2>2. \E f \in [0..0 -> S] : Sol(0, f)
    BY <2>1
  <2> QED
    BY <2>2
<1>2. ASSUME NEW n \in 1..N, n - 1 \in T PROVE n \in T
  <2>1. PICK f \in [0..(n - 1) -> S] : Sol(n - 1, f)
    BY <1>2
  <2> DEFINE v == F[<<f[n - 1], n>>]
             g == [x \in 0..n |-> IF x = n THEN v ELSE f[x]]
  <2>2. v \in S
    <3>1. f[n - 1] \in S /\ n \in 1..N
      OBVIOUS
    <3>2. <<f[n - 1], n>> \in S \X (1..N)
      BY <3>1
    <3> HIDE DEF T
    <3> QED
      BY <3>2
  <2> HIDE DEF v
  <2>3. g \in [0..n -> S]
    BY <2>2
  <2>4. g[0] = s
    BY <2>1
  <2>5. ASSUME NEW k \in 1..n PROVE g[k] = F[<<g[k - 1], k>>]
    <3>1. CASE k = n
      <4>1. g[n] = v /\ g[n - 1] = f[n - 1]
        OBVIOUS
      <4> HIDE DEF g
      <4> QED
        BY <3>1, <4>1 DEF v
    <3>2. CASE k # n
      <4>1. k \in 1..(n - 1) /\ k - 1 \in 0..(n - 1)
        BY <3>2
      <4> QED
        BY <2>1, <4>1
    <3> QED
      BY <3>1, <3>2
  <2>6. Sol(n, g)
    BY <2>4, <2>5
  <2> HIDE DEF g, Sol
  <2>7. \E h \in [0..n -> S] : Sol(n, h)
    BY <2>3, <2>6
  <2> QED
    BY <2>7
<1> HIDE DEF T
<1>3. N \in T
  BY <1>1, <1>2, BoundedInduction
<1> QED
  BY <1>3 DEF T

\* The values F of a recursion over 0..N are in S and depend on what precedes them.
LooksBack(F, N, S) ==
    /\ F \in [[0..N -> S] \X (0..N) -> S]
    /\ \A g, h \in [0..N -> S] : \A n \in 0..N :
          (\A m \in 0..(n - 1) : g[m] = h[m]) => F[<<g, n>>] = F[<<h, n>>]

\* f is the function of the recursion, up to M.
FollowsUpTo(f, M, F) == \A n \in 0..M : f[n] = F[<<f, n>>]

\* A recursion that may use all the values before has a function, too.
LEMMA StrongRecursionExists ==
    ASSUME NEW N \in Nat, NEW S, S # {}, NEW F, LooksBack(F, N, S)
    PROVE  \E f \in [0..N -> S] : FollowsUpTo(f, N, F)
<1> DEFINE Fs == [0..N -> S]
           T == {n \in Nat : \E f \in Fs : FollowsUpTo(f, n, F)}
<1>1. \A f \in Fs : \A n \in 0..N : F[<<f, n>>] \in S
  BY DEF LooksBack
<1>2. \A g, h \in Fs : \A n \in 0..N :
         (\A m \in 0..(n - 1) : g[m] = h[m]) => F[<<g, n>>] = F[<<h, n>>]
  BY DEF LooksBack
<1>3. ASSUME NEW n \in 0..N, NEW f \in Fs, \A m \in 0..(n - 1) : f[m] = F[<<f, m>>]
      PROVE  n \in T
  <2> DEFINE v == F[<<f, n>>]
             g == [x \in 0..N |-> IF x = n THEN v ELSE f[x]]
  <2>1. v \in S
    BY <1>1
  <2>2. v = F[<<f, n>>]
    OBVIOUS
  <2> HIDE DEF v
  <2>3. g \in Fs
    BY <2>1
  <2>4. /\ g[n] = v
        /\ \A m \in 0..(n - 1) : g[m] = f[m]
    OBVIOUS
  <2> HIDE DEF g, Fs
  <2>5. ASSUME NEW m \in 0..n PROVE g[m] = F[<<g, m>>]
    <3>1. m \in 0..N /\ \A k \in 0..(m - 1) : g[k] = f[k]
      BY <2>4
    <3>2. F[<<g, m>>] = F[<<f, m>>]
      BY <1>2, <2>3, <3>1
    <3>3. CASE m = n
      BY <2>2, <2>4, <3>2, <3>3
    <3>4. CASE m # n
      <4>1. m \in 0..(n - 1)
        BY <3>4
      <4> QED
        BY <1>3, <2>4, <3>2, <4>1
    <3> QED
      BY <3>3, <3>4
  <2>6. FollowsUpTo(g, n, F)
    BY <2>5 DEF FollowsUpTo
  <2> QED
    BY <2>3, <2>6
<1>4. 0 \in T
  <2>1. PICK s \in S : TRUE
    OBVIOUS
  <2> DEFINE g == [x \in 0..N |-> s]
  <2>2. g \in Fs
    OBVIOUS
  <2> HIDE DEF g, Fs, T
  <2>3. \A m \in 0..(0 - 1) : g[m] = F[<<g, m>>]
    OBVIOUS
  <2> QED
    BY <1>3, <2>2, <2>3
<1>5. ASSUME NEW n \in 1..N, n - 1 \in T PROVE n \in T
  <2>1. PICK f \in Fs : FollowsUpTo(f, n - 1, F)
    BY <1>5
  <2>2. \A m \in 0..(n - 1) : f[m] = F[<<f, m>>]
    BY <2>1 DEF FollowsUpTo
  <2> HIDE DEF Fs, T
  <2> QED
    BY <1>3, <2>2
<1> HIDE DEF T
<1>6. N \in T
  BY <1>4, <1>5, BoundedInduction
<1> QED
  BY <1>6 DEF T

\* Division leaves a remainder.
LEMMA Division ==
    ASSUME NEW w \in Nat \ {0}, NEW x \in Int
    PROVE  x \div w \in Int /\ x % w \in 0..(w - 1) /\ x = w * (x \div w) + (x % w)
OBVIOUS

\* The only multiple of w between -w and w.
LEMMA MultipleBelow ==
    ASSUME NEW w \in Nat \ {0}, NEW m \in Int, m * w < w, m * w > -w
    PROVE  m = 0
<1>1. CASE m >= 1
  <2>1. m * w >= w
    BY <1>1
  <2> QED
    BY <2>1
<1>2. CASE m <= -1
  <2>1. m * w <= -w
    BY <1>2
  <2> QED
    BY <2>1
<1> QED
  BY <1>1, <1>2

\* There is only one quotient and remainder.
LEMMA DivisionUnique ==
    ASSUME NEW w \in Nat \ {0}, NEW q \in Int, NEW r \in 0..(w - 1), NEW x, x = q * w + r
    PROVE  x \div w = q /\ x % w = r
<1> DEFINE p == x \div w
           s == x % w
<1>1. q * w \in Int /\ x \in Int
  OBVIOUS
<1>2. p \in Int /\ s \in 0..(w - 1) /\ x = w * p + s
  BY <1>1, Division
<1> HIDE DEF p, s
<1>3. (q - p) * w = s - r
  <2>1. (q - p) * w = q * w - p * w /\ p * w = w * p
    BY <1>2
  <2> QED
    BY <1>1, <1>2, <2>1
<1>4. q - p = 0
  <2> DEFINE m == q - p
  <2>1. m \in Int /\ m * w = s - r
     BY <1>2, <1>3
  <2> HIDE DEF m
  <2>2. m * w < w /\ m * w > -w
     BY <1>2, <2>1
  <2>3. m = 0
    BY <2>1, <2>2, MultipleBelow
  <2> QED
    BY <2>3 DEF m
<1> QED
  BY <1>1, <1>2, <1>3, <1>4 DEF p, s

\* Taking a remainder first does not change the remainder of a difference.
LEMMA WrapMinus ==
    ASSUME NEW w \in Nat \ {0}, NEW a \in Int, NEW b \in Int
    PROVE  ((a % w) - b) % w = (a - b) % w
<1> DEFINE p == a \div w
           r == a % w
           y == r - b
           q == y \div w
           s == y % w
<1>1. p \in Int /\ r \in 0..(w - 1) /\ a = w * p + r
  BY Division
<1> HIDE DEF p, r
<1>2. y \in Int
  BY <1>1
<1> HIDE DEF y
<1>3. q \in Int /\ s \in 0..(w - 1) /\ y = w * q + s
  BY <1>2, Division
<1> HIDE DEF q, s
<1>4. a - b = (p + q) * w + s
  <2>1. a - b = w * p + y
    BY <1>1, <1>2 DEF y
  <2>2. (p + q) * w = w * p + w * q
    BY <1>1, <1>3
  <2> DEFINE wp == w * p
             wq == w * q
  <2>3. wp \in Int /\ wq \in Int
    BY <1>1, <1>3
  <2>4. a - b = wp + y /\ (p + q) * w = wp + wq /\ y = wq + s
    BY <2>1, <2>2, <1>3
  <2> HIDE DEF wp, wq
  <2> QED
    BY <2>3, <2>4, <1>2, <1>3
<1>5. (a - b) % w = s
  BY <1>1, <1>3, <1>4, DivisionUnique
<1> QED
  BY <1>5 DEF r, y, s

\* The number of multiples of f below k, and below k + 1.
LEMMA CeilStep ==
    ASSUME NEW f \in Nat \ {0}, NEW k \in Nat
    PROVE  /\ ((k + 1) + (f - 1)) \div f = ((k + (f - 1)) \div f) + (IF k % f = 0 THEN 1 ELSE 0)
           /\ (k + (f - 1)) \div f = (k \div f) + (IF k % f = 0 THEN 0 ELSE 1)
<1> DEFINE q == k \div f
           r == k % f
<1>1. q \in Int /\ r \in 0..(f - 1) /\ k = f * q + r
  BY Division
<1> HIDE DEF q, r
<1>2. q * f = f * q /\ (q + 1) * f = q * f + f /\ q * f \in Int
  BY <1>1
<1> DEFINE m == q * f
<1>3. m \in Int /\ k = m + r /\ (q + 1) * f = m + f
  BY <1>1, <1>2
<1> HIDE DEF m
<1>4. ((k + 1) + (f - 1)) \div f = q + 1
  <2>1. (k + 1) + (f - 1) = (q + 1) * f + r
    BY <1>1, <1>3
  <2>2. q + 1 \in Int /\ r \in 0..(f - 1)
    BY <1>1
  <2> DEFINE x == (k + 1) + (f - 1)
             d == q + 1
  <2>3. d \in Int /\ x = d * f + r
    BY <2>1, <2>2
  <2> HIDE DEF x, d
  <2>4. x \div f = d
    BY <2>2, <2>3, DivisionUnique
  <2> QED
    BY <2>4 DEF x, d
<1>5. CASE r = 0
  <2>1. k + (f - 1) = q * f + (f - 1)
    BY <1>1, <1>3, <1>5 DEF m
  <2>2. (k + (f - 1)) \div f = q
    BY <1>1, <2>1, DivisionUnique
  <2> QED
    BY <1>1, <1>4, <1>5, <2>2 DEF q, r
<1>6. CASE r # 0
  <2>1. k + (f - 1) = (q + 1) * f + (r - 1)
    BY <1>1, <1>3, <1>6
  <2>2. q + 1 \in Int /\ r - 1 \in 0..(f - 1)
    BY <1>1, <1>6
  <2>3. (k + (f - 1)) \div f = q + 1
    <3> DEFINE x == k + (f - 1)
               d == q + 1
               e == r - 1
    <3>1. d \in Int /\ e \in 0..(f - 1) /\ x = d * f + e
      BY <2>1, <2>2
    <3> HIDE DEF x, d, e
    <3>2. x \div f = d
      BY <3>1, DivisionUnique
    <3> QED
      BY <3>2 DEF x, d
  <2> QED
    BY <1>1, <1>4, <1>6, <2>3 DEF q, r
<1> QED
  BY <1>5, <1>6

\* Dividing twice is dividing by the product.
LEMMA DivisionTwice ==
    ASSUME NEW a \in Nat \ {0}, NEW b \in Nat \ {0}, NEW x \in Int
    PROVE  /\ a * b \in Nat \ {0}
           /\ x \div (a * b) = (x \div a) \div b
           /\ x % (a * b) = a * ((x \div a) % b) + (x % a)
<1> DEFINE q == x \div a
           r == x % a
           p == q \div b
           s == q % b
<1>1. q \in Int /\ r \in 0..(a - 1) /\ x = a * q + r
  BY Division
<1> HIDE DEF q, r
<1>2. p \in Int /\ s \in 0..(b - 1) /\ q = b * p + s
  BY <1>1, Division
<1> HIDE DEF p, s
<1> DEFINE w == a * b
           t == a * s + r
<1>3. w \in Nat \ {0}
  <2>1. a * b \in Nat /\ a * b # 0
    BY SMT
  <2> QED
    BY <2>1
<1>4. x = p * w + t
  <2>1. a * (b * p + s) = p * (a * b) + a * s
    BY <1>1, <1>2
  <2>2. a * s \in Int /\ a * q \in Int /\ p * (a * b) \in Int
    BY <1>1, <1>2
  <2> QED
    BY <1>1, <1>2, <2>1, <2>2
<1>5. t \in 0..(w - 1)
  <2> DEFINE y == a * s
             z == a * b
  <2>1. y \in Nat /\ z \in Int /\ y <= z - a
    <3>1. a * s \in Nat /\ a * s <= a * (b - 1)
      BY <1>2
    <3>2. a * (b - 1) = a * b - a /\ a * b \in Int
      OBVIOUS
    <3> QED
      BY <3>1, <3>2
  <2>2. t = y + r /\ w = z
    OBVIOUS
  <2>3. r \in Nat /\ r <= a - 1
    BY <1>1
  <2> HIDE DEF y, z, t, w
  <2> QED
    BY <2>1, <2>2, <2>3
<1> HIDE DEF w, t
<1>6. x \div w = p /\ x % w = t
  BY <1>2, <1>3, <1>4, <1>5, DivisionUnique
<1> QED
  BY <1>3, <1>6 DEF w, t, p, s, q, r

\* Multiples of w do not change a remainder.
LEMMA RemainderPlus ==
    ASSUME NEW w \in Nat \ {0}, NEW x \in Int, NEW m \in Int
    PROVE  /\ (x + m * w) % w = x % w
           /\ (x + m * w) \div w = x \div w + m
<1> DEFINE q == x \div w
           r == x % w
           y == x + m * w
           p == q + m
<1>1. q \in Int /\ r \in 0..(w - 1) /\ x = w * q + r
  BY Division
<1> HIDE DEF q, r
<1>2. y = p * w + r /\ p \in Int
  <2>1. (q + m) * w = w * q + m * w
    BY <1>1
  <2>2. w * q \in Int /\ m * w \in Int
    BY <1>1
  <2> QED
    BY <1>1, <2>1, <2>2
<1> HIDE DEF y, p
<1>3. y \div w = p /\ y % w = r
  BY <1>1, <1>2, DivisionUnique
<1> QED
  BY <1>3 DEF y, p, q, r

\* A remainder within a multiple of the divisor.
LEMMA RemainderOfRemainder ==
    ASSUME NEW w \in Nat \ {0}, NEW m \in Nat \ {0}, NEW x \in Int
    PROVE  (x % (w * m)) % w = x % w
<1> DEFINE u == w * m
           q == x \div u
           r == x % u
           k == q * m
<1>1. u \in Nat \ {0}
  BY DivisionTwice
<1>2. q \in Int /\ r \in 0..(u - 1) /\ x = u * q + r
  BY <1>1, Division
<1> HIDE DEF q, r
<1>3. k \in Int /\ r \in Int /\ x = r + k * w
  <2>1. (w * m) * q = (q * m) * w /\ (w * m) * q \in Int /\ q * m \in Int
    BY <1>2
  <2> QED
    BY <1>2, <2>1
<1> HIDE DEF k, u
<1>4. x % w = r % w
  BY <1>3, RemainderPlus
<1> QED
  BY <1>4 DEF r, u

\* A number below the divisor is its own remainder.
LEMMA RemainderOfSmall ==
    ASSUME NEW w \in Nat \ {0}, NEW x \in 0..(w - 1)
    PROVE  x % w = x
<1> DEFINE z == 0
<1>1. z \in Int /\ x = z * w + x
  OBVIOUS
<1> HIDE DEF z
<1> QED
  BY <1>1, DivisionUnique

\* A multiple of F.
LEMMA MultipleIs ==
    ASSUME NEW F \in Nat \ {0}, NEW n \in Nat, n % F = 0
    PROVE  n \div F \in Nat /\ n = (n \div F) * F /\ (n + (F - 1)) \div F = n \div F
<1> DEFINE M == n \div F
<1>1. M \in Int /\ n = F * M + (n % F)
  BY Division
<1>2. (n + (F - 1)) \div F = M
  <2>1. (n + (F - 1)) \div F = M + (IF n % F = 0 THEN 0 ELSE 1)
    BY CeilStep
  <2> HIDE DEF M
  <2> QED
    BY <1>1, <2>1
<1> HIDE DEF M
<1>3. n = M * F
  BY <1>1
<1>4. M >= 0
  <2>1. M < 0 => M * F < 0
    BY <1>1
  <2> QED
    BY <1>1, <1>3, <2>1
<1> QED
  BY <1>1, <1>2, <1>3, <1>4 DEF M

\* What a division of the way E by F, k times, has of it.
LEMMA QuotientOfWay ==
    ASSUME NEW E \in Nat, NEW F \in Nat \ {0}, NEW k \in 0..(F - 1), NEW m, m = E * k,
           NEW q, q = m \div F
    PROVE  q \in 0..E /\ q * F <= m /\ m - q * F < F /\ m \in Nat /\ m <= E * F
<1>1. m \in Nat /\ m <= E * F
  <2>1. m \in Nat
    OBVIOUS
  <2>2. E * k <= E * F
    <3>1. F - k \in Nat /\ E * (F - k) >= 0
      OBVIOUS
    <3>2. E * F = E * k + E * (F - k)
      OBVIOUS
    <3> QED
      BY <3>1, <3>2
  <2> QED
    BY <2>1, <2>2
<1> DEFINE r == m % F
           x == q * F
           lim == E * F
<1>2. q \in Int /\ r \in 0..(F - 1) /\ m = F * q + r /\ F * q = x
  <2>1. m \in Int
    BY <1>1
  <2>2. q \in Int /\ r \in 0..(F - 1) /\ m = F * q + r
    BY <2>1, Division
  <2>3. F * q = x
    BY <2>2
  <2> QED
    BY <2>2, <2>3
<1>3. x <= m /\ m - x < F
  <2>1. x \in Int
    BY <1>2
  <2> HIDE DEF x, r
  <2> QED
    BY <1>1, <1>2, <2>1
<1>4. q >= 0
  <2> SUFFICES ASSUME q <= -1 PROVE FALSE
    BY <1>2
  <2>1. x <= -F
    BY <1>2
  <2> HIDE DEF x
  <2> QED
    BY <1>1, <1>3, <2>1
<1>5. q <= E
  <2> SUFFICES ASSUME q >= E + 1 PROVE FALSE
    BY <1>2
  <2>1. x >= (E + 1) * F /\ (E + 1) * F = lim + F /\ lim \in Nat
    BY <1>2
  <2> DEFINE y == (E + 1) * F
  <2>2. x >= y /\ y = lim + F
    BY <2>1
  <2>3. x \in Int /\ y \in Int
    BY <1>2
  <2> HIDE DEF x, lim, y
  <2>4. x > lim
    BY <2>1, <2>2, <2>3
  <2> QED
    BY <1>1, <1>3, <2>1, <2>3, <2>4 DEF lim
<1> QED
  BY <1>1, <1>2, <1>3, <1>4, <1>5
=============================================================================
