---------------------------- MODULE AudibleProofs ----------------------------
(* Proofs about the audio filter, for all words, files and widths of a     *)
(* byte.                                                                   *)
EXTENDS Audible, NaturalLemmas, SequenceTheorems

-----------------------------------------------------------------------------
(* The command line.                                                       *)

Strings == DOMAIN Characters

LEMMA BytesHaveBits == ByteBits \in Nat \ {0, 1}
BY ArgsAssumption

\* A power is a positive number: induction on the exponent.
LEMMA PowerIsPositive ==
    ASSUME NEW b \in Nat \ {0}, NEW N \in Nat
    PROVE  Power(b, N) \in Nat \ {0}
<1> DEFINE Pos == Nat \ {0}
           F == [y \in Pos \X (1..N) |-> b * y[1]]
           p == CHOOSE f : f = [j \in 0..N |-> IF j = 0 THEN 1 ELSE b * f[j - 1]]
<1>1. ASSUME NEW h \in Pos PROVE b * h \in Pos
  OBVIOUS
<1>2. Power(b, N) = p[N]
  BY DEF Power
<1> HIDE DEF Pos
<1>3. StepsWithin(Pos, N, F)
  BY <1>1 DEF StepsWithin
<1>o. 1 \in Pos
  BY DEF Pos
<1>4. PICK f \in [0..N -> Pos] : FollowsSteps(f, N, 1, F)
  <2> HIDE DEF F
  <2> QED
    BY <1>o, <1>3, RecursionExists
<1>5. ASSUME NEW j \in 1..N PROVE f[j] = b * f[j - 1]
  <2>1. <<f[j - 1], j>> \in Pos \X (1..N)
    OBVIOUS
  <2>2. f[j] = F[<<f[j - 1], j>>]
    BY <1>4 DEF FollowsSteps
  <2> QED
    BY <2>1, <2>2
<1>6. f = [j \in 0..N |-> IF j = 0 THEN 1 ELSE b * f[j - 1]]
  BY <1>4, <1>5 DEF FollowsSteps
<1>7. p = [j \in 0..N |-> IF j = 0 THEN 1 ELSE b * p[j - 1]]
  <2> HIDE DEF F
  <2> QED
    BY <1>6
<1> HIDE DEF p, F
<1>8. \A j \in 0..N : p[j] \in Pos
  <2> DEFINE T == {j \in 0..N : p[j] \in Pos}
  <2>1. 0 \in T
    BY <1>7, <1>o
  <2>2. ASSUME NEW j \in 1..N, j - 1 \in T PROVE j \in T
    <3>1. j \in 0..N /\ p[j] = b * p[j - 1]
      BY <1>7
    <3> QED
      BY <1>1, <2>2, <3>1
  <2> HIDE DEF T
  <2>3. \A j \in 0..N : j \in T
    BY <2>1, <2>2, BoundedInduction
  <2> QED
    BY <2>3 DEF T
<1> QED
  BY <1>2, <1>8 DEF Pos

\* The values of a byte and of an int.
LEMMA WordIsPositive ==
    Base \in Nat \ {0} /\ Word \in Nat \ {0} /\ ANNOTATION_MAX \in Nat /\ ANNOTATION_MAX + 24 < Word
<1>1. Base \in Nat \ {0}
  BY PowerIsPositive, BytesHaveBits DEF Base
<1>2. Word \in Nat \ {0}
  BY <1>1, PowerIsPositive DEF Word
<1> QED
  BY <1>1, <1>2, AudibleAssumption DEF HeaderSize

IsFactor(w) == w \in Strings /\ validFactorHelper(w)
IsKey(w) == w \in Strings /\ validKeyHelper(w)

-----------------------------------------------------------------------------
(* Numbers on the command line.                                            *)

\* A character is at most one digit.
LEMMA DigitOf ==
    /\ \A x \in 48..57 : Digit(x) = x - 48 /\ hexToInt(x) = x - 48
    /\ \A x \in 65..70 : Digit(x) = x - 55 /\ hexToInt(x) = x - 55
    /\ \A x \in 97..102 : Digit(x) = x - 87 /\ hexToInt(x) = x - 87
<1>1. ASSUME NEW x \in Int, NEW e \in 0..15, DigitIs(x, e) PROVE Digit(x) = e
  <2> DEFINE c == CHOOSE d \in 0..15 : DigitIs(x, d)
  <2>1. c \in 0..15 /\ DigitIs(x, c)
    BY <1>1
  <2>2. Digit(x) = c
    BY DEF Digit
  <2> HIDE DEF c
  <2>3. c = e
    BY <1>1, <2>1 DEF DigitIs
  <2> QED
    BY <2>2, <2>3
<1>2. ASSUME NEW x \in 48..57 PROVE Digit(x) = x - 48 /\ hexToInt(x) = x - 48
  <2>1. x \in Int /\ x - 48 \in 0..15 /\ DigitIs(x, x - 48)
    BY DEF DigitIs
  <2> QED
    BY <1>1, <2>1 DEF hexToInt
<1>3. ASSUME NEW x \in 65..70 PROVE Digit(x) = x - 55 /\ hexToInt(x) = x - 55
  <2>1. x \in Int /\ x - 55 \in 0..15 /\ DigitIs(x, x - 55)
    BY DEF DigitIs
  <2>2. hexToInt(x) = x - 55
    BY DEF hexToInt
  <2> QED
    BY <1>1, <2>1, <2>2
<1>4. ASSUME NEW x \in 97..102 PROVE Digit(x) = x - 87 /\ hexToInt(x) = x - 87
  <2>1. x \in Int /\ x - 87 \in 0..15 /\ DigitIs(x, x - 87)
    BY DEF DigitIs
  <2>2. hexToInt(x) = x - 87
    BY DEF hexToInt
  <2> QED
    BY <1>1, <2>1, <2>2
<1> QED
  BY <1>2, <1>3, <1>4

HexDigits == 48..57 \cup 65..70 \cup 97..102

\* The characters of numbers.
LEMMA DigitsOf ==
    ASSUME NEW w \in Strings
    PROVE  /\ IsNumber(w, 10) <=> /\ Characters[w] # <<>>
                                  /\ \A k \in DOMAIN Characters[w] : Characters[w][k] \in 48..57
           /\ IsNumber(w, 16) <=> /\ Characters[w] # <<>>
                                  /\ \A k \in DOMAIN Characters[w] : Characters[w][k] \in HexDigits
<1>1. \A x : (\E d \in 0..9 : DigitIs(x, d)) <=> x \in 48..57
  <2>1. ASSUME NEW x, NEW d \in 0..9, DigitIs(x, d) PROVE x \in 48..57
    BY <2>1 DEF DigitIs
  <2>2. ASSUME NEW x \in 48..57 PROVE \E d \in 0..9 : DigitIs(x, d)
    <3>1. x - 48 \in 0..9 /\ DigitIs(x, x - 48)
      BY DEF DigitIs
    <3> QED
      BY <3>1
  <2> QED
    BY <2>1, <2>2
<1>2. \A x : (\E d \in 0..15 : DigitIs(x, d)) <=> x \in HexDigits
  <2>1. ASSUME NEW x, NEW d \in 0..15, DigitIs(x, d) PROVE x \in HexDigits
    BY <2>1 DEF DigitIs, HexDigits
  <2>2. ASSUME NEW x \in HexDigits PROVE \E d \in 0..15 : DigitIs(x, d)
    <3>1. CASE x \in 48..57
      <4>1. x - 48 \in 0..15 /\ DigitIs(x, x - 48)
        BY <3>1 DEF DigitIs
      <4> QED
        BY <4>1
    <3>2. CASE x \in 65..70
      <4>1. x - 55 \in 0..15 /\ DigitIs(x, x - 55)
        BY <3>2 DEF DigitIs
      <4> QED
        BY <4>1
    <3>3. CASE x \in 97..102
      <4>1. x - 87 \in 0..15 /\ DigitIs(x, x - 87)
        BY <3>3 DEF DigitIs
      <4> QED
        BY <4>1
    <3> QED
      BY <3>1, <3>2, <3>3 DEF HexDigits
  <2> QED
    BY <2>1, <2>2
<1>3. 10 - 1 = 9 /\ 16 - 1 = 15
  OBVIOUS
<1> QED
  BY <1>1, <1>2, <1>3, Zenon DEF IsNumber

\* f is the value of the digits d so far.
Digits(f, d, N, base) == f[0] = 0 /\ \A k \in 1..N : f[k] = f[k - 1] * base + d[k]

LEMMA SameDigits ==
    ASSUME NEW N \in Nat, NEW base \in Nat, NEW d, NEW f, NEW g,
           Digits(f, d, N, base), Digits(g, d, N, base)
    PROVE  f[N] = g[N]
<1> DEFINE T == {k \in 0..N : f[k] = g[k]}
<1>1. 0 \in T
  BY DEF Digits
<1>2. ASSUME NEW k \in 1..N, k - 1 \in T PROVE k \in T
  BY <1>2 DEF Digits
<1> HIDE DEF T
<1>3. \A k \in 0..N : k \in T
  BY <1>1, <1>2, BoundedInduction
<1> QED
  BY <1>3 DEF T

\* The digits of a word, and how many they are.
LEMMA CharactersOf ==
    ASSUME NEW w \in Strings
    PROVE  /\ Len(Characters[w]) \in Nat
           /\ DOMAIN Characters[w] = 1..Len(Characters[w])
           /\ \A k \in 1..Len(Characters[w]) : Characters[w][k] \in Char
           /\ Characters[w] = <<>> <=> Len(Characters[w]) = 0
<1>1. Characters[w] \in Seq(Char)
  BY ArgsAssumption DEF Strings
<1> DEFINE c == Characters[w]
<1> HIDE DEF c
<1>2. c \in Seq(Char)
  BY <1>1 DEF c
<1>3. Len(c) \in Nat /\ DOMAIN c = 1..Len(c) /\ \A k \in 1..Len(c) : c[k] \in Char
  BY <1>2
<1>4. c = <<>> <=> Len(c) = 0
  BY <1>2
<1> QED
  BY <1>3, <1>4 DEF c

\* What Number and hexStringToInt compute of digits.
LEMMA NumberIs ==
    ASSUME NEW w \in Strings, NEW base \in {10, 16}, NEW N \in Nat, N = Len(Characters[w]),
           \A k \in 1..N : Digit(Characters[w][k]) \in 0..15
    PROVE  \E f \in [0..N -> Nat] :
               /\ Digits(f, [k \in 1..N |-> Digit(Characters[w][k])], N, base)
               /\ Number(w, base) = f[N]
<1> DEFINE d == [k \in 1..N |-> Digit(Characters[w][k])]
           step(h, j) == h * base + Digit(Characters[w][j])
           F == [y \in Nat \X (1..N) |-> step(y[1], y[2])]
           value == CHOOSE f : f = [k \in 0..N |-> IF k = 0 THEN 0 ELSE step(f[k - 1], k)]
<1>N. N \in Nat
  BY CharactersOf
<1>1. ASSUME NEW h \in Nat, NEW j \in 1..N PROVE step(h, j) \in Nat
  <2> DEFINE x == Digit(Characters[w][j])
  <2>1. x \in 0..15
    OBVIOUS
  <2>b. base \in Nat
    OBVIOUS
  <2> HIDE DEF x
  <2>2. h * base + x \in Nat
    BY <2>1, <2>b
  <2> QED
    BY <2>2 DEF x
<1>2. Number(w, base) = value[N]
  BY DEF Number
<1>d. \A k \in 1..N : \A h \in Nat : h * base + d[k] = step(h, k)
  OBVIOUS
<1> HIDE DEF step, d
<1>3. StepsWithin(Nat, N, F)
  BY <1>1 DEF StepsWithin
<1>4. PICK f \in [0..N -> Nat] : FollowsSteps(f, N, 0, F)
  <2> HIDE DEF F
  <2> QED
    BY <1>N, <1>3, RecursionExists
<1>5. ASSUME NEW j \in 1..N PROVE f[j] = step(f[j - 1], j)
  <2>1. <<f[j - 1], j>> \in Nat \X (1..N)
    <3>1. j - 1 \in 0..N
      BY <1>N
    <3>2. f[j - 1] \in Nat
      BY <3>1
    <3> QED
      BY <3>2
  <2>2. f[j] = F[<<f[j - 1], j>>]
    BY <1>4 DEF FollowsSteps
  <2> QED
    BY <2>1, <2>2
<1>6. f = [j \in 0..N |-> IF j = 0 THEN 0 ELSE step(f[j - 1], j)]
  BY <1>4, <1>5, <1>N DEF FollowsSteps
<1>7. value = [j \in 0..N |-> IF j = 0 THEN 0 ELSE step(value[j - 1], j)]
  <2> HIDE DEF F
  <2> QED
    BY <1>6
<1> HIDE DEF value, F
<1>8. \A j \in 0..N : value[j] \in Nat
  <2> DEFINE T == {j \in 0..N : value[j] \in Nat}
  <2>1. 0 \in T
    BY <1>7, <1>N
  <2>2. ASSUME NEW j \in 1..N, j - 1 \in T PROVE j \in T
    <3>1. j \in 0..N /\ value[j] = step(value[j - 1], j)
      BY <1>7, <1>N
    <3> QED
      BY <1>1, <2>2, <3>1
  <2> HIDE DEF T
  <2>3. \A j \in 0..N : j \in T
    BY <1>N, <2>1, <2>2, BoundedInduction
  <2> QED
    BY <2>3 DEF T
<1>9. value \in [0..N -> Nat]
  BY <1>7, <1>8
<1>10. Digits(value, d, N, base)
  <2>1. value[0] = 0
    BY <1>7, <1>N
  <2>2. ASSUME NEW k \in 1..N PROVE value[k] = value[k - 1] * base + d[k]
    <3>1. k \in 0..N /\ value[k] = step(value[k - 1], k)
      BY <1>7, <1>N
    <3>2. value[k - 1] \in Nat
      BY <1>8, <1>N
    <3> QED
      BY <1>d, <3>1, <3>2
  <2> QED
    BY <2>1, <2>2 DEF Digits
<1>11. /\ value \in [0..N -> Nat] /\ Digits(value, d, N, base)
       /\ Number(w, base) = value[N]
  BY <1>2, <1>9, <1>10
<1>12. \E f1 \in [0..N -> Nat] : Digits(f1, d, N, base) /\ Number(w, base) = f1[N]
  BY <1>11
<1> QED
  BY <1>12 DEF d

LEMMA SignedOfSmall ==
    /\ \A x \in Int : Signed(x) \in Int
    /\ \A x \in Nat : x < Word \div 2 => Signed(x) = x
<1>1. Word \in Nat \ {0}
  BY WordIsPositive
<1> DEFINE h == Word \div 2
<1>2. h \in Nat /\ 2 * h <= Word
  BY <1>1
<1>3. \A x : Signed(x) = ((x + h) % Word) - h
  BY DEF Signed
<1> HIDE DEF h
<1>4. ASSUME NEW x \in Int PROVE Signed(x) \in Int
  BY <1>1, <1>2, <1>3
<1>5. ASSUME NEW x \in Nat, x < h PROVE Signed(x) = x
  <2>1. x + h \in 0..(Word - 1)
    BY <1>1, <1>2, <1>5
  <2>2. (x + h) % Word = x + h
    BY <1>1, <2>1
  <2> QED
    BY <1>2, <1>3, <1>5, <2>2
<1> QED
  BY <1>4, <1>5 DEF h

\* The values in an int on the way through a word.
LEMMA CharToIntIs ==
    ASSUME NEW w \in Strings, NEW N \in Nat, N = Len(Characters[w])
    PROVE  \E f \in [0..N -> Int] :
               /\ f[0] = 0
               /\ \A k \in 1..N : f[k] = Signed(f[k - 1] * 10 + (Characters[w][k] - 48))
               /\ charToInt(w) = f[N]
<1> DEFINE step(h, j) == Signed(h * 10 + (Characters[w][j] - 48))
           F == [y \in Int \X (1..N) |-> step(y[1], y[2])]
           value == CHOOSE f : f = [k \in 0..N |-> IF k = 0 THEN 0 ELSE step(f[k - 1], k)]
<1> DEFINE Z == Int
<1>N. N \in Nat
  BY CharactersOf
<1>1. ASSUME NEW h \in Int, NEW j \in 1..N PROVE step(h, j) \in Int
  <2> DEFINE x == Characters[w][j]
  <2>1. x \in Int
    <3>1. \A k \in 1..N : Characters[w][k] \in Char
      BY CharactersOf
    <3>2. \A y \in Char : y \in Int
      BY DEF Char
    <3> QED
      BY <3>1, <3>2
  <2> HIDE DEF x
  <2>2. h * 10 + (x - 48) \in Int
    BY <2>1
  <2>3. Signed(h * 10 + (x - 48)) \in Int
    BY <2>2, SignedOfSmall
  <2> QED
    BY <2>3 DEF x
<1>2. charToInt(w) = value[N]
  BY DEF charToInt
<1>d. \A k, h : step(h, k) = Signed(h * 10 + (Characters[w][k] - 48))
  OBVIOUS
<1>z. 0 \in Z /\ \A y : y \in Z <=> y \in Int
  OBVIOUS
<1>t. F = [y \in Z \X (1..N) |-> step(y[1], y[2])]
  OBVIOUS
<1> HIDE DEF step, Z, F
<1>3. StepsWithin(Z, N, F)
  BY <1>1, <1>t, <1>z DEF StepsWithin
<1>4. PICK f \in [0..N -> Z] : FollowsSteps(f, N, 0, F)
  BY <1>N, <1>z, <1>3, RecursionExists
<1>5. ASSUME NEW j \in 1..N PROVE f[j] = step(f[j - 1], j)
  <2>1. <<f[j - 1], j>> \in Z \X (1..N)
    BY <1>N
  <2>2. f[j] = F[<<f[j - 1], j>>]
    BY <1>4 DEF FollowsSteps
  <2> QED
    BY <1>t, <2>1, <2>2
<1>6. f = [j \in 0..N |-> IF j = 0 THEN 0 ELSE step(f[j - 1], j)]
  BY <1>4, <1>5, <1>N DEF FollowsSteps
<1>7. value = [j \in 0..N |-> IF j = 0 THEN 0 ELSE step(value[j - 1], j)]
  BY <1>6
<1> HIDE DEF value
<1>8. \A j \in 0..N : value[j] \in Z
  <2> DEFINE T == {j \in 0..N : value[j] \in Z}
  <2>1. 0 \in T
    BY <1>7, <1>N, <1>z
  <2>2. ASSUME NEW j \in 1..N, j - 1 \in T PROVE j \in T
    <3>1. j \in 0..N /\ value[j] = step(value[j - 1], j)
      BY <1>7, <1>N, SMTT(40)
    <3> QED
      BY <1>1, <1>z, <2>2, <3>1
  <2> HIDE DEF T
  <2>3. \A j \in 0..N : j \in T
    BY <1>N, <2>1, <2>2, BoundedInduction
  <2> QED
    BY <2>3 DEF T
<1>9. value \in [0..N -> Int] /\ value[0] = 0
  <2>1. \A j \in 0..N : value[j] \in Int
    BY <1>8, <1>z
  <2>2. value \in [0..N -> Int]
    BY <1>7, <2>1
  <2> QED
    BY <1>7, <1>N, <2>2
<1>10. \A k \in 1..N : value[k] = Signed(value[k - 1] * 10 + (Characters[w][k] - 48))
  <2>1. \A k \in 1..N : value[k] = step(value[k - 1], k)
    BY <1>7, <1>N, SMTT(40)
  <2> QED
    BY <1>d, <2>1
<1> QED
  BY <1>2, <1>9, <1>10

\* An int that does not overflow reads a decimal number as it is.
LEMMA DecimalIsRead ==
    ASSUME NEW w \in Strings, IsNumber(w, 10)
    PROVE  /\ Number(w, 10) \in Nat
           /\ Number(w, 10) < Word \div 2 => charToInt(w) = Number(w, 10)
<1> DEFINE N == Len(Characters[w])
           d == [k \in 1..N |-> Digit(Characters[w][k])]
           h == Word \div 2
<1>1. N \in Nat /\ \A k \in 1..N : Characters[w][k] \in 48..57
  BY DigitsOf, CharactersOf
<1>2. \A k \in 1..N : d[k] = Characters[w][k] - 48 /\ d[k] \in 0..9
  <2>1. ASSUME NEW k \in 1..N PROVE d[k] = Characters[w][k] - 48 /\ d[k] \in 0..9
    <3> DEFINE x == Characters[w][k]
    <3>1. x \in 48..57 /\ d[k] = Digit(x)
      BY <1>1
    <3> HIDE DEF x, d
    <3>2. d[k] = x - 48
      BY <3>1, DigitOf
    <3>3. x - 48 \in 0..9
      BY <3>1
    <3> QED
      BY <3>2, <3>3 DEF x
  <2> QED
    BY <2>1
<1>3. \A k \in 1..N : Digit(Characters[w][k]) \in 0..15
  <2>1. \A k \in 1..N : d[k] = Digit(Characters[w][k])
    OBVIOUS
  <2> HIDE DEF d
  <2>2. ASSUME NEW k \in 1..N PROVE Digit(Characters[w][k]) \in 0..15
    <3>1. d[k] \in 0..9 /\ d[k] = Digit(Characters[w][k])
      BY <1>2, <2>1
    <3> QED
      BY <3>1
  <2> QED
    BY <2>2
<1>4. PICK f \in [0..N -> Nat] : Digits(f, d, N, 10) /\ Number(w, 10) = f[N]
  BY <1>1, <1>3, NumberIs
<1>5. PICK v \in [0..N -> Int] :
          /\ v[0] = 0
          /\ \A k \in 1..N : v[k] = Signed(v[k - 1] * 10 + (Characters[w][k] - 48))
          /\ charToInt(w) = v[N]
  BY <1>1, CharToIntIs
<1>6. \A x \in Nat : x < h => Signed(x) = x
  BY SignedOfSmall
<1>7. h \in Nat
  BY WordIsPositive
<1> HIDE DEF N, d, h
<1>8. ASSUME f[N] < h PROVE v[N] = f[N]
  <2>1. \A k \in 1..N : f[k] = f[k - 1] * 10 + d[k] /\ f[k] \in Nat /\ f[k - 1] \in Nat
    BY <1>1, <1>4 DEF Digits
  <2>2. \A j \in 0..N : f[N - j] < h
    <3> DEFINE T == {j \in 0..N : f[N - j] < h}
    <3>1. 0 \in T
      BY <1>1, <1>8
    <3>2. ASSUME NEW j \in 1..N, j - 1 \in T PROVE j \in T
      <4> DEFINE k == N - (j - 1)
      <4>1. k \in 1..N /\ k - 1 = N - j
        BY <1>1
      <4>2. f[k] < h
        BY <3>2
      <4> HIDE DEF k
      <4>3. f[k] = f[k - 1] * 10 + d[k] /\ f[k - 1] \in Nat /\ d[k] \in 0..9
        BY <1>2, <2>1, <4>1
      <4> DEFINE a == f[N - j]
                 c == d[k]
      <4>4. a * 10 + c < h /\ a \in Nat /\ c \in 0..9
        <5>1. f[k - 1] = a
          BY <4>1
        <5> QED
          BY <4>2, <4>3, <5>1
      <4>5. j \in 0..N
        BY <1>1
      <4> HIDE DEF a, c
      <4>6. a < h
        BY <1>7, <4>4
      <4> QED
        BY <4>5, <4>6 DEF a
    <3> HIDE DEF T
    <3>3. \A j \in 0..N : j \in T
      BY <1>1, <3>1, <3>2, BoundedInduction
    <3> QED
      BY <3>3 DEF T
  <2>3. \A k \in 0..N : f[k] < h
    <3>1. ASSUME NEW k \in 0..N PROVE f[k] < h
      <4>1. N - k \in 0..N /\ N - (N - k) = k
        BY <1>1
      <4> QED
        BY <2>2, <4>1
    <3> QED
      BY <3>1
  <2> DEFINE T == {k \in 0..N : v[k] = f[k]}
  <2>4. 0 \in T
    BY <1>1, <1>4, <1>5 DEF Digits
  <2>5. ASSUME NEW k \in 1..N, k - 1 \in T PROVE k \in T
    <3>1. v[k] = Signed(f[k - 1] * 10 + (Characters[w][k] - 48))
      BY <1>5, <2>5
    <3>2. f[k] = f[k - 1] * 10 + (Characters[w][k] - 48)
      BY <1>2, <2>1
    <3>3. f[k] \in Nat /\ f[k] < h
      BY <2>1, <2>3
    <3> QED
      BY <1>6, <3>1, <3>2, <3>3
  <2> HIDE DEF T
  <2>6. \A k \in 0..N : k \in T
    BY <1>1, <2>4, <2>5, BoundedInduction
  <2> QED
    BY <1>1, <2>6 DEF T
<1>9. f[N] \in Nat
  BY <1>1, <1>4
<1> QED
  BY <1>4, <1>5, <1>8, <1>9 DEF h

\* The words of factors: validargs reads those of the usage text as they are,
\* and accepts odd ones besides.
LEMMA FactorWords ==
    /\ \A w \in Factors : IsFactor(w) /\ charToInt(w) = Number(w, 10)
    /\ \A w \in Strings : IsFactor(w) => w \in Factors \cup OddFactors
<1>1. MaxFactor \in Nat /\ MaxFactor < Word \div 2 /\ Word \div 2 \in Nat
  BY ArgsAssumption, WordIsPositive
<1>2. ASSUME NEW w \in Factors PROVE IsFactor(w) /\ charToInt(w) = Number(w, 10)
  <2>1. w \in Strings /\ IsNumber(w, 10) /\ Number(w, 10) \in 1..MaxFactor
    BY DEF Factors, Strings
  <2>2. charToInt(w) = Number(w, 10)
    <3>1. Number(w, 10) < Word \div 2
      BY <1>1, <2>1
    <3> QED
      BY <2>1, <3>1, DecimalIsRead
  <2>3. numbersOnly(w)
    <3>1. \A k \in 1..Len(Characters[w]) : Characters[w][k] \in 48..57
      BY <2>1, DigitsOf, CharactersOf
    <3>2. Len(Characters[w]) \in Nat /\ DOMAIN Characters[w] = 1..Len(Characters[w])
      BY <2>1, CharactersOf
    <3> QED
      BY <3>1, <3>2 DEF numbersOnly
  <2> QED
    BY <2>1, <2>2, <2>3 DEF IsFactor, validFactorHelper
<1>3. ASSUME NEW w \in Strings, IsFactor(w), w \notin OddFactors PROVE w \in Factors
  <2>1. numbersOnly(w) /\ charToInt(w) \in 1..MaxFactor
    BY <1>3 DEF IsFactor, validFactorHelper
  <2>2. \A k \in DOMAIN Characters[w] : Characters[w][k] <= 57
    BY <2>1 DEF numbersOnly
  <2>3. IsNumber(w, 10) /\ ~(Number(w, 10) >= Word \div 2)
    BY <1>3, <2>2 DEF OddFactors, Strings
  <2>4. Number(w, 10) = charToInt(w)
    <3>1. Number(w, 10) \in Nat
      BY <2>3, DecimalIsRead
    <3>2. Number(w, 10) < Word \div 2
      BY <1>1, <2>3, <3>1
    <3> QED
      BY <2>3, <3>2, DecimalIsRead
  <2> QED
    BY <2>1, <2>3, <2>4 DEF Factors, Strings
<1> QED
  BY <1>2, <1>3

\* hexStringToInt reads digits as they are.
LEMMA HexIsRead ==
    ASSUME NEW w \in Strings, \A k \in DOMAIN Characters[w] : Characters[w][k] \in HexDigits
    PROVE  hexStringToInt(w) = Number(w, 16) /\ Number(w, 16) \in Nat
<1> DEFINE N == Len(Characters[w])
           d == [k \in 1..N |-> Digit(Characters[w][k])]
           step(h, j) == h * 16 + hexToInt(Characters[w][j])
           F == [y \in Nat \X (1..N) |-> step(y[1], y[2])]
           value == CHOOSE f : f = [k \in 0..N |-> IF k = 0 THEN 0 ELSE step(f[k - 1], k)]
<1>N. N \in Nat /\ DOMAIN Characters[w] = 1..N
  BY CharactersOf
<1>0. ASSUME NEW k \in 1..N
      PROVE  d[k] = hexToInt(Characters[w][k]) /\ d[k] \in 0..15
  <2>1. Characters[w][k] \in HexDigits /\ d[k] = Digit(Characters[w][k])
    BY <1>N
  <2> DEFINE x == Characters[w][k]
  <2> HIDE DEF x, d
  <2>2. x \in HexDigits /\ d[k] = Digit(x)
    BY <2>1 DEF x
  <2>3. Digit(x) = hexToInt(x) /\ Digit(x) \in 0..15
    <3>1. CASE x \in 48..57
      <4>1. Digit(x) = x - 48 /\ hexToInt(x) = x - 48
        BY <3>1, DigitOf
      <4> QED
        BY <3>1, <4>1
    <3>2. CASE x \in 65..70
      <4>1. Digit(x) = x - 55 /\ hexToInt(x) = x - 55
        BY <3>2, DigitOf
      <4> QED
        BY <3>2, <4>1
    <3>3. CASE x \in 97..102
      <4>1. Digit(x) = x - 87 /\ hexToInt(x) = x - 87
        BY <3>3, DigitOf
      <4> QED
        BY <3>3, <4>1
    <3> QED
      BY <2>2, <3>1, <3>2, <3>3 DEF HexDigits
  <2> QED
    BY <2>2, <2>3 DEF x
<1>1. ASSUME NEW h \in Nat, NEW j \in 1..N PROVE step(h, j) \in Nat
  <2>1. hexToInt(Characters[w][j]) \in 0..15
    BY <1>0
  <2> DEFINE x == hexToInt(Characters[w][j])
  <2> HIDE DEF x
  <2>2. h * 16 + x \in Nat
    BY <2>1, SMTT(40) DEF x
  <2> QED
    BY <2>2 DEF x
<1>2. hexStringToInt(w) = value[N]
  BY DEF hexStringToInt
<1>3. PICK g \in [0..N -> Nat] : Digits(g, d, N, 16) /\ Number(w, 16) = g[N]
  <2>1. \A k \in 1..N : Digit(Characters[w][k]) \in 0..15
    BY <1>0
  <2> QED
    BY <1>N, <2>1, NumberIs
<1>d. \A k \in 1..N : \A h : h * 16 + d[k] = step(h, k)
  BY <1>0
<1> HIDE DEF N, step, d
<1>4. StepsWithin(Nat, N, F)
  BY <1>1 DEF StepsWithin
<1>5. PICK f \in [0..N -> Nat] : FollowsSteps(f, N, 0, F)
  <2> HIDE DEF F
  <2> QED
    BY <1>N, <1>4, RecursionExists
<1>6. ASSUME NEW j \in 1..N PROVE f[j] = step(f[j - 1], j)
  <2>1. <<f[j - 1], j>> \in Nat \X (1..N)
    BY <1>N
  <2>2. f[j] = F[<<f[j - 1], j>>]
    BY <1>5 DEF FollowsSteps
  <2> QED
    BY <2>1, <2>2
<1>7. f = [j \in 0..N |-> IF j = 0 THEN 0 ELSE step(f[j - 1], j)]
  BY <1>5, <1>6, <1>N DEF FollowsSteps
<1>8. value = [j \in 0..N |-> IF j = 0 THEN 0 ELSE step(value[j - 1], j)]
  <2> HIDE DEF F
  <2> QED
    BY <1>7
<1> HIDE DEF value, F
<1>9. Digits(value, d, N, 16)
  <2>1. value[0] = 0
    BY <1>8, <1>N
  <2>2. ASSUME NEW k \in 1..N PROVE value[k] = value[k - 1] * 16 + d[k]
    <3>1. value[k] = step(value[k - 1], k)
      BY <1>8, <1>N, SMTT(40)
    <3> QED
      BY <1>d, <3>1
  <2> QED
    BY <2>1, <2>2 DEF Digits
<1>10. value[N] = g[N]
  <2> DEFINE b == 16
  <2>1. b \in Nat /\ Digits(g, d, N, b) /\ Digits(value, d, N, b)
    BY <1>3, <1>9
  <2> HIDE DEF b
  <2> QED
    BY <1>N, <2>1, SameDigits
<1>11. g[N] \in Nat
  BY <1>N, <1>3
<1> QED
  BY <1>2, <1>3, <1>10, <1>11

\* The words of keys, and the empty one.
LEMMA KeyWords ==
    /\ \A w \in Keys : IsKey(w) /\ hexStringToInt(w) = Number(w, 16)
    /\ \A w \in Strings : IsKey(w) => w \in Keys \cup NoKey /\ hexStringToInt(w) \in Nat
<1>1. ASSUME NEW w \in Keys PROVE IsKey(w) /\ hexStringToInt(w) = Number(w, 16)
  <2>1. w \in Strings /\ IsNumber(w, 16) /\ Len(Characters[w]) <= ByteBits
    BY DEF Keys, Strings
  <2>2. \A k \in DOMAIN Characters[w] : Characters[w][k] \in HexDigits
    BY <2>1, DigitsOf
  <2>3. hexStringToInt(w) = Number(w, 16)
    BY <2>1, <2>2, HexIsRead
  <2> QED
    BY <2>1, <2>2, <2>3, Zenon DEF IsKey, validKeyHelper, HexDigits
<1>2. ASSUME NEW w \in Strings, IsKey(w)
      PROVE  w \in Keys \cup NoKey /\ hexStringToInt(w) \in Nat
  <2>1. /\ Len(Characters[w]) <= ByteBits
        /\ \A k \in DOMAIN Characters[w] : Characters[w][k] \in HexDigits
    BY <1>2, Zenon DEF IsKey, validKeyHelper, HexDigits
  <2>2. hexStringToInt(w) \in Nat
    BY <2>1, HexIsRead
  <2>3. Characters[w] # <<>> => IsNumber(w, 16)
    BY <2>1, DigitsOf
  <2> QED
    BY <2>1, <2>2, <2>3 DEF Keys, NoKey, Strings
<1> QED
  BY <1>1, <1>2

-----------------------------------------------------------------------------
(* The words of a command line.                                            *)

\* p is the last position of the flag behind the program, or 0.
LastAt(line, flag, p) ==
    /\ p = 0 \/ (p \in 2..Len(line) /\ line[p] = flag)
    /\ \A k \in 2..Len(line) : line[k] = flag => k <= p

\* The searches of argValidation.c run from the last word to the first.
LEMMA LastPositionOK ==
    ASSUME NEW line \in Seq(Strings), NEW flag
    PROVE  LastAt(line, flag, LastPosition(line, flag))
<1> DEFINE T == {k \in 2..Len(line) : line[k] = flag} \cup {0}
           N == Len(line)
<1>1. N \in Nat /\ T \subseteq 0..N /\ T # {}
  OBVIOUS
<1>2. LastPosition(line, flag) = Max(T)
  BY DEF LastPosition
<1> HIDE DEF T
<1>3. Max(T) \in T /\ \A y \in T : y <= Max(T)
  BY <1>1, MaxIsGreatest
<1> QED
  BY <1>2, <1>3 DEF T, LastAt

\* A usage text with any factors and keys, word by word.
WordsWith(line, factors, keys) ==
    /\ Len(line) > 1
    /\ \/ line[2] = "-h"
       \/ /\ line[2] \in {"-u", "-d"}
          /\ \/ Len(line) = 2
             \/ Len(line) = 3 /\ line[3] = "-p"
             \/ Len(line) = 4 /\ line[3] = "-f" /\ line[4] \in factors
             \/ Len(line) = 5 /\ line[3] = "-f" /\ line[4] \in factors /\ line[5] = "-p"
             \/ Len(line) = 5 /\ line[3] = "-p" /\ line[4] = "-f" /\ line[5] \in factors
       \/ /\ line[2] = "-c"
          /\ \/ Len(line) = 4 /\ line[3] = "-k" /\ line[4] \in keys
             \/ Len(line) = 5 /\ line[3] = "-k" /\ line[4] \in keys /\ line[5] = "-p"
             \/ Len(line) = 5 /\ line[3] = "-p" /\ line[4] = "-k" /\ line[5] \in keys

\* What is accepted.
Accepted(line) == WordsWith(line, {w \in Strings : IsFactor(w)}, {w \in Strings : IsKey(w)})

\* A sequence of m elements is given by them.
ElementsOf(t, m) ==
    /\ t = <<>> <=> m = 0
    /\ \A a : t = <<a>> <=> m = 1 /\ t[1] = a
    /\ \A a, b : t = <<a, b>> <=> m = 2 /\ t[1] = a /\ t[2] = b
    /\ \A a, b, c : t = <<a, b, c>> <=> m = 3 /\ t[1] = a /\ t[2] = b /\ t[3] = c

LEMMA ShortSequences ==
    ASSUME NEW E, NEW t \in Seq(E)
    PROVE  ElementsOf(t, Len(t))
<1> DEFINE m == Len(t)
<1>1. t = <<>> <=> m = 0
  OBVIOUS
<1>2. ASSUME NEW a PROVE t = <<a>> <=> m = 1 /\ t[1] = a
  OBVIOUS
<1>3. ASSUME NEW a, NEW b PROVE t = <<a, b>> <=> m = 2 /\ t[1] = a /\ t[2] = b
  OBVIOUS
<1>4. ASSUME NEW a, NEW b, NEW c
      PROVE  t = <<a, b, c>> <=> m = 3 /\ t[1] = a /\ t[2] = b /\ t[3] = c
  OBVIOUS
<1> QED
  BY <1>1, <1>2, <1>3, <1>4 DEF ElementsOf

\* The words behind the mode: m of them.
LEMMA TailElements ==
    ASSUME NEW line \in Seq(Strings), NEW n, n = Len(line), n > 1
    PROVE  /\ SubSeq(line, 3, n) \in Seq(Strings)
           /\ Len(SubSeq(line, 3, n)) = n - 2
           /\ \A k \in 1..(n - 2) : SubSeq(line, 3, n)[k] = line[k + 2]
<1>1. n \in Nat /\ n > 1 /\ \A k \in 3..n : line[k] \in Strings
  OBVIOUS
<1> DEFINE t == SubSeq(line, 3, n)
<1>2. /\ t \in Seq(Strings)
      /\ Len(t) = IF 3 <= n THEN n - 3 + 1 ELSE 0
      /\ \A k \in 1..(n - 3 + 1) : t[k] = line[3 + k - 1]
  BY <1>1, SubSeqProperties
<1> HIDE DEF t
<1>3. Len(t) = n - 2
  BY <1>1, <1>2
<1>4. ASSUME NEW k \in 1..(n - 2) PROVE t[k] = line[k + 2]
  <2>1. n - 3 + 1 = n - 2 /\ 3 + k - 1 = k + 2
    BY <1>1
  <2> QED
    BY <1>2, <2>1
<1> QED
  BY <1>2, <1>3, <1>4 DEF t

TailOf(t, line, n) ==
    /\ t = <<>> <=> n = 2
    /\ \A a : t = <<a>> <=> n = 3 /\ line[3] = a
    /\ \A a, b : t = <<a, b>> <=> n = 4 /\ line[3] = a /\ line[4] = b
    /\ \A a, b, c : t = <<a, b, c>> <=> n = 5 /\ line[3] = a /\ line[4] = b /\ line[5] = c

LEMMA TailIs ==
    ASSUME NEW line \in Seq(Strings), Len(line) > 1
    PROVE  TailOf(SubSeq(line, 3, Len(line)), line, Len(line))
<1> DEFINE n == Len(line)
           t == SubSeq(line, 3, n)
           m == n - 2
<1>1. n \in Nat /\ n > 1
  OBVIOUS
<1>2. t \in Seq(Strings) /\ Len(t) = m /\ \A k \in 1..m : t[k] = line[k + 2]
  BY TailElements
<1> HIDE DEF t, n
<1>3. ElementsOf(t, m)
  <2> HIDE DEF m
  <2>1. ElementsOf(t, Len(t))
    BY <1>2, ShortSequences
  <2> QED
    BY <1>2, <2>1
<1>4. /\ m = 0 <=> n = 2
      /\ m = 1 <=> n = 3
      /\ m = 2 <=> n = 4
      /\ m = 3 <=> n = 5
      /\ m \in Nat
  BY <1>1
<1>5. /\ m > 0 => t[1] = line[3]
      /\ m > 1 => t[2] = line[4]
      /\ m > 2 => t[3] = line[5]
  <2> HIDE DEF m
  <2>1. 1 + 2 = 3 /\ 2 + 2 = 4 /\ 3 + 2 = 5
    OBVIOUS
  <2> QED
    BY <1>2, <1>4, <2>1
<1> HIDE DEF m
<1>6. t = <<>> <=> n = 2
  BY <1>3, <1>4 DEF ElementsOf
<1>7. ASSUME NEW a PROVE t = <<a>> <=> n = 3 /\ line[3] = a
  BY <1>3, <1>4, <1>5 DEF ElementsOf
<1>8. ASSUME NEW a, NEW b PROVE t = <<a, b>> <=> n = 4 /\ line[3] = a /\ line[4] = b
  BY <1>3, <1>4, <1>5 DEF ElementsOf
<1>9. ASSUME NEW a, NEW b, NEW c
      PROVE  t = <<a, b, c>> <=> n = 5 /\ line[3] = a /\ line[4] = b /\ line[5] = c
  <2>1. t = <<a, b, c>> <=> m = 3 /\ t[1] = a /\ t[2] = b /\ t[3] = c
    BY <1>3, Zenon DEF ElementsOf
  <2> QED
    BY <1>4, <1>5, <2>1
<1>10. TailOf(t, line, n)
  BY <1>6, <1>7, <1>8, <1>9, Zenon DEF TailOf
<1> QED
  BY <1>10 DEF t, n

\* The usage text, word by word.
LEMMA UsageIsWords ==
    ASSUME NEW line \in Seq(Strings), NEW factors, NEW keys
    PROVE  UsageWith(line, factors, keys) <=> WordsWith(line, factors, keys)
<1> DEFINE n == Len(line)
           t == SubSeq(line, 3, n)
           F1 == {<<"-f", w>> : w \in factors}
           F2 == {<<"-f", w, "-p">> : w \in factors}
           F3 == {<<"-p", "-f", w>> : w \in factors}
           K1 == {<<"-k", w>> : w \in keys}
           K2 == {<<"-k", w, "-p">> : w \in keys}
           K3 == {<<"-p", "-k", w>> : w \in keys}
           Speed == t \in {<<>>, <<"-p">>} \cup F1 \cup F2 \cup F3
           Crypt == t \in K1 \cup K2 \cup K3
           SpeedWords == \/ n = 2
                         \/ n = 3 /\ line[3] = "-p"
                         \/ n = 4 /\ line[3] = "-f" /\ line[4] \in factors
                         \/ n = 5 /\ line[3] = "-f" /\ line[4] \in factors /\ line[5] = "-p"
                         \/ n = 5 /\ line[3] = "-p" /\ line[4] = "-f" /\ line[5] \in factors
           CryptWords == \/ n = 4 /\ line[3] = "-k" /\ line[4] \in keys
                         \/ n = 5 /\ line[3] = "-k" /\ line[4] \in keys /\ line[5] = "-p"
                         \/ n = 5 /\ line[3] = "-p" /\ line[4] = "-k" /\ line[5] \in keys
<1>1. UsageWith(line, factors, keys) <=> /\ n > 1
                      /\ \/ line[2] = "-h"
                         \/ line[2] \in {"-u", "-d"} /\ Speed
                         \/ line[2] = "-c" /\ Crypt
  BY DEF UsageWith
<1>2. WordsWith(line, factors, keys) <=> /\ n > 1
                           /\ \/ line[2] = "-h"
                              \/ line[2] \in {"-u", "-d"} /\ SpeedWords
                              \/ line[2] = "-c" /\ CryptWords
  BY DEF WordsWith
<1>3. ASSUME n > 1 PROVE (Speed <=> SpeedWords) /\ (Crypt <=> CryptWords)
  <2>1. TailOf(t, line, n)
    BY <1>3, TailIs
  <2> HIDE DEF t, n
  <2>2. /\ t = <<>> <=> n = 2
        /\ t = <<"-p">> <=> n = 3 /\ line[3] = "-p"
    BY <2>1 DEF TailOf
  <2>3. Speed <=> SpeedWords
    <3>1. t \in F1 <=> n = 4 /\ line[3] = "-f" /\ line[4] \in factors
      <4>1. \A b : t = <<"-f", b>> <=> n = 4 /\ line[3] = "-f" /\ line[4] = b
        <5>1. \A a, b : t = <<a, b>> <=> n = 4 /\ line[3] = a /\ line[4] = b
          BY <2>1, Zenon DEF TailOf
        <5> QED
          BY <5>1
      <4> QED
        BY <4>1
    <3>2. t \in F2 <=> n = 5 /\ line[3] = "-f" /\ line[4] \in factors /\ line[5] = "-p"
      <4>1. \A b : t = <<"-f", b, "-p">> <=> n = 5 /\ line[3] = "-f" /\ line[4] = b /\ line[5] = "-p"
        <5>1. \A a, b, c : t = <<a, b, c>> <=> n = 5 /\ line[3] = a /\ line[4] = b /\ line[5] = c
          BY <2>1, Zenon DEF TailOf
        <5> QED
          BY <5>1
      <4> QED
        BY <4>1
    <3>3. t \in F3 <=> n = 5 /\ line[3] = "-p" /\ line[4] = "-f" /\ line[5] \in factors
      <4>1. \A b : t = <<"-p", "-f", b>> <=> n = 5 /\ line[3] = "-p" /\ line[4] = "-f" /\ line[5] = b
        <5>1. \A a, c, b : t = <<a, c, b>> <=> n = 5 /\ line[3] = a /\ line[4] = c /\ line[5] = b
          BY <2>1, Zenon DEF TailOf
        <5> QED
          BY <5>1
      <4> QED
        BY <4>1
    <3> HIDE DEF F1, F2, F3
    <3> QED
      BY <2>2, <3>1, <3>2, <3>3
  <2>4. Crypt <=> CryptWords
    <3>1. t \in K1 <=> n = 4 /\ line[3] = "-k" /\ line[4] \in keys
      <4>1. \A b : t = <<"-k", b>> <=> n = 4 /\ line[3] = "-k" /\ line[4] = b
        <5>1. \A a, b : t = <<a, b>> <=> n = 4 /\ line[3] = a /\ line[4] = b
          BY <2>1, Zenon DEF TailOf
        <5> QED
          BY <5>1
      <4> QED
        BY <4>1
    <3>2. t \in K2 <=> n = 5 /\ line[3] = "-k" /\ line[4] \in keys /\ line[5] = "-p"
      <4>1. \A b : t = <<"-k", b, "-p">> <=> n = 5 /\ line[3] = "-k" /\ line[4] = b /\ line[5] = "-p"
        <5>1. \A a, b, c : t = <<a, b, c>> <=> n = 5 /\ line[3] = a /\ line[4] = b /\ line[5] = c
          BY <2>1, Zenon DEF TailOf
        <5> QED
          BY <5>1
      <4> QED
        BY <4>1
    <3>3. t \in K3 <=> n = 5 /\ line[3] = "-p" /\ line[4] = "-k" /\ line[5] \in keys
      <4>1. \A b : t = <<"-p", "-k", b>> <=> n = 5 /\ line[3] = "-p" /\ line[4] = "-k" /\ line[5] = b
        <5>1. \A a, c, b : t = <<a, c, b>> <=> n = 5 /\ line[3] = a /\ line[4] = c /\ line[5] = b
          BY <2>1, Zenon DEF TailOf
        <5> QED
          BY <5>1
      <4> QED
        BY <4>1
    <3> HIDE DEF K1, K2, K3
    <3> QED
      BY <3>1, <3>2, <3>3
  <2> QED
    BY <2>3, <2>4
<1> HIDE DEF Speed, Crypt, SpeedWords, CryptWords
<1> QED
  BY <1>1, <1>2, <1>3

\* What validSpeedUsage and validCryptUsage say of a line of n words: 0 if it
\* is refused, else where the operand is.
SpeedWords(line, n) ==
    \/ n = 2
    \/ n = 3 /\ line[3] = "-p"
    \/ n = 4 /\ line[3] = "-f" /\ IsFactor(line[4])
    \/ n = 5 /\ line[3] = "-f" /\ IsFactor(line[4]) /\ line[5] = "-p"
    \/ n = 5 /\ line[3] = "-p" /\ line[4] = "-f" /\ IsFactor(line[5])

CryptWords(line, n) ==
    \/ n = 4 /\ line[3] = "-k" /\ IsKey(line[4])
    \/ n = 5 /\ line[3] = "-k" /\ IsKey(line[4]) /\ line[5] = "-p"
    \/ n = 5 /\ line[3] = "-p" /\ line[4] = "-k" /\ IsKey(line[5])

\* Position v holds the operand of flag.
OperandAt(line, n, flag, v) == v \in 4..n /\ line[v - 1] = flag

LEMMA FlagsAreNoOperands ==
    ASSUME NEW w, IsFactor(w) \/ IsKey(w)
    PROVE  w # "-f" /\ w # "-k" /\ w # "-p"
<1>1. ASSUME NEW x, Characters[w] = <<45, x>>, x > 57, x \in Int PROVE FALSE
  <2>1. DOMAIN Characters[w] = 1..2 /\ Characters[w][1] = 45 /\ Characters[w][2] = x
    BY <1>1
  <2>2. ~numbersOnly(w)
    BY <1>1, <2>1 DEF numbersOnly
  <2>3. ~validKeyHelper(w)
    <3>1. 1 \in DOMAIN Characters[w] /\ Characters[w][1] \notin 48..57 \cup 65..70 \cup 97..102
      BY <2>1
    <3> QED
      BY <3>1, Zenon DEF validKeyHelper
  <2> QED
    BY <2>2, <2>3 DEF IsFactor, IsKey, validFactorHelper
<1> QED
  BY <1>1, ArgsAssumption

LEMMA PreserveFound ==
    ASSUME NEW line \in Seq(Strings)
    PROVE  containsPreserve(line) <=> \E k \in 2..Len(line) : line[k] = "-p"
BY LastPositionOK DEF LastAt, containsPreserve

LEMMA SpeedIsUsage ==
    ASSUME NEW line \in Seq(Strings), Len(line) > 1, line[2] \in {"-u", "-d"}
    PROVE  /\ validSpeedUsage(line) # 0 <=> SpeedWords(line, Len(line))
           /\ validSpeedUsage(line) # 0 =>
                 \/ validSpeedUsage(line) = 1 /\ Len(line) < 4
                 \/ OperandAt(line, Len(line), "-f", validSpeedUsage(line))
<1> DEFINE n == Len(line)
           p == LastPosition(line, "-f")
           v == validSpeedUsage(line)
<1>1. n \in Nat /\ n > 1
  OBVIOUS
<1>2. p = 0 \/ (p \in 3..n /\ line[p] = "-f")
  BY LastPositionOK DEF LastAt
<1>3. \A k \in 3..n : line[k] = "-f" => k <= p
  BY LastPositionOK DEF LastAt
<1>4. containsPreserve(line) <=> \E k \in 3..n : line[k] = "-p"
  BY PreserveFound
<1>5. v = IF n \notin 2..5 \/ (n \in {3, 5} /\ ~containsPreserve(line)) THEN 0
          ELSE IF n \in {4, 5} THEN IF p # 0 /\ p < n /\ IsFactor(line[p + 1]) THEN p + 1 ELSE 0
          ELSE 1
  <2>1. p # 0 /\ p < n => (validFactorHelper(line[p + 1]) <=> IsFactor(line[p + 1]))
    <3>1. p # 0 /\ p < n => line[p + 1] \in Strings
      BY <1>1, <1>2
    <3> QED
      BY <3>1 DEF IsFactor
  <2> QED
    BY <2>1, Zenon DEF validSpeedUsage, containsValidFactor
<1>6. \A w : IsFactor(w) => w # "-f" /\ w # "-p"
  BY FlagsAreNoOperands
<1> SUFFICES /\ v # 0 <=> SpeedWords(line, n)
             /\ v # 0 => (v = 1 /\ n < 4) \/ OperandAt(line, n, "-f", v)
  OBVIOUS
<1> HIDE DEF n, p, v
<1>7. CASE n < 4
  BY <1>1, <1>4, <1>5, <1>7 DEF SpeedWords
<1>8. CASE n = 4
  BY <1>1, <1>2, <1>3, <1>5, <1>6, <1>8 DEF SpeedWords, OperandAt
<1>9. CASE n = 5
  BY <1>1, <1>2, <1>3, <1>4, <1>5, <1>6, <1>9 DEF SpeedWords, OperandAt
<1>10. CASE n > 5
  BY <1>1, <1>5, <1>10 DEF SpeedWords
<1> QED
  BY <1>1, <1>7, <1>8, <1>9, <1>10

LEMMA CryptIsUsage ==
    ASSUME NEW line \in Seq(Strings), Len(line) > 1, line[2] = "-c"
    PROVE  /\ validCryptUsage(line) # 0 <=> CryptWords(line, Len(line))
           /\ validCryptUsage(line) # 0 => OperandAt(line, Len(line), "-k", validCryptUsage(line))
<1> DEFINE n == Len(line)
           p == LastPosition(line, "-k")
           v == validCryptUsage(line)
<1>1. n \in Nat /\ n > 1
  OBVIOUS
<1>2. p = 0 \/ (p \in 3..n /\ line[p] = "-k")
  BY LastPositionOK DEF LastAt
<1>3. \A k \in 3..n : line[k] = "-k" => k <= p
  BY LastPositionOK DEF LastAt
<1>4. containsPreserve(line) <=> \E k \in 3..n : line[k] = "-p"
  BY PreserveFound
<1>5. v = IF n \notin 4..5 \/ (n = 5 /\ ~containsPreserve(line)) THEN 0
          ELSE IF p # 0 /\ p < n /\ IsKey(line[p + 1]) THEN p + 1 ELSE 0
  <2>1. p # 0 /\ p < n => (validKeyHelper(line[p + 1]) <=> IsKey(line[p + 1]))
    <3>1. p # 0 /\ p < n => line[p + 1] \in Strings
      BY <1>1, <1>2
    <3> QED
      BY <3>1 DEF IsKey
  <2> QED
    BY <2>1, Zenon DEF validCryptUsage, containsValidKey
<1>6. \A w : IsKey(w) => w # "-k" /\ w # "-p"
  BY FlagsAreNoOperands
<1> SUFFICES /\ v # 0 <=> CryptWords(line, n)
             /\ v # 0 => OperandAt(line, n, "-k", v)
  OBVIOUS
<1> HIDE DEF n, p, v
<1>7. CASE n < 4
  BY <1>1, <1>5, <1>7 DEF CryptWords
<1>8. CASE n = 4
  BY <1>1, <1>2, <1>3, <1>5, <1>6, <1>8 DEF CryptWords, OperandAt
<1>9. CASE n = 5
  BY <1>1, <1>2, <1>3, <1>4, <1>5, <1>6, <1>9 DEF CryptWords, OperandAt
<1>10. CASE n > 5
  BY <1>1, <1>5, <1>10 DEF CryptWords
<1> QED
  BY <1>1, <1>7, <1>8, <1>9, <1>10

\* validargs accepts what the usage text says.
LEMMA ValidIsUsage ==
    ASSUME NEW line \in Seq(Strings)
    PROVE  /\ validargs(line) # Nothing <=> Accepted(line)
           /\ Accepted(line) => validargs(line).mode = line[2]
           /\ ~Accepted(line) => validargs(line).mode = ""
<1> DEFINE n == Len(line)
           speed == validSpeedUsage(line)
           crypts == validCryptUsage(line)
           o == validargs(line)
           U == Accepted(line)
<1>1. U <=> /\ n > 1
            /\ \/ line[2] = "-h"
               \/ line[2] \in {"-u", "-d"} /\ SpeedWords(line, n)
               \/ line[2] = "-c" /\ CryptWords(line, n)
  BY DEF Accepted, WordsWith, SpeedWords, CryptWords
<1>2. n > 1 /\ line[2] \in {"-u", "-d"} => (speed # 0 <=> SpeedWords(line, n))
  BY SpeedIsUsage
<1>3. n > 1 /\ line[2] = "-c" => (crypts # 0 <=> CryptWords(line, n))
  BY CryptIsUsage
<1> SUFFICES /\ o # Nothing <=> U
             /\ U => o.mode = line[2]
             /\ ~U => o.mode = ""
  OBVIOUS
<1> HIDE DEF n, speed, crypts, o, U
<1>4. CASE n > 1 /\ line[2] = "-h"
  <2>1. o = [Nothing EXCEPT !.mode = "-h"]
    BY <1>4 DEF validargs, n, o, speed, crypts
  <2> QED
    BY <1>1, <1>4, <2>1 DEF Nothing
<1>5. CASE n > 1 /\ line[2] \in {"-u", "-d"}
  <2>1. CASE speed # 0
    <3>1. o.mode = line[2]
      BY <1>5, <2>1 DEF validargs, n, o, speed, crypts, Nothing
    <3>2. o # Nothing
      <4>1. Nothing.mode = "" /\ line[2] # ""
        BY <1>5 DEF Nothing
      <4> QED
        BY <3>1, <4>1
    <3> QED
      BY <1>1, <1>2, <1>5, <2>1, <3>1, <3>2
  <2>2. CASE speed = 0
    <3>1. o = Nothing
      BY <1>5, <2>2 DEF validargs, n, o, speed, crypts
    <3> QED
      BY <1>1, <1>2, <1>5, <2>2, <3>1 DEF Nothing
  <2> QED
    BY <2>1, <2>2
<1>6. CASE n > 1 /\ line[2] = "-c"
  <2>1. CASE crypts # 0
    <3>1. o.mode = line[2]
      BY <1>6, <2>1 DEF validargs, n, o, speed, crypts, Nothing
    <3>2. o # Nothing
      <4>1. Nothing.mode = "" /\ line[2] # ""
        BY <1>6 DEF Nothing
      <4> QED
        BY <3>1, <4>1
    <3> QED
      BY <1>1, <1>3, <1>6, <2>1, <3>1, <3>2
  <2>2. CASE crypts = 0
    <3>1. o = Nothing
      BY <1>6, <2>2 DEF validargs, n, o, speed, crypts
    <3> QED
      BY <1>1, <1>3, <1>6, <2>2, <3>1 DEF Nothing
  <2> QED
    BY <2>1, <2>2
<1>7. CASE ~(n > 1 /\ line[2] \in {"-h", "-u", "-d", "-c"})
  <2>1. o = Nothing
    BY <1>7 DEF validargs, n, o, speed, crypts
  <2> QED
    BY <1>1, <1>7, <2>1 DEF Nothing
<1> QED
  BY <1>4, <1>5, <1>6, <1>7

\* A flag that occurs once in front of an operand has that operand.
LEMMA OperandIs ==
    ASSUME NEW line, NEW n, n = Len(line), n \in Nat, NEW flag, NEW v,
           OperandAt(line, n, flag, v), \A k \in 3..(n - 1) : line[k] = flag => k = v - 1
    PROVE  HasOperand(line, flag) /\ OperandOf(line, flag) = line[v]
<1> DEFINE c == CHOOSE k \in 3..(n - 1) : line[k] = flag
<1>1. v \in Int /\ v - 1 \in 3..(n - 1) /\ line[v - 1] = flag
  BY DEF OperandAt
<1>2. c \in 3..(n - 1) /\ line[c] = flag
  BY <1>1
<1>3. OperandOf(line, flag) = line[1 + c]
  BY DEF OperandOf
<1>4. HasOperand(line, flag)
  BY <1>1 DEF HasOperand
<1> HIDE DEF c
<1>5. c = v - 1
  BY <1>2
<1>6. 1 + c = v
  BY <1>1, <1>5
<1> QED
  BY <1>3, <1>4, <1>6

\* Where the words of an accepted line are flags.
LEMMA SpeedWordsAre ==
    ASSUME NEW line, NEW n \in Nat, NEW v, SpeedWords(line, n),
           (v = 1 /\ n < 4) \/ OperandAt(line, n, "-f", v)
    PROVE  /\ \A k \in 3..(n - 1) : line[k] # "-k"
           /\ \A k \in 3..(n - 1) : line[k] = "-f" => v > 1 /\ k = v - 1
           /\ v > 1 => IsFactor(line[v])
           /\ n \in 2..5
           /\ n \in {3, 5} <=> \E k \in 3..n : line[k] = "-p"
<1>1. \A w : IsFactor(w) => w # "-f" /\ w # "-p" /\ w # "-k"
  BY FlagsAreNoOperands
<1>2. CASE n = 2
  BY <1>2 DEF OperandAt
<1>3. CASE n = 3 /\ line[3] = "-p"
  BY <1>3 DEF OperandAt
<1>4. CASE n = 4 /\ line[3] = "-f" /\ IsFactor(line[4])
  BY <1>1, <1>4 DEF OperandAt
<1>5. CASE n = 5 /\ line[3] = "-f" /\ IsFactor(line[4]) /\ line[5] = "-p"
  BY <1>1, <1>5 DEF OperandAt
<1>6. CASE n = 5 /\ line[3] = "-p" /\ line[4] = "-f" /\ IsFactor(line[5])
  BY <1>1, <1>6 DEF OperandAt
<1> QED
  BY <1>2, <1>3, <1>4, <1>5, <1>6 DEF SpeedWords

LEMMA CryptWordsAre ==
    ASSUME NEW line, NEW n \in Nat, NEW v, CryptWords(line, n), OperandAt(line, n, "-k", v)
    PROVE  /\ \A k \in 3..(n - 1) : line[k] # "-f"
           /\ \A k \in 3..(n - 1) : line[k] = "-k" => k = v - 1
           /\ IsKey(line[v])
           /\ n \in 4..5
           /\ n = 5 <=> \E k \in 3..n : line[k] = "-p"
<1>1. \A w : IsKey(w) => w # "-f" /\ w # "-p" /\ w # "-k"
  BY FlagsAreNoOperands
<1>2. CASE n = 4 /\ line[3] = "-k" /\ IsKey(line[4])
  BY <1>1, <1>2 DEF OperandAt
<1>3. CASE n = 5 /\ line[3] = "-k" /\ IsKey(line[4]) /\ line[5] = "-p"
  BY <1>1, <1>3 DEF OperandAt
<1>4. CASE n = 5 /\ line[3] = "-p" /\ line[4] = "-k" /\ IsKey(line[5])
  BY <1>1, <1>4 DEF OperandAt
<1> QED
  BY <1>2, <1>3, <1>4 DEF CryptWords

\* The bits of a factor.
LEMMA FactorBits ==
    /\ factorRecord0 \in Nat \ {0} /\ MaxFactor = 2 * factorRecord0
    /\ \A d \in 1..MaxFactor : d <= factorRecord0 <=> (d - 1) \div factorRecord0 # 1
    /\ factorRecord0 \div factorRecord0 = 1
    /\ 0 \div factorRecord0 = 0
<1>1. factorRecord0 \in Nat \ {0} /\ MaxFactor = 2 * factorRecord0
  BY ArgsAssumption DEF factorRecord0
<1> DEFINE h == factorRecord0
<1> HIDE DEF h
<1>2. h \in Nat \ {0} /\ MaxFactor = 2 * h
  BY <1>1 DEF h
<1>3. ASSUME NEW d \in 1..(2 * h) PROVE d <= h <=> (d - 1) \div h # 1
  <2>1. CASE d <= h
    <3>1. (d - 1) \div h = 0
      BY <1>2, <2>1
    <3> QED
      BY <2>1, <3>1
  <2>2. CASE d > h
    <3>1. (d - 1) \div h = 1
      BY <1>2, <2>2
    <3> QED
      BY <1>2, <2>2, <3>1
  <2> QED
    BY <1>2, <2>1, <2>2
<1>4. h \div h = 1 /\ 0 \div h = 0
  BY <1>2
<1> QED
  BY <1>2, <1>3, <1>4 DEF h

\* The number that comes back for a factor.
KeptFactor(n) == IF n <= factorRecord0 THEN n ELSE -1

\* What is kept of a command line in its options.
OptionsFit(line, o) ==
    /\ HasOperand(line, "-k") => getKey(o) = hexStringToInt(OperandOf(line, "-k"))
    /\ HasOperand(line, "-f") => getFactor(o) = KeptFactor(charToInt(OperandOf(line, "-f")))
    /\ line[2] # "-c" /\ ~HasOperand(line, "-f") => getFactor(o) = -1
    /\ ~o.preserve => getArgC(o) = 4 /\ Len(line) \in {2, 4}

LEMMA SpeedOptionsFit ==
    ASSUME NEW line \in Seq(Strings), Accepted(line), line[2] \in {"-u", "-d"}
    PROVE  OptionsFit(line, validargs(line)) /\ getFactor(validargs(line)) \in Int \ {0}
<1> DEFINE n == Len(line)
           v == validSpeedUsage(line)
           o == validargs(line)
           h == factorRecord0
<1>1. n \in Nat /\ n > 1 /\ SpeedWords(line, n)
  BY DEF Accepted, WordsWith, SpeedWords
<1>2. v # 0 /\ ((v = 1 /\ n < 4) \/ OperandAt(line, n, "-f", v))
  BY <1>1, SpeedIsUsage
<1>3. /\ o.mode = line[2]
      /\ o.preserve = containsPreserve(line)
      /\ o.key = 0
      /\ o.factor = IF v > 1 THEN charToInt(line[v]) - 1 ELSE h
  BY <1>1, <1>2 DEF validargs, Nothing, factorRecord
<1>4. containsPreserve(line) <=> \E k \in 3..n : line[k] = "-p"
  BY PreserveFound
<1>5. h \in Nat \ {0} /\ MaxFactor = 2 * h /\ h \div h = 1
      /\ \A d \in 1..MaxFactor : d <= h <=> (d - 1) \div h # 1
  BY FactorBits
<1> SUFFICES OptionsFit(line, o) /\ getFactor(o) \in Int \ {0}
  OBVIOUS
<1> HIDE DEF n, v, o, h
<1>6. /\ \A k \in 3..(n - 1) : line[k] # "-k"
      /\ \A k \in 3..(n - 1) : line[k] = "-f" => v > 1 /\ k = v - 1
      /\ v > 1 => IsFactor(line[v])
      /\ n \in 2..5
      /\ n \in {3, 5} <=> \E k \in 3..n : line[k] = "-p"
  BY <1>1, <1>2, SpeedWordsAre
<1>7. ~HasOperand(line, "-k")
  BY <1>6 DEF HasOperand, n
<1>8. getFactor(o) = IF o.factor \div h = 1 THEN -1 ELSE o.factor + 1
  BY DEF getFactor, h
<1>9. CASE v = 1
  <2>1. ~HasOperand(line, "-f") /\ getFactor(o) = -1
    <3>1. ~HasOperand(line, "-f")
      BY <1>6, <1>9 DEF HasOperand, n
    <3> QED
      BY <1>3, <1>5, <1>8, <1>9, <3>1
  <2>2. n < 4
    BY <1>2, <1>9 DEF OperandAt
  <2>3. ~o.preserve => getArgC(o) = 4 /\ n \in {2, 4}
    <3>1. getArgC(o) = 4 + (IF o.preserve THEN 1 ELSE 0)
      BY <1>3, <2>1 DEF getArgC
    <3> QED
      BY <1>3, <1>4, <1>6, <2>2, <3>1
  <2> QED
    BY <1>7, <2>1, <2>3 DEF OptionsFit, n
<1>10. CASE v # 1
  <2>1. OperandAt(line, n, "-f", v)
    BY <1>2, <1>10
  <2>2. v > 1
    BY <2>1 DEF OperandAt
  <2>3. HasOperand(line, "-f") /\ OperandOf(line, "-f") = line[v]
    <3>1. n = Len(line) /\ n \in Nat
      BY <1>1 DEF n
    <3>2. \A k \in 3..(n - 1) : line[k] = "-f" => k = v - 1
      BY <1>6
    <3> QED
      BY <2>1, <3>1, <3>2, OperandIs
  <2> DEFINE d == charToInt(line[v])
  <2>4. d \in 1..MaxFactor /\ o.factor = d - 1
    BY <1>3, <1>6, <2>2 DEF IsFactor, validFactorHelper
  <2> HIDE DEF d
  <2>5. getFactor(o) = KeptFactor(d)
    <3>1. d <= h <=> (d - 1) \div h # 1
      BY <1>5, <2>4
    <3>2. getFactor(o) = IF d <= h THEN d ELSE -1
      BY <1>8, <2>4, <3>1
    <3> QED
      BY <3>2 DEF KeptFactor, h
  <2>6. getFactor(o) \in Int \ {0}
    BY <1>8, <2>4
  <2>7. n \in 4..5
    BY <1>6, <2>1 DEF OperandAt
  <2>8. ~o.preserve => getArgC(o) = 4 /\ n \in {2, 4}
    <3>1. getArgC(o) = 4 + (IF o.preserve THEN 1 ELSE 0)
      BY <1>3, <2>6 DEF getArgC
    <3> QED
      BY <1>3, <1>4, <1>6, <2>7, <3>1
  <2> QED
    BY <1>7, <2>3, <2>5, <2>6, <2>8 DEF OptionsFit, n, h, d
<1> QED
  BY <1>9, <1>10

LEMMA CryptOptionsFit ==
    ASSUME NEW line \in Seq(Strings), Accepted(line), line[2] = "-c"
    PROVE  OptionsFit(line, validargs(line)) /\ getFactor(validargs(line)) = 1
<1> DEFINE n == Len(line)
           v == validCryptUsage(line)
           o == validargs(line)
           h == factorRecord0
<1>1. n \in Nat /\ n > 1 /\ CryptWords(line, n)
  BY DEF Accepted, WordsWith, CryptWords
<1>2. v # 0 /\ OperandAt(line, n, "-k", v)
  BY <1>1, CryptIsUsage
<1>3. /\ o.mode = line[2]
      /\ o.preserve = containsPreserve(line)
      /\ o.key = hexStringToInt(line[v])
      /\ o.factor = 0
  BY <1>1, <1>2 DEF validargs, Nothing, keyRecord
<1>4. containsPreserve(line) <=> \E k \in 3..n : line[k] = "-p"
  BY PreserveFound
<1>5. 0 \div h = 0
  BY FactorBits
<1> SUFFICES OptionsFit(line, o) /\ getFactor(o) = 1
  OBVIOUS
<1> HIDE DEF n, v, o, h
<1>6. /\ \A k \in 3..(n - 1) : line[k] # "-f"
      /\ \A k \in 3..(n - 1) : line[k] = "-k" => k = v - 1
      /\ n \in 4..5
      /\ n = 5 <=> \E k \in 3..n : line[k] = "-p"
  BY <1>1, <1>2, CryptWordsAre
<1>7. ~HasOperand(line, "-f")
  BY <1>6 DEF HasOperand, n
<1>8. getFactor(o) = 1
  <2>1. getFactor(o) = IF o.factor \div h = 1 THEN -1 ELSE o.factor + 1
    BY DEF getFactor, h
  <2> QED
    BY <1>3, <1>5, <2>1
<1>9. HasOperand(line, "-k") /\ OperandOf(line, "-k") = line[v]
  <2>1. n = Len(line) /\ n \in Nat
    BY <1>1 DEF n
  <2>2. OperandAt(line, n, "-k", v) /\ \A k \in 3..(n - 1) : line[k] = "-k" => k = v - 1
    BY <1>2, <1>6
  <2> QED
    BY <2>1, <2>2, OperandIs
<1>10. getKey(o) = hexStringToInt(line[v])
  BY <1>3 DEF getKey
<1>11. ~o.preserve => getArgC(o) = 4 /\ n \in {2, 4}
  <2>1. getArgC(o) = 4 + (IF o.preserve THEN 1 ELSE 0)
    BY <1>3, <1>8 DEF getArgC
  <2> QED
    BY <1>3, <1>4, <1>6, <2>1
<1> QED
  BY <1>7, <1>8, <1>9, <1>10, <1>11 DEF OptionsFit, n, o

\* Something with a length.
IsSequence(x) == \E E : x \in Seq(E)

-----------------------------------------------------------------------------
(* The process: which options it works with.                               *)

\* global_options is what validargs made of the command line, and only a
\* transformation gets past main.
OptionsInv ==
    /\ argv \in Seq(Strings)
    /\ IF pc = "main" THEN global_options = Nothing ELSE global_options = validargs(argv)
    /\ pc \in {"read", "annotate", "loop"} \/ status = "SUCCESS" =>
          Accepted(argv) /\ argv[2] \in {"-u", "-d", "-c"}
    /\ pc # "exit" => status = "running"

LEMMA UndoIsLine ==
    ASSUME NEW line \in Seq(Strings)
    PROVE  Undo(line) \in Seq(Strings)
<1> DEFINE n == Len(line)
           f == [line EXCEPT ![2] = "-u"]
<1>1. n \in Nat /\ line \in [1..n -> Strings]
  OBVIOUS
<1>2. f \in [1..n -> Strings]
  <2> HIDE DEF n
  <2>1. DOMAIN f = 1..n /\ f = [k \in 1..n |-> f[k]]
    BY <1>1
  <2>2. ASSUME NEW k \in 1..n PROVE f[k] \in Strings
    <3>1. f[k] = IF k = 2 THEN "-u" ELSE line[k]
      BY <1>1
    <3>2. "-u" \in Strings /\ line[k] \in Strings
      BY <1>1, ArgsAssumption DEF Strings
    <3> HIDE DEF f
    <3> QED
      BY <3>1, <3>2
  <2> HIDE DEF f
  <2> QED
    BY <2>1, <2>2
<1>3. f \in Seq(Strings)
  BY <1>1, <1>2, SeqDef
<1> QED
  BY <1>3 DEF Undo

LEMMA TransformationIsUsage ==
    ASSUME NEW line \in Seq(Strings), validargs(line).mode \notin {"", "-h"}
    PROVE  Accepted(line) /\ line[2] \in {"-u", "-d", "-c"}
<1>1. Accepted(line) /\ line[2] # "-h"
  BY ValidIsUsage
<1> QED
  BY <1>1 DEF Accepted, WordsWith

LEMMA OptionsInvInit == Init => OptionsInv
<1> SUFFICES ASSUME Init PROVE OptionsInv
  OBVIOUS
<1>1. PICK line \in CommandLines : \E file : Start(line, file)
  BY DEF Init
<1>2. line \in Seq(Strings)
  BY <1>1, AudibleAssumption DEF Strings
<1> QED
  BY <1>1, <1>2 DEF Start, OptionsInv

LEMMA OptionsInvNext == OptionsInv /\ [Next]_vars => OptionsInv'
<1> SUFFICES ASSUME OptionsInv, [Next]_vars PROVE OptionsInv'
  OBVIOUS
<1> USE DEF OptionsInv
<1>1. CASE main
  <2>1. validargs(argv).mode \notin {"", "-h"} => Accepted(argv) /\ argv[2] \in {"-u", "-d", "-c"}
    BY TransformationIsUsage
  <2>2. argv' = argv /\ global_options' = validargs(argv) /\ pc = "main" /\ status = "running"
    BY <1>1 DEF main
  <2>3. \/ pc' = "exit" /\ status' # "SUCCESS"
        \/ pc' = "read" /\ status' = status /\ validargs(argv).mode \notin {"", "-h"}
    BY <1>1 DEF main, Exit
  <2> QED
    BY <2>1, <2>2, <2>3
<1>2. CASE recodeRead
  BY <1>2 DEF recodeRead, Exit
<1>3. CASE recodePreserve
  BY <1>3 DEF recodePreserve, WriteHeader
<1>4. CASE recodeAnnotate
  <2>1. argv' = argv /\ global_options' = global_options /\ pc = "annotate"
        /\ pc' \in {"exit", "loop"} /\ (pc' # "exit" => status' = status)
    BY <1>4 DEF recodeAnnotate, Exit, WriteHeader
  <2> QED
    BY <2>1
<1>5. CASE speedUp
  BY <1>5 DEF speedUp, Loop
<1>6. CASE slowDown
  <2>1. UNCHANGED <<argv, global_options, pc, status>>
    BY <1>6 DEF slowDown
  <2> QED
    BY <2>1
<1>7. CASE crypt
  <2>1. UNCHANGED <<argv, global_options, pc, status>>
    BY <1>7 DEF crypt
  <2> QED
    BY <2>1
<1>8. CASE recodeReturn
  BY <1>8 DEF recodeReturn, Exit
<1>9. CASE Pipe
  <2>1. argv' = Undo(argv) /\ global_options' = Nothing /\ pc' = "main" /\ status' = "running"
    BY <1>9 DEF Pipe
  <2> QED
    BY <2>1, UndoIsLine
<1>10. CASE Ended
  BY <1>10 DEF Ended, vars
<1>11. CASE UNCHANGED vars
  BY <1>11 DEF vars
<1> QED
  BY <1>1, <1>2, <1>3, <1>4, <1>5, <1>6, <1>7, <1>8, <1>9, <1>10, <1>11 DEF Next

\* More factors and keys give more command lines.
LEMMA UsageGrows ==
    ASSUME NEW line, NEW factors, NEW keys, NEW F, NEW K, factors \subseteq F, keys \subseteq K,
           WordsWith(line, factors, keys)
    PROVE  WordsWith(line, F, K)
<1> DEFINE n == Len(line)
<1>1. CASE line[2] = "-h"
  BY <1>1 DEF WordsWith
<1>2. CASE line[2] \in {"-u", "-d"}
  BY <1>2 DEF WordsWith
<1>3. CASE line[2] = "-c"
  BY <1>3 DEF WordsWith
<1> QED
  BY <1>1, <1>2, <1>3 DEF WordsWith

\* The usage text is accepted, and what is accepted is the usage text with
\* odd words for numbers.
LEMMA UsageIsAcceptedLine ==
    ASSUME NEW line \in Seq(Strings)
    PROVE  /\ Usage(line) => Accepted(line)
           /\ Accepted(line) => UsageWith(line, Factors \cup OddFactors, Keys \cup NoKey)
<1> DEFINE F == {w \in Strings : IsFactor(w)}
           K == {w \in Strings : IsKey(w)}
<1>1. /\ Factors \subseteq F /\ F \subseteq Factors \cup OddFactors
      /\ Keys \subseteq K /\ K \subseteq Keys \cup NoKey
  <2>1. Factors \subseteq Strings /\ Keys \subseteq Strings
    BY DEF Factors, Keys, Strings
  <2> QED
    BY <2>1, FactorWords, KeyWords
<1>2. Accepted(line) <=> WordsWith(line, F, K)
  BY DEF Accepted
<1> HIDE DEF F, K
<1>3. Usage(line) => WordsWith(line, F, K)
  <2>1. Usage(line) => WordsWith(line, Factors, Keys)
    BY UsageIsWords DEF Usage
  <2> QED
    BY <1>1, <2>1, UsageGrows
<1>4. WordsWith(line, F, K) => UsageWith(line, Factors \cup OddFactors, Keys \cup NoKey)
  <2>1. WordsWith(line, F, K) => WordsWith(line, Factors \cup OddFactors, Keys \cup NoKey)
    BY <1>1, UsageGrows
  <2> QED
    BY <2>1, UsageIsWords
<1> QED
  BY <1>2, <1>3, <1>4

\* The operands of a command line of the usage text are what it says.
LEMMA OperandsOfUsage ==
    ASSUME NEW line \in Seq(Strings), Usage(line), line[2] # "-h"
    PROVE  /\ HasOperand(line, "-f") => OperandOf(line, "-f") \in Factors
           /\ HasOperand(line, "-k") => OperandOf(line, "-k") \in Keys
<1>1. WordsWith(line, Factors, Keys)
  BY UsageIsWords DEF Usage
<1>2. \A w \in Factors \cup Keys : w # "-f" /\ w # "-k" /\ w # "-p"
  <2>1. \A w \in Factors \cup Keys : IsFactor(w) \/ IsKey(w)
    BY FactorWords, KeyWords
  <2> QED
    BY <2>1, FlagsAreNoOperands
<1> DEFINE n == Len(line)
<1>3. n \in Nat
  OBVIOUS
<1>4. ASSUME NEW flag, HasOperand(line, flag)
      PROVE  \E k \in 3..(n - 1) : line[k] = flag /\ OperandOf(line, flag) = line[1 + k]
  <2> DEFINE c == CHOOSE k \in 3..(n - 1) : line[k] = flag
  <2>1. c \in 3..(n - 1) /\ line[c] = flag
    BY <1>4 DEF HasOperand
  <2>2. OperandOf(line, flag) = line[1 + c]
    BY DEF OperandOf
  <2> HIDE DEF c
  <2> QED
    BY <2>1, <2>2
<1>5. \/ line[2] \in {"-u", "-d"} /\ n \in 2..5
      \/ line[2] = "-c" /\ n \in 4..5
  BY <1>1 DEF WordsWith
<1>6. ASSUME NEW k \in 3..(n - 1), line[k] = "-f" PROVE line[1 + k] \in Factors
  <2>1. CASE line[2] = "-c"
    <3>1. \/ n = 4 /\ line[3] = "-k" /\ line[4] \in Keys
          \/ n = 5 /\ line[3] = "-k" /\ line[4] \in Keys /\ line[5] = "-p"
          \/ n = 5 /\ line[3] = "-p" /\ line[4] = "-k" /\ line[5] \in Keys
      BY <1>1, <2>1 DEF WordsWith
    <3> HIDE DEF n
    <3> QED
      BY <1>2, <1>6, <3>1
  <2>2. CASE line[2] \in {"-u", "-d"}
    <3>1. \/ n = 2
          \/ n = 3 /\ line[3] = "-p"
          \/ n = 4 /\ line[3] = "-f" /\ line[4] \in Factors
          \/ n = 5 /\ line[3] = "-f" /\ line[4] \in Factors /\ line[5] = "-p"
          \/ n = 5 /\ line[3] = "-p" /\ line[4] = "-f" /\ line[5] \in Factors
      BY <1>1, <2>2 DEF WordsWith
    <3> HIDE DEF n
    <3> QED
      BY <1>2, <1>6, <3>1
  <2> QED
    BY <1>5, <2>1, <2>2
<1>7. ASSUME NEW k \in 3..(n - 1), line[k] = "-k" PROVE line[1 + k] \in Keys
  <2>1. CASE line[2] = "-c"
    <3>1. \/ n = 4 /\ line[3] = "-k" /\ line[4] \in Keys
          \/ n = 5 /\ line[3] = "-k" /\ line[4] \in Keys /\ line[5] = "-p"
          \/ n = 5 /\ line[3] = "-p" /\ line[4] = "-k" /\ line[5] \in Keys
      BY <1>1, <2>1 DEF WordsWith
    <3> HIDE DEF n
    <3> QED
      BY <1>2, <1>7, <3>1
  <2>2. CASE line[2] \in {"-u", "-d"}
    <3>1. \/ n = 2
          \/ n = 3 /\ line[3] = "-p"
          \/ n = 4 /\ line[3] = "-f" /\ line[4] \in Factors
          \/ n = 5 /\ line[3] = "-f" /\ line[4] \in Factors /\ line[5] = "-p"
          \/ n = 5 /\ line[3] = "-p" /\ line[4] = "-f" /\ line[5] \in Factors
      BY <1>1, <2>2 DEF WordsWith
    <3> HIDE DEF n
    <3> QED
      BY <1>2, <1>7, <3>1
  <2> QED
    BY <1>5, <2>1, <2>2
<1> HIDE DEF n
<1> QED
  BY <1>4, <1>6, <1>7

\* validargs accepts the command lines of the usage text, and besides only
\* those with a word of OddFactors or the empty word for the number.
THEOREM UsageAccepted == Spec => []UsageIsAccepted
<1>1. OptionsInv => UsageIsAccepted
  <2> SUFFICES ASSUME OptionsInv, pc # "main"
               PROVE  /\ Usage(argv) => global_options # Nothing
                      /\ global_options # Nothing =>
                            UsageWith(argv, Factors \cup OddFactors, Keys \cup NoKey)
    BY DEF UsageIsAccepted
  <2>1. argv \in Seq(Strings) /\ global_options = validargs(argv)
    BY DEF OptionsInv
  <2> QED
    BY <2>1, ValidIsUsage, UsageIsAcceptedLine
<1> QED
  BY <1>1, OptionsInvInit, OptionsInvNext, PTL DEF Spec

\* The numbers of the command line come back from global_options, a factor
\* above half of the largest as none, and with them the number of words.
THEOREM OptionsKept == Spec => []OptionsAreKept
<1>1. OptionsInv => OptionsAreKept
  <2> SUFFICES ASSUME OptionsInv, Transforming PROVE OptionsAreKept
    BY DEF OptionsAreKept
  <2>1. argv \in Seq(Strings) /\ Usage(argv) /\ argv[2] # "-h" /\ global_options = validargs(argv)
    BY DEF OptionsInv, Transforming
  <2>2. Accepted(argv) /\ argv[2] \in {"-u", "-d", "-c"}
    <3>1. Accepted(argv)
      BY <2>1, UsageIsAcceptedLine
    <3> QED
      BY <2>1, <3>1 DEF Accepted, WordsWith
  <2>3. OptionsFit(argv, global_options)
    BY <2>1, <2>2, SpeedOptionsFit, CryptOptionsFit
  <2>4. ~global_options.preserve => (getArgC(global_options) = Len(argv) <=> Len(argv) > 2)
    <3> DEFINE c == getArgC(global_options)
               n == Len(argv)
    <3>1. ~global_options.preserve => c = 4 /\ n \in {2, 4}
      BY <2>3 DEF OptionsFit
    <3> HIDE DEF c, n
    <3>2. ~global_options.preserve => (c = n <=> n > 2)
      BY <3>1
    <3> QED
      BY <3>2 DEF c, n
  <2>5. HasOperand(argv, "-k") => getKey(global_options) = Number(OperandOf(argv, "-k"), 16)
    <3>1. HasOperand(argv, "-k") => OperandOf(argv, "-k") \in Keys
      BY <2>1, OperandsOfUsage
    <3> QED
      BY <2>3, <3>1, KeyWords DEF OptionsFit
  <2>6. HasOperand(argv, "-f") =>
            Factor = IF Number(OperandOf(argv, "-f"), 10) <= MaxFactor \div 2
                     THEN Number(OperandOf(argv, "-f"), 10) ELSE -1
    <3>1. HasOperand(argv, "-f") => OperandOf(argv, "-f") \in Factors
      BY <2>1, OperandsOfUsage
    <3> QED
      BY <2>3, <3>1, FactorWords DEF OptionsFit, KeptFactor, factorRecord0, Factor
  <2>7. argv[2] # "-c" /\ ~HasOperand(argv, "-f") => Factor = -1
    BY <2>3 DEF OptionsFit, Factor
  <2> QED
    BY <2>4, <2>5, <2>6, <2>7, Zenon DEF OptionsAreKept, isPreserve
<1> QED
  BY <1>1, OptionsInvInit, OptionsInvNext, PTL DEF Spec

-----------------------------------------------------------------------------
(* The annotation of the output.                                           *)

\* The size of a line is a number: induction on its words.
LEMMA LineSizeIsNumber ==
    ASSUME NEW line \in Seq(Strings)
    PROVE  LineSize(line) \in Nat
<1> DEFINE N == Len(line)
           step(h, j) == h + (Len(Characters[line[j]]) + 1)
           F == [y \in Nat \X (1..N) |-> step(y[1], y[2])]
           size == CHOOSE f : f = [j \in 0..N |-> IF j = 0 THEN 0 ELSE step(f[j - 1], j)]
<1>N. N \in Nat
  OBVIOUS
<1>1. ASSUME NEW h \in Nat, NEW j \in 1..N PROVE step(h, j) \in Nat
  <2>1. line[j] \in Strings
    BY <1>N, ElementOfSeq
  <2>2. Len(Characters[line[j]]) \in Nat
    BY <2>1, CharactersOf
  <2> QED
    BY <2>2
<1>2. LineSize(line) = size[N]
  BY DEF LineSize
<1> HIDE DEF N, step
<1>3. StepsWithin(Nat, N, F)
  BY <1>1 DEF StepsWithin
<1>4. PICK f \in [0..N -> Nat] : FollowsSteps(f, N, 0, F)
  <2> HIDE DEF F
  <2> QED
    BY <1>N, <1>3, RecursionExists
<1>5. ASSUME NEW j \in 1..N PROVE f[j] = step(f[j - 1], j)
  <2>1. <<f[j - 1], j>> \in Nat \X (1..N)
    BY <1>N
  <2>2. f[j] = F[<<f[j - 1], j>>]
    BY <1>4 DEF FollowsSteps
  <2> QED
    BY <2>1, <2>2
<1>6. f = [j \in 0..N |-> IF j = 0 THEN 0 ELSE step(f[j - 1], j)]
  BY <1>4, <1>5, <1>N DEF FollowsSteps
<1>7. size = [j \in 0..N |-> IF j = 0 THEN 0 ELSE step(size[j - 1], j)]
  <2> HIDE DEF F
  <2> QED
    BY <1>6
<1> HIDE DEF size, F
<1>8. \A j \in 0..N : size[j] \in Nat
  <2> DEFINE T == {j \in 0..N : size[j] \in Nat}
  <2>1. 0 \in T
    BY <1>7, <1>N
  <2>2. ASSUME NEW j \in 1..N, j - 1 \in T PROVE j \in T
    <3>1. j \in 0..N /\ size[j] = step(size[j - 1], j)
      BY <1>7, <1>N
    <3> QED
      BY <1>1, <2>2, <3>1
  <2> HIDE DEF T
  <2>3. \A j \in 0..N : j \in T
    BY <1>N, <2>1, <2>2, BoundedInduction
  <2> QED
    BY <2>3 DEF T
<1> QED
  BY <1>2, <1>8, <1>N

\* The size of a text is a number: induction on its lines.
LEMMA TextSizeIsNumber ==
    ASSUME NEW text \in Seq(Seq(Strings))
    PROVE  TextSize(text) \in Nat
<1> DEFINE N == Len(text)
           step(h, j) == h + LineSize(text[j])
           F == [y \in Nat \X (1..N) |-> step(y[1], y[2])]
           size == CHOOSE f : f = [j \in 0..N |-> IF j = 0 THEN 0 ELSE step(f[j - 1], j)]
<1>N. N \in Nat
  OBVIOUS
<1>1. ASSUME NEW h \in Nat, NEW j \in 1..N PROVE step(h, j) \in Nat
  <2>1. text[j] \in Seq(Strings)
    BY <1>N, ElementOfSeq
  <2>2. LineSize(text[j]) \in Nat
    BY <2>1, LineSizeIsNumber
  <2> QED
    BY <2>2
<1>2. TextSize(text) = size[N]
  BY DEF TextSize
<1> HIDE DEF N, step
<1>3. StepsWithin(Nat, N, F)
  BY <1>1 DEF StepsWithin
<1>4. PICK f \in [0..N -> Nat] : FollowsSteps(f, N, 0, F)
  <2> HIDE DEF F
  <2> QED
    BY <1>N, <1>3, RecursionExists
<1>5. ASSUME NEW j \in 1..N PROVE f[j] = step(f[j - 1], j)
  <2>1. <<f[j - 1], j>> \in Nat \X (1..N)
    BY <1>N
  <2>2. f[j] = F[<<f[j - 1], j>>]
    BY <1>4 DEF FollowsSteps
  <2> QED
    BY <2>1, <2>2
<1>6. f = [j \in 0..N |-> IF j = 0 THEN 0 ELSE step(f[j - 1], j)]
  BY <1>4, <1>5, <1>N DEF FollowsSteps
<1>7. size = [j \in 0..N |-> IF j = 0 THEN 0 ELSE step(size[j - 1], j)]
  <2> HIDE DEF F
  <2> QED
    BY <1>6
<1> HIDE DEF size, F
<1>8. \A j \in 0..N : size[j] \in Nat
  <2> DEFINE T == {j \in 0..N : size[j] \in Nat}
  <2>1. 0 \in T
    BY <1>7, <1>N
  <2>2. ASSUME NEW j \in 1..N, j - 1 \in T PROVE j \in T
    <3>1. j \in 0..N /\ size[j] = step(size[j - 1], j)
      BY <1>7, <1>N
    <3> QED
      BY <1>1, <2>2, <3>1
  <2> HIDE DEF T
  <2>3. \A j \in 0..N : j \in T
    BY <1>N, <2>1, <2>2, BoundedInduction
  <2> QED
    BY <2>3 DEF T
<1> QED
  BY <1>2, <1>8, <1>N

\* The space for a text is a multiple of 8 with room for a zero.
LEMMA NewSizePads ==
    ASSUME NEW text \in Seq(Seq(Strings))
    PROVE  newSize(text) \in Nat /\ newSize(text) % 8 = 0 /\ newSize(text) > TextSize(text)
<1> DEFINE k == TextSize(text)
<1>1. k \in Nat
  BY TextSizeIsNumber
<1>2. newSize(text) = k + 8 - (k % 8)
  BY DEF newSize
<1> HIDE DEF k
<1>3. k + 8 - (k % 8) \in Nat /\ (k + 8 - (k % 8)) % 8 = 0 /\ k + 8 - (k % 8) > k
  BY <1>1
<1> QED
  BY <1>2, <1>3 DEF k

\* A file as far as its annotation goes.
Fields == {"magic", "data_offset", "data_size", "encoding", "sample_rate", "channels",
           "text", "complete", "data"}

IsAnnotated(file) ==
    /\ DOMAIN file = Fields
    /\ file.text \in Seq(Seq(Strings))
    /\ file.data_offset \in 0..(Word - 1)

\* An annotation that the next process can read.
IsReadable(file) ==
    /\ file.data_offset % 8 = 0
    /\ file.data_offset - HeaderSize \in 0..ANNOTATION_MAX

\* The annotation and its place in the file are those of another.
SameAnnotation(f, g) == f.text = g.text /\ f.data_offset = g.data_offset

\* AnnotationRecordsCommand, of a command line, its input and its output.
Recorded(line, in, out) ==
    /\ IsReadable(out)
    /\ IF \E k \in 2..Len(line) : line[k] = "-p"
       THEN out.text = in.text /\ out.data_offset = in.data_offset
       ELSE out.text = <<line>> \o in.text /\ TextSize(out.text) < out.data_offset - HeaderSize

LEMMA FilesAreAnnotated == \A file \in Files : IsAnnotated(file)
<1> SUFFICES ASSUME NEW file \in FileType PROVE IsAnnotated(file)
  BY AudibleAssumption
<1>1. file.text \in Seq(Seq(Strings))
  BY DEF FileType, Strings
<1> QED
  BY <1>1 DEF FileType, IsAnnotated, Fields

LEMMA NoFileIsAnnotated == IsAnnotated(NoFile)
<1>1. 0 \in 0..(Word - 1)
  BY WordIsPositive
<1> QED
  BY <1>1 DEF IsAnnotated, NoFile, Fields

\* A record is not changed where its data is replaced.
LEMMA DataReplaced ==
    ASSUME NEW f, DOMAIN f = Fields, NEW x
    PROVE  LET g == [f EXCEPT !.data = x]
           IN  DOMAIN g = Fields /\ SameAnnotation(g, f)
BY DEF Fields, SameAnnotation

\* What recode keeps of a header that it accepts.
LEMMA HeaderRead ==
    ASSUME NEW file, IsAnnotated(file), validHeader(file), read_annotation(file)
    PROVE  /\ IsAnnotated(read_header(file)) /\ SameAnnotation(read_header(file), file)
           /\ IsReadable(file)
<1> DEFINE x == file.data_offset
           g == read_header(file)
<1>1. x \in 0..(Word - 1) /\ DOMAIN file = Fields /\ file.text \in Seq(Seq(Strings))
  BY DEF IsAnnotated
<1>2. Word \in Nat \ {0} /\ ANNOTATION_MAX \in Nat /\ ANNOTATION_MAX + 24 < Word
  BY WordIsPositive
<1>3. Field(x) % 8 = 0 /\ Field(x) >= 8 /\ Unsigned(Field(x) - HeaderSize) <= ANNOTATION_MAX
  BY DEF validHeader, validDataOffset, read_annotation
<1>4. DOMAIN g = Fields /\ g.text = file.text /\ g.data_offset = Field(x)
  BY <1>1 DEF read_header, Fields
<1> HIDE DEF x, g
<1>5. Field(x) = x
  BY <1>1, <1>2, <1>3 DEF Field
<1>6. x % 8 = 0 /\ x - 24 \in 0..ANNOTATION_MAX
  <2>1. x \in Nat /\ x < Word /\ x >= 8 /\ (x - 24) % Word <= ANNOTATION_MAX
    BY <1>1, <1>2, <1>3, <1>5 DEF Unsigned, HeaderSize
  <2>2. CASE x < 24
    <3>1. (x - 24) % Word = (x - 24) + Word
      <4>1. (x - 24) + Word \in 0..(Word - 1)
        BY <1>2, <2>1, <2>2
      <4> QED
        BY <1>2, <2>1, <2>2, <4>1
    <3> QED
      BY <1>2, <2>1, <3>1
  <2>3. CASE x >= 24
    <3>1. (x - 24) % Word = x - 24
      BY <1>2, <2>1, <2>3
    <3> QED
      BY <1>2, <1>3, <1>5, <2>1, <2>3, <3>1
  <2> QED
    BY <2>1, <2>2, <2>3
<1> QED
  BY <1>1, <1>4, <1>5, <1>6 DEF IsAnnotated, SameAnnotation, IsReadable, HeaderSize, x, g

\* What lies in the files, and that nothing is written before the loop.
OutputInv ==
    /\ IsAnnotated(stdin) /\ DOMAIN header = Fields /\ IsAnnotated(stdout)
    /\ pc \in {"main", "read", "annotate"} => stdout = NoFile
    /\ status \in {"FAILURE", "USAGE FAILURE"} => stdout = NoFile
    /\ pc = "annotate" => SameAnnotation(header, stdin) /\ IsReadable(stdin)
    /\ pc = "loop" \/ status = "SUCCESS" => Recorded(argv, stdin, stdout)

LEMMA OutputInvInit == Init => OutputInv
<1> SUFFICES ASSUME Init PROVE OutputInv
  OBVIOUS
<1>1. PICK line \in CommandLines : \E file \in Files \cup {NoFile} : Start(line, file)
  BY DEF Init
<1>2. PICK file \in Files \cup {NoFile} : Start(line, file)
  BY <1>1
<1>3. IsAnnotated(file) /\ IsAnnotated(NoFile)
  BY FilesAreAnnotated, NoFileIsAnnotated
<1>4. /\ stdin = file /\ stdout = NoFile /\ header = NoFile
      /\ pc = "main" /\ status = "running"
  BY <1>2 DEF Start
<1> QED
  BY <1>3, <1>4 DEF OutputInv, IsAnnotated

\* The header with an annotation of the command line in front.
LEMMA WrittenIsRecorded ==
    ASSUME NEW line \in Seq(Strings), NEW in, IsAnnotated(in), NEW n, n = Len(line),
           NEW text, text = <<SubSeq(line, 1, n)>> \o in.text,
           NEW out, out.text = text, out.data_offset = HeaderSize + newSize(text),
           newSize(text) <= ANNOTATION_MAX, DOMAIN out = Fields,
           ~\E k \in 2..n : line[k] = "-p"
    PROVE  IsAnnotated(out) /\ Recorded(line, in, out)
<1>1. SubSeq(line, 1, n) = line
  BY SubSeqFull
<1>2. in.text \in Seq(Seq(Strings))
  BY DEF IsAnnotated
<1>3. text = <<line>> \o in.text /\ text \in Seq(Seq(Strings))
  <2>1. text = <<line>> \o in.text
    BY <1>1
  <2>2. <<line>> \in Seq(Seq(Strings))
    OBVIOUS
  <2> QED
    BY <1>2, <2>1, <2>2, ConcatProperties
<1> DEFINE s == newSize(text)
           t == TextSize(text)
<1>4. s \in Nat /\ s % 8 = 0 /\ s > t
  BY <1>3, NewSizePads
<1>5. Word \in Nat /\ ANNOTATION_MAX \in Nat /\ ANNOTATION_MAX + 24 < Word
  BY WordIsPositive
<1>6. out.data_offset = 24 + s /\ s <= ANNOTATION_MAX
  BY DEF HeaderSize
<1> HIDE DEF s, t
<1>7. out.data_offset \in 0..(Word - 1) /\ out.data_offset % 8 = 0 /\ out.data_offset - 24 = s
  <2> DEFINE d == out.data_offset
  <2>1. d = 24 + s
    BY <1>6
  <2> HIDE DEF d
  <2>2. d % 8 = 0 /\ d - 24 = s
    BY <1>4, <2>1
  <2>3. d \in 0..(Word - 1)
    BY <1>4, <1>5, <1>6, <2>1
  <2> QED
    BY <2>2, <2>3 DEF d
<1>8. IsAnnotated(out)
  BY <1>3, <1>7 DEF IsAnnotated
<1>9. IsReadable(out)
  BY <1>4, <1>5, <1>6, <1>7 DEF IsReadable, HeaderSize
<1>10. TextSize(out.text) < out.data_offset - HeaderSize
  BY <1>4, <1>7 DEF s, t, HeaderSize
<1> QED
  BY <1>3, <1>8, <1>9, <1>10 DEF Recorded
\* -p is kept in the options, and so is the number of words without it.
LEMMA PreserveKept ==
    ASSUME NEW line \in Seq(Strings), Accepted(line), line[2] \in {"-u", "-d", "-c"}
    PROVE  /\ validargs(line).preserve <=> \E k \in 2..Len(line) : line[k] = "-p"
           /\ ~validargs(line).preserve =>
                 getArgC(validargs(line)) = 4 /\ Len(line) \in {2, 4}
<1> DEFINE o == validargs(line)
<1>1. OptionsFit(line, o)
  BY SpeedOptionsFit, CryptOptionsFit
<1>2. o # Nothing
  BY ValidIsUsage
<1>3. o.preserve = containsPreserve(line)
  <2>1. line[2] # "-h"
    OBVIOUS
  <2> QED
    BY <1>2, <2>1 DEF validargs, Nothing
<1>4. ~o.preserve => getArgC(o) = 4 /\ Len(line) \in {2, 4}
  BY <1>1, Zenon DEF OptionsFit
<1>5. containsPreserve(line) <=> \E k \in 2..Len(line) : line[k] = "-p"
  BY PreserveFound
<1> HIDE DEF o
<1>6. /\ o.preserve <=> \E k \in 2..Len(line) : line[k] = "-p"
      /\ ~o.preserve => getArgC(o) = 4 /\ Len(line) \in {2, 4}
  BY <1>3, <1>4, <1>5
<1> QED
  BY <1>6 DEF o

\* All the words of the command line are copied, or there are too few.
LEMMA WordsCopied ==
    ASSUME NEW line \in Seq(Strings), Accepted(line), line[2] \in {"-u", "-d", "-c"},
           ~validargs(line).preserve, getArgC(validargs(line)) <= Len(line)
    PROVE  getArgC(validargs(line)) = Len(line)
<1> DEFINE c == getArgC(validargs(line))
           n == Len(line)
<1>1. c = 4 /\ n \in {2, 4} /\ c <= n
  BY PreserveKept
<1> HIDE DEF c, n
<1>2. c = n
  BY <1>1
<1> QED
  BY <1>2 DEF c, n

LEMMA OutputInvNext == OptionsInv /\ OutputInv /\ [Next]_vars => OutputInv'
<1> SUFFICES ASSUME OptionsInv, OutputInv, [Next]_vars PROVE OutputInv'
  OBVIOUS
<1> USE DEF OutputInv
<1>1. CASE main
  <2>1. UNCHANGED <<argv, stdin, header, stdout>> /\ pc = "main" /\ status = "running"
    BY <1>1 DEF main, OptionsInv
  <2>2. pc' \in {"exit", "read"} /\ status' # "SUCCESS"
    BY <1>1, <2>1 DEF main, Exit
  <2> QED
    BY <2>1, <2>2
<1>2. CASE recodeRead
  <2>1. UNCHANGED <<argv, stdin, stdout>> /\ pc = "read" /\ status = "running"
    BY <1>2 DEF recodeRead, OptionsInv
  <2>2. CASE validHeader(stdin) /\ read_annotation(stdin)
    <3>1. header' = read_header(stdin) /\ pc' = "annotate" /\ status' = status
      BY <1>2, <2>2 DEF recodeRead
    <3>2. IsAnnotated(header') /\ SameAnnotation(header', stdin) /\ IsReadable(stdin)
      BY <2>2, <3>1, HeaderRead
    <3> QED
      BY <2>1, <3>1, <3>2 DEF IsAnnotated
  <2>3. CASE ~(validHeader(stdin) /\ read_annotation(stdin))
    <3>1. header' = header /\ pc' = "exit" /\ status' = "FAILURE"
      BY <1>2, <2>3 DEF recodeRead, Exit
    <3> QED
      BY <2>1, <3>1
  <2> QED
    BY <2>2, <2>3
<1>3. ASSUME NEW offset, NEW text, WriteHeader(offset, text)
      PROVE  /\ DOMAIN stdout' = Fields /\ stdout'.text = text /\ stdout'.data_offset = offset
             /\ header' = stdout' /\ pc' = "loop"
  <2> DEFINE size == setNewDataSize(header.data_size, FrameSize, frames)
  <2>1. header' = [header EXCEPT !.data_size = size, !.data_offset = offset, !.text = text]
    BY <1>3 DEF WriteHeader
  <2> HIDE DEF size
  <2>2. DOMAIN header' = Fields /\ header'.text = text /\ header'.data_offset = offset
    BY <2>1 DEF Fields
  <2>3. stdout' = header' /\ pc' = "loop"
    BY <1>3 DEF WriteHeader
  <2> QED
    BY <2>2, <2>3
<1>4. CASE recodePreserve
  <2>1. UNCHANGED <<argv, stdin, status>> /\ pc = "annotate" /\ status = "running"
    BY <1>4 DEF recodePreserve, OptionsInv
  <2>2. /\ DOMAIN stdout' = Fields /\ SameAnnotation(stdout', header)
        /\ header' = stdout' /\ pc' = "loop"
    BY <1>3, <1>4 DEF recodePreserve, SameAnnotation
  <2>3. SameAnnotation(stdout', stdin) /\ IsReadable(stdin)
    BY <2>1, <2>2 DEF SameAnnotation
  <2>4. IsAnnotated(stdout')
    BY <2>2, <2>3 DEF SameAnnotation, IsAnnotated
  <2>5. \E k \in 2..Len(argv) : argv[k] = "-p"
    BY <1>4, <2>1, PreserveKept DEF OptionsInv, recodePreserve, isPreserve
  <2>6. Recorded(argv, stdin, stdout')
    BY <2>3, <2>5 DEF Recorded, SameAnnotation, IsReadable
  <2> QED
    BY <2>1, <2>2, <2>4, <2>6
<1>5. CASE recodeAnnotate
  <2>1. UNCHANGED <<argv, stdin>> /\ pc = "annotate" /\ status = "running"
    BY <1>5 DEF recodeAnnotate, OptionsInv
  <2> DEFINE c == getArgC(global_options)
             text == <<SubSeq(argv, 1, c)>> \o header.text
             size == newSize(text)
  <2>2. \/ stdout' = stdout /\ header' = header /\ pc' = "exit"
           /\ status' \in {"SIGSEGV", "FAILURE", "UNDEFINED"}
        \/ c <= Len(argv) /\ size <= ANNOTATION_MAX /\ WriteHeader(HeaderSize + size, text)
           /\ status' = status
    BY <1>5 DEF recodeAnnotate, Exit
  <2> HIDE DEF c
  <2>3. ASSUME c <= Len(argv), size <= ANNOTATION_MAX, WriteHeader(HeaderSize + size, text)
        PROVE  Recorded(argv, stdin, stdout') /\ IsAnnotated(stdout')
    <3>1. argv \in Seq(Strings) /\ Accepted(argv) /\ argv[2] \in {"-u", "-d", "-c"}
          /\ global_options = validargs(argv) /\ ~validargs(argv).preserve
      BY <1>5, <2>1 DEF OptionsInv, recodeAnnotate, isPreserve
    <3>2. ~\E k \in 2..Len(argv) : argv[k] = "-p"
      BY <3>1, PreserveKept
    <3>3. c = Len(argv)
      BY <2>3, <3>1, WordsCopied DEF c
    <3>4. text = <<SubSeq(argv, 1, Len(argv))>> \o stdin.text
      BY <2>1, <3>3 DEF SameAnnotation
    <3> HIDE DEF text
    <3>5. DOMAIN stdout' = Fields /\ stdout'.text = text /\ stdout'.data_offset = HeaderSize + size
      BY <1>3, <2>3
    <3> QED
      BY <2>3, <3>1, <3>2, <3>4, <3>5, WrittenIsRecorded
  <2>4. ASSUME WriteHeader(HeaderSize + size, text)
        PROVE  DOMAIN header' = Fields /\ pc' = "loop"
    BY <1>3, <2>4
  <2> HIDE DEF text, size
  <2> QED
    BY <2>1, <2>2, <2>3, <2>4
<1>6. ASSUME NEW bytes, Emit(bytes)
      PROVE  DOMAIN stdout' = Fields /\ SameAnnotation(stdout', stdout)
  BY <1>6, DataReplaced DEF Emit, IsAnnotated
<1>7. ASSUME DOMAIN stdout' = Fields, SameAnnotation(stdout', stdout), pc = "loop",
             UNCHANGED <<argv, stdin, header, pc, status>>
      PROVE  OutputInv'
  <2>1. IsAnnotated(stdout')
    BY <1>7 DEF SameAnnotation, IsAnnotated
  <2>2. Recorded(argv', stdin', stdout')
    BY <1>7 DEF SameAnnotation, Recorded, IsReadable
  <2> QED
    BY <1>7, <2>1, <2>2 DEF OptionsInv
<1>8. CASE speedUp
  <2>1. UNCHANGED <<argv, stdin, header, pc, status>> /\ pc = "loop"
    BY <1>8 DEF speedUp, Loop
  <2>2. UNCHANGED stdout \/ \E bytes : Emit(bytes)
    BY <1>8 DEF speedUp
  <2>3. DOMAIN stdout' = Fields /\ SameAnnotation(stdout', stdout)
    BY <1>6, <2>2 DEF SameAnnotation, IsAnnotated
  <2> QED
    BY <1>7, <2>1, <2>3
<1>9. CASE slowDown
  <2>1. UNCHANGED <<argv, stdin, header, pc, status>> /\ pc = "loop"
    BY <1>9 DEF slowDown, Loop
  <2>2. \E bytes : Emit(bytes)
    BY <1>9 DEF slowDown
  <2>3. DOMAIN stdout' = Fields /\ SameAnnotation(stdout', stdout)
    BY <1>6, <2>2
  <2> QED
    BY <1>7, <2>1, <2>3
<1>10. CASE crypt
  <2>1. UNCHANGED <<argv, stdin, header, pc, status>> /\ pc = "loop"
    BY <1>10 DEF crypt, Loop
  <2>2. \E bytes : Emit(bytes)
    BY <1>10 DEF crypt
  <2>3. DOMAIN stdout' = Fields /\ SameAnnotation(stdout', stdout)
    BY <1>6, <2>2
  <2> QED
    BY <1>7, <2>1, <2>3
<1>11. CASE recodeReturn
  BY <1>11 DEF recodeReturn, Exit, OptionsInv
<1>12. CASE Pipe
  <2>1. /\ stdin' = stdout /\ header' = NoFile /\ stdout' = NoFile
        /\ pc' = "main" /\ status' = "running"
    BY <1>12 DEF Pipe
  <2>2. IsAnnotated(NoFile)
    BY NoFileIsAnnotated
  <2> QED
    BY <2>1, <2>2 DEF IsAnnotated
<1>13. CASE Ended
  BY <1>13 DEF Ended, vars
<1>14. CASE UNCHANGED vars
  BY <1>14 DEF vars
<1> QED
  BY <1>1, <1>2, <1>4, <1>5, <1>8, <1>9, <1>10, <1>11, <1>12, <1>13, <1>14 DEF Next

\* A file that is refused, or whose annotation becomes too long, leaves nothing
\* in the output.
THEOREM FailureIsClean == Spec => []FailureWritesNothing
<1>1. OptionsInv /\ OutputInv => FailureWritesNothing
  BY DEF OutputInv, FailureWritesNothing
<1> QED
  BY <1>1, OptionsInvInit, OptionsInvNext, OutputInvInit, OutputInvNext, PTL DEF Spec

\* The annotation of the output names its command line, or is the old one with
\* -p, and the next process can read it.
THEOREM AnnotationsAreRecorded == Spec => []AnnotationRecordsCommand
<1>1. OptionsInv /\ OutputInv => AnnotationRecordsCommand
  BY DEF OutputInv, AnnotationRecordsCommand, Succeeded, Recorded, IsReadable
<1> QED
  BY <1>1, OptionsInvInit, OptionsInvNext, OutputInvInit, OutputInvNext, PTL DEF Spec

-----------------------------------------------------------------------------
(* The size of the output.                                                 *)

\* What the header says of the frames that the loop will write.
SizeAnnounced ==
    /\ isCrypt => frames = Signed(stdout.data_size \div FrameSize)
    /\ isSpeedUp => stdout.data_size = Unsigned((Quotient(frames, Factor) + 1) * FrameSize)
    /\ isSlowDown => stdout.data_size = Unsigned((frames + (Factor - 1) * (frames - 1)) * FrameSize)

\* The frames written before frame k is read.
FramesWritten(k) ==
    IF isCrypt THEN k
    ELSE IF isSpeedUp THEN (k + (Factor - 1)) \div Factor
    ELSE IF k < frames \/ k = 0 THEN k * Factor
    ELSE (k - 1) * Factor + 1

SizeInv ==
    /\ stdin.data_size \in 0..(Word - 1) /\ stdout.data_size \in 0..(Word - 1)
    /\ IsSequence(stdout.data)
    /\ pc \in {"main", "read", "annotate"} => i = 0
    /\ pc \in {"annotate", "loop"} \/ status = "SUCCESS" =>
          frames \in Int /\ header.channels \in {1, 2} /\ header.encoding \in 2..5
    /\ pc = "annotate" =>
          /\ header.data = <<>> /\ header.data_size \in 0..(Word - 1)
          /\ frames = Signed(header.data_size \div FrameSize)
    /\ pc = "loop" \/ status = "SUCCESS" =>
          /\ i \in Nat /\ (frames > 0 => i <= frames)
          /\ SizeAnnounced
          /\ Factor > 0 => Len(stdout.data) = FramesWritten(i) * FrameSize
    /\ status = "SUCCESS" => i >= frames

LEMMA FactorIsNumber ==
    ASSUME NEW line \in Seq(Strings), Accepted(line), line[2] \in {"-u", "-d", "-c"}
    PROVE  getFactor(validargs(line)) \in Int \ {0}
BY SpeedOptionsFit, CryptOptionsFit

LEMMA QuotientIsNumber ==
    ASSUME NEW a \in Int, NEW b \in Int \ {0}
    PROVE  Quotient(a, b) \in Int /\ (a > 0 /\ b > 0 => Quotient(a, b) = a \div b)
<1> DEFINE m == Magnitude(a)
           n == Magnitude(b)
<1>1. /\ m \in Nat /\ n \in Nat \ {0}
      /\ a > 0 => m = a
      /\ b > 0 => n = b
  BY DEF Magnitude
<1>2. Quotient(a, b) = IF (a < 0) = (b < 0) THEN m \div n ELSE -(m \div n)
  BY DEF Quotient
<1> HIDE DEF m, n
<1>3. m \div n \in Int
  BY <1>1, Division
<1>4. Quotient(a, b) \in Int
  BY <1>2, <1>3
<1>5. ASSUME a > 0, b > 0 PROVE Quotient(a, b) = a \div b
  <2>1. (a < 0) = FALSE /\ (b < 0) = FALSE
    BY <1>5
  <2> QED
    BY <1>1, <1>2, <1>5, <2>1
<1> QED
  BY <1>4, <1>5

LEMMA UnsignedIsWord ==
    ASSUME NEW x \in Int
    PROVE  Unsigned(x) \in 0..(Word - 1) /\ Signed(x) \in Int
<1>1. Word \in Nat \ {0}
  BY WordIsPositive
<1>2. x % Word \in 0..(Word - 1)
  BY <1>1, Division
<1>3. Word \div 2 \in Int
  BY <1>1
<1>4. (x + Word \div 2) % Word \in Int
  <2> DEFINE y == x + Word \div 2
  <2>1. y \in Int
    BY <1>3
  <2> HIDE DEF y
  <2>2. y % Word \in Int
    BY <1>1, <2>1, Division
  <2> QED
    BY <2>2 DEF y
<1> QED
  BY <1>2, <1>3, <1>4 DEF Unsigned, Signed

\* A function on 1..n is a sequence of n elements.
LEMMA FunctionIsSequence ==
    ASSUME NEW n \in Nat, NEW f, f = [k \in 1..n |-> f[k]]
    PROVE  IsSequence(f) /\ Len(f) = n
<1> DEFINE E == {f[k] : k \in 1..n}
<1>1. f \in [1..n -> E]
  OBVIOUS
<1> HIDE DEF E
<1>2. f \in Seq(E)
  BY <1>1, SeqDef
<1>3. Len(f) = n
  BY <1>1, <1>2
<1> QED
  BY <1>2, <1>3 DEF IsSequence

\* The lengths of two sequences add up.
LEMMA ConcatLength ==
    ASSUME NEW s, IsSequence(s), NEW t, IsSequence(t)
    PROVE  IsSequence(s \o t) /\ Len(s \o t) = Len(s) + Len(t)
           /\ Len(s) \in Nat /\ Len(t) \in Nat
<1>1. PICK E : s \in Seq(E)
  BY DEF IsSequence
<1>2. PICK F : t \in Seq(F)
  BY DEF IsSequence
<1> DEFINE G == E \cup F
<1>3. s \in Seq(G)
  BY <1>1, SeqMonotonic
<1>4. t \in Seq(G)
  BY <1>2, SeqMonotonic
<1> HIDE DEF G
<1>5. s \o t \in Seq(G) /\ Len(s \o t) = Len(s) + Len(t)
  BY <1>3, <1>4, ConcatProperties
<1>6. Len(s) \in Nat /\ Len(t) \in Nat
  BY <1>3, <1>4, LenProperties
<1> QED
  BY <1>5, <1>6 DEF IsSequence

\* What one frame and the inserted ones take up.
LEMMA FrameLength ==
    ASSUME FrameSize \in Nat \ {0}, NEW frame
    PROVE  IsSequence(write_frame(frame)) /\ Len(write_frame(frame)) = FrameSize
<1> DEFINE f == write_frame(frame)
<1>1. f = [k \in 1..FrameSize |-> f[k]]
  BY DEF write_frame
<1> HIDE DEF f
<1>2. IsSequence(f) /\ Len(f) = FrameSize
  BY <1>1, FunctionIsSequence
<1> QED
  BY <1>2 DEF f

LEMMA InsertedLength ==
    ASSUME FrameSize \in Nat \ {0}, Factor \in Int, NEW s, NEW t
    PROVE  /\ IsSequence(Inserted(s, t))
           /\ Factor > 0 => Len(Inserted(s, t)) = (Factor - 1) * FrameSize
<1> DEFINE f == Inserted(s, t)
           m == (Factor - 1) * FrameSize
           n == IF m < 0 THEN 0 ELSE m
<1>1. m \in Int /\ (Factor > 0 => m >= 0)
  OBVIOUS
<1>2. f = [k \in 1..m |-> f[k]]
  BY DEF Inserted
<1> HIDE DEF f, m
<1>3. n \in Nat /\ 1..m = 1..n
  BY <1>1
<1>4. f = [k \in 1..n |-> f[k]]
  BY <1>2, <1>3
<1> HIDE DEF n
<1>5. IsSequence(f) /\ Len(f) = n
  BY <1>3, <1>4, FunctionIsSequence
<1>6. Factor > 0 => n = m
  BY <1>1 DEF n
<1> QED
  BY <1>5, <1>6 DEF f, m

LEMMA FramesAreCounted ==
    ASSUME SizeInv, pc \in {"annotate", "loop"} \/ status = "SUCCESS"
    PROVE  FrameSize \in Nat \ {0}
<1>1. header.channels \in {1, 2} /\ header.encoding \in 2..5
  BY DEF SizeInv
<1> DEFINE c == header.channels
           e == header.encoding - 1
<1>2. c \in {1, 2} /\ e \in 1..4
  BY <1>1
<1> HIDE DEF c, e
<1>3. c * e \in Nat \ {0}
  BY <1>2
<1> QED
  BY <1>3 DEF FrameSize, BytesPerSample, c, e

\* The options of a transformation.
LEMMA TransformationOptions ==
    ASSUME OptionsInv, pc \in {"annotate", "loop"} \/ status = "SUCCESS"
    PROVE  /\ Factor \in Int \ {0}
           /\ \/ isSpeedUp /\ ~isSlowDown /\ ~isCrypt
              \/ isSlowDown /\ ~isSpeedUp /\ ~isCrypt
              \/ isCrypt /\ ~isSpeedUp /\ ~isSlowDown
           /\ isCrypt => Factor = 1
<1>1. /\ argv \in Seq(Strings) /\ Accepted(argv) /\ argv[2] \in {"-u", "-d", "-c"}
      /\ global_options = validargs(argv)
  BY DEF OptionsInv
<1>2. global_options.mode = argv[2]
  BY <1>1, ValidIsUsage
<1>3. Factor \in Int \ {0}
  BY <1>1, FactorIsNumber DEF Factor
<1>4. isCrypt => Factor = 1
  BY <1>1, <1>2, CryptOptionsFit DEF Factor, isCrypt
<1> QED
  BY <1>1, <1>2, <1>3, <1>4 DEF isSpeedUp, isSlowDown, isCrypt

LEMMA SizeInvInit == Init => SizeInv
<1> SUFFICES ASSUME Init PROVE SizeInv
  OBVIOUS
<1>1. PICK line \in CommandLines : \E file \in Files \cup {NoFile} : Start(line, file)
  BY DEF Init
<1>2. PICK file \in Files \cup {NoFile} : Start(line, file)
  BY <1>1
<1>3. 0 \in 0..(Word - 1)
  BY WordIsPositive
<1>4. file.data_size \in 0..(Word - 1) /\ NoFile.data_size \in 0..(Word - 1)
  BY <1>3, AudibleAssumption DEF FileType, NoFile
<1>5. IsSequence(NoFile.data)
  BY EmptySeq DEF NoFile, IsSequence
<1>6. /\ stdin = file /\ stdout = NoFile /\ i = 0
      /\ pc = "main" /\ status = "running"
  BY <1>2 DEF Start
<1> QED
  BY <1>4, <1>5, <1>6 DEF SizeInv

\* The header that recode goes on with.
LEMMA SizeRead ==
    ASSUME OptionsInv, OutputInv, SizeInv, recodeRead
    PROVE  SizeInv'
<1>1. /\ UNCHANGED <<stdin, stdout, i>> /\ pc = "read" /\ status = "running"
      /\ stdin.data_size \in 0..(Word - 1) /\ stdout.data_size \in 0..(Word - 1)
      /\ IsSequence(stdout.data) /\ i = 0
  BY DEF recodeRead, OptionsInv, SizeInv
<1>2. CASE validHeader(stdin) /\ read_annotation(stdin)
  <2>1. /\ header' = read_header(stdin)
        /\ frames' = Signed(header'.data_size \div (header'.channels * (header'.encoding - 1)))
        /\ pc' = "annotate" /\ status' = "running"
    BY <1>1, <1>2 DEF recodeRead
  <2>2. DOMAIN stdin = Fields
    BY DEF OutputInv, IsAnnotated
  <2>3. /\ header'.data_size = Field(stdin.data_size) /\ header'.data = <<>>
        /\ header'.channels = Field(stdin.channels)
        /\ header'.encoding = Field(stdin.encoding)
    BY <2>1, <2>2 DEF read_header, Fields
  <2>4. header'.channels \in {1, 2} /\ header'.encoding \in 2..5
    BY <1>2, <2>3 DEF validHeader, validChannels, validEncoding, PCM8_ENCODING, PCM32_ENCODING
  <2>5. header'.data_size \in 0..(Word - 1)
    <3>1. 0 \in 0..(Word - 1)
      BY WordIsPositive
    <3> QED
      BY <1>1, <2>3, <3>1 DEF Field
  <2>6. frames' = Signed(header'.data_size \div FrameSize')
    BY <2>1 DEF FrameSize, BytesPerSample
  <2>7. frames' \in Int
    <3> DEFINE c == header'.channels
               e == header'.encoding - 1
               d == header'.data_size
               fs == c * e
               q == d \div fs
    <3>1. c \in {1, 2} /\ e \in 1..4 /\ d \in Int
      BY <2>4, <2>5
    <3>2. frames' = Signed(q)
      BY <2>1
    <3> HIDE DEF c, e, d
    <3>3. fs \in Nat \ {0}
      BY <3>1
    <3> HIDE DEF fs
    <3>4. q \in Int
      BY <3>1, <3>3, Division
    <3> HIDE DEF q
    <3> QED
      BY <3>2, <3>4, UnsignedIsWord
  <2> QED
    BY <1>1, <2>1, <2>3, <2>4, <2>5, <2>6, <2>7 DEF SizeInv
<1>3. CASE ~(validHeader(stdin) /\ read_annotation(stdin))
  <2>1. pc' = "exit" /\ status' = "FAILURE"
    BY <1>3 DEF recodeRead, Exit
  <2> QED
    BY <1>1, <2>1 DEF SizeInv
<1> QED
  BY <1>2, <1>3

\* The new size is a word.
LEMMA NewSizeIsWord ==
    ASSUME NEW size \in 0..(Word - 1), FrameSize \in Nat \ {0}, frames \in Int, Factor \in Int \ {0}
    PROVE  setNewDataSize(size, FrameSize, frames) \in 0..(Word - 1)
<1> DEFINE fs == FrameSize
           n == frames
           f == Factor
           q == Quotient(n, f)
           a == (n + (f - 1) * (n - 1)) * fs
           b == (q + 1) * fs
<1>1. fs \in Int /\ n \in Int /\ f \in Int \ {0}
  OBVIOUS
<1>2. setNewDataSize(size, FrameSize, frames) =
         IF isSlowDown THEN Unsigned(a) ELSE IF isSpeedUp THEN Unsigned(b) ELSE size
  BY DEF setNewDataSize
<1> HIDE DEF fs, n, f
<1>3. q \in Int
  BY <1>1, QuotientIsNumber
<1> HIDE DEF q
<1>4. a \in Int /\ b \in Int
  <2>1. (f - 1) * (n - 1) \in Int
    BY <1>1
  <2> QED
    BY <1>1, <1>3, <2>1
<1> HIDE DEF a, b
<1>5. Unsigned(a) \in 0..(Word - 1) /\ Unsigned(b) \in 0..(Word - 1)
  BY <1>4, UnsignedIsWord
<1> QED
  BY <1>2, <1>5

\* The header that recode writes.
LEMMA SizeWritten ==
    ASSUME OptionsInv, OutputInv, SizeInv, pc = "annotate", NEW offset, NEW text,
           WriteHeader(offset, text),
           UNCHANGED <<argv, stdin, global_options, frames, i, status>>
    PROVE  SizeInv'
<1>1. /\ status = "running" /\ frames \in Int /\ i = 0
      /\ header.channels \in {1, 2} /\ header.encoding \in 2..5
      /\ header.data = <<>> /\ header.data_size \in 0..(Word - 1)
      /\ frames = Signed(header.data_size \div FrameSize)
      /\ stdin.data_size \in 0..(Word - 1)
  BY DEF OptionsInv, SizeInv
<1>2. FrameSize \in Nat \ {0}
  BY FramesAreCounted
<1>3. Factor \in Int \ {0}
  BY TransformationOptions
<1> DEFINE size == setNewDataSize(header.data_size, FrameSize, frames)
<1>4. size \in 0..(Word - 1)
  BY <1>1, <1>2, <1>3, NewSizeIsWord
<1>5. /\ header' = [header EXCEPT !.data_size = size, !.data_offset = offset, !.text = text]
      /\ stdout' = header' /\ pc' = "loop"
  BY DEF WriteHeader
<1>6. DOMAIN header = Fields
  BY DEF OutputInv
<1> HIDE DEF size
<1>7. /\ header'.data_size = size /\ header'.data = <<>>
      /\ header'.channels = header.channels /\ header'.encoding = header.encoding
  BY <1>1, <1>5, <1>6 DEF Fields
<1>8. FrameSize' = FrameSize /\ Factor' = Factor /\ frames' = frames
      /\ (isCrypt' <=> isCrypt) /\ (isSpeedUp' <=> isSpeedUp) /\ (isSlowDown' <=> isSlowDown)
  BY <1>7 DEF FrameSize, BytesPerSample, Factor, isCrypt, isSpeedUp, isSlowDown
<1>9. SizeAnnounced'
  <2>1. isCrypt => size = header.data_size
    BY TransformationOptions DEF size, setNewDataSize
  <2>2. isSpeedUp => size = Unsigned((Quotient(frames, Factor) + 1) * FrameSize)
    BY TransformationOptions DEF size, setNewDataSize
  <2>3. isSlowDown => size = Unsigned((frames + (Factor - 1) * (frames - 1)) * FrameSize)
    BY DEF size, setNewDataSize
  <2> QED
    BY <1>1, <1>5, <1>7, <1>8, <2>1, <2>2, <2>3 DEF SizeAnnounced
<1>10. Factor > 0 => Len(stdout'.data) = FramesWritten(i)' * FrameSize'
  <2> SUFFICES ASSUME Factor > 0 PROVE Len(stdout'.data) = FramesWritten(i)' * FrameSize'
    OBVIOUS
  <2>1. Len(stdout'.data) = 0
    BY <1>5, <1>7
  <2>2. i' = 0
    BY <1>1
  <2>3. (0 + (Factor - 1)) \div Factor = 0 /\ 0 * Factor = 0
    <3> DEFINE f == Factor
    <3>1. f \in Nat \ {0}
      BY <1>3
    <3> HIDE DEF f
    <3>2. f - 1 \in 0..(f - 1) /\ f - 1 = 0 * f + (f - 1) /\ 0 + (f - 1) = f - 1
      BY <3>1
    <3>3. (f - 1) \div f = 0
      BY <3>1, <3>2, DivisionUnique
    <3> QED
      BY <3>1, <3>2, <3>3 DEF f
  <2>4. FramesWritten(i)' = 0
    BY <1>8, <2>2, <2>3 DEF FramesWritten
  <2> QED
    BY <1>2, <1>8, <2>1, <2>4
<1>11. IsSequence(stdout'.data)
  BY <1>5, <1>7, EmptySeq DEF IsSequence
<1> QED
  BY <1>1, <1>4, <1>5, <1>7, <1>8, <1>9, <1>10, <1>11 DEF SizeInv

\* A round of the loop that writes m frames.
LEMMA SizeStep ==
    ASSUME OptionsInv, OutputInv, SizeInv, Loop,
           UNCHANGED <<argv, stdin, global_options, header, frames, pc, status>>,
           IsSequence(stdout'.data), stdout'.data_size = stdout.data_size,
           NEW m, Factor > 0 => /\ m \in Int
                                /\ Len(stdout'.data) = Len(stdout.data) + m * FrameSize
                                /\ FramesWritten(i + 1) = FramesWritten(i) + m
    PROVE  SizeInv'
<1>1. /\ status = "running" /\ pc = "loop" /\ i \in Nat /\ frames \in Int /\ i < frames
      /\ i' = i + 1
      /\ header.channels \in {1, 2} /\ header.encoding \in 2..5
      /\ stdin.data_size \in 0..(Word - 1) /\ stdout.data_size \in 0..(Word - 1)
      /\ SizeAnnounced /\ (Factor > 0 => Len(stdout.data) = FramesWritten(i) * FrameSize)
  BY DEF OptionsInv, SizeInv, Loop
<1>2. FrameSize \in Nat \ {0} /\ Factor \in Int \ {0}
  BY <1>1, FramesAreCounted, TransformationOptions
<1>3. FrameSize' = FrameSize /\ Factor' = Factor /\ frames' = frames
      /\ (isCrypt' <=> isCrypt) /\ (isSpeedUp' <=> isSpeedUp) /\ (isSlowDown' <=> isSlowDown)
  BY DEF FrameSize, BytesPerSample, Factor, isCrypt, isSpeedUp, isSlowDown
<1>4. SizeAnnounced'
  BY <1>1, <1>3 DEF SizeAnnounced
<1>5. FramesWritten(i)' = FramesWritten(i + 1)
  BY <1>1, <1>3 DEF FramesWritten
<1>6. ASSUME Factor > 0 PROVE Len(stdout'.data) = FramesWritten(i)' * FrameSize'
  <2> DEFINE a == FramesWritten(i)
             f == FrameSize
  <2>1. a \in Int
    <3>1. (i + (Factor - 1)) \div Factor \in Int
      <4> DEFINE x == i + (Factor - 1)
                 d == Factor
      <4>1. x \in Int /\ d \in Nat \ {0}
        BY <1>1, <1>2, <1>6
      <4> HIDE DEF x, d
      <4>2. x \div d \in Int
        BY <4>1, Division
      <4> QED
        BY <4>2 DEF x, d
    <3>2. i * Factor \in Int /\ (i - 1) * Factor + 1 \in Int
      BY <1>1, <1>2
    <3> QED
      BY <1>1, <3>1, <3>2 DEF FramesWritten
  <2>2. Len(stdout'.data) = a * f + m * f /\ FramesWritten(i)' = a + m /\ m \in Int /\ f \in Int
    BY <1>1, <1>2, <1>5, <1>6
  <2> HIDE DEF a, f
  <2>3. a * f + m * f = (a + m) * f
    BY <2>1, <2>2
  <2> QED
    BY <1>3, <2>2, <2>3 DEF f
<1> QED
  BY <1>1, <1>2, <1>3, <1>4, <1>6 DEF SizeInv

\* What Emit does to the output.
LEMMA Emitted ==
    ASSUME OutputInv, SizeInv, NEW bytes, IsSequence(bytes), Emit(bytes)
    PROVE  /\ IsSequence(stdout'.data) /\ stdout'.data_size = stdout.data_size
           /\ Len(stdout'.data) = Len(stdout.data) + Len(bytes)
<1>1. DOMAIN stdout = Fields /\ IsSequence(stdout.data)
  BY DEF OutputInv, IsAnnotated, SizeInv
<1> DEFINE d == stdout.data \o bytes
<1>2. IsSequence(d) /\ Len(d) = Len(stdout.data) + Len(bytes)
  BY <1>1, ConcatLength
<1>3. stdout' = [stdout EXCEPT !.data = d]
  BY DEF Emit
<1> HIDE DEF d
<1>4. stdout'.data = d /\ stdout'.data_size = stdout.data_size
  BY <1>1, <1>3 DEF Fields
<1> QED
  BY <1>2, <1>4

LEMMA SizeSpeedUp == OptionsInv /\ OutputInv /\ SizeInv /\ speedUp => SizeInv'
<1> SUFFICES ASSUME OptionsInv, OutputInv, SizeInv, speedUp PROVE SizeInv'
  OBVIOUS
<1>1. /\ Loop /\ pc = "loop" /\ isSpeedUp
      /\ UNCHANGED <<argv, stdin, global_options, header, frames, pc, status>>
  BY DEF speedUp, Loop
<1>2. FrameSize \in Nat \ {0} /\ Factor \in Int \ {0} /\ ~isCrypt
  BY <1>1, FramesAreCounted, TransformationOptions
<1>3. i \in Nat
  BY <1>1 DEF SizeInv
<1> DEFINE frame == write_frame(read_frame(position))
           writes == i % Magnitude(Factor) = 0
           m == IF writes THEN 1 ELSE 0
<1>4. IF writes THEN Emit(frame) ELSE UNCHANGED stdout
  BY DEF speedUp
<1>5. IsSequence(frame) /\ Len(frame) = FrameSize
  BY <1>2, FrameLength
<1>6. Factor > 0 => FramesWritten(i + 1) = FramesWritten(i) + m
  <2> SUFFICES ASSUME Factor > 0 PROVE FramesWritten(i + 1) = FramesWritten(i) + m
    OBVIOUS
  <2>1. writes <=> i % Factor = 0
    BY <1>2 DEF Magnitude
  <2> DEFINE f == Factor
             k == i
  <2>2. FramesWritten(i + 1) = ((k + 1) + (f - 1)) \div f /\ FramesWritten(i) = (k + (f - 1)) \div f
    BY <1>1, <1>2 DEF FramesWritten
  <2>3. f \in Nat \ {0} /\ k \in Nat
    BY <1>2, <1>3
  <2>4. m = IF k % f = 0 THEN 1 ELSE 0
    BY <2>1
  <2> HIDE DEF f, k, m
  <2>5. ((k + 1) + (f - 1)) \div f = ((k + (f - 1)) \div f) + (IF k % f = 0 THEN 1 ELSE 0)
    BY <2>3, CeilStep
  <2> QED
    BY <2>2, <2>4, <2>5
<1> HIDE DEF frame, writes
<1>7. /\ IsSequence(stdout'.data) /\ stdout'.data_size = stdout.data_size
      /\ Len(stdout'.data) = Len(stdout.data) + m * FrameSize
  <2>1. CASE writes
    <3>1. Emit(frame)
      BY <1>4, <2>1
    <3>2. /\ IsSequence(stdout'.data) /\ stdout'.data_size = stdout.data_size
          /\ Len(stdout'.data) = Len(stdout.data) + FrameSize
      BY <1>5, <3>1, Emitted
    <3>3. m * FrameSize = FrameSize
      BY <1>2, <2>1
    <3> HIDE DEF m
    <3> QED
      BY <3>2, <3>3
  <2>2. CASE ~writes
    <3>1. stdout' = stdout /\ IsSequence(stdout.data)
      BY <1>4, <2>2 DEF SizeInv
    <3> DEFINE d == stdout.data
    <3>2. Len(d) \in Nat
      BY <3>1, ConcatLength
    <3>3. m * FrameSize = 0
      BY <1>2, <2>2
    <3> HIDE DEF m, d
    <3>4. Len(d) = Len(d) + m * FrameSize
      BY <3>2, <3>3
    <3> QED
      BY <3>1, <3>4 DEF d
  <2> QED
    BY <2>1, <2>2
<1>8. m \in Int
  OBVIOUS
<1> HIDE DEF m
<1> QED
  BY <1>1, <1>6, <1>7, <1>8, SizeStep

LEMMA SizeSlowDown == OptionsInv /\ OutputInv /\ SizeInv /\ slowDown => SizeInv'
<1> SUFFICES ASSUME OptionsInv, OutputInv, SizeInv, slowDown PROVE SizeInv'
  OBVIOUS
<1>1. /\ Loop /\ pc = "loop" /\ isSlowDown /\ i < frames
      /\ UNCHANGED <<argv, stdin, global_options, header, frames, pc, status>>
  BY DEF slowDown, Loop
<1>2. FrameSize \in Nat \ {0} /\ Factor \in Int \ {0} /\ ~isCrypt /\ ~isSpeedUp
  BY <1>1, FramesAreCounted, TransformationOptions
<1>3. i \in Nat /\ frames \in Int /\ IsSequence(stdout.data)
  BY <1>1 DEF SizeInv
<1> DEFINE m == IF i + 1 < frames THEN Factor ELSE 1
<1>4. Factor > 0 => FramesWritten(i + 1) = FramesWritten(i) + m
  <2> DEFINE f == Factor
             k == i
             n == frames
  <2>1. /\ FramesWritten(i + 1) = IF k + 1 < n \/ k + 1 = 0 THEN (k + 1) * f ELSE ((k + 1) - 1) * f + 1
        /\ FramesWritten(i) = IF k < n \/ k = 0 THEN k * f ELSE (k - 1) * f + 1
        /\ m = IF k + 1 < n THEN f ELSE 1
    BY <1>2 DEF FramesWritten
  <2>2. k \in Nat /\ n \in Int /\ f \in Int /\ k < n
    BY <1>1, <1>2, <1>3
  <2> HIDE DEF k, n, f, m
  <2>3. (k + 1) * f = k * f + f /\ (k + 1) - 1 = k /\ k * f \in Int
    BY <2>2
  <2> QED
    BY <2>1, <2>2, <2>3
<1>5. /\ IsSequence(stdout'.data) /\ stdout'.data_size = stdout.data_size
      /\ Factor > 0 => Len(stdout'.data) = Len(stdout.data) + m * FrameSize
  <2>1. PICK s, t : \/ i + 1 < frames /\ Emit(write_frame(s) \o Inserted(s, t))
                    \/ ~(i + 1 < frames) /\ Emit(write_frame(s))
    BY DEF slowDown
  <2>2. IsSequence(write_frame(s)) /\ Len(write_frame(s)) = FrameSize
    BY <1>2, FrameLength
  <2>3. /\ IsSequence(Inserted(s, t))
        /\ Factor > 0 => Len(Inserted(s, t)) = (Factor - 1) * FrameSize
    BY <1>2, InsertedLength
  <2>4. Len(stdout.data) \in Nat
    BY <1>3, ConcatLength
  <2>5. CASE i + 1 < frames /\ Emit(write_frame(s) \o Inserted(s, t))
    <3> DEFINE bytes == write_frame(s) \o Inserted(s, t)
    <3>1. IsSequence(bytes) /\ Len(bytes) = FrameSize + Len(Inserted(s, t))
      BY <2>2, <2>3, ConcatLength
    <3>2. Emit(bytes)
      BY <2>5
    <3> HIDE DEF bytes
    <3>3. /\ IsSequence(stdout'.data) /\ stdout'.data_size = stdout.data_size
          /\ Len(stdout'.data) = Len(stdout.data) + Len(bytes)
      BY <3>1, <3>2, Emitted
    <3>4. Factor > 0 => Len(bytes) = m * FrameSize
      <4> DEFINE f == Factor
                 fs == FrameSize
                 b == Len(bytes)
      <4>1. m = f /\ f \in Int /\ fs \in Int /\ (f > 0 => b = fs + (f - 1) * fs)
        BY <1>2, <2>3, <2>5, <3>1
      <4> HIDE DEF f, fs, b, m
      <4>2. fs + (f - 1) * fs = f * fs
        BY <4>1
      <4>3. f > 0 => b = m * fs
        BY <4>1, <4>2
      <4> QED
        BY <4>3 DEF f, fs, b
    <3> HIDE DEF m
    <3> QED
      BY <3>3, <3>4
  <2>6. CASE ~(i + 1 < frames) /\ Emit(write_frame(s))
    <3>1. /\ IsSequence(stdout'.data) /\ stdout'.data_size = stdout.data_size
          /\ Len(stdout'.data) = Len(stdout.data) + FrameSize
      BY <2>2, <2>6, Emitted
    <3>2. m * FrameSize = FrameSize
      BY <1>2, <2>6
    <3> HIDE DEF m
    <3> QED
      BY <3>1, <3>2
  <2> QED
    BY <2>1, <2>5, <2>6
<1>6. m \in Int
  BY <1>2
<1> HIDE DEF m
<1> QED
  BY <1>1, <1>4, <1>5, <1>6, SizeStep

LEMMA SizeCrypt == OptionsInv /\ OutputInv /\ SizeInv /\ crypt => SizeInv'
<1> SUFFICES ASSUME OptionsInv, OutputInv, SizeInv, crypt PROVE SizeInv'
  OBVIOUS
<1>1. /\ Loop /\ pc = "loop" /\ isCrypt
      /\ UNCHANGED <<argv, stdin, global_options, header, frames, pc, status>>
  BY DEF crypt, Loop
<1>2. FrameSize \in Nat \ {0}
  BY <1>1, FramesAreCounted
<1>3. i \in Nat
  BY <1>1 DEF SizeInv
<1>4. PICK frame : Emit(write_frame(frame))
  BY DEF crypt
<1>5. IsSequence(write_frame(frame)) /\ Len(write_frame(frame)) = FrameSize
  BY <1>2, FrameLength
<1>6. /\ IsSequence(stdout'.data) /\ stdout'.data_size = stdout.data_size
      /\ Len(stdout'.data) = Len(stdout.data) + FrameSize
  BY <1>4, <1>5, Emitted
<1>7. FramesWritten(i + 1) = FramesWritten(i) + 1 /\ 1 * FrameSize = FrameSize /\ 1 \in Int
  BY <1>1, <1>2, <1>3 DEF FramesWritten
<1> QED
  BY <1>1, <1>6, <1>7, SizeStep

LEMMA SizeInvNext == OptionsInv /\ OutputInv /\ SizeInv /\ [Next]_vars => SizeInv'
<1> SUFFICES ASSUME OptionsInv, OutputInv, SizeInv, [Next]_vars PROVE SizeInv'
  OBVIOUS
<1>1. CASE main
  <2>1. UNCHANGED <<stdin, stdout, i>> /\ pc = "main" /\ pc' \in {"exit", "read"} /\ status' # "SUCCESS"
    BY <1>1 DEF main, Exit, OptionsInv
  <2> QED
    BY <2>1 DEF SizeInv
<1>2. CASE recodeRead
  BY <1>2, SizeRead
<1>3. CASE recodePreserve
  BY <1>3, SizeWritten DEF recodePreserve
<1>4. CASE recodeAnnotate
  <2> DEFINE text == <<SubSeq(argv, 1, getArgC(global_options))>> \o header.text
             size == newSize(text)
  <2>1. pc = "annotate" /\ UNCHANGED <<argv, stdin, global_options, frames, i>>
    BY <1>4 DEF recodeAnnotate
  <2>2. \/ stdout' = stdout /\ pc' = "exit" /\ status' # "SUCCESS"
        \/ WriteHeader(HeaderSize + size, text) /\ status' = status
    BY <1>4 DEF recodeAnnotate, Exit
  <2> HIDE DEF text, size
  <2>3. CASE stdout' = stdout /\ pc' = "exit" /\ status' # "SUCCESS"
    BY <2>1, <2>3 DEF SizeInv
  <2>4. CASE WriteHeader(HeaderSize + size, text) /\ status' = status
    BY <2>1, <2>4, SizeWritten
  <2> QED
    BY <2>2, <2>3, <2>4
<1>5. CASE speedUp
  BY <1>5, SizeSpeedUp
<1>6. CASE slowDown
  BY <1>6, SizeSlowDown
<1>7. CASE crypt
  BY <1>7, SizeCrypt
<1>8. ASSUME UNCHANGED <<stdin, stdout, header, frames, i, global_options>>, pc = "loop", i >= frames,
             pc' = "exit", status' = "SUCCESS"
      PROVE  SizeInv'
  BY <1>8 DEF SizeInv, SizeAnnounced, FramesWritten, FrameSize, BytesPerSample,
              Factor, isCrypt, isSpeedUp, isSlowDown
<1>9. CASE recodeReturn
  BY <1>8, <1>9 DEF recodeReturn, Exit
<1>10. CASE Pipe
  <2>1. /\ stdin' = stdout /\ stdout' = NoFile /\ i' = 0 /\ pc' = "main" /\ status' = "running"
    BY <1>10 DEF Pipe
  <2>2. NoFile.data_size \in 0..(Word - 1) /\ IsSequence(NoFile.data)
    BY WordIsPositive, EmptySeq DEF NoFile, IsSequence
  <2> QED
    BY <2>1, <2>2 DEF SizeInv
<1>11. ASSUME UNCHANGED <<stdin, stdout, header, frames, i, global_options, pc, status>>
       PROVE  SizeInv'
  BY <1>11 DEF SizeInv, SizeAnnounced, FramesWritten, FrameSize, BytesPerSample,
               Factor, isCrypt, isSpeedUp, isSlowDown
<1>12. CASE Ended
  BY <1>11, <1>12 DEF Ended, vars
<1>13. CASE UNCHANGED vars
  BY <1>11, <1>13 DEF vars
<1> QED
  BY <1>1, <1>2, <1>3, <1>4, <1>5, <1>6, <1>7, <1>9, <1>10, <1>12, <1>13 DEF Next

\* What the loop has written at its end is what the header says.
LEMMA SizeAtTheEnd ==
    ASSUME OptionsInv, OutputInv, SizeInv
    PROVE  SizeIsBytesWritten
<1> DEFINE excess == IF isCrypt THEN stdout.data_size % FrameSize
                     ELSE IF isSpeedUp /\ frames % Factor = 0 THEN FrameSize
                     ELSE 0
<1> SUFFICES ASSUME Succeeded, frames > 0, Factor > 0
             PROVE  Unsigned(Len(stdout.data)) = Unsigned(stdout.data_size - excess)
  BY DEF SizeIsBytesWritten
<1> DEFINE n == frames
           f == Factor
           fs == FrameSize
           d == stdout.data_size
           len == Len(stdout.data)
<1>1. i \in Nat /\ n \in Int /\ i >= n /\ i <= n /\ n > 0
      /\ d \in 0..(Word - 1) /\ SizeAnnounced /\ len = FramesWritten(i) * fs
  BY DEF Succeeded, SizeInv
<1>2. i = n
  BY <1>1
<1>3. fs \in Nat \ {0} /\ f \in Nat \ {0}
  BY FramesAreCounted, TransformationOptions DEF Succeeded
<1>4. Word \in Nat \ {0}
  BY WordIsPositive
<1>5. CASE isCrypt
  <2>1. len = n * fs /\ n = Signed(d \div fs) /\ excess = d % fs
    BY <1>1, <1>2, <1>5 DEF FramesWritten, SizeAnnounced
  <2> HIDE DEF n, f, fs, d, len, excess
  <2> DEFINE q == d \div fs
             r == d % fs
  <2>2. d = fs * q + r /\ q \in Int /\ r \in 0..(fs - 1) /\ d \in Nat
    BY <1>1, <1>3, Division
  <2>3. q \in 0..(Word - 1)
    <3>1. q \in Nat /\ q <= d
      BY <1>3, <2>2
    <3> QED
      BY <1>1, <1>4, <3>1
  <2>4. n = Signed(q) /\ excess = r
    BY <2>1
  <2> HIDE DEF q, r
  <2>5. n = q
    <3> DEFINE h == Word \div 2
    <3>1. h \in Nat /\ 2 * h <= Word /\ Word <= 2 * h + 1
      BY <1>4
    <3>2. n = ((q + h) % Word) - h
      BY <2>4 DEF Signed
    <3> HIDE DEF h
    <3>3. CASE q + h < Word
      <4>1. (q + h) % Word = q + h
        BY <1>4, <2>3, <3>1, <3>3
      <4> QED
        BY <2>3, <3>1, <3>2, <4>1
    <3>4. CASE q + h >= Word
      <4>1. (q + h) % Word = (q + h) - Word
        <5> DEFINE y == q + h
                   z == y - Word
        <5>1. y = 1 * Word + z /\ z \in 0..(Word - 1)
          BY <1>4, <2>3, <3>1, <3>4
        <5> HIDE DEF y, z
        <5>2. y % Word = z
          BY <1>4, <5>1, DivisionUnique
        <5> QED
          BY <5>2 DEF y, z
      <4>2. n < 0
        BY <1>4, <2>3, <3>1, <3>2, <4>1
      <4> QED
        BY <1>1, <4>2
    <3> QED
      BY <1>4, <2>3, <3>1, <3>3, <3>4
  <2>6. fs * q = q * fs /\ fs * q \in Int
    BY <1>3, <2>2
  <2>7. d - excess = n * fs
    <3> DEFINE m == fs * q
    <3>1. d = m + r /\ m \in Int /\ r \in Int /\ n * fs = m
      BY <1>3, <2>2, <2>5, <2>6
    <3> HIDE DEF m
    <3> QED
      BY <2>4, <3>1
  <2>8. len = d - excess
    BY <2>1, <2>7
  <2> QED
    BY <2>8 DEF len, d
<1>6. CASE ~isCrypt
  <2> DEFINE a == IF isSpeedUp THEN (n \div f + 1) * fs ELSE (n + (f - 1) * (n - 1)) * fs
             b == IF isSpeedUp /\ n % f = 0 THEN fs ELSE 0
  <2>1. a \in Int /\ b \in Int /\ d = Unsigned(a) /\ excess = b
    <3>1. isSpeedUp \/ (isSlowDown /\ ~isSpeedUp)
      BY <1>6, TransformationOptions DEF Succeeded
    <3>2. Quotient(n, f) = n \div f /\ n \div f \in Int
      BY <1>1, <1>3, QuotientIsNumber, Division
    <3>3. d = Unsigned(a)
      BY <1>1, <3>1, <3>2 DEF SizeAnnounced
    <3>4. excess = b
      BY <1>6
    <3> DEFINE q == n \div f
    <3>5. q \in Int /\ n \in Int /\ f \in Int /\ fs \in Int
      BY <1>1, <1>3, <3>2
    <3>6. (q + 1) * fs \in Int /\ (n + (f - 1) * (n - 1)) * fs \in Int
      <4> HIDE DEF q, n, f, fs
      <4>1. (f - 1) * (n - 1) \in Int
        BY <3>5
      <4> QED
        BY <3>5, <4>1
    <3> QED
      BY <3>3, <3>4, <3>5, <3>6
  <2>2. len = a - b
    <3>1. CASE isSpeedUp
      <4>1. len = ((n + (f - 1)) \div f) * fs
        BY <1>1, <1>2, <1>6, <3>1 DEF FramesWritten
      <4> DEFINE q == n \div f
                 r == n % f
      <4>2. q \in Int
        BY <1>1, <1>3, Division
      <4>3. (n + (f - 1)) \div f = q + (IF r = 0 THEN 0 ELSE 1)
        <5> HIDE DEF n, f
        <5>1. n \in Nat
          BY <1>1
        <5>2. (n + (f - 1)) \div f = (n \div f) + (IF n % f = 0 THEN 0 ELSE 1)
          BY <1>3, <5>1, CeilStep
        <5> QED
          BY <5>2
      <4>4. a = (q + 1) * fs /\ b = IF r = 0 THEN fs ELSE 0
        BY <3>1
      <4> HIDE DEF n, f, fs, len, a, b, q, r
      <4>5. (q + 1) * fs = q * fs + fs /\ q * fs \in Int /\ fs \in Int /\ (q + 0) * fs = q * fs
        BY <1>3, <4>2
      <4>6. CASE r = 0
        BY <4>1, <4>3, <4>4, <4>5, <4>6
      <4>7. CASE r # 0
        BY <4>1, <4>3, <4>4, <4>5, <4>7
      <4> QED
        BY <4>6, <4>7
    <3>2. CASE ~isSpeedUp
      <4>1. len = ((n - 1) * f + 1) * fs
        BY <1>1, <1>2, <1>6, <3>2 DEF FramesWritten
      <4>2. a = (n + (f - 1) * (n - 1)) * fs /\ b = 0
        BY <3>2
      <4>3. n \in Int /\ f \in Int /\ fs \in Int
        BY <1>1, <1>3
      <4> HIDE DEF n, f, fs, len, a, b
      <4>4. n + (f - 1) * (n - 1) = (n - 1) * f + 1
        BY <4>3
      <4>5. a \in Int
        BY <2>1
      <4> QED
        BY <4>1, <4>2, <4>4, <4>5
    <3> QED
      BY <3>1, <3>2
  <2> HIDE DEF a, b, n, f, fs, d, len, excess
  <2>3. Unsigned(d - excess) = Unsigned(a - b)
    BY <1>4, <2>1, WrapMinus DEF Unsigned
  <2> QED
    BY <2>2, <2>3 DEF len, d
<1> QED
  BY <1>5, <1>6

\* For a file with frames and a factor up to half of the largest, the size in the
\* header of the output is what follows it, but for one frame when a speed-up's
\* factor divides the frames, and the part of a frame at the end of an encrypted
\* file.
THEOREM SizesAreBytes == Spec => []SizeIsBytesWritten
BY OptionsInvInit, OptionsInvNext, OutputInvInit, OutputInvNext, SizeInvInit, SizeInvNext,
   SizeAtTheEnd, PTL DEF Spec

-----------------------------------------------------------------------------
(* Powers, bytes and the numbers that they make.                           *)

\* The powers of b follow their definition.
LEMMA PowerStep ==
    ASSUME NEW b \in Nat \ {0}
    PROVE  /\ Power(b, 0) = 1
           /\ \A n \in Nat : Power(b, n + 1) = b * Power(b, n)
<1> DEFINE Def(f, N) == f = [j \in 0..N |-> IF j = 0 THEN 1 ELSE b * f[j - 1]]
           p(N) == CHOOSE f : Def(f, N)
           Pos == Nat \ {0}
<1>1. ASSUME NEW N \in Nat PROVE Def(p(N), N) /\ Power(b, N) = p(N)[N]
  <2> DEFINE F == [y \in Pos \X (1..N) |-> b * y[1]]
  <2>1. ASSUME NEW h \in Pos PROVE b * h \in Pos
    OBVIOUS
  <2>2. Power(b, N) = p(N)[N]
    BY DEF Power
  <2> HIDE DEF Pos
  <2>3. StepsWithin(Pos, N, F)
    BY <2>1 DEF StepsWithin
  <2>o. 1 \in Pos
    BY DEF Pos
  <2>4. PICK f \in [0..N -> Pos] : FollowsSteps(f, N, 1, F)
    <3> HIDE DEF F
    <3> QED
      BY <2>o, <2>3, RecursionExists
  <2>5. ASSUME NEW j \in 1..N PROVE f[j] = b * f[j - 1]
    <3>1. <<f[j - 1], j>> \in Pos \X (1..N)
      OBVIOUS
    <3>2. f[j] = F[<<f[j - 1], j>>]
      BY <2>4 DEF FollowsSteps
    <3> QED
      BY <3>1, <3>2
  <2>6. Def(f, N)
    BY <2>4, <2>5 DEF FollowsSteps
  <2>7. Def(p(N), N)
    <3> HIDE DEF F, Def
    <3> QED
      BY <2>6
  <2> QED
    BY <2>2, <2>7
<1> HIDE DEF p
<1>2. ASSUME NEW M \in Nat, NEW N \in Nat, M <= N
      PROVE  \A j \in 0..M : p(M)[j] = p(N)[j]
  <2> DEFINE T == {j \in 0..M : p(M)[j] = p(N)[j]}
             f == p(M)
             g == p(N)
  <2>1. Def(f, M) /\ Def(g, N)
    BY <1>1
  <2>2. /\ f[0] = 1 /\ g[0] = 1
        /\ \A j \in 1..M : f[j] = b * f[j - 1] /\ g[j] = b * g[j - 1]
    <3> HIDE DEF f, g, T
    <3>1. 0 \in 0..M /\ 0 \in 0..N
      OBVIOUS
    <3>2. f[0] = 1 /\ g[0] = 1
      BY <2>1, <3>1
    <3>3. ASSUME NEW j \in 1..M PROVE f[j] = b * f[j - 1] /\ g[j] = b * g[j - 1]
      <4>1. j \in 0..M /\ j \in 0..N /\ j # 0
        BY <1>2
      <4> QED
        BY <2>1, <4>1
    <3> QED
      BY <3>2, <3>3
  <2>3. 0 \in T
    BY <2>2
  <2>4. ASSUME NEW j \in 1..M, j - 1 \in T PROVE j \in T
    BY <2>2, <2>4
  <2> HIDE DEF T
  <2>5. \A j \in 0..M : j \in T
    BY <2>3, <2>4, BoundedInduction
  <2> QED
    BY <2>5 DEF T
<1>3. Power(b, 0) = 1
  <2>1. Def(p(0), 0) /\ Power(b, 0) = p(0)[0]
    BY <1>1
  <2> QED
    BY <2>1
<1>4. ASSUME NEW n \in Nat PROVE Power(b, n + 1) = b * Power(b, n)
  <2> DEFINE m == n + 1
             f == p(m)
  <2>1. m \in Nat /\ Def(f, m) /\ Power(b, m) = f[m]
    <3>1. m \in Nat
      OBVIOUS
    <3> HIDE DEF m, Def
    <3> QED
      BY <1>1, <3>1
  <2>2. Power(b, n) = p(n)[n] /\ p(n)[n] = f[n]
    BY <1>1, <1>2
  <2> HIDE DEF f
  <2>3. f[m] = b * f[m - 1] /\ m - 1 = n
    BY <2>1
  <2> HIDE DEF m
  <2>4. Power(b, m) = b * Power(b, n)
    BY <2>1, <2>2, <2>3
  <2> QED
    BY <2>4 DEF m
<1> QED
  BY <1>3, <1>4

\* Powers of one number multiply to powers.
LEMMA PowerSum ==
    ASSUME NEW b \in Nat \ {0}, NEW m \in Nat
    PROVE  \A n \in Nat : Power(b, m + n) = Power(b, m) * Power(b, n)
<1> DEFINE T == {n \in Nat : Power(b, m + n) = Power(b, m) * Power(b, n)}
<1>1. \A n \in Nat : Power(b, n) \in Nat \ {0}
  BY PowerIsPositive
<1>2. Power(b, 0) = 1 /\ \A n \in Nat : Power(b, n + 1) = b * Power(b, n)
  BY PowerStep
<1>3. 0 \in T
  <2>1. Power(b, m) * 1 = Power(b, m) /\ m + 0 = m
    BY <1>1
  <2> QED
    BY <1>2, <2>1
<1>4. ASSUME NEW n \in Nat, n \in T PROVE n + 1 \in T
  <2> DEFINE x == Power(b, m)
             y == Power(b, n)
             z == Power(b, m + n)
  <2>1. z = x * y /\ x \in Nat /\ y \in Nat
    BY <1>1, <1>4
  <2>2. Power(b, m + (n + 1)) = b * z
    <3>1. m + (n + 1) = (m + n) + 1 /\ m + n \in Nat
      OBVIOUS
    <3> QED
      BY <1>2, <3>1
  <2>3. Power(b, n + 1) = b * y
    BY <1>2
  <2> HIDE DEF x, y, z
  <2>4. b * (x * y) = x * (b * y)
    BY <2>1
  <2>5. Power(b, m + (n + 1)) = x * Power(b, n + 1)
    BY <2>1, <2>2, <2>3, <2>4
  <2> QED
    BY <2>5 DEF x
<1> HIDE DEF T
<1>5. \A n \in Nat : n \in T
  BY <1>3, <1>4, SetInduction
<1> QED
  BY <1>5 DEF T

Bytes == 0..(Base - 1)

\* n bytes from position p.
AreBytes(data, p, n) == \A k \in 1..n : data[p + k] \in Bytes

SameBytes(data, p, other, q, n) == \A k \in 1..n : data[p + k] = other[q + k]

\* f[k] is the value of the first k of them.
FollowsBytes(f, data, p, n) ==
    f[0] = 0 /\ \A k \in 1..n : f[k] = f[k - 1] * Base + data[p + k]

IsValue(v, data, p, n) == \E f : FollowsBytes(f, data, p, n) /\ v = f[n]

\* Their value.
Value(data, p, n) == CHOOSE v : IsValue(v, data, p, n)

\* The value of no more bytes than there are powers.
LEMMA ValuesInRange ==
    ASSUME NEW n \in Nat, NEW p, NEW data, AreBytes(data, p, n), NEW f, FollowsBytes(f, data, p, n)
    PROVE  \A k \in 0..n : f[k] \in 0..(Power(Base, k) - 1)
<1> DEFINE T == {k \in 0..n : f[k] \in 0..(Power(Base, k) - 1)}
<1>1. Base \in Nat \ {0}
  BY WordIsPositive
<1>2. \A k \in Nat : Power(Base, k) \in Nat \ {0} /\ Power(Base, k + 1) = Base * Power(Base, k)
  BY <1>1, PowerIsPositive, PowerStep
<1>3. 0 \in T
  <2>1. Power(Base, 0) = 1 /\ f[0] = 0
    BY <1>1, PowerStep DEF FollowsBytes
  <2> QED
    BY <2>1
<1>4. ASSUME NEW k \in 1..n, k - 1 \in T PROVE k \in T
  <2> DEFINE P == Power(Base, k - 1)
             x == f[k - 1]
             d == data[p + k]
             b == Base
  <2>1. x \in 0..(P - 1) /\ P \in Nat \ {0} /\ d \in 0..(b - 1) /\ b \in Nat \ {0}
    BY <1>1, <1>2, <1>4 DEF AreBytes, Bytes
  <2>2. f[k] = x * b + d
    BY DEF FollowsBytes
  <2>3. Power(Base, k) = b * P
    <3>1. k - 1 \in Nat /\ (k - 1) + 1 = k
      OBVIOUS
    <3>2. Power(Base, (k - 1) + 1) = b * P
      BY <1>2, <3>1
    <3> QED
      BY <3>1, <3>2
  <2> HIDE DEF P, x, d, b, T
  <2>4. x * b + d \in 0..(b * P - 1)
    <3> DEFINE y == x * b
               z == b * P
    <3>1. x * b \in Nat /\ x * b <= (P - 1) * b
      BY <2>1
    <3>2. (P - 1) * b = b * P - b /\ b * P \in Int
      BY <2>1
    <3>3. y \in Nat /\ y <= z - b /\ z \in Int
      BY <3>1, <3>2
    <3> HIDE DEF y, z
    <3>4. y + d \in 0..(z - 1)
      BY <2>1, <3>3
    <3> QED
      BY <3>4 DEF y, z
  <2>5. k \in 0..n
    OBVIOUS
  <2> QED
    BY <2>2, <2>3, <2>4, <2>5 DEF T
<1> HIDE DEF T
<1>5. \A k \in 0..n : k \in T
  BY <1>3, <1>4, BoundedInduction
<1> QED
  BY <1>5 DEF T

\* Two sequences of n bytes have the same value only if they are the same.
LEMMA ValuesDiffer ==
    ASSUME NEW n \in Nat, NEW p, NEW data, AreBytes(data, p, n), NEW f, FollowsBytes(f, data, p, n),
           NEW q, NEW other, AreBytes(other, q, n), NEW g, FollowsBytes(g, other, q, n)
    PROVE  f[n] = g[n] <=> SameBytes(data, p, other, q, n)
<1> DEFINE Same(k) == f[k] = g[k]
<1>1. Base \in Nat \ {0}
  BY WordIsPositive
<1>2. \A k \in 0..n : f[k] \in Int /\ g[k] \in Int
  <2>1. ASSUME NEW k \in 0..n PROVE f[k] \in Int /\ g[k] \in Int
    <3>1. f[k] \in 0..(Power(Base, k) - 1) /\ g[k] \in 0..(Power(Base, k) - 1)
      BY ValuesInRange
    <3> QED
      BY <3>1
  <2> QED
    BY <2>1
<1>3. ASSUME NEW k \in 1..n
      PROVE  f[k] = g[k] <=> f[k - 1] = g[k - 1] /\ data[p + k] = other[q + k]
  <2> DEFINE x == f[k - 1]
             y == g[k - 1]
             d == data[p + k]
             e == other[q + k]
             b == Base
             u == f[k]
  <2>1. x \in Int /\ y \in Int
    BY <1>2
  <2>2. f[k] = x * b + d /\ g[k] = y * b + e
    BY DEF FollowsBytes
  <2>3. d \in 0..(b - 1) /\ e \in 0..(b - 1) /\ b \in Nat \ {0}
    BY <1>1 DEF AreBytes, Bytes
  <2> HIDE DEF x, y, d, e, b
  <2>4. ASSUME f[k] = g[k] PROVE x = y /\ d = e
    <3>1. u \div b = x /\ u % b = d
      <4>1. u = x * b + d
        BY <2>2
      <4> HIDE DEF u
      <4> QED
        BY <2>1, <2>3, <4>1, DivisionUnique
    <3>2. u \div b = y /\ u % b = e
      <4>1. u = y * b + e
        BY <2>2, <2>4
      <4> HIDE DEF u
      <4> QED
        BY <2>1, <2>3, <4>1, DivisionUnique
    <3> QED
      BY <3>1, <3>2
  <2>5. x = y /\ d = e => f[k] = g[k]
    BY <2>2
  <2> QED
    BY <2>4, <2>5 DEF x, y, d, e
<1>4. f[0] = 0 /\ g[0] = 0
  BY DEF FollowsBytes
<1>5. ASSUME \A k \in 1..n : data[p + k] = other[q + k] PROVE f[n] = g[n]
  <2> DEFINE T == {k \in 0..n : f[k] = g[k]}
  <2>1. 0 \in T
    BY <1>4
  <2>2. ASSUME NEW k \in 1..n, k - 1 \in T PROVE k \in T
    BY <1>3, <1>5, <2>2
  <2> HIDE DEF T
  <2>3. \A k \in 0..n : k \in T
    BY <2>1, <2>2, BoundedInduction
  <2> QED
    BY <2>3 DEF T
<1>6. ASSUME f[n] = g[n], NEW k \in 1..n PROVE data[p + k] = other[q + k]
  <2> DEFINE T == {j \in 0..n : f[n - j] = g[n - j]}
  <2>1. 0 \in T
    BY <1>6
  <2>2. ASSUME NEW j \in 1..n, j - 1 \in T PROVE j \in T
    <3> DEFINE m == n - (j - 1)
    <3>1. m \in 1..n /\ m - 1 = n - j /\ f[m] = g[m]
      BY <2>2
    <3>2. f[m - 1] = g[m - 1]
      <4> HIDE DEF m
      <4> QED
        BY <1>3, <3>1
    <3> QED
      BY <3>1, <3>2
  <2>3. \A j \in 0..n : j \in T
    <3> HIDE DEF T
    <3> QED
      BY <2>1, <2>2, BoundedInduction
  <2>4. n - k \in 0..n /\ n - (n - k) = k
    OBVIOUS
  <2>5. f[k] = g[k]
    BY <2>3, <2>4
  <2> QED
    BY <1>3, <2>5
<1> QED
  BY <1>5, <1>6 DEF SameBytes

\* Every sequence of n bytes has a value, the one that getStdinInt computes.
LEMMA GetStdinIntIs ==
    ASSUME NEW n \in Nat, NEW p \in Int, NEW data, AreBytes(data, p, n)
    PROVE  /\ IsValue(Value(data, p, n), data, p, n)
           /\ getStdinInt(data, p, n) =
                 IF p + n > Len(data) \/ Value(data, p, n) = Word - 1 THEN 0 ELSE Value(data, p, n)
<1> DEFINE F == [y \in Int \X (1..n) |-> y[1] * Base + data[p + y[2]]]
           Def(f) == f = [k \in 0..n |-> IF k = 0 THEN 0 ELSE f[k - 1] * Base + data[p + k]]
           h == CHOOSE f : Def(f)
<1>1. Base \in Nat \ {0}
  BY WordIsPositive
<1>2. \A k \in 1..n : data[p + k] \in Int
  BY DEF AreBytes, Bytes
<1>3. StepsWithin(Int, n, F)
  <2>1. ASSUME NEW x \in Int, NEW k \in 1..n PROVE x * Base + data[p + k] \in Int
    <3> DEFINE d == data[p + k]
               b == Base
    <3>1. d \in Int /\ b \in Int
      BY <1>1, <1>2
    <3> HIDE DEF d, b
    <3>2. x * b + d \in Int
      BY <3>1
    <3> QED
      BY <3>2 DEF d, b
  <2> QED
    BY <2>1 DEF StepsWithin
<1>o. 0 \in Int
  OBVIOUS
<1>4. PICK f \in [0..n -> Int] : FollowsSteps(f, n, 0, F)
  <2> HIDE DEF F
  <2> QED
    BY <1>o, <1>3, RecursionExists, Zenon
<1>5. ASSUME NEW k \in 1..n PROVE f[k] = f[k - 1] * Base + data[p + k]
  <2>1. <<f[k - 1], k>> \in Int \X (1..n)
    OBVIOUS
  <2>2. f[k] = F[<<f[k - 1], k>>]
    BY <1>4 DEF FollowsSteps
  <2> QED
    BY <2>1, <2>2
<1>6. Def(f)
  BY <1>4, <1>5 DEF FollowsSteps
<1>7. Def(h)
  <2> HIDE DEF Def, F
  <2> QED
    BY <1>6
<1>8. FollowsBytes(h, data, p, n)
  <2> HIDE DEF h
  <2> QED
    BY <1>7 DEF FollowsBytes
<1>9. getStdinInt(data, p, n) = IF p + n > Len(data) \/ h[n] = Word - 1 THEN 0 ELSE h[n]
  BY DEF getStdinInt
<1> HIDE DEF h, F, Def
<1>10. IsValue(Value(data, p, n), data, p, n)
  <2>1. IsValue(h[n], data, p, n)
    BY <1>8 DEF IsValue
  <2> QED
    BY <2>1 DEF Value
<1>11. Value(data, p, n) = h[n]
  <2>1. PICK g : FollowsBytes(g, data, p, n) /\ Value(data, p, n) = g[n]
    BY <1>10 DEF IsValue
  <2> QED
    BY <1>8, <2>1, ValuesDiffer
<1> QED
  BY <1>9, <1>10, <1>11

\* A value and its bytes.
LEMMA ValueIsInRange ==
    ASSUME NEW n \in Nat, NEW p \in Int, NEW data, AreBytes(data, p, n)
    PROVE  Value(data, p, n) \in 0..(Power(Base, n) - 1)
<1>1. PICK f : FollowsBytes(f, data, p, n) /\ Value(data, p, n) = f[n]
  BY GetStdinIntIs DEF IsValue
<1>2. n \in 0..n
  OBVIOUS
<1> QED
  BY <1>1, <1>2, ValuesInRange

LEMMA ValueIsItsBytes ==
    ASSUME NEW n \in Nat, NEW p \in Int, NEW data, AreBytes(data, p, n),
           NEW q \in Int, NEW other, AreBytes(other, q, n)
    PROVE  Value(data, p, n) = Value(other, q, n) <=> SameBytes(data, p, other, q, n)
<1>1. PICK f : FollowsBytes(f, data, p, n) /\ Value(data, p, n) = f[n]
  BY GetStdinIntIs DEF IsValue
<1>2. PICK g : FollowsBytes(g, other, q, n) /\ Value(other, q, n) = g[n]
  BY GetStdinIntIs DEF IsValue
<1>3. f[n] = g[n] <=> SameBytes(data, p, other, q, n)
  BY <1>1, <1>2, ValuesDiffer
<1> QED
  BY <1>1, <1>2, <1>3

\* The bytes from position p are those that putByteInt writes of x.
WrittenAs(data, p, n, x) == \A k \in 1..n : data[p + k] = putByteInt(x, n)[k]

\* What putByteInt writes are bytes, and their value is x without the bits that
\* do not fit.
LEMMA ValueOfWritten ==
    ASSUME NEW n \in Nat, NEW p \in Int, NEW data, NEW x \in Int, WrittenAs(data, p, n, x)
    PROVE  AreBytes(data, p, n) /\ Value(data, p, n) = x % Power(Base, n)
<1> DEFINE D(k) == x \div Power(Base, k)
           P(k) == Power(Base, k)
           b == Base
<1>1. b \in Nat \ {0}
  BY WordIsPositive
<1>2. \A k \in Nat : P(k) \in Nat \ {0} /\ P(k + 1) = b * P(k)
  BY <1>1, PowerIsPositive, PowerStep
<1>3. P(0) = 1
  BY <1>1, PowerStep
<1>4. \A k \in Nat : D(k) \in Int
  <2>1. ASSUME NEW k \in Nat PROVE D(k) \in Int
    <3>1. P(k) \in Nat \ {0}
      BY <1>2
    <3> QED
      BY <3>1, Division
  <2> QED
    BY <2>1
<1>5. ASSUME NEW k \in 1..n PROVE data[p + k] = D(n - k) % b
  <2>1. data[p + k] = putByteInt(x, n)[k]
    BY DEF WrittenAs
  <2> QED
    BY <2>1 DEF putByteInt
<1>6. ASSUME NEW k \in Nat PROVE D(k + 1) = D(k) \div b /\ D(k) = b * D(k + 1) + (D(k) % b)
  <2> DEFINE c == P(k)
             e == D(k)
  <2>1. c \in Nat \ {0} /\ e \in Int
    BY <1>2, <1>4
  <2>2. P(k + 1) = c * b
    <3>1. P(k + 1) = b * c
      BY <1>2
    <3> HIDE DEF P, c, b
    <3>2. b * c = c * b
      BY <1>1, <2>1
    <3> QED
      BY <3>1, <3>2
  <2>3. x \div (c * b) = (x \div c) \div b
    <3> HIDE DEF c, b
    <3> QED
      BY <1>1, <2>1, DivisionTwice
  <2>4. D(k + 1) = e \div b
    BY <2>2, <2>3
  <2>5. e = b * (e \div b) + (e % b)
    <3> HIDE DEF e, b
    <3> QED
      BY <1>1, <2>1, Division
  <2> QED
    BY <2>4, <2>5
<1> HIDE DEF D, P, b
<1>7. AreBytes(data, p, n)
  <2>1. ASSUME NEW k \in 1..n PROVE data[p + k] \in 0..(b - 1)
    <3> DEFINE e == D(n - k)
    <3>1. n - k \in Nat
      OBVIOUS
    <3>2. e \in Int
      BY <1>4, <3>1
    <3>3. e % b \in 0..(b - 1)
      <4> HIDE DEF e
      <4> QED
        BY <1>1, <3>2, Division
    <3> QED
      BY <1>5, <3>3
  <2> QED
    BY <2>1 DEF AreBytes, Bytes, b
<1>8. PICK f : FollowsBytes(f, data, p, n) /\ Value(data, p, n) = f[n]
  BY <1>7, GetStdinIntIs DEF IsValue
<1>9. \A k \in 0..n : f[k] \in 0..(P(k) - 1)
  BY <1>7, <1>8, ValuesInRange DEF P
<1>10. \A k \in 0..n : D(n - k) = D(n) * P(k) + f[k]
  <2> DEFINE T == {k \in 0..n : D(n - k) = D(n) * P(k) + f[k]}
  <2>1. 0 \in T
    <3>1. f[0] = 0 /\ n - 0 = n /\ D(n) \in Int
      BY <1>4, <1>8 DEF FollowsBytes
    <3>2. D(n) * 1 + 0 = D(n)
      BY <3>1
    <3> QED
      BY <1>3, <3>1, <3>2
  <2>2. ASSUME NEW k \in 1..n, k - 1 \in T PROVE k \in T
    <3> DEFINE m == n - k
               e == D(m)
               g == D(m + 1)
               h == D(n)
               q == P(k - 1)
               y == f[k - 1]
               d == e % b
    <3>1. m \in Nat /\ m + 1 = n - (k - 1) /\ k - 1 \in Nat /\ (k - 1) + 1 = k
      OBVIOUS
    <3>2. g = h * q + y
      BY <2>2, <3>1
    <3>3. e = b * g + d
      BY <1>6, <3>1
    <3>4. P(k) = b * q /\ q \in Nat
      BY <1>2, <3>1
    <3>5. f[k] = y * b + d
      <4>1. f[k] = y * b + data[p + k]
        BY <1>8 DEF FollowsBytes, b
      <4> QED
        BY <1>5, <4>1
    <3>6. h \in Int /\ g \in Int /\ y \in Int /\ e \in Int
      BY <1>4, <1>9, <3>1
    <3>7. d \in Int
      <4> HIDE DEF e
      <4>1. e % b \in Int
        BY <1>1, <3>6, Division
      <4> QED
        BY <4>1
    <3> HIDE DEF m, e, g, h, q, y, d
    <3>8. e = h * (b * q) + (y * b + d)
      <4>1. b * g = h * (b * q) + y * b
        BY <1>1, <3>2, <3>4, <3>6
      <4> DEFINE u == b * g
                 v == h * (b * q)
                 w == y * b
      <4>2. u \in Int /\ v \in Int /\ w \in Int /\ u = v + w /\ e = u + d
        BY <1>1, <3>3, <3>4, <3>6, <4>1
      <4> HIDE DEF u, v, w
      <4>3. e = v + (w + d)
        BY <3>7, <4>2
      <4> QED
        BY <4>3 DEF v, w
    <3>9. k \in 0..n
      OBVIOUS
    <3> QED
      BY <3>4, <3>5, <3>8, <3>9 DEF m, e, h
  <2> HIDE DEF T
  <2>3. \A k \in 0..n : k \in T
    BY <2>1, <2>2, BoundedInduction
  <2> QED
    BY <2>3 DEF T
<1>11. x = D(n) * P(n) + f[n]
  <2>1. D(n - n) = D(n) * P(n) + f[n] /\ n - n = 0
    BY <1>10
  <2>2. D(0) = x
    BY <1>3 DEF D, P
  <2> QED
    BY <2>1, <2>2
<1>12. x % P(n) = f[n]
  <2> DEFINE u == P(n)
             e == D(n)
             r == f[n]
  <2>1. u \in Nat \ {0} /\ e \in Int /\ r \in 0..(u - 1) /\ x = e * u + r
    BY <1>2, <1>4, <1>9, <1>11
  <2> HIDE DEF u, e, r
  <2>2. x % u = r
    BY <2>1, DivisionUnique
  <2> QED
    BY <2>2 DEF u, r
<1> QED
  BY <1>7, <1>8, <1>12 DEF P

\* Bytes of ones have the largest value.
LEMMA ValueOfOnes ==
    ASSUME NEW n \in Nat, NEW p \in Int, NEW data, \A k \in 1..n : data[p + k] = Base - 1
    PROVE  AreBytes(data, p, n) /\ Value(data, p, n) = Power(Base, n) - 1
<1> DEFINE b == Base
<1>1. b \in Nat \ {0}
  BY WordIsPositive
<1>2. \A k \in Nat : Power(Base, k) \in Nat \ {0} /\ Power(Base, k + 1) = b * Power(Base, k)
  BY <1>1, PowerIsPositive, PowerStep
<1>3. AreBytes(data, p, n)
  BY <1>1 DEF AreBytes, Bytes
<1>4. PICK f : FollowsBytes(f, data, p, n) /\ Value(data, p, n) = f[n]
  BY <1>3, GetStdinIntIs DEF IsValue
<1> DEFINE T == {k \in 0..n : f[k] = Power(Base, k) - 1}
<1>5. 0 \in T
  <2>1. Power(Base, 0) = 1 /\ f[0] = 0
    BY <1>1, <1>4, PowerStep DEF FollowsBytes
  <2> QED
    BY <2>1
<1>6. ASSUME NEW k \in 1..n, k - 1 \in T PROVE k \in T
  <2> DEFINE q == Power(Base, k - 1)
             y == f[k - 1]
  <2>1. k - 1 \in Nat /\ (k - 1) + 1 = k
    OBVIOUS
  <2>2. Power(Base, k) = b * q /\ q \in Nat
    <3>1. Power(Base, (k - 1) + 1) = b * q /\ q \in Nat
      BY <1>2, <2>1
    <3> QED
      BY <2>1, <3>1
  <2>3. f[k] = y * b + (b - 1) /\ y = q - 1
    BY <1>4, <1>6 DEF FollowsBytes
  <2> HIDE DEF q, y, b
  <2>4. (q - 1) * b + (b - 1) = b * q - 1
    BY <1>1, <2>2
  <2>5. f[k] = Power(Base, k) - 1
    BY <2>2, <2>3, <2>4
  <2> QED
    BY <2>5
<1> HIDE DEF T
<1>7. \A k \in 0..n : k \in T
  BY <1>5, <1>6, BoundedInduction
<1>8. n \in T
  BY <1>7
<1> QED
  BY <1>3, <1>4, <1>8 DEF T

\* The numbers of n bytes with a sign.
IsSigned(x, n) ==
    x \in Int /\ x < Power(Base, n) \div 2 /\ -x <= Power(Base, n) - Power(Base, n) \div 2

LEMMA SignExtendIs ==
    ASSUME NEW n \in Nat, NEW v \in 0..(Power(Base, n) - 1)
    PROVE  IsSigned(signExtend(v, n), n) /\ signExtend(v, n) % Power(Base, n) = v
<1> DEFINE P == Power(Base, n)
           h == P \div 2
           x == signExtend(v, n)
<1>1. P \in Nat \ {0}
  BY WordIsPositive, PowerIsPositive
<1>2. x = IF v < h THEN v ELSE v - P
  BY DEF signExtend
<1>3. v \in 0..(P - 1)
  OBVIOUS
<1> SUFFICES (x \in Int /\ x < h /\ -x <= P - h) /\ x % P = v
  BY DEF IsSigned
<1> HIDE DEF P, x
<1>4. h \in Nat /\ 2 * h <= P
  BY <1>1
<1> HIDE DEF h
<1>5. x \in Int /\ x < h /\ -x <= P - h
  BY <1>1, <1>2, <1>3, <1>4
<1>6. x % P = v
  <2>1. PICK m \in {0, -1} : x = m * P + v
    BY <1>1, <1>2, <1>3
  <2>2. m \in Int
    OBVIOUS
  <2> QED
    BY <1>1, <1>3, <2>1, <2>2, DivisionUnique
<1> QED
  BY <1>5, <1>6

LEMMA SignExtendOf ==
    ASSUME NEW n \in Nat, NEW x, IsSigned(x, n)
    PROVE  signExtend(x % Power(Base, n), n) = x
<1> DEFINE P == Power(Base, n)
           h == P \div 2
           v == x % P
           y == signExtend(v, n)
<1>1. P \in Nat \ {0}
  BY WordIsPositive, PowerIsPositive
<1>2. y = IF v < h THEN v ELSE v - P
  BY DEF signExtend
<1>3. x \in Int /\ x < h /\ -x <= P - h
  BY DEF IsSigned
<1>4. h \in Nat /\ 2 * h <= P
  <2> HIDE DEF P
  <2> QED
    BY <1>1
<1> HIDE DEF P, h, y
<1>5. CASE x >= 0
  <2> DEFINE m == 0
             r == x
  <2>1. x = m * P + r /\ r \in 0..(P - 1) /\ m \in Int
    BY <1>1, <1>3, <1>4, <1>5
  <2> HIDE DEF r, m
  <2>2. v = r
    BY <1>1, <2>1, DivisionUnique
  <2> QED
    BY <1>2, <1>3, <2>2 DEF y, v, P, r
<1>6. CASE x < 0
  <2> DEFINE r == x + P
             m == -1
  <2>1. x = m * P + r /\ r \in 0..(P - 1) /\ r >= h /\ m \in Int
    BY <1>1, <1>3, <1>4, <1>6
  <2> HIDE DEF r, m
  <2>2. v = r
    BY <1>1, <2>1, DivisionUnique
  <2> HIDE DEF v
  <2>3. y = r - P
    BY <1>1, <1>2, <1>4, <2>1, <2>2
  <2>4. y = x
    BY <1>1, <1>3, <2>3 DEF r
  <2> QED
    BY <2>4 DEF y, v, P
<1> QED
  BY <1>3, <1>5, <1>6

\* The sizes of bytes and ints.
LEMMA WidthsOfInts ==
    /\ Base \in Nat \ {0, 1} /\ Base = 2 * (Base \div 2) /\ Base \div 2 \in Nat \ {0}
    /\ Word \in Nat \ {0, 1} /\ Word = 2 * (Word \div 2)
    /\ \A n \in 0..4 : /\ Power(Base, n) \in Nat \ {0}
                       /\ Power(Base, 4 - n) \in Nat \ {0}
                       /\ Word = Power(Base, n) * Power(Base, 4 - n)
<1> DEFINE h == Power(2, ByteBits - 1)
           b == Base
           P3 == Power(Base, 3)
<1>1. ByteBits \in Nat /\ ByteBits - 1 \in Nat /\ (ByteBits - 1) + 1 = ByteBits
  BY BytesHaveBits
<1>2. h \in Nat \ {0}
  BY <1>1, PowerIsPositive
<1>3. b = 2 * h
  <2>1. Power(2, (ByteBits - 1) + 1) = 2 * h
    BY <1>1, PowerStep
  <2> QED
    BY <1>1, <2>1 DEF Base
<1> HIDE DEF h, b
<1>4. b \in Nat \ {0, 1} /\ b = 2 * (b \div 2) /\ b \div 2 \in Nat \ {0}
  <2>1. b \div 2 = h
    BY <1>2, <1>3
  <2> QED
    BY <1>2, <1>3, <2>1
<1>5. P3 \in Nat \ {0}
  BY <1>4, PowerIsPositive DEF b
<1>6. Word = b * P3
  <2>1. Power(Base, 3 + 1) = Base * Power(Base, 3)
    BY <1>4, PowerStep DEF b
  <2>2. 3 + 1 = 4
    OBVIOUS
  <2> QED
    BY <2>1, <2>2 DEF Word, b
<1> HIDE DEF P3
<1>7. Word \in Nat \ {0, 1} /\ Word = 2 * (Word \div 2)
  <2> DEFINE y == h * P3
  <2>1. y \in Nat \ {0}
    <3>1. h * P3 \in Nat /\ h * P3 # 0
      BY <1>2, <1>5
    <3> QED
      BY <3>1
  <2>2. Word = 2 * y
    <3>1. (2 * h) * P3 = 2 * (h * P3)
      BY <1>2, <1>5
    <3> QED
      BY <1>3, <1>6, <3>1
  <2> HIDE DEF y
  <2> QED
    BY <2>1, <2>2
<1>8. ASSUME NEW n \in 0..4
      PROVE  /\ Power(Base, n) \in Nat \ {0} /\ Power(Base, 4 - n) \in Nat \ {0}
             /\ Word = Power(Base, n) * Power(Base, 4 - n)
  <2>1. n \in Nat /\ 4 - n \in Nat /\ n + (4 - n) = 4
    OBVIOUS
  <2>2. Power(Base, n) \in Nat \ {0} /\ Power(Base, 4 - n) \in Nat \ {0}
    BY <1>4, <2>1, PowerIsPositive DEF b
  <2>3. Power(Base, n + (4 - n)) = Power(Base, n) * Power(Base, 4 - n)
    <3> DEFINE m == 4 - n
    <3>1. m \in Nat
      BY <2>1
    <3> HIDE DEF m
    <3>2. Power(Base, n + m) = Power(Base, n) * Power(Base, m)
      BY <1>4, <2>1, <3>1, PowerSum DEF b
    <3> QED
      BY <3>2 DEF m
  <2> QED
    BY <2>1, <2>2, <2>3 DEF Word
<1> QED
  BY <1>4, <1>7, <1>8 DEF b

\* A sequence of bytes.
IsData(data) == data \in Seq(Bytes)

\* What the sample q of the data is read as, w bytes wide.
SampleOf(data, w, q) == signExtend(getStdinInt(data, q * w, w), w)

\* The value of a sample as getStdinInt returns it.
Taken(v) == IF v = Word - 1 THEN 0 ELSE v

LEMMA SampleRead ==
    ASSUME NEW w \in 1..4, NEW q \in Nat, NEW data, IsData(data), q * w + w <= Len(data)
    PROVE  /\ AreBytes(data, q * w, w)
           /\ SampleOf(data, w, q) = signExtend(Taken(Value(data, q * w, w)), w)
<1> DEFINE p == q * w
<1>1. p \in Nat /\ w \in Nat
  OBVIOUS
<1>2. p + w <= Len(data) /\ data \in Seq(Bytes)
  BY DEF IsData
<1> HIDE DEF p
<1>3. AreBytes(data, p, w)
  <2>1. ASSUME NEW k \in 1..w PROVE data[p + k] \in Bytes
    <3>1. p + k \in 1..Len(data)
      BY <1>1, <1>2
    <3> QED
      BY <1>2, <3>1
  <2> QED
    BY <2>1 DEF AreBytes
<1>4. getStdinInt(data, p, w) = Taken(Value(data, p, w))
  <2>1. getStdinInt(data, p, w) =
           IF p + w > Len(data) \/ Value(data, p, w) = Word - 1 THEN 0 ELSE Value(data, p, w)
    BY <1>1, <1>3, GetStdinIntIs
  <2>2. ~(p + w > Len(data))
    <3> DEFINE l == Len(data)
    <3>1. l \in Nat /\ p + w <= l
      BY <1>2
    <3> HIDE DEF l
    <3>2. ~(p + w > l)
      BY <1>1, <3>1
    <3> QED
      BY <3>2 DEF l
  <2> QED
    BY <2>1, <2>2 DEF Taken
<1> QED
  BY <1>3, <1>4 DEF SampleOf, p

\* A sample fits its bytes, and is not the one that reads as the end of the file.
LEMMA SampleFits ==
    ASSUME NEW w \in 1..4, NEW q \in Nat, NEW data, IsData(data)
    PROVE  /\ IsSigned(SampleOf(data, w, q), w)
           /\ SampleOf(data, w, q) % Power(Base, w) # Word - 1
<1> DEFINE p == q * w
           g == getStdinInt(data, p, w)
           P == Power(Base, w)
<1>1. p \in Nat /\ w \in Nat
  OBVIOUS
<1>2. P \in Nat \ {0} /\ Word \in Nat \ {0, 1}
  BY WidthsOfInts
<1>3. g \in 0..(P - 1) /\ g # Word - 1
  <2>1. CASE p + w > Len(data)
    <3>1. g = 0
      BY <2>1 DEF getStdinInt
    <3> QED
      BY <1>2, <3>1
  <2>2. CASE ~(p + w > Len(data))
    <3>1. AreBytes(data, p, w)
      <4> DEFINE l == Len(data)
      <4>1. l \in Nat /\ data \in Seq(Bytes)
        BY DEF IsData
      <4>2. ~(p + w > l)
        BY <2>2
      <4>3. ASSUME NEW k \in 1..w PROVE data[p + k] \in Bytes
        <5>1. p + k \in 1..Len(data)
          <6> HIDE DEF p, l
          <6>1. p + k \in 1..l
            BY <1>1, <4>1, <4>2
          <6> QED
            BY <6>1 DEF l
        <5> QED
          BY <4>1, <5>1
      <4> QED
        BY <4>3 DEF AreBytes
    <3>2. Value(data, p, w) \in 0..(P - 1)
      BY <1>1, <3>1, ValueIsInRange
    <3>3. g = IF p + w > Len(data) \/ Value(data, p, w) = Word - 1 THEN 0 ELSE Value(data, p, w)
      BY <1>1, <3>1, GetStdinIntIs
    <3> HIDE DEF p, g, P
    <3> QED
      BY <1>2, <3>2, <3>3
  <2> QED
    BY <2>1, <2>2
<1> HIDE DEF g
<1>4. IsSigned(signExtend(g, w), w) /\ signExtend(g, w) % P = g
  BY <1>1, <1>3, SignExtendIs DEF P
<1> QED
  BY <1>3, <1>4 DEF SampleOf, g

\* What putByteInt has written is read again.
LEMMA SampleWritten ==
    ASSUME NEW w \in 1..4, NEW q \in Nat, NEW data, IsData(data), q * w + w <= Len(data),
           NEW x, IsSigned(x, w), x % Power(Base, w) # Word - 1, WrittenAs(data, q * w, w, x)
    PROVE  SampleOf(data, w, q) = x
<1>1. SampleOf(data, w, q) = signExtend(Taken(Value(data, q * w, w)), w)
  BY SampleRead
<1>2. Value(data, q * w, w) = x % Power(Base, w)
  <2>1. q * w \in Int /\ w \in Nat /\ x \in Int
    BY DEF IsSigned
  <2> QED
    BY <2>1, ValueOfWritten
<1>3. Taken(Value(data, q * w, w)) = x % Power(Base, w)
  BY <1>2 DEF Taken
<1>4. signExtend(x % Power(Base, w), w) = x
  BY SignExtendOf
<1> QED
  BY <1>1, <1>3, <1>4

\* A sample cut out of the data is decoded as it is read.
LEMMA DecodedIsSample ==
    ASSUME NEW w \in 1..4, NEW q \in Nat, NEW data, IsData(data), q * w + w <= Len(data)
    PROVE  /\ SubSeq(data, q * w + 1, q * w + w) \in [1..w -> Bytes]
           /\ \A k \in 1..w : SubSeq(data, q * w + 1, q * w + w)[k] = data[q * w + k]
           /\ Decoded(SubSeq(data, q * w + 1, q * w + w)) = SampleOf(data, w, q)
<1> DEFINE p == q * w
           t == SubSeq(data, p + 1, p + w)
<1>1. p \in Nat /\ w \in Nat
  OBVIOUS
<1>2. p + w <= Len(data) /\ data \in Seq(Bytes) /\ AreBytes(data, p, w)
  BY SampleRead DEF IsData
<1> SUFFICES /\ t \in [1..w -> Bytes]
             /\ \A k \in 1..w : t[k] = data[p + k]
             /\ Decoded(t) = SampleOf(data, w, q)
  OBVIOUS
<1> HIDE DEF p, t
<1>3. /\ t \in Seq(Bytes)
      /\ Len(t) = w
      /\ \A k \in 1..w : t[k] = data[p + k]
  <2> DEFINE a == p + 1
             b == p + w
  <2>1. \A k \in a..b : data[k] \in Bytes
    <3>1. ASSUME NEW k \in a..b PROVE data[k] \in Bytes
      <4>1. k \in 1..Len(data)
        BY <1>1, <1>2
      <4> QED
        BY <1>2, <4>1
    <3> QED
      BY <3>1
  <2>2. a \in Int /\ b \in Int /\ a <= b + 1 /\ b - a + 1 = w
    BY <1>1
  <2>3. t = SubSeq(data, a, b)
    BY DEF t
  <2>4. \A k \in 1..w : a + k - 1 = p + k
    BY <1>1
  <2>5. a <= b
    BY <1>1
  <2> HIDE DEF a, b
  <2>6. /\ t \in Seq(Bytes)
        /\ Len(t) = IF a <= b THEN b - a + 1 ELSE 0
        /\ \A k \in 1..(b - a + 1) : t[k] = data[a + k - 1]
    BY <2>1, <2>2, <2>3, SubSeqProperties
  <2> QED
    BY <2>2, <2>4, <2>5, <2>6
<1>4. t \in [1..w -> Bytes]
  BY <1>1, <1>3
<1> DEFINE z == 0
<1>5. AreBytes(t, z, w) /\ SameBytes(t, z, data, p, w)
  <2>1. \A k \in 1..w : z + k = k
    OBVIOUS
  <2> HIDE DEF z
  <2> QED
    BY <1>3, <1>4, <2>1 DEF AreBytes, SameBytes
<1>6. z \in Nat /\ ~(z + w > Len(t))
  BY <1>3
<1>7. Decoded(t) = signExtend(getStdinInt(t, z, w), w)
  BY <1>3 DEF Decoded
<1> HIDE DEF z
<1>8. Value(t, z, w) = Value(data, p, w)
  BY <1>1, <1>2, <1>5, <1>6, ValueIsItsBytes
<1>9. getStdinInt(t, z, w) = Taken(Value(data, p, w))
  <2>1. getStdinInt(t, z, w) =
           IF z + w > Len(t) \/ Value(t, z, w) = Word - 1 THEN 0 ELSE Value(t, z, w)
    BY <1>1, <1>5, <1>6, GetStdinIntIs
  <2> QED
    BY <1>6, <1>8, <2>1 DEF Taken
<1>10. SampleOf(data, w, q) = signExtend(Taken(Value(data, p, w)), w)
  BY SampleRead DEF p
<1> QED
  BY <1>3, <1>4, <1>7, <1>9, <1>10

-----------------------------------------------------------------------------
(* Frames, and the bytes that they are written as.                         *)

\* Byte k of data that consists of the frames G[0], G[1] and so on.
FrameByte(frame, w, k) == putByteInt(frame[((k - 1) \div w) + 1], w)[((k - 1) % w) + 1]
ByteOf(G, w, ch, k) == FrameByte(G[(k - 1) \div (ch * w)], w, ((k - 1) % (ch * w)) + 1)

\* The data begins with the frames of G.
Holds(data, G, w, ch) == \A k \in 1..Len(data) : data[k] = ByteOf(G, w, ch, k)

\* Frame f of the data.
FrameOf(data, w, ch, f) == [c \in 1..ch |-> SampleOf(data, w, f * ch + (c - 1))]

LEMMA FramesHeld ==
    ASSUME NEW data, IsSequence(data), NEW G, NEW w, NEW ch, Holds(data, G, w, ch),
           NEW more, IsSequence(more),
           \A k \in 1..Len(more) : more[k] = ByteOf(G, w, ch, Len(data) + k)
    PROVE  Holds(data \o more, G, w, ch)
<1>1. PICK E : data \in Seq(E)
  BY DEF IsSequence
<1>2. PICK F : more \in Seq(F)
  BY DEF IsSequence
<1> DEFINE D == E \cup F
           m == Len(data)
           n == Len(more)
           both == data \o more
<1>3. data \in Seq(D) /\ more \in Seq(D)
  BY <1>1, <1>2, SeqMonotonic
<1>4. m \in Nat /\ n \in Nat
  BY <1>3, LenProperties
<1> HIDE DEF D
<1>5. /\ Len(both) = m + n
      /\ \A k \in 1..(m + n) : both[k] = IF k <= m THEN data[k] ELSE more[k - m]
  BY <1>3, ConcatProperties
<1>6. \A k \in 1..m : data[k] = ByteOf(G, w, ch, k)
  BY DEF Holds
<1> HIDE DEF m, n, both
<1>7. ASSUME NEW k \in 1..(m + n) PROVE both[k] = ByteOf(G, w, ch, k)
  <2>1. CASE k <= m
    <3>1. k \in 1..m
      BY <2>1
    <3> QED
      BY <1>5, <1>6, <2>1, <3>1
  <2>2. CASE ~(k <= m)
    <3>1. k - m \in 1..n /\ m + (k - m) = k
      BY <1>4, <2>2
    <3>2. more[k - m] = ByteOf(G, w, ch, m + (k - m))
      BY <3>1 DEF m, n
    <3> QED
      BY <1>5, <2>2, <3>1, <3>2
  <2> QED
    BY <2>1, <2>2
<1> QED
  BY <1>5, <1>7 DEF Holds, both

\* The place of byte k of frame f: the bytes of a frame follow each other.
PlaceOf(place, f, k, w, ch) ==
    w \in 1..4 /\ ch \in {1, 2} /\ f \in Nat /\ k \in 1..(ch * w) /\ place = f * (ch * w) + k

LEMMA ByteOfPlace ==
    ASSUME NEW w, NEW ch, NEW f, NEW k, NEW place, PlaceOf(place, f, k, w, ch), NEW G
    PROVE  ByteOf(G, w, ch, place) = FrameByte(G[f], w, k)
<1> DEFINE fs == ch * w
           x == f * fs + k
           y == x - 1
           r == k - 1
<1>0. w \in 1..4 /\ ch \in {1, 2} /\ f \in Nat /\ k \in 1..fs /\ place = x
  BY DEF PlaceOf
<1>1. fs \in Nat \ {0}
  BY <1>0
<1>2. r \in 0..(fs - 1) /\ r + 1 = k
  BY <1>0
<1>3. y = f * fs + r
  <2> DEFINE z == f * fs
  <2>1. z \in Nat /\ k \in Int /\ y = (z + k) - 1 /\ r = k - 1
    BY <1>0, <1>1
  <2> HIDE DEF z, y, r
  <2>2. y = z + r
    BY <2>1
  <2> QED
    BY <2>2 DEF z
<1>4. ByteOf(G, w, ch, x) = FrameByte(G[y \div fs], w, (y % fs) + 1)
  BY DEF ByteOf
<1> HIDE DEF fs, x, y, r
<1>5. y \div fs = f /\ y % fs = r
  <2>1. f \in Int
    BY <1>0
  <2> QED
    BY <1>1, <1>2, <1>3, <2>1, DivisionUnique
<1> QED
  BY <1>0, <1>2, <1>4, <1>5

\* And so do the bytes of a sample.
LEMMA ByteOfSample ==
    ASSUME NEW w \in 1..4, NEW c \in 1..2, NEW frame, NEW j \in 1..w
    PROVE  FrameByte(frame, w, (c - 1) * w + j) = putByteInt(frame[c], w)[j]
<1> DEFINE q == c - 1
           x == q * w + j
           y == x - 1
           r == j - 1
<1>1. r \in 0..(w - 1) /\ r + 1 = j /\ q \in Nat /\ q + 1 = c /\ w \in Nat \ {0}
  OBVIOUS
<1>2. y = q * w + r
  <2> DEFINE z == q * w
  <2>1. z \in Nat
    OBVIOUS
  <2> HIDE DEF z
  <2> QED
    BY <2>1
<1>3. FrameByte(frame, w, x) = putByteInt(frame[(y \div w) + 1], w)[(y % w) + 1]
  BY DEF FrameByte
<1> HIDE DEF x, y, r, q
<1>4. y \div w = q /\ y % w = r
  BY <1>1, <1>2, DivisionUnique
<1> QED
  BY <1>1, <1>3, <1>4 DEF x, q

\* So every sample is where it belongs.
LEMMA SampleHeld ==
    ASSUME NEW w \in 1..4, NEW ch \in {1, 2}, NEW G, NEW data, IsSequence(data), Holds(data, G, w, ch),
           NEW f \in Nat, NEW c \in 1..ch, (f * ch + (c - 1)) * w + w <= Len(data)
    PROVE  WrittenAs(data, (f * ch + (c - 1)) * w, w, G[f][c])
<1> DEFINE q == f * ch + (c - 1)
           p == q * w
           fs == ch * w
           l == Len(data)
<1>1. q \in Nat /\ p \in Nat /\ c \in 1..2
  <2>1. q \in Nat
    OBVIOUS
  <2> HIDE DEF q
  <2> QED
    BY <2>1
<1>2. l \in Nat
  BY LenProperties DEF IsSequence
<1>3. p + w <= l
  OBVIOUS
<1>4. p = f * fs + (c - 1) * w
  OBVIOUS
<1>5. ASSUME NEW j \in 1..w PROVE data[p + j] = putByteInt(G[f][c], w)[j]
  <2> DEFINE k == (c - 1) * w + j
             x == p + j
  <2>1. k \in 1..fs
    <3>1. (c - 1) * w \in Nat /\ (c - 1) * w <= (ch - 1) * w /\ (ch - 1) * w = ch * w - w
      OBVIOUS
    <3> DEFINE y == (c - 1) * w
               z == ch * w
    <3>2. y \in Nat /\ z \in Int /\ y <= z - w
      BY <3>1
    <3> HIDE DEF y, z
    <3>3. y + j \in 1..z
      BY <3>2
    <3> QED
      BY <3>3 DEF y, z
  <2>2. x = f * fs + k
    <3> DEFINE y == (c - 1) * w
               z == f * fs
    <3>1. y \in Int /\ z \in Int /\ p = z + y
      BY <1>4
    <3> HIDE DEF y, z, p
    <3>2. p + j = z + (y + j)
      BY <3>1
    <3> QED
      BY <3>2 DEF y, z
  <2>3. x \in 1..l
    <3> HIDE DEF p, l
    <3> QED
      BY <1>1, <1>2, <1>3
  <2>4. data[x] = ByteOf(G, w, ch, x)
    <3> HIDE DEF x
    <3> QED
      BY <2>3 DEF Holds
  <2>5. ByteOf(G, w, ch, x) = FrameByte(G[f], w, k)
    <3> HIDE DEF x, k
    <3>1. PlaceOf(x, f, k, w, ch)
      BY <2>1, <2>2 DEF PlaceOf, fs
    <3> QED
      BY <3>1, ByteOfPlace
  <2>6. FrameByte(G[f], w, k) = putByteInt(G[f][c], w)[j]
    BY <1>1, ByteOfSample
  <2> HIDE DEF k
  <2> QED
    BY <2>4, <2>5, <2>6
<1> QED
  BY <1>5 DEF WrittenAs

-----------------------------------------------------------------------------
(* The exclusive or.                                                       *)

WordValues == 0..(Word - 1)

\* A power of a power.
LEMMA PowerOfPower ==
    ASSUME NEW b \in Nat \ {0}, NEW m \in Nat
    PROVE  \A n \in Nat : Power(Power(b, m), n) = Power(b, m * n)
<1> DEFINE c == Power(b, m)
           T == {n \in Nat : Power(c, n) = Power(b, m * n)}
<1>1. c \in Nat \ {0}
  BY PowerIsPositive
<1>2. Power(c, 0) = 1 /\ \A n \in Nat : Power(c, n + 1) = c * Power(c, n)
  BY <1>1, PowerStep
<1>3. 0 \in T
  <2>1. m * 0 = 0 /\ Power(b, 0) = 1
    BY PowerStep
  <2> QED
    BY <1>2, <2>1
<1>4. ASSUME NEW n \in Nat, n \in T PROVE n + 1 \in T
  <2> DEFINE k == m * n
  <2>1. k \in Nat /\ m * (n + 1) = m + k
    OBVIOUS
  <2>2. Power(c, n) = Power(b, k)
    BY <1>4
  <2> HIDE DEF k
  <2>3. Power(b, m + k) = c * Power(b, k)
    BY <2>1, PowerSum
  <2>4. Power(c, n + 1) = c * Power(c, n)
    BY <1>2
  <2>5. Power(c, n + 1) = Power(b, m * (n + 1))
    BY <2>1, <2>2, <2>3, <2>4
  <2> QED
    BY <2>5
<1> HIDE DEF T, c
<1>5. \A n \in Nat : n \in T
  BY <1>3, <1>4, SetInduction
<1> QED
  BY <1>5 DEF T, c

LEMMA BitsOfBytes ==
    ASSUME NEW n \in 0..4
    PROVE  ByteBits * n \in 0..(4 * ByteBits) /\ Power(Base, n) = Power(2, ByteBits * n)
<1>1. ByteBits \in Nat
  BY BytesHaveBits
<1>2. n \in Nat
  OBVIOUS
<1>3. Power(Base, n) = Power(2, ByteBits * n)
  BY <1>1, <1>2, PowerOfPower DEF Base
<1>4. ByteBits * n \in Nat /\ ByteBits * n <= ByteBits * 4 /\ ByteBits * 4 = 4 * ByteBits
  BY <1>1
<1> DEFINE x == ByteBits * n
           y == 4 * ByteBits
<1>5. x \in 0..y
  <2>1. x \in Nat /\ x <= y /\ y \in Nat
    BY <1>1, <1>4
  <2> HIDE DEF x, y
  <2> QED
    BY <2>1
<1> QED
  BY <1>3, <1>5

\* The steps of xor: x[n] is the exclusive or of n bits.
XorSteps(x) ==
    \A a, b \in WordValues :
        /\ x[0][<<a, b>>] = 0
        /\ \A n \in 1..(4 * ByteBits) :
              x[n][<<a, b>>] = 2 * x[n - 1][<<a \div 2, b \div 2>>] + ((a + b) % 2)

\* Half of a word is a word.
LEMMA HalfOfWord ==
    ASSUME NEW a \in WordValues
    PROVE  a \div 2 \in WordValues /\ a % 2 \in {0, 1} /\ a = 2 * (a \div 2) + (a % 2)
<1>1. Word \in Nat \ {0}
  BY WordIsPositive
<1>2. a \in Nat /\ a < Word
  BY <1>1 DEF WordValues
<1> QED
  BY <1>1, <1>2 DEF WordValues

LEMMA XorExists ==
    \E x : XorSteps(x) /\ \A a, b \in WordValues : xor(a, b) = x[4 * ByteBits][<<a, b>>]
<1> DEFINE N == 4 * ByteBits
           Pairs == (0..(Word - 1)) \X (0..(Word - 1))
           Tables == [Pairs -> Int]
           Zero == [p \in Pairs |-> 0]
           Longer(t) == [p \in Pairs |-> 2 * t[<<p[1] \div 2, p[2] \div 2>>] + ((p[1] + p[2]) % 2)]
           F == [y \in Tables \X (1..N) |-> Longer(y[1])]
           Def(x) == x = [n \in 0..N |->
                            [p \in Pairs |->
                                IF n = 0 THEN 0
                                ELSE 2 * x[n - 1][<<p[1] \div 2, p[2] \div 2>>] + ((p[1] + p[2]) % 2)]]
           x == CHOOSE f : Def(f)
<1>1. N \in Nat
  BY BytesHaveBits
<1>2. Zero \in Tables
  OBVIOUS
<1>3. ASSUME NEW t \in Tables PROVE Longer(t) \in Tables
  <2>1. ASSUME NEW p \in Pairs
        PROVE  2 * t[<<p[1] \div 2, p[2] \div 2>>] + ((p[1] + p[2]) % 2) \in Int
    <3>1. p[1] \in WordValues /\ p[2] \in WordValues
      BY DEF WordValues
    <3>2. p[1] \div 2 \in WordValues /\ p[2] \div 2 \in WordValues
      BY <3>1, HalfOfWord
    <3>3. t[<<p[1] \div 2, p[2] \div 2>>] \in Int
      BY <3>2 DEF WordValues
    <3>4. (p[1] + p[2]) % 2 \in Int
      <4> DEFINE a == p[1]
                 b == p[2]
      <4>1. a \in Int /\ b \in Int
        BY <3>1 DEF WordValues
      <4> HIDE DEF a, b
      <4>2. (a + b) % 2 \in Int
        BY <4>1
      <4> QED
        BY <4>2 DEF a, b
    <3> DEFINE u == t[<<p[1] \div 2, p[2] \div 2>>]
               v == (p[1] + p[2]) % 2
    <3>5. u \in Int /\ v \in Int
      BY <3>3, <3>4
    <3> HIDE DEF u, v
    <3>6. 2 * u + v \in Int
      BY <3>5
    <3> QED
      BY <3>6 DEF u, v
  <2> QED
    BY <2>1
<1> HIDE DEF Tables, Longer, N, Zero
<1>4. StepsWithin(Tables, N, F)
  BY <1>3 DEF StepsWithin
<1>5. PICK f \in [0..N -> Tables] : FollowsSteps(f, N, Zero, F)
  <2> HIDE DEF F
  <2> QED
    BY <1>1, <1>2, <1>4, RecursionExists
<1>6. ASSUME NEW n \in 1..N PROVE f[n] = Longer(f[n - 1])
  <2>1. n - 1 \in 0..N
    BY <1>1
  <2>2. f[n - 1] \in Tables
    BY <2>1
  <2>3. f[n] = F[<<f[n - 1], n>>]
    BY <1>5 DEF FollowsSteps
  <2>4. <<f[n - 1], n>> \in Tables \X (1..N)
    BY <2>2
  <2> QED
    BY <2>3, <2>4
<1>7. Def(f)
  <2> DEFINE Row(n) == [p \in Pairs |->
                            IF n = 0 THEN 0
                            ELSE 2 * f[n - 1][<<p[1] \div 2, p[2] \div 2>>] + ((p[1] + p[2]) % 2)]
  <2>1. ASSUME NEW n \in 0..N PROVE f[n] = Row(n)
    <3>1. CASE n = 0
      <4>1. f[0] = Zero
        BY <1>5 DEF FollowsSteps
      <4>2. Row(0) = Zero
        BY DEF Zero
      <4> QED
        BY <3>1, <4>1, <4>2
    <3>2. CASE n # 0
      <4>1. n \in 1..N
        BY <1>1, <3>2
      <4>2. Row(n) = Longer(f[n - 1])
        BY <3>2 DEF Longer
      <4> QED
        BY <1>6, <4>1, <4>2
    <3> QED
      BY <3>1, <3>2
  <2>2. f = [n \in 0..N |-> f[n]]
    OBVIOUS
  <2> HIDE DEF Row, Pairs
  <2>3. f = [n \in 0..N |-> Row(n)]
    BY <2>1, <2>2
  <2> QED
    BY <2>3 DEF Row
<1>8. Def(x)
  <2> HIDE DEF Def, F
  <2> QED
    BY <1>7
<1>9. ASSUME NEW a \in WordValues, NEW b \in WordValues PROVE xor(a, b) = x[4 * ByteBits][<<a, b>>]
  BY DEF xor, N
<1> HIDE DEF x
<1>10. XorSteps(x)
  <2>1. ASSUME NEW a \in WordValues, NEW b \in WordValues, NEW n \in 0..N
        PROVE  x[n][<<a, b>>] = IF n = 0 THEN 0
                                ELSE 2 * x[n - 1][<<a \div 2, b \div 2>>] + ((a + b) % 2)
    <3> DEFINE G == [p \in Pairs |->
                        IF n = 0 THEN 0
                        ELSE 2 * x[n - 1][<<p[1] \div 2, p[2] \div 2>>] + ((p[1] + p[2]) % 2)]
    <3>1. <<a, b>> \in Pairs
      BY DEF WordValues
    <3>2. x[n] = G
      <4> HIDE DEF Pairs
      <4> QED
        BY <1>8
    <3>3. G[<<a, b>>] = IF n = 0 THEN 0
                        ELSE 2 * x[n - 1][<<a \div 2, b \div 2>>] + ((a + b) % 2)
      <4> HIDE DEF Pairs
      <4> QED
        BY <3>1
    <3> HIDE DEF G
    <3> QED
      BY <3>2, <3>3
  <2>2. 0 \in 0..N /\ \A n \in 1..N : n \in 0..N /\ n # 0
    BY <1>1
  <2> HIDE DEF Def, Pairs, F
  <2>3. ASSUME NEW a \in WordValues, NEW b \in WordValues, NEW n \in 1..N
        PROVE  x[n][<<a, b>>] = 2 * x[n - 1][<<a \div 2, b \div 2>>] + ((a + b) % 2)
    BY <2>1, <2>2
  <2>4. ASSUME NEW a \in WordValues, NEW b \in WordValues PROVE x[0][<<a, b>>] = 0
    BY <2>1, <2>2
  <2> QED
    BY <2>3, <2>4 DEF XorSteps, N
<1> QED
  BY <1>9, <1>10

\* n bits of result.
LEMMA XorInRange ==
    ASSUME NEW x, XorSteps(x), NEW n \in 0..(4 * ByteBits)
    PROVE  \A a, b \in WordValues : x[n][<<a, b>>] \in 0..(Power(2, n) - 1)
<1> DEFINE N == 4 * ByteBits
           In(k) == \A a, b \in WordValues : x[k][<<a, b>>] \in 0..(Power(2, k) - 1)
           T == {k \in 0..N : In(k)}
<1>1. N \in Nat
  BY BytesHaveBits
<1>2. \A k \in Nat : Power(2, k) \in Nat \ {0} /\ Power(2, k + 1) = 2 * Power(2, k)
  <2>1. 2 \in Nat \ {0}
    OBVIOUS
  <2> DEFINE b == 2
  <2>2. b \in Nat \ {0}
    OBVIOUS
  <2> HIDE DEF b
  <2>3. \A k \in Nat : Power(b, k) \in Nat \ {0} /\ Power(b, k + 1) = b * Power(b, k)
    BY <2>2, PowerIsPositive, PowerStep
  <2> QED
    BY <2>3 DEF b
<1>3. 0 \in T
  <2>1. Power(2, 0) = 1
    BY PowerStep
  <2>2. \A a, b \in WordValues : x[0][<<a, b>>] = 0
    BY DEF XorSteps
  <2> HIDE DEF N
  <2>3. In(0)
    <3>1. 0 \in 0..(Power(2, 0) - 1)
      BY <2>1
    <3> QED
      BY <2>2, <3>1
  <2> QED
    BY <1>1, <2>3
<1>4. ASSUME NEW k \in 1..N, k - 1 \in T PROVE k \in T
  <2>1. ASSUME NEW a \in WordValues, NEW b \in WordValues PROVE x[k][<<a, b>>] \in 0..(Power(2, k) - 1)
    <3> DEFINE u == x[k - 1][<<a \div 2, b \div 2>>]
               d == (a + b) % 2
               P == Power(2, k - 1)
    <3>1. x[k][<<a, b>>] = 2 * u + d
      BY DEF XorSteps
    <3>2. a \div 2 \in WordValues /\ b \div 2 \in WordValues
      BY HalfOfWord
    <3>3. u \in 0..(P - 1)
      BY <1>4, <3>2
    <3>4. d \in {0, 1}
      <4>1. a \in Int /\ b \in Int
        BY DEF WordValues
      <4> QED
        BY <4>1
    <3>5. Power(2, k) = 2 * P /\ P \in Nat
      <4>1. k - 1 \in Nat /\ (k - 1) + 1 = k
        BY <1>1
      <4>2. Power(2, (k - 1) + 1) = 2 * P /\ P \in Nat
        BY <1>2, <4>1
      <4> QED
        BY <4>1, <4>2
    <3> HIDE DEF u, d, P
    <3> QED
      BY <3>1, <3>3, <3>4, <3>5
  <2> QED
    BY <2>1
<1> HIDE DEF T, N
<1>5. \A k \in 0..N : k \in T
  BY <1>1, <1>3, <1>4, BoundedInduction
<1> QED
  BY <1>5 DEF T, N

LEMMA PowersOfTwo ==
    /\ Power(2, 0) = 1
    /\ \A k \in Nat : Power(2, k) \in Nat \ {0} /\ Power(2, k + 1) = 2 * Power(2, k)
<1> DEFINE b == 2
<1>1. b \in Nat \ {0}
  OBVIOUS
<1> HIDE DEF b
<1>2. /\ Power(b, 0) = 1
      /\ \A k \in Nat : Power(b, k) \in Nat \ {0} /\ Power(b, k + 1) = b * Power(b, k)
  BY <1>1, PowerIsPositive, PowerStep
<1> QED
  BY <1>2 DEF b

LEMMA PowerOfTwoBefore ==
    ASSUME NEW k \in Nat \ {0}
    PROVE  Power(2, k) = 2 * Power(2, k - 1) /\ Power(2, k - 1) \in Nat \ {0}
<1>1. k - 1 \in Nat /\ (k - 1) + 1 = k
  OBVIOUS
<1>2. Power(2, (k - 1) + 1) = 2 * Power(2, k - 1) /\ Power(2, k - 1) \in Nat \ {0}
  BY <1>1, PowersOfTwo
<1> QED
  BY <1>1, <1>2

\* The last bit and the others.
LEMMA LastBit ==
    ASSUME NEW u \in Int, NEW d \in {0, 1}, NEW P \in Nat \ {0}
    PROVE  /\ (2 * u + d) \div 2 = u /\ (2 * u + d) % 2 = d
           /\ (2 * u + d) % (2 * P) = 2 * (u % P) + d
<1> DEFINE x == 2 * u + d
           two == 2
<1>1. x \div 2 = u /\ x % 2 = d
  OBVIOUS
<1>2. x \in Int /\ two \in Nat \ {0}
  OBVIOUS
<1> HIDE DEF x, two
<1>3. x % (two * P) = two * ((x \div two) % P) + (x % two)
  BY <1>2, DivisionTwice
<1> QED
  BY <1>1, <1>3 DEF x, two

\* The last m bits of the result depend on the last m bits only.
LEMMA XorOfLowBits ==
    ASSUME NEW x, XorSteps(x), NEW m \in 0..(4 * ByteBits)
    PROVE  \A n \in m..(4 * ByteBits) : \A a, c, b \in WordValues :
              a % Power(2, m) = c % Power(2, m) =>
                  x[n][<<a, b>>] % Power(2, m) = x[n][<<c, b>>] % Power(2, m)
<1> DEFINE N == 4 * ByteBits
           Low(k) == \A n \in k..N : \A a, c, b \in WordValues :
                        a % Power(2, k) = c % Power(2, k) =>
                            x[n][<<a, b>>] % Power(2, k) = x[n][<<c, b>>] % Power(2, k)
           T == {k \in 0..N : Low(k)}
<1>1. N \in Nat
  BY BytesHaveBits
<1>2. \A n \in 0..N : \A a, b \in WordValues : x[n][<<a, b>>] \in Int
  <2>1. ASSUME NEW n \in 0..N, NEW a \in WordValues, NEW b \in WordValues PROVE x[n][<<a, b>>] \in Int
    <3>1. x[n][<<a, b>>] \in 0..(Power(2, n) - 1)
      BY XorInRange
    <3> QED
      BY <3>1
  <2> QED
    BY <2>1
<1>3. 0 \in T
  <2>1. ASSUME NEW n \in 0..N, NEW a \in WordValues, NEW c \in WordValues, NEW b \in WordValues
        PROVE  x[n][<<a, b>>] % Power(2, 0) = x[n][<<c, b>>] % Power(2, 0)
    <3> DEFINE y == x[n][<<a, b>>]
               z == x[n][<<c, b>>]
    <3>1. y \in Int /\ z \in Int
      BY <1>2
    <3> HIDE DEF y, z
    <3>2. y % 1 = 0 /\ z % 1 = 0
      BY <3>1
    <3> QED
      BY <3>2, PowersOfTwo DEF y, z
  <2> HIDE DEF N
  <2>2. Low(0)
    BY <2>1
  <2> QED
    BY <1>1, <2>2
<1>4. ASSUME NEW k \in 1..N, k - 1 \in T PROVE k \in T
  <2> SUFFICES ASSUME NEW n \in k..N, NEW a \in WordValues, NEW c \in WordValues, NEW b \in WordValues,
                      a % Power(2, k) = c % Power(2, k)
               PROVE  x[n][<<a, b>>] % Power(2, k) = x[n][<<c, b>>] % Power(2, k)
    OBVIOUS
  <2> DEFINE P == Power(2, k - 1)
             u == x[n - 1][<<a \div 2, b \div 2>>]
             v == x[n - 1][<<c \div 2, b \div 2>>]
             d == (a + b) % 2
             e == (c + b) % 2
             ah == a \div 2
             ch == c \div 2
  <2>1. Power(2, k) = 2 * P /\ P \in Nat \ {0}
    BY <1>1, PowerOfTwoBefore
  <2>2. /\ ah \in WordValues /\ a % 2 \in {0, 1} /\ a = 2 * ah + (a % 2)
        /\ ch \in WordValues /\ c % 2 \in {0, 1} /\ c = 2 * ch + (c % 2)
        /\ b \div 2 \in WordValues /\ b \in Int /\ a \in Int /\ c \in Int /\ ah \in Int /\ ch \in Int
    BY HalfOfWord DEF WordValues
  <2>3. ah % P = ch % P /\ a % 2 = c % 2
    <3> DEFINE ad == a % 2
               cd == c % 2
               s == ah % P
               t == ch % P
    <3>1. ah \in Int /\ ch \in Int /\ ad \in {0, 1} /\ cd \in {0, 1}
          /\ a = 2 * ah + ad /\ c = 2 * ch + cd
      BY <2>2
    <3>2. s \in Int /\ t \in Int
      <4> HIDE DEF ah, ch, P
      <4> QED
        BY <2>1, <3>1, Division
    <3> HIDE DEF ah, ch, ad, cd, P
    <3>3. a % (2 * P) = 2 * s + ad /\ c % (2 * P) = 2 * t + cd
      BY <2>1, <3>1, LastBit
    <3>4. 2 * s + ad = 2 * t + cd
      BY <2>1, <3>3
    <3> HIDE DEF s, t
    <3>5. s = t /\ ad = cd
      BY <3>1, <3>2, <3>4
    <3> QED
      BY <3>5 DEF s, t, ad, cd
  <2>4. n \in 1..N /\ n - 1 \in 0..N /\ n - 1 \in (k - 1)..N
    BY <1>1
  <2>5. x[n][<<a, b>>] = 2 * u + d /\ x[n][<<c, b>>] = 2 * v + e
    BY <2>4 DEF XorSteps
  <2>6. d = e /\ d \in {0, 1}
    <3> HIDE DEF ah, ch
    <3>1. d = ((a % 2) + b) % 2 /\ e = ((c % 2) + b) % 2
      BY <2>2
    <3> HIDE DEF d, e
    <3>2. d = e
      BY <2>3, <3>1
    <3>3. d \in {0, 1}
      <4>1. (a + b) % 2 \in {0, 1}
        BY <2>2
      <4> QED
        BY <4>1 DEF d
    <3> QED
      BY <3>2, <3>3
  <2>7. u \in Int /\ v \in Int
    BY <1>2, <2>2, <2>4
  <2>8. u % P = v % P
    <3>1. Low(k - 1)
      BY <1>4
    <3> HIDE DEF P
    <3> QED
      BY <2>2, <2>3, <2>4, <3>1 DEF P
  <2> HIDE DEF P, u, v, d, e, ah, ch
  <2>9. (2 * u + d) % (2 * P) = 2 * (u % P) + d /\ (2 * v + d) % (2 * P) = 2 * (v % P) + d
    BY <2>1, <2>6, <2>7, LastBit
  <2> QED
    BY <2>1, <2>5, <2>6, <2>8, <2>9
<1> HIDE DEF T
<1>5. \A k \in 0..N : k \in T
  <2> HIDE DEF N
  <2> QED
    BY <1>1, <1>3, <1>4, BoundedInduction
<1> QED
  BY <1>5 DEF T

\* The same number twice undoes itself.
LEMMA XorTwice ==
    ASSUME NEW x, XorSteps(x), NEW n \in 0..(4 * ByteBits)
    PROVE  \A a, b \in WordValues : a < Power(2, n) =>
              x[n][<<a, b>>] \in WordValues /\ x[n][<<x[n][<<a, b>>], b>>] = a
<1> DEFINE N == 4 * ByteBits
           Twice(k) == \A a, b \in WordValues : a < Power(2, k) => x[k][<<x[k][<<a, b>>], b>>] = a
           T == {k \in 0..N : Twice(k)}
<1>1. N \in Nat
  BY BytesHaveBits
<1>2. Word = Power(2, N)
  <2>1. Power(Base, 4) = Power(2, ByteBits * 4)
    BY BitsOfBytes
  <2>2. ByteBits * 4 = 4 * ByteBits
    BY BytesHaveBits
  <2> QED
    BY <2>1, <2>2 DEF Word
<1>3. \A k \in 0..N : Power(2, k) <= Word /\ Power(2, k) \in Nat
  <2>1. ASSUME NEW k \in 0..N PROVE Power(2, k) <= Word /\ Power(2, k) \in Nat
    <3> DEFINE m == N - k
               y == Power(2, k)
               z == Power(2, m)
    <3>1. m \in Nat /\ k + m = N /\ k \in Nat
      BY <1>1
    <3>2. y \in Nat \ {0} /\ z \in Nat \ {0}
      BY <3>1, PowersOfTwo
    <3>3. Word = y * z
      <4> HIDE DEF N, m
      <4>1. 2 \in Nat \ {0}
        OBVIOUS
      <4> DEFINE b == 2
      <4> HIDE DEF b
      <4>2. Power(b, k + m) = Power(b, k) * Power(b, m)
        BY <3>1, <4>1, PowerSum DEF b
      <4> QED
        BY <1>2, <3>1, <4>2 DEF b
    <3> HIDE DEF y, z
    <3>4. y <= y * z
      BY <3>2
    <3> QED
      BY <3>2, <3>3, <3>4 DEF y
  <2> QED
    BY <2>1
<1>4. \A k \in 0..N : \A a, b \in WordValues : x[k][<<a, b>>] \in WordValues
  <2>1. ASSUME NEW k \in 0..N, NEW a \in WordValues, NEW b \in WordValues PROVE x[k][<<a, b>>] \in WordValues
    <3> DEFINE y == x[k][<<a, b>>]
               P == Power(2, k)
    <3>1. y \in 0..(P - 1)
      BY XorInRange
    <3>2. P <= Word /\ P \in Nat /\ Word \in Nat
      BY <1>3, WordIsPositive
    <3> HIDE DEF y, P
    <3>3. y \in 0..(Word - 1)
      BY <3>1, <3>2
    <3> QED
      BY <3>3 DEF y, WordValues
  <2> QED
    BY <2>1
<1>5. 0 \in T
  <2>1. ASSUME NEW a \in WordValues, NEW b \in WordValues, a < Power(2, 0)
        PROVE  x[0][<<x[0][<<a, b>>], b>>] = a
    <3>1. a = 0
      BY <2>1, PowersOfTwo DEF WordValues
    <3>2. x[0][<<a, b>>] = 0
      BY DEF XorSteps
    <3> QED
      BY <3>1, <3>2
  <2> HIDE DEF N
  <2>2. Twice(0)
    BY <2>1
  <2> QED
    BY <1>1, <2>2
<1>6. ASSUME NEW k \in 1..N, k - 1 \in T PROVE k \in T
  <2> SUFFICES ASSUME NEW a \in WordValues, NEW b \in WordValues, a < Power(2, k)
               PROVE  x[k][<<x[k][<<a, b>>], b>>] = a
    OBVIOUS
  <2> DEFINE P == Power(2, k - 1)
             ah == a \div 2
             bh == b \div 2
             u == x[k - 1][<<ah, bh>>]
             d == (a + b) % 2
             e == x[k][<<a, b>>]
             eh == e \div 2
             f == (e + b) % 2
  <2>1. Power(2, k) = 2 * P /\ P \in Nat \ {0}
    BY <1>1, PowerOfTwoBefore
  <2>2. /\ ah \in WordValues /\ a % 2 \in {0, 1} /\ a = 2 * ah + (a % 2)
        /\ bh \in WordValues /\ b \in Int /\ a \in Int /\ ah \in Int
    BY HalfOfWord DEF WordValues
  <2>3. k - 1 \in 0..N /\ k \in 0..N
    BY <1>1
  <2>4. e = 2 * u + d
    BY DEF XorSteps
  <2>5. d \in {0, 1}
    <3> HIDE DEF ah, bh, u, e
    <3> QED
      BY <2>2
  <2>6. u \in WordValues /\ u \in Int /\ e \in WordValues
    BY <1>4, <2>2, <2>3 DEF WordValues
  <2>7. eh = u /\ e % 2 = d
    <3> HIDE DEF u, d, e
    <3>1. (2 * u + d) \div 2 = u /\ (2 * u + d) % 2 = d
      BY <2>5, <2>6
    <3> QED
      BY <2>4, <3>1
  <2>8. x[k][<<e, b>>] = 2 * x[k - 1][<<u, bh>>] + f
    <3>1. x[k][<<e, b>>] = 2 * x[k - 1][<<eh, bh>>] + f
      <4> HIDE DEF e
      <4> QED
        BY <2>6 DEF XorSteps
    <3> HIDE DEF u, e, eh
    <3> QED
      BY <2>7, <3>1
  <2>9. x[k - 1][<<u, bh>>] = ah
    <3>1. ah < P
      <4> HIDE DEF P, ah
      <4> QED
        BY <2>1, <2>2
    <3>2. Twice(k - 1)
      BY <1>6
    <3> HIDE DEF P, ah, bh
    <3> QED
      BY <2>2, <3>1, <3>2 DEF P
  <2>10. f = a % 2
    <3>1. e \in Int
      BY <2>6 DEF WordValues
    <3> HIDE DEF u, ah, bh, eh, e
    <3>2. f = ((e % 2) + b) % 2
      BY <2>2, <3>1
    <3>3. (((a + b) % 2) + b) % 2 = a % 2
      BY <2>2
    <3> HIDE DEF f
    <3>4. f = (d + b) % 2
      BY <2>7, <3>2
    <3> QED
      BY <3>3, <3>4
  <2> HIDE DEF P, ah, bh, u, d, e, eh, f
  <2>11. x[k][<<e, b>>] = 2 * ah + (a % 2)
    BY <2>8, <2>9, <2>10
  <2> QED
    BY <2>2, <2>11 DEF e
<1> HIDE DEF T
<1>7. \A k \in 0..N : k \in T
  <2> HIDE DEF N
  <2> QED
    BY <1>1, <1>5, <1>6, BoundedInduction
<1>8. ASSUME NEW a \in WordValues, NEW b \in WordValues, a < Power(2, n)
      PROVE  x[n][<<a, b>>] \in WordValues /\ x[n][<<x[n][<<a, b>>], b>>] = a
  <2>1. n \in T
    BY <1>7
  <2> QED
    BY <1>4, <1>8, <2>1 DEF T
<1> QED
  BY <1>8

\* xor gives an int.
LEMMA XorIsWord ==
    ASSUME NEW a \in WordValues, NEW b \in WordValues
    PROVE  xor(a, b) \in WordValues
<1>1. PICK x : XorSteps(x) /\ \A c, d \in WordValues : xor(c, d) = x[4 * ByteBits][<<c, d>>]
  BY XorExists
<1> DEFINE N == 4 * ByteBits
<1>2. N \in 0..N /\ Power(2, N) = Word
  <2>1. Power(Base, 4) = Power(2, ByteBits * 4)
    BY BitsOfBytes
  <2>2. ByteBits * 4 = 4 * ByteBits /\ N \in Nat
    BY BytesHaveBits
  <2> QED
    BY <2>1, <2>2 DEF Word
<1>3. x[N][<<a, b>>] \in 0..(Power(2, N) - 1)
  <2>1. \A c, d \in WordValues : x[N][<<c, d>>] \in 0..(Power(2, N) - 1)
    BY <1>1, <1>2, XorInRange
  <2> QED
    BY <2>1
<1> QED
  BY <1>1, <1>2, <1>3 DEF WordValues

LEMMA UnsignedOf ==
    ASSUME NEW s \in Int, NEW w \in 0..4
    PROVE  Unsigned(s) \in WordValues /\ Unsigned(s) % Power(Base, w) = s % Power(Base, w)
<1> DEFINE P == Power(Base, w)
           Q == Power(Base, 4 - w)
<1>1. P \in Nat \ {0} /\ Q \in Nat \ {0} /\ Word = P * Q
  BY WidthsOfInts
<1> HIDE DEF P, Q
<1>2. (s % Word) % P = s % P
  BY <1>1, RemainderOfRemainder
<1>3. Unsigned(s) \in WordValues
  BY UnsignedIsWord DEF WordValues
<1> QED
  BY <1>2, <1>3 DEF Unsigned, P

\* A sample that is encrypted and decrypted with the same number, of which only
\* w bytes are kept in between, is the same in these bytes.
LEMMA SampleDecrypted ==
    ASSUME NEW w \in 1..4, NEW s \in Int, NEW r \in WordValues, NEW t \in Int,
           t % Power(Base, w) = xor(Unsigned(s), r) % Power(Base, w)
    PROVE  xor(Unsigned(t), r) % Power(Base, w) = s % Power(Base, w)
<1>1. PICK x : XorSteps(x) /\ \A c, d \in WordValues : xor(c, d) = x[4 * ByteBits][<<c, d>>]
  BY XorExists
<1> DEFINE N == 4 * ByteBits
           m == ByteBits * w
           P == Power(2, m)
           a == Unsigned(s)
           c == Unsigned(t)
           e == xor(a, r)
<1>2. N \in 0..N /\ Power(2, N) = Word
  <2>1. Power(Base, 4) = Power(2, ByteBits * 4)
    BY BitsOfBytes
  <2>2. ByteBits * 4 = 4 * ByteBits /\ N \in Nat
    BY BytesHaveBits
  <2> QED
    BY <2>1, <2>2 DEF Word
<1>3. w \in 0..4 /\ P = Power(Base, w) /\ m \in 0..N
  BY BitsOfBytes
<1>4. N \in m..N
  <2> HIDE DEF m, N
  <2> QED
    BY <1>2, <1>3
<1>5. a \in WordValues /\ c \in WordValues /\ a % P = s % P /\ c % P = t % P
  BY <1>3, UnsignedOf
<1>6. e \in WordValues
  BY <1>5, XorIsWord
<1>7. e = x[N][<<a, r>>] /\ xor(c, r) = x[N][<<c, r>>]
  BY <1>1, <1>5
<1> HIDE DEF N, m, P, a, c, e
<1>8. c % P = e % P
  BY <1>3, <1>5 DEF a, e
<1>9. x[N][<<c, r>>] % P = x[N][<<e, r>>] % P
  <2>1. \A n \in m..N : \A p, q, b \in WordValues :
           p % P = q % P => x[n][<<p, b>>] % P = x[n][<<q, b>>] % P
    BY <1>1, <1>3, XorOfLowBits DEF N, P
  <2> QED
    BY <1>4, <1>5, <1>6, <1>8, <2>1
<1>10. x[N][<<e, r>>] = a
  <2>1. a < Power(2, N)
    BY <1>2, <1>5, WordIsPositive DEF WordValues
  <2>2. \A p, b \in WordValues : p < Power(2, N) => x[N][<<x[N][<<p, b>>], b>>] = p
    BY <1>1, <1>2, XorTwice DEF N
  <2>3. x[N][<<x[N][<<a, r>>], r>>] = a
    BY <1>5, <2>1, <2>2
  <2> QED
    BY <1>7, <2>3
<1> QED
  BY <1>3, <1>5, <1>7, <1>9, <1>10 DEF c

-----------------------------------------------------------------------------
(* The pseudorandom numbers.                                               *)

LEMMA MyrandIs ==
    ASSUME NEW seed \in Nat
    PROVE  \A k \in 0..8 : myrand(seed)[k] \in Nat
<1> DEFINE P == Power(Base, 8)
           F == [y \in Nat \X (1..8) |-> (y[1] * Multiplier + Increment) % P]
           Def(f) == f = [k \in 0..8 |-> IF k = 0 THEN seed ELSE (f[k - 1] * Multiplier + Increment) % P]
           h == CHOOSE f : Def(f)
<1>1. P \in Nat \ {0} /\ Multiplier \in Nat /\ Increment \in Nat
  BY WordIsPositive, PowerIsPositive, AudibleAssumption, BytesHaveBits
<1> HIDE DEF P
<1>2. ASSUME NEW x \in Nat PROVE (x * Multiplier + Increment) % P \in Nat
  <2> DEFINE y == x * Multiplier + Increment
  <2>1. y \in Nat
    BY <1>1
  <2> HIDE DEF y
  <2>2. y % P \in Nat
    BY <1>1, <2>1, Division
  <2> QED
    BY <2>2 DEF y
<1>3. StepsWithin(Nat, 8, F)
  BY <1>2 DEF StepsWithin
<1>4. PICK f \in [0..8 -> Nat] : FollowsSteps(f, 8, seed, F)
  <2> HIDE DEF F
  <2>1. 8 \in Nat
    OBVIOUS
  <2> QED
    BY <1>3, <2>1, RecursionExists
<1>5. ASSUME NEW k \in 1..8 PROVE f[k] = (f[k - 1] * Multiplier + Increment) % P
  <2>1. <<f[k - 1], k>> \in Nat \X (1..8)
    OBVIOUS
  <2>2. f[k] = F[<<f[k - 1], k>>]
    BY <1>4 DEF FollowsSteps
  <2> QED
    BY <2>1, <2>2
<1>6. Def(f)
  BY <1>4, <1>5 DEF FollowsSteps
<1>7. Def(h)
  <2> HIDE DEF Def, F
  <2> QED
    BY <1>6
<1>8. myrand(seed) = h
  BY DEF myrand, P
<1> HIDE DEF h, F
<1> DEFINE T == {k \in 0..8 : h[k] \in Nat}
<1>9. 0 \in T
  BY <1>7
<1>10. ASSUME NEW k \in 1..8, k - 1 \in T PROVE k \in T
  <2>1. h[k] = (h[k - 1] * Multiplier + Increment) % P
    BY <1>7
  <2> QED
    BY <1>2, <1>10, <2>1
<1> HIDE DEF T, Def
<1>11. 8 \in Nat
  OBVIOUS
<1>12. \A k \in 0..8 : k \in T
  BY <1>9, <1>10, <1>11, BoundedInduction
<1> QED
  BY <1>8, <1>12 DEF T

\* Four bytes of pseudorandom numbers.
LEMMA Myrand32Is ==
    ASSUME NEW seed \in Nat, NEW c \in 1..2
    PROVE  myrand32(seed, c) \in WordValues
<1> DEFINE h == Base \div 2
           A == Power(Base, 2)
           top(k) == ((myrand(seed)[k] \div A) % (A \div 2)) \div h
<1>1. Base \in Nat \ {0} /\ Base = 2 * h /\ h \in Nat \ {0} /\ A = Base * Base
      /\ Power(Base, 3) = Base * A /\ Word = Base * Power(Base, 3)
  <2>1. Base \in Nat \ {0} /\ Base = 2 * h /\ h \in Nat \ {0}
    BY WidthsOfInts
  <2> DEFINE b == Base
  <2> HIDE DEF b
  <2>2. \A n \in Nat : Power(b, n + 1) = b * Power(b, n)
    BY <2>1, PowerStep DEF b
  <2>3. Power(b, 0) = 1 /\ b \in Nat
    BY <2>1, PowerStep DEF b
  <2>4. Power(b, 1) = b * Power(b, 0) /\ Power(b, 2) = b * Power(b, 1)
        /\ Power(b, 3) = b * Power(b, 2) /\ Power(b, 4) = b * Power(b, 3)
    <3>1. 0 + 1 = 1 /\ 1 + 1 = 2 /\ 2 + 1 = 3 /\ 3 + 1 = 4
      OBVIOUS
    <3>2. 0 \in Nat /\ 1 \in Nat /\ 2 \in Nat /\ 3 \in Nat
      OBVIOUS
    <3> QED
      BY <2>2, <3>1, <3>2
  <2>5. Power(b, 1) = b
    BY <2>3, <2>4
  <2> QED
    BY <2>1, <2>4, <2>5 DEF b, Word
<1>2. ASSUME NEW k \in 1..8 PROVE top(k) \in 0..(Base - 1)
  <2> DEFINE n == myrand(seed)[k]
             B == A \div 2
             x == n \div A
             y == x % B
  <2>1. n \in Nat
    BY MyrandIs
  <2>2. B = Base * h /\ B \in Nat \ {0} /\ A \in Nat \ {0}
    <3> DEFINE b == Base
               z == b * h
    <3>1. A = 2 * z
      <4> HIDE DEF h, b
      <4>1. b * (2 * h) = 2 * (b * h)
        BY <1>1 DEF b
      <4> QED
        BY <1>1, <4>1 DEF b
    <3>2. z \in Nat \ {0}
      <4> HIDE DEF h, b
      <4>1. b * h \in Nat /\ b * h # 0
        BY <1>1 DEF b
      <4> QED
        BY <4>1
    <3> HIDE DEF z, A
    <3> QED
      BY <3>1, <3>2 DEF z, b
  <2> HIDE DEF n, A, B, h
  <2>3. x \in Int
    BY <2>1, <2>2, Division
  <2> HIDE DEF x
  <2>4. y \in 0..(B - 1)
    BY <2>2, <2>3, Division
  <2> HIDE DEF y
  <2> DEFINE q == y \div h
             r == y % h
  <2>5. q \in Int /\ r \in 0..(h - 1) /\ y = h * q + r
    <3>1. y \in Int /\ h \in Nat \ {0}
      BY <1>1, <2>2, <2>4
    <3> QED
      BY <3>1, Division
  <2> HIDE DEF q, r
  <2>6. q \in 0..(Base - 1)
    <3>1. q >= 0
      <4>1. ASSUME q <= -1 PROVE FALSE
        <5>1. h * q <= -h
          BY <1>1, <2>5, <4>1
        <5> DEFINE u == h * q
        <5>2. u \in Int /\ u <= -h /\ y = u + r
          BY <1>1, <2>5, <5>1
        <5> HIDE DEF u
        <5> QED
          BY <1>1, <2>4, <2>5, <5>2
      <4> QED
        BY <2>5, <4>1
    <3>2. q <= Base - 1
      <4>1. ASSUME q >= Base PROVE FALSE
        <5>1. h * q >= h * Base /\ h * Base = Base * h
          BY <1>1, <2>5, <4>1
        <5> DEFINE u == h * q
        <5>2. u \in Int /\ u >= B /\ y = u + r
          BY <1>1, <2>2, <2>5, <5>1
        <5> HIDE DEF u
        <5> QED
          BY <1>1, <2>2, <2>4, <2>5, <5>2
      <4> QED
        BY <1>1, <2>5, <4>1
    <3> QED
      BY <1>1, <2>5, <3>1, <3>2
  <2> QED
    BY <2>6 DEF q, y, x, n, B, h
<1> DEFINE i1 == top(4 * c - 3)
           i2 == top(4 * c - 2)
           i3 == top(4 * c - 1)
           i4 == top(4 * c)
           P3 == Power(Base, 3)
           b == Base
<1>3. myrand32(seed, c) = ((i1 * P3 + i2 * A) + i3 * Base) + i4
  BY DEF myrand32
<1>4. i1 \in 0..(b - 1) /\ i2 \in 0..(b - 1) /\ i3 \in 0..(b - 1) /\ i4 \in 0..(b - 1)
  <2>1. 4 * c - 3 \in 1..8 /\ 4 * c - 2 \in 1..8 /\ 4 * c - 1 \in 1..8 /\ 4 * c \in 1..8
    OBVIOUS
  <2> HIDE DEF top
  <2> QED
    BY <1>2, <2>1
<1> HIDE DEF i1, i2, i3, i4, top, h
<1>5. ((i1 * P3 + i2 * A) + i3 * Base) + i4 \in 0..(Word - 1)
  <2>1. A \in Nat /\ P3 \in Nat /\ b \in Nat /\ A = b * b /\ P3 = b * A /\ Word = b * P3
    BY <1>1
  <2> HIDE DEF P3, A, b
  <2> DEFINE x1 == i1 * P3
             x2 == i2 * A
             x3 == i3 * b
             w == b * P3
  <2>2. x1 \in Nat /\ x1 <= w - P3 /\ w \in Int
    <3>1. i1 * P3 \in Nat /\ i1 * P3 <= (b - 1) * P3 /\ (b - 1) * P3 = b * P3 - P3
      BY <1>4, <2>1
    <3> QED
      BY <2>1, <3>1
  <2>3. x2 \in Nat /\ x2 <= P3 - A
    <3>1. i2 * A \in Nat /\ i2 * A <= (b - 1) * A /\ (b - 1) * A = b * A - A
      BY <1>4, <2>1
    <3> QED
      BY <2>1, <3>1
  <2>4. x3 \in Nat /\ x3 <= A - b
    <3>1. i3 * b \in Nat /\ i3 * b <= (b - 1) * b /\ (b - 1) * b = b * b - b
      BY <1>4, <2>1
    <3> QED
      BY <2>1, <3>1
  <2> HIDE DEF x1, x2, x3, w
  <2>5. ((x1 + x2) + x3) + i4 \in 0..(w - 1)
    BY <1>4, <2>1, <2>2, <2>3, <2>4
  <2> QED
    BY <2>1, <2>5 DEF x1, x2, x3, w, b
<1> QED
  BY <1>3, <1>5 DEF WordValues

\* The states of myrand before each frame: 4 calls of it for each sample.
KeyStates(seed, ch) ==
    LET key[n \in 0..Word] == IF n = 0 THEN seed ELSE myrand(key[n - 1])[4 * ch] IN key

LEMMA KeysAre ==
    ASSUME NEW seed \in Nat, NEW ch \in {1, 2}
    PROVE  /\ KeyStates(seed, ch)[0] = seed
           /\ \A n \in 0..Word : KeyStates(seed, ch)[n] \in Nat
           /\ \A n \in 1..Word : KeyStates(seed, ch)[n] = myrand(KeyStates(seed, ch)[n - 1])[4 * ch]
<1> DEFINE F == [y \in Nat \X (1..Word) |-> myrand(y[1])[4 * ch]]
           Def(f) == f = [n \in 0..Word |-> IF n = 0 THEN seed ELSE myrand(f[n - 1])[4 * ch]]
           h == CHOOSE f : Def(f)
<1>1. Word \in Nat /\ 4 * ch \in 0..8
  BY WordIsPositive
<1>2. \A x \in Nat : myrand(x)[4 * ch] \in Nat
  BY <1>1, MyrandIs
<1>3. StepsWithin(Nat, Word, F)
  BY <1>2 DEF StepsWithin
<1>4. PICK f \in [0..Word -> Nat] : FollowsSteps(f, Word, seed, F)
  <2> HIDE DEF F
  <2> QED
    BY <1>1, <1>3, RecursionExists
<1>5. ASSUME NEW k \in 1..Word PROVE f[k] = myrand(f[k - 1])[4 * ch]
  <2>1. <<f[k - 1], k>> \in Nat \X (1..Word)
    BY <1>1
  <2>2. f[k] = F[<<f[k - 1], k>>]
    BY <1>4 DEF FollowsSteps
  <2> QED
    BY <2>1, <2>2
<1>6. Def(f)
  BY <1>1, <1>4, <1>5 DEF FollowsSteps
<1>7. Def(h)
  <2> HIDE DEF Def, F
  <2> QED
    BY <1>6
<1>8. KeyStates(seed, ch) = h
  BY DEF KeyStates
<1> HIDE DEF h, F
<1>9. h[0] = seed
  BY <1>1, <1>7
<1>10. ASSUME NEW k \in 1..Word PROVE h[k] = myrand(h[k - 1])[4 * ch]
  <2>1. k \in 0..Word /\ k # 0
    BY <1>1
  <2> QED
    BY <1>7, <2>1
<1> DEFINE T == {k \in 0..Word : h[k] \in Nat}
<1>11. 0 \in T
  BY <1>1, <1>9
<1>12. ASSUME NEW k \in 1..Word, k - 1 \in T PROVE k \in T
  <2>1. h[k] = myrand(h[k - 1])[4 * ch] /\ k \in 0..Word
    BY <1>1, <1>10
  <2> QED
    BY <1>2, <1>12, <2>1
<1> HIDE DEF T, Def
<1>13. \A k \in 0..Word : k \in T
  BY <1>1, <1>11, <1>12, BoundedInduction
<1> QED
  BY <1>8, <1>9, <1>10, <1>13 DEF T

\* The key of the options is a number.
LEMMA KeyIsNumber ==
    ASSUME NEW line \in Seq(Strings)
    PROVE  getKey(validargs(line)) \in Nat
<1> DEFINE v == validCryptUsage(line)
           p == LastPosition(line, "-k")
<1>1. v # 0 => line[v] \in Strings /\ validKeyHelper(line[v])
  <2>1. v = IF Len(line) \notin 4..5 \/ (Len(line) = 5 /\ ~containsPreserve(line)) THEN 0
            ELSE IF p # 0 /\ p < Len(line) /\ validKeyHelper(line[p + 1]) THEN p + 1 ELSE 0
    BY DEF validCryptUsage, containsValidKey
  <2>2. p = 0 \/ p \in 2..Len(line)
    BY LastPositionOK DEF LastAt
  <2>3. Len(line) \in Nat /\ \A k \in 1..Len(line) : line[k] \in Strings
    OBVIOUS
  <2> HIDE DEF v, p
  <2> QED
    BY <2>1, <2>2, <2>3
<1> HIDE DEF v
<1>2. v # 0 => hexStringToInt(line[v]) \in Nat
  BY <1>1, KeyWords DEF IsKey
<1> QED
  BY <1>2 DEF getKey, validargs, Nothing, keyRecord, v

-----------------------------------------------------------------------------
(* The frames of the output.                                               *)

SpeedFrames(data, w, ch, F) == [m \in Nat |-> FrameOf(data, w, ch, m * F)]

Between(s, t, ch, k, F) == [c \in 1..ch |-> getInterpolation(s[c], t[c], k, F)]

SlowFrames(data, w, ch, F) ==
    [m \in Nat |->
        IF m % F = 0 THEN FrameOf(data, w, ch, m \div F)
        ELSE Between(FrameOf(data, w, ch, m \div F), FrameOf(data, w, ch, (m \div F) + 1), ch, m % F, F)]

CryptFrames(data, w, ch, seed) ==
    [m \in Nat |->
        [c \in 1..ch |-> xor(Unsigned(FrameOf(data, w, ch, m)[c]), myrand32(KeyStates(seed, ch)[m], c))]]

IsFrame(frame, ch) == \A c \in 1..ch : frame[c] \in Int

\* The sizes of samples and frames, and their number.
SizesFit ==
    BytesPerSample \in 1..4 /\ header.channels \in {1, 2} /\ FrameSize = header.channels * BytesPerSample
    /\ FrameSize \in Nat \ {0}

LEMMA SizesAre ==
    ASSUME SizeInv, pc \in {"annotate", "loop"} \/ status = "SUCCESS"
    PROVE  SizesFit
<1>1. header.channels \in {1, 2} /\ header.encoding \in 2..5
  BY DEF SizeInv
<1>2. header.encoding - 1 \in 1..4
  <2> DEFINE e == header.encoding
  <2> HIDE DEF e
  <2>1. e \in 2..5 => e - 1 \in 1..4
    OBVIOUS
  <2> QED
    BY <1>1, <2>1 DEF e
<1>3. FrameSize \in Nat \ {0}
  BY FramesAreCounted
<1> QED
  BY <1>1, <1>2, <1>3 DEF SizesFit, FrameSize, BytesPerSample

LEMMA ByteWritten ==
    ASSUME NEW x \in Int, NEW n \in Nat, NEW k \in 1..n
    PROVE  putByteInt(x, n)[k] \in Bytes
<1> DEFINE P == Power(Base, n - k)
           y == x \div P
<1>1. n - k \in Nat
  OBVIOUS
<1>2. Base \in Nat \ {0} /\ P \in Nat \ {0}
  BY <1>1, WordIsPositive, PowerIsPositive
<1>3. putByteInt(x, n)[k] = y % Base
  BY DEF putByteInt
<1> HIDE DEF P
<1>4. y \in Int
  BY <1>2, Division
<1> HIDE DEF y
<1>5. y % Base \in 0..(Base - 1)
  BY <1>2, <1>4, Division
<1> QED
  BY <1>3, <1>5 DEF Bytes

LEMMA FrameByteIs ==
    ASSUME NEW w \in 1..4, NEW ch \in {1, 2}, NEW frame, IsFrame(frame, ch), NEW k \in 1..(ch * w)
    PROVE  FrameByte(frame, w, k) \in Bytes
<1> DEFINE y == k - 1
           q == y \div w
           r == y % w
<1>1. w \in Nat \ {0} /\ y \in Int /\ y >= 0 /\ y <= ch * w - 1
  BY SMT
<1> HIDE DEF y
<1>2. q \in Int /\ r \in 0..(w - 1) /\ y = w * q + r
  BY <1>1, Division
<1> HIDE DEF q, r
<1>3. q + 1 \in 1..ch
  <2>1. w \in {1, 2, 3, 4}
    OBVIOUS
  <2>2. CASE w = 1
    BY <1>1, <1>2, <2>2
  <2>3. CASE w = 2
    BY <1>1, <1>2, <2>3
  <2>4. CASE w = 3
    BY <1>1, <1>2, <2>4
  <2>5. CASE w = 4
    BY <1>1, <1>2, <2>5
  <2> QED
    BY <2>1, <2>2, <2>3, <2>4, <2>5
<1>4. r + 1 \in 1..w
  BY <1>2
<1>5. frame[q + 1] \in Int
  BY <1>3 DEF IsFrame
<1>6. putByteInt(frame[q + 1], w)[r + 1] \in Bytes
  BY <1>1, <1>4, <1>5, ByteWritten
<1> QED
  BY <1>6 DEF FrameByte, q, r, y

\* A function on 1..n with values in E is a sequence.
LEMMA SequenceOf ==
    ASSUME NEW n \in Nat, NEW E, NEW f, f = [k \in 1..n |-> f[k]], \A k \in 1..n : f[k] \in E
    PROVE  f \in Seq(E) /\ Len(f) = n
<1>1. f \in [1..n -> E]
  OBVIOUS
<1>2. f \in Seq(E)
  BY <1>1, SeqDef
<1> QED
  BY <1>1, <1>2

\* What write_frame makes of a frame.
LEMMA FrameWritten ==
    ASSUME SizesFit, NEW frame, IsFrame(frame, header.channels)
    PROVE  /\ IsData(write_frame(frame)) /\ Len(write_frame(frame)) = FrameSize
           /\ \A k \in 1..FrameSize : write_frame(frame)[k] = FrameByte(frame, BytesPerSample, k)
<1> DEFINE f == write_frame(frame)
           w == BytesPerSample
           ch == header.channels
           fs == FrameSize
<1>1. w \in 1..4 /\ ch \in {1, 2} /\ fs = ch * w /\ fs \in Nat
  BY DEF SizesFit
<1>2. f = [k \in 1..fs |-> FrameByte(frame, w, k)]
  BY DEF write_frame, FrameByte
<1> HIDE DEF f, w, ch, fs
<1>3. \A k \in 1..fs : FrameByte(frame, w, k) \in Bytes
  BY <1>1, FrameByteIs DEF ch
<1>4. f = [k \in 1..fs |-> f[k]] /\ \A k \in 1..fs : f[k] = FrameByte(frame, w, k)
  BY <1>2
<1>5. f \in Seq(Bytes) /\ Len(f) = fs
  BY <1>1, <1>3, <1>4, SequenceOf
<1> QED
  BY <1>4, <1>5 DEF IsData, f, w, fs

\* The frames between two others.
LEMMA InterpolationIs ==
    ASSUME NEW s \in Int, NEW t \in Int, NEW k \in Int, NEW n \in Int \ {0}
    PROVE  getInterpolation(s, t, k, n) \in Int
<1> DEFINE d == Signed(t - s)
           e == Signed(d * k)
           q == Quotient(e, n)
<1>1. t - s \in Int
  OBVIOUS
<1>2. d \in Int
  BY <1>1, UnsignedIsWord
<1> HIDE DEF d
<1>3. d * k \in Int
  BY <1>2
<1>4. e \in Int
  BY <1>3, UnsignedIsWord
<1> HIDE DEF e
<1>5. q \in Int
  BY <1>4, QuotientIsNumber
<1> HIDE DEF q
<1>6. s + q \in Int
  BY <1>5
<1>7. Signed(s + q) \in Int
  BY <1>6, UnsignedIsWord
<1> QED
  BY <1>7 DEF getInterpolation, q, e, d

LEMMA BetweenIs ==
    ASSUME NEW ch, NEW s, IsFrame(s, ch), NEW t, IsFrame(t, ch), NEW k \in Int, NEW n \in Int \ {0}
    PROVE  IsFrame(Between(s, t, ch, k, n), ch)
BY InterpolationIs DEF Between, IsFrame

LEMMA InsertedWritten ==
    ASSUME SizesFit, Factor \in Int \ {0}, NEW s, IsFrame(s, header.channels),
           NEW t, IsFrame(t, header.channels)
    PROVE  /\ IsData(Inserted(s, t))
           /\ Factor > 0 =>
                 /\ Len(Inserted(s, t)) = (Factor - 1) * FrameSize
                 /\ \A k \in 1..((Factor - 1) * FrameSize) :
                       Inserted(s, t)[k] =
                          FrameByte(Between(s, t, header.channels, ((k - 1) \div FrameSize) + 1, Factor),
                                    BytesPerSample, ((k - 1) % FrameSize) + 1)
<1> DEFINE f == Inserted(s, t)
           w == BytesPerSample
           ch == header.channels
           fs == FrameSize
           F == Factor
           m == (F - 1) * fs
           n == IF m < 0 THEN 0 ELSE m
           byte(k) == FrameByte(Between(s, t, ch, ((k - 1) \div fs) + 1, F), w, ((k - 1) % fs) + 1)
<1>1. w \in 1..4 /\ ch \in {1, 2} /\ fs = ch * w /\ fs \in Nat \ {0} /\ F \in Int \ {0}
  BY DEF SizesFit
<1>2. f = [k \in 1..m |-> write_frame(Between(s, t, ch, ((k - 1) \div fs) + 1, F))[((k - 1) % fs) + 1]]
  BY DEF Inserted, Between
<1>3. IsFrame(s, ch) /\ IsFrame(t, ch)
  OBVIOUS
<1>4. m \in Int /\ (F > 0 => m >= 0)
  <2> HIDE DEF fs, F
  <2> QED
    BY <1>1
<1> HIDE DEF f, w, ch, fs, F, m
<1>5. n \in Nat /\ 1..m = 1..n /\ (F > 0 => n = m)
  BY <1>4
<1> HIDE DEF n
<1>6. ASSUME NEW k \in 1..n
      PROVE  /\ write_frame(Between(s, t, ch, ((k - 1) \div fs) + 1, F))[((k - 1) % fs) + 1] = byte(k)
             /\ byte(k) \in Bytes
  <2> DEFINE y == k - 1
             q == y \div fs
             r == y % fs
             frame == Between(s, t, ch, q + 1, F)
             j == r + 1
  <2>1. y \in Int
    BY <1>5
  <2> HIDE DEF y
  <2>2. q \in Int /\ r \in 0..(fs - 1)
    BY <1>1, <2>1, Division
  <2> HIDE DEF q, r
  <2>3. q + 1 \in Int /\ j \in 1..fs
    BY <1>1, <2>2
  <2>4. IsFrame(frame, ch)
    BY <1>1, <1>3, <2>3, BetweenIs
  <2> HIDE DEF frame, j
  <2>5. write_frame(frame)[j] = FrameByte(frame, w, j)
    BY <2>3, <2>4, FrameWritten DEF ch, w, fs
  <2>6. FrameByte(frame, w, j) \in Bytes
    BY <1>1, <2>3, <2>4, FrameByteIs
  <2> QED
    BY <2>5, <2>6 DEF frame, j, q, r, y
<1>7. f = [k \in 1..n |-> f[k]] /\ \A k \in 1..n : f[k] = byte(k) /\ f[k] \in Bytes
  <2>1. f = [k \in 1..n |-> write_frame(Between(s, t, ch, ((k - 1) \div fs) + 1, F))[((k - 1) % fs) + 1]]
    BY <1>2, <1>5
  <2> DEFINE g(k) == write_frame(Between(s, t, ch, ((k - 1) \div fs) + 1, F))[((k - 1) % fs) + 1]
  <2>2. \A k \in 1..n : g(k) = byte(k) /\ byte(k) \in Bytes
    BY <1>6
  <2>3. f = [k \in 1..n |-> g(k)]
    BY <2>1
  <2> HIDE DEF g, byte
  <2> QED
    BY <2>2, <2>3
<1> HIDE DEF byte
<1>8. f \in Seq(Bytes) /\ Len(f) = n
  BY <1>5, <1>7, SequenceOf
<1>9. F > 0 => Len(f) = m /\ \A k \in 1..m : f[k] = byte(k)
  BY <1>5, <1>7, <1>8
<1> QED
  BY <1>8, <1>9 DEF IsData, f, F, m, fs, ch, w, byte

\* What read_frame reads.
LEMMA FrameIsRead ==
    ASSUME SizesFit, NEW f \in Nat, IsData(stdin.data)
    PROVE  /\ read_frame(f * FrameSize) = FrameOf(stdin.data, BytesPerSample, header.channels, f)
           /\ IsFrame(read_frame(f * FrameSize), header.channels)
<1> DEFINE w == BytesPerSample
           ch == header.channels
           fs == FrameSize
           d == stdin.data
<1>1. w \in 1..4 /\ ch \in {1, 2} /\ fs = ch * w
  BY DEF SizesFit
<1>2. read_frame(f * fs) = [c \in 1..ch |-> signExtend(getStdinInt(d, f * fs + (c - 1) * w, w), w)]
  BY DEF read_frame
<1>3. FrameOf(d, w, ch, f) = [c \in 1..ch |-> signExtend(getStdinInt(d, (f * ch + (c - 1)) * w, w), w)]
  BY DEF FrameOf, SampleOf
<1>4. IsData(d)
  OBVIOUS
<1> HIDE DEF w, ch, fs, d
<1>5. ASSUME NEW c \in 1..ch
      PROVE  /\ f * fs + (c - 1) * w = (f * ch + (c - 1)) * w
             /\ SampleOf(d, w, f * ch + (c - 1)) \in Int
  <2>1. f * fs + (c - 1) * w = (f * ch + (c - 1)) * w
    BY <1>1
  <2> DEFINE q == f * ch + (c - 1)
  <2>2. q \in Nat
    BY <1>1
  <2> HIDE DEF q
  <2>3. SampleOf(d, w, q) \in Int
    BY <1>1, <1>4, <2>2, SampleFits DEF IsSigned
  <2> QED
    BY <2>1, <2>3 DEF q
<1> DEFINE a(c) == signExtend(getStdinInt(d, f * fs + (c - 1) * w, w), w)
           b(c) == signExtend(getStdinInt(d, (f * ch + (c - 1)) * w, w), w)
<1>6. \A c \in 1..ch : a(c) = b(c) /\ b(c) \in Int
  BY <1>5 DEF SampleOf
<1>7. read_frame(f * fs) = [c \in 1..ch |-> a(c)] /\ FrameOf(d, w, ch, f) = [c \in 1..ch |-> b(c)]
  BY <1>2, <1>3
<1> HIDE DEF a, b
<1>8. read_frame(f * fs) = FrameOf(d, w, ch, f) /\ IsFrame(read_frame(f * fs), ch)
  BY <1>6, <1>7 DEF IsFrame
<1> QED
  BY <1>8 DEF w, ch, fs, d

-----------------------------------------------------------------------------
(* What the loop has read and written.                                     *)

\* The header of the input, and what the output keeps of it.
HeaderInv ==
    /\ pc \in {"annotate", "loop"} \/ status = "SUCCESS" =>
          /\ header.encoding = stdin.encoding /\ header.channels = stdin.channels
          /\ frames = Signed(Field(stdin.data_size) \div FrameSize)
    /\ pc = "annotate" => header.data_size = Field(stdin.data_size)
    /\ pc = "loop" \/ status = "SUCCESS" =>
          /\ stdout.encoding = header.encoding /\ stdout.channels = header.channels
          /\ isCrypt => stdout.data_size = Field(stdin.data_size)

\* The frames that the output begins with.
OutFrames ==
    IF isCrypt
    THEN CryptFrames(stdin.data, BytesPerSample, header.channels, getKey(global_options))
    ELSE IF isSpeedUp THEN SpeedFrames(stdin.data, BytesPerSample, header.channels, Factor)
    ELSE SlowFrames(stdin.data, BytesPerSample, header.channels, Factor)

\* How far the loop has read: slowDown is a frame ahead and has it in S.
Reading ==
    /\ isSlowDown =>
          IF i = 0 THEN position = 0
          ELSE i < frames =>
                  /\ position = (i + 1) * FrameSize
                  /\ S = FrameOf(stdin.data, BytesPerSample, header.channels, i)
    /\ ~isSlowDown => position = i * FrameSize
    /\ isCrypt /\ i <= Word => next = KeyStates(getKey(global_options), header.channels)[i]

FramesInv ==
    /\ IsData(stdin.data) /\ IsData(stdout.data)
    /\ pc \in {"main", "read", "annotate"} => position = 0
    /\ pc = "loop" => Reading
    /\ pc = "loop" \/ status = "SUCCESS" =>
          (Factor > 0 => Holds(stdout.data, OutFrames, BytesPerSample, header.channels))

\* What the process before this one has read and written, by its command line
\* and its input.
Piped(line, in, n, out) ==
    LET w == out.encoding - 1
        ch == out.channels
        F == getFactor(validargs(line))
    IN  /\ IsData(in.data) /\ in.data_size \in WordValues
        /\ w \in 1..4 /\ ch \in {1, 2}
        /\ n = Signed(Field(in.data_size) \div (ch * w))
        /\ line[2] \in {"-u", "-c"}
        /\ line[2] = "-c" =>
              /\ out.data_size = Field(in.data_size)
              /\ n > 0 => Len(out.data) = n * (ch * w)
              /\ Holds(out.data, CryptFrames(in.data, w, ch, getKey(validargs(line))), w, ch)
        /\ line[2] = "-u" /\ F > 0 =>
              /\ out.data_size = Unsigned((n + (F - 1) * (n - 1)) * (ch * w))
              /\ n > 0 => Len(out.data) = ((n - 1) * F + 1) * (ch * w)
              /\ Holds(out.data, SlowFrames(in.data, w, ch, F), w, ch)

PipeInv ==
    source # <<>> => Piped(argv, source[1].stdin, source[1].frames, stdin)

LEMMA HeaderInvInit == Init => HeaderInv
<1> SUFFICES ASSUME Init PROVE HeaderInv
  OBVIOUS
<1>1. pc = "main" /\ status = "running"
  BY DEF Init, Start
<1> QED
  BY <1>1 DEF HeaderInv

\* recode goes on with the header as it is in the file.
LEMMA HeaderKept ==
    ASSUME OptionsInv, OutputInv, SizeInv, recodeRead
    PROVE  HeaderInv'
<1>1. UNCHANGED <<stdin, stdout>> /\ pc = "read" /\ status = "running"
  BY DEF recodeRead, OptionsInv
<1>2. CASE validHeader(stdin) /\ read_annotation(stdin)
  <2>1. /\ header' = read_header(stdin)
        /\ frames' = Signed(header'.data_size \div (header'.channels * (header'.encoding - 1)))
        /\ pc' = "annotate" /\ status' = "running"
    BY <1>1, <1>2 DEF recodeRead
  <2>2. DOMAIN stdin = Fields
    BY DEF OutputInv, IsAnnotated
  <2>3. /\ header'.data_size = Field(stdin.data_size)
        /\ header'.channels = Field(stdin.channels)
        /\ header'.encoding = Field(stdin.encoding)
    BY <2>1, <2>2 DEF read_header, Fields
  <2>4. Field(stdin.channels) \in {1, 2} /\ Field(stdin.encoding) \in 2..5
    BY <1>2 DEF validHeader, validChannels, validEncoding, PCM8_ENCODING, PCM32_ENCODING
  <2>5. Field(stdin.channels) = stdin.channels /\ Field(stdin.encoding) = stdin.encoding
    BY <2>4 DEF Field
  <2>6. frames' = Signed(header'.data_size \div FrameSize')
    BY <2>1 DEF FrameSize, BytesPerSample
  <2> QED
    BY <1>1, <2>1, <2>3, <2>5, <2>6 DEF HeaderInv
<1>3. CASE ~(validHeader(stdin) /\ read_annotation(stdin))
  <2>1. pc' = "exit" /\ status' = "FAILURE"
    BY <1>3 DEF recodeRead, Exit
  <2> QED
    BY <2>1 DEF HeaderInv
<1> QED
  BY <1>2, <1>3

\* And writes it with another size and annotation.
LEMMA HeaderWritten ==
    ASSUME OptionsInv, OutputInv, SizeInv, HeaderInv, pc = "annotate", NEW offset, NEW text,
           WriteHeader(offset, text),
           UNCHANGED <<argv, stdin, global_options, frames, i, status>>
    PROVE  HeaderInv'
<1> DEFINE size == setNewDataSize(header.data_size, FrameSize, frames)
<1>1. /\ header' = [header EXCEPT !.data_size = size, !.data_offset = offset, !.text = text]
      /\ stdout' = header' /\ pc' = "loop"
  BY DEF WriteHeader
<1>2. DOMAIN header = Fields /\ status = "running"
  BY DEF OutputInv, OptionsInv
<1>3. isCrypt => size = header.data_size
  BY TransformationOptions DEF setNewDataSize
<1> HIDE DEF size
<1>4. /\ header'.data_size = size
      /\ header'.channels = header.channels /\ header'.encoding = header.encoding
  BY <1>1, <1>2 DEF Fields
<1>5. FrameSize' = FrameSize /\ (isCrypt' <=> isCrypt)
  BY <1>4 DEF FrameSize, BytesPerSample, isCrypt
<1> QED
  BY <1>1, <1>2, <1>3, <1>4, <1>5 DEF HeaderInv

\* A round of the loop leaves the header alone.
LEMMA HeaderOfLoop ==
    ASSUME OutputInv, HeaderInv, pc = "loop", NEW bytes, Emit(bytes) \/ UNCHANGED stdout,
           UNCHANGED <<argv, stdin, global_options, header, frames, pc, status>>
    PROVE  HeaderInv'
<1>1. DOMAIN stdout = Fields
  BY DEF OutputInv, IsAnnotated
<1>2. /\ stdout'.encoding = stdout.encoding /\ stdout'.channels = stdout.channels
      /\ stdout'.data_size = stdout.data_size
  BY <1>1 DEF Emit, Fields
<1>3. FrameSize' = FrameSize /\ (isCrypt' <=> isCrypt)
  BY DEF FrameSize, BytesPerSample, isCrypt
<1> QED
  BY <1>2, <1>3 DEF HeaderInv

LEMMA HeaderInvNext == OptionsInv /\ OutputInv /\ SizeInv /\ HeaderInv /\ [Next]_vars => HeaderInv'
<1> SUFFICES ASSUME OptionsInv, OutputInv, SizeInv, HeaderInv, [Next]_vars PROVE HeaderInv'
  OBVIOUS
<1>1. CASE main
  <2>1. pc' \in {"exit", "read"} /\ status' # "SUCCESS"
    BY <1>1 DEF main, Exit, OptionsInv
  <2> QED
    BY <2>1 DEF HeaderInv
<1>2. CASE recodeRead
  BY <1>2, HeaderKept
<1>3. CASE recodePreserve
  BY <1>3, HeaderWritten DEF recodePreserve
<1>4. CASE recodeAnnotate
  <2> DEFINE text == <<SubSeq(argv, 1, getArgC(global_options))>> \o header.text
             size == newSize(text)
  <2>1. pc = "annotate" /\ UNCHANGED <<argv, stdin, global_options, frames, i>>
    BY <1>4 DEF recodeAnnotate
  <2>2. \/ stdout' = stdout /\ pc' = "exit" /\ status' # "SUCCESS"
        \/ WriteHeader(HeaderSize + size, text) /\ status' = status
    BY <1>4 DEF recodeAnnotate, Exit
  <2> HIDE DEF text, size
  <2>3. CASE stdout' = stdout /\ pc' = "exit" /\ status' # "SUCCESS"
    BY <2>1, <2>3 DEF HeaderInv
  <2>4. CASE WriteHeader(HeaderSize + size, text) /\ status' = status
    BY <2>1, <2>4, HeaderWritten
  <2> QED
    BY <2>2, <2>3, <2>4
<1>5. CASE speedUp
  <2>1. pc = "loop" /\ UNCHANGED <<argv, stdin, global_options, header, frames, pc, status>>
    BY <1>5 DEF speedUp, Loop
  <2>2. PICK bytes : Emit(bytes) \/ UNCHANGED stdout
    BY <1>5 DEF speedUp
  <2> QED
    BY <2>1, <2>2, HeaderOfLoop
<1>6. CASE slowDown
  <2>1. pc = "loop" /\ UNCHANGED <<argv, stdin, global_options, header, frames, pc, status>>
    BY <1>6 DEF slowDown, Loop
  <2>2. PICK bytes : Emit(bytes) \/ UNCHANGED stdout
    BY <1>6 DEF slowDown
  <2> QED
    BY <2>1, <2>2, HeaderOfLoop
<1>7. CASE crypt
  <2>1. pc = "loop" /\ UNCHANGED <<argv, stdin, global_options, header, frames, pc, status>>
    BY <1>7 DEF crypt, Loop
  <2>2. PICK bytes : Emit(bytes) \/ UNCHANGED stdout
    BY <1>7 DEF crypt
  <2> QED
    BY <2>1, <2>2, HeaderOfLoop
<1>8. CASE recodeReturn
  <2>1. /\ pc = "loop" /\ pc' = "exit" /\ status' = "SUCCESS"
        /\ UNCHANGED <<stdin, stdout, header, frames, global_options>>
    BY <1>8 DEF recodeReturn, Exit
  <2> QED
    BY <2>1 DEF HeaderInv, FrameSize, BytesPerSample, isCrypt
<1>9. CASE Pipe
  <2>1. pc' = "main" /\ status' = "running"
    BY <1>9 DEF Pipe
  <2> QED
    BY <2>1 DEF HeaderInv
<1>10. ASSUME UNCHANGED vars PROVE HeaderInv'
  <2>1. UNCHANGED <<stdin, stdout, header, frames, global_options, pc, status>>
    BY <1>10 DEF vars
  <2> QED
    BY <2>1 DEF HeaderInv, FrameSize, BytesPerSample, isCrypt
<1>11. CASE Ended
  BY <1>10, <1>11 DEF Ended
<1>12. CASE UNCHANGED vars
  BY <1>10, <1>12
<1> QED
  BY <1>1, <1>2, <1>3, <1>4, <1>5, <1>6, <1>7, <1>8, <1>9, <1>11, <1>12 DEF Next

LEMMA FramesInvInit == Init => FramesInv
<1> SUFFICES ASSUME Init PROVE FramesInv
  OBVIOUS
<1>1. PICK line \in CommandLines : \E file \in Files \cup {NoFile} : Start(line, file)
  BY DEF Init
<1>2. PICK file \in Files \cup {NoFile} : Start(line, file)
  BY <1>1
<1>3. IsData(NoFile.data)
  BY EmptySeq DEF NoFile, IsData
<1>4. IsData(file.data)
  BY <1>2, <1>3, AudibleAssumption DEF FileType, IsData, Bytes
<1>5. stdin = file /\ stdout = NoFile /\ position = 0 /\ pc = "main" /\ status = "running"
  BY <1>2 DEF Start
<1> QED
  BY <1>3, <1>4, <1>5 DEF FramesInv

\* Before the loop nothing is written.
LEMMA FramesWrittenHeader ==
    ASSUME OptionsInv, OutputInv, SizeInv, FramesInv, pc = "annotate", NEW offset, NEW text,
           WriteHeader(offset, text),
           UNCHANGED <<argv, stdin, global_options, frames, i, status, position, S>>
    PROVE  FramesInv'
<1> DEFINE size == setNewDataSize(header.data_size, FrameSize, frames)
<1>1. /\ header' = [header EXCEPT !.data_size = size, !.data_offset = offset, !.text = text]
      /\ stdout' = header' /\ pc' = "loop" /\ next' = getKey(global_options)
  BY DEF WriteHeader
<1>2. DOMAIN header = Fields /\ status = "running" /\ i = 0 /\ position = 0 /\ header.data = <<>>
  BY DEF OutputInv, OptionsInv, SizeInv, FramesInv
<1> HIDE DEF size
<1>3. stdout'.data = <<>> /\ header'.channels = header.channels
  BY <1>1, <1>2 DEF Fields
<1>4. IsData(stdout'.data) /\ Len(stdout'.data) = 0
  BY <1>3, EmptySeq DEF IsData
<1> DEFINE G == OutFrames'
           w == BytesPerSample'
           ch == header.channels'
           data == stdout'.data
<1>5. Holds(data, G, w, ch)
  <2> HIDE DEF G, w, ch, data
  <2>1. 1..Len(data) = {}
    BY <1>4 DEF data
  <2> QED
    BY <2>1 DEF Holds
<1>6. next' = KeyStates(getKey(global_options), header.channels)[0]
  <2>1. header.channels \in {1, 2}
    BY DEF SizeInv
  <2>2. getKey(global_options) \in Nat
    BY KeyIsNumber DEF OptionsInv
  <2> QED
    BY <1>1, <2>1, <2>2, KeysAre
<1>7. Reading'
  <2> DEFINE fs == FrameSize'
  <2>1. fs \in Int
    <3>1. SizesFit
      BY SizesAre
    <3>2. header'.encoding = header.encoding
      BY <1>1, <1>2 DEF Fields
    <3>3. fs = FrameSize
      BY <1>3, <3>2 DEF FrameSize, BytesPerSample
    <3> HIDE DEF fs
    <3> QED
      BY <3>1, <3>3 DEF SizesFit
  <2>2. i' * fs = 0
    <3> HIDE DEF fs
    <3> QED
      BY <1>2, <2>1
  <2>3. i' = 0 /\ position' = 0
    BY <1>2
  <2>4. next' = KeyStates(getKey(global_options)', header.channels')[i']
    BY <1>3, <1>6, <2>3
  <2> QED
    BY <2>2, <2>3, <2>4 DEF Reading
<1> QED
  BY <1>1, <1>2, <1>4, <1>5, <1>7 DEF FramesInv

\* A round of the loop that writes the next frames.
LEMMA FramesStep ==
    ASSUME OutputInv, FramesInv, pc = "loop",
           UNCHANGED <<argv, stdin, global_options, header, frames, pc, status>>,
           Reading',
           NEW bytes, IsData(bytes), Emit(bytes),
           Factor > 0 => \A k \in 1..Len(bytes) :
               bytes[k] = ByteOf(OutFrames, BytesPerSample, header.channels, Len(stdout.data) + k)
    PROVE  FramesInv'
<1> DEFINE d == stdout.data
<1>1. DOMAIN stdout = Fields /\ IsData(d) /\ IsData(stdin.data)
  BY DEF OutputInv, IsAnnotated, FramesInv
<1>2. stdout'.data = d \o bytes
  BY <1>1 DEF Emit, Fields
<1>3. IsData(d \o bytes)
  <2> HIDE DEF d
  <2> QED
    BY <1>1, ConcatProperties DEF IsData
<1>4. IsSequence(d) /\ IsSequence(bytes)
  BY <1>1 DEF IsData, IsSequence
<1>5. /\ OutFrames' = OutFrames /\ BytesPerSample' = BytesPerSample /\ Factor' = Factor
      /\ header.channels' = header.channels
  BY DEF OutFrames, BytesPerSample, Factor, isCrypt, isSpeedUp
<1>6. Factor > 0 => Holds(d \o bytes, OutFrames, BytesPerSample, header.channels)
  <2> SUFFICES ASSUME Factor > 0 PROVE Holds(d \o bytes, OutFrames, BytesPerSample, header.channels)
    OBVIOUS
  <2> DEFINE G == OutFrames
             w == BytesPerSample
             ch == header.channels
  <2>1. Holds(d, G, w, ch)
    BY DEF FramesInv
  <2>2. \A k \in 1..Len(bytes) : bytes[k] = ByteOf(G, w, ch, Len(d) + k)
    OBVIOUS
  <2> HIDE DEF G, w, ch, d
  <2>3. Holds(d \o bytes, G, w, ch)
    BY <1>4, <2>1, <2>2, FramesHeld
  <2> QED
    BY <2>3 DEF G, w, ch
<1> HIDE DEF d
<1> QED
  BY <1>1, <1>2, <1>3, <1>5, <1>6 DEF FramesInv

\* One that writes nothing.
LEMMA FramesKept ==
    ASSUME FramesInv, pc = "loop",
           UNCHANGED <<argv, stdin, global_options, header, frames, stdout, pc, status>>,
           Reading'
    PROVE  FramesInv'
<1>1. /\ OutFrames' = OutFrames /\ BytesPerSample' = BytesPerSample /\ Factor' = Factor
      /\ header.channels' = header.channels
  BY DEF OutFrames, BytesPerSample, Factor, isCrypt, isSpeedUp
<1> QED
  BY <1>1 DEF FramesInv

LEMMA FramesSpeedUp ==
    ASSUME OptionsInv, OutputInv, SizeInv, FramesInv, speedUp
    PROVE  FramesInv'
<1>1. /\ Loop /\ pc = "loop" /\ isSpeedUp /\ i < frames /\ i' = i + 1
      /\ UNCHANGED <<argv, stdin, global_options, header, frames, pc, status, next>>
      /\ position' = position + FrameSize
  BY DEF speedUp, Loop
<1>2. SizesFit /\ Factor \in Int \ {0} /\ ~isCrypt /\ ~isSlowDown
  BY <1>1, SizesAre, TransformationOptions
<1>3. i \in Nat /\ position = i * FrameSize /\ IsData(stdin.data)
  BY <1>1, <1>2 DEF SizeInv, FramesInv, Reading
<1>4. Reading'
  <2>1. FrameSize' = FrameSize /\ (isCrypt' <=> isCrypt) /\ (isSlowDown' <=> isSlowDown)
    BY <1>1 DEF FrameSize, BytesPerSample, isCrypt, isSlowDown
  <2> DEFINE fs == FrameSize
  <2>2. fs \in Nat /\ position' = i * fs + fs
    BY <1>1, <1>2, <1>3 DEF SizesFit
  <2> HIDE DEF fs
  <2>3. (i + 1) * fs = i * fs + fs
    BY <1>3, <2>2
  <2>4. position' = i' * FrameSize'
    BY <1>1, <2>1, <2>2, <2>3 DEF fs
  <2> QED
    BY <1>2, <2>1, <2>4 DEF Reading
<1> DEFINE frame == read_frame(position)
           bytes == write_frame(frame)
<1>5. frame = FrameOf(stdin.data, BytesPerSample, header.channels, i) /\ IsFrame(frame, header.channels)
  BY <1>2, <1>3, FrameIsRead
<1>6. IF i % Magnitude(Factor) = 0 THEN Emit(bytes) ELSE UNCHANGED stdout
  BY DEF speedUp
<1> HIDE DEF frame
<1>7. /\ IsData(bytes) /\ Len(bytes) = FrameSize
      /\ \A k \in 1..FrameSize : bytes[k] = FrameByte(frame, BytesPerSample, k)
  BY <1>2, <1>5, FrameWritten
<1> HIDE DEF bytes
<1>8. CASE i % Magnitude(Factor) # 0
  BY <1>1, <1>4, <1>6, <1>8, FramesKept
<1>9. CASE i % Magnitude(Factor) = 0
  <2>1. ASSUME Factor > 0, NEW k \in 1..Len(bytes)
        PROVE  bytes[k] = ByteOf(OutFrames, BytesPerSample, header.channels, Len(stdout.data) + k)
    <3> DEFINE w == BytesPerSample
               ch == header.channels
               F == Factor
               M == i \div F
               G == OutFrames
               len == Len(stdout.data)
    <3>1. F \in Nat \ {0} /\ w \in 1..4 /\ ch \in {1, 2} /\ FrameSize = ch * w
      BY <1>2, <2>1 DEF SizesFit
    <3>2. i % F = 0
      BY <1>9, <2>1, <3>1 DEF Magnitude
    <3>3. len = ((i + (F - 1)) \div F) * FrameSize
      BY <1>1, <1>2, <2>1 DEF SizeInv, FramesWritten
    <3>4. G = SpeedFrames(stdin.data, w, ch, F)
      BY <1>1, <1>2 DEF OutFrames
    <3>5. k \in 1..(ch * w) /\ bytes[k] = FrameByte(frame, w, k)
      BY <1>7, <3>1
    <3> HIDE DEF w, ch, F, G, len, M
    <3>6. M \in Nat /\ i = M * F /\ (i + (F - 1)) \div F = M
      BY <1>3, <3>1, <3>2, MultipleIs DEF M
    <3> DEFINE x == len + k
    <3>8. PlaceOf(x, M, k, w, ch)
      BY <3>1, <3>3, <3>5, <3>6 DEF PlaceOf
    <3> HIDE DEF x
    <3>9. ByteOf(G, w, ch, x) = FrameByte(G[M], w, k)
      BY <3>8, ByteOfPlace
    <3>10. G[M] = FrameOf(stdin.data, w, ch, M * F)
      BY <3>4, <3>6 DEF SpeedFrames
    <3>11. frame = FrameOf(stdin.data, w, ch, i)
      BY <1>5 DEF w, ch
    <3>12. bytes[k] = ByteOf(G, w, ch, x)
      BY <3>5, <3>6, <3>9, <3>10, <3>11
    <3> QED
      BY <3>12 DEF G, w, ch, len, x
  <2>2. Factor > 0 => \A k \in 1..Len(bytes) :
            bytes[k] = ByteOf(OutFrames, BytesPerSample, header.channels, Len(stdout.data) + k)
    BY <2>1
  <2>3. Emit(bytes)
    BY <1>6, <1>9
  <2> QED
    BY <1>1, <1>4, <1>7, <2>2, <2>3, FramesStep
<1> QED
  BY <1>8, <1>9

\* The place of byte k of frame n after slowDown, and of byte k of what it inserts there.
AfterFrame(n, w, ch, F) == w \in 1..4 /\ ch \in {1, 2} /\ F \in Nat \ {0} /\ n \in Nat

KeptAt(place, k, n, w, ch, F) ==
    k \in 1..(ch * w) /\ place = (n * F) * (ch * w) + k

InsertedAt(place, k, n, w, ch, F) ==
    k \in 1..((F - 1) * (ch * w)) /\ place = (n * F) * (ch * w) + ((ch * w) + k)

\* Byte k of frame n itself.
LEMMA KeptBytes ==
    ASSUME NEW w, NEW ch, NEW F, NEW n, AfterFrame(n, w, ch, F), NEW data
    PROVE  \A place, k : KeptAt(place, k, n, w, ch, F) =>
              ByteOf(SlowFrames(data, w, ch, F), w, ch, place) = FrameByte(FrameOf(data, w, ch, n), w, k)
<1> SUFFICES ASSUME NEW place, NEW k, KeptAt(place, k, n, w, ch, F)
             PROVE  ByteOf(SlowFrames(data, w, ch, F), w, ch, place) = FrameByte(FrameOf(data, w, ch, n), w, k)
  OBVIOUS
<1>0. /\ w \in 1..4 /\ ch \in {1, 2} /\ F \in Nat \ {0} /\ n \in Nat /\ k \in 1..(ch * w)
      /\ place = (n * F) * (ch * w) + k
  BY DEF AfterFrame, KeptAt
<1> DEFINE G == SlowFrames(data, w, ch, F)
           m == n * F
<1>1. m \in Nat
  BY <1>0
<1>2. m \div F = n /\ m % F = 0
  <2> HIDE DEF m
  <2> DEFINE z == 0
  <2>1. n \in Int /\ z \in 0..(F - 1) /\ m = n * F + z
    BY <1>0, <1>1 DEF m
  <2> HIDE DEF z
  <2>2. m \div F = n /\ m % F = z
    BY <1>0, <2>1, DivisionUnique
  <2> QED
    BY <1>0, <2>2 DEF z
<1> HIDE DEF m
<1>3. G[m] = FrameOf(data, w, ch, n)
  BY <1>0, <1>1, <1>2 DEF SlowFrames
<1> HIDE DEF G
<1>4. ByteOf(G, w, ch, m * (ch * w) + k) = FrameByte(G[m], w, k)
  <2> DEFINE byte == m * (ch * w) + k
  <2>1. PlaceOf(byte, m, k, w, ch)
    BY <1>0, <1>1 DEF PlaceOf
  <2> HIDE DEF byte
  <2>2. ByteOf(G, w, ch, byte) = FrameByte(G[m], w, k)
    BY <1>0, <2>1, ByteOfPlace
  <2> QED
    BY <1>0, <2>2 DEF byte
<1> QED
  BY <1>0, <1>3, <1>4 DEF G, m

\* Byte k of the frames that slowDown inserts after frame n.
LEMMA InsertedBytes ==
    ASSUME NEW w, NEW ch, NEW F, NEW n, AfterFrame(n, w, ch, F), NEW data
    PROVE  \A place, k : InsertedAt(place, k, n, w, ch, F) =>
              ByteOf(SlowFrames(data, w, ch, F), w, ch, place)
                 = FrameByte(Between(FrameOf(data, w, ch, n), FrameOf(data, w, ch, n + 1), ch,
                                     ((k - 1) \div (ch * w)) + 1, F),
                             w, ((k - 1) % (ch * w)) + 1)
<1> SUFFICES ASSUME NEW place, NEW k, InsertedAt(place, k, n, w, ch, F)
             PROVE  ByteOf(SlowFrames(data, w, ch, F), w, ch, place)
                       = FrameByte(Between(FrameOf(data, w, ch, n), FrameOf(data, w, ch, n + 1), ch,
                                           ((k - 1) \div (ch * w)) + 1, F),
                                   w, ((k - 1) % (ch * w)) + 1)
  OBVIOUS
<1>0. /\ w \in 1..4 /\ ch \in {1, 2} /\ F \in Nat \ {0} /\ n \in Nat /\ k \in 1..((F - 1) * (ch * w))
      /\ place = (n * F) * (ch * w) + ((ch * w) + k)
  BY DEF AfterFrame, InsertedAt
<1> DEFINE fs == ch * w
           G == SlowFrames(data, w, ch, F)
           q == (k - 1) \div fs
           r == (k - 1) % fs
           g == q + 1
           m == n * F + g
<1>1. fs \in Nat \ {0}
  BY <1>0
<1>2. k \in Nat \ {0} /\ k <= (F - 1) * fs
  <2> HIDE DEF fs
  <2>1. (F - 1) * fs \in Int
    BY <1>0, <1>1
  <2>2. k \in 1..((F - 1) * fs)
    BY <1>0 DEF fs
  <2> QED
    BY <1>0, <2>1, <2>2
<1> HIDE DEF fs
<1>3. q \in Int /\ r \in 0..(fs - 1) /\ k - 1 = fs * q + r
  <2>1. k - 1 \in Int
    BY <1>0, <1>2
  <2> QED
    BY <1>0, <1>1, <2>1, Division
<1> HIDE DEF q, r
<1>4. q >= 0 /\ q < F - 1
  <2>1. q >= 0
    <3>1. q <= -1 => fs * q <= -fs
      BY <1>0, <1>1, <1>3
    <3> DEFINE x == fs * q
    <3>2. x \in Int /\ k - 1 = x + r /\ (q <= -1 => x <= -fs)
      BY <1>0, <1>1, <1>3, <3>1
    <3> HIDE DEF x
    <3> QED
      BY <1>0, <1>1, <1>2, <1>3, <3>2
  <2>2. q < F - 1
    <3>1. q >= F - 1 => fs * q >= fs * (F - 1)
      BY <1>0, <1>1, <1>3
    <3> DEFINE x == fs * q
               y == fs * (F - 1)
    <3>2. x \in Int /\ y \in Int /\ k - 1 = x + r /\ k <= y /\ (q >= F - 1 => x >= y)
      BY <1>0, <1>1, <1>2, <1>3, <3>1
    <3> HIDE DEF x, y
    <3> QED
      BY <1>0, <1>1, <1>2, <1>3, <3>2
  <2> QED
    BY <1>0, <2>1, <2>2
<1>5. g \in 1..(F - 1)
  BY <1>0, <1>3, <1>4
<1> HIDE DEF g
<1>6. n * F \in Nat /\ m \in Nat
  BY <1>0, <1>5
<1>7. m \div F = n /\ m % F = g
  <2> HIDE DEF m
  <2>1. n \in Int /\ g \in 0..(F - 1) /\ m = n * F + g
    BY <1>0, <1>5 DEF m
  <2> QED
    BY <1>0, <2>1, DivisionUnique
<1>8. (n * F) * fs + (fs + k) = m * fs + (r + 1)
  <2> DEFINE nf == n * F
             a == nf * fs
             b == q * fs
  <2>1. nf \in Nat /\ m = nf + (q + 1)
    BY <1>0, <1>6 DEF m, g
  <2> HIDE DEF nf, m
  <2>2. a \in Int /\ b \in Int /\ k - 1 = b + r
    BY <1>0, <1>1, <1>3, <2>1
  <2>3. m * fs = a + (b + fs)
    BY <1>0, <1>1, <1>3, <2>1
  <2> HIDE DEF a, b
  <2>4. a + (fs + k) = m * fs + (r + 1)
    BY <1>0, <1>1, <1>2, <1>3, <2>2, <2>3
  <2> QED
    BY <1>0, <2>4 DEF a, nf
<1> HIDE DEF m
<1>9. r + 1 \in 1..fs
  BY <1>0, <1>1, <1>3
<1>10. ByteOf(G, w, ch, m * fs + (r + 1)) = FrameByte(G[m], w, r + 1)
  <2> HIDE DEF G
  <2> DEFINE c == r + 1
  <2>1. c \in 1..(ch * w)
    BY <1>0, <1>9 DEF fs
  <2> HIDE DEF c
  <2> DEFINE byte == m * (ch * w) + c
  <2>2. PlaceOf(byte, m, c, w, ch)
    BY <1>0, <1>6, <2>1 DEF PlaceOf
  <2> HIDE DEF byte
  <2>3. ByteOf(G, w, ch, byte) = FrameByte(G[m], w, c)
    BY <1>0, <2>2, ByteOfPlace
  <2> QED
    BY <1>0, <2>3 DEF byte, c, fs
<1>11. G[m] = Between(FrameOf(data, w, ch, n), FrameOf(data, w, ch, n + 1), ch, g, F)
  <2>1. g # 0
    BY <1>0, <1>5
  <2> QED
    BY <1>0, <1>6, <1>7, <2>1 DEF SlowFrames
<1> HIDE DEF G
<1>12. ByteOf(G, w, ch, (n * F) * fs + (fs + k)) = FrameByte(G[m], w, r + 1)
  BY <1>0, <1>8, <1>10
<1> QED
  BY <1>0, <1>11, <1>12 DEF G, fs, g, q, r

\* What slowDown reads.
LEMMA SlowDownReads ==
    ASSUME OptionsInv, OutputInv, SizeInv, FramesInv, slowDown
    PROVE  LET s == FrameOf(stdin.data, BytesPerSample, header.channels, i)
               t == FrameOf(stdin.data, BytesPerSample, header.channels, i + 1)
           IN  /\ IsFrame(s, header.channels) /\ IsFrame(t, header.channels)
               /\ IF i + 1 < frames
                  THEN Emit(write_frame(s) \o Inserted(s, t)) /\ S' = t
                       /\ position' = (i + 2) * FrameSize
                  ELSE Emit(write_frame(s))
<1>1. Loop /\ pc = "loop" /\ isSlowDown /\ i < frames
  BY DEF slowDown, Loop
<1>2. SizesFit /\ i \in Nat /\ IsData(stdin.data) /\ Reading
  BY <1>1, SizesAre DEF SizeInv, FramesInv
<1> DEFINE s == FrameOf(stdin.data, BytesPerSample, header.channels, i)
           t == FrameOf(stdin.data, BytesPerSample, header.channels, i + 1)
           fs == FrameSize
           n == i + 1
           a == IF i = 0 THEN read_frame(position) ELSE S
           p == IF i = 0 THEN position + fs ELSE position
<1>3. fs \in Nat
  BY <1>2 DEF SizesFit
<1>4. read_frame(i * fs) = s /\ IsFrame(s, header.channels)
  BY <1>2, FrameIsRead
<1>5. n \in Nat
  BY <1>2
<1>6. read_frame(n * fs) = t /\ IsFrame(t, header.channels)
  <2> HIDE DEF n
  <2>1. /\ read_frame(n * FrameSize) = FrameOf(stdin.data, BytesPerSample, header.channels, n)
        /\ IsFrame(read_frame(n * FrameSize), header.channels)
    BY <1>2, <1>5, FrameIsRead
  <2>2. t = FrameOf(stdin.data, BytesPerSample, header.channels, n)
    BY DEF n
  <2> HIDE DEF t
  <2> QED
    BY <2>1, <2>2
<1>7. IF i = 0 THEN position = 0 ELSE position = n * fs /\ S = s
  BY <1>1, <1>2 DEF Reading
<1>8. /\ 0 * fs = 0 /\ 1 * fs = fs
      /\ (i + 2) * fs = n * fs + fs
  <2> HIDE DEF fs
  <2> QED
    BY <1>2, <1>3
<1>9. a = s /\ p = n * fs
  <2> HIDE DEF s, fs
  <2>1. CASE i = 0
    <3>1. position = i * fs /\ n = 1 /\ 0 + fs = fs
      BY <1>3, <1>7, <1>8, <2>1
    <3> QED
      BY <1>4, <1>7, <1>8, <2>1, <3>1
  <2>2. CASE i # 0
    BY <1>7, <2>2
  <2> QED
    BY <2>1, <2>2
<1>10. LET b == read_frame(p)
       IN  IF i + 1 < frames
           THEN Emit(write_frame(a) \o Inserted(a, b)) /\ S' = b /\ position' = p + fs
           ELSE Emit(write_frame(a)) /\ S' = a /\ position' = p
  BY DEF slowDown
<1> HIDE DEF a, p, s, t, fs, n
<1>11. read_frame(p) = t /\ p + fs = (i + 2) * fs
  BY <1>6, <1>8, <1>9
<1>12. IF i + 1 < frames
       THEN Emit(write_frame(s) \o Inserted(s, t)) /\ S' = t /\ position' = (i + 2) * fs
       ELSE Emit(write_frame(s))
  BY <1>9, <1>10, <1>11
<1> QED
  BY <1>4, <1>6, <1>12 DEF s, t, fs

LEMMA FramesSlowDown ==
    ASSUME OptionsInv, OutputInv, SizeInv, FramesInv, slowDown
    PROVE  FramesInv'
<1>1. /\ Loop /\ pc = "loop" /\ isSlowDown /\ i < frames /\ i' = i + 1
      /\ UNCHANGED <<argv, stdin, global_options, header, frames, pc, status>>
  BY DEF slowDown, Loop
<1>2. SizesFit /\ Factor \in Int \ {0} /\ ~isCrypt /\ ~isSpeedUp
  BY <1>1, SizesAre, TransformationOptions
<1>3. i \in Nat /\ frames \in Int
  BY <1>1 DEF SizeInv
<1> DEFINE w == BytesPerSample
           ch == header.channels
           F == Factor
           fs == FrameSize
           data == stdin.data
           s == FrameOf(data, w, ch, i)
           t == FrameOf(data, w, ch, i + 1)
           G == OutFrames
           len == Len(stdout.data)
           kept == write_frame(s)
           more == Inserted(s, t)
<1>4. /\ IsFrame(s, ch) /\ IsFrame(t, ch)
      /\ IF i + 1 < frames
         THEN Emit(kept \o more) /\ S' = t /\ position' = (i + 2) * fs
         ELSE Emit(kept)
  BY SlowDownReads
<1>5. Reading'
  <2>1. /\ FrameSize' = fs /\ (isCrypt' <=> isCrypt) /\ (isSlowDown' <=> isSlowDown)
        /\ BytesPerSample' = w /\ header.channels' = ch /\ stdin.data' = data
    BY <1>1 DEF FrameSize, BytesPerSample, isCrypt, isSlowDown
  <2> HIDE DEF fs, w, ch, data, kept, more
  <2>2. i' + 1 = i + 2
    BY <1>1, <1>3
  <2>3. i' < frames' => position' = (i' + 1) * FrameSize'
    BY <1>1, <1>4, <2>1, <2>2
  <2>4. i' < frames' => S' = FrameOf(stdin.data', BytesPerSample', header.channels', i')
    BY <1>1, <1>4, <2>1
  <2>5. i' # 0
    BY <1>1, <1>3
  <2> QED
    BY <1>1, <1>2, <2>1, <2>3, <2>4, <2>5 DEF Reading
<1>6. /\ IsData(kept) /\ Len(kept) = fs
      /\ \A k \in 1..fs : kept[k] = FrameByte(s, w, k)
  <2> HIDE DEF s
  <2> QED
    BY <1>2, <1>4, FrameWritten
<1>7. /\ IsData(more)
      /\ F > 0 =>
            /\ Len(more) = (F - 1) * fs
            /\ \A k \in 1..((F - 1) * fs) :
                  more[k] = FrameByte(Between(s, t, ch, ((k - 1) \div fs) + 1, F), w, ((k - 1) % fs) + 1)
  <2> HIDE DEF s, t
  <2> QED
    BY <1>2, <1>4, InsertedWritten
<1>8. w \in 1..4 /\ ch \in {1, 2} /\ fs = ch * w /\ F \in Int \ {0} /\ fs \in Nat \ {0}
  BY <1>2 DEF SizesFit
<1>9. F > 0 => G = SlowFrames(data, w, ch, F) /\ len = (i * F) * fs
  <2>1. G = SlowFrames(data, w, ch, F)
    BY <1>2 DEF OutFrames
  <2>2. F > 0 => len = (i * F) * fs
    BY <1>1, <1>2 DEF SizeInv, FramesWritten
  <2> QED
    BY <2>1, <2>2
<1> HIDE DEF w, ch, F, fs, data, G, len, kept, more
<1>10. ASSUME F > 0, NEW k \in 1..fs
       PROVE  kept[k] = ByteOf(G, w, ch, len + k)
  <2> DEFINE place == len + k
  <2>1. AfterFrame(i, w, ch, F) /\ KeptAt(place, k, i, w, ch, F)
    BY <1>3, <1>8, <1>9, <1>10 DEF AfterFrame, KeptAt
  <2> HIDE DEF place
  <2>2. ByteOf(SlowFrames(data, w, ch, F), w, ch, place) = FrameByte(s, w, k)
    BY <2>1, KeptBytes
  <2> HIDE DEF s
  <2> QED
    BY <1>6, <1>9, <1>10, <2>2 DEF place
<1>11. ASSUME F > 0, NEW k \in 1..((F - 1) * fs)
       PROVE  more[k] = ByteOf(G, w, ch, len + (fs + k))
  <2> DEFINE place == len + (fs + k)
  <2>1. AfterFrame(i, w, ch, F) /\ InsertedAt(place, k, i, w, ch, F)
    BY <1>3, <1>8, <1>9, <1>11 DEF AfterFrame, InsertedAt
  <2> HIDE DEF place
  <2>2. ByteOf(SlowFrames(data, w, ch, F), w, ch, place)
           = FrameByte(Between(s, t, ch, ((k - 1) \div (ch * w)) + 1, F), w, ((k - 1) % (ch * w)) + 1)
    BY <2>1, InsertedBytes
  <2> HIDE DEF s, t
  <2>3. more[k] = FrameByte(Between(s, t, ch, ((k - 1) \div fs) + 1, F), w, ((k - 1) % fs) + 1)
    BY <1>7, <1>11
  <2> QED
    BY <1>8, <1>9, <1>11, <2>2, <2>3 DEF place
<1> HIDE DEF s, t
<1> DEFINE bytes == IF i + 1 < frames THEN kept \o more ELSE kept
<1>12. Emit(bytes)
  BY <1>4
<1>13. IsData(bytes)
  BY <1>6, <1>7, ConcatProperties DEF IsData
<1>14. ASSUME F > 0, NEW k \in 1..Len(bytes)
       PROVE  bytes[k] = ByteOf(G, w, ch, len + k)
  <2>1. CASE ~(i + 1 < frames)
    BY <1>6, <1>10, <1>14, <2>1
  <2>2. CASE i + 1 < frames
    <3> DEFINE mlen == (F - 1) * fs
    <3>1. kept \in Seq(Bytes) /\ more \in Seq(Bytes) /\ Len(kept) = fs /\ Len(more) = mlen
      BY <1>6, <1>7, <1>14 DEF IsData
    <3>2. mlen \in Int /\ mlen = Len(more)
      BY <1>8, <3>1
    <3> HIDE DEF mlen
    <3>3. /\ Len(kept \o more) = fs + mlen
          /\ \A n \in 1..(fs + mlen) :
                (kept \o more)[n] = IF n <= fs THEN kept[n] ELSE more[n - fs]
      <4>1. /\ Len(kept \o more) = Len(kept) + Len(more)
            /\ \A n \in 1..(Len(kept) + Len(more)) :
                  (kept \o more)[n] = IF n <= Len(kept) THEN kept[n] ELSE more[n - Len(kept)]
        BY <3>1, ConcatProperties
      <4> QED
        BY <3>1, <3>2, <4>1
    <3>4. bytes = kept \o more
      BY <2>2
    <3> HIDE DEF bytes
    <3>5. k \in 1..(fs + mlen)
      BY <1>14, <3>3, <3>4
    <3>6. CASE k <= fs
      <4>1. k \in 1..fs
        BY <1>8, <3>2, <3>5, <3>6
      <4> QED
        BY <1>10, <1>14, <3>3, <3>4, <3>5, <3>6, <4>1
    <3>7. CASE k > fs
      <4> DEFINE j == k - fs
      <4>1. j \in 1..mlen /\ fs + j = k
        BY <1>8, <3>2, <3>5, <3>7
      <4>2. bytes[k] = more[j]
        BY <1>8, <3>2, <3>3, <3>4, <3>5, <3>7
      <4> HIDE DEF j
      <4>3. more[j] = ByteOf(G, w, ch, len + (fs + j))
        BY <1>11, <1>14, <4>1 DEF mlen
      <4> QED
        BY <4>1, <4>2, <4>3
    <3> QED
      BY <1>8, <3>2, <3>5, <3>6, <3>7
  <2> QED
    BY <2>1, <2>2
<1>15. Factor > 0 => \A k \in 1..Len(bytes) :
            bytes[k] = ByteOf(OutFrames, BytesPerSample, header.channels, Len(stdout.data) + k)
  BY <1>14 DEF F, G, w, ch, len
<1> HIDE DEF bytes
<1> QED
  BY <1>1, <1>5, <1>12, <1>13, <1>15, FramesStep

LEMMA FramesCrypt ==
    ASSUME OptionsInv, OutputInv, SizeInv, FramesInv, crypt
    PROVE  FramesInv'
<1>1. /\ Loop /\ pc = "loop" /\ isCrypt /\ i < frames /\ i' = i + 1
      /\ UNCHANGED <<argv, stdin, global_options, header, frames, pc, status>>
      /\ position' = position + FrameSize /\ next' = myrand(next)[4 * header.channels]
  BY DEF crypt, Loop
<1>2. SizesFit /\ Factor \in Int \ {0} /\ ~isSpeedUp /\ ~isSlowDown
  BY <1>1, SizesAre, TransformationOptions
<1>3. /\ i \in Nat /\ frames \in Int /\ position = i * FrameSize /\ IsData(stdin.data)
      /\ i <= Word => next = KeyStates(getKey(global_options), header.channels)[i]
  BY <1>1, <1>2 DEF SizeInv, FramesInv, Reading
<1> DEFINE w == BytesPerSample
           ch == header.channels
           fs == FrameSize
           seed == getKey(global_options)
           G == OutFrames
           len == Len(stdout.data)
           s == read_frame(position)
           frame == [c \in 1..ch |-> xor(Unsigned(s[c]), myrand32(next, c))]
           bytes == write_frame(frame)
<1>4. w \in 1..4 /\ ch \in {1, 2} /\ fs = ch * w /\ fs \in Nat \ {0} /\ seed \in Nat
  <2>1. argv \in Seq(Strings) /\ global_options = validargs(argv)
    BY <1>1 DEF OptionsInv
  <2> HIDE DEF w, ch, fs
  <2>2. seed \in Nat
    BY <2>1, KeyIsNumber
  <2> QED
    BY <1>2, <2>2 DEF SizesFit, w, ch, fs
<1>5. s = FrameOf(stdin.data, w, ch, i) /\ IsFrame(s, ch)
  BY <1>2, <1>3, FrameIsRead
<1>6. Emit(bytes)
  BY DEF crypt
<1>7. i < Word
  <2>1. Word \in Nat \ {0}
    BY WordIsPositive
  <2>2. frames < Word
    <3> DEFINE d == stdout.data_size \div fs
               h == Word \div 2
    <3>1. frames = Signed(d)
      BY <1>1 DEF SizeInv, SizeAnnounced
    <3>2. stdout.data_size \in Int
      BY WordIsPositive DEF SizeInv
    <3>3. d \in Int
      BY <1>4, <3>2, Division
    <3>4. h \in Nat
      BY <2>1
    <3> HIDE DEF d
    <3>5. frames = ((d + h) % Word) - h
      BY <3>1 DEF Signed
    <3> HIDE DEF h
    <3> DEFINE y == d + h
               r == y % Word
    <3>6. y \in Int
      BY <3>3, <3>4
    <3> HIDE DEF y
    <3>7. r \in 0..(Word - 1)
      BY <2>1, <3>6, Division
    <3> HIDE DEF r
    <3>8. frames = r - h
      BY <3>5 DEF r, y
    <3> QED
      BY <2>1, <3>4, <3>7, <3>8
  <2> QED
    BY <1>1, <1>3, <2>1, <2>2
<1>8. next = KeyStates(seed, ch)[i] /\ next \in Nat
  <2>1. i <= Word /\ i \in 0..Word
    BY <1>3, <1>7, WordIsPositive
  <2> HIDE DEF seed, ch
  <2>2. KeyStates(seed, ch)[i] \in Nat
    BY <1>4, <2>1, KeysAre
  <2> QED
    BY <1>3, <2>1, <2>2 DEF seed, ch
<1>9. Reading'
  <2>1. /\ FrameSize' = fs /\ (isCrypt' <=> isCrypt) /\ (isSlowDown' <=> isSlowDown)
        /\ header.channels' = ch /\ getKey(global_options)' = seed
    BY <1>1 DEF FrameSize, BytesPerSample, isCrypt, isSlowDown
  <2>2. next' = myrand(KeyStates(seed, ch)[i])[4 * ch]
    BY <1>1, <1>8
  <2> HIDE DEF fs, seed, ch
  <2>3. i' * FrameSize' = i * fs + fs
    BY <1>1, <1>3, <1>4, <2>1
  <2>4. position' = i' * FrameSize'
    BY <1>1, <1>3, <2>3 DEF fs
  <2>5. i' <= Word => next' = KeyStates(seed, ch)[i']
    <3> DEFINE n == i + 1
    <3>1. n \in 1..Word /\ n - 1 = i
      BY <1>3, <1>7, WordIsPositive
    <3> HIDE DEF n
    <3>2. KeyStates(seed, ch)[n] = myrand(KeyStates(seed, ch)[n - 1])[4 * ch]
      BY <1>4, <3>1, KeysAre
    <3>3. i' = n
      BY <1>1 DEF n
    <3> QED
      BY <2>2, <3>1, <3>2, <3>3
  <2> QED
    BY <1>2, <2>1, <2>4, <2>5 DEF Reading
<1>10. IsFrame(frame, ch)
  <2> SUFFICES ASSUME NEW c \in 1..ch PROVE frame[c] \in Int
    BY DEF IsFrame
  <2>1. s[c] \in Int /\ c \in 1..2
    BY <1>4, <1>5 DEF IsFrame
  <2> HIDE DEF s
  <2> DEFINE a == Unsigned(s[c])
             b == myrand32(next, c)
  <2>2. a \in WordValues
    BY <2>1, UnsignedIsWord DEF WordValues
  <2>3. b \in WordValues
    BY <1>8, <2>1, Myrand32Is
  <2> HIDE DEF a, b
  <2>4. xor(a, b) \in WordValues
    BY <2>2, <2>3, XorIsWord
  <2>5. xor(a, b) \in Int
    BY <2>4, WordIsPositive DEF WordValues
  <2>6. frame[c] = xor(a, b)
    BY DEF a, b
  <2> QED
    BY <2>5, <2>6
<1>11. G[i] = frame
  <2>1. G = CryptFrames(stdin.data, w, ch, seed)
    BY <1>1 DEF OutFrames
  <2>2. CryptFrames(stdin.data, w, ch, seed)[i]
           = [c \in 1..ch |-> xor(Unsigned(FrameOf(stdin.data, w, ch, i)[c]), myrand32(KeyStates(seed, ch)[i], c))]
    <3> HIDE DEF w, ch, seed, G, s, frame
    <3> QED
      BY <1>3 DEF CryptFrames
  <2> QED
    BY <1>5, <1>8, <2>1, <2>2
<1> HIDE DEF frame, s
<1>12. /\ IsData(bytes) /\ Len(bytes) = fs
       /\ \A k \in 1..fs : bytes[k] = FrameByte(frame, w, k)
  BY <1>2, <1>10, FrameWritten
<1>13. len = i * fs
  BY <1>1, <1>2, TransformationOptions DEF SizeInv, FramesWritten
<1> HIDE DEF w, ch, fs, G, len, bytes
<1>14. ASSUME NEW k \in 1..Len(bytes) PROVE bytes[k] = ByteOf(G, w, ch, len + k)
  <2> DEFINE byte == len + k
  <2>1. PlaceOf(byte, i, k, w, ch)
    BY <1>3, <1>4, <1>12, <1>13 DEF PlaceOf
  <2> HIDE DEF byte
  <2>2. ByteOf(G, w, ch, byte) = FrameByte(G[i], w, k)
    BY <2>1, ByteOfPlace
  <2> QED
    BY <1>11, <1>12, <2>2 DEF byte
<1>15. Factor > 0 => \A k \in 1..Len(bytes) :
            bytes[k] = ByteOf(OutFrames, BytesPerSample, header.channels, Len(stdout.data) + k)
  BY <1>14 DEF G, w, ch, len
<1> QED
  BY <1>1, <1>6, <1>9, <1>12, <1>15, FramesStep

LEMMA FramesInvNext ==
    OptionsInv /\ OutputInv /\ SizeInv /\ FramesInv /\ [Next]_vars => FramesInv'
<1> SUFFICES ASSUME OptionsInv, OutputInv, SizeInv, FramesInv, [Next]_vars PROVE FramesInv'
  OBVIOUS
<1>1. CASE main
  <2>1. UNCHANGED <<stdin, stdout, position>> /\ pc = "main" /\ pc' \in {"exit", "read"} /\ status' # "SUCCESS"
    BY <1>1 DEF main, Exit, OptionsInv
  <2> QED
    BY <2>1 DEF FramesInv
<1>2. CASE recodeRead
  <2>1. UNCHANGED <<stdin, stdout, position>> /\ pc = "read" /\ pc' \in {"exit", "annotate"} /\ status' # "SUCCESS"
    BY <1>2 DEF recodeRead, Exit, OptionsInv
  <2> QED
    BY <2>1 DEF FramesInv
<1>3. CASE recodePreserve
  BY <1>3, FramesWrittenHeader DEF recodePreserve
<1>4. CASE recodeAnnotate
  <2> DEFINE text == <<SubSeq(argv, 1, getArgC(global_options))>> \o header.text
             size == newSize(text)
  <2>1. pc = "annotate" /\ UNCHANGED <<argv, stdin, global_options, frames, i, position, S>>
    BY <1>4 DEF recodeAnnotate
  <2>2. \/ stdout' = stdout /\ pc' = "exit" /\ status' # "SUCCESS"
        \/ WriteHeader(HeaderSize + size, text) /\ status' = status
    BY <1>4 DEF recodeAnnotate, Exit
  <2> HIDE DEF text, size
  <2>3. CASE stdout' = stdout /\ pc' = "exit" /\ status' # "SUCCESS"
    BY <2>1, <2>3 DEF FramesInv
  <2>4. CASE WriteHeader(HeaderSize + size, text) /\ status' = status
    BY <2>1, <2>4, FramesWrittenHeader
  <2> QED
    BY <2>2, <2>3, <2>4
<1>5. CASE speedUp
  BY <1>5, FramesSpeedUp
<1>6. CASE slowDown
  BY <1>6, FramesSlowDown
<1>7. CASE crypt
  BY <1>7, FramesCrypt
<1>8. CASE recodeReturn
  <2>1. /\ pc = "loop" /\ pc' = "exit" /\ status' = "SUCCESS"
        /\ UNCHANGED <<stdin, stdout, header, global_options>>
    BY <1>8 DEF recodeReturn, Exit
  <2> QED
    BY <2>1 DEF FramesInv, OutFrames, BytesPerSample, Factor, isCrypt, isSpeedUp
<1>9. CASE Pipe
  <2>1. pc' = "main" /\ status' = "running" /\ stdin' = stdout /\ stdout' = NoFile /\ position' = 0
    BY <1>9 DEF Pipe
  <2>2. IsData(NoFile.data)
    BY EmptySeq DEF NoFile, IsData
  <2> QED
    BY <2>1, <2>2 DEF FramesInv
<1>10. ASSUME UNCHANGED vars PROVE FramesInv'
  BY <1>10 DEF vars, FramesInv, Reading, OutFrames, FrameSize, BytesPerSample,
               Factor, isCrypt, isSpeedUp, isSlowDown
<1>11. CASE Ended
  BY <1>10, <1>11 DEF Ended
<1>12. CASE UNCHANGED vars
  BY <1>10, <1>12
<1> QED
  BY <1>1, <1>2, <1>3, <1>4, <1>5, <1>6, <1>7, <1>8, <1>9, <1>11, <1>12 DEF Next

-----------------------------------------------------------------------------
(* The pipeline.                                                           *)

\* The command line that undoes another has its factor.
LEMMA UndoneSpeed ==
    ASSUME NEW line \in Seq(Strings), Len(line) > 1, line[2] = "-d"
    PROVE  /\ Undo(line)[2] = "-u"
           /\ getFactor(validargs(Undo(line))) = getFactor(validargs(line))
<1> DEFINE other == Undo(line)
           n == Len(line)
<1>1. n \in Nat /\ n > 1
  OBVIOUS
<1>2. /\ Len(other) = n /\ other[2] = "-u"
      /\ \A k \in 1..n : k # 2 => other[k] = line[k]
  <2>1. other = [line EXCEPT ![2] = "-u"]
    BY DEF Undo
  <2>2. line \in [1..n -> Strings]
    OBVIOUS
  <2>3. DOMAIN other = 1..n /\ \A k \in 1..n : other[k] = IF k = 2 THEN "-u" ELSE line[k]
    <3> HIDE DEF n, other
    <3> QED
      BY <2>1, <2>2
  <2>4. other \in Seq(Strings)
    BY UndoIsLine
  <2> HIDE DEF other
  <2>5. Len(other) = n
    <3>1. Len(other) \in Nat /\ DOMAIN other = 1..Len(other)
      BY <2>4, LenProperties
    <3> HIDE DEF n
    <3> QED
      BY <1>1, <2>3, <3>1
  <2> HIDE DEF n
  <2> QED
    BY <1>1, <2>3, <2>5
<1> HIDE DEF other, n
<1>3. ASSUME NEW flag, flag # "-d", flag # "-u"
      PROVE  LastPosition(other, flag) = LastPosition(line, flag)
  <2>1. {k \in 2..n : other[k] = flag} = {k \in 2..n : line[k] = flag}
    BY <1>1, <1>2, <1>3
  <2> QED
    BY <1>2, <2>1 DEF LastPosition, n
<1> DEFINE p == LastPosition(line, "-f")
           v == validSpeedUsage(line)
<1>4. LastPosition(other, "-f") = p /\ LastPosition(other, "-p") = LastPosition(line, "-p")
  BY <1>3
<1>5. p = 0 \/ (p \in 3..n /\ line[p] = "-f")
  BY LastPositionOK DEF LastAt, n
<1>6. /\ validSpeedUsage(other) = v
      /\ v > 1 => v \in 3..n /\ other[v] = line[v]
  <2> HIDE DEF p
  <2>1. containsPreserve(other) <=> containsPreserve(line)
    BY <1>4 DEF containsPreserve
  <2>2. /\ containsValidFactor(line) = IF p # 0 /\ p < n /\ validFactorHelper(line[p + 1]) THEN p + 1 ELSE 0
        /\ containsValidFactor(other) = IF p # 0 /\ p < n /\ validFactorHelper(other[p + 1]) THEN p + 1 ELSE 0
    BY <1>2, <1>4 DEF containsValidFactor, n, p
  <2>3. p # 0 /\ p < n => p + 1 \in 3..n /\ other[p + 1] = line[p + 1]
    BY <1>1, <1>2, <1>5
  <2>4. containsValidFactor(other) = containsValidFactor(line)
    BY <2>2, <2>3
  <2>5. validSpeedUsage(other) = v
    BY <1>2, <2>1, <2>4 DEF validSpeedUsage, n
  <2>6. v \in {0, 1, containsValidFactor(line)}
    BY DEF validSpeedUsage
  <2> HIDE DEF v
  <2>7. v > 1 => v = p + 1 /\ p # 0 /\ p < n
    BY <1>1, <1>5, <2>2, <2>6
  <2> QED
    BY <2>3, <2>5, <2>7
<1> HIDE DEF v
<1> DEFINE x == IF v > 1 THEN factorRecord(line[v]) ELSE factorRecord0
           y == IF v # 0 THEN x ELSE 0
<1>7. validargs(line).factor = y
  BY <1>1 DEF validargs, Nothing, v, n
<1>8. validargs(other).factor = y
  BY <1>1, <1>2, <1>6 DEF validargs, Nothing, n
<1>9. getFactor(validargs(other)) = getFactor(validargs(line))
  BY <1>7, <1>8 DEF getFactor
<1> QED
  BY <1>2, <1>9 DEF other

LEMMA PipedNext ==
    ASSUME OptionsInv, OutputInv, SizeInv, HeaderInv, FramesInv, Pipe
    PROVE  Piped(Undo(argv), stdin, frames, stdout)
<1>1. pc = "exit" /\ status = "SUCCESS" /\ argv[2] \in {"-d", "-c"}
  BY DEF Pipe
<1>2. /\ argv \in Seq(Strings) /\ global_options = validargs(argv) /\ Accepted(argv)
      /\ argv[2] \in {"-u", "-d", "-c"}
  BY <1>1 DEF OptionsInv
<1>3. global_options.mode = argv[2]
  BY <1>2, ValidIsUsage
<1>4. SizesFit
  BY <1>1, SizesAre
<1> DEFINE w == stdout.encoding - 1
           ch == stdout.channels
           line == Undo(argv)
           F == getFactor(validargs(line))
           n == frames
<1>5. /\ w = BytesPerSample /\ ch = header.channels /\ ch * w = FrameSize
      /\ w \in 1..4 /\ ch \in {1, 2} /\ FrameSize \in Nat \ {0}
  BY <1>1, <1>4 DEF HeaderInv, SizesFit, BytesPerSample
<1>6. Len(argv) > 1
  BY <1>2 DEF Accepted, WordsWith
<1>7. /\ line[2] = IF argv[2] = "-d" THEN "-u" ELSE "-c"
      /\ F = Factor /\ (argv[2] = "-c" => line = argv)
  <2>1. CASE argv[2] = "-d"
    BY <1>2, <1>6, <2>1, UndoneSpeed DEF Factor
  <2>2. CASE argv[2] = "-c"
    <3>1. line = argv
      BY <2>2 DEF Undo
    <3> HIDE DEF line
    <3> QED
      BY <1>2, <2>2, <3>1 DEF Factor
  <2> QED
    BY <1>1, <2>1, <2>2
<1>8. i \in Nat /\ n \in Int /\ (n > 0 => i = n)
  <2>1. i \in Nat /\ n \in Int /\ (n > 0 => i <= n) /\ i >= n
    BY <1>1 DEF SizeInv
  <2> QED
    BY <2>1
<1>9. /\ IsData(stdin.data) /\ stdin.data_size \in WordValues
      /\ n = Signed(Field(stdin.data_size) \div (ch * w))
  BY <1>1, <1>5 DEF FramesInv, SizeInv, HeaderInv, WordValues
<1>10. Factor > 0 =>
          /\ Len(stdout.data) = FramesWritten(i) * (ch * w)
          /\ Holds(stdout.data, OutFrames, w, ch)
  BY <1>1, <1>5 DEF SizeInv, FramesInv
<1> HIDE DEF w, ch, line, F
<1>11. ASSUME line[2] = "-c"
       PROVE  /\ stdout.data_size = Field(stdin.data_size)
              /\ n > 0 => Len(stdout.data) = n * (ch * w)
              /\ Holds(stdout.data, CryptFrames(stdin.data, w, ch, getKey(validargs(line))), w, ch)
  <2>1. argv[2] = "-c" /\ isCrypt /\ line = argv
    BY <1>1, <1>3, <1>7, <1>11 DEF isCrypt
  <2>2. Factor = 1
    BY <1>1, <2>1, TransformationOptions
  <2>3. stdout.data_size = Field(stdin.data_size)
    BY <1>1, <2>1 DEF HeaderInv
  <2>4. FramesWritten(i) = i
    BY <2>1 DEF FramesWritten
  <2>5. OutFrames = CryptFrames(stdin.data, w, ch, getKey(validargs(line)))
    BY <1>2, <1>5, <2>1 DEF OutFrames
  <2> QED
    BY <1>8, <1>10, <2>2, <2>3, <2>4, <2>5
<1>12. ASSUME line[2] = "-u", F > 0
       PROVE  /\ stdout.data_size = Unsigned((n + (F - 1) * (n - 1)) * (ch * w))
              /\ n > 0 => Len(stdout.data) = ((n - 1) * F + 1) * (ch * w)
              /\ Holds(stdout.data, SlowFrames(stdin.data, w, ch, F), w, ch)
  <2>1. argv[2] = "-d" /\ isSlowDown /\ ~isSpeedUp /\ ~isCrypt
    BY <1>1, <1>3, <1>7, <1>12 DEF isSlowDown, isSpeedUp, isCrypt
  <2>2. stdout.data_size = Unsigned((n + (F - 1) * (n - 1)) * (ch * w))
    BY <1>1, <1>5, <1>7, <2>1 DEF SizeInv, SizeAnnounced
  <2>3. n > 0 => FramesWritten(i) = (n - 1) * F + 1
    BY <1>7, <1>8, <2>1 DEF FramesWritten
  <2>4. OutFrames = SlowFrames(stdin.data, w, ch, F)
    BY <1>5, <1>7, <2>1 DEF OutFrames
  <2>5. n > 0 => Len(stdout.data) = ((n - 1) * F + 1) * (ch * w)
    BY <1>7, <1>10, <1>12, <2>3
  <2> QED
    BY <1>7, <1>10, <1>12, <2>2, <2>4, <2>5
<1>13. line[2] \in {"-u", "-c"}
  BY <1>7
<1> QED
  BY <1>5, <1>9, <1>11, <1>12, <1>13 DEF Piped, w, ch, line, F

LEMMA PipeInvInit == Init => PipeInv
BY DEF Init, PipeInv

LEMMA PipeInvNext ==
    OptionsInv /\ OutputInv /\ SizeInv /\ HeaderInv /\ FramesInv /\ PipeInv /\ [Next]_vars => PipeInv'
<1> SUFFICES ASSUME OptionsInv, OutputInv, SizeInv, HeaderInv, FramesInv, PipeInv, [Next]_vars
             PROVE  PipeInv'
  OBVIOUS
<1>1. CASE UNCHANGED <<argv, stdin, source>>
  BY <1>1 DEF PipeInv
<1>2. CASE Pipe
  <2>1. /\ source' = <<[argv |-> argv, stdin |-> stdin, frames |-> frames]>>
        /\ argv' = Undo(argv) /\ stdin' = stdout
    BY <1>2 DEF Pipe
  <2>2. source'[1].stdin = stdin /\ source'[1].frames = frames
    BY <2>1
  <2>3. Piped(Undo(argv), stdin, frames, stdout)
    BY <1>2, PipedNext
  <2> QED
    BY <2>1, <2>2, <2>3 DEF PipeInv
<1>3. CASE Next /\ ~Pipe
  BY <1>1, <1>3 DEF Next, main, recodeRead, recodePreserve, recodeAnnotate, speedUp, slowDown,
                    crypt, recodeReturn, Ended, vars
<1> QED
  BY <1>1, <1>2, <1>3 DEF vars

-----------------------------------------------------------------------------
(* The loop at its end.                                                    *)

\* The loop does no more rounds than there are frames.
CountInv == i = 0 \/ i <= frames

LEMMA CountInvInit == Init => CountInv
<1> SUFFICES ASSUME Init PROVE i = 0
  BY DEF CountInv
<1> QED
  BY DEF Init, Start

LEMMA CountInvNext == SizeInv /\ CountInv /\ [Next]_vars => CountInv'
<1> SUFFICES ASSUME SizeInv, CountInv, [Next]_vars PROVE CountInv'
  OBVIOUS
<1>1. CASE UNCHANGED <<i, frames>>
  BY <1>1 DEF CountInv
<1>2. CASE recodeRead
  <2>1. i' = 0
    BY <1>2 DEF recodeRead, SizeInv
  <2> QED
    BY <2>1 DEF CountInv
<1>3. CASE speedUp \/ slowDown \/ crypt
  <2>1. pc = "loop" /\ i < frames /\ i' = i + 1 /\ frames' = frames
    BY <1>3 DEF speedUp, slowDown, crypt, Loop
  <2>2. i \in Nat /\ frames \in Int
    BY <2>1 DEF SizeInv
  <2>3. i' <= frames'
    BY <2>1, <2>2
  <2> QED
    BY <2>3 DEF CountInv
<1>4. CASE Pipe
  BY <1>4 DEF Pipe, CountInv
<1>5. CASE main \/ recodePreserve \/ recodeAnnotate \/ recodeReturn \/ Ended \/ UNCHANGED vars
  BY <1>1, <1>5 DEF main, recodePreserve, recodeAnnotate, recodeReturn, Ended, vars
<1> QED
  BY <1>2, <1>3, <1>4, <1>5 DEF Next

\* Numbers of an int stay what they are.
LEMMA SignedIs ==
    ASSUME NEW x \in Int
    PROVE  /\ Signed(x) \in Int /\ Signed(x) < Word \div 2
           /\ -(Word \div 2) <= x /\ x < Word \div 2 => Signed(x) = x
           /\ x \in WordValues /\ Signed(x) > 0 => Signed(x) = x
<1> DEFINE h == Word \div 2
           y == x + h
           r == y % Word
<1>1. Word \in Nat \ {0} /\ Word = 2 * h /\ h \in Nat
  BY WidthsOfInts
<1>2. y \in Int
  BY <1>1
<1>3. Signed(x) = r - h
  BY DEF Signed
<1> HIDE DEF h
<1>4. y = x + h
  OBVIOUS
<1> HIDE DEF y
<1>5. r \in 0..(Word - 1)
  BY <1>1, <1>2, Division
<1>6. y \in 0..(Word - 1) => r = y
  <2> SUFFICES ASSUME y \in 0..(Word - 1) PROVE r = y
    OBVIOUS
  <2> DEFINE z == 0
  <2>1. z \in Int /\ y = z * Word + y
    BY <1>1, <1>2
  <2> HIDE DEF z
  <2> QED
    BY <1>1, <2>1, DivisionUnique
<1>7. y - Word \in 0..(Word - 1) => r = y - Word
  <2> SUFFICES ASSUME y - Word \in 0..(Word - 1) PROVE r = y - Word
    OBVIOUS
  <2> DEFINE z == 1
             t == y - Word
  <2>1. z \in Int /\ y = z * Word + t /\ t \in 0..(Word - 1)
    BY <1>1, <1>2
  <2> HIDE DEF z, t
  <2>2. r = t
    BY <1>1, <2>1, DivisionUnique
  <2> QED
    BY <2>2 DEF t
<1> HIDE DEF r
<1>8. Signed(x) \in Int /\ Signed(x) < h
  BY <1>1, <1>3, <1>5
<1>9. -h <= x /\ x < h => Signed(x) = x
  BY <1>1, <1>3, <1>4, <1>6
<1>10. x \in 0..(Word - 1) /\ Signed(x) > 0 => Signed(x) = x
  <2> SUFFICES ASSUME x \in 0..(Word - 1), Signed(x) > 0 PROVE Signed(x) = x
    OBVIOUS
  <2>1. CASE x < h
    BY <1>1, <1>9, <2>1
  <2>2. CASE x >= h
    <3>1. r = y - Word
      BY <1>1, <1>4, <1>7, <2>2
    <3>2. Signed(x) < 0
      BY <1>1, <1>3, <1>4, <2>2, <3>1
    <3> QED
      BY <1>8, <3>2
  <2> QED
    BY <1>1, <2>1, <2>2
<1> QED
  BY <1>8, <1>9, <1>10 DEF h, WordValues

\* The whole frames that a size announces are within it.
LEMMA FramesOfSize ==
    ASSUME NEW d \in WordValues, NEW fs \in Nat \ {0}, NEW n, n = Signed(Field(d) \div fs)
    PROVE  /\ Field(d) \in WordValues /\ Field(Field(d)) = Field(d) /\ Field(d) <= d
           /\ n \in Int /\ n < Word \div 2
           /\ n > 0 => n * fs <= Field(d)
<1> DEFINE x == Field(d)
           q == x \div fs
<1>1. Word \in Nat \ {0, 1} /\ Word = 2 * (Word \div 2)
  BY WidthsOfInts
<1>2. x \in 0..(Word - 1) /\ Field(x) = x /\ x <= d /\ x \in Int
  BY <1>1 DEF Field, WordValues
<1> HIDE DEF x
<1>3. q \in Int /\ x % fs \in 0..(fs - 1) /\ x = fs * q + (x % fs)
  BY <1>2, Division
<1> DEFINE r == x % fs
<1> HIDE DEF q, r
<1>4. fs * q <= x /\ q * fs = fs * q /\ q >= 0 /\ q <= x
  <2> DEFINE y == fs * q
  <2>1. y \in Int /\ x = y + r /\ r \in 0..(fs - 1)
    BY <1>3 DEF r
  <2>2. q <= -1 => y <= -fs
    BY <1>3
  <2>3. q >= 0 => q <= y
    BY <1>3
  <2>4. q * fs = fs * q
    BY <1>3
  <2> HIDE DEF y
  <2>5. y <= x /\ q >= 0 /\ q <= x
    BY <1>2, <1>3, <2>1, <2>2, <2>3
  <2> QED
    BY <2>4, <2>5 DEF y
<1>5. q \in WordValues
  BY <1>1, <1>2, <1>3, <1>4 DEF WordValues
<1>6. n = Signed(q)
  BY DEF q, x
<1>7. n \in Int /\ n < Word \div 2 /\ (n > 0 => n = q)
  BY <1>3, <1>5, <1>6, SignedIs
<1> QED
  BY <1>2, <1>4, <1>7 DEF x, WordValues

-----------------------------------------------------------------------------
(* Samples, and crypt done twice.                                          *)

\* The frame of a sample, and its channel.
LEMMA SamplePlace ==
    ASSUME NEW ch \in {1, 2}, NEW q \in Nat
    PROVE  /\ q \div ch \in Nat /\ (q % ch) + 1 \in 1..ch
           /\ q = (q \div ch) * ch + (((q % ch) + 1) - 1)
           /\ \A n \in Int : q < n * ch => q \div ch < n
OBVIOUS

\* The beginning of a file.
LEMMA DataBegins ==
    ASSUME NEW data, IsData(data), NEW m \in Nat, m <= Len(data)
    PROVE  /\ IsData(SubSeq(data, 1, m)) /\ Len(SubSeq(data, 1, m)) = m
           /\ \A k \in 1..m : SubSeq(data, 1, m)[k] = data[k]
<1> DEFINE a == 1
<1>1. data \in Seq(Bytes) /\ Len(data) \in Nat
  BY LenProperties DEF IsData
<1>2. a \in Int /\ m \in Int /\ (IF a <= m THEN m - a + 1 ELSE 0) = m /\ m - a + 1 = m
      /\ \A k \in 1..m : a + k - 1 = k
  OBVIOUS
<1>3. \A k \in a..m : data[k] \in Bytes
  <2> SUFFICES ASSUME NEW k \in a..m PROVE data[k] \in Bytes
    OBVIOUS
  <2>1. k \in 1..Len(data)
    BY <1>1
  <2> QED
    BY <1>1, <2>1
<1> HIDE DEF a
<1>4. /\ SubSeq(data, a, m) \in Seq(Bytes)
      /\ Len(SubSeq(data, a, m)) = IF a <= m THEN m - a + 1 ELSE 0
      /\ \A k \in 1..(m - a + 1) : SubSeq(data, a, m)[k] = data[a + k - 1]
  BY <1>2, <1>3, SubSeqProperties
<1>5. /\ SubSeq(data, a, m) \in Seq(Bytes) /\ Len(SubSeq(data, a, m)) = m
      /\ \A k \in 1..m : SubSeq(data, a, m)[k] = data[k]
  BY <1>2, <1>4
<1> QED
  BY <1>5 DEF a, IsData

\* The bytes of sample q, and those that are taken for the end of the file.
Chunk(data, w, q) == SubSeq(data, q * w + 1, q * w + w)

Ones == [k \in 1..4 |-> Base - 1]

\* Four bytes of ones are the only ones that getStdinInt does not take.
LEMMA SampleIsItsValue ==
    ASSUME NEW w \in 1..4, NEW q \in Nat, NEW data, IsData(data), q * w + w <= Len(data),
           Chunk(data, w, q) # Ones
    PROVE  SampleOf(data, w, q) % Power(Base, w) = Value(data, q * w, w)
<1> DEFINE p == q * w
           v == Value(data, p, w)
           P == Power(Base, w)
           t == SubSeq(data, p + 1, p + w)
<1>1. AreBytes(data, p, w) /\ SampleOf(data, w, q) = signExtend(Taken(v), w)
  BY SampleRead
<1>2. t \in [1..w -> Bytes] /\ \A k \in 1..w : t[k] = data[p + k]
  BY DecodedIsSample
<1>3. t # [k \in 1..4 |-> Base - 1]
  BY DEF Chunk, Ones
<1>4. p \in Int /\ w \in Nat
  OBVIOUS
<1> HIDE DEF p, t
<1>5. v \in 0..(P - 1)
  BY <1>1, <1>4, ValueIsInRange
<1>6. v # Word - 1
  <2> SUFFICES ASSUME v = Word - 1 PROVE FALSE
    OBVIOUS
  <2>1. w = 4 /\ P = Word
    <3> DEFINE R == Power(Base, 4 - w)
    <3>1. P \in Nat \ {0} /\ R \in Nat \ {0} /\ Word = P * R /\ Word \in Nat \ {0, 1}
          /\ Base \in Nat \ {0, 1}
      <4>1. w \in 0..4
        OBVIOUS
      <4>2. P \in Nat \ {0} /\ R \in Nat \ {0} /\ Word = P * R
        BY <4>1, WidthsOfInts
      <4>3. Word \in Nat \ {0, 1} /\ Base \in Nat \ {0, 1}
        BY WidthsOfInts
      <4> HIDE DEF P, R
      <4> QED
        BY <4>2, <4>3
    <3>2. w # 4 => R >= Base
      <4> SUFFICES ASSUME w # 4 PROVE R >= Base
        OBVIOUS
      <4> DEFINE n == 4 - w
                 m == n - 1
      <4>1. n = m + 1 /\ m \in Nat /\ m \in 0..4
        BY <1>4
      <4> HIDE DEF n, m
      <4>2. Power(Base, n) = Base * Power(Base, m)
        <5>1. Base \in Nat \ {0}
          BY <3>1
        <5> QED
          BY <4>1, <5>1, PowerStep
      <4>3. Power(Base, m) \in Nat \ {0}
        BY <4>1, WidthsOfInts
      <4>4. Base * Power(Base, m) >= Base
        <5> DEFINE b == Base
                   x == Power(Base, m)
        <5>1. b \in Nat \ {0} /\ x \in Nat \ {0}
          BY <3>1, <4>3
        <5> HIDE DEF b, x
        <5>2. b * x >= b
          BY <5>1
        <5> QED
          BY <5>2 DEF b, x
      <4> QED
        BY <4>2, <4>4 DEF n
    <3> DEFINE b == Base
               W == Word
    <3>3. b \in Nat \ {0, 1} /\ W \in Nat \ {0, 1} /\ W = P * R /\ v = W - 1
      BY <3>1
    <3>4. R >= b => P < W
      <4> HIDE DEF P, R, b, W
      <4>1. R >= 2 => P * R >= 2 * P
        BY <3>1
      <4> QED
        BY <3>1, <3>3, <4>1
    <3>5. w = 4
      <4> HIDE DEF P, R, b, W, v
      <4> QED
        BY <1>4, <1>5, <3>1, <3>2, <3>3, <3>4 DEF b
    <3>6. P = W
      BY <3>5 DEF Word
    <3> QED
      BY <3>5, <3>6
  <2> DEFINE z == 0
             ones == [k \in 1..w |-> Base - 1]
  <2>2. \A k \in 1..w : z + k = k /\ ones[z + k] = Base - 1
    OBVIOUS
  <2>3. z \in Int
    OBVIOUS
  <2> HIDE DEF z, ones
  <2>4. AreBytes(ones, z, w) /\ Value(ones, z, w) = P - 1
    BY <1>4, <2>2, <2>3, ValueOfOnes
  <2>5. Value(data, p, w) = Value(ones, z, w)
    BY <2>1, <2>4
  <2>6. SameBytes(data, p, ones, z, w)
    BY <1>1, <1>4, <2>3, <2>4, <2>5, ValueIsItsBytes
  <2>7. \A k \in 1..4 : t[k] = Base - 1
    BY <1>2, <2>1, <2>2, <2>6 DEF SameBytes
  <2>8. t = [k \in 1..4 |-> t[k]]
    BY <1>2, <2>1
  <2> QED
    BY <1>3, <2>7, <2>8
<1>7. signExtend(v, w) % P = v
  BY <1>4, <1>5, SignExtendIs
<1> QED
  BY <1>1, <1>6, <1>7 DEF Taken, p

\* Sample q is in the data.
SampleAt(data, w, q) == IsData(data) /\ q \in Nat /\ q * w + w <= Len(data)

\* t is that sample.
IsSample(t, data, w, q) ==
    /\ t \in [1..w -> Bytes] /\ \A k \in 1..w : t[k] = data[q * w + k]
    /\ Decoded(t) = SampleOf(data, w, q)

LEMMA SampleBytes ==
    ASSUME NEW w \in 1..4, NEW data, NEW q, SampleAt(data, w, q)
    PROVE  AreBytes(data, q * w, w) /\ IsSample(Chunk(data, w, q), data, w, q)
BY DecodedIsSample, SampleRead DEF SampleAt, IsSample, Chunk

\* A process makes the data of plain.
Encrypts(plain, data, w, ch, seed) ==
    /\ w \in 1..4 /\ ch \in {1, 2} /\ seed \in Nat /\ IsData(plain) /\ IsData(data)
    /\ Holds(data, CryptFrames(plain, w, ch, seed), w, ch)

\* What it adds to sample q.
KeyOf(seed, ch, q) == myrand32(KeyStates(seed, ch)[q \div ch], (q % ch) + 1)

LEMMA SampleCrypted ==
    ASSUME NEW w, NEW ch, NEW plain, NEW seed, NEW data, Encrypts(plain, data, w, ch, seed),
           NEW q, SampleAt(data, w, q), q \div ch <= Word
    PROVE  /\ KeyOf(seed, ch, q) \in WordValues
           /\ AreBytes(data, q * w, w)
           /\ Value(data, q * w, w)
                 = xor(Unsigned(SampleOf(plain, w, q)), KeyOf(seed, ch, q)) % Power(Base, w)
<1> DEFINE G == CryptFrames(plain, w, ch, seed)
           f == q \div ch
           c == (q % ch) + 1
           r == KeyOf(seed, ch, q)
           s == SampleOf(plain, w, q)
           p == q * w
<1>0. /\ w \in 1..4 /\ ch \in {1, 2} /\ seed \in Nat /\ IsData(plain) /\ IsData(data)
      /\ Holds(data, G, w, ch) /\ q \in Nat /\ q * w + w <= Len(data)
  BY DEF Encrypts, SampleAt
<1>1. f \in Nat /\ c \in 1..ch /\ q = f * ch + (c - 1) /\ f <= Word /\ c \in 1..2
  BY <1>0, SamplePlace
<1>2. r = myrand32(KeyStates(seed, ch)[f], c)
  BY DEF KeyOf
<1> HIDE DEF f, c
<1>3. KeyStates(seed, ch)[f] \in Nat
  <2>1. f \in 0..Word
    BY <1>1, WordIsPositive
  <2> QED
    BY <1>0, <2>1, KeysAre
<1> HIDE DEF r
<1>4. r \in WordValues
  BY <1>1, <1>2, <1>3, Myrand32Is
<1>5. s = FrameOf(plain, w, ch, f)[c]
  BY <1>1 DEF FrameOf
<1>6. G[f][c] = xor(Unsigned(s), r)
  <2>1. G[f] = [d \in 1..ch |-> xor(Unsigned(FrameOf(plain, w, ch, f)[d]), myrand32(KeyStates(seed, ch)[f], d))]
    BY <1>1 DEF CryptFrames
  <2> HIDE DEF G, s
  <2> QED
    BY <1>1, <1>2, <1>5, <2>1
<1> DEFINE x == xor(Unsigned(s), r)
<1>7. s \in Int
  BY <1>0, SampleFits DEF IsSigned
<1> HIDE DEF s, G
<1>8. x \in Int
  <2> DEFINE u == Unsigned(s)
  <2>1. u \in WordValues
    BY <1>7, UnsignedIsWord DEF WordValues
  <2> HIDE DEF u
  <2>2. xor(u, r) \in WordValues
    BY <1>4, <2>1, XorIsWord
  <2> QED
    BY <2>2, WordIsPositive DEF u, WordValues
<1>9. WrittenAs(data, p, w, x)
  <2>1. Holds(data, G, w, ch) /\ IsSequence(data)
    BY <1>0 DEF IsData, IsSequence
  <2>2. (f * ch + (c - 1)) * w + w <= Len(data)
    BY <1>0, <1>1
  <2>3. WrittenAs(data, (f * ch + (c - 1)) * w, w, G[f][c])
    BY <1>0, <1>1, <2>1, <2>2, SampleHeld
  <2> QED
    BY <1>1, <1>6, <2>3
<1>10. p \in Int /\ w \in Nat
  BY <1>0
<1> HIDE DEF p, x
<1>11. AreBytes(data, p, w) /\ Value(data, p, w) = x % Power(Base, w)
  BY <1>8, <1>9, <1>10, ValueOfWritten
<1> QED
  BY <1>4, <1>11 DEF p, x, s, r

\* A sample comes back after two processes.
LEMMA SampleComesBack ==
    ASSUME NEW w, NEW ch, NEW seed, NEW plain, NEW mid, NEW out,
           Encrypts(plain, mid, w, ch, seed), Encrypts(mid, out, w, ch, seed),
           NEW q, q \div ch <= Word,
           SampleAt(plain, w, q), SampleAt(mid, w, q), SampleAt(out, w, q),
           Chunk(plain, w, q) # Ones, Chunk(mid, w, q) # Ones
    PROVE  Chunk(out, w, q) = Chunk(plain, w, q)
<1> DEFINE p == q * w
           P == Power(Base, w)
           r == KeyOf(seed, ch, q)
           s == SampleOf(plain, w, q)
           t == SampleOf(mid, w, q)
<1>0. /\ w \in 1..4 /\ q \in Nat /\ IsData(plain) /\ IsData(mid)
      /\ q * w + w <= Len(plain) /\ q * w + w <= Len(mid)
  BY DEF Encrypts, SampleAt
<1>1. r \in WordValues /\ Value(mid, p, w) = xor(Unsigned(s), r) % P
  BY SampleCrypted
<1>2. AreBytes(out, p, w) /\ Value(out, p, w) = xor(Unsigned(t), r) % P
  BY SampleCrypted
<1>3. s % P = Value(plain, p, w)
  BY <1>0, SampleIsItsValue
<1>4. t % P = Value(mid, p, w)
  BY <1>0, SampleIsItsValue
<1>5. s \in Int /\ t \in Int
  BY <1>0, SampleFits DEF IsSigned
<1>6. AreBytes(plain, p, w)
  BY <1>0, SampleBytes
<1>7. IsSample(Chunk(out, w, q), out, w, q)
  BY <1>0, SampleBytes
<1>8. IsSample(Chunk(plain, w, q), plain, w, q)
  BY <1>0, SampleBytes
<1>9. p \in Int /\ w \in Nat
  BY <1>0
<1> DEFINE a == Chunk(out, w, q)
           b == Chunk(plain, w, q)
<1> SUFFICES a = b
  OBVIOUS
<1> HIDE DEF p, r, s, t, a, b
<1>10. xor(Unsigned(t), r) % P = s % P
  BY <1>0, <1>1, <1>4, <1>5, SampleDecrypted
<1>11. Value(out, p, w) = Value(plain, p, w)
  BY <1>2, <1>3, <1>10
<1>12. SameBytes(out, p, plain, p, w)
  BY <1>2, <1>6, <1>9, <1>11, ValueIsItsBytes
<1>13. \A k \in 1..w : a[k] = b[k]
  BY <1>7, <1>8, <1>12 DEF SameBytes, IsSample, a, b, p
<1>14. a = [k \in 1..w |-> a[k]] /\ b = [k \in 1..w |-> b[k]]
  BY <1>7, <1>8 DEF IsSample, a, b
<1> QED
  BY <1>13, <1>14

\* The data is m samples.
HasSamples(data, w, m) == IsData(data) /\ m \in Nat /\ Len(data) = m * w

SamplesOf(s, data, w, m) ==
    /\ Len(s) = m /\ DOMAIN s = 1..m
    /\ \A k \in 1..m : SampleAt(data, w, k - 1) /\ s[k] = Chunk(data, w, k - 1)

LEMMA SamplesAre ==
    ASSUME NEW w \in 1..4, NEW data, NEW m, HasSamples(data, w, m)
    PROVE  SamplesOf(Samples(data, w), data, w, m)
<1> DEFINE s == Samples(data, w)
           len == Len(data)
<1>0. IsData(data) /\ m \in Nat /\ len = m * w
  BY DEF HasSamples
<1>1. len \div w = m
  <2> DEFINE z == 0
  <2>1. z \in 0..(w - 1) /\ m \in Int /\ len = m * w + z /\ w \in Nat \ {0}
    BY <1>0
  <2> HIDE DEF len, z
  <2> QED
    BY <2>1, DivisionUnique
<1>2. s = [k \in 1..m |-> SubSeq(data, (k - 1) * w + 1, k * w)]
  BY <1>1 DEF Samples
<1>3. s = [k \in 1..m |-> s[k]]
  BY <1>2
<1>4. Len(s) = m /\ DOMAIN s = 1..m
  <2> HIDE DEF s
  <2> QED
    BY <1>0, <1>3, FunctionIsSequence
<1>5. ASSUME NEW k \in 1..m
      PROVE  SampleAt(data, w, k - 1) /\ s[k] = Chunk(data, w, k - 1)
  <2>1. k * w = (k - 1) * w + w
    BY <1>0
  <2>2. k * w <= m * w
    BY <1>0
  <2>3. (k - 1) \in Nat /\ (k - 1) * w + w <= len
    BY <1>0, <2>1, <2>2
  <2> HIDE DEF s
  <2> QED
    BY <1>0, <1>2, <2>1, <2>3 DEF SampleAt, Chunk
<1> QED
  BY <1>4, <1>5 DEF SamplesOf

\* A sample of the beginning of a file is one of the file.
Begins(begin, data) == \A k \in 1..Len(begin) : begin[k] = data[k]

LEMMA SampleOfBeginning ==
    ASSUME NEW w \in 1..4, NEW data, NEW begin, Begins(begin, data),
           NEW q, SampleAt(data, w, q), SampleAt(begin, w, q)
    PROVE  Chunk(begin, w, q) = Chunk(data, w, q) /\ SampleOf(begin, w, q) = SampleOf(data, w, q)
<1> DEFINE a == Chunk(begin, w, q)
           b == Chunk(data, w, q)
<1>1. IsSample(a, begin, w, q)
  BY SampleBytes
<1>2. IsSample(b, data, w, q)
  BY SampleBytes
<1>3. \A k \in 1..w : begin[q * w + k] = data[q * w + k]
  <2> DEFINE p == q * w
             m == Len(begin)
  <2>1. p \in Nat /\ p + w <= m /\ m \in Nat
    BY LenProperties DEF SampleAt, IsData
  <2> HIDE DEF p, m
  <2>2. \A k \in 1..w : p + k \in 1..m
    BY <2>1
  <2>3. \A k \in 1..w : begin[p + k] = data[p + k]
    BY <2>2 DEF Begins, m
  <2> QED
    BY <2>3 DEF p
<1> HIDE DEF a, b
<1>4. a = b
  <2>1. a = [k \in 1..w |-> a[k]] /\ b = [k \in 1..w |-> b[k]]
    BY <1>1, <1>2 DEF IsSample
  <2>2. \A k \in 1..w : a[k] = b[k]
    BY <1>1, <1>2, <1>3 DEF IsSample
  <2> QED
    BY <2>1, <2>2
<1>5. SampleOf(begin, w, q) = SampleOf(data, w, q)
  BY <1>1, <1>2, <1>4 DEF IsSample
<1> QED
  BY <1>4, <1>5 DEF a, b

\* The samples of the frames that a header announces.
Announced(data, n, w, ch) == SubSeq(data, 1, n * (ch * w))

CountOf(n, ch) == IF n > 0 THEN n * ch ELSE 0

Announces(data, n, w, ch) == IsData(data) /\ n \in Int /\ (n > 0 => n * (ch * w) <= Len(data))

LEMMA AnnouncedSamples ==
    ASSUME NEW w \in 1..4, NEW ch \in {1, 2}, NEW data, NEW n, Announces(data, n, w, ch)
    PROVE  /\ HasSamples(Announced(data, n, w, ch), w, CountOf(n, ch))
           /\ Begins(Announced(data, n, w, ch), data)
           /\ n > 0 => n * (ch * w) = CountOf(n, ch) * w
<1> DEFINE m == CountOf(n, ch)
           b == Announced(data, n, w, ch)
           s == n * (ch * w)
<1>0. IsData(data) /\ n \in Int /\ (n > 0 => s <= Len(data))
  BY DEF Announces
<1>1. m \in Nat /\ s \in Int /\ m * w \in Nat
  BY <1>0 DEF CountOf
<1>2. IF n > 0 THEN s = m * w /\ s \in Nat ELSE s <= 0 /\ m * w = 0
  <2>1. n > 0 => s = (n * ch) * w /\ s >= 0
    BY <1>0
  <2>2. ~(n > 0) => s <= 0
    BY <1>0
  <2>3. m = IF n > 0 THEN n * ch ELSE 0
    BY DEF CountOf
  <2>4. 0 * w = 0
    OBVIOUS
  <2> HIDE DEF s
  <2> QED
    BY <1>1, <2>1, <2>2, <2>3, <2>4
<1>3. b = SubSeq(data, 1, s)
  BY DEF Announced
<1> HIDE DEF b, s, m
<1>4. CASE n > 0
  <2>1. IsData(b) /\ Len(b) = s /\ \A k \in 1..s : b[k] = data[k]
    BY <1>0, <1>2, <1>3, <1>4, DataBegins
  <2>2. HasSamples(b, w, m) /\ Begins(b, data)
    BY <1>1, <1>2, <1>4, <2>1 DEF HasSamples, Begins
  <2> QED
    BY <1>2, <1>4, <2>2 DEF m, b, s
<1>5. CASE ~(n > 0)
  <2> DEFINE a == 1
  <2>1. a \in Int /\ s < a /\ b = SubSeq(data, a, s)
    BY <1>1, <1>2, <1>3, <1>5
  <2> HIDE DEF a
  <2>2. b = <<>>
    BY <1>1, <2>1, SubSeqEmpty
  <2>3. IsData(b) /\ Len(b) = 0
    BY <2>2, EmptySeq DEF IsData
  <2>4. HasSamples(b, w, m) /\ Begins(b, data)
    BY <1>1, <1>2, <1>5, <2>3 DEF HasSamples, Begins
  <2> QED
    BY <1>5, <2>4 DEF m, b
<1> QED
  BY <1>4, <1>5

\* The second process decrypts the samples of the first one: both see them with
\* the same pseudorandom number.
LEMMA CryptAtTheEnd ==
    ASSUME OptionsInv, OutputInv, SizeInv, HeaderInv, FramesInv, CountInv, PipeInv
    PROVE  CryptTwiceIsIdentity
<1> DEFINE in == source[1].stdin
           n == source[1].frames
           w == BytesPerSample
           ch == header.channels
           seed == getKey(validargs(argv))
           m == CountOf(n, ch)
           begin == Announced(in.data, n, w, ch)
           plain == Samples(begin, w)
           encrypted == Samples(stdin.data, w)
           result == Samples(stdout.data, w)
<1> SUFFICES ASSUME Undone("-c")
             PROVE  /\ Len(result) = Len(plain)
                    /\ \A k \in DOMAIN plain :
                          plain[k] # Ones /\ encrypted[k] # Ones => result[k] = plain[k]
  BY DEF CryptTwiceIsIdentity, SourceSamples, Announced, FrameSize, Ones
<1>1. /\ pc = "exit" /\ status = "SUCCESS" /\ source # <<>> /\ argv[2] = "-c"
      /\ Len(in.data) >= in.data_size
  BY DEF Undone, Succeeded
<1>2. SizesFit
  BY <1>1, SizesAre
<1>3. /\ w \in 1..4 /\ ch \in {1, 2} /\ ch * w \in Nat \ {0} /\ FrameSize = ch * w
      /\ stdin.encoding - 1 = w /\ stdin.channels = ch
      /\ frames = Signed(Field(stdin.data_size) \div (ch * w))
  BY <1>1, <1>2 DEF HeaderInv, SizesFit, BytesPerSample
<1>4. /\ IsData(in.data) /\ in.data_size \in WordValues
      /\ n = Signed(Field(in.data_size) \div (ch * w))
      /\ stdin.data_size = Field(in.data_size)
      /\ n > 0 => Len(stdin.data) = n * (ch * w)
      /\ Holds(stdin.data, CryptFrames(in.data, w, ch, seed), w, ch)
  BY <1>1, <1>3 DEF PipeInv, Piped
<1>5. /\ argv \in Seq(Strings) /\ global_options = validargs(argv) /\ Accepted(argv)
  BY <1>1 DEF OptionsInv
<1>6. isCrypt /\ Factor = 1 /\ seed \in Nat /\ seed = getKey(global_options)
  <2>1. global_options.mode = argv[2]
    BY <1>1, <1>5, ValidIsUsage
  <2>2. isCrypt
    BY <1>1, <2>1 DEF isCrypt
  <2> QED
    BY <1>1, <1>5, <2>2, TransformationOptions, KeyIsNumber
<1>7. /\ IsData(stdin.data) /\ IsData(stdout.data)
      /\ Holds(stdout.data, CryptFrames(stdin.data, w, ch, seed), w, ch)
      /\ Len(stdout.data) = i * (ch * w)
  BY <1>1, <1>3, <1>6 DEF FramesInv, OutFrames, SizeInv, FramesWritten
<1>8. i \in Nat /\ i >= frames /\ (i = 0 \/ i <= frames) /\ frames \in Int
  BY <1>1 DEF SizeInv, CountInv
<1> HIDE DEF in, n, w, ch, seed
<1>9. /\ n \in Int /\ n < Word \div 2 /\ frames = n
      /\ n > 0 => n * (ch * w) <= Len(in.data)
  <2> DEFINE fs == ch * w
             d == in.data_size
             lim == n * fs
             len == Len(in.data)
  <2>1. d \in WordValues /\ fs \in Nat \ {0} /\ n = Signed(Field(d) \div fs)
    BY <1>3, <1>4
  <2>2. frames = Signed(Field(Field(d)) \div fs)
    BY <1>3, <1>4
  <2>3. len \in Nat /\ len >= d
    BY <1>1, <1>4, LenProperties DEF IsData
  <2> HIDE DEF fs, d, len
  <2>4. /\ Field(d) \in WordValues /\ Field(Field(d)) = Field(d) /\ Field(d) <= d
        /\ n \in Int /\ n < Word \div 2
        /\ n > 0 => n * fs <= Field(d)
    BY <2>1, FramesOfSize
  <2>5. lim \in Int /\ Field(d) \in Int /\ d \in Int
    BY <2>1, <2>4, WordIsPositive DEF WordValues
  <2>6. n > 0 => lim <= len
    <3> HIDE DEF lim
    <3>1. n > 0 => lim <= Field(d)
      BY <2>4 DEF lim
    <3> QED
      BY <2>3, <2>4, <2>5, <3>1
  <2> QED
    BY <2>1, <2>2, <2>4, <2>6 DEF fs, len
<1>10. Announces(in.data, n, w, ch)
  BY <1>4, <1>9 DEF Announces
<1>11. HasSamples(begin, w, m) /\ Begins(begin, in.data) /\ (n > 0 => n * (ch * w) = m * w)
  BY <1>3, <1>10, AnnouncedSamples
<1>12. m \in Nat /\ m = IF n > 0 THEN n * ch ELSE 0
  BY <1>11 DEF HasSamples, CountOf
<1> HIDE DEF m, begin
<1>13. HasSamples(stdout.data, w, m)
  <2>1. CASE n > 0
    BY <1>7, <1>8, <1>9, <1>11, <1>12, <2>1 DEF HasSamples
  <2>2. CASE ~(n > 0)
    <3>1. i = 0 /\ m = 0
      BY <1>8, <1>9, <1>12, <2>2
    <3>2. 0 * (ch * w) = 0 /\ 0 * w = 0
      BY <1>3
    <3> QED
      BY <1>7, <1>12, <3>1, <3>2 DEF HasSamples
  <2> QED
    BY <2>1, <2>2
<1>14. n > 0 => HasSamples(stdin.data, w, m)
  BY <1>4, <1>7, <1>11, <1>12 DEF HasSamples
<1>15. /\ SamplesOf(plain, begin, w, m) /\ SamplesOf(result, stdout.data, w, m)
       /\ n > 0 => SamplesOf(encrypted, stdin.data, w, m)
  BY <1>3, <1>11, <1>13, <1>14, SamplesAre
<1> HIDE DEF plain, encrypted, result
<1>16. ASSUME NEW k \in 1..m, plain[k] # Ones, encrypted[k] # Ones
       PROVE  result[k] = plain[k]
  <2> DEFINE q == k - 1
  <2>1. n > 0 /\ q \in Nat /\ q < n * ch
    BY <1>9, <1>12, <1>16
  <2>2. /\ SampleAt(begin, w, q) /\ plain[k] = Chunk(begin, w, q)
        /\ SampleAt(stdout.data, w, q) /\ result[k] = Chunk(stdout.data, w, q)
        /\ SampleAt(stdin.data, w, q) /\ encrypted[k] = Chunk(stdin.data, w, q)
    BY <1>15, <2>1 DEF SamplesOf
  <2> HIDE DEF q
  <2>3. SampleAt(in.data, w, q)
    <3> DEFINE x == q * w
               y == m * w
               len == Len(in.data)
    <3>1. x + w <= y /\ y <= len
      BY <1>9, <1>11, <2>1, <2>2 DEF SampleAt, HasSamples
    <3>2. x \in Int /\ w \in Int /\ y \in Int /\ len \in Int
      BY <1>3, <1>4, <1>12, <2>1, LenProperties DEF IsData
    <3> HIDE DEF x, y, len
    <3>3. x + w <= len
      BY <3>1, <3>2
    <3> QED
      BY <1>4, <2>1, <3>3 DEF SampleAt, x, len
  <2>4. /\ Encrypts(in.data, stdin.data, w, ch, seed)
        /\ Encrypts(stdin.data, stdout.data, w, ch, seed)
    BY <1>3, <1>4, <1>6, <1>7 DEF Encrypts
  <2>5. q \div ch <= Word
    <3>1. q \div ch < n /\ q \div ch \in Nat
      BY <1>3, <1>9, <2>1, SamplePlace
    <3> DEFINE x == q \div ch
               h == Word \div 2
    <3>2. x \in Nat /\ x < n /\ n < h /\ n \in Int /\ h \in Int /\ Word \in Nat \ {0} /\ Word = 2 * h
      BY <1>9, <3>1, WidthsOfInts
    <3> HIDE DEF x, h
    <3>3. x <= Word
      BY <3>2
    <3> QED
      BY <3>3 DEF x
  <2>6. plain[k] = Chunk(in.data, w, q)
    BY <1>3, <1>11, <2>2, <2>3, SampleOfBeginning
  <2>7. Chunk(stdout.data, w, q) = Chunk(in.data, w, q)
    BY <1>16, <2>2, <2>3, <2>4, <2>5, <2>6, SampleComesBack
  <2> QED
    BY <2>2, <2>6, <2>7
<1> QED
  BY <1>15, <1>16 DEF SamplesOf

-----------------------------------------------------------------------------
(* A slow-down sped up again.                                              *)

\* Sample q is the one of channel c in frame f.
Channel(q, f, c, ch) == ch \in {1, 2} /\ f \in Nat /\ c \in 1..ch /\ q = f * ch + (c - 1)

\* A number that is written and read again as it is.
Fits(x, w) == IsSigned(x, w) /\ x % Power(Base, w) # Word - 1

LEMMA HeldBytes ==
    ASSUME NEW w \in 1..4, NEW data, NEW q, SampleAt(data, w, q),
           NEW f, NEW c, NEW ch, Channel(q, f, c, ch), NEW G, Holds(data, G, w, ch)
    PROVE  WrittenAs(data, q * w, w, G[f][c])
<1>1. /\ q * w + w <= Len(data) /\ IsSequence(data)
      /\ ch \in {1, 2} /\ f \in Nat /\ c \in 1..ch /\ q = f * ch + (c - 1)
  BY DEF SampleAt, Channel, IsData, IsSequence
<1>2. (f * ch + (c - 1)) * w + w <= Len(data)
  BY <1>1
<1>3. WrittenAs(data, (f * ch + (c - 1)) * w, w, G[f][c])
  BY <1>1, <1>2, SampleHeld
<1> QED
  BY <1>1, <1>3

LEMMA HeldSample ==
    ASSUME NEW w \in 1..4, NEW data, NEW q, SampleAt(data, w, q),
           NEW f, NEW c, NEW ch, Channel(q, f, c, ch),
           NEW G, Holds(data, G, w, ch), Fits(G[f][c], w)
    PROVE  SampleOf(data, w, q) = G[f][c]
<1> DEFINE x == G[f][c]
<1>1. IsData(data) /\ q \in Nat /\ q * w + w <= Len(data)
  BY DEF SampleAt
<1>2. WrittenAs(data, q * w, w, x)
  BY HeldBytes
<1>3. IsSigned(x, w) /\ x % Power(Base, w) # Word - 1
  BY DEF Fits
<1> HIDE DEF x
<1>4. SampleOf(data, w, q) = x
  BY <1>1, <1>2, <1>3, SampleWritten
<1> QED
  BY <1>4 DEF x

LEMMA SampleFitsAgain ==
    ASSUME NEW w \in 1..4, NEW data, NEW q, SampleAt(data, w, q)
    PROVE  Fits(SampleOf(data, w, q), w)
BY SampleFits DEF SampleAt, Fits

LEMMA FrameOfSample ==
    ASSUME NEW w, NEW data, NEW q, NEW f, NEW c, NEW ch, Channel(q, f, c, ch)
    PROVE  FrameOf(data, w, ch, f)[c] = SampleOf(data, w, q)
BY DEF Channel, FrameOf

\* slowDown makes a frames of n, and an int holds the size of them.
SlowsTo(a, n, F, fs, h) ==
    /\ n \in Nat \ {0} /\ F \in Nat \ {0} /\ fs \in Nat \ {0} /\ h \in Nat
    /\ n * F * fs < h /\ a = (n - 1) * F + 1

\* What it computes of them: their size, their number, and what speedUp leaves.
SlowedSizes(a, n, F, fs, h) ==
    /\ a \in Nat \ {0} /\ a * fs \in Nat /\ a * fs < h /\ a < h
    /\ n + (F - 1) * (n - 1) = a
    /\ (a + (F - 1)) \div F = n

LEMMA SlowedFrames ==
    ASSUME NEW n, NEW F, NEW fs, NEW h, NEW a, SlowsTo(a, n, F, fs, h)
    PROVE  SlowedSizes(a, n, F, fs, h)
<1>0. /\ n \in Nat \ {0} /\ F \in Nat \ {0} /\ fs \in Nat \ {0} /\ h \in Nat
      /\ n * F * fs < h /\ a = (n - 1) * F + 1
  BY DEF SlowsTo
<1> DEFINE b == n * F
<1>1. b \in Nat /\ b = (n - 1) * F + F /\ (n - 1) * F \in Nat
  BY <1>0
<1>2. a \in Nat \ {0} /\ a <= b /\ a + (F - 1) = b
  <2> DEFINE c == (n - 1) * F
  <2>1. c \in Nat /\ a = c + 1 /\ b = c + F /\ F \in Nat \ {0}
    BY <1>0, <1>1
  <2> HIDE DEF b, c
  <2> QED
    BY <2>1
<1>3. n + (F - 1) * (n - 1) = a
  BY <1>0
<1>4. b * fs < h
  BY <1>0
<1>5. b \div F = n
  <2> DEFINE z == 0
  <2>1. n \in Int /\ z \in 0..(F - 1) /\ b = n * F + z
    BY <1>0, <1>1
  <2> HIDE DEF b, z
  <2> QED
    BY <1>0, <2>1, DivisionUnique
<1> HIDE DEF b
<1>6. a * fs <= b * fs /\ a * fs \in Nat /\ b * fs \in Nat /\ a <= a * fs
  <2>1. fs \in Nat \ {0}
    BY <1>0
  <2> QED
    BY <1>1, <1>2, <2>1
<1> DEFINE x == a * fs
           y == b * fs
<1>7. x \in Nat /\ x < h /\ a < h
  <2>1. x <= y /\ x \in Nat /\ y \in Nat /\ a <= x /\ y < h /\ h \in Nat
    BY <1>0, <1>4, <1>6
  <2> HIDE DEF x, y
  <2> QED
    BY <1>2, <2>1
<1> QED
  BY <1>2, <1>3, <1>5, <1>7 DEF SlowedSizes

\* slowDown makes mid of n frames, and speedUp makes out of mid.
SlowedAndSped(mid, plain, out, n, w, ch, F) ==
    /\ w \in 1..4 /\ ch \in {1, 2} /\ F \in Nat \ {0} /\ n \in Nat \ {0} /\ IsData(mid)
    /\ Holds(mid, SlowFrames(plain, w, ch, F), w, ch) /\ Len(mid) = ((n - 1) * F + 1) * (ch * w)
    /\ Holds(out, SpeedFrames(mid, w, ch, F), w, ch)

LEMMA SampleKept ==
    ASSUME NEW w, NEW ch, NEW F, NEW n, NEW plain, NEW mid, NEW out,
           SlowedAndSped(mid, plain, out, n, w, ch, F),
           NEW q, q \div ch < n, SampleAt(plain, w, q), SampleAt(out, w, q)
    PROVE  WrittenAs(out, q * w, w, SampleOf(plain, w, q))
<1> DEFINE f == q \div ch
           c == (q % ch) + 1
           g == f * F
           p == g * ch + (c - 1)
           s == SampleOf(plain, w, q)
           G == SlowFrames(plain, w, ch, F)
           H == SpeedFrames(mid, w, ch, F)
<1>0. /\ w \in 1..4 /\ ch \in {1, 2} /\ F \in Nat \ {0} /\ n \in Nat \ {0}
  BY DEF SlowedAndSped
<1>1. f \in Nat /\ c \in 1..ch /\ f < n /\ Channel(q, f, c, ch)
  <2>1. q \in Nat
    BY DEF SampleAt
  <2> QED
    BY <1>0, <2>1, SamplePlace DEF Channel
<1>2. Fits(s, w)
  BY <1>0, SampleFitsAgain
<1>3. FrameOf(plain, w, ch, f)[c] = s
  BY <1>1, FrameOfSample
<1> HIDE DEF f, c, s
<1>4. g \in Nat /\ g \div F = f /\ g % F = 0 /\ g <= (n - 1) * F
  <2> DEFINE z == 0
  <2>1. f \in Int /\ z \in 0..(F - 1) /\ g = f * F + z
    BY <1>0, <1>1
  <2>2. g \in Nat /\ g <= (n - 1) * F
    BY <1>0, <1>1
  <2> HIDE DEF g, z
  <2>3. g \div F = f /\ g % F = z
    BY <1>0, <2>1, DivisionUnique
  <2> QED
    BY <2>2, <2>3 DEF z
<1>5. H[f] = FrameOf(mid, w, ch, g)
  BY <1>1 DEF SpeedFrames
<1> HIDE DEF g
<1>6. G[g] = FrameOf(plain, w, ch, f)
  BY <1>0, <1>4 DEF SlowFrames
<1> HIDE DEF G, H
<1>7. Channel(p, g, c, ch) /\ p \in Nat
  BY <1>0, <1>1, <1>4 DEF Channel
<1>8. SampleAt(mid, w, p)
  <2> DEFINE a == (n - 1) * F + 1
             b == p + 1
  <2>1. a \in Nat /\ b \in Nat /\ b <= a * ch
    <3>1. g + 1 <= a /\ a \in Nat
      BY <1>0, <1>4
    <3> HIDE DEF a
    <3>2. (g + 1) * ch <= a * ch /\ (g + 1) * ch = g * ch + ch
      BY <1>0, <1>4, <3>1
    <3> DEFINE x == g * ch
               y == a * ch
    <3>3. x + ch <= y /\ x \in Nat /\ y \in Nat /\ b = (x + (c - 1)) + 1
      BY <1>0, <1>4, <3>1, <3>2
    <3> HIDE DEF x, y, b
    <3>4. b <= y /\ b \in Nat
      BY <1>0, <1>1, <3>3
    <3> QED
      BY <3>1, <3>4 DEF y
  <2>2. b * w = p * w + w
    BY <1>0, <1>7
  <2>3. Len(mid) = (a * ch) * w
    <3>1. Len(mid) = a * (ch * w) /\ a \in Nat
      BY <2>1 DEF SlowedAndSped
    <3> HIDE DEF a
    <3> QED
      BY <1>0, <3>1
  <2> HIDE DEF a, b
  <2> DEFINE e == a * ch
  <2>4. e \in Nat /\ b <= e
    BY <1>0, <2>1
  <2> HIDE DEF e
  <2>5. b * w <= e * w
    BY <1>0, <2>1, <2>4
  <2>6. p * w + w <= Len(mid)
    BY <2>2, <2>3, <2>5 DEF e
  <2> QED
    BY <1>7, <2>6 DEF SampleAt, SlowedAndSped
<1> HIDE DEF p
<1>9. SampleOf(mid, w, p) = s
  <2>1. G[g][c] = s
    BY <1>3, <1>6
  <2>2. Holds(mid, G, w, ch)
    BY DEF G, SlowedAndSped
  <2> QED
    BY <1>0, <1>2, <1>7, <1>8, <2>1, <2>2, HeldSample
<1>10. H[f][c] = s
  BY <1>5, <1>7, <1>9, FrameOfSample
<1>11. Holds(out, H, w, ch)
  BY DEF H, SlowedAndSped
<1>12. WrittenAs(out, q * w, w, s)
  BY <1>0, <1>1, <1>10, <1>11, HeldBytes
<1> QED
  BY <1>12 DEF s

\* The bytes of 0.
Zeros == [k \in 1..4 |-> 0]

\* Ones are read as 0.
LEMMA OnesAreRead ==
    ASSUME NEW w \in 1..4, NEW data, NEW q, SampleAt(data, w, q), Chunk(data, w, q) = Ones
    PROVE  w = 4 /\ SampleOf(data, w, q) = 0
<1> DEFINE p == q * w
           t == Chunk(data, w, q)
<1>1. t \in [1..w -> Bytes] /\ \A k \in 1..w : t[k] = data[p + k]
  <2>1. IsSample(t, data, w, q)
    BY SampleBytes
  <2> HIDE DEF t
  <2> QED
    BY <2>1 DEF IsSample
<1>2. SampleOf(data, w, q) = signExtend(Taken(Value(data, p, w)), w)
  BY SampleRead DEF SampleAt
<1>3. p \in Int /\ w \in Nat
  BY DEF SampleAt
<1> HIDE DEF t, p
<1>4. t = [k \in 1..4 |-> Base - 1]
  BY DEF t, Ones
<1>5. w = 4
  <2>1. 1..w = 1..4
    BY <1>1, <1>4
  <2>2. 4 \in 1..w
    BY <2>1
  <2> QED
    BY <2>2
<1>6. \A k \in 1..w : data[p + k] = Base - 1
  BY <1>1, <1>4, <1>5
<1>7. Value(data, p, w) = Power(Base, w) - 1
  BY <1>3, <1>6, ValueOfOnes
<1>8. Taken(Value(data, p, w)) = 0
  BY <1>5, <1>7 DEF Taken, Word
<1>9. signExtend(0, w) = 0
  <2> DEFINE P == Power(Base, w)
  <2>1. P = Word /\ Word \in Nat \ {0, 1}
    BY <1>5, WidthsOfInts DEF Word
  <2> HIDE DEF P
  <2>2. 0 < P \div 2 /\ -0 <= P - P \div 2 /\ 0 % P = 0
    BY <2>1
  <2>3. IsSigned(0, w)
    BY <2>2 DEF IsSigned, P
  <2>4. signExtend(0 % P, w) = 0
    BY <1>3, <2>3, SignExtendOf DEF P
  <2> QED
    BY <2>2, <2>4
<1> QED
  BY <1>2, <1>5, <1>8, <1>9

\* A sample that is written as it was read has its bytes again, but for the ones.
LEMMA SampleRewritten ==
    ASSUME NEW w \in 1..4, NEW plain, NEW out, NEW q, SampleAt(plain, w, q), SampleAt(out, w, q),
           WrittenAs(out, q * w, w, SampleOf(plain, w, q))
    PROVE  Chunk(out, w, q) = IF Chunk(plain, w, q) = Ones THEN Zeros ELSE Chunk(plain, w, q)
<1> DEFINE p == q * w
           P == Power(Base, w)
           s == SampleOf(plain, w, q)
           a == Chunk(out, w, q)
           b == Chunk(plain, w, q)
<1>0. IsData(plain) /\ q \in Nat /\ q * w + w <= Len(plain)
  BY DEF SampleAt
<1>1. p \in Int /\ w \in Nat /\ s \in Int
  <2>1. p \in Int /\ w \in Nat
    BY <1>0
  <2>2. IsSigned(s, w)
    BY <1>0, SampleFits
  <2> HIDE DEF p, s
  <2> QED
    BY <2>1, <2>2 DEF IsSigned
<1>2. IsSample(a, out, w, q) /\ IsSample(b, plain, w, q) /\ AreBytes(plain, p, w)
  BY SampleBytes
<1>3. AreBytes(out, p, w) /\ Value(out, p, w) = s % P
  BY <1>1, ValueOfWritten
<1>4. /\ a = [k \in 1..w |-> a[k]] /\ \A k \in 1..w : a[k] = out[p + k]
      /\ b = [k \in 1..w |-> b[k]] /\ \A k \in 1..w : b[k] = plain[p + k]
  BY <1>2 DEF IsSample
<1>5. CASE b = Ones
  <2>1. w = 4 /\ s = 0
    BY <1>5, OnesAreRead
  <2> HIDE DEF a, b, p, s, P
  <2>2. ASSUME NEW k \in 1..4 PROVE a[k] = 0
    <3>1. a[k] = putByteInt(0, 4)[k]
      BY <1>4, <2>1 DEF WrittenAs, p, s
    <3> DEFINE x == Power(Base, 4 - k)
               y == Base
    <3>2. a[k] = (0 \div x) % y
      BY <3>1 DEF putByteInt
    <3>3. x \in Nat \ {0} /\ y \in Nat \ {0}
      BY WidthsOfInts
    <3> HIDE DEF x, y
    <3>4. 0 \div x = 0 /\ 0 % y = 0
      BY <3>3
    <3> QED
      BY <3>2, <3>4
  <2>3. a = Zeros
    BY <1>4, <2>1, <2>2 DEF Zeros
  <2> QED
    BY <1>5, <2>3 DEF a, b
<1>6. CASE b # Ones
  <2>1. s % P = Value(plain, p, w)
    BY <1>6, SampleIsItsValue DEF SampleAt
  <2>2. SameBytes(out, p, plain, p, w)
    BY <1>1, <1>2, <1>3, <2>1, ValueIsItsBytes
  <2> HIDE DEF a, b, p, s, P
  <2>3. \A k \in 1..w : a[k] = b[k]
    BY <1>4, <2>2 DEF SameBytes
  <2>4. a = b
    BY <1>4, <2>3
  <2> QED
    BY <1>6, <2>4 DEF a, b
<1> QED
  BY <1>5, <1>6

\* The second process finds the frames of the first one's input at the multiples
\* of the factor, and as many of them.
LEMMA SpeedAtTheEnd ==
    ASSUME OptionsInv, OutputInv, SizeInv, HeaderInv, FramesInv, CountInv, PipeInv
    PROVE  SpeedUpUndoesSlowDown
<1> DEFINE in == source[1].stdin
           n == source[1].frames
           w == BytesPerSample
           ch == header.channels
           fs == ch * w
           F == Factor
           m == CountOf(n, ch)
           begin == Announced(in.data, n, w, ch)
           before == Samples(begin, w)
           after == Samples(stdout.data, w)
           a == (n - 1) * F + 1
           h == Word \div 2
<1> SUFFICES ASSUME Undone("-u"), F > 0, n > 0, n * F * FrameSize < h
             PROVE  /\ Len(after) = Len(before)
                    /\ \A k \in DOMAIN before :
                          after[k] = IF before[k] = Ones THEN Zeros ELSE before[k]
  BY DEF SpeedUpUndoesSlowDown, SourceSamples, Announced, FrameSize, Ones, Zeros
<1>1. /\ pc = "exit" /\ status = "SUCCESS" /\ source # <<>> /\ argv[2] = "-u"
      /\ Len(in.data) >= in.data_size
  BY DEF Undone, Succeeded
<1>2. SizesFit
  BY <1>1, SizesAre
<1>3. /\ w \in 1..4 /\ ch \in {1, 2} /\ fs \in Nat \ {0} /\ FrameSize = fs
      /\ stdin.encoding - 1 = w /\ stdin.channels = ch
      /\ frames = Signed(Field(stdin.data_size) \div fs)
  BY <1>1, <1>2 DEF HeaderInv, SizesFit, BytesPerSample
<1>4. argv \in Seq(Strings) /\ global_options = validargs(argv) /\ Accepted(argv)
  BY <1>1 DEF OptionsInv
<1>5. isSpeedUp /\ ~isCrypt /\ F \in Nat \ {0} /\ F = getFactor(validargs(argv))
  <2>1. global_options.mode = argv[2]
    BY <1>1, <1>4, ValidIsUsage
  <2>2. isSpeedUp /\ ~isCrypt
    BY <1>1, <2>1 DEF isSpeedUp, isCrypt
  <2>3. F \in Int \ {0}
    BY <1>1, TransformationOptions
  <2>4. F = getFactor(validargs(argv))
    BY <1>4 DEF Factor
  <2> HIDE DEF F
  <2> QED
    BY <2>2, <2>3, <2>4
<1>6. /\ IsData(in.data) /\ in.data_size \in WordValues
      /\ n = Signed(Field(in.data_size) \div fs)
      /\ stdin.data_size = Unsigned((n + (F - 1) * (n - 1)) * fs)
      /\ Len(stdin.data) = a * fs
      /\ Holds(stdin.data, SlowFrames(in.data, w, ch, F), w, ch)
  BY <1>1, <1>3, <1>5 DEF PipeInv, Piped
<1>7. /\ IsData(stdin.data) /\ IsData(stdout.data)
      /\ Holds(stdout.data, SpeedFrames(stdin.data, w, ch, F), w, ch)
      /\ Len(stdout.data) = ((i + (F - 1)) \div F) * fs
  BY <1>1, <1>3, <1>5 DEF FramesInv, OutFrames, SizeInv, FramesWritten
<1>8. i \in Nat /\ i >= frames /\ (i = 0 \/ i <= frames) /\ frames \in Int
  BY <1>1 DEF SizeInv, CountInv
<1>9. n * F * fs < h
  BY <1>3
<1> HIDE DEF in, n, w, ch, F, fs
<1>10. /\ n \in Nat \ {0} /\ n * fs <= Len(in.data)
  <2> DEFINE d == in.data_size
             lim == n * fs
             len == Len(in.data)
  <2>1. d \in WordValues /\ fs \in Nat \ {0} /\ n = Signed(Field(d) \div fs)
    BY <1>3, <1>6
  <2>2. len \in Nat /\ len >= d
    BY <1>1, <1>6, LenProperties DEF IsData
  <2> HIDE DEF d, len
  <2>3. Field(d) \in WordValues /\ Field(d) <= d /\ n \in Int /\ (n > 0 => n * fs <= Field(d))
    BY <2>1, FramesOfSize
  <2>4. lim \in Int /\ Field(d) \in Int /\ d \in Int /\ lim <= Field(d)
    BY <2>1, <2>3, WordIsPositive DEF WordValues
  <2> HIDE DEF lim
  <2>5. lim <= len
    BY <2>2, <2>3, <2>4
  <2> QED
    BY <2>3, <2>5 DEF lim, len
<1>11. h \in Nat /\ Word = 2 * h /\ Word \in Nat \ {0, 1}
  BY WidthsOfInts
<1> HIDE DEF a, h
<1>12. /\ a \in Nat \ {0} /\ a * fs \in Nat /\ a * fs < h /\ a < h
       /\ n + (F - 1) * (n - 1) = a
       /\ (a + (F - 1)) \div F = n
  <2>1. SlowsTo(a, n, F, fs, h)
    BY <1>3, <1>5, <1>9, <1>10, <1>11 DEF a, SlowsTo
  <2> QED
    BY <2>1, SlowedFrames DEF SlowedSizes
<1>13. frames = a
  <2> DEFINE x == a * fs
             z == 0
  <2>1. x \in Nat /\ x < h
    BY <1>12
  <2>2. stdin.data_size = Unsigned(x)
    BY <1>6, <1>12
  <2>3. x \div fs = a
    <3>1. a \in Int /\ z \in 0..(fs - 1) /\ x = a * fs + z
      BY <1>3, <1>12
    <3> HIDE DEF x, z
    <3> QED
      BY <1>3, <3>1, DivisionUnique
  <2> HIDE DEF x
  <2>4. Unsigned(x) = x
    <3>1. x \in 0..(Word - 1) /\ Word \in Nat \ {0}
      BY <1>11, <2>1
    <3> QED
      BY <3>1, RemainderOfSmall DEF Unsigned
  <2>5. Field(x) = x
    BY <1>11, <2>1 DEF Field
  <2>6. Signed(a) = a
    <3>1. -h <= a /\ a < h /\ a \in Int
      BY <1>11, <1>12
    <3> QED
      BY <3>1, SignedIs DEF h
  <2> QED
    BY <1>3, <2>2, <2>3, <2>4, <2>5, <2>6
<1>14. i = a
  BY <1>8, <1>12, <1>13
<1>15. Len(stdout.data) = n * fs
  BY <1>7, <1>12, <1>14
<1>16. Announces(in.data, n, w, ch)
  BY <1>6, <1>10 DEF Announces, fs
<1>17. HasSamples(begin, w, m) /\ Begins(begin, in.data) /\ n * fs = m * w
  BY <1>3, <1>10, <1>16, AnnouncedSamples DEF fs
<1>18. m \in Nat /\ m = n * ch
  BY <1>10, <1>17 DEF HasSamples, CountOf
<1> HIDE DEF m, begin
<1>19. HasSamples(stdout.data, w, m)
  BY <1>7, <1>15, <1>17, <1>18 DEF HasSamples
<1>20. SamplesOf(before, begin, w, m) /\ SamplesOf(after, stdout.data, w, m)
  BY <1>3, <1>17, <1>19, SamplesAre
<1>21. SlowedAndSped(stdin.data, in.data, stdout.data, n, w, ch, F)
  BY <1>3, <1>5, <1>6, <1>7, <1>10 DEF SlowedAndSped, a, fs
<1> HIDE DEF before, after
<1>22. ASSUME NEW k \in 1..m
       PROVE  after[k] = IF before[k] = Ones THEN Zeros ELSE before[k]
  <2> DEFINE q == k - 1
  <2>1. q \in Nat /\ q < n * ch
    BY <1>18
  <2>2. /\ SampleAt(begin, w, q) /\ before[k] = Chunk(begin, w, q)
        /\ SampleAt(stdout.data, w, q) /\ after[k] = Chunk(stdout.data, w, q)
    BY <1>20 DEF SamplesOf
  <2> HIDE DEF q
  <2>3. SampleAt(in.data, w, q)
    <3> DEFINE x == q * w
               y == m * w
               len == Len(in.data)
    <3>1. x + w <= y /\ y <= len
      BY <1>10, <1>17, <2>2 DEF SampleAt, HasSamples
    <3>2. x \in Int /\ w \in Int /\ y \in Int /\ len \in Int
      BY <1>3, <1>6, <1>18, <2>1, LenProperties DEF IsData
    <3> HIDE DEF x, y, len
    <3>3. x + w <= len
      BY <3>1, <3>2
    <3> QED
      BY <1>6, <2>1, <3>3 DEF SampleAt, x, len
  <2>4. q \div ch < n
    BY <1>3, <1>10, <2>1, SamplePlace
  <2>5. WrittenAs(stdout.data, q * w, w, SampleOf(in.data, w, q))
    BY <1>21, <2>2, <2>3, <2>4, SampleKept
  <2>6. before[k] = Chunk(in.data, w, q)
    BY <1>3, <1>17, <2>2, <2>3, SampleOfBeginning
  <2>7. Chunk(stdout.data, w, q) =
           IF Chunk(in.data, w, q) = Ones THEN Zeros ELSE Chunk(in.data, w, q)
    BY <1>3, <2>2, <2>3, <2>5, SampleRewritten
  <2> QED
    BY <2>2, <2>6, <2>7
<1> QED
  BY <1>20, <1>22 DEF SamplesOf

-----------------------------------------------------------------------------
(* The samples between two frames.                                         *)

\* y is between s and t, at k of n steps of the way, less than one off.
OnTheWay(y, s, t, k, F) ==
    /\ y \in Int /\ (s <= y \/ t <= y) /\ (y <= s \/ y <= t)
    /\ Magnitude(y * F - (s * (F - k) + t * k)) < F

\* Two samples, and a factor whose multiples of their distance fit an int.
Distance(s, t, k, F, w) ==
    /\ w \in 1..4 /\ F \in Nat \ {0} /\ k \in 0..(F - 1) /\ IsSigned(s, w) /\ IsSigned(t, w)
    /\ Power(Base, w) * F <= Word \div 2

LEMMA QuotientOf ==
    ASSUME NEW m \in Nat, NEW F \in Nat \ {0}, NEW q \in Nat, q = m \div F, m = 0 => q = 0
    PROVE  Quotient(m, F) = q /\ Quotient(-m, F) = -q
<1>1. Quotient(m, F) = q
  BY DEF Quotient, Magnitude
<1>2. Quotient(-m, F) = -q
  <2>1. CASE m <= 0
    <3>1. -m = m
      BY <2>1
    <3>2. q <= 0
      BY <2>1
    <3>3. -q = q
      BY <3>2
    <3> QED
      BY <1>1, <3>1, <3>3
  <2>2. CASE m > 0
    <3> DEFINE x == -m
    <3>1. x < 0 /\ ~(F < 0) /\ -x = m /\ x \in Int
      BY <2>2
    <3> HIDE DEF x
    <3>2. Magnitude(x) = m /\ Magnitude(F) = F
      BY <3>1 DEF Magnitude
    <3>3. Quotient(x, F) = -(m \div F)
      BY <3>1, <3>2 DEF Quotient
    <3> QED
      BY <3>3 DEF x
  <2> QED
    BY <2>1, <2>2
<1> QED
  BY <1>1, <1>2

\* The computation of transformations.c stays within an int and on its way.
LEMMA Interpolated ==
    ASSUME NEW s, NEW t, NEW k, NEW F, NEW w, Distance(s, t, k, F, w)
    PROVE  /\ OnTheWay(getInterpolation(s, t, k, F), s, t, k, F)
           /\ Fits(getInterpolation(s, t, k, F), w)
<1> DEFINE P == Power(Base, w)
           h == Word \div 2
           top == P \div 2
           D == t - s
           E == IF D < 0 THEN -D ELSE D
           m == E * k
           q == m \div F
           e == IF D < 0 THEN -q ELSE q
           y == s + e
<1>0. /\ w \in 1..4 /\ F \in Nat \ {0} /\ k \in 0..(F - 1) /\ P * F <= h
      /\ s \in Int /\ s < top /\ -s <= P - top
      /\ t \in Int /\ t < top /\ -t <= P - top
  BY DEF Distance, IsSigned
<1>1. P \in Nat \ {0} /\ h \in Nat /\ Word = 2 * h /\ top \in Int
  <2>1. P \in Nat \ {0}
    BY <1>0, WordIsPositive, PowerIsPositive
  <2> HIDE DEF P
  <2> QED
    BY <2>1, WidthsOfInts
<1> HIDE DEF P, h, top
<1>2. D \in Int /\ E \in Nat /\ E < P
  BY <1>0, <1>1
<1> HIDE DEF D
<1>3. q \in 0..E /\ q * F <= m /\ m - q * F < F /\ m \in Nat /\ m <= E * F
  <2> HIDE DEF E, m, q
  <2> QED
    BY <1>0, <1>2, QuotientOfWay DEF m, q
<1>4. m < h /\ P <= h
  <2> DEFINE x == E * F
             y1 == P * F
  <2>1. x < y1 /\ x \in Nat /\ y1 \in Nat /\ P <= y1
    <3> HIDE DEF E
    <3>1. (P - E) * F >= 1 /\ P * F = E * F + (P - E) * F /\ E * F \in Nat
      BY <1>0, <1>1, <1>2
    <3>2. P * F >= P /\ P * F \in Nat
      BY <1>0, <1>1
    <3> DEFINE d == (P - E) * F
    <3>3. y1 = x + d /\ d >= 1 /\ x \in Nat /\ d \in Int
      BY <1>0, <1>1, <1>2, <3>1
    <3> HIDE DEF d, x, y1
    <3>4. x < y1
      BY <3>3
    <3> QED
      BY <3>2, <3>3, <3>4 DEF y1
  <2> HIDE DEF E, m, q
  <2>2. y1 <= h /\ m <= x
    BY <1>0, <1>3
  <2> HIDE DEF x, y1
  <2> QED
    BY <1>1, <1>3, <2>1, <2>2
<1>5. Signed(D) = D
  <2>1. -h <= D /\ D < h
    BY <1>1, <1>2, <1>4
  <2> QED
    BY <1>2, <2>1, SignedIs DEF h
<1>6. D * k = IF D < 0 THEN -m ELSE m
  BY <1>0, <1>2
<1> HIDE DEF E, m
<1>7. Signed(D * k) = D * k /\ D * k \in Int
  <2> DEFINE x == D * k
  <2>1. x \in Int /\ -h <= x /\ x < h
    BY <1>1, <1>3, <1>4, <1>6
  <2> HIDE DEF x
  <2>2. Signed(x) = x
    BY <2>1, SignedIs DEF h
  <2> QED
    BY <2>1, <2>2 DEF x
<1>8. Quotient(D * k, F) = e
  <2>1. q \in Nat /\ (m = 0 => q = 0)
    <3>1. q \in Nat
      BY <1>2, <1>3
    <3>2. ASSUME m = 0 PROVE q = 0
      <4>1. q * F <= 0
        BY <1>3, <3>2
      <4> HIDE DEF q
      <4>2. q # 0 => q * F > 0
        BY <1>0, <3>1
      <4> QED
        BY <1>0, <3>1, <4>1, <4>2
    <3> QED
      BY <3>1, <3>2
  <2> HIDE DEF q
  <2>2. Quotient(m, F) = q /\ Quotient(-m, F) = -q
    BY <1>0, <1>3, <2>1, QuotientOf DEF q
  <2> QED
    BY <1>6, <2>2
<1>9. getInterpolation(s, t, k, F) = Signed(y)
  BY <1>5, <1>7, <1>8 DEF getInterpolation, D
<1> HIDE DEF q
<1>10. /\ y \in Int /\ (s <= y \/ t <= y) /\ (y <= s \/ y <= t)
       /\ (D >= 0 => s <= y /\ y <= t) /\ (D < 0 => t <= y /\ y <= s)
  BY <1>0, <1>2, <1>3 DEF D, E
<1>11. y < top /\ -y <= P - top
  BY <1>0, <1>1, <1>10
<1>12. Signed(y) = y
  <2>1. -h <= y /\ y < h
    <3>1. top <= P /\ 0 <= top
      BY <1>1 DEF top
    <3> HIDE DEF y
    <3> QED
      BY <1>1, <1>4, <1>10, <1>11, <3>1
  <2> HIDE DEF y
  <2> QED
    BY <1>10, <2>1, SignedIs DEF h
<1>13. Magnitude(y * F - (s * (F - k) + t * k)) < F
  <2> DEFINE x == y * F - (s * (F - k) + t * k)
             g == q * F
             d == D * k
  <2>1. x = e * F - d
    BY <1>0, <1>2, <1>3 DEF D
  <2>2. e * F = IF D < 0 THEN -g ELSE g
    BY <1>0, <1>2, <1>3
  <2>3. g \in Int
    BY <1>0, <1>3
  <2>4. d = IF D < 0 THEN -m ELSE m
    BY <1>6
  <2>5. x = IF D < 0 THEN m - g ELSE g - m
    <3> DEFINE z == e * F
    <3>1. x = z - d /\ z = IF D < 0 THEN -g ELSE g
      BY <2>1, <2>2
    <3> HIDE DEF x, d, g, z
    <3> QED
      BY <1>2, <1>3, <2>3, <2>4, <3>1
  <2>6. g <= m /\ m - g < F
    BY <1>3
  <2> HIDE DEF x, d, g
  <2>7. Magnitude(x) < F
    BY <1>0, <1>2, <1>3, <2>3, <2>5, <2>6 DEF Magnitude
  <2> QED
    BY <2>7 DEF x
<1>14. y % P # Word - 1
  <2> HIDE DEF y
  <2>1. y % P \in 0..(P - 1)
    BY <1>1, <1>10, Division
  <2> QED
    BY <1>1, <1>4, <2>1
<1> HIDE DEF y
<1> QED
  BY <1>9, <1>10, <1>11, <1>12, <1>13, <1>14 DEF OnTheWay, Fits, IsSigned, P, top

LEMMA BetweenBounds ==
    ASSUME NEW s \in Int, NEW t \in Int, NEW y \in Int, s <= y \/ t <= y, y <= s \/ y <= t
    PROVE  y \in Min({s, t})..Max({s, t})
<1> DEFINE a == Min({s, t})
           b == Max({s, t})
<1>1. PICK x \in {s, t} : \A z \in {s, t} : x <= z
  OBVIOUS
<1>2. a \in {s, t} /\ \A z \in {s, t} : a <= z
  BY <1>1 DEF Min
<1>3. PICK g \in {s, t} : \A z \in {s, t} : g >= z
  OBVIOUS
<1>4. b \in {s, t} /\ \A z \in {s, t} : b >= z
  BY <1>3 DEF Max
<1> HIDE DEF a, b
<1>5. a \in Int /\ b \in Int /\ a <= y /\ y <= b
  BY <1>2, <1>4
<1> QED
  BY <1>5 DEF a, b

\* The data has n frames.
HasFrames(data, n, w, ch) == IsData(data) /\ n \in Nat /\ n * (ch * w) <= Len(data)

LEMMA SampleOfFrame ==
    ASSUME NEW w \in 1..4, NEW ch \in {1, 2}, NEW data, NEW n, HasFrames(data, n, w, ch),
           NEW g \in Nat, g < n, NEW c \in 1..ch, NEW q, q = g * ch + (c - 1)
    PROVE  SampleAt(data, w, q) /\ Channel(q, g, c, ch)
<1> DEFINE b == q + 1
           x == g * ch
           y == n * ch
           len == Len(data)
<1>1. n \in Nat /\ len \in Nat /\ n * (ch * w) <= len
  BY LenProperties DEF HasFrames, IsData
<1>2. x + ch <= y /\ x \in Nat /\ y \in Nat
  <2>1. (n - (g + 1)) * ch >= 0 /\ n * ch = (g * ch + ch) + (n - (g + 1)) * ch /\ (n - (g + 1)) * ch \in Int
    BY <1>1
  <2> DEFINE d == (n - (g + 1)) * ch
  <2>2. y = (x + ch) + d /\ d >= 0 /\ d \in Int /\ x \in Nat /\ y \in Nat
    BY <1>1, <2>1
  <2> HIDE DEF d, x, y
  <2> QED
    BY <2>2
<1>3. q \in Nat /\ b \in Nat /\ b <= y
  <2>1. q = x + (c - 1)
    OBVIOUS
  <2> HIDE DEF x, y
  <2> QED
    BY <1>2, <2>1
<1>4. y * w = n * (ch * w)
  BY <1>1
<1>5. q * w + w = b * w
  BY <1>3
<1> HIDE DEF b, y
<1>6. b * w <= y * w
  BY <1>2, <1>3
<1> DEFINE u == b * w
           v == y * w
<1>7. u <= v /\ v <= len /\ u \in Nat /\ v \in Nat
  BY <1>1, <1>2, <1>3, <1>4, <1>6
<1> HIDE DEF u, v, len
<1>8. u <= len
  BY <1>1, <1>7
<1>9. q * w + w <= len
  BY <1>5, <1>8 DEF u
<1> QED
  BY <1>3, <1>9 DEF SampleAt, Channel, HasFrames, len

\* slowDown makes out of the n frames of plain.
Slowed(out, plain, n, w, ch, F) ==
    /\ w \in 1..4 /\ ch \in {1, 2} /\ F \in Nat \ {0} /\ n \in Nat \ {0}
    /\ HasFrames(plain, n, w, ch) /\ HasFrames(out, (n - 1) * F + 1, w, ch)
    /\ Holds(out, SlowFrames(plain, w, ch, F), w, ch)
    /\ Power(Base, w) * F <= Word \div 2

\* The samples s and t of two frames, and x, k frames after the first of them.
Neighbours(out, plain, f, k, c, w, ch, F) ==
    /\ SampleAt(plain, w, f * ch + (c - 1)) /\ SampleAt(plain, w, (f + 1) * ch + (c - 1))
    /\ SampleAt(out, w, (f * F + k) * ch + (c - 1))
    /\ OnTheWay(SampleOf(out, w, (f * F + k) * ch + (c - 1)),
                SampleOf(plain, w, f * ch + (c - 1)), SampleOf(plain, w, (f + 1) * ch + (c - 1)), k, F)

LEMMA SamplesInserted ==
    ASSUME NEW out, NEW plain, NEW n, NEW w, NEW ch, NEW F, Slowed(out, plain, n, w, ch, F),
           NEW f \in 0..(n - 2), NEW k \in 0..(F - 1), NEW c \in 1..ch
    PROVE  Neighbours(out, plain, f, k, c, w, ch, F)
<1> DEFINE g == f * F + k
           a == (n - 1) * F + 1
           p == f * ch + (c - 1)
           r == (f + 1) * ch + (c - 1)
           q == g * ch + (c - 1)
           s == SampleOf(plain, w, p)
           t == SampleOf(plain, w, r)
           x == SampleOf(out, w, q)
           G == SlowFrames(plain, w, ch, F)
           y == G[g][c]
<1>0. /\ w \in 1..4 /\ ch \in {1, 2} /\ F \in Nat \ {0} /\ n \in Nat \ {0}
      /\ HasFrames(plain, n, w, ch) /\ HasFrames(out, a, w, ch)
      /\ Holds(out, G, w, ch)
  BY DEF Slowed
<1> SUFFICES /\ SampleAt(plain, w, p) /\ SampleAt(plain, w, r) /\ SampleAt(out, w, q)
             /\ OnTheWay(x, s, t, k, F)
  BY DEF Neighbours
<1>1. f \in Nat /\ f < n /\ f + 1 \in Nat /\ f + 1 < n /\ k \in Nat /\ k < F /\ f \in Int
  BY <1>0
<1>2. g \in Nat /\ g < a
  <2> DEFINE b == n - 1
             u == f * F
             v == b * F
  <2>1. b \in Nat /\ f + 1 <= b
    BY <1>0, <1>1
  <2> HIDE DEF b
  <2>2. u \in Nat /\ v \in Nat /\ u + F <= v
    <3> DEFINE d == (b - (f + 1)) * F
    <3>1. v = (u + F) + d /\ d >= 0 /\ d \in Int /\ u \in Nat /\ v \in Nat
      BY <1>0, <1>1, <2>1
    <3> HIDE DEF d, u, v
    <3> QED
      BY <3>1, <1>0
  <2>3. g = u + k /\ a = v + 1
    BY DEF b
  <2> HIDE DEF u, v, g, a
  <2> QED
    BY <1>0, <1>1, <2>2, <2>3
<1>3. g \div F = f /\ g % F = k
  <2>1. k \in 0..(F - 1) /\ g = f * F + k
    OBVIOUS
  <2> HIDE DEF g
  <2> QED
    BY <1>0, <1>1, <2>1, DivisionUnique
<1> HIDE DEF g, a
<1>4. SampleAt(plain, w, p) /\ Channel(p, f, c, ch)
  <2> HIDE DEF p
  <2> QED
    BY <1>0, <1>1, SampleOfFrame DEF p
<1>5. SampleAt(plain, w, r) /\ Channel(r, f + 1, c, ch)
  <2> DEFINE o == f + 1
  <2>1. o \in Nat /\ o < n /\ r = o * ch + (c - 1)
    BY <1>1
  <2> HIDE DEF r, o
  <2>2. SampleAt(plain, w, r) /\ Channel(r, o, c, ch)
    BY <1>0, <2>1, SampleOfFrame
  <2> QED
    BY <2>2 DEF o
<1>6. SampleAt(out, w, q) /\ Channel(q, g, c, ch)
  <2> HIDE DEF q
  <2> QED
    BY <1>0, <1>2, SampleOfFrame DEF q
<1>7. FrameOf(plain, w, ch, f)[c] = s /\ FrameOf(plain, w, ch, f + 1)[c] = t
  <2> HIDE DEF p, r
  <2>1. FrameOf(plain, w, ch, f)[c] = SampleOf(plain, w, p)
    BY <1>4, FrameOfSample
  <2> DEFINE o == f + 1
  <2>2. Channel(r, o, c, ch)
    BY <1>5
  <2> HIDE DEF o
  <2>3. FrameOf(plain, w, ch, o)[c] = SampleOf(plain, w, r)
    BY <2>2, FrameOfSample
  <2> QED
    BY <2>1, <2>3 DEF o
<1> HIDE DEF p, q, r
<1>8. Fits(s, w) /\ Fits(t, w)
  BY <1>0, <1>4, <1>5, SampleFitsAgain
<1> HIDE DEF s, t
<1>9. Distance(s, t, k, F, w)
  BY <1>0, <1>8 DEF Slowed, Fits, Distance
<1>10. OnTheWay(y, s, t, k, F) /\ Fits(y, w)
  <2>1. CASE k = 0
    <3>1. y = s
      BY <1>2, <1>3, <1>7, <2>1 DEF SlowFrames
    <3>2. s \in Int /\ t \in Int
      BY <1>8 DEF Fits, IsSigned
    <3> HIDE DEF y
    <3>3. s * F - (s * (F - k) + t * k) = 0
      BY <1>0, <2>1, <3>2
    <3>4. Magnitude(s * F - (s * (F - k) + t * k)) < F
      BY <1>0, <3>3 DEF Magnitude
    <3> QED
      BY <1>8, <3>1, <3>2, <3>4 DEF OnTheWay
  <2>2. CASE k # 0
    <3>1. y = Between(FrameOf(plain, w, ch, f), FrameOf(plain, w, ch, f + 1), ch, k, F)[c]
      BY <1>2, <1>3, <2>2 DEF SlowFrames
    <3>2. y = getInterpolation(s, t, k, F)
      BY <1>7, <3>1 DEF Between
    <3> QED
      BY <1>9, <3>2, Interpolated
  <2> QED
    BY <2>1, <2>2
<1>11. x = y
  <2> HIDE DEF G
  <2> QED
    BY <1>0, <1>6, <1>10, HeldSample
<1> QED
  BY <1>4, <1>5, <1>6, <1>10, <1>11

\* What the process has put between two frames is on the way between them.
LEMMA SlowDownAtTheEnd ==
    ASSUME OptionsInv, OutputInv, SizeInv, HeaderInv, FramesInv, CountInv
    PROVE  InsertedSamplesAreLinear
<1> DEFINE w == BytesPerSample
           ch == header.channels
           fs == ch * w
           F == Factor
           n == frames
           h == Word \div 2
           plain == stdin.data
           out == stdout.data
           at(data, frame, c) ==
               Decoded(SubSeq(data, frame * FrameSize + (c - 1) * BytesPerSample + 1,
                                    frame * FrameSize + c * BytesPerSample))
<1> SUFFICES ASSUME Succeeded, isSlowDown, Factor > 0, Len(stdin.data) >= stdin.data_size,
                    Power(Base, w) * F <= h,
                    NEW f \in 0..(n - 2), NEW k \in 0..(F - 1), NEW c \in 1..ch
             PROVE  /\ at(out, f * F + k, c) \in Min({at(plain, f, c), at(plain, f + 1, c)})
                                                  ..Max({at(plain, f, c), at(plain, f + 1, c)})
                    /\ Magnitude(at(out, f * F + k, c) * F
                                    - (at(plain, f, c) * (F - k) + at(plain, f + 1, c) * k)) < F
  BY DEF InsertedSamplesAreLinear
<1>1. pc = "exit" /\ status = "SUCCESS" /\ Len(plain) >= stdin.data_size
  BY DEF Succeeded
<1>2. SizesFit
  BY <1>1, SizesAre
<1>3. /\ w \in 1..4 /\ ch \in {1, 2} /\ fs \in Nat \ {0} /\ FrameSize = fs
      /\ n = Signed(Field(stdin.data_size) \div fs)
  BY <1>1, <1>2 DEF HeaderInv, SizesFit, BytesPerSample
<1>4. ~isCrypt /\ ~isSpeedUp /\ F \in Nat \ {0}
  <2>1. F \in Int \ {0} /\ ~isCrypt /\ ~isSpeedUp
    BY <1>1, TransformationOptions
  <2> HIDE DEF F
  <2> QED
    BY <2>1 DEF F
<1>5. /\ IsData(plain) /\ IsData(out) /\ Holds(out, SlowFrames(plain, w, ch, F), w, ch)
      /\ stdin.data_size \in WordValues
  BY <1>1, <1>4 DEF FramesInv, OutFrames, SizeInv, WordValues
<1>6. i \in Nat /\ i >= n /\ (i = 0 \/ i <= n) /\ n \in Int
      /\ Len(out) = FramesWritten(i) * FrameSize
  BY <1>1 DEF SizeInv, CountInv
<1>7. n \in Nat \ {0} /\ i = n /\ i # 0 /\ f \in Nat
  BY <1>6
<1>8. Len(out) = ((n - 1) * F + 1) * fs
  BY <1>3, <1>4, <1>6, <1>7 DEF FramesWritten
<1>9. n * fs <= Len(plain)
  <2> DEFINE d == stdin.data_size
             lim == n * fs
             len == Len(plain)
  <2>1. d \in WordValues /\ fs \in Nat \ {0} /\ n = Signed(Field(d) \div fs)
    BY <1>3, <1>5
  <2>2. len \in Nat /\ len >= d
    BY <1>1, <1>5, LenProperties DEF IsData
  <2> HIDE DEF d, len, fs, n
  <2>3. Field(d) \in WordValues /\ Field(d) <= d /\ n \in Int /\ (n > 0 => n * fs <= Field(d))
    BY <2>1, FramesOfSize
  <2>4. lim \in Int /\ Field(d) \in Int /\ d \in Int /\ lim <= Field(d)
    BY <1>7, <2>1, <2>3, WordIsPositive DEF WordValues
  <2> HIDE DEF lim
  <2>5. lim <= len
    BY <2>2, <2>3, <2>4
  <2> QED
    BY <2>5 DEF lim, len
<1> HIDE DEF w, ch, F, plain, out, n
<1>10. Slowed(out, plain, n, w, ch, F)
  <2> DEFINE a == (n - 1) * F + 1
  <2>1. a \in Nat
    BY <1>4, <1>7
  <2>2. a * fs <= Len(out)
    BY <1>3, <1>8, <2>1
  <2>3. HasFrames(plain, n, w, ch) /\ HasFrames(out, a, w, ch)
    <3> HIDE DEF a
    <3> QED
      BY <1>5, <1>7, <1>9, <2>1, <2>2 DEF HasFrames
  <2> QED
    BY <1>3, <1>4, <1>5, <1>7, <2>3 DEF Slowed
<1>11. Neighbours(out, plain, f, k, c, w, ch, F)
  BY <1>10, SamplesInserted
<1>12. ASSUME NEW data, NEW g \in Nat, SampleAt(data, w, g * ch + (c - 1))
       PROVE  at(data, g, c) = SampleOf(data, w, g * ch + (c - 1))
  <2> DEFINE q == g * ch + (c - 1)
             b == q * w + 1
             e == q * w + w
  <2>1. c \in Int /\ ch \in Int /\ w \in Int /\ g \in Int
    BY <1>3
  <2>2. g * fs + (c - 1) * w + 1 = b /\ g * fs + c * w = e
    BY <2>1
  <2>3. at(data, g, c) = Decoded(SubSeq(data, g * fs + (c - 1) * w + 1, g * fs + c * w))
    BY <1>3 DEF w
  <2>4. at(data, g, c) = Decoded(Chunk(data, w, q))
    BY <2>2, <2>3 DEF Chunk
  <2> HIDE DEF q
  <2>5. IsSample(Chunk(data, w, q), data, w, q)
    BY <1>3, <1>12, SampleBytes DEF q
  <2> QED
    BY <2>4, <2>5 DEF IsSample, q
<1>13. f * F + k \in Nat /\ f + 1 \in Nat
  BY <1>4, <1>7
<1> DEFINE x == at(out, f * F + k, c)
           s == at(plain, f, c)
           t == at(plain, f + 1, c)
<1>14. OnTheWay(x, s, t, k, F) /\ s \in Int /\ t \in Int
  <2> HIDE DEF at
  <2>1. /\ SampleAt(plain, w, f * ch + (c - 1)) /\ SampleAt(plain, w, (f + 1) * ch + (c - 1))
        /\ SampleAt(out, w, (f * F + k) * ch + (c - 1))
    BY <1>11 DEF Neighbours
  <2>2. s = SampleOf(plain, w, f * ch + (c - 1)) /\ t = SampleOf(plain, w, (f + 1) * ch + (c - 1))
        /\ x = SampleOf(out, w, (f * F + k) * ch + (c - 1))
    BY <1>7, <1>12, <1>13, <2>1
  <2>3. s \in Int /\ t \in Int
    BY <1>3, <2>1, <2>2, SampleFitsAgain DEF Fits, IsSigned
  <2> QED
    BY <1>11, <2>2, <2>3 DEF Neighbours
<1> HIDE DEF x, s, t
<1>15. /\ x \in Int /\ (s <= x \/ t <= x) /\ (x <= s \/ x <= t)
       /\ Magnitude(x * F - (s * (F - k) + t * k)) < F
  BY <1>14 DEF OnTheWay
<1>16. x \in Min({s, t})..Max({s, t})
  BY <1>14, <1>15, BetweenBounds
<1> QED
  BY <1>15, <1>16 DEF x, s, t, F, out, plain

-----------------------------------------------------------------------------
(* The three properties of the output.                                     *)

\* crypt is its own inverse: a second process with the same key gives back every
\* sample but those whose bytes are taken for the end of the file.
THEOREM CryptIsUndone == Spec => []CryptTwiceIsIdentity
BY OptionsInvInit, OptionsInvNext, OutputInvInit, OutputInvNext, SizeInvInit, SizeInvNext,
   HeaderInvInit, HeaderInvNext, FramesInvInit, FramesInvNext, CountInvInit, CountInvNext,
   PipeInvInit, PipeInvNext, CryptAtTheEnd, PTL DEF Spec

\* speedUp gives back the bytes of every sample of a file that slowDown has made
\* longer by the same factor, which is up to half of the largest, if an int holds
\* the longer size; only a sample of 32 ones becomes 0.
THEOREM SlowDownIsUndone == Spec => []SpeedUpUndoesSlowDown
BY OptionsInvInit, OptionsInvNext, OutputInvInit, OutputInvNext, SizeInvInit, SizeInvNext,
   HeaderInvInit, HeaderInvNext, FramesInvInit, FramesInvNext, CountInvInit, CountInvNext,
   PipeInvInit, PipeInvNext, SpeedAtTheEnd, PTL DEF Spec

\* The samples that slowDown inserts are on the way from one neighbour to the
\* other as long as the product of getInterpolation fits an int.
THEOREM InsertedAreLinear == Spec => []InsertedSamplesAreLinear
BY OptionsInvInit, OptionsInvNext, OutputInvInit, OutputInvNext, SizeInvInit, SizeInvNext,
   HeaderInvInit, HeaderInvNext, FramesInvInit, FramesInvNext, CountInvInit, CountInvNext,
   SlowDownAtTheEnd, PTL DEF Spec
=============================================================================
