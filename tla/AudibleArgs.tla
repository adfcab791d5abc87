----------------------------- MODULE AudibleArgs -----------------------------
(***************************************************************************)
(* The command line of the audio filter "Audible" (Audible/src: hw1.c,     *)
(* argValidation.c, and the accessors of transformations.c): validargs     *)
(* turns argv into the word global_options, and the rest of the program    *)
(* reads the options back from there.                                      *)
(***************************************************************************)
EXTENDS Integers, Sequences, FiniteSetsExt

CONSTANTS
    Characters, \* the characters of each word of a command line
    ByteBits,   \* bits of a byte: 8
    MaxFactor   \* values of the bits for a factor less one: 1024

Power(b, n) ==
    LET p[k \in 0..n] == IF k = 0 THEN 1 ELSE b * p[k - 1] IN p[n]

Base == Power(2, ByteBits)  \* values of a byte
Word == Power(Base, 4)      \* values of an int

\* An integer as the int it wraps to.
Signed(x) == ((x + Word \div 2) % Word) - Word \div 2

\* A char is signed, and a string has no zero.
Char == (-128)..127 \ {0}

ASSUME ArgsAssumption ==
    /\ ByteBits \in Nat \ {0, 1}
    /\ MaxFactor \in Nat \ {0} /\ MaxFactor % 2 = 0 /\ MaxFactor < Word \div 2
    /\ \A w \in DOMAIN Characters : Characters[w] \in Seq(Char)
    /\ {"-h", "-u", "-d", "-c", "-f", "-k", "-p"} \subseteq DOMAIN Characters
    /\ Characters["-f"] = <<45, 102>>
    /\ Characters["-k"] = <<45, 107>>
    /\ Characters["-p"] = <<45, 112>>

-----------------------------------------------------------------------------
(* The characters of numbers: '0' is 48, '9' 57, 'A' 65 and 'a' 97.        *)

\* No letter is greater than '9', and the second one is not negative.
numbersOnly(word) ==
    LET c == Characters[word]
    IN  \A k \in DOMAIN c : c[k] <= 57 /\ (Len(c) > 1 => c[2] >= 0)

\* The int wraps where it overflows.
charToInt(word) ==
    LET c == Characters[word]
        value[k \in 0..Len(c)] == IF k = 0 THEN 0 ELSE Signed(value[k - 1] * 10 + (c[k] - 48))
    IN  value[Len(c)]

hexToInt(x) ==
    IF x \in 48..57 THEN x - 48
    ELSE IF x \in 97..102 THEN x - 97 + 10
    ELSE IF x \in 65..70 THEN x - 65 + 10
    ELSE -1

\* The digits of validKeyHelper: none of them is -1, and an unsigned long
\* holds eight.
hexStringToInt(word) ==
    LET c == Characters[word]
        hex[k \in 0..Len(c)] == IF k = 0 THEN 0 ELSE hex[k - 1] * 16 + hexToInt(c[k])
    IN  hex[Len(c)]

-----------------------------------------------------------------------------
(* Validation.  argv[1] is the program.  The functions that return an      *)
(* index in the code return a position here, and 0 and 1 as there.         *)

LastPosition(argv, flag) == Max({i \in 2..Len(argv) : argv[i] = flag} \cup {0})

containsPreserve(argv) == LastPosition(argv, "-p") # 0

\* Mutant: the largest factor is not allowed.
validFactorHelperStrict(word) == numbersOnly(word) /\ charToInt(word) \in 1..(MaxFactor - 1)

validFactorHelper(word) == numbersOnly(word) /\ charToInt(word) \in 1..MaxFactor

containsValidFactor(argv) ==
    LET i == LastPosition(argv, "-f")
    IN  IF i # 0 /\ i < Len(argv) /\ validFactorHelper(argv[i + 1]) THEN i + 1 ELSE 0

\* At most as many digits as an int has half bytes: 8.
validKeyHelper(word) ==
    LET c == Characters[word]
    IN  Len(c) <= ByteBits /\ \A k \in DOMAIN c : c[k] \in 48..57 \cup 65..70 \cup 97..102

containsValidKey(argv) ==
    LET i == LastPosition(argv, "-k")
    IN  IF i # 0 /\ i < Len(argv) /\ validKeyHelper(argv[i + 1]) THEN i + 1 ELSE 0

validSpeedUsage(argv) ==
    IF Len(argv) \notin 2..5 \/ (Len(argv) \in {3, 5} /\ ~containsPreserve(argv)) THEN 0
    ELSE IF Len(argv) \in {4, 5} THEN containsValidFactor(argv) ELSE 1

validCryptUsage(argv) ==
    IF Len(argv) \notin 4..5 \/ (Len(argv) = 5 /\ ~containsPreserve(argv)) THEN 0
    ELSE containsValidKey(argv)

-----------------------------------------------------------------------------
(* global_options: bit 63 to 60 as mode, bit 59 as preserve, bits 48 and   *)
(* up as factor, bits 31 to 0 as key.  Words are or-ed into empty fields.  *)

Nothing == [mode |-> "", preserve |-> FALSE, factor |-> 0, key |-> 0]

factorRecord(word) == charToInt(word) - 1

keyRecord(word) == hexStringToInt(word)

\* No factor is bit 57, the highest bit of a factor less one.
factorRecord0 == MaxFactor \div 2

\* The options of a command line; Nothing if it is refused.
validargs(argv) ==
    LET flag == IF Len(argv) > 1 THEN argv[2] ELSE ""
        speed == validSpeedUsage(argv)
        crypt == validCryptUsage(argv)
    IN  IF flag = "-h" THEN [Nothing EXCEPT !.mode = "-h"]
        ELSE IF flag \in {"-u", "-d"} /\ speed # 0 THEN
            [Nothing EXCEPT !.mode = flag,
                            !.preserve = containsPreserve(argv),
                            !.factor = IF speed > 1 THEN factorRecord(argv[speed])
                                       ELSE factorRecord0]
        ELSE IF flag = "-c" /\ crypt # 0 THEN
            [Nothing EXCEPT !.mode = flag,
                            !.preserve = containsPreserve(argv),
                            !.key = keyRecord(argv[crypt])]
        ELSE Nothing

\* Mutant: bit 57 is not looked at.
getFactorAlways(options) == options.factor + 1

getFactor(options) ==
    IF options.factor \div factorRecord0 = 1 THEN -1 ELSE options.factor + 1

getKey(options) == options.key

\* Reconstructs argc from the options.
getArgC(options) ==
    1 + (IF options.mode \in {"-u", "-d", "-c"} THEN 1 ELSE 0)
      + (IF options.preserve THEN 1 ELSE 0)
      + (IF getKey(options) # 0 \/ getFactor(options) # 0 THEN 2 ELSE 0)

-----------------------------------------------------------------------------
(* What the usage text says.                                               *)

\* The operand of a command line, its factor or its key, or none.
HasOperand(argv, flag) == \E i \in 3..(Len(argv) - 1) : argv[i] = flag
OperandOf(argv, flag) == argv[1 + (CHOOSE i \in 3..(Len(argv) - 1) : argv[i] = flag)]

\* A character that is a digit, and the number that digits write: 16 is a
\* base with letters, small and capital.
DigitIs(x, d) ==
    \/ d \in 0..9 /\ x = 48 + d
    \/ d \in 10..15 /\ x \in {55 + d, 87 + d}
Digit(x) == CHOOSE d \in 0..15 : DigitIs(x, d)

IsNumber(word, base) ==
    /\ Characters[word] # <<>>
    /\ \A k \in DOMAIN Characters[word] : \E d \in 0..(base - 1) : DigitIs(Characters[word][k], d)

Number(word, base) ==
    LET c == Characters[word]
        value[k \in 0..Len(c)] == IF k = 0 THEN 0 ELSE value[k - 1] * base + Digit(c[k])
    IN  value[Len(c)]

\* "It must be a decimal number in the range [1, 1024]", and "a hexadecimal
\* number with at most 8 digits".
Factors == {w \in DOMAIN Characters : IsNumber(w, 10) /\ Number(w, 10) \in 1..MaxFactor}
Keys == {w \in DOMAIN Characters : IsNumber(w, 16) /\ Len(Characters[w]) <= ByteBits}

\* [-h] -u|-d|-c [-f FACTOR] [-k KEY] [-p]: the options after the mode in
\* either order, -f only with -u and -d, -k with -c and required there.
UsageWith(argv, factors, keys) ==
    /\ Len(argv) > 1
    /\ \/ argv[2] = "-h"
       \/ /\ argv[2] \in {"-u", "-d"}
          /\ SubSeq(argv, 3, Len(argv)) \in
                {<<>>, <<"-p">>} \cup {<<"-f", w>> : w \in factors}
                    \cup {<<"-f", w, "-p">> : w \in factors}
                    \cup {<<"-p", "-f", w>> : w \in factors}
       \/ /\ argv[2] = "-c"
          /\ SubSeq(argv, 3, Len(argv)) \in
                {<<"-k", w>> : w \in keys} \cup {<<"-k", w, "-p">> : w \in keys}
                    \cup {<<"-p", "-k", w>> : w \in keys}

Usage(argv) == UsageWith(argv, Factors, Keys)

-----------------------------------------------------------------------------
(* What is taken for a number although the usage text does not ask for it. *)

\* Signs and other characters below '9', as in "1-", which is read as 7, and
\* numbers that an int does not hold, as 4294967297, which wraps to 1.
OddFactors ==
    {w \in DOMAIN Characters :
        /\ \A k \in DOMAIN Characters[w] : Characters[w][k] <= 57
        /\ ~IsNumber(w, 10) \/ Number(w, 10) >= Word \div 2}

NoKey == {w \in DOMAIN Characters : Characters[w] = <<>>}
=============================================================================
