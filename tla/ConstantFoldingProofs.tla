------------------------ MODULE ConstantFoldingProofs ------------------------
(***************************************************************************)
(* Theorems about ConstantFolding: that every operator makes a constant of *)
(* its kind, that the only object changed under those who hold it is a     *)
(* fill literal, and that no binary text has more digits than its size.    *)
(***************************************************************************)
EXTENDS ConstantFolding, CommonLemmas

(***************************************************************************)
(* Counting up from 0.                                                     *)
(***************************************************************************)
\* A function on 0 .. n whose value at 0 is given, and at i follows from the one
\* at i - 1; and that the step from one to the next stays in a set.
Counted(f, n, S, z, Step) ==
  /\ f \in [0 .. n -> S]
  /\ f[0] = z /\ \A i \in 1 .. n : f[i] = Step[i][f[i - 1]]
Stays(S, Step) == \A i \in Nat, x \in S : Step[i][x] \in S

\* Such functions exist.
LEMMA CountedFunction ==
  ASSUME NEW S, NEW z \in S, NEW Step, Stays(S, Step)
  PROVE  \A n \in Nat : \E f : Counted(f, n, S, z, Step)
<1>0. \A i \in Nat, x \in S : Step[i][x] \in S
  BY DEF Stays
<1> DEFINE Has(n, f) == /\ f \in [0 .. n -> S]
                        /\ \A i \in 0 .. n : f[i] = IF i = 0 THEN z ELSE Step[i][f[i - 1]]
           Good == {n \in Nat : \E f : Has(n, f)}
<1>1. 0 \in Good
  <2> DEFINE f == [i \in 0 .. 0 |-> z]
  <2>1. Has(0, f)
    OBVIOUS
  <2> QED
    BY <2>1
<1>2. ASSUME NEW n \in Nat, n \in Good
      PROVE  n + 1 \in Good
  <2>1. PICK f : Has(n, f)
    BY <1>2
  <2> DEFINE g == [i \in 0 .. n + 1 |-> IF i = n + 1 THEN Step[n + 1][f[n]] ELSE f[i]]
  <2>2. f[n] \in S /\ Step[n + 1][f[n]] \in S
    BY <1>0, <2>1
  <2>3. g \in [0 .. n + 1 -> S]
    <3>1. ASSUME NEW i \in 0 .. n + 1, i # n + 1
          PROVE  f[i] \in S
      <4>1. i \in 0 .. n
        BY <3>1
      <4> QED
        BY <4>1, <2>1
    <3> QED
      BY <3>1, <2>2
  <2>4. ASSUME NEW i \in 0 .. n + 1
        PROVE  g[i] = IF i = 0 THEN z ELSE Step[i][g[i - 1]]
    <3>1. CASE i = n + 1
      <4>1. i - 1 = n /\ n \in 0 .. n + 1 /\ n # n + 1 /\ i # 0
        BY <3>1
      <4>2. g[i - 1] = f[n] /\ g[i] = Step[n + 1][f[n]]
        BY <4>1, <3>1
      <4> QED
        BY <4>1, <4>2, <3>1
    <3>2. CASE i # n + 1
      <4>1. i \in 0 .. n /\ g[i] = f[i]
        BY <3>2
      <4>2. i # 0 => i - 1 \in 0 .. n + 1 /\ i - 1 # n + 1 /\ g[i - 1] = f[i - 1]
        BY <3>2
      <4>3. f[i] = IF i = 0 THEN z ELSE Step[i][f[i - 1]]
        BY <4>1, <2>1
      <4> QED
        BY <4>1, <4>2, <4>3
    <3> QED
      BY <3>1, <3>2
  <2>5. Has(n + 1, g)
    <3> HIDE DEF g
    <3> QED
      BY <2>3, <2>4
  <2>6. \E h : Has(n + 1, h)
    <3> HIDE DEF Has, g
    <3> QED
      BY <2>5, Zenon
  <2>7. n + 1 \in Nat
    OBVIOUS
  <2> HIDE DEF Has, g
  <2> QED
    BY <2>6, <2>7, Zenon
<1>3. \A n \in Nat : n \in Good
  <2> HIDE DEF Good
  <2> QED
    BY <1>1, <1>2, FromZero
<1> TAKE n \in Nat
<1>4. PICK f : Has(n, f)
  BY <1>3
<1>5. f[0] = z /\ \A i \in 1 .. n : f[i] = Step[i][f[i - 1]]
  BY <1>4
<1>6. Counted(f, n, S, z, Step)
  BY <1>4, <1>5 DEF Counted
<1> HIDE DEF Has
<1> QED
  BY <1>6, Zenon

(***************************************************************************)
(* The conversions of NumUtils.                                            *)
(***************************************************************************)
\* The words: their widths, and how many numbers they hold.
LEMMA WordFacts ==
  /\ Word \in Nat /\ Half \in Nat /\ Quarter \in Nat
  /\ Quarter >= 1 /\ Half >= 2 /\ Word >= 3
  /\ 2 ^ (Word - 1) \in Nat /\ 2 ^ (Word - 1) >= 2
  /\ 2 ^ Word \in Nat /\ 2 ^ Word = 2 * (2 ^ (Word - 1))
<1>1. /\ Word \in Nat /\ Half \in Nat /\ Quarter \in Nat
      /\ Quarter >= 1 /\ Half >= 2 /\ Word >= 3
  BY WordAssumption
<1>2. Word - 1 \in Nat /\ Word - 2 \in Nat
  BY <1>1
<1>3. 2 ^ (Word - 2) \in Nat /\ 2 ^ (Word - 2) > 0
  BY <1>2, PowerPositive
<1>4. 2 ^ (Word - 1) = 2 * (2 ^ (Word - 2))
  <2>1. 2 ^ ((Word - 2) + 1) = 2 * (2 ^ (Word - 2))
    BY <1>2, PowerDoubles
  <2>2. (Word - 2) + 1 = Word - 1
    BY <1>1
  <2> QED
    BY <2>1, <2>2
<1>5. 2 ^ Word = 2 * (2 ^ (Word - 1))
  <2>1. 2 ^ ((Word - 1) + 1) = 2 * (2 ^ (Word - 1))
    BY <1>2, PowerDoubles
  <2>2. (Word - 1) + 1 = Word
    BY <1>1
  <2> QED
    BY <2>1, <2>2
<1>6. 2 ^ Word \in Nat /\ 2 ^ (Word - 1) \in Nat
  BY <1>1, <1>2, PowerPositive
<1>7. 2 ^ (Word - 1) >= 2
  BY <1>3, <1>4
<1> QED
  BY <1>1, <1>5, <1>6, <1>7

\* An unsigned word is a number below 2 ^ Word.
LEMMA UnsignedRange ==
  \A n \in Int : /\ Unsigned(n) \in 0 .. (2 ^ Word) - 1
                 /\ Unsigned(n) \in Nat
<1> DEFINE p == 2 ^ Word
<1>1. p \in Nat /\ p > 0
  BY WordFacts
<1>2. \A n \in Int : n % p \in 0 .. p - 1
  <2> HIDE DEF p
  <2> QED
    BY <1>1
<1> QED
  BY <1>2, <1>1 DEF Unsigned

\* Wrapping a number gives a number; 0 stays 0.
LEMMA WrappedInt ==
  /\ \A n \in Int, w \in Nat : Wrapped(n, w) \in Int
  /\ Wrapped(0, Word) = 0 /\ Unsigned(0) = 0
<1>1. ASSUME NEW n \in Int, NEW w \in Nat
      PROVE  Wrapped(n, w) \in Int
  <2> DEFINE p == 2 ^ w
             h == 2 ^ (w - 1)
  <2>1. p \in Nat /\ p > 0
    BY PowerPositive
  <2>2. h \in Int
    OBVIOUS
  <2>3. ((n + h) % p) - h \in Int
    <3> HIDE DEF p, h
    <3> QED
      BY <2>1, <2>2
  <2> QED
    BY <2>3 DEF Wrapped
<1>2. Wrapped(0, Word) = 0
  <2> DEFINE h == 2 ^ (Word - 1)
             p == 2 ^ Word
  <2>1. h \in Nat /\ h >= 2 /\ p = 2 * h
    BY WordFacts
  <2>2. ((0 + h) % p) - h = 0
    <3> HIDE DEF p, h
    <3> QED
      BY <2>1
  <2> QED
    BY <2>2 DEF Wrapped
<1>3. Unsigned(0) = 0
  <2> DEFINE p == 2 ^ Word
  <2>1. p \in Nat /\ p > 0
    BY WordFacts
  <2>2. 0 % p = 0
    <3> HIDE DEF p
    <3> QED
      BY <2>1
  <2> QED
    BY <2>2 DEF Unsigned
<1> QED
  BY <1>1, <1>2, <1>3

\* A bit is 0 or 1.
LEMMA BitRange ==
  \A n \in Int, i \in Nat : Bit(n, i) \in 0 .. 1
<1> TAKE n \in Int, i \in Nat
<1> DEFINE p == 2 ^ i
<1>1. p \in Nat /\ p > 0
  BY PowerPositive
<1>2. (n \div p) % 2 \in 0 .. 1
  <2> HIDE DEF p
  <2> QED
    BY <1>1
<1> QED
  BY <1>2 DEF Bit

\* The number that a row of digits is, and that of none, of zeros and of a
\* single 1.
LEMMA NumberInt ==
  /\ \A base \in Int, digits \in Seq(Int) : Number(base, digits) \in Int
  /\ \A base \in Int : Number(base, <<>>) = 0
  /\ \A base \in Int, digits \in Seq(Int) :
       (\A i \in 1 .. Len(digits) : digits[i] = 0) => Number(base, digits) = 0
  /\ Number(2, <<1>>) = 1
<1>1. ASSUME NEW base \in Int, NEW digits \in Seq(Int)
      PROVE  \E f \in [0 .. Len(digits) -> Int] :
               /\ \A i \in 0 .. Len(digits) :
                    f[i] = IF i = 0 THEN 0 ELSE f[i - 1] * base + digits[i]
               /\ Number(base, digits) = f[Len(digits)]
  <2> DEFINE n == Len(digits)
             Digit(i) == IF i \in 1 .. n THEN digits[i] ELSE 0
             Step == [i \in Nat |-> [x \in Int |-> x * base + Digit(i)]]
             Up(g) == [i \in 0 .. n |-> IF i = 0 THEN 0 ELSE g[i - 1] * base + digits[i]]
             up == CHOOSE g : g = Up(g)
  <2>1. n \in Nat
    OBVIOUS
  <2>2. \A i \in Nat : Digit(i) \in Int
    OBVIOUS
  <2>3. \A i \in Nat, x \in Int : Step[i][x] = x * base + Digit(i)
    OBVIOUS
  <2>4. \A i \in Nat, x \in Int : Step[i][x] \in Int
    <3> TAKE i \in Nat, x \in Int
    <3>1. Digit(i) \in Int /\ x * base \in Int /\ Step[i][x] = x * base + Digit(i)
      BY <2>2, <2>3
    <3> HIDE DEF Digit, Step
    <3> QED
      BY <3>1
  <2>5. PICK f \in [0 .. n -> Int] :
          f[0] = 0 /\ \A i \in 1 .. n : f[i] = Step[i][f[i - 1]]
    <3>1. Stays(Int, Step) /\ 0 \in Int
      BY <2>4 DEF Stays
    <3> HIDE DEF Step, n
    <3>2. \E f : Counted(f, n, Int, 0, Step)
      BY <2>1, <3>1, CountedFunction, Zenon
    <3> QED
      BY <3>2 DEF Counted
  <2>6. ASSUME NEW i \in 0 .. n
        PROVE  f[i] = IF i = 0 THEN 0 ELSE f[i - 1] * base + digits[i]
    <3>1. i # 0 => f[i - 1] \in Int /\ i \in Nat /\ Digit(i) = digits[i]
      <4>1. i # 0 => i - 1 \in 0 .. n
        BY <2>1
      <4> QED
        BY <4>1
    <3>2. i # 0 => f[i] = Step[i][f[i - 1]]
      <4>1. i # 0 => i \in 1 .. n
        BY <2>1
      <4> HIDE DEF Step, n
      <4> QED
        BY <2>5, <4>1
    <3> HIDE DEF Step, Digit, n
    <3> QED
      BY <2>3, <2>5, <3>1, <3>2
  <2>7. f = Up(f)
    <3>1. Up(f) = [i \in 0 .. n |-> f[i]]
      BY <2>6
    <3> QED
      BY <3>1
  <2>8. up = Up(up)
    <3> HIDE DEF Up
    <3> QED
      BY <2>7
  <2>9. \A i \in Nat : i \in 0 .. n => up[i] = f[i]
    <3> DEFINE S == {i \in Nat : i \in 0 .. n => up[i] = f[i]}
    <3>0. \A i \in 0 .. n : up[i] = IF i = 0 THEN 0 ELSE up[i - 1] * base + digits[i]
      <4> HIDE DEF up
      <4> QED
        BY <2>8
    <3>1. 0 \in S
      <4> HIDE DEF up
      <4> QED
        BY <3>0, <2>6, <2>1
    <3>2. ASSUME NEW i \in Nat, i \in S
          PROVE  i + 1 \in S
      <4> DEFINE j == i + 1
      <4> HIDE DEF up
      <4>1. j \in Nat /\ j # 0 /\ j - 1 = i
        OBVIOUS
      <4>2. j \in 0 .. n => i \in 0 .. n /\ up[i] = f[i]
        BY <3>2, <2>1
      <4>3. j \in 0 .. n => up[j] = up[i] * base + digits[j]
        <5> HIDE DEF j
        <5> QED
          BY <3>0, <4>1
      <4>4. j \in 0 .. n => f[j] = f[i] * base + digits[j]
        <5> HIDE DEF j
        <5> QED
          BY <2>6, <4>1
      <4> HIDE DEF j
      <4>5. j \in S
        BY <4>1, <4>2, <4>3, <4>4
      <4> QED
        BY <4>5 DEF j
    <3> HIDE DEF S
    <3>3. \A i \in Nat : i \in S
      BY <3>1, <3>2, FromZero
    <3> USE DEF S
    <3> HIDE DEF up
    <3> QED
      BY <3>3
  <2>10. Number(base, digits) = up[n]
    BY DEF Number
  <2>11. Number(base, digits) = f[n]
    <3> HIDE DEF up
    <3> QED
      BY <2>9, <2>10, <2>1
  <2> QED
    BY <2>6, <2>11
<1>2. ASSUME NEW base \in Int, NEW digits \in Seq(Int)
      PROVE  Number(base, digits) \in Int
  <2>1. Len(digits) \in 0 .. Len(digits)
    OBVIOUS
  <2> QED
    BY <1>1, <2>1
<1>3. ASSUME NEW base \in Int
      PROVE  Number(base, <<>>) = 0
  <2>1. <<>> \in Seq(Int) /\ Len(<<>>) = 0
    OBVIOUS
  <2> DEFINE none == <<>>
  <2>2. none \in Seq(Int) /\ Len(none) = 0
    BY <2>1
  <2> HIDE DEF none
  <2>3. PICK f \in [0 .. Len(none) -> Int] :
          /\ \A i \in 0 .. Len(none) :
               f[i] = IF i = 0 THEN 0 ELSE f[i - 1] * base + none[i]
          /\ Number(base, none) = f[Len(none)]
    BY <1>1, <2>2, Zenon
  <2>4. Number(base, none) = 0
    BY <2>2, <2>3
  <2> QED
    BY <2>4 DEF none
<1>4. Number(2, <<1>>) = 1
  <2>1. <<1>> \in Seq(Int) /\ Len(<<1>>) = 1 /\ <<1>>[1] = 1
    OBVIOUS
  <2> DEFINE one == <<1>>
  <2>2. one \in Seq(Int) /\ Len(one) = 1 /\ one[1] = 1
    BY <2>1
  <2> HIDE DEF one
  <2>3. PICK f \in [0 .. Len(one) -> Int] :
          /\ \A i \in 0 .. Len(one) :
               f[i] = IF i = 0 THEN 0 ELSE f[i - 1] * 2 + one[i]
          /\ Number(2, one) = f[Len(one)]
    <3>1. 2 \in Int
      OBVIOUS
    <3> QED
      BY <1>1, <2>2, <3>1, Zenon
  <2>4. f[0] = 0
    BY <2>2, <2>3
  <2>5. f[1] = f[1 - 1] * 2 + 1
    BY <2>2, <2>3
  <2>6. Number(2, one) = 1
    BY <2>2, <2>3, <2>4, <2>5
  <2> QED
    BY <2>6 DEF one
<1>5. ASSUME NEW base \in Int, NEW digits \in Seq(Int),
             \A i \in 1 .. Len(digits) : digits[i] = 0
      PROVE  Number(base, digits) = 0
  <2> DEFINE n == Len(digits)
  <2>1. n \in Nat
    OBVIOUS
  <2>2. PICK f \in [0 .. n -> Int] :
          /\ \A i \in 0 .. n : f[i] = IF i = 0 THEN 0 ELSE f[i - 1] * base + digits[i]
          /\ Number(base, digits) = f[n]
    BY <1>1
  <2> DEFINE S == {i \in Nat : i \in 0 .. n => f[i] = 0}
  <2>3. 0 \in S
    BY <2>1, <2>2
  <2>4. ASSUME NEW i \in Nat, i \in S
        PROVE  i + 1 \in S
    <3> DEFINE j == i + 1
    <3>1. j \in Nat /\ j # 0 /\ j - 1 = i
      OBVIOUS
    <3>2. j \in 0 .. n => i \in 0 .. n /\ f[i] = 0 /\ j \in 1 .. n
      BY <2>1, <2>4
    <3> HIDE DEF j, n
    <3>3. j \in 0 .. n => f[j] = f[i] * base + digits[j]
      BY <2>2, <3>1
    <3>4. j \in 1 .. n => digits[j] = 0
      BY <1>5 DEF n
    <3>5. j \in S
      BY <3>1, <3>2, <3>3, <3>4
    <3> QED
      BY <3>5 DEF j
  <2>5. n \in S
    <3> HIDE DEF S, n
    <3> QED
      BY <2>1, <2>3, <2>4, FromZero
  <2> QED
    BY <2>1, <2>2, <2>5
<1> QED
  BY <1>2, <1>3, <1>4, <1>5

\* What the parsers of numbers return.
LEMMA ParserFacts ==
  ASSUME NEW n \in Int
  PROVE  /\ parseInt64(n) \in [ok : BOOLEAN, val : Int]
         /\ parseUint64(n) \in [ok : BOOLEAN, val : Nat]
         /\ parseUint64(n).val \in 0 .. (2 ^ Word) - 1
         /\ parseIntLenient(n) \in [ok : BOOLEAN, val : Int]
         /\ n = 0 => parseInt64(n).val = 0 /\ parseUint64(n).val = 0
                     /\ parseIntLenient(n).val = 0
         /\ n = 1 => parseIntLenient(n).ok
<1> DEFINE p == 2 ^ Word
           h == 2 ^ (Word - 1)
<1>1. p \in Nat /\ h \in Nat /\ h >= 2 /\ p = 2 * h
  BY WordFacts
<1>2. parseInt64(n) = [ok |-> -h <= n /\ n < h, val |-> IF -h <= n /\ n < h THEN n ELSE 0]
  BY DEF parseInt64, Parsed
<1>3. parseUint64(n) = [ok |-> 0 <= n /\ n < p, val |-> IF 0 <= n /\ n < p THEN n ELSE 0]
  BY DEF parseUint64, Parsed
<1>4. Failed = [ok |-> FALSE, val |-> 0]
  BY DEF Failed, Parsed
<1>5. parseIntLenient(n) = IF parseInt64(n).ok THEN parseInt64(n)
                           ELSE IF n > 0 THEN parseUint64(n) ELSE Failed
  BY DEF parseIntLenient
<1>6. parseInt64(n) \in [ok : BOOLEAN, val : Int]
  <2> HIDE DEF h
  <2> QED
    BY <1>1, <1>2
<1>7. /\ parseUint64(n) \in [ok : BOOLEAN, val : Nat]
      /\ parseUint64(n).val \in 0 .. p - 1
  <2> HIDE DEF p
  <2> QED
    BY <1>1, <1>3
<1>8. parseIntLenient(n) \in [ok : BOOLEAN, val : Int]
  BY <1>4, <1>5, <1>6, <1>7
<1>9. n = 0 => parseInt64(n).val = 0 /\ parseUint64(n).val = 0 /\ parseIntLenient(n).val = 0
  <2> HIDE DEF p, h
  <2> QED
    BY <1>1, <1>2, <1>3, <1>4, <1>5
<1>10. n = 1 => parseIntLenient(n).ok
  <2>1. n = 1 => -h <= n /\ n < h
    <3> HIDE DEF p, h
    <3> QED
      BY <1>1
  <2>2. n = 1 => parseInt64(n).ok
    <3>1. ASSUME -h <= n /\ n < h
          PROVE  parseInt64(n).ok
      <4>1. parseInt64(n) = [ok |-> TRUE, val |-> n]
        BY <3>1 DEF parseInt64, Parsed
      <4> QED
        BY <4>1
    <3> QED
      BY <2>1, <3>1
  <2> QED
    BY <1>5, <2>2
<1> QED
  BY <1>6, <1>7, <1>8, <1>9, <1>10

\* A text of digits is parsed as the number it is, and no text is refused.
LEMMA ParseDigitsFacts ==
  ASSUME NEW base \in Int, NEW digits \in Seq(Int)
  PROVE  /\ parseDigits(base, digits) \in [ok : BOOLEAN, val : Int]
         /\ digits = <<>> => parseDigits(base, digits) = [ok |-> FALSE, val |-> 0]
<1>1. Failed = [ok |-> FALSE, val |-> 0]
  BY DEF Failed, Parsed
<1>2. parseIntLenient(Number(base, digits)) \in [ok : BOOLEAN, val : Int]
  BY NumberInt, ParserFacts
<1> QED
  BY <1>1, <1>2 DEF parseDigits

\* A row of bits.
LEMMA BitsOfFacts ==
  ASSUME NEW n \in Int, NEW w \in Nat
  PROVE  BitsOf(n, w) \in Seq(0 .. 1) /\ Len(BitsOf(n, w)) = w
<1>1. \A i \in 1 .. w : Bit(n, w - i) \in 0 .. 1
  <2> TAKE i \in 1 .. w
  <2>1. w - i \in Nat
    OBVIOUS
  <2> QED
    BY <2>1, BitRange
<1> QED
  BY <1>1 DEF BitsOf

\* A number below 2 ^ Word has a width, and that of 0 is 0.
LEMMA ToBinaryFacts ==
  ASSUME NEW size \in Int, NEW val \in 0 .. (2 ^ Word) - 1
  PROVE  /\ toBinary(size, val) \in Seq(0 .. 1)
         /\ size > 0 => Len(toBinary(size, val)) = size
         /\ size <= 0 /\ val = 0 => Len(toBinary(size, val)) = 0
<1> DEFINE Is(w) == val < 2 ^ w /\ (w > 0 => val >= 2 ^ (w - 1))
           width == CHOOSE w \in 0 .. Word : Is(w)
<1>0. Word \in Nat /\ 2 ^ Word \in Nat /\ val \in Nat /\ val < 2 ^ Word
  BY WordFacts
<1>1. \E w \in 0 .. Word : Is(w)
  <2> SUFFICES ASSUME \A w \in 0 .. Word : ~ Is(w) PROVE FALSE
    OBVIOUS
  <2> DEFINE S == {n \in Nat : n <= Word => ~ (val < 2 ^ n)}
  <2>1. 0 \in S
    <3>1. 0 \in 0 .. Word
      BY <1>0
    <3>2. ~ Is(0)
      <4> HIDE DEF Is
      <4> QED
        BY <3>1
    <3> QED
      BY <3>2
  <2>2. ASSUME NEW n \in Nat, n \in S
        PROVE  n + 1 \in S
    <3> DEFINE m == n + 1
    <3>1. m \in Nat /\ m > 0 /\ m - 1 = n
      OBVIOUS
    <3>2. m <= Word => ~ (val < 2 ^ n) /\ ~ Is(m)
      BY <2>2, <1>0
    <3>3. 2 ^ n \in Int /\ 2 ^ m \in Int
      BY <3>1
    <3> HIDE DEF m
    <3>4. m <= Word => ~ (val < 2 ^ m)
      BY <3>1, <3>2, <3>3, <1>0
    <3>5. m \in S
      BY <3>1, <3>4
    <3> QED
      BY <3>5 DEF m
  <2>3. Word \in S
    <3> HIDE DEF S
    <3> QED
      BY <1>0, <2>1, <2>2, FromZero
  <2> QED
    BY <2>3, <1>0
<1>2. width \in 0 .. Word /\ Is(width)
  <2> HIDE DEF Is
  <2> QED
    BY <1>1
<1>3. val = 0 => width = 0
  <2>1. width - 1 \in Nat => 2 ^ (width - 1) > 0
    BY PowerPositive
  <2>2. width > 0 => val >= 2 ^ (width - 1) /\ width - 1 \in Nat
    BY <1>2, <1>0
  <2> HIDE DEF width
  <2> QED
    BY <2>1, <2>2, <1>2, <1>0
<1>4. toBinary(size, val) = BitsOf(val, IF size > 0 THEN size ELSE width)
  BY DEF toBinary
<1> DEFINE k == IF size > 0 THEN size ELSE width
<1>5. k \in Nat /\ (size > 0 => k = size) /\ (size <= 0 /\ val = 0 => k = 0)
  <2> HIDE DEF width
  <2> QED
    BY <1>2, <1>3, <1>0
<1>6. BitsOf(val, k) \in Seq(0 .. 1) /\ Len(BitsOf(val, k)) = k
  <2> HIDE DEF k
  <2> QED
    BY <1>5, <1>0, BitsOfFacts
<1> HIDE DEF k
<1>7. toBinary(size, val) = BitsOf(val, k)
  BY <1>4 DEF k
<1> QED
  BY <1>5, <1>6, <1>7

\* Four bits for each digit.
LEMMA HexToBinFacts ==
  ASSUME NEW digits \in Seq(Int)
  PROVE  hexToBin(digits) \in Seq(0 .. 1) /\ Len(hexToBin(digits)) = 4 * Len(digits)
<1> DEFINE n == Len(digits)
<1>1. n \in Nat /\ 4 * n \in Nat
  OBVIOUS
<1>2. ASSUME NEW i \in 1 .. 4 * n
      PROVE  Bit(digits[((i - 1) \div 4) + 1], 3 - ((i - 1) % 4)) \in 0 .. 1
  <2> DEFINE k == ((i - 1) \div 4) + 1
             r == 3 - ((i - 1) % 4)
  <2>1. k \in 1 .. n /\ r \in Nat
    <3> HIDE DEF n
    <3> QED
      BY <1>1
  <2>2. digits[k] \in Int
    <3> HIDE DEF k
    <3> QED
      BY <2>1
  <2> HIDE DEF k, r
  <2>3. Bit(digits[k], r) \in 0 .. 1
    BY <2>1, <2>2, BitRange
  <2> QED
    BY <2>3 DEF k, r
<1>3. hexToBin(digits) = [i \in 1 .. 4 * n |->
                            Bit(digits[((i - 1) \div 4) + 1], 3 - ((i - 1) % 4))]
  BY DEF hexToBin
<1> DEFINE f == [i \in 1 .. 4 * n |-> Bit(digits[((i - 1) \div 4) + 1], 3 - ((i - 1) % 4))]
<1>4. f \in [1 .. 4 * n -> 0 .. 1]
  BY <1>2
<1> DEFINE m == 4 * n
<1>5. m \in Nat /\ f \in [1 .. m -> 0 .. 1]
  BY <1>1, <1>4
<1>6. f \in Seq(0 .. 1) /\ Len(f) = m
  <2> HIDE DEF f, m
  <2> QED
    BY <1>5
<1> HIDE DEF f, m
<1>7. hexToBin(digits) = f
  BY <1>3 DEF f
<1> QED
  BY <1>6, <1>7 DEF m

\* The mask of a width: as many ones; a width of a word or more, or below 0,
\* gives a word of ones.
LEMMA MaskFacts ==
  ASSUME NEW wide \in Int
  PROVE  /\ getMask(wide) \in Nat
         /\ wide = 0 => getMask(wide) = 0
         /\ wide = 1 => getMask(wide) = 1
         /\ wide >= 2 => \E s \in 2 .. Word : getMask(wide) = (2 ^ s) - 1
<1>1. Word \in Nat /\ Word >= 3 /\ 2 ^ Word \in Nat /\ 2 ^ Word > 0
  BY WordFacts
<1>2. wide \in 0 .. Word - 1 => 2 ^ wide \in Nat /\ 2 ^ wide > 0
  BY PowerPositive, <1>1
<1>3. 2 ^ 0 = 1 /\ 2 ^ 1 = 2
  OBVIOUS
<1>4. getMask(wide) = IF wide \in 0 .. Word - 1 THEN (2 ^ wide) - 1 ELSE (2 ^ Word) - 1
  BY DEF getMask
<1>5. getMask(wide) \in Nat
  BY <1>1, <1>2, <1>4
<1>6. wide = 0 => getMask(wide) = 0
  BY <1>1, <1>3, <1>4
<1>7. wide = 1 => getMask(wide) = 1
  BY <1>1, <1>3, <1>4
<1>8. wide >= 2 => \E s \in 2 .. Word : getMask(wide) = (2 ^ s) - 1
  <2>1. CASE wide >= 2 /\ wide <= Word - 1
    <3>1. wide \in 2 .. Word /\ getMask(wide) = (2 ^ wide) - 1
      BY <2>1, <1>1, <1>4
    <3> QED
      BY <3>1
  <2>2. CASE wide >= Word
    <3>1. Word \in 2 .. Word /\ getMask(wide) = (2 ^ Word) - 1
      BY <2>2, <1>1, <1>4
    <3> QED
      BY <3>1
  <2> QED
    BY <2>1, <2>2, <1>1
<1> QED
  BY <1>5, <1>6, <1>7, <1>8

(***************************************************************************)
(* The readers of constants.                                               *)
(***************************************************************************)
\* What an operator is given: a constant, or what is none.
IsOperand(c) == c = NotConst \/ IsConst(c)

\* The fields of what is no constant.
LEMMA NotConstFields ==
  /\ NotConst.type = "NONE" /\ NotConst.text = <<>> /\ NotConst.size = 0
  /\ NotConst.ones = FALSE /\ NotConst.ts = Typeless
  /\ ~ IsConst(NotConst)
<1>1. NotConst.type = "NONE"
  BY DEF NotConst, Const
<1>2. "NONE" \notin ConstTypes
  BY DEF ConstTypes
<1>3. ~ IsConst(NotConst)
  BY <1>1, <1>2 DEF IsConst
<1> QED
  BY <1>1, <1>3 DEF NotConst, Const

\* The fields of a constant.
LEMMA ConstFields ==
  ASSUME NEW c, IsConst(c)
  PROVE  /\ c.type \in ConstTypes /\ c.type # "NONE" /\ c # NotConst
         /\ c.text \in Seq(Int) /\ c.size \in Int /\ c.size >= -1
         /\ c.ones \in BOOLEAN /\ c.ts \in Typespecs
         /\ c.type \in {"DEC", "INT", "UINT"} => Len(c.text) = 1 /\ c.text[1] \in Int
<1>1. /\ c.type \in ConstTypes /\ c.text \in Seq(Int) /\ c.size \in Int /\ c.size >= -1
      /\ c.ones \in BOOLEAN /\ c.ts \in Typespecs
  BY DEF IsConst
<1>2. c.type # "NONE"
  BY <1>1 DEF ConstTypes
<1>3. c.type \in {"DEC", "INT", "UINT"} => Len(c.text) = 1 /\ c.text[1] \in Int
  BY <1>1 DEF IsConst
<1>4. c # NotConst
  BY NotConstFields
<1> QED
  BY <1>1, <1>2, <1>3, <1>4

\* What an operator is given has a size.
LEMMA OperandFields ==
  ASSUME NEW c, IsOperand(c)
  PROVE  c.size \in Int /\ c.size >= -1 /\ (c.type = "NONE" <=> c = NotConst)
<1>1. CASE c = NotConst
  BY <1>1, NotConstFields
<1>2. CASE IsConst(c)
  BY <1>2, ConstFields, NotConstFields
<1> QED
  BY <1>1, <1>2 DEF IsOperand

\* The number a constant of a base is read as.
DigitsRead(base, c) ==
  [parseDigits(base, c.text) EXCEPT !.val = Wrapped(parseDigits(base, c.text).val, Word)]

\* A row of digits is read as a word; no row as 0.
LEMMA DigitsReadFacts ==
  ASSUME NEW base \in Int, NEW c, IsConst(c)
  PROVE  /\ DigitsRead(base, c) \in [ok : BOOLEAN, val : Int]
         /\ c.text = <<>> => DigitsRead(base, c).val = 0
<1> DEFINE p == parseDigits(base, c.text)
<1>1. c.text \in Seq(Int)
  BY ConstFields
<1>2. p \in [ok : BOOLEAN, val : Int] /\ (c.text = <<>> => p.val = 0)
  BY <1>1, ParseDigitsFacts
<1>3. Wrapped(p.val, Word) \in Int /\ (p.val = 0 => Wrapped(p.val, Word) = 0)
  BY <1>2, WrappedInt, WordFacts
<1>4. DigitsRead(base, c) = [p EXCEPT !.val = Wrapped(p.val, Word)]
  BY DEF DigitsRead
<1> HIDE DEF p
<1> QED
  BY <1>2, <1>3, <1>4

\* How get_value reads each kind of constant.
LEMMA ValueByType ==
  ASSUME NEW c
  PROVE  /\ c.type = "BIN" =>
              get_value(c) = IF c.size > Word THEN Failed ELSE [DigitsRead(2, c) EXCEPT !.ok = TRUE]
         /\ c.type = "HEX" =>
              get_value(c) = IF c.size > Word THEN Failed ELSE DigitsRead(16, c)
         /\ c.type = "OCT" =>
              get_value(c) = IF c.size > Word THEN Failed ELSE DigitsRead(8, c)
         /\ c.type \in {"DEC", "INT"} => get_value(c) = parseInt64(c.text[1])
         /\ c.type = "UINT" =>
              get_value(c) = [parseIntLenient(c.text[1]) EXCEPT
                                !.val = Wrapped(parseIntLenient(c.text[1]).val, Word)]
         /\ c.type \notin ConstTypes => get_value(c) = Failed
<1>1. CASE c.type = "BIN"
  BY <1>1 DEF get_value, DigitsRead, ConstTypes
<1>2. CASE c.type = "HEX"
  BY <1>2 DEF get_value, DigitsRead, ConstTypes
<1>3. CASE c.type = "OCT"
  BY <1>3 DEF get_value, DigitsRead, ConstTypes
<1>4. CASE c.type \in {"DEC", "INT"}
  BY <1>4 DEF get_value, ConstTypes
<1>5. CASE c.type = "UINT"
  BY <1>5 DEF get_value, ConstTypes
<1>6. CASE c.type \notin ConstTypes
  BY <1>6 DEF get_value, ConstTypes
<1> QED
  BY <1>1, <1>2, <1>3, <1>4, <1>5, <1>6 DEF ConstTypes

\* get_value gives a number, that of a constant without bits is 0, and what is
\* no constant is refused.
LEMMA ValueFacts ==
  ASSUME NEW c, IsOperand(c)
  PROVE  /\ get_value(c) \in [ok : BOOLEAN, val : Int]
         /\ c.size = 0 /\ Fits(c) => get_value(c).val = 0
         /\ c = NotConst => ~ get_value(c).ok
<1>0. Failed = [ok |-> FALSE, val |-> 0]
  BY DEF Failed, Parsed
<1>1. CASE c = NotConst
  <2>1. get_value(c) = Failed
    BY <1>1, NotConstFields, ValueByType DEF ConstTypes
  <2> QED
    BY <2>1, <1>0
<1>2. CASE IsConst(c)
  <2>0. c # NotConst /\ c.type \in ConstTypes
    BY <1>2, ConstFields
  <2>1. CASE c.type \in {"BIN", "HEX", "OCT"}
    <3>1. PICK base \in Int :
            get_value(c) \in {Failed, [DigitsRead(base, c) EXCEPT !.ok = TRUE], DigitsRead(base, c)}
      BY <2>1, ValueByType
    <3>2. /\ DigitsRead(base, c) \in [ok : BOOLEAN, val : Int]
          /\ c.text = <<>> => DigitsRead(base, c).val = 0
      BY <1>2, DigitsReadFacts
    <3>3. c.size = 0 /\ Fits(c) => c.text = <<>>
      BY <2>1 DEF Fits
    <3> DEFINE d == DigitsRead(base, c)
    <3> HIDE DEF d
    <3>4. /\ get_value(c) \in {Failed, [d EXCEPT !.ok = TRUE], d}
          /\ d \in [ok : BOOLEAN, val : Int] /\ (c.text = <<>> => d.val = 0)
      BY <3>1, <3>2 DEF d
    <3> DEFINE e == [d EXCEPT !.ok = TRUE]
    <3>5. /\ e \in [ok : BOOLEAN, val : Int] /\ e.val = d.val
          /\ Failed \in [ok : BOOLEAN, val : Int] /\ Failed.val = 0
      <4>1. d \in [ok : BOOLEAN, val : Int]
        BY <3>4
      <4>2. e \in [ok : BOOLEAN, val : Int]
        BY <4>1
      <4>3. e.val = d.val
        BY <4>1
      <4>4. Failed \in [ok : BOOLEAN, val : Int] /\ Failed.val = 0
        BY <1>0
      <4> HIDE DEF e
      <4> QED
        BY <4>2, <4>3, <4>4
    <3> HIDE DEF e
    <3>6. get_value(c) = Failed \/ get_value(c) = e \/ get_value(c) = d
      BY <3>4 DEF e
    <3>7. get_value(c) \in [ok : BOOLEAN, val : Int]
      BY <3>4, <3>5, <3>6, Zenon
    <3>8. c.text = <<>> => get_value(c).val = 0
      BY <3>4, <3>5, <3>6, Zenon
    <3> QED
      BY <2>0, <3>3, <3>7, <3>8
  <2>2. CASE c.type \in {"DEC", "INT"}
    <3>1. get_value(c) = parseInt64(c.text[1])
      BY <2>2, ValueByType
    <3>2. c.text[1] \in Int
      BY <1>2, <2>2, ConstFields
    <3>3. c.size = 0 /\ Fits(c) => c.text[1] = 0
      BY <2>2 DEF Fits
    <3> QED
      BY <2>0, <3>1, <3>2, <3>3, ParserFacts
  <2>3. CASE c.type = "UINT"
    <3> DEFINE p == parseIntLenient(c.text[1])
    <3>1. get_value(c) = [p EXCEPT !.val = Wrapped(p.val, Word)]
      BY <2>3, ValueByType
    <3>2. c.text[1] \in Int
      BY <1>2, <2>3, ConstFields
    <3>3. c.size = 0 /\ Fits(c) => c.text[1] = 0
      BY <2>3 DEF Fits
    <3>4. p \in [ok : BOOLEAN, val : Int] /\ (c.text[1] = 0 => p.val = 0)
      BY <3>2, ParserFacts
    <3>5. Wrapped(p.val, Word) \in Int /\ (p.val = 0 => Wrapped(p.val, Word) = 0)
      BY <3>4, WrappedInt, WordFacts
    <3> HIDE DEF p
    <3> QED
      BY <2>0, <3>1, <3>3, <3>4, <3>5
  <2> QED
    BY <2>0, <2>1, <2>2, <2>3 DEF ConstTypes
<1> QED
  BY <1>1, <1>2 DEF IsOperand

\* get_uvalue gives an unsigned word, that of a constant without bits is 0, and
\* what is no constant is refused.
LEMMA UnsignedValueFacts ==
  ASSUME NEW c, IsOperand(c)
  PROVE  /\ get_uvalue(c) \in [ok : BOOLEAN, val : Nat]
         /\ get_uvalue(c).val \in 0 .. (2 ^ Word) - 1
         /\ c.size = 0 /\ Fits(c) => get_uvalue(c).val = 0
         /\ c = NotConst => ~ get_uvalue(c).ok
<1>1. CASE c.type \in {"DEC", "INT", "UINT"}
  <2>1. get_uvalue(c) = parseUint64(c.text[1])
    BY <1>1 DEF get_uvalue
  <2>2. c # NotConst
    BY <1>1, NotConstFields
  <2>3. c.text[1] \in Int
    BY <1>1, <2>2, ConstFields DEF IsOperand
  <2>4. c.size = 0 /\ Fits(c) => c.text[1] = 0
    BY <1>1 DEF Fits
  <2> QED
    BY <2>1, <2>2, <2>3, <2>4, ParserFacts
<1>2. CASE c.type \notin {"DEC", "INT", "UINT"}
  <2> DEFINE v == get_value(c)
  <2>1. get_uvalue(c) = [v EXCEPT !.val = Unsigned(v.val)]
    BY <1>2 DEF get_uvalue
  <2>2. /\ v \in [ok : BOOLEAN, val : Int]
        /\ c.size = 0 /\ Fits(c) => v.val = 0
        /\ c = NotConst => ~ v.ok
    BY ValueFacts
  <2>3. /\ Unsigned(v.val) \in 0 .. (2 ^ Word) - 1 /\ Unsigned(v.val) \in Nat
        /\ v.val = 0 => Unsigned(v.val) = 0
    BY <2>2, UnsignedRange, WrappedInt
  <2> HIDE DEF v
  <2> QED
    BY <2>1, <2>2, <2>3
<1> QED
  BY <1>1, <1>2

\* Zeros before a row of bits.
LEMMA FilledFacts ==
  ASSUME NEW k \in Int, NEW bits \in Seq(0 .. 1)
  PROVE  /\ [i \in 1 .. k |-> 0] \o bits \in Seq(0 .. 1)
         /\ Len([i \in 1 .. k |-> 0] \o bits) = (IF k > 0 THEN k ELSE 0) + Len(bits)
<1> DEFINE m == IF k > 0 THEN k ELSE 0
           zeros == [i \in 1 .. m |-> 0]
<1>1. m \in Nat
  OBVIOUS
<1>2. 1 .. k = 1 .. m
  OBVIOUS
<1>3. zeros \in Seq(0 .. 1) /\ Len(zeros) = m
  <2> HIDE DEF m
  <2> QED
    BY <1>1
<1>4. zeros \o bits \in Seq(0 .. 1) /\ Len(zeros \o bits) = m + Len(bits)
  <2> HIDE DEF zeros, m
  <2> QED
    BY <1>1, <1>3
<1>5. [i \in 1 .. k |-> 0] = zeros
  BY <1>2, Zenon
<1> QED
  BY <1>4, <1>5

\* A row of bits backwards.
LEMMA ReverseFacts ==
  ASSUME NEW bits \in Seq(0 .. 1)
  PROVE  Reverse(bits) \in Seq(0 .. 1) /\ Len(Reverse(bits)) = Len(bits)
BY DEF Reverse

\* A constant as bits.
LEMMA ToBitsFacts ==
  ASSUME NEW c, IsConst(c)
  PROVE  toBits(c) \in Seq(0 .. 1)
<1> DEFINE Filled(bits) == [i \in 1 .. c.size - Len(bits) |-> 0] \o bits
<1>0. /\ c.type \in ConstTypes /\ c.text \in Seq(Int) /\ c.size \in Int
      /\ c.type \in {"DEC", "INT", "UINT"} => c.text[1] \in Int
  BY ConstFields
<1>1. ASSUME NEW bits \in Seq(0 .. 1)
      PROVE  Filled(bits) \in Seq(0 .. 1)
  <2>1. c.size - Len(bits) \in Int
    BY <1>0
  <2> QED
    BY <2>1, FilledFacts
<1>2. CASE c.type = "BIN"
  <2>1. c.text \in Seq(0 .. 1)
    BY <1>0, <1>2 DEF IsConst, DigitsOf
  <2>2. toBits(c) = Filled(c.text)
    BY <1>2 DEF toBits
  <2> QED
    BY <1>1, <2>1, <2>2
<1>3. CASE c.type \in {"HEX", "OCT"}
  <2>1. hexToBin(c.text) \in Seq(0 .. 1)
    BY <1>0, HexToBinFacts
  <2>2. toBits(c) = Filled(hexToBin(c.text))
    BY <1>3 DEF toBits
  <2> QED
    BY <1>1, <2>1, <2>2
<1>4. CASE c.type \in {"DEC", "INT"}
  <2> DEFINE v == parseIntLenient(c.text[1]).val
  <2>1. v \in Int
    BY <1>0, <1>4, ParserFacts
  <2>2. toBits(c) = toBinary(c.size, Unsigned(v))
    BY <1>4 DEF toBits
  <2>3. Unsigned(v) \in 0 .. (2 ^ Word) - 1
    BY <2>1, UnsignedRange
  <2> QED
    BY <1>0, <2>2, <2>3, ToBinaryFacts
<1>5. CASE c.type = "UINT"
  <2> DEFINE v == parseUint64(c.text[1]).val
  <2>1. v \in Nat
    BY <1>0, <1>5, ParserFacts
  <2>2. toBits(c) = toBinary(c.size, Unsigned(v))
    BY <1>5 DEF toBits
  <2>3. Unsigned(v) \in 0 .. (2 ^ Word) - 1
    BY <2>1, UnsignedRange
  <2> QED
    BY <1>0, <2>2, <2>3, ToBinaryFacts
<1> QED
  BY <1>0, <1>2, <1>3, <1>4, <1>5 DEF ConstTypes

(***************************************************************************)
(* What the operators make.                                                *)
(***************************************************************************)
\* Every constant of a set is one of its kind, and if the operands had no more
\* digits than their sizes (fit), neither has it.
Makes(S, fit) == \A c \in S : c = NotConst \/ (IsConst(c) /\ (fit => Fits(c)))

\* A number is a constant of any size, and of size 0 if it is 0.
LEMMA NumberMade ==
  ASSUME NEW n \in Int, NEW size \in Int, size >= -1
  PROVE  /\ IsConst(SInt(n, size)) /\ IsConst(UInt(n, size))
         /\ (size = 0 => n = 0) => Fits(SInt(n, size)) /\ Fits(UInt(n, size))
         /\ SInt(n, size).size = size /\ UInt(n, size).size = size
<1>1. /\ <<n>> \in Seq(Int) /\ Len(<<n>>) = 1 /\ <<n>>[1] = n
      /\ Typeless \in Typespecs /\ Typeless.kind # "word"
  BY DEF Typeless, Typespecs
<1>2. ASSUME NEW t \in {"INT", "UINT"}
      PROVE  /\ IsConst(Const(t, <<n>>, size))
             /\ (size = 0 => n = 0) => Fits(Const(t, <<n>>, size))
             /\ Const(t, <<n>>, size).size = size
  <2> DEFINE c == Const(t, <<n>>, size)
  <2>1. /\ c.type = t /\ c.text = <<n>> /\ c.size = size /\ c.ones = FALSE /\ c.ts = Typeless
        /\ t \in ConstTypes
        /\ c = [type |-> t, text |-> <<n>>, size |-> size, ones |-> FALSE, ts |-> Typeless]
    BY DEF Const, ConstTypes
  <2>2. c \in [type : ConstTypes, text : Seq(Int), size : Int, ones : BOOLEAN, ts : Typespecs]
    BY <1>1, <2>1
  <2>3. \A k \in DOMAIN c.text : c.text[k] \in DigitsOf(c.type)
    BY <2>1 DEF DigitsOf
  <2> HIDE DEF c
  <2>4. IsConst(c)
    BY <1>1, <2>1, <2>2, <2>3 DEF IsConst
  <2>5. (size = 0 => n = 0) => Fits(c)
    BY <2>1 DEF Fits
  <2> QED
    BY <2>1, <2>4, <2>5 DEF c
<1> QED
  BY <1>2 DEF SInt, UInt

\* A row of bits is a constant of any size, and of one that is not below its
\* length if it is to fit.
LEMMA BitsMade ==
  ASSUME NEW bits \in Seq(0 .. 1), NEW size \in Int, size >= -1
  PROVE  /\ IsConst(Bin(bits, size))
         /\ (size >= 0 => Len(bits) <= size) => Fits(Bin(bits, size))
<1> DEFINE c == Bin(bits, size)
<1>1. /\ c.type = "BIN" /\ c.text = bits /\ c.size = size /\ c.ones = FALSE /\ c.ts = Typeless
      /\ "BIN" \in ConstTypes
      /\ c = [type |-> "BIN", text |-> bits, size |-> size, ones |-> FALSE, ts |-> Typeless]
  BY DEF Bin, Const, ConstTypes
<1>2. Typeless \in Typespecs /\ Typeless.kind # "word" /\ bits \in Seq(Int)
  BY DEF Typeless, Typespecs
<1>3. c \in [type : ConstTypes, text : Seq(Int), size : Int, ones : BOOLEAN, ts : Typespecs]
  BY <1>1, <1>2
<1>4. \A k \in DOMAIN c.text : c.text[k] \in DigitsOf(c.type)
  BY <1>1 DEF DigitsOf
<1>5. size = 0 /\ Len(bits) <= 0 => bits = <<>>
  OBVIOUS
<1> HIDE DEF c
<1>6. IsConst(c)
  BY <1>1, <1>2, <1>3, <1>4 DEF IsConst
<1>7. (size >= 0 => Len(bits) <= size) => Fits(c)
  BY <1>1, <1>5 DEF Fits
<1> QED
  BY <1>6, <1>7 DEF c

\* A single bit is a constant of size 1.
LEMMA BitMade ==
  ASSUME NEW b \in 0 .. 1
  PROVE  IsConst(Bin(<<b>>, 1)) /\ Fits(Bin(<<b>>, 1))
<1>1. <<b>> \in Seq(0 .. 1) /\ Len(<<b>>) = 1
  OBVIOUS
<1> DEFINE bits == <<b>>
           size == 1
<1>2. /\ bits \in Seq(0 .. 1) /\ size \in Int /\ size >= -1
      /\ size >= 0 => Len(bits) <= size
  BY <1>1
<1> HIDE DEF bits, size
<1>3. IsConst(Bin(bits, size)) /\ Fits(Bin(bits, size))
  BY <1>2, BitsMade
<1> QED
  BY <1>3 DEF bits, size

\* A flag is a bit.
LEMMA FlagBit ==
  ASSUME NEW b
  PROVE  Flag(b) \in 0 .. 1 /\ Flag(b) \in Int
BY DEF Flag

\* A number in a whole word fits.
LEMMA WordMade ==
  ASSUME NEW n \in Int
  PROVE  /\ IsConst(SInt(n, Word)) /\ Fits(SInt(n, Word))
         /\ IsConst(UInt(n, Word)) /\ Fits(UInt(n, Word))
<1>1. Word \in Int /\ Word >= -1 /\ Word # 0
  BY WordFacts
<1> QED
  BY <1>1, NumberMade

\* Shifts make words.
LEMMA ShiftMakes ==
  ASSUME NEW a, NEW b, IsOperand(a), IsOperand(b)
  PROVE  Makes(RShift(a, b), TRUE) /\ Makes(LShift(a, b), TRUE)
<1> DEFINE x == get_value(a).val
           y == Unsigned(get_value(b).val)
<1>1. x \in Int /\ y \in Nat
  BY ValueFacts, UnsignedRange
<1>2. ASSUME NEW n \in Amounts(y)
      PROVE  n \in Nat /\ 2 ^ n \in Nat /\ 2 ^ n > 0
  <2>1. n \in Nat
    BY <1>1, <1>2, WordFacts DEF Amounts
  <2> QED
    BY <2>1, PowerPositive
<1>3. ASSUME NEW c \in RShift(a, b)
      PROVE  c = NotConst \/ (IsConst(c) /\ Fits(c))
  <2>1. c = NotConst \/ \E n \in Amounts(y) : c = UInt(Unsigned(x) \div (2 ^ n), Word)
    BY <1>3 DEF RShift
  <2>2. ASSUME NEW n \in Amounts(y)
        PROVE  Unsigned(x) \div (2 ^ n) \in Int
    <3> DEFINE p == 2 ^ n
               u == Unsigned(x)
    <3>1. p \in Nat /\ p > 0 /\ u \in Nat
      BY <1>1, <1>2, UnsignedRange
    <3> HIDE DEF p, u
    <3>2. u \div p \in Int
      BY <3>1
    <3> QED
      BY <3>2 DEF p, u
  <2> HIDE DEF x, y
  <2> QED
    BY <2>1, <2>2, WordMade
<1>4. ASSUME NEW c \in LShift(a, b)
      PROVE  c = NotConst \/ (IsConst(c) /\ Fits(c))
  <2>1. c = NotConst \/ \E n \in Amounts(y) : c = UInt(Unsigned(x * (2 ^ n)), Word)
    BY <1>4 DEF LShift
  <2>2. ASSUME NEW n \in Amounts(y)
        PROVE  Unsigned(x * (2 ^ n)) \in Int
    <3> DEFINE p == 2 ^ n
    <3>1. p \in Nat
      BY <1>2
    <3> HIDE DEF p, x
    <3>2. x * p \in Int
      BY <1>1, <3>1
    <3>3. Unsigned(x * p) \in Int
      BY <3>2, UnsignedRange
    <3> QED
      BY <3>3 DEF p
  <2> HIDE DEF x, y
  <2> QED
    BY <2>1, <2>2, WordMade
<1> QED
  BY <1>3, <1>4 DEF Makes

\* Comparisons make a bit.
LEMMA CompareMakes ==
  ASSUME NEW op, NEW a, NEW b
  PROVE  Makes(Compare(op, a, b), TRUE)
<1>1. ASSUME NEW c \in Compare(op, a, b)
      PROVE  c = NotConst \/ \E f \in {TRUE, FALSE} : c = Bin(<<Flag(f)>>, 1)
  BY <1>1 DEF Compare, Flag
<1> QED
  BY <1>1, FlagBit, BitMade DEF Makes

\* A sum makes a number of the larger size.
LEMMA AddMakes ==
  ASSUME NEW a, NEW b, IsOperand(a), IsOperand(b)
  PROVE  /\ Makes(Add(a, b), Fits(a) /\ Fits(b) /\ {a.size, b.size} # {-1, 0})
         /\ a = NotConst \/ b = NotConst => Add(a, b) = {NotConst}
<1> DEFINE size == IF a.size > b.size THEN a.size ELSE b.size
           s == get_value(a).val + get_value(b).val
           u == get_uvalue(a).val + get_uvalue(b).val
<1>1. /\ a.size \in Int /\ a.size >= -1 /\ b.size \in Int /\ b.size >= -1
      /\ size \in Int /\ size >= -1
  BY OperandFields
<1>2. get_value(a).val \in Int /\ get_value(b).val \in Int
  BY ValueFacts
<1>3. get_uvalue(a).val \in Int /\ get_uvalue(b).val \in Int
  BY UnsignedValueFacts
<1>4. Wrapped(s, Word) \in Int /\ Unsigned(u) \in Int
  <2>1. s \in Int /\ u \in Int
    BY <1>2, <1>3
  <2> QED
    BY <2>1, WrappedInt, UnsignedRange, WordFacts
<1>5. ASSUME Fits(a), Fits(b), {a.size, b.size} # {-1, 0}, size = 0
      PROVE  Wrapped(s, Word) = 0 /\ Unsigned(u) = 0
  <2>1. a.size = 0 /\ b.size = 0
    BY <1>1, <1>5
  <2>2. get_value(a).val = 0 /\ get_value(b).val = 0
    BY <1>5, <2>1, ValueFacts
  <2>3. get_uvalue(a).val = 0 /\ get_uvalue(b).val = 0
    BY <1>5, <2>1, UnsignedValueFacts
  <2>4. s = 0 /\ u = 0
    BY <2>2, <2>3
  <2> HIDE DEF s, u
  <2> QED
    BY <2>4, WrappedInt
<1>6. ASSUME NEW c \in Add(a, b)
      PROVE  c \in {NotConst, SInt(Wrapped(s, Word), size), UInt(Unsigned(u), size)}
  BY <1>6 DEF Add
<1>7. Makes(Add(a, b), Fits(a) /\ Fits(b) /\ {a.size, b.size} # {-1, 0})
  <2> DEFINE ws == Wrapped(s, Word)
             wu == Unsigned(u)
  <2>1. /\ ws \in Int /\ wu \in Int
        /\ Fits(a) /\ Fits(b) /\ {a.size, b.size} # {-1, 0} /\ size = 0 => ws = 0 /\ wu = 0
    BY <1>4, <1>5
  <2> HIDE DEF ws, wu
  <2>2. \A c \in Add(a, b) : c \in {NotConst, SInt(ws, size), UInt(wu, size)}
    BY <1>6 DEF ws, wu
  <2> HIDE DEF size
  <2>3. IsConst(SInt(ws, size)) /\ IsConst(UInt(wu, size))
    BY <1>1, <2>1, NumberMade
  <2>4. Fits(a) /\ Fits(b) /\ {a.size, b.size} # {-1, 0} =>
          Fits(SInt(ws, size)) /\ Fits(UInt(wu, size))
    BY <1>1, <2>1, NumberMade
  <2> QED
    BY <2>2, <2>3, <2>4 DEF Makes
<1>8. a = NotConst \/ b = NotConst => Add(a, b) = {NotConst}
  <2>1. a = NotConst \/ b = NotConst => /\ ~ (get_value(a).ok /\ get_value(b).ok)
                                        /\ ~ (get_uvalue(a).ok /\ get_uvalue(b).ok)
    BY ValueFacts, UnsignedValueFacts
  <2> QED
    BY <2>1 DEF Add
<1> QED
  BY <1>7, <1>8

\* The operators that make a whole word of one or two words.
LEMMA WordsMake ==
  ASSUME NEW a, NEW b, IsOperand(a), IsOperand(b)
  PROVE  /\ Makes(LogAnd(a, b), TRUE) /\ Makes(LogOr(a, b), TRUE)
         /\ Makes(Sub(a, b), TRUE) /\ Makes(Mult(a, b), TRUE)
         /\ Makes(Not(a), TRUE)
<1> DEFINE x == get_value(a).val
           y == get_value(b).val
<1>1. x \in Int /\ y \in Int
  BY ValueFacts
<1>2. Makes(LogAnd(a, b), TRUE)
  <2>1. \A c \in LogAnd(a, b) : c = NotConst \/ \E f : c = UInt(Flag(f), Word)
    BY DEF LogAnd, OnWords
  <2> QED
    BY <2>1, FlagBit, WordMade DEF Makes
<1>3. Makes(LogOr(a, b), TRUE)
  <2>1. \A c \in LogOr(a, b) : c = NotConst \/ \E f : c = UInt(Flag(f), Word)
    BY DEF LogOr, OnWords
  <2> QED
    BY <2>1, FlagBit, WordMade DEF Makes
<1>4. Makes(Not(a), TRUE)
  <2>1. \A c \in Not(a) : c = NotConst \/ \E f : c = UInt(Flag(f), Word)
    BY DEF Not, OnWords
  <2> QED
    BY <2>1, FlagBit, WordMade DEF Makes
<1>5. Makes(Sub(a, b), TRUE)
  <2> DEFINE d == Wrapped(x - y, Word)
  <2>1. d \in Int
    <3>1. x - y \in Int
      BY <1>1
    <3> QED
      BY <3>1, WrappedInt, WordFacts
  <2>2. \A c \in Sub(a, b) : c = NotConst \/ c = SInt(d, Word)
    BY DEF Sub, OnWords
  <2> HIDE DEF d
  <2> QED
    BY <2>1, <2>2, WordMade DEF Makes
<1>6. Makes(Mult(a, b), TRUE)
  <2> DEFINE d == Wrapped(x * y, Word)
  <2>1. d \in Int
    <3>1. x * y \in Int
      BY <1>1
    <3> QED
      BY <3>1, WrappedInt, WordFacts
  <2>2. \A c \in Mult(a, b) : c = NotConst \/ c = SInt(d, Word)
    BY DEF Mult, OnWords
  <2> HIDE DEF d
  <2> QED
    BY <2>1, <2>2, WordMade DEF Makes
<1> QED
  BY <1>2, <1>3, <1>4, <1>5, <1>6

\* The operators on the bits of two words.
LEMMA BitWiseMakes ==
  ASSUME NEW a, NEW b, IsOperand(a), IsOperand(b)
  PROVE  Makes(BitAnd(a, b), TRUE) /\ Makes(BitOr(a, b), TRUE)
<1> DEFINE x == Unsigned(get_value(a).val)
           y == Unsigned(get_value(b).val)
           p(i) == Bit(x, Word - i)
           q(i) == Bit(y, Word - i)
           both == [i \in 1 .. Word |-> p(i) * q(i)]
           either == [i \in 1 .. Word |-> p(i) + q(i) - p(i) * q(i)]
<1>1. x \in Int /\ y \in Int
  BY ValueFacts, UnsignedRange
<1>2. ASSUME NEW i \in 1 .. Word
      PROVE  p(i) \in Int /\ q(i) \in Int
  <2>1. Word - i \in Nat
    BY WordFacts
  <2> HIDE DEF x, y
  <2> QED
    BY <1>1, <2>1, BitRange
<1>3. \A i \in 1 .. Word : p(i) * q(i) \in Int /\ p(i) + q(i) - p(i) * q(i) \in Int
  <2> TAKE i \in 1 .. Word
  <2>1. p(i) \in Int /\ q(i) \in Int
    BY <1>2
  <2> HIDE DEF p, q
  <2> QED
    BY <2>1
<1>4. both \in Seq(Int) /\ either \in Seq(Int)
  <2> HIDE DEF p, q
  <2> QED
    BY <1>3, WordFacts
<1>5. Number(2, both) \in Int /\ Number(2, either) \in Int
  <2> HIDE DEF both, either
  <2> QED
    BY <1>4, NumberInt
<1>6. \A c \in BitAnd(a, b) : c = NotConst \/ c = UInt(Number(2, both), Word)
  BY DEF BitAnd, OnWords, BitWise
<1>7. \A c \in BitOr(a, b) : c = NotConst \/ c = UInt(Number(2, either), Word)
  BY DEF BitOr, OnWords, BitWise
<1> HIDE DEF both, either
<1> QED
  BY <1>5, <1>6, <1>7, WordMade DEF Makes

\* The reductions make a flag.
LEMMA ReductionsMake ==
  ASSUME NEW a
  PROVE  /\ Makes(UnaryAnd(a), TRUE) /\ Makes(UnaryNand(a), TRUE)
         /\ Makes(UnaryOr(a), TRUE) /\ Makes(UnaryNor(a), TRUE)
         /\ Makes(UnaryXor(a), TRUE) /\ Makes(UnaryXNor(a), TRUE)
<1> DEFINE Reduced(c) == c = NotConst \/ \E f : c = UInt(Flag(f), Word)
<1>1. \A c \in UnaryAnd(a) : Reduced(c)
  BY DEF UnaryAnd, Reduction, OnWords
<1>2. \A c \in UnaryNand(a) : Reduced(c)
  BY DEF UnaryNand, Reduction, OnWords
<1>3. \A c \in UnaryOr(a) : Reduced(c)
  BY DEF UnaryOr, Reduction, OnWords
<1>4. \A c \in UnaryNor(a) : Reduced(c)
  BY DEF UnaryNor, Reduction, OnWords
<1>5. \A c \in UnaryXor(a) : Reduced(c)
  BY DEF UnaryXor, Reduction, OnWords
<1>6. \A c \in UnaryXNor(a) : Reduced(c)
  BY DEF UnaryXNor, Reduction, OnWords
<1>7. \A c : Reduced(c) => c = NotConst \/ (IsConst(c) /\ Fits(c))
  BY FlagBit, WordMade
<1> HIDE DEF Reduced
<1> QED
  BY <1>1, <1>2, <1>3, <1>4, <1>5, <1>6, <1>7 DEF Makes

\* The negative and the complement keep a size.
LEMMA MinusMakes ==
  ASSUME NEW a, IsOperand(a)
  PROVE  Makes(Minus(a), Fits(a))
<1> DEFINE n == -get_value(a).val
           m == Wrapped(n, Word)
<1>1. a.size \in Int /\ a.size >= -1
  BY OperandFields
<1>2. n \in Int /\ (a.size = 0 /\ Fits(a) => n = 0)
  <2>1. get_value(a).val \in Int /\ (a.size = 0 /\ Fits(a) => get_value(a).val = 0)
    BY ValueFacts
  <2> QED
    BY <2>1
<1>3. \A c \in Minus(a) : c = NotConst \/ c = SInt(m, a.size)
  BY DEF Minus, OnWords
<1>4. m \in Int /\ (n = 0 => m = 0)
  <2> HIDE DEF n
  <2> QED
    BY <1>2, WrappedInt, WordFacts
<1> HIDE DEF m, n
<1>5. IsConst(SInt(m, a.size)) /\ ((a.size = 0 => m = 0) => Fits(SInt(m, a.size)))
  BY <1>1, <1>4, NumberMade
<1> QED
  BY <1>2, <1>3, <1>4, <1>5 DEF Makes

\* A number masked to a size is 0 for the size 0.
LEMMA MaskedFacts ==
  ASSUME NEW n \in Int, NEW size \in Int
  PROVE  /\ n % (getMask(size) + 1) \in Int
         /\ size = 0 => n % (getMask(size) + 1) = 0
<1> DEFINE m == getMask(size)
<1>1. m \in Nat /\ (size = 0 => m = 0)
  BY MaskFacts
<1> HIDE DEF m
<1>2. n % (m + 1) \in Int /\ (m = 0 => n % (m + 1) = 0)
  BY <1>1
<1> QED
  BY <1>1, <1>2 DEF m

\* The complement: one bit, or as many as the operand or its typespec has.
LEMMA BitNegMakes ==
  ASSUME NEW a, IsOperand(a)
  PROVE  Makes(BitNeg(a), TRUE)
<1> DEFINE size == CASE a.ts.kind = "none" -> a.size
                     [] a.ts.kind = "signed" -> 1
                     [] a.ts.kind = "word" -> Half
                     [] a.ts.kind = "up" -> a.ts.n
           n == Unsigned(-get_value(a).val - 1)
           m == n % (getMask(size) + 1)
           one == UInt(Flag(get_value(a).val = 0), size)
           many == UInt(m, size)
<1>1. size \in Int /\ size >= -1
  <2>1. a.size \in Int /\ a.size >= -1
    BY OperandFields
  <2>2. a.ts \in Typespecs
    BY ConstFields, NotConstFields DEF IsOperand, Typeless, Typespecs
  <2> QED
    BY <2>1, <2>2, WordFacts DEF Typespecs
<1>2. n \in Int
  <2>1. get_value(a).val \in Int
    BY ValueFacts
  <2>2. -get_value(a).val - 1 \in Int
    BY <2>1
  <2> QED
    BY <2>2, UnsignedRange
<1>3. \A c \in BitNeg(a) : c = NotConst \/ (size = 1 /\ c = one) \/ c = many
  BY DEF BitNeg, OnWords
<1>4. m \in Int /\ (size = 0 => m = 0)
  <2> HIDE DEF n, size
  <2> QED
    BY <1>1, <1>2, MaskedFacts
<1>5. IsConst(many) /\ Fits(many)
  <2> HIDE DEF m, size
  <2> QED
    BY <1>1, <1>4, NumberMade
<1>6. size = 1 => IsConst(one) /\ Fits(one)
  <2> HIDE DEF size
  <2> QED
    BY <1>1, FlagBit, NumberMade
<1> HIDE DEF one, many, size
<1> QED
  BY <1>3, <1>5, <1>6 DEF Makes

\* Membership in a set gives 1.
LEMMA InsideMakes ==
  ASSUME NEW a, NEW b, NEW c
  PROVE  Makes(Inside(a, b, c), TRUE)
<1>1. \A d \in Inside(a, b, c) : d = NotConst \/ d = UInt(1, Word)
  BY DEF Inside
<1> QED
  BY <1>1, WordMade DEF Makes

\* Division towards zero gives a number.
LEMMA DividedMakes ==
  ASSUME NEW a, NEW b, IsOperand(a), IsOperand(b)
  PROVE  Makes(Div(a, b), TRUE) /\ Makes(Mod(a, b), TRUE)
<1> DEFINE x == get_value(a).val
           y == get_value(b).val
           q == Quotient(x, y)
           r == x - y * q
<1>1. x \in Int /\ y \in Int
  BY ValueFacts
<1>2. y # 0 => q \in Int
  <2> DEFINE mx == Magnitude(x)
             my == Magnitude(y)
  <2>1. mx \in Int /\ my \in Int /\ (y # 0 => my > 0)
    <3> HIDE DEF x, y
    <3> QED
      BY <1>1 DEF Magnitude
  <2>2. q = IF (x < 0) = (y < 0) THEN mx \div my ELSE -(mx \div my)
    BY DEF Quotient
  <2>3. y # 0 => mx \div my \in Int
    <3> HIDE DEF mx, my, x, y
    <3> QED
      BY <2>1
  <2> HIDE DEF mx, my, q, x, y
  <2> QED
    BY <2>2, <2>3
<1>3. y # 0 => r \in Int
  <2> HIDE DEF x, y, q
  <2> QED
    BY <1>1, <1>2
<1>4. \A c \in Div(a, b) : c = NotConst \/ (y # 0 /\ c = SInt(q, Word))
  BY DEF Div, Divided
<1>5. \A c \in Mod(a, b) : c = NotConst \/ (y # 0 /\ c = SInt(r, Word))
  BY DEF Mod, Divided
<1> HIDE DEF q, r, y
<1> QED
  BY <1>2, <1>3, <1>4, <1>5, WordMade DEF Makes

\* A power, as far as it is computed, is a number.
LEMMA BoundedInt ==
  ASSUME NEW x \in Int, NEW n \in Nat
  PROVE  Bounded(x, n) \in Int
<1> DEFINE Next1(p) == IF Magnitude(p) >= 2 ^ Word THEN p ELSE p * x
           Step == [i \in Nat |-> [p \in Int |-> Next1(p)]]
           Up(g) == [i \in 0 .. n |->
                       IF i = 0 THEN 1
                       ELSE IF Magnitude(g[i - 1]) >= 2 ^ Word THEN g[i - 1] ELSE g[i - 1] * x]
           power == CHOOSE g : g = Up(g)
<1>1. \A p \in Int : Next1(p) \in Int
  <2> TAKE p \in Int
  <2>1. p * x \in Int
    OBVIOUS
  <2> QED
    BY <2>1
<1>2. \A i \in Nat, p \in Int : Step[i][p] = Next1(p)
  OBVIOUS
<1>3. Stays(Int, Step) /\ 1 \in Int
  <2> HIDE DEF Step, Next1
  <2> QED
    BY <1>1, <1>2 DEF Stays
<1>4. PICK f : f \in [0 .. n -> Int] /\ f[0] = 1 /\ \A i \in 1 .. n : f[i] = Step[i][f[i - 1]]
  <2> HIDE DEF Step
  <2>1. \E f : Counted(f, n, Int, 1, Step)
    BY <1>3, CountedFunction, Zenon
  <2> QED
    BY <2>1 DEF Counted
<1>5. ASSUME NEW i \in 1 .. n
      PROVE  f[i] = Next1(f[i - 1])
  <2>1. i - 1 \in 0 .. n /\ i \in Nat
    OBVIOUS
  <2>2. f[i - 1] \in Int
    BY <1>4, <2>1
  <2>3. f[i] = Step[i][f[i - 1]]
    BY <1>4
  <2> HIDE DEF Step, Next1
  <2> QED
    BY <1>2, <2>1, <2>2, <2>3
<1>6. f = Up(f)
  <2>1. \A i \in 0 .. n : f[i] = IF i = 0 THEN 1 ELSE Next1(f[i - 1])
    <3> HIDE DEF Next1
    <3> QED
      BY <1>4, <1>5
  <2>2. f = [i \in 0 .. n |-> f[i]]
    BY <1>4
  <2>3. f = [i \in 0 .. n |-> IF i = 0 THEN 1 ELSE Next1(f[i - 1])]
    <3> HIDE DEF Next1
    <3> QED
      BY <2>1, <2>2
  <2> QED
    BY <2>3
<1>7. power = Up(power)
  <2> HIDE DEF Up
  <2> QED
    BY <1>6
<1>8. power[0] = 1 /\ \A i \in 1 .. n : power[i] = Next1(power[i - 1])
  <2>1. \A i \in 0 .. n : power[i] = IF i = 0 THEN 1 ELSE Next1(power[i - 1])
    <3> HIDE DEF power
    <3> QED
      BY <1>7
  <2> HIDE DEF power, Next1
  <2> QED
    BY <2>1
<1> DEFINE S == {i \in Nat : i <= n => power[i] \in Int}
<1>9. 0 \in S
  <2> HIDE DEF power
  <2> QED
    BY <1>8
<1>10. ASSUME NEW i \in Nat, i \in S
       PROVE  i + 1 \in S
  <2> DEFINE j == i + 1
  <2> HIDE DEF power
  <2>1. j \in Nat /\ j - 1 = i /\ (j <= n => j \in 1 .. n /\ power[i] \in Int)
    BY <1>10
  <2> HIDE DEF j
  <2>2. j <= n => power[j] = Next1(power[i])
    BY <1>8, <2>1
  <2>3. j \in S
    <3> HIDE DEF Next1
    <3> QED
      BY <1>1, <2>1, <2>2
  <2> QED
    BY <2>3 DEF j
<1>11. n \in S
  <2> HIDE DEF S
  <2> QED
    BY <1>9, <1>10, FromZero
<1>12. Bounded(x, n) = power[n]
  BY DEF Bounded
<1> HIDE DEF power
<1> QED
  BY <1>11, <1>12

\* A power makes a number.
LEMMA PowerMakes ==
  ASSUME NEW a, NEW b, IsOperand(a), IsOperand(b)
  PROVE  Makes(Power(a, b), TRUE)
<1> DEFINE x == get_value(a).val
           y == get_value(b).val
           p == IF y >= 0 THEN Bounded(x, y)
                ELSE IF x = 0 THEN 2 ^ Word
                ELSE IF Magnitude(x) > 1 THEN 0
                ELSE IF y % 2 = 0 THEN 1 ELSE x
<1>1. x \in Int /\ y \in Int
  BY ValueFacts
<1>2. p \in Int
  <2>1. y >= 0 => Bounded(x, y) \in Int
    <3> HIDE DEF x, y
    <3> QED
      BY <1>1, BoundedInt
  <2> DEFINE w == 2 ^ Word
             z == Bounded(x, y)
  <2>2. w \in Int /\ (y >= 0 => z \in Int)
    BY <2>1, WordFacts
  <2>3. p = IF y >= 0 THEN z
            ELSE IF x = 0 THEN w
            ELSE IF Magnitude(x) > 1 THEN 0
            ELSE IF y % 2 = 0 THEN 1 ELSE x
    BY Zenon
  <2> HIDE DEF x, y, w, z, p
  <2> QED
    BY <1>1, <2>2, <2>3
<1>3. Least \in Int /\ -Least - 1 \in Int
  BY WordFacts DEF Least
<1>4. \A c \in Power(a, b) :
        c = NotConst \/ \E q \in {p, Least, -Least - 1} : c = SInt(q, Word)
  <2> HIDE DEF p
  <2>1. ASSUME NEW c \in Power(a, b), c # NotConst
        PROVE  c \in {SInt(q, Word) : q \in IF Least <= p /\ p < -Least THEN {p} ELSE {Least, -Least - 1}}
    BY <2>1 DEF Power, p
  <2> QED
    BY <2>1
<1> HIDE DEF p
<1> QED
  BY <1>2, <1>3, <1>4, WordMade DEF Makes

\* The number chosen.
LEMMA ConditionMakes ==
  ASSUME NEW a, NEW b, NEW c, IsOperand(b), IsOperand(c)
  PROVE  Makes(Condition(a, b, c), TRUE)
<1>1. \A d \in Condition(a, b, c) :
        d = NotConst \/ d = SInt(get_value(b).val, Word) \/ d = SInt(get_value(c).val, Word)
  BY DEF Condition
<1>2. get_value(b).val \in Int /\ get_value(c).val \in Int
  BY ValueFacts
<1> QED
  BY <1>1, <1>2, WordMade DEF Makes

\* Casts.
LEMMA CastMakes ==
  ASSUME NEW a, IsOperand(a),
         NEW to \in {"int", "long_int", "enum", "bit", "short_int"}
  PROVE  Makes(Cast(a, to), TRUE)
<1> DEFINE v == get_value(a).val
<1>1. v \in Int
  BY ValueFacts
<1>2. /\ Wrapped(v, Half) \in Int /\ Unsigned(v) \in Int /\ v % 2 \in 0 .. 1
      /\ Wrapped(v, Quarter) \in Int
      /\ Quarter \in Int /\ Quarter >= -1 /\ Quarter # 0
  <2> HIDE DEF v
  <2>1. Wrapped(v, Half) \in Int /\ Wrapped(v, Quarter) \in Int
    BY <1>1, WrappedInt, WordFacts
  <2>2. Unsigned(v) \in Int
    BY <1>1, UnsignedRange
  <2>3. v % 2 \in 0 .. 1
    BY <1>1
  <2>4. Quarter \in Int /\ Quarter >= -1 /\ Quarter # 0
    BY WordFacts
  <2> QED
    BY <2>1, <2>2, <2>3, <2>4
<1>3. \A c \in Cast(a, to) :
        \/ c = NotConst
        \/ c = UInt(Wrapped(v, Half), Word) \/ c = UInt(v, Word)
        \/ c = UInt(Unsigned(v), Word) \/ c = Bin(<<v % 2>>, 1)
        \/ c = UInt(Wrapped(v, Quarter), Quarter)
  BY DEF Cast
<1>4. IsConst(Bin(<<v % 2>>, 1)) /\ Fits(Bin(<<v % 2>>, 1))
  BY <1>2, BitMade
<1>5. IsConst(UInt(Wrapped(v, Quarter), Quarter)) /\ Fits(UInt(Wrapped(v, Quarter), Quarter))
  <2> DEFINE w == Wrapped(v, Quarter)
  <2> HIDE DEF w
  <2>1. w \in Int
    BY <1>2 DEF w
  <2>2. IsConst(UInt(w, Quarter)) /\ Fits(UInt(w, Quarter))
    BY <1>2, <2>1, NumberMade
  <2> QED
    BY <2>2 DEF w
<1> HIDE DEF v
<1>6. /\ IsConst(UInt(Wrapped(v, Half), Word)) /\ Fits(UInt(Wrapped(v, Half), Word))
      /\ IsConst(UInt(v, Word)) /\ Fits(UInt(v, Word))
      /\ IsConst(UInt(Unsigned(v), Word)) /\ Fits(UInt(Unsigned(v), Word))
  BY <1>1, <1>2, WordMade
<1> QED
  BY <1>3, <1>4, <1>5, <1>6 DEF Makes

\* A fill literal becomes a number of ones; nothing else is changed.
LEMMA ResizeFacts ==
  ASSUME NEW c, IsOperand(c), NEW size \in Int
  PROVE  /\ IsOperand(resize(c, size)) /\ (IsConst(c) => IsConst(resize(c, size)))
         /\ resize(c, size).size = c.size /\ resize(c, size).ts = c.ts
         /\ Fits(c) => Fits(resize(c, size))
         /\ resize(c, size) # c =>
              /\ IsConst(c) /\ c.ones /\ c.size = -1 /\ c.type = "BIN" /\ c.text = <<1>>
              /\ resize(c, size).type = "UINT" /\ resize(c, size).ones = FALSE
              /\ resize(c, size).text = <<getMask(size)>>
<1>1. CASE ~ c.ones
  <2>1. resize(c, size) = c
    BY <1>1 DEF resize
  <2> QED
    BY <2>1
<1>2. CASE c.ones
  <2>1. IsConst(c)
    BY <1>2, NotConstFields DEF IsOperand
  <2>2. c.type = "BIN" /\ c.text = <<1>> /\ c.size = -1
    BY <1>2, <2>1 DEF IsConst
  <2> DEFINE m == getMask(size)
             d == resize(c, size)
             R == [type : ConstTypes, text : Seq(Int), size : Int, ones : BOOLEAN, ts : Typespecs]
  <2>3. m \in Int
    BY MaskFacts
  <2>4. c \in R
    BY <2>1 DEF IsConst
  <2>5. d = [c EXCEPT !.type = "UINT", !.text = <<m>>, !.ones = FALSE]
    BY <1>2 DEF resize
  <2> HIDE DEF m
  <2>6. <<m>> \in Seq(Int) /\ Len(<<m>>) = 1 /\ <<m>>[1] = m /\ "UINT" \in ConstTypes
    BY <2>3 DEF ConstTypes
  <2>7. d \in R
    BY <2>4, <2>5, <2>6
  <2>8. /\ d.type = "UINT" /\ d.text = <<m>> /\ d.ones = FALSE
        /\ d.size = c.size /\ d.ts = c.ts
    BY <2>4, <2>5
  <2> HIDE DEF d
  <2>9. \A k \in DOMAIN d.text : d.text[k] \in DigitsOf(d.type)
    BY <2>3, <2>6, <2>8 DEF DigitsOf
  <2>10. c.ts.kind = "word" => c.ts.n > 0
    BY <2>1 DEF IsConst
  <2>11. IsConst(d)
    BY <2>2, <2>6, <2>7, <2>8, <2>9, <2>10 DEF IsConst
  <2>12. Fits(d)
    BY <2>2, <2>8 DEF Fits
  <2> QED
    BY <1>2, <2>1, <2>2, <2>8, <2>11, <2>12 DEF IsOperand, d, m
<1> QED
  BY <1>1, <1>2

\* The number read changes only if the ones are two or more.
LEMMA ResizeValue ==
  ASSUME NEW c, IsOperand(c), NEW size \in Int, size >= 1,
         get_value(resize(c, size)) # get_value(c)
  PROVE  /\ c.ones /\ ~ resize(c, size).ones
         /\ \E s \in 2 .. Word : resize(c, size).text = <<(2 ^ s) - 1>>
<1> DEFINE d == resize(c, size)
<1>1. /\ IsConst(c) /\ c.ones /\ c.size = -1 /\ c.type = "BIN" /\ c.text = <<1>>
      /\ d.type = "UINT" /\ d.ones = FALSE /\ d.text = <<getMask(size)>>
  BY ResizeFacts
<1>2. CASE size = 1
  <2> DEFINE p == parseIntLenient(1)
             w == Wrapped(p.val, Word)
  <2>1. p \in [ok : BOOLEAN, val : Int] /\ p.ok
    BY ParserFacts
  <2>2. get_value(d) = [p EXCEPT !.val = w]
    <3>1. d.text[1] = 1
      BY <1>1, <1>2, MaskFacts
    <3> QED
      BY <1>1, <3>1, ValueByType
  <2>3. DigitsRead(2, c) = [p EXCEPT !.val = w]
    <3>1. c.text # <<>>
      BY <1>1
    <3>2. parseDigits(2, c.text) = p
      BY <1>1, <3>1, NumberInt DEF parseDigits
    <3> QED
      BY <3>2 DEF DigitsRead
  <2>4. get_value(c) = [DigitsRead(2, c) EXCEPT !.ok = TRUE]
    <3>1. ~ (c.size > Word)
      BY <1>1, WordFacts
    <3> QED
      BY <1>1, <3>1, ValueByType
  <2>5. [[p EXCEPT !.val = w] EXCEPT !.ok = TRUE] = [p EXCEPT !.val = w]
    <3> HIDE DEF p, w
    <3> QED
      BY <2>1
  <2> QED
    BY <2>2, <2>3, <2>4, <2>5
<1>3. CASE size >= 2
  <2>1. PICK s \in 2 .. Word : getMask(size) = (2 ^ s) - 1
    BY <1>3, MaskFacts
  <2> QED
    BY <1>1, <2>1
<1> QED
  BY <1>2, <1>3

\* What is signed keeps everything but its typespec.
LEMMA MarkFacts ==
  ASSUME NEW c, IsConst(c)
  PROVE  /\ IsConst([c EXCEPT !.ts = SignedMark])
         /\ [c EXCEPT !.ts = SignedMark].size = c.size
         /\ Fits(c) => Fits([c EXCEPT !.ts = SignedMark])
         /\ get_value([c EXCEPT !.ts = SignedMark]) = get_value(c)
<1> DEFINE d == [c EXCEPT !.ts = SignedMark]
           R == [type : ConstTypes, text : Seq(Int), size : Int, ones : BOOLEAN, ts : Typespecs]
<1>1. c \in R /\ SignedMark \in Typespecs /\ SignedMark.kind # "word"
  BY DEF IsConst, SignedMark, Typespecs
<1>2. /\ d \in R /\ d.type = c.type /\ d.text = c.text /\ d.size = c.size
      /\ d.ones = c.ones /\ d.ts = SignedMark
  BY <1>1
<1> HIDE DEF d
<1>3. IsConst(d)
  BY <1>1, <1>2 DEF IsConst
<1>4. Fits(c) => Fits(d)
  BY <1>2 DEF Fits
<1>5. get_value(d) = get_value(c)
  BY <1>2 DEF get_value
<1> QED
  BY <1>2, <1>3, <1>4, <1>5 DEF d

\* A cast to a width makes a number of that width.
LEMMA SizeCastMakes ==
  ASSUME NEW a, IsOperand(a), NEW to \in Nat \ {0}
  PROVE  Makes(SizeCast(a, to), TRUE)
<1> DEFINE bits == IF to < Word THEN to ELSE Word
           v == get_value(resize(a, to)).val
           Low1(m) == Unsigned(v) % m
           Made1(m) == IF a.ts = SignedMark
                       THEN [SInt(Wrapped(Low1(m), bits), to) EXCEPT !.ts = SignedMark]
                       ELSE UInt(Low1(m), to)
           Masks == IF to < Word THEN {2 ^ to} ELSE {1, 2 ^ Word}
<1>1. v \in Int
  <2>1. to \in Int
    OBVIOUS
  <2>2. IsOperand(resize(a, to))
    BY <2>1, ResizeFacts
  <2>3. get_value(resize(a, to)) \in [ok : BOOLEAN, val : Int]
    BY <2>2, ValueFacts
  <2> QED
    BY <2>3
<1>2. bits \in Nat /\ to \in Int /\ to >= -1 /\ to # 0
  BY WordFacts
<1>3. ASSUME NEW m \in Masks
      PROVE  m \in Nat /\ m > 0
  BY PowerPositive, WordFacts
<1>4. ASSUME NEW m \in Masks
      PROVE  IsConst(Made1(m)) /\ Fits(Made1(m))
  <2> DEFINE l == Low1(m)
             w == Wrapped(l, bits)
  <2>1. l \in Int
    <3> DEFINE u == Unsigned(v)
    <3>1. u \in Nat
      BY <1>1, UnsignedRange
    <3> HIDE DEF u
    <3>2. u % m \in Int
      BY <1>3, <3>1
    <3> QED
      BY <3>2 DEF u
  <2>2. w \in Int
    <3> HIDE DEF l, bits
    <3> QED
      BY <1>2, <2>1, WrappedInt
  <2> HIDE DEF l, w
  <2>3. IsConst(UInt(l, to)) /\ Fits(UInt(l, to)) /\ IsConst(SInt(w, to)) /\ Fits(SInt(w, to))
    BY <1>2, <2>1, <2>2, NumberMade
  <2>4. /\ IsConst([SInt(w, to) EXCEPT !.ts = SignedMark])
        /\ Fits([SInt(w, to) EXCEPT !.ts = SignedMark])
    BY <2>3, MarkFacts
  <2> QED
    BY <2>3, <2>4 DEF l, w
<1>5. \A c \in SizeCast(a, to) : c = NotConst \/ \E m \in Masks : c = Made1(m)
  BY DEF SizeCast
<1> HIDE DEF Masks, Made1
<1> QED
  BY <1>4, <1>5 DEF Makes

\* $clog2 makes a word.
LEMMA Clog2Makes ==
  ASSUME NEW a, IsOperand(a)
  PROVE  Makes(Clog2(a), TRUE)
<1> DEFINE v == get_uvalue(a).val
           n == Len(toBinary(0, v - 1))
<1>1. v \in 0 .. (2 ^ Word) - 1 /\ 2 ^ Word \in Nat
  BY UnsignedValueFacts, WordFacts
<1>2. v # 0 => n \in Int
  <2>1. v # 0 => v - 1 \in 0 .. (2 ^ Word) - 1
    BY <1>1
  <2>2. v # 0 => toBinary(0, v - 1) \in Seq(0 .. 1)
    <3> DEFINE u == v - 1
    <3>1. 0 \in Int
      OBVIOUS
    <3> HIDE DEF u
    <3>2. u \in 0 .. (2 ^ Word) - 1 => toBinary(0, u) \in Seq(0 .. 1)
      BY <3>1, ToBinaryFacts
    <3> QED
      BY <2>1, <3>2 DEF u
  <2> QED
    BY <2>2
<1>3. \A c \in Clog2(a) : c = NotConst \/ c = UInt(IF v = 0 THEN 0 ELSE n, Word)
  BY DEF Clog2
<1> DEFINE k == IF v = 0 THEN 0 ELSE n
<1>4. k \in Int
  BY <1>2
<1> HIDE DEF k
<1>5. \A c \in Clog2(a) : c = NotConst \/ c = UInt(k, Word)
  BY <1>3 DEF k
<1> QED
  BY <1>4, <1>5, WordMade DEF Makes

\* $signed makes a marked number of the size of its operand.
LEMMA ToSignedMakes ==
  ASSUME NEW a, IsOperand(a), NEW typed \in BOOLEAN,
         a.type \in {"DEC", "INT"} \/ a.size >= 1
  PROVE  Makes(ToSigned(a, typed), TRUE)
<1> DEFINE v == get_uvalue(a).val
           half == 2 ^ (a.size - 1)
           res == IF v % (2 * half) < half /\ v < 2 * half THEN v
                  ELSE IF typed THEN v - 2 * half
                  ELSE IF Bit(v, a.size - 1) = 1 THEN half - v ELSE v
<1>1. v \in Int /\ a.size \in Int /\ half \in Int
  BY UnsignedValueFacts, OperandFields
<1>2. res \in Int
  <2> HIDE DEF v, half
  <2> QED
    BY <1>1
<1>3. \A c \in ToSigned(a, typed) :
        c = NotConst \/ (a.size >= 1 /\ c = [SInt(res, a.size) EXCEPT !.ts = SignedMark])
  BY DEF ToSigned
<1> HIDE DEF res
<1>4. a.size >= 1 => IsConst(SInt(res, a.size)) /\ Fits(SInt(res, a.size))
  BY <1>1, <1>2, NumberMade
<1>5. a.size >= 1 => /\ IsConst([SInt(res, a.size) EXCEPT !.ts = SignedMark])
                     /\ Fits([SInt(res, a.size) EXCEPT !.ts = SignedMark])
  BY <1>4, MarkFacts
<1> QED
  BY <1>3, <1>5 DEF Makes

\* $unsigned of a negative number is masked to its size.
LEMMA ToUnsignedMakes ==
  ASSUME NEW a, IsOperand(a)
  PROVE  Makes(ToUnsigned(a), TRUE)
<1> DEFINE u == Unsigned(get_value(a).val)
           n == u % (getMask(a.size) + 1)
<1>1. a.size \in Int /\ a.size >= -1
  BY OperandFields
<1>2. u \in Int
  BY ValueFacts, UnsignedRange
<1>3. n \in Int /\ (a.size = 0 => n = 0)
  <2> HIDE DEF u
  <2> QED
    BY <1>1, <1>2, MaskedFacts
<1>4. \A c \in ToUnsigned(a) : c = NotConst \/ c = UInt(n, a.size)
  BY DEF ToUnsigned
<1> HIDE DEF n
<1>5. IsConst(UInt(n, a.size)) /\ Fits(UInt(n, a.size))
  BY <1>1, <1>3, NumberMade
<1> QED
  BY <1>4, <1>5 DEF Makes

\* Copies of a row, one after the other.
LEMMA RepeatedFacts ==
  ASSUME NEW D, NEW text \in Seq(D), NEW n \in Nat,
         NEW row, row = [i \in 1 .. n * Len(text) |-> text[((i - 1) % Len(text)) + 1]]
  PROVE  row \in Seq(D) /\ Len(row) = n * Len(text)
<1> DEFINE l == Len(text)
           m == n * l
<1>1. l \in Nat /\ m \in Nat
  BY DEF l
<1>2. ASSUME NEW i \in 1 .. m
      PROVE  ((i - 1) % l) + 1 \in 1 .. l
  <2>1. l # 0
    <3>1. l = 0 => m = 0
      BY <1>1
    <3> HIDE DEF m, l
    <3> QED
      BY <1>1, <3>1
  <2> HIDE DEF m, l
  <2> QED
    BY <1>1, <2>1
<1>3. \A i \in 1 .. m : text[((i - 1) % l) + 1] \in D
  <2> TAKE i \in 1 .. m
  <2>1. ((i - 1) % l) + 1 \in 1 .. l
    BY <1>2
  <2> QED
    BY <2>1
<1>4. row = [i \in 1 .. m |-> text[((i - 1) % l) + 1]]
  OBVIOUS
<1> HIDE DEF m, l
<1>5. row \in Seq(D) /\ Len(row) = m
  BY <1>1, <1>3, <1>4
<1> QED
  BY <1>5 DEF m, l

\* A replication: of size 0 without copies, or of nothing.
LEMMA MultiConcatMakes ==
  ASSUME NEW a, NEW b, IsOperand(a), IsOperand(b), b.size >= 0
  PROVE  /\ Makes(MultiConcat(a, b), Fits(b))
         /\ b = NotConst => MultiConcat(a, b) = {NotConst}
<1> DEFINE v == get_value(a).val
           n == IF v > MaxRepeat THEN MaxRepeat ELSE IF v < 0 THEN 0 ELSE v
           Repeated(text) == [i \in 1 .. n * Len(text) |-> text[((i - 1) % Len(text)) + 1]]
           filled == [i \in 1 .. b.size - Len(b.text) |-> 0] \o b.text
           At1(f, i) == IF i < Word THEN i ELSE IF f THEN Word ELSE i % Word
           Set1(f, i) == \E k \in 0 .. n - 1 :
                           /\ At1(f, k * b.size) <= i
                           /\ Bit(Unsigned(get_value(b).val), i - At1(f, k * b.size)) = 1
           row(f) == [i \in 1 .. Word |-> Flag(Set1(f, Word - i))]
           copies(f) == Number(2, row(f))
           size == n * b.size
           word == IF b.size = 0 THEN Typeless ELSE [kind |-> "word", n |-> b.size]
<1>1. n \in Nat /\ b.size \in Nat /\ size \in Nat
  <2>1. v \in Int
    BY ValueFacts
  <2>2. n \in Nat
    <3> HIDE DEF v
    <3> QED
      BY <2>1, BoundsAssumption
  <2>3. b.size \in Nat
    BY OperandFields
  <2> HIDE DEF n
  <2> QED
    BY <2>2, <2>3
<1>2. word \in Typespecs /\ (word.kind = "word" => word.n > 0)
  BY <1>1 DEF Typespecs, Typeless
<1>3. size = 0 => n = 0 \/ b.size = 0
  <2> HIDE DEF n
  <2> QED
    BY <1>1
\* The three ways to make the constant, before its typespec.
<1>4. ASSUME b.type = "BIN", b # NotConst
      PROVE  LET c == Bin(Repeated(filled), size)
             IN  IsConst(c) /\ (Fits(b) => Fits(c))
  <2>1. b.text \in Seq(0 .. 1)
    BY <1>4 DEF IsOperand, IsConst, DigitsOf
  <2>2. /\ filled \in Seq(0 .. 1)
        /\ Len(filled) = (IF b.size - Len(b.text) > 0 THEN b.size - Len(b.text) ELSE 0) + Len(b.text)
    <3>1. b.size - Len(b.text) \in Int
      BY <1>1, <2>1
    <3> QED
      BY <2>1, <3>1, FilledFacts
  <2>3. Fits(b) => Len(filled) <= b.size
    <3>1. Fits(b) => Len(b.text) <= b.size
      BY <1>1, <1>4 DEF Fits
    <3>2. Len(b.text) \in Nat
      BY <2>1
    <3> HIDE DEF filled
    <3> QED
      BY <1>1, <2>2, <3>1, <3>2
  <2> DEFINE text == Repeated(filled)
  <2>4. text \in Seq(0 .. 1) /\ Len(text) = n * Len(filled)
    <3> HIDE DEF filled, n
    <3> QED
      BY <1>1, <2>2, RepeatedFacts
  <2>5. Fits(b) => Len(text) <= size
    <3> DEFINE l == Len(filled)
    <3>1. l \in Nat /\ Len(text) = n * l /\ (Fits(b) => l <= b.size)
      <4> HIDE DEF filled, n
      <4>1. l \in Nat
        BY <2>2
      <4> QED
        BY <2>3, <2>4, <4>1
    <3> HIDE DEF l, text, n
    <3>2. l <= b.size => n * l <= n * b.size
      BY <1>1, <3>1
    <3> QED
      BY <3>1, <3>2
  <2>6. text \in Seq(0 .. 1) /\ size \in Int /\ size >= -1 /\ (Fits(b) => Len(text) <= size)
    <3>1. size \in Int /\ size >= -1
      <4> HIDE DEF size
      <4> QED
        BY <1>1
    <3>2. text \in Seq(0 .. 1)
      BY <2>4, Zenon
    <3> HIDE DEF text, size
    <3> QED
      BY <3>1, <3>2, <2>5
  <2> HIDE DEF text, size
  <2>7. IsConst(Bin(text, size)) /\ (Fits(b) => Fits(Bin(text, size)))
    BY <2>6, BitsMade
  <2> QED
    BY <2>7 DEF text, size
<1>5. ASSUME b.type \in {"HEX", "OCT"}, b # NotConst
      PROVE  LET c == Const(b.type, Repeated(b.text), size)
             IN  IsConst(c) /\ (Fits(b) => Fits(c))
  <2> DEFINE text == Repeated(b.text)
             D == DigitsOf(b.type)
             c == Const(b.type, text, size)
  <2>1. b.text \in Seq(D) /\ D \subseteq Int
    <3>1. b.text \in Seq(Int) /\ \A k \in DOMAIN b.text : b.text[k] \in D
      BY <1>5 DEF IsOperand, IsConst
    <3>2. D \subseteq Int
      BY <1>5 DEF DigitsOf
    <3> HIDE DEF D
    <3> QED
      BY <3>1, <3>2
  <2>2. text \in Seq(D) /\ Len(text) = n * Len(b.text)
    <3> HIDE DEF n, D
    <3> QED
      BY <1>1, <2>1, RepeatedFacts
  <2>3. Fits(b) /\ size = 0 => text = <<>>
    <3>1. Fits(b) /\ b.size = 0 => Len(b.text) = 0
      BY <1>5 DEF Fits
    <3> DEFINE l == Len(b.text)
    <3>2. l \in Nat
      BY <2>1
    <3> HIDE DEF text, l, n, size
    <3>3. Fits(b) /\ size = 0 => n * l = 0
      BY <1>1, <1>3, <3>1, <3>2 DEF l
    <3>4. Fits(b) /\ size = 0 => Len(text) = 0
      BY <2>2, <3>3 DEF l
    <3> QED
      BY <2>2, <3>4
  <2>4. /\ c.type = b.type /\ c.text = text /\ c.size = size /\ c.ones = FALSE /\ c.ts = Typeless
        /\ c = [type |-> b.type, text |-> text, size |-> size, ones |-> FALSE, ts |-> Typeless]
    BY DEF Const
  <2>5. c \in [type : ConstTypes, text : Seq(Int), size : Int, ones : BOOLEAN, ts : Typespecs]
    <3>1. b.type \in ConstTypes /\ Typeless \in Typespecs
      BY <1>5 DEF ConstTypes, Typeless, Typespecs
    <3>2. text \in Seq(Int)
      <4> HIDE DEF text, D
      <4>0. text \in Seq(D) /\ D \subseteq Int
        BY <2>1, <2>2, Zenon
      <4>1. \A k \in 1 .. Len(text) : text[k] \in Int
        <5> TAKE k \in 1 .. Len(text)
        <5>1. text[k] \in D
          BY <4>0
        <5> QED
          BY <4>0, <5>1, Zenon
      <4>2. Len(text) \in Nat /\ text = [k \in 1 .. Len(text) |-> text[k]]
        BY <2>2
      <4> QED
        BY <4>1, <4>2
    <3> HIDE DEF text, size, c
    <3> QED
      BY <1>1, <2>4, <3>1, <3>2
  <2>6. \A k \in DOMAIN text : text[k] \in D
    <3> HIDE DEF text, D
    <3> QED
      BY <2>2
  <2>7. Typeless.kind # "word"
    BY DEF Typeless
  <2> HIDE DEF c, text, size
  <2>8. IsConst(c)
    BY <1>1, <1>5, <2>4, <2>5, <2>6, <2>7 DEF IsConst
  <2>9. Fits(b) => Fits(c)
    BY <1>5, <2>3, <2>4 DEF Fits
  <2> QED
    BY <2>8, <2>9 DEF c, text, size
<1>6. ASSUME NEW f \in BOOLEAN
      PROVE  LET c == UInt(copies(f), size)
             IN  IsConst(c) /\ (Fits(b) => Fits(c))
  <2>1. row(f) \in Seq(Int) /\ Len(row(f)) = Word
    <3>1. \A i \in 1 .. Word : Flag(Set1(f, Word - i)) \in Int
      BY FlagBit
    <3> HIDE DEF Set1
    <3> QED
      BY <3>1, WordFacts
  <2>2. copies(f) \in Int
    <3> HIDE DEF row
    <3> QED
      BY <2>1, NumberInt
  <2>3. ASSUME Fits(b), size = 0
        PROVE  copies(f) = 0
    <3>1. ASSUME NEW i \in 1 .. Word
          PROVE  ~ Set1(f, Word - i)
      <4> SUFFICES ASSUME NEW k \in 0 .. n - 1,
                          At1(f, k * b.size) <= Word - i,
                          Bit(Unsigned(get_value(b).val), (Word - i) - At1(f, k * b.size)) = 1
                   PROVE  FALSE
        BY DEF Set1
      <4>1. b.size = 0
        <5> HIDE DEF n
        <5> QED
          BY <1>1, <1>3, <2>3
      <4>2. Unsigned(get_value(b).val) = 0
        BY <2>3, <4>1, ValueFacts, WrappedInt
      <4>3. k * b.size = 0
        <5> HIDE DEF n
        <5> QED
          BY <1>1, <4>1
      <4>4. At1(f, k * b.size) = 0
        BY <4>3, WordFacts
      <4> DEFINE j == Word - i
                 p == 2 ^ j
      <4>5. j \in Nat /\ (Word - i) - 0 = j
        BY WordFacts
      <4>6. p \in Nat /\ p > 0
        <5> HIDE DEF j
        <5> QED
          BY <4>5, PowerPositive
      <4>7. (0 \div p) % 2 = 0
        <5> HIDE DEF p
        <5> QED
          BY <4>6
      <4>8. Bit(0, j) = 0
        BY <4>7 DEF Bit
      <4>9. Bit(0, (Word - i) - 0) = 1
        <5> HIDE DEF At1
        <5> QED
          BY <4>2, <4>4
      <4> HIDE DEF j
      <4> QED
        BY <4>5, <4>8, <4>9
    <3>2. \A i \in 1 .. Len(row(f)) : row(f)[i] = 0
      <4> HIDE DEF Set1
      <4> QED
        BY <2>1, <3>1 DEF Flag
    <3> HIDE DEF row
    <3> QED
      BY <2>1, <3>2, NumberInt
  <2> DEFINE m == copies(f)
  <2>4. m \in Int /\ (Fits(b) /\ size = 0 => m = 0)
    BY <2>2, <2>3
  <2> HIDE DEF m, size
  <2>5. IsConst(UInt(m, size)) /\ (Fits(b) => Fits(UInt(m, size)))
    BY <1>1, <2>4, NumberMade
  <2> QED
    BY <2>5 DEF m, size
\* The typespec keeps the width of the word.
<1>7. ASSUME NEW c, IsConst(c), c.ones = FALSE
      PROVE  IsConst([c EXCEPT !.ts = word]) /\ (Fits(c) => Fits([c EXCEPT !.ts = word]))
  <2> DEFINE d == [c EXCEPT !.ts = word]
             R == [type : ConstTypes, text : Seq(Int), size : Int, ones : BOOLEAN, ts : Typespecs]
  <2> HIDE DEF word
  <2>1. c \in R
    BY <1>7 DEF IsConst
  <2>2. /\ d \in R /\ d.type = c.type /\ d.text = c.text /\ d.size = c.size
        /\ d.ones = c.ones /\ d.ts = word
    BY <1>2, <2>1
  <2> HIDE DEF d
  <2>3. IsConst(d)
    BY <1>2, <1>7, <2>2 DEF IsConst
  <2>4. Fits(c) => Fits(d)
    BY <2>2 DEF Fits
  <2> QED
    BY <2>3, <2>4 DEF d
<1> DEFINE bin == Bin(Repeated(filled), size)
           based == Const(b.type, Repeated(b.text), size)
           refused == b.type \in {"NONE", "DEC", "INT", "UINT"} /\ ~ get_value(b).ok
           made == CASE b.type = "BIN" -> {bin}
                     [] b.type \in {"HEX", "OCT"} -> {based}
                     [] OTHER -> {UInt(copies(f), size) : f \in BOOLEAN}
<1>8. MultiConcat(a, b) = IF ~ get_value(a).ok \/ refused THEN {NotConst}
                          ELSE {[c EXCEPT !.ts = word] : c \in made}
  BY Zenon DEF MultiConcat
<1>9. b = NotConst => refused
  BY ValueFacts, NotConstFields
<1>10. ASSUME b # NotConst, NEW c \in made
       PROVE  IsConst(c) /\ c.ones = FALSE /\ (Fits(b) => Fits(c))
  <2>1. bin.ones = FALSE /\ based.ones = FALSE /\ \A m : UInt(m, size).ones = FALSE
    BY DEF Bin, Const, UInt
  <2>2. CASE b.type = "BIN"
    <3>1. c = bin
      BY <1>10, <2>2
    <3> QED
      BY <1>4, <1>10, <2>1, <2>2, <3>1
  <2>3. CASE b.type \in {"HEX", "OCT"}
    <3>1. c = based
      BY <1>10, <2>3
    <3> QED
      BY <1>5, <1>10, <2>1, <2>3, <3>1
  <2>4. CASE b.type \notin {"BIN", "HEX", "OCT"}
    <3>1. \E f \in BOOLEAN : c = UInt(copies(f), size)
      <4> HIDE DEF copies, size, bin, based
      <4> QED
        BY <1>10, <2>4
    <3> HIDE DEF copies, size
    <3> QED
      BY <1>6, <2>1, <3>1
  <2> QED
    BY <2>2, <2>3, <2>4
<1> HIDE DEF made, word, refused
<1>11. b = NotConst => MultiConcat(a, b) = {NotConst}
  BY <1>8, <1>9
<1>12. ASSUME NEW d \in MultiConcat(a, b), d # NotConst
       PROVE  IsConst(d) /\ (Fits(b) => Fits(d))
  <2>1. b # NotConst
    BY <1>11, <1>12
  <2>2. PICK c \in made : d = [c EXCEPT !.ts = word]
    BY <1>8, <1>12
  <2>3. IsConst(c) /\ c.ones = FALSE /\ (Fits(b) => Fits(c))
    BY <1>10, <2>1
  <2>4. IsConst([c EXCEPT !.ts = word]) /\ (Fits(c) => Fits([c EXCEPT !.ts = word]))
    BY <1>7, <2>3
  <2> QED
    BY <2>2, <2>3, <2>4
<1> QED
  BY <1>11, <1>12 DEF Makes

\* The bits of an operand of a concatenation are at most those of its size.
LEMMA OperandBitsFacts ==
  ASSUME NEW c, IsConst(c), c.size >= 0, NEW reordered
  PROVE  /\ OperandBits(c, reordered) \in Seq(0 .. 1)
         /\ Fits(c) => Len(OperandBits(c, reordered)) <= c.size
<1> DEFINE Turned(bits) == IF reordered THEN Reverse(bits) ELSE bits
           Filled(bits) == [i \in 1 .. c.size - Len(bits) |-> 0] \o Turned(bits)
           Cut(bits) == IF c.size < 0 THEN <<>>
                        ELSE IF c.size < Len(bits)
                        THEN SubSeq(bits, Len(bits) - c.size + 1, Len(bits)) ELSE bits
           Num(p) == Turned(toBinary(c.size, Unsigned(p.val)))
<1>0. /\ c.type \in ConstTypes /\ c.text \in Seq(Int) /\ c.size \in Nat
      /\ c.type \in {"DEC", "INT", "UINT"} => c.text[1] \in Int
  BY ConstFields
<1>1. ASSUME NEW bits \in Seq(0 .. 1)
      PROVE  Turned(bits) \in Seq(0 .. 1) /\ Len(Turned(bits)) = Len(bits)
  BY ReverseFacts
<1>2. ASSUME NEW bits \in Seq(0 .. 1)
      PROVE  /\ Filled(bits) \in Seq(0 .. 1)
             /\ Len(bits) <= c.size => Len(Filled(bits)) <= c.size
  <2> DEFINE k == c.size - Len(bits)
             t == Turned(bits)
  <2>1. k \in Int /\ Len(bits) \in Nat /\ t \in Seq(0 .. 1) /\ Len(t) = Len(bits)
    BY <1>0, <1>1
  <2>2. /\ Filled(bits) \in Seq(0 .. 1)
        /\ Len(Filled(bits)) = (IF k > 0 THEN k ELSE 0) + Len(t)
    <3> HIDE DEF k, t
    <3>1. /\ [i \in 1 .. k |-> 0] \o t \in Seq(0 .. 1)
          /\ Len([i \in 1 .. k |-> 0] \o t) = (IF k > 0 THEN k ELSE 0) + Len(t)
      BY <2>1, FilledFacts
    <3> QED
      BY <3>1 DEF k, t
  <2> HIDE DEF Filled, t
  <2> QED
    BY <1>0, <2>1, <2>2
<1>3. ASSUME NEW bits \in Seq(0 .. 1)
      PROVE  Cut(bits) \in Seq(0 .. 1) /\ Len(Cut(bits)) <= c.size
  BY <1>0
<1>4. ASSUME NEW p, p.val \in Int
      PROVE  /\ Num(p) \in Seq(0 .. 1)
             /\ (c.size = 0 => p.val = 0) => Len(Num(p)) <= c.size
  <2> DEFINE u == Unsigned(p.val)
             t == toBinary(c.size, u)
  <2>1. u \in 0 .. (2 ^ Word) - 1 /\ (p.val = 0 => u = 0)
    BY <1>4, UnsignedRange, WrappedInt
  <2>2. /\ t \in Seq(0 .. 1) /\ (c.size > 0 => Len(t) = c.size)
        /\ c.size <= 0 /\ u = 0 => Len(t) = 0
    <3>1. c.size \in Int
      BY <1>0
    <3> HIDE DEF u
    <3> QED
      BY <2>1, <3>1, ToBinaryFacts
  <2>3. Turned(t) \in Seq(0 .. 1) /\ Len(Turned(t)) = Len(t)
    <3> HIDE DEF t, Turned
    <3> QED
      BY <1>1, <2>2
  <2> HIDE DEF t, u, Turned
  <2>4. (c.size = 0 => p.val = 0) => Len(t) <= c.size
    BY <1>0, <2>1, <2>2
  <2>5. Num(p) = Turned(t)
    BY DEF t, u
  <2> HIDE DEF Num
  <2> QED
    BY <2>3, <2>4, <2>5
<1>5. CASE c.type = "BIN"
  <2>1. c.text \in Seq(0 .. 1)
    BY <1>0, <1>5 DEF IsConst, DigitsOf
  <2>2. OperandBits(c, reordered) = Filled(c.text)
    BY <1>5 DEF OperandBits
  <2>3. Fits(c) => Len(c.text) <= c.size
    BY <1>0, <1>5 DEF Fits
  <2> HIDE DEF Filled
  <2> QED
    BY <1>2, <2>1, <2>2, <2>3
<1>6. CASE c.type = "HEX"
  <2> DEFINE h == hexToBin(c.text)
  <2>1. h \in Seq(0 .. 1)
    BY <1>0, HexToBinFacts
  <2>2. OperandBits(c, reordered) = Filled(Cut(h))
    BY <1>6 DEF OperandBits
  <2> HIDE DEF h, Filled, Cut
  <2> QED
    BY <1>2, <1>3, <2>1, <2>2
<1>7. CASE c.type = "OCT"
  <2> DEFINE p == parseDigits(8, c.text)
  <2>1. p \in [ok : BOOLEAN, val : Int] /\ (c.text = <<>> => p.val = 0)
    BY <1>0, ParseDigitsFacts
  <2>2. OperandBits(c, reordered) = Num(p)
    BY <1>7 DEF OperandBits
  <2>3. Fits(c) /\ c.size = 0 => c.text = <<>>
    BY <1>7 DEF Fits
  <2> HIDE DEF p, Num
  <2>4. p.val \in Int
    BY <2>1
  <2> QED
    BY <1>4, <2>1, <2>2, <2>3, <2>4
<1>8. CASE c.type \in {"DEC", "INT", "UINT"}
  <2> DEFINE p == IF c.type = "UINT" THEN parseUint64(c.text[1]) ELSE parseInt64(c.text[1])
  <2>1. p.val \in Int /\ (c.text[1] = 0 => p.val = 0)
    <3>1. c.text[1] \in Int
      BY <1>0, <1>8
    <3> DEFINE n == c.text[1]
    <3>2. parseUint64(n) \in [ok : BOOLEAN, val : Int] /\ (n = 0 => parseUint64(n).val = 0)
      <4>1. parseUint64(n) \in [ok : BOOLEAN, val : Int]
        <5>1. parseUint64(n) \in [ok : BOOLEAN, val : Nat]
          BY <3>1, ParserFacts
        <5> HIDE DEF n
        <5> QED
          BY <5>1
      <4>2. n = 0 => parseUint64(n).val = 0
        BY <3>1, ParserFacts
      <4> QED
        BY <4>1, <4>2
    <3>3. parseInt64(n) \in [ok : BOOLEAN, val : Int] /\ (n = 0 => parseInt64(n).val = 0)
      <4>1. parseInt64(n) \in [ok : BOOLEAN, val : Int]
        BY <3>1, ParserFacts
      <4>2. n = 0 => parseInt64(n).val = 0
        BY <3>1, ParserFacts
      <4> QED
        BY <4>1, <4>2
    <3>4. p = parseUint64(n) \/ p = parseInt64(n)
      OBVIOUS
    <3> HIDE DEF p, n
    <3>5. p.val \in Int /\ (n = 0 => p.val = 0)
      BY <3>2, <3>3, <3>4
    <3> QED
      BY <3>5 DEF n
  <2>2. OperandBits(c, reordered) = Num(p)
    BY <1>8 DEF OperandBits
  <2>3. Fits(c) /\ c.size = 0 => c.text[1] = 0
    BY <1>8 DEF Fits
  <2> HIDE DEF p, Num
  <2> QED
    BY <1>4, <2>1, <2>2, <2>3
<1> QED
  BY <1>0, <1>5, <1>6, <1>7, <1>8 DEF ConstTypes

\* A concatenation of constants that have a size.
LEMMA ConcatMakes ==
  ASSUME NEW a, NEW b, IsOperand(a), IsOperand(b), a.size >= 0, b.size >= 0,
         NEW reordered \in BOOLEAN
  PROVE  Makes(Concat(a, b, reordered), Fits(a) /\ Fits(b))
<1> DEFINE x == OperandBits(a, reordered)
           y == OperandBits(b, reordered)
           bits == x \o y
           turned == IF reordered THEN Reverse(bits) ELSE bits
           size == a.size + b.size
<1>1. Concat(a, b, reordered) = {NotConst} \/
      (a # NotConst /\ b # NotConst /\ Concat(a, b, reordered) = {Bin(turned, size)})
  BY NotConstFields DEF Concat
<1>2. ASSUME a # NotConst, b # NotConst
      PROVE  IsConst(Bin(turned, size)) /\ (Fits(a) /\ Fits(b) => Fits(Bin(turned, size)))
  <2>1. /\ x \in Seq(0 .. 1) /\ y \in Seq(0 .. 1)
        /\ Fits(a) => Len(x) <= a.size
        /\ Fits(b) => Len(y) <= b.size
    BY <1>2, OperandBitsFacts DEF IsOperand
  <2>2. a.size \in Nat /\ b.size \in Nat
    BY OperandFields
  <2> HIDE DEF x, y
  <2>3. bits \in Seq(0 .. 1) /\ Len(bits) = Len(x) + Len(y)
    BY <2>1
  <2> HIDE DEF bits
  <2>4. turned \in Seq(0 .. 1) /\ Len(turned) = Len(bits)
    BY <2>3, ReverseFacts
  <2>5. Len(x) \in Nat /\ Len(y) \in Nat
    BY <2>1
  <2> HIDE DEF turned
  <2>6. size \in Int /\ size >= -1 /\ (Fits(a) /\ Fits(b) => Len(turned) <= size)
    BY <2>1, <2>2, <2>3, <2>4, <2>5
  <2> HIDE DEF size
  <2> QED
    BY <2>4, <2>6, BitsMade
<1> HIDE DEF turned, size
<1> QED
  BY <1>1, <1>2 DEF Makes

\* A bit of a vector, or a word of a replication: at most as many bits as the
\* word has.
LEMMA BitSelectMakes ==
  ASSUME NEW a, NEW b, IsOperand(a), IsOperand(b)
  PROVE  Makes(BitSelect(a, b), TRUE)
<1> DEFINE bits == toBits(a)
           ws == getWordSize(a)
           v == get_value(b).val
           index == v % (2 ^ Half)
           up == a.ts.kind = "up" /\ a.ts.n > 1
           from == IF up THEN index ELSE (Len(bits) - (index + 1) * ws) % (2 ^ Half)
           at(i) == (from + i) % (2 ^ Half)
           Up(g) == [i \in 0 .. ws |->
                       IF i = 0 THEN <<>>
                       ELSE IF at(i - 1) < Len(bits) THEN Append(g[i - 1], bits[at(i - 1) + 1])
                       ELSE g[i - 1]]
           taken == CHOOSE g : g = Up(g)
<1>1. BitSelect(a, b) =
        IF a.type = "NONE" \/ ~ get_value(b).ok THEN {NotConst}
        ELSE {Bin(IF index < Len(bits) THEN taken[ws] ELSE <<0>>, ws)}
  BY Zenon DEF BitSelect
<1>2. ASSUME IsConst(a)
      PROVE  LET c == Bin(IF index < Len(bits) THEN taken[ws] ELSE <<0>>, ws)
             IN  IsConst(c) /\ Fits(c)
  <2>1. bits \in Seq(0 .. 1)
    BY <1>2, ToBitsFacts
  <2>2. ws \in Nat /\ ws >= 1
    BY <1>2 DEF getWordSize, IsConst, Typespecs
  <2>3. index \in Int /\ from \in Int /\ \A i \in Int : at(i) \in Nat
    <3> DEFINE p == 2 ^ Half
    <3>1. p \in Nat /\ p > 0 /\ v \in Int
      BY WordFacts, PowerPositive, ValueFacts
    <3>2. index \in Int
      <4> HIDE DEF p, v
      <4>1. v % p \in Int
        BY <3>1
      <4> QED
        BY <4>1 DEF p
    <3>3. from \in Int
      <4> DEFINE d == Len(bits) - (index + 1) * ws
      <4>1. d \in Int
        <5> HIDE DEF index, ws, bits
        <5> QED
          BY <2>1, <2>2, <3>2
      <4>2. d % p \in Int
        <5> HIDE DEF d, p
        <5> QED
          BY <3>1, <4>1
      <4> HIDE DEF index
      <4> QED
        BY <3>2, <4>2
    <3>4. ASSUME NEW i \in Int
          PROVE  at(i) \in Nat
      <4> HIDE DEF from, p
      <4>1. (from + i) % p \in Nat
        BY <3>1, <3>3
      <4> QED
        BY <4>1 DEF p
    <3> QED
      BY <3>2, <3>3, <3>4
  <2> DEFINE S == Seq(0 .. 1)
             Grown(i, s) == IF at(i - 1) < Len(bits) THEN Append(s, bits[at(i - 1) + 1]) ELSE s
             Step == [i \in Nat |-> [s \in S |-> Grown(i, s)]]
  <2>4. ASSUME NEW i \in Nat, NEW s \in S
        PROVE  Grown(i, s) \in S /\ Len(Grown(i, s)) <= Len(s) + 1
    <3> DEFINE k == at(i - 1)
    <3>1. k \in Nat
      <4>1. i - 1 \in Int
        OBVIOUS
      <4> HIDE DEF at
      <4> QED
        BY <2>3, <4>1
    <3> HIDE DEF k, bits
    <3>2. k < Len(bits) => bits[k + 1] \in 0 .. 1
      BY <2>1, <3>1
    <3>3. Grown(i, s) = IF k < Len(bits) THEN Append(s, bits[k + 1]) ELSE s
      BY DEF k
    <3> HIDE DEF Grown
    <3> QED
      BY <3>2, <3>3
  <2>5. \A i \in Nat, s \in S : Step[i][s] = Grown(i, s)
    <3> HIDE DEF Grown, S
    <3> QED
      OBVIOUS
  <2>6. Stays(S, Step) /\ <<>> \in S
    <3>1. <<>> \in S
      OBVIOUS
    <3> HIDE DEF Grown, S, Step
    <3> QED
      BY <2>4, <2>5, <3>1 DEF Stays
  <2>7. PICK f : f \in [0 .. ws -> S] /\ f[0] = <<>> /\ \A i \in 1 .. ws : f[i] = Step[i][f[i - 1]]
    <3> HIDE DEF Step, S, ws
    <3>1. \E f : Counted(f, ws, S, <<>>, Step)
      BY <2>2, <2>6, CountedFunction, Zenon
    <3> QED
      BY <3>1 DEF Counted
  <2>8. f = Up(f)
    <3> HIDE DEF Grown, S, Step, ws
    <3>1. ASSUME NEW i \in 1 .. ws
          PROVE  f[i] = Grown(i, f[i - 1])
      <4>1. i - 1 \in 0 .. ws /\ i \in Nat
        BY <2>2
      <4>2. f[i - 1] \in S
        BY <2>7, <4>1
      <4>3. f[i] = Step[i][f[i - 1]]
        BY <2>7
      <4> QED
        BY <2>5, <4>1, <4>2, <4>3
    <3>2. \A i \in 0 .. ws : f[i] = IF i = 0 THEN <<>> ELSE Grown(i, f[i - 1])
      BY <2>2, <2>7, <3>1
    <3>3. f = [i \in 0 .. ws |-> f[i]]
      BY <2>7
    <3>4. f = [i \in 0 .. ws |-> IF i = 0 THEN <<>> ELSE Grown(i, f[i - 1])]
      BY <3>2, <3>3
    <3> QED
      BY <3>4, Zenon DEF Grown
  <2>9. taken = Up(taken)
    <3> HIDE DEF Up
    <3> QED
      BY <2>8
  <2>10. taken[0] = <<>> /\ \A i \in 1 .. ws : taken[i] = Grown(i, taken[i - 1])
    <3>1. taken = [i \in 0 .. ws |-> IF i = 0 THEN <<>> ELSE Grown(i, taken[i - 1])]
      <4> HIDE DEF taken
      <4> QED
        BY <2>9, Zenon DEF Grown
    <3> HIDE DEF taken, Grown, ws
    <3> QED
      BY <2>2, <3>1
  <2> DEFINE T == {i \in Nat : i <= ws => taken[i] \in S /\ Len(taken[i]) <= i}
  <2>11. 0 \in T
    <3>1. <<>> \in S /\ Len(<<>>) = 0
      OBVIOUS
    <3>2. taken[0] \in S /\ Len(taken[0]) = 0
      <4> HIDE DEF taken, S
      <4> QED
        BY <2>10, <3>1
    <3> HIDE DEF taken, S, ws
    <3> QED
      BY <3>2
  <2>12. ASSUME NEW i \in Nat, i \in T
         PROVE  i + 1 \in T
    <3> DEFINE j == i + 1
    <3> HIDE DEF taken, ws, Grown
    <3>1. j \in Nat /\ j - 1 = i /\ i <= j
          /\ (j <= ws => j \in 1 .. ws /\ taken[i] \in S /\ Len(taken[i]) <= i)
      BY <2>12, <2>2
    <3>2. j <= ws => taken[j] = Grown(j, taken[i])
      <4> HIDE DEF j
      <4> QED
        BY <2>10, <3>1
    <3>3. j <= ws => taken[j] \in S /\ Len(taken[j]) <= Len(taken[i]) + 1
      <4> HIDE DEF j, S
      <4> QED
        BY <2>4, <3>1, <3>2
    <3>4. j <= ws => Len(taken[j]) \in Nat /\ Len(taken[i]) \in Nat
      BY <3>1, <3>3
    <3>5. j <= ws => Len(taken[j]) <= j
      BY <3>1, <3>3, <3>4
    <3> HIDE DEF j, S
    <3>6. j \in T
      BY <3>1, <3>3, <3>5
    <3> QED
      BY <3>6 DEF j
  <2>13. taken[ws] \in S /\ Len(taken[ws]) <= ws
    <3>1. ws \in T
      <4> HIDE DEF T, ws
      <4> QED
        BY <2>2, <2>11, <2>12, FromZero
    <3> HIDE DEF ws, taken, S
    <3> QED
      BY <2>2, <3>1
  <2> DEFINE text == IF index < Len(bits) THEN taken[ws] ELSE <<0>>
  <2>14. text \in Seq(0 .. 1) /\ Len(text) <= ws
    <3>1. <<0>> \in Seq(0 .. 1) /\ Len(<<0>>) = 1
      OBVIOUS
    <3> HIDE DEF taken, ws, index, bits
    <3> QED
      BY <2>2, <2>13, <3>1
  <2> HIDE DEF text, ws
  <2>15. IsConst(Bin(text, ws)) /\ Fits(Bin(text, ws))
    BY <2>2, <2>14, BitsMade
  <2> QED
    BY <2>15 DEF text
<1>3. a.type # "NONE" => IsConst(a)
  BY NotConstFields DEF IsOperand
<1> HIDE DEF bits, ws, index, taken
<1> QED
  BY <1>1, <1>2, <1>3 DEF Makes

\* A part of a vector, as substr takes it, has the digits its size announces.
LEMMA TakenMakes ==
  ASSUME NEW a, IsConst(a), NEW from \in Int, NEW width \in Nat
  PROVE  Makes(Taken(a, from, width), TRUE)
<1> DEFINE bits == Reverse(toBits(a))
           end == IF from + width > Len(bits) THEN Len(bits) ELSE from + width
           part == SubSeq(bits, from + 1, end)
<1>1. bits \in Seq(0 .. 1)
  BY ToBitsFacts, ReverseFacts
<1>2. Taken(a, from, width) = IF from \notin 0 .. Len(bits) THEN {}
                              ELSE {Bin(Reverse(part), end - from)}
  BY DEF Taken
<1>3. ASSUME from \in 0 .. Len(bits)
      PROVE  IsConst(Bin(Reverse(part), end - from)) /\ Fits(Bin(Reverse(part), end - from))
  <2> HIDE DEF bits
  <2>1. Len(bits) \in Nat
    BY <1>1
  <2>2. end \in Nat /\ from <= end /\ end <= Len(bits)
    BY <1>3, <2>1
  <2> HIDE DEF end
  <2>3. part \in Seq(0 .. 1) /\ Len(part) = end - from
    BY <1>1, <1>3, <2>1, <2>2
  <2> HIDE DEF part
  <2>4. Reverse(part) \in Seq(0 .. 1) /\ Len(Reverse(part)) = end - from
    BY <2>3, ReverseFacts
  <2> DEFINE size == end - from
             row == Reverse(part)
  <2>5. size \in Nat
    BY <1>3, <2>2
  <2>6. row \in Seq(0 .. 1) /\ Len(row) = size
    BY <2>4
  <2> HIDE DEF size, row
  <2>7. IsConst(Bin(row, size)) /\ Fits(Bin(row, size))
    BY <2>5, <2>6, BitsMade
  <2> QED
    BY <2>7 DEF size, row
<1> HIDE DEF part, end, bits
<1> QED
  BY <1>2, <1>3 DEF Makes

\* A part select.
LEMMA PartSelectMakes ==
  ASSUME NEW a, IsOperand(a), NEW l \in Nat, NEW r \in Nat
  PROVE  Makes(PartSelect(a, l, r), TRUE)
<1> DEFINE outside == r > Len(toBits(a)) \/ l > Len(toBits(a))
<1>1. CASE a.type = "NONE"
  BY <1>1 DEF PartSelect, Makes
<1>2. CASE a.type # "NONE" /\ outside
  <2>1. IsConst(Bin(<<0>>, 1)) /\ Fits(Bin(<<0>>, 1))
    BY BitMade
  <2> QED
    BY <1>2, <2>1 DEF PartSelect, Makes
<1>3. CASE a.type # "NONE" /\ ~ outside
  <2>1. IsConst(a)
    BY <1>3, NotConstFields DEF IsOperand
  <2>2. l > r => Makes(Taken(a, r, l - r + 1), TRUE)
    <3> SUFFICES ASSUME l > r PROVE Makes(Taken(a, r, l - r + 1), TRUE)
      OBVIOUS
    <3>1. r \in Int /\ l - r + 1 \in Nat
      OBVIOUS
    <3> QED
      BY <2>1, <3>1, TakenMakes
  <2>3. ~(l > r) => Makes(Taken(a, l, r - l + 1), TRUE)
    <3> SUFFICES ASSUME ~(l > r) PROVE Makes(Taken(a, l, r - l + 1), TRUE)
      OBVIOUS
    <3>1. l \in Int /\ r - l + 1 \in Nat
      OBVIOUS
    <3> QED
      BY <2>1, <3>1, TakenMakes
  <2> QED
    BY <1>3, <2>2, <2>3 DEF PartSelect
<1> QED
  BY <1>1, <1>2, <1>3

\* An indexed part select.
LEMMA IndexedSelectMakes ==
  ASSUME NEW a, IsOperand(a), NEW up \in BOOLEAN, NEW base \in Nat, NEW width \in Nat
  PROVE  Makes(IndexedSelect(a, up, base, width), TRUE)
<1> DEFINE within == IF up THEN (base + width) % (2 ^ Half) <= Len(toBits(a))
                     ELSE base % (2 ^ Half) < Len(toBits(a))
           from == IF up THEN base ELSE base - width
<1>1. IndexedSelect(a, up, base, width) =
        IF a.type = "NONE" THEN {NotConst}
        ELSE IF ~ within THEN {Bin(<<>>, 0)}
        ELSE Taken(a, from, width)
  BY DEF IndexedSelect
<1>2. IsConst(Bin(<<>>, 0)) /\ Fits(Bin(<<>>, 0))
  <2> DEFINE none == <<>>
             zero == 0
  <2>1. none \in Seq(0 .. 1) /\ zero \in Int /\ zero >= -1 /\ Len(none) <= zero
    OBVIOUS
  <2> HIDE DEF none, zero
  <2>2. IsConst(Bin(none, zero)) /\ Fits(Bin(none, zero))
    BY <2>1, BitsMade
  <2> QED
    BY <2>2 DEF none, zero
<1>3. a.type # "NONE" => Makes(Taken(a, from, width), TRUE)
  <2>1. from \in Int
    OBVIOUS
  <2>2. a.type # "NONE" => IsConst(a)
    BY NotConstFields DEF IsOperand
  <2> HIDE DEF from
  <2> QED
    BY <2>1, <2>2, TakenMakes
<1> HIDE DEF within, from
<1>4. CASE a.type = "NONE"
  BY <1>1, <1>4 DEF Makes
<1>5. CASE a.type # "NONE" /\ ~ within
  BY <1>1, <1>2, <1>5 DEF Makes
<1>6. CASE a.type # "NONE" /\ within
  BY <1>1, <1>3, <1>6
<1> QED
  BY <1>4, <1>5, <1>6

(***************************************************************************)
(* What an operator does to the state: the operands it changes, and the    *)
(* constant it makes.                                                      *)
(***************************************************************************)
\* What happens to a constant that an operator was handed: it keeps its kind
\* and its size, and its number unless it was the fill literal '1.
Kept(before, after) ==
  /\ IsOperand(after) /\ (before = NotConst => after = NotConst)
  /\ IsConst(before) => IsConst(after)
  /\ after.size = before.size
  /\ before.type \in {"DEC", "INT"} => after.type \in {"DEC", "INT"}
  /\ Fits(before) => Fits(after)
  /\ get_value(after) # get_value(before) =>
       /\ before.ones /\ ~ after.ones
       /\ \E s \in 2 .. Word : after.text = <<2 ^ s - 1>>

\* An operator, with the operands it may be given.
Given(op, par, n, a) ==
  /\ \/ n = 1 /\ op \in UnaryOps /\ par \in Parameters[op]
     \/ n = 2 /\ op \in BinaryOps
     \/ n = 3 /\ op \in TernaryOps
  /\ \A i \in 1 .. n : IsOperand(a[i])
  /\ op \in {"Concat", "Reordered"} => a[1].size >= 0 /\ a[2].size >= 0
  /\ op = "MultiConcat" => a[2].size >= 0
  /\ op \in {"Signed", "SignedTyped"} => a[1].type \in {"DEC", "INT"} \/ a[1].size >= 1

\* The operands have no more digits than their sizes, and are not the two
\* numbers whose sum has.
AllFit(op, n, a) ==
  /\ \A i \in 1 .. n : a[i] # NotConst => Fits(a[i])
  /\ op = "Add" => {a[1].size, a[2].size} # {-1, 0}

\* What is not changed is kept.
LEMMA KeptAsIs ==
  ASSUME NEW c, IsOperand(c)
  PROVE  Kept(c, c)
BY DEF Kept

\* A resized operand is kept.
LEMMA KeptResized ==
  ASSUME NEW c, IsOperand(c), NEW size \in Int, size >= 1
  PROVE  Kept(c, resize(c, size))
<1> DEFINE d == resize(c, size)
<1>1. /\ IsOperand(d) /\ (IsConst(c) => IsConst(d)) /\ d.size = c.size
      /\ (Fits(c) => Fits(d))
      /\ (d # c => IsConst(c) /\ c.type = "BIN")
  BY ResizeFacts
<1>2. get_value(d) # get_value(c) =>
        c.ones /\ ~ d.ones /\ \E s \in 2 .. Word : d.text = <<(2 ^ s) - 1>>
  BY ResizeValue
<1>3. c = NotConst => d = NotConst
  BY <1>1, NotConstFields
<1>4. c.type \in {"DEC", "INT"} => d.type \in {"DEC", "INT"}
  <2> HIDE DEF d
  <2> QED
    BY <1>1
<1> HIDE DEF d
<1>5. Kept(c, d)
  BY <1>1, <1>2, <1>3, <1>4, Zenon DEF Kept
<1> QED
  BY <1>5 DEF d

\* A marked number is kept.
LEMMA KeptMarked ==
  ASSUME NEW c, IsConst(c), c.type \in {"DEC", "INT"}
  PROVE  Kept(c, [c EXCEPT !.ts = SignedMark])
<1> DEFINE d == [c EXCEPT !.ts = SignedMark]
<1>1. /\ IsConst(d) /\ d.size = c.size /\ (Fits(c) => Fits(d)) /\ get_value(d) = get_value(c)
  BY MarkFacts
<1>2. d.type = c.type
  BY DEF IsConst
<1>3. c # NotConst
  BY NotConstFields
<1> HIDE DEF d
<1>4. Kept(c, d)
  BY <1>1, <1>2, <1>3 DEF Kept, IsOperand
<1> QED
  BY <1>4 DEF d

\* The operators of one operand, of two and of three.
LEMMA ArityFacts ==
  ASSUME NEW op
  PROVE  /\ op \in Relations \/ op \in {"Add", "Concat", "Reordered", "MultiConcat"} =>
              op \notin UnaryOps /\ op \notin TernaryOps
         /\ op \in {"SizeCast", "Signed", "SignedTyped"} =>
              op \notin BinaryOps /\ op \notin TernaryOps
         /\ op = "SizeCast" /\ op \in UnaryOps => \A par \in Parameters[op] : par \in Nat \ {0}
         /\ op = "Cast" /\ op \in UnaryOps =>
              \A par \in Parameters[op] : par \in {"int", "long_int", "enum", "bit", "short_int"}
         /\ op \in {"PartSelect", "PosIndexed", "NegIndexed"} /\ op \in UnaryOps =>
              \A par \in Parameters[op] : par \in Nat \X Nat
BY OperatorsAssumption DEF Relations

\* What an operator does to its operands keeps them.
LEMMA ChangedFacts ==
  ASSUME NEW op, NEW par, NEW n \in 1 .. 3, NEW a, Given(op, par, n, a),
         a = [i \in 1 .. n |-> a[i]]
  PROVE  \A i \in 1 .. n : Kept(a[i], Changed(op, par, a)[i])
<1>1. \A i \in 1 .. n : IsOperand(a[i]) /\ Kept(a[i], a[i])
  BY KeptAsIs DEF Given
<1>2. CASE op \in Relations
  <2>1. n = 2
    BY <1>2, ArityFacts DEF Given
  <2>2. 1 \in 1 .. n /\ 2 \in 1 .. n
    BY <2>1
  <2>3. Changed(op, par, a) =
          IF a[1].size = -1 /\ a[2].size > 1
          THEN [a EXCEPT ![1] = resize(a[1], a[2].size)]
          ELSE IF a[2].size = -1 /\ a[1].size > 1
          THEN [a EXCEPT ![2] = resize(a[2], a[1].size)]
          ELSE a
    BY <1>2 DEF Changed, Relations
  <2>4. a[1].size \in Int /\ a[2].size \in Int
    BY <1>1, <2>2, OperandFields
  <2>5. a[2].size > 1 => Kept(a[1], resize(a[1], a[2].size))
    <3> DEFINE size == a[2].size
    <3>1. size > 1 => size \in Int /\ size >= 1
      BY <2>4
    <3> HIDE DEF size
    <3>2. size > 1 => Kept(a[1], resize(a[1], size))
      BY <1>1, <2>2, <3>1, KeptResized
    <3> QED
      BY <3>2 DEF size
  <2>6. a[1].size > 1 => Kept(a[2], resize(a[2], a[1].size))
    <3> DEFINE size == a[1].size
    <3>1. size > 1 => size \in Int /\ size >= 1
      BY <2>4
    <3> HIDE DEF size
    <3>2. size > 1 => Kept(a[2], resize(a[2], size))
      BY <1>1, <2>2, <3>1, KeptResized
    <3> QED
      BY <3>2 DEF size
  <2> DEFINE x == resize(a[1], a[2].size)
             y == resize(a[2], a[1].size)
  <2>7. \/ Changed(op, par, a) = [a EXCEPT ![1] = x] /\ Kept(a[1], x)
        \/ Changed(op, par, a) = [a EXCEPT ![2] = y] /\ Kept(a[2], y)
        \/ Changed(op, par, a) = a
    BY <2>3, <2>5, <2>6
  <2> HIDE DEF x, y
  <2> SUFFICES ASSUME NEW i \in 1 .. n
               PROVE  Kept(a[i], Changed(op, par, a)[i])
    OBVIOUS
  <2>8. \A z, k : [a EXCEPT ![k] = z][i] = IF i = k THEN z ELSE a[i]
    OBVIOUS
  <2> QED
    BY <1>1, <2>7, <2>8
<1>3. CASE op = "SizeCast"
  <2>1. n = 1 /\ par \in Nat \ {0}
    BY <1>3, ArityFacts DEF Given
  <2>2. Changed(op, par, a) = IF get_value(a[1]).ok THEN <<resize(a[1], par)>> ELSE a
    BY <1>3, Zenon DEF Changed, Relations
  <2>3. Kept(a[1], resize(a[1], par))
    BY <1>1, <2>1, KeptResized
  <2> DEFINE x == resize(a[1], par)
  <2>4. Changed(op, par, a) = <<x>> \/ Changed(op, par, a) = a
    BY <2>2
  <2> HIDE DEF x
  <2> SUFFICES ASSUME NEW i \in 1 .. n
               PROVE  Kept(a[i], Changed(op, par, a)[i])
    OBVIOUS
  <2>5. i = 1 /\ <<x>>[1] = x
    BY <2>1
  <2> QED
    BY <1>1, <2>3, <2>4, <2>5 DEF x
<1>4. CASE op \in {"Signed", "SignedTyped"}
  <2>1. n = 1
    BY <1>4, ArityFacts DEF Given
  <2> DEFINE x == [a[1] EXCEPT !.ts = SignedMark]
  <2>2. Changed(op, par, a) = IF a[1].type \in {"DEC", "INT"} /\ a[1].ts = Typeless
                              THEN <<x>> ELSE a
    BY <1>4, Zenon DEF Changed, Relations
  <2>3. a[1].type \in {"DEC", "INT"} => Kept(a[1], x)
    <3>1. a[1].type \in {"DEC", "INT"} => IsConst(a[1])
      BY <1>1, <2>1, NotConstFields DEF IsOperand
    <3> QED
      BY <3>1, KeptMarked
  <2> HIDE DEF x
  <2> SUFFICES ASSUME NEW i \in 1 .. n
               PROVE  Kept(a[i], Changed(op, par, a)[i])
    OBVIOUS
  <2>4. i = 1 /\ <<x>>[1] = x
    BY <2>1
  <2> QED
    BY <1>1, <2>2, <2>3, <2>4
<1>5. CASE op \notin Relations /\ op \notin {"SizeCast", "Signed", "SignedTyped"}
  <2>1. Changed(op, par, a) = a
    BY <1>5, Zenon DEF Changed
  <2> QED
    BY <1>1, <2>1
<1> QED
  BY <1>2, <1>3, <1>4, <1>5

\* Whatever an operator makes of the operands it may be given is a constant,
\* with no more digits than its size if the operands have no more.
LEMMA MadeFacts ==
  ASSUME NEW op, NEW par, NEW n \in 1 .. 3, NEW a, Given(op, par, n, a)
  PROVE  Makes(Made(op, par, a), AllFit(op, n, a))
<1> DEFINE fit == AllFit(op, n, a)
<1>1. \A i \in 1 .. n : IsOperand(a[i])
  BY DEF Given
<1>2. \A S : Makes(S, TRUE) => Makes(S, fit)
  BY DEF Makes
<1>3. Makes({NotConst}, TRUE)
  BY DEF Makes
<1>4. \A i \in 1 .. n : fit /\ a[i] # NotConst => Fits(a[i])
  BY DEF AllFit
<1>5. CASE n = 1 /\ op \in UnaryOps /\ par \in Parameters[op]
  <2>1. IsOperand(a[1])
    BY <1>1, <1>5
  <2>2. op \in {"Minus", "BitNeg", "Not", "UnaryAnd", "UnaryNand", "UnaryOr", "UnaryNor",
                "UnaryXor", "UnaryXNor", "Cast", "SizeCast", "Clog2", "Signed",
                "SignedTyped", "Unsigned", "PartSelect", "PosIndexed", "NegIndexed"}
    BY <1>5, OperatorsAssumption
  <2>3. CASE op = "Minus"
    <3>1. Makes(Minus(a[1]), Fits(a[1]))
      BY <2>1, MinusMakes
    <3>2. a[1] = NotConst => Minus(a[1]) = {NotConst}
      BY ValueFacts, <2>1 DEF Minus, OnWords
    <3>3. Makes(Minus(a[1]), fit)
      <4> HIDE DEF fit
      <4> QED
        BY <1>2, <1>3, <1>4, <1>5, <3>1, <3>2 DEF Makes
    <3> QED
      BY <2>3, <3>3 DEF Made, Relations
  <2>4. CASE op \in {"BitNeg", "Not", "UnaryAnd", "UnaryNand", "UnaryOr", "UnaryNor",
                     "UnaryXor", "UnaryXNor", "Clog2", "Unsigned"}
    <3> HIDE DEF fit
    <3>1. /\ Makes(BitNeg(a[1]), TRUE) /\ Makes(Not(a[1]), TRUE)
          /\ Makes(Clog2(a[1]), TRUE) /\ Makes(ToUnsigned(a[1]), TRUE)
      BY <2>1, BitNegMakes, WordsMake, Clog2Makes, ToUnsignedMakes
    <3>2. /\ Makes(UnaryAnd(a[1]), TRUE) /\ Makes(UnaryNand(a[1]), TRUE)
          /\ Makes(UnaryOr(a[1]), TRUE) /\ Makes(UnaryNor(a[1]), TRUE)
          /\ Makes(UnaryXor(a[1]), TRUE) /\ Makes(UnaryXNor(a[1]), TRUE)
      BY ReductionsMake
    <3>3. Makes(Made(op, par, a), TRUE)
      <4>1. CASE op \in {"BitNeg", "Not", "Clog2", "Unsigned"}
        <5>1. op = "BitNeg" => Made(op, par, a) = BitNeg(a[1])
          BY DEF Made, Relations
        <5>2. op = "Not" => Made(op, par, a) = Not(a[1])
          BY DEF Made, Relations
        <5>3. op = "Clog2" => Made(op, par, a) = Clog2(a[1])
          BY DEF Made, Relations
        <5>4. op = "Unsigned" => Made(op, par, a) = ToUnsigned(a[1])
          BY DEF Made, Relations
        <5> QED
          BY <3>1, <4>1, <5>1, <5>2, <5>3, <5>4
      <4>2. CASE op \in {"UnaryAnd", "UnaryNand", "UnaryOr", "UnaryNor", "UnaryXor", "UnaryXNor"}
        <5>1. op = "UnaryAnd" => Made(op, par, a) = UnaryAnd(a[1])
          BY DEF Made, Relations
        <5>2. op = "UnaryNand" => Made(op, par, a) = UnaryNand(a[1])
          BY DEF Made, Relations
        <5>3. op = "UnaryOr" => Made(op, par, a) = UnaryOr(a[1])
          BY DEF Made, Relations
        <5>4. op = "UnaryNor" => Made(op, par, a) = UnaryNor(a[1])
          BY DEF Made, Relations
        <5>5. op = "UnaryXor" => Made(op, par, a) = UnaryXor(a[1])
          BY DEF Made, Relations
        <5>6. op = "UnaryXNor" => Made(op, par, a) = UnaryXNor(a[1])
          BY DEF Made, Relations
        <5> QED
          BY <3>2, <4>2, <5>1, <5>2, <5>3, <5>4, <5>5, <5>6
      <4> QED
        BY <2>4, <4>1, <4>2
    <3> QED
      BY <1>2, <3>3 DEF fit
  <2>5. CASE op \in {"Cast", "SizeCast"}
    <3>1. op = "Cast" => Makes(Cast(a[1], par), TRUE)
      BY <1>5, <2>1, ArityFacts, CastMakes
    <3>2. op = "SizeCast" => Makes(SizeCast(a[1], par), TRUE)
      BY <1>5, <2>1, ArityFacts, SizeCastMakes
    <3>3. Makes(Made(op, par, a), TRUE)
      <4>1. op = "Cast" => Made(op, par, a) = Cast(a[1], par)
        BY DEF Made, Relations
      <4>2. op = "SizeCast" => Made(op, par, a) = SizeCast(a[1], par)
        BY DEF Made, Relations
      <4> QED
        BY <2>5, <3>1, <3>2, <4>1, <4>2
    <3> QED
      BY <1>2, <3>3
  <2>6. CASE op \in {"Signed", "SignedTyped"}
    <3>1. Makes(ToSigned(a[1], TRUE), TRUE) /\ Makes(ToSigned(a[1], FALSE), TRUE)
      BY <2>1, <2>6, ToSignedMakes DEF Given
    <3>2. Makes(Made(op, par, a), TRUE)
      <4>1. op = "Signed" => Made(op, par, a) = ToSigned(a[1], FALSE)
        BY DEF Made, Relations
      <4>2. op = "SignedTyped" => Made(op, par, a) = ToSigned(a[1], TRUE)
        BY DEF Made, Relations
      <4> QED
        BY <2>6, <3>1, <4>1, <4>2
    <3> QED
      BY <1>2, <3>2
  <2>7. CASE op \in {"PartSelect", "PosIndexed", "NegIndexed"}
    <3>1. par[1] \in Nat /\ par[2] \in Nat
      BY <1>5, <2>7, ArityFacts
    <3>2. /\ Makes(PartSelect(a[1], par[1], par[2]), TRUE)
          /\ Makes(IndexedSelect(a[1], TRUE, par[1], par[2]), TRUE)
          /\ Makes(IndexedSelect(a[1], FALSE, par[1], par[2]), TRUE)
      BY <2>1, <3>1, PartSelectMakes, IndexedSelectMakes
    <3>3. Makes(Made(op, par, a), TRUE)
      <4>1. op = "PartSelect" => Made(op, par, a) = PartSelect(a[1], par[1], par[2])
        BY DEF Made, Relations
      <4>2. op = "PosIndexed" => Made(op, par, a) = IndexedSelect(a[1], TRUE, par[1], par[2])
        BY DEF Made, Relations
      <4>3. op = "NegIndexed" => Made(op, par, a) = IndexedSelect(a[1], FALSE, par[1], par[2])
        BY DEF Made, Relations
      <4> QED
        BY <2>7, <3>2, <4>1, <4>2, <4>3
    <3> QED
      BY <1>2, <3>3
  <2> QED
    BY <2>2, <2>3, <2>4, <2>5, <2>6, <2>7
<1>6. CASE n = 2 /\ op \in BinaryOps
  <2>1. IsOperand(a[1]) /\ IsOperand(a[2])
    BY <1>1, <1>6
  <2>2. op \in Relations \cup
          {"RShift", "ArithRShift", "LShift", "Add", "Sub", "Mult", "Div", "Mod", "Power",
           "BitAnd", "BitOr", "BitXor", "LogAnd", "LogOr", "Concat", "Reordered",
           "MultiConcat", "BitSelect"}
    BY <1>6, OperatorsAssumption
  <2>3. CASE op \in Relations
    <3>1. Makes(Compare(op, a[1], a[2]), TRUE)
      BY CompareMakes
    <3> QED
      BY <1>2, <2>3, <3>1 DEF Made, Relations
  <2>4. CASE op = "Add"
    <3> DEFINE S == Add(a[1], a[2])
    <3>1. /\ Makes(S, Fits(a[1]) /\ Fits(a[2]) /\ {a[1].size, a[2].size} # {-1, 0})
          /\ a[1] = NotConst \/ a[2] = NotConst => S = {NotConst}
      BY <2>1, AddMakes
    <3>2. fit => {a[1].size, a[2].size} # {-1, 0}
      BY <2>4 DEF AllFit
    <3>3. fit => (a[1] # NotConst => Fits(a[1])) /\ (a[2] # NotConst => Fits(a[2]))
      <4> HIDE DEF fit
      <4> QED
        BY <1>4, <1>6
    <3> HIDE DEF fit, S
    <3>4. Makes(S, fit)
      <4>1. CASE a[1] = NotConst \/ a[2] = NotConst
        BY <1>2, <1>3, <3>1, <4>1
      <4>2. CASE a[1] # NotConst /\ a[2] # NotConst
        BY <3>1, <3>2, <3>3, <4>2 DEF Makes
      <4> QED
        BY <4>1, <4>2
    <3>5. Made(op, par, a) = S
      <4>1. op = "Add" => Made(op, par, a) = Add(a[1], a[2])
        BY DEF Made, Relations
      <4> QED
        BY <2>4, <4>1 DEF S
    <3> QED
      BY <3>4, <3>5 DEF fit
  <2>5. CASE op \in {"RShift", "ArithRShift", "LShift"}
    <3>1. Makes(RShift(a[1], a[2]), TRUE) /\ Makes(LShift(a[1], a[2]), TRUE)
      BY <2>1, ShiftMakes
    <3>2. Makes(Made(op, par, a), TRUE)
      <4>1. op = "RShift" => Made(op, par, a) = RShift(a[1], a[2])
        BY DEF Made, Relations
      <4>2. op = "ArithRShift" => Made(op, par, a) = RShift(a[1], a[2])
        BY DEF Made, Relations
      <4>3. op = "LShift" => Made(op, par, a) = LShift(a[1], a[2])
        BY DEF Made, Relations
      <4> QED
        BY <2>5, <3>1, <4>1, <4>2, <4>3
    <3> QED
      BY <1>2, <3>2
  <2>6. CASE op \in {"Sub", "Mult", "LogAnd", "LogOr", "BitAnd", "BitOr"}
    <3>1. /\ Makes(Sub(a[1], a[2]), TRUE) /\ Makes(Mult(a[1], a[2]), TRUE)
          /\ Makes(LogAnd(a[1], a[2]), TRUE) /\ Makes(LogOr(a[1], a[2]), TRUE)
      BY <2>1, WordsMake
    <3>2. Makes(BitAnd(a[1], a[2]), TRUE) /\ Makes(BitOr(a[1], a[2]), TRUE)
      BY <2>1, BitWiseMakes
    <3>3. Makes(Made(op, par, a), TRUE)
      <4>1. op = "Sub" => Made(op, par, a) = Sub(a[1], a[2])
        BY DEF Made, Relations
      <4>2. op = "Mult" => Made(op, par, a) = Mult(a[1], a[2])
        BY DEF Made, Relations
      <4>3. op = "LogAnd" => Made(op, par, a) = LogAnd(a[1], a[2])
        BY DEF Made, Relations
      <4>4. op = "LogOr" => Made(op, par, a) = LogOr(a[1], a[2])
        BY DEF Made, Relations
      <4>5. op = "BitAnd" => Made(op, par, a) = BitAnd(a[1], a[2])
        BY DEF Made, Relations
      <4>6. op = "BitOr" => Made(op, par, a) = BitOr(a[1], a[2])
        BY DEF Made, Relations
      <4> QED
        BY <2>6, <3>1, <3>2, <4>1, <4>2, <4>3, <4>4, <4>5, <4>6
    <3> QED
      BY <1>2, <3>3
  <2>7. CASE op \in {"Div", "Mod", "Power", "BitXor", "BitSelect"}
    <3>1. /\ Makes(Div(a[1], a[2]), TRUE) /\ Makes(Mod(a[1], a[2]), TRUE)
          /\ Makes(Power(a[1], a[2]), TRUE) /\ Makes(BitSelect(a[1], a[2]), TRUE)
      BY <2>1, DividedMakes, PowerMakes, BitSelectMakes
    <3>2. Makes(Made(op, par, a), TRUE)
      <4>1. op = "Div" => Made(op, par, a) = Div(a[1], a[2])
        BY DEF Made, Relations
      <4>2. op = "Mod" => Made(op, par, a) = Mod(a[1], a[2])
        BY DEF Made, Relations
      <4>3. op = "Power" => Made(op, par, a) = Power(a[1], a[2])
        BY DEF Made, Relations
      <4>4. op = "BitSelect" => Made(op, par, a) = BitSelect(a[1], a[2])
        BY DEF Made, Relations
      <4>5. op = "BitXor" => Made(op, par, a) = {NotConst}
        BY DEF Made, Relations
      <4> QED
        BY <1>3, <2>7, <3>1, <4>1, <4>2, <4>3, <4>4, <4>5
    <3> QED
      BY <1>2, <3>2
  <2>8. CASE op = "MultiConcat"
    <3>1. a[2].size >= 0
      BY <2>8 DEF Given
    <3> DEFINE S == MultiConcat(a[1], a[2])
    <3>2. Makes(S, Fits(a[2])) /\ (a[2] = NotConst => S = {NotConst})
      BY <2>1, <3>1, MultiConcatMakes
    <3>3. fit => (a[2] # NotConst => Fits(a[2]))
      <4> HIDE DEF fit
      <4> QED
        BY <1>4, <1>6
    <3> HIDE DEF fit, S
    <3>4. Makes(S, fit)
      BY <1>2, <1>3, <3>2, <3>3 DEF Makes
    <3>5. Made(op, par, a) = S
      <4>1. op = "MultiConcat" => Made(op, par, a) = MultiConcat(a[1], a[2])
        BY DEF Made, Relations
      <4> QED
        BY <2>8, <4>1 DEF S
    <3> QED
      BY <3>4, <3>5 DEF fit
  <2>9. CASE op \in {"Concat", "Reordered"}
    <3>1. a[1].size >= 0 /\ a[2].size >= 0
      BY <2>9 DEF Given
    <3>2. fit => (a[1] # NotConst => Fits(a[1])) /\ (a[2] # NotConst => Fits(a[2]))
      <4> HIDE DEF fit
      <4> QED
        BY <1>4, <1>6
    <3> HIDE DEF fit
    <3>3. ASSUME NEW reordered \in BOOLEAN
          PROVE  Makes(Concat(a[1], a[2], reordered), fit)
      <4> DEFINE S == Concat(a[1], a[2], reordered)
      <4>1. Makes(S, Fits(a[1]) /\ Fits(a[2]))
        BY <2>1, <3>1, ConcatMakes
      <4>2. a[1] = NotConst \/ a[2] = NotConst => S = {NotConst}
        BY NotConstFields DEF Concat
      <4> HIDE DEF S
      <4>3. Makes(S, fit)
        <5>1. CASE a[1] = NotConst \/ a[2] = NotConst
          BY <1>2, <1>3, <4>2, <5>1
        <5>2. CASE a[1] # NotConst /\ a[2] # NotConst
          BY <3>2, <4>1, <5>2 DEF Makes
        <5> QED
          BY <5>1, <5>2
      <4> QED
        BY <4>3 DEF S
    <3>4. Makes(Concat(a[1], a[2], TRUE), fit) /\ Makes(Concat(a[1], a[2], FALSE), fit)
      BY <3>3
    <3>5. Made(op, par, a) \in {Concat(a[1], a[2], TRUE), Concat(a[1], a[2], FALSE)}
      <4>1. op = "Concat" => Made(op, par, a) = Concat(a[1], a[2], FALSE)
        BY DEF Made, Relations
      <4>2. op = "Reordered" => Made(op, par, a) = Concat(a[1], a[2], TRUE)
        BY DEF Made, Relations
      <4> QED
        BY <2>9, <4>1, <4>2
    <3>6. Makes(Made(op, par, a), fit)
      BY <3>4, <3>5
    <3> QED
      BY <3>6 DEF fit
  <2> QED
    BY <2>2, <2>3, <2>4, <2>5, <2>6, <2>7, <2>8, <2>9
<1>7. CASE n = 3 /\ op \in TernaryOps
  <2>1. IsOperand(a[1]) /\ IsOperand(a[2]) /\ IsOperand(a[3])
    BY <1>1, <1>7
  <2>2. op \in {"Inside", "Condition"}
    BY <1>7, OperatorsAssumption
  <2>3. Makes(Inside(a[1], a[2], a[3]), TRUE) /\ Makes(Condition(a[1], a[2], a[3]), TRUE)
    BY <2>1, InsideMakes, ConditionMakes
  <2>4. Makes(Made(op, par, a), TRUE)
    BY <2>2, <2>3 DEF Made, Relations
  <2> QED
    BY <1>2, <2>4
<1> QED
  BY <1>5, <1>6, <1>7 DEF Given

(***************************************************************************)
(* The invariant.  Its last part is inductive because the sizes of the     *)
(* constants never change and nodes are only added: once the sum of a fill *)
(* literal and an empty part was made, it stays.                           *)
(***************************************************************************)
Consts == [type : ConstTypes, text : Seq(Int), size : Int, ones : BOOLEAN, ts : Typespecs]
Ops == {"Literal"} \cup UnaryOps \cup BinaryOps \cup TernaryOps
Nodes == [op : Ops, par : {0} \cup UNION {Parameters[op] : op \in UnaryOps},
          args : Seq(Nat), cell : Nat]

Shape ==
  /\ cell \in Seq(Consts) /\ node \in Seq(Nodes)
  /\ \A i \in DOMAIN cell : IsConst(cell[i])
  /\ \A i \in DOMAIN node :
       /\ node[i].cell \in 0 .. Len(cell)
       /\ \A k \in DOMAIN node[i].args : node[i].args[k] \in 1 .. i - 1
       /\ node[i].op = "Add" => Len(node[i].args) = 2

IInv ==
  /\ Shape
  /\ ~ FillAddedToEmpty => \A i \in DOMAIN cell : Fits(cell[i])

\* What one step leaves: the constants there were, each kept, at most one more,
\* and one more node.
Grows(op, par, args, at) ==
  /\ node' = Append(node, [op |-> op, par |-> par, args |-> args, cell |-> at])
  /\ cell' \in Seq(Consts) /\ Len(cell) <= Len(cell') /\ at \in 0 .. Len(cell')
  /\ \A i \in DOMAIN cell : Kept(cell[i], cell'[i])
  /\ \A i \in DOMAIN cell' \ DOMAIN cell :
       /\ i = at /\ IsConst(cell'[i])
       /\ /\ \A c \in DOMAIN cell : Fits(cell[c])
          /\ op = "Add" => {At(args[1]).size, At(args[2]).size} # {-1, 0}
          => Fits(cell'[i])

\* The operands an operator is given.
Operands(op, par, n, args) ==
  /\ n \in 1 .. 3 /\ args \in Seq(1 .. Len(node)) /\ Len(args) = n
  /\ \/ n = 1 /\ op \in UnaryOps /\ par \in Parameters[op]
     \/ n = 2 /\ op \in BinaryOps /\ par = 0
     \/ n = 3 /\ op \in TernaryOps /\ par = 0

\* The constant of a node is one of the constants.
LEMMA AtFacts ==
  ASSUME Shape, NEW i \in 1 .. Len(node)
  PROVE  /\ IsOperand(At(i)) /\ node[i].cell \in 0 .. Len(cell)
         /\ node[i].cell = 0 => At(i) = NotConst
         /\ node[i].cell # 0 => node[i].cell \in DOMAIN cell /\ At(i) = cell[node[i].cell]
         /\ At(i) # NotConst => node[i].cell \in DOMAIN cell
<1>1. /\ i \in DOMAIN node /\ Len(cell) \in Nat /\ DOMAIN cell = 1 .. Len(cell)
      /\ node[i].cell \in 0 .. Len(cell)
  BY DEF Shape
<1>2. At(i) = IF node[i].cell = 0 THEN NotConst ELSE cell[node[i].cell]
  BY DEF At
<1>3. node[i].cell # 0 => node[i].cell \in DOMAIN cell
  BY <1>1
<1>4. \A c \in DOMAIN cell : IsConst(cell[c])
  BY DEF Shape
<1> QED
  BY <1>1, <1>2, <1>3, <1>4 DEF IsOperand

\* One step keeps every constant there was.
LEMMA ReduceGrows ==
  ASSUME Shape, NEW op, NEW par, NEW n, NEW args, Operands(op, par, n, args),
         Reduce(op, par, args)
  PROVE  \E at \in Nat : Grows(op, par, args, at)
<1> DEFINE before == [i \in DOMAIN args |-> At(args[i])]
           after == Changed(op, par, before)
           writes(c, i) == node[args[i]].cell = c /\ after[i] # before[i]
           kept == [c \in DOMAIN cell |->
                      IF \E i \in DOMAIN args : writes(c, i)
                      THEN after[CHOOSE i \in DOMAIN args : writes(c, i)]
                      ELSE cell[c]]
           back == HandsBack(op, before)
           new(at) == Append(node, [op |-> op, par |-> par, args |-> args, cell |-> at])
<1>1. /\ n \in 1 .. 3 /\ DOMAIN args = 1 .. n
      /\ \A i \in 1 .. n : args[i] \in 1 .. Len(node)
  BY DEF Operands
<1>2. Legal(op, args)
  BY DEF Reduce
<1>3. \/ back # 0 /\ cell' = kept /\ node' = new(node[args[back]].cell)
      \/ cell' = kept /\ node' = new(0)
      \/ \E c \in Made(op, par, after) :
           c # NotConst /\ cell' = Append(kept, c) /\ node' = new(Len(cell) + 1)
  BY Zenon DEF Reduce
<1>4. /\ \A i \in 1 .. n : before[i] = At(args[i]) /\ IsOperand(before[i])
      /\ before = [i \in 1 .. n |-> before[i]]
  BY <1>1, AtFacts
<1>5. Given(op, par, n, before)
  <2>1. /\ \/ n = 1 /\ op \in UnaryOps /\ par \in Parameters[op]
           \/ n = 2 /\ op \in BinaryOps
           \/ n = 3 /\ op \in TernaryOps
    BY DEF Operands
  <2>2. op \in {"Concat", "Reordered", "MultiConcat"} => n = 2
    BY <2>1, ArityFacts
  <2>3. op \in {"Concat", "Reordered"} => before[1].size >= 0 /\ before[2].size >= 0
    <3> SUFFICES ASSUME op \in {"Concat", "Reordered"}
                 PROVE  before[1].size >= 0 /\ before[2].size >= 0
      OBVIOUS
    <3>1. 1 \in DOMAIN args /\ 2 \in DOMAIN args
      BY <1>1, <2>2
    <3>2. \A i \in DOMAIN args : At(args[i]).size >= 0
      BY <1>2 DEF Legal
    <3> QED
      BY <3>1, <3>2
  <2>4. op = "MultiConcat" => before[2].size >= 0
    <3> SUFFICES ASSUME op = "MultiConcat"
                 PROVE  before[2].size >= 0
      OBVIOUS
    <3>1. 2 \in DOMAIN args
      BY <1>1, <2>2
    <3>2. At(args[2]).size >= 0
      BY <1>2, <3>1 DEF Legal
    <3> QED
      BY <3>1, <3>2
  <2>5. op \in {"Signed", "SignedTyped"} =>
          before[1].type \in {"DEC", "INT"} \/ before[1].size >= 1
    <3>1. before[1] = At(args[1]) /\ IsOperand(before[1])
      BY <1>1, <1>4
    <3>2. before[1].size \in Int
      BY <3>1, OperandFields
    <3>3. op = "Signed" => At(args[1]).size \in 1 .. Word
      BY <1>2 DEF Legal
    <3>4. op = "SignedTyped" => At(args[1]).type \in {"DEC", "INT"} \/ At(args[1]).size \in 2 .. Half - 2
      BY <1>2 DEF Legal
    <3> HIDE DEF before
    <3> QED
      BY <3>1, <3>2, <3>3, <3>4, WordFacts
  <2> HIDE DEF before
  <2> QED
    BY <1>4, <2>1, <2>3, <2>4, <2>5 DEF Given
<1>6. \A i \in 1 .. n : Kept(before[i], after[i])
  <2> HIDE DEF before
  <2> QED
    BY <1>1, <1>4, <1>5, ChangedFacts
<1>7. Given(op, par, n, after)
  <2> HIDE DEF before, after
  <2>1. 1 \in 1 .. n /\ (n # 1 => 2 \in 1 .. n)
    BY <1>1
  <2>2. op \in {"Concat", "Reordered", "MultiConcat"} => n # 1
    BY <1>5, ArityFacts DEF Given
  <2>3. after[1].size = before[1].size
        /\ (before[1].type \in {"DEC", "INT"} => after[1].type \in {"DEC", "INT"})
    BY <1>6, <2>1 DEF Kept
  <2>4. n # 1 => after[2].size = before[2].size
    BY <1>6, <2>1 DEF Kept
  <2>5. \A i \in 1 .. n : IsOperand(after[i])
    BY <1>6 DEF Kept
  <2> QED
    BY <1>5, <2>2, <2>3, <2>4, <2>5 DEF Given
<1>8. /\ DOMAIN kept = DOMAIN cell
      /\ \A c \in DOMAIN cell : Kept(cell[c], kept[c])
  <2>1. DOMAIN kept = DOMAIN cell
    OBVIOUS
  <2>2. ASSUME NEW c \in DOMAIN cell
        PROVE  Kept(cell[c], kept[c])
    <3>1. IsOperand(cell[c]) /\ c # 0
      BY DEF Shape, IsOperand
    <3>2. CASE \E i \in DOMAIN args : writes(c, i)
      <4> DEFINE i == CHOOSE j \in DOMAIN args : writes(c, j)
      <4>1. i \in DOMAIN args /\ writes(c, i) /\ kept[c] = after[i]
        BY <3>2
      <4> HIDE DEF i
      <4>2. before[i] = cell[c]
        BY <1>1, <3>1, <4>1, AtFacts
      <4>3. Kept(before[i], after[i])
        BY <1>1, <1>6, <4>1
      <4> HIDE DEF kept, before, after
      <4> QED
        BY <4>1, <4>2, <4>3
    <3>3. CASE ~ \E i \in DOMAIN args : writes(c, i)
      <4>1. kept[c] = cell[c]
        BY <3>3
      <4> HIDE DEF kept
      <4> QED
        BY <3>1, <4>1, KeptAsIs
    <3> QED
      BY <3>2, <3>3
  <2> QED
    BY <2>1, <2>2
<1>9. kept \in Seq(Consts) /\ Len(kept) = Len(cell)
  <2>1. DOMAIN cell = 1 .. Len(cell) /\ Len(cell) \in Nat
    BY DEF Shape
  <2>2. \A c \in DOMAIN cell : kept[c] \in Consts
    <3> TAKE c \in DOMAIN cell
    <3>1. IsConst(kept[c])
      <4> HIDE DEF kept
      <4> QED
        BY <1>8 DEF Shape, Kept
    <3> HIDE DEF kept
    <3> QED
      BY <3>1 DEF IsConst, Consts
  <2>3. kept = [c \in 1 .. Len(cell) |-> kept[c]]
    BY <2>1
  <2> HIDE DEF kept
  <2> QED
    BY <2>1, <2>2, <2>3
<1>10. /\ Len(cell) \in Nat /\ DOMAIN cell = 1 .. Len(cell)
       /\ \A i \in 1 .. n : node[args[i]].cell \in 0 .. Len(cell)
  BY <1>1 DEF Shape
<1>11. CASE back # 0 /\ cell' = kept /\ node' = new(node[args[back]].cell)
  <2>1. back \in 1 .. n
    <3>1. back # 0
      BY <1>11
    <3>2. CASE op = "Condition"
      <4>1. n = 3
        BY <1>5, <3>2, OperatorsAssumption DEF Given, Relations
      <4>2. back \in {0, 2, 3}
        BY <3>2 DEF HandsBack
      <4> QED
        BY <3>1, <4>1, <4>2
    <3>3. CASE op # "Condition"
      <4>1. back \in {0, 1}
        <5> HIDE DEF before
        <5> QED
          BY <3>3 DEF HandsBack
      <4> QED
        BY <1>1, <3>1, <4>1
    <3> QED
      BY <3>2, <3>3
  <2> DEFINE at == node[args[back]].cell
  <2>2. at \in 0 .. Len(cell)
    BY <1>10, <2>1
  <2>3. cell' = kept /\ node' = new(at)
    BY <1>11
  <2> HIDE DEF at, kept, back
  <2>4. DOMAIN cell' \ DOMAIN cell = {}
    BY <1>8, <2>3
  <2>5. Grows(op, par, args, at)
    BY <1>8, <1>9, <1>10, <2>2, <2>3, <2>4 DEF Grows
  <2> QED
    BY <1>10, <2>2, <2>5
<1>12. CASE cell' = kept /\ node' = new(0)
  <2> DEFINE at == 0
  <2>1. at \in 0 .. Len(cell) /\ node' = new(at)
    BY <1>12, <1>10
  <2> HIDE DEF at, kept
  <2>2. DOMAIN cell' \ DOMAIN cell = {}
    BY <1>8, <1>12
  <2>3. Grows(op, par, args, at)
    BY <1>8, <1>9, <1>12, <1>10, <2>1, <2>2 DEF Grows
  <2> QED
    BY <1>10, <2>1, <2>3
<1>13. ASSUME NEW c \in Made(op, par, after), c # NotConst,
              cell' = Append(kept, c), node' = new(Len(cell) + 1)
       PROVE  \E at \in Nat : Grows(op, par, args, at)
  <2> DEFINE last == Len(cell) + 1
  <2>1. Makes(Made(op, par, after), AllFit(op, n, after))
    <3> HIDE DEF after
    <3> QED
      BY <1>1, <1>7, MadeFacts
  <2>2. IsConst(c) /\ (AllFit(op, n, after) => Fits(c))
    <3> HIDE DEF after
    <3> QED
      BY <1>13, <2>1 DEF Makes
  <2>3. ASSUME \A k \in DOMAIN cell : Fits(cell[k]),
               op = "Add" => {At(args[1]).size, At(args[2]).size} # {-1, 0}
        PROVE  AllFit(op, n, after)
    <3>1. \A i \in 1 .. n : after[i] # NotConst => Fits(after[i])
      <4> TAKE i \in 1 .. n
      <4>1. Kept(before[i], after[i]) /\ before[i] = At(args[i]) /\ args[i] \in 1 .. Len(node)
        BY <1>1, <1>4, <1>6
      <4> HIDE DEF before, after
      <4>2. before[i] # NotConst => Fits(before[i])
        BY <2>3, <4>1, AtFacts
      <4> QED
        BY <4>1, <4>2 DEF Kept
    <3>2. op = "Add" => after[1].size = At(args[1]).size /\ after[2].size = At(args[2]).size
      <4>1. op = "Add" => n = 2
        BY <1>5, ArityFacts DEF Given
      <4>2. op = "Add" => 1 \in 1 .. n /\ 2 \in 1 .. n
        BY <4>1
      <4> HIDE DEF before, after
      <4> QED
        BY <1>4, <1>6, <4>2 DEF Kept
    <3> HIDE DEF before, after
    <3> QED
      BY <2>3, <3>1, <3>2 DEF AllFit
  <2> HIDE DEF after, kept
  <2>4. c \in Consts
    BY <2>2 DEF IsConst, Consts
  <2>5. /\ cell' \in Seq(Consts) /\ Len(cell') = last /\ cell'[last] = c
        /\ \A i \in 1 .. Len(cell) : cell'[i] = kept[i]
    BY <1>9, <1>13, <1>10, <2>4
  <2>6. last \in 0 .. Len(cell') /\ Len(cell) <= Len(cell') /\ last \in Nat
    BY <1>10, <2>5
  <2>7. \A i \in DOMAIN cell : Kept(cell[i], cell'[i])
    BY <1>8, <1>10, <2>5
  <2>8. \A i \in DOMAIN cell' \ DOMAIN cell : i = last /\ cell'[i] = c
    BY <1>10, <2>5
  <2>9. node' = new(last)
    BY <1>13
  <2> HIDE DEF last
  <2>10. Grows(op, par, args, last)
    BY <2>2, <2>3, <2>5, <2>6, <2>7, <2>8, <2>9 DEF Grows
  <2> QED
    BY <2>6, <2>10 DEF last
<1> QED
  BY <1>3, <1>11, <1>12, <1>13

\* The literals the program starts from satisfy the invariant.
LEMMA InitInv == Init => IInv
<1> SUFFICES ASSUME Init PROVE IInv
  OBVIOUS
<1>1. PICK p \in Pools :
        /\ cell = p
        /\ node = [i \in 1 .. 2 |->
                     [op |-> "Literal", par |-> 0, args |-> <<>>,
                      cell |-> IF i \in DOMAIN p THEN i ELSE 0]]
  BY DEF Init
<1>2. /\ p \in Seq(Range(p)) /\ Len(p) \in 1 .. 2
      /\ \A i \in DOMAIN p : IsConst(p[i]) /\ Fits(p[i])
  BY PoolsAssumption
<1>3. DOMAIN p = 1 .. Len(p) /\ p = [i \in 1 .. Len(p) |-> p[i]]
  BY <1>2
<1>4. cell \in Seq(Consts)
  <2>1. \A i \in 1 .. Len(p) : p[i] \in Consts
    BY <1>2, <1>3 DEF IsConst, Consts
  <2> QED
    BY <1>1, <1>2, <1>3, <2>1
<1> DEFINE first(i) == [op |-> "Literal", par |-> 0, args |-> <<>>,
                        cell |-> IF i \in DOMAIN p THEN i ELSE 0]
<1>5. \A i \in 1 .. 2 : first(i) \in Nodes /\ first(i).cell \in 0 .. Len(p)
                        /\ first(i).args = <<>> /\ first(i).op = "Literal"
  <2> TAKE i \in 1 .. 2
  <2> DEFINE at == IF i \in DOMAIN p THEN i ELSE 0
  <2>1. at \in 0 .. Len(p) /\ at \in Nat
    BY <1>2, <1>3
  <2>2. <<>> \in Seq(Nat) /\ "Literal" \in Ops
        /\ 0 \in {0} \cup UNION {Parameters[op] : op \in UnaryOps}
    BY DEF Ops
  <2> HIDE DEF at
  <2>3. [op |-> "Literal", par |-> 0, args |-> <<>>, cell |-> at] \in Nodes
    BY <2>1, <2>2 DEF Nodes
  <2> QED
    BY <2>1, <2>3 DEF at
<1>6. node = [i \in 1 .. 2 |-> first(i)]
  BY <1>1
<1> HIDE DEF first
<1>7. node \in Seq(Nodes) /\ DOMAIN node = 1 .. 2 /\ \A i \in 1 .. 2 : node[i] = first(i)
  BY <1>5, <1>6
<1>8. \A i \in DOMAIN node :
        /\ node[i].cell \in 0 .. Len(cell) /\ node[i].op # "Add"
        /\ \A k \in DOMAIN node[i].args : node[i].args[k] \in 1 .. i - 1
  BY <1>1, <1>5, <1>7
<1>9. Shape
  BY <1>1, <1>2, <1>4, <1>7, <1>8 DEF Shape
<1> QED
  BY <1>1, <1>2, <1>9 DEF IInv

\* A step keeps the invariant.
LEMMA GrowsInv ==
  ASSUME IInv, NEW op, NEW par, NEW n, NEW args, NEW at \in Nat,
         Operands(op, par, n, args), Grows(op, par, args, at)
  PROVE  IInv'
<1> DEFINE N == Len(node)
           new == [op |-> op, par |-> par, args |-> args, cell |-> at]
<1>1. /\ Shape /\ N \in Nat /\ DOMAIN node = 1 .. N /\ node \in Seq(Nodes)
      /\ DOMAIN cell = 1 .. Len(cell) /\ Len(cell) \in Nat
  BY DEF IInv, Shape
<1>2. /\ node' = Append(node, new)
      /\ cell' \in Seq(Consts) /\ Len(cell) <= Len(cell') /\ at \in 0 .. Len(cell')
      /\ \A i \in DOMAIN cell : Kept(cell[i], cell'[i])
  BY DEF Grows
<1>3. new \in Nodes
  <2>1. op \in Ops /\ par \in {0} \cup UNION {Parameters[o] : o \in UnaryOps}
    BY DEF Operands, Ops
  <2>2. args \in Seq(Nat)
    <3>1. args \in Seq(1 .. N)
      BY DEF Operands
    <3> HIDE DEF N
    <3>2. \A i \in 1 .. Len(args) : args[i] \in Nat
      BY <1>1, <3>1
    <3> QED
      BY <3>1, <3>2
  <2> QED
    BY <2>1, <2>2 DEF Nodes
<1>4. new.op = op /\ new.args = args /\ new.cell = at
  OBVIOUS
<1> HIDE DEF new
<1>5. /\ node' \in Seq(Nodes) /\ Len(node') = N + 1 /\ DOMAIN node' = 1 .. N + 1
      /\ node'[N + 1] = new /\ \A i \in 1 .. N : node'[i] = node[i]
  BY <1>1, <1>2, <1>3
<1>6. DOMAIN cell' = 1 .. Len(cell') /\ Len(cell') \in Nat
  BY <1>2
<1>7. \A i \in DOMAIN cell' : IsConst(cell'[i])
  <2> TAKE i \in DOMAIN cell'
  <2>1. CASE i \in DOMAIN cell
    <3>1. IsConst(cell[i])
      BY <1>1, <2>1 DEF Shape
    <3> QED
      BY <1>2, <2>1, <3>1 DEF Kept
  <2>2. CASE i \notin DOMAIN cell
    BY <2>2 DEF Grows
  <2> QED
    BY <2>1, <2>2
<1>8. ASSUME NEW i \in 1 .. N + 1
      PROVE  /\ node'[i].cell \in 0 .. Len(cell')
             /\ \A k \in DOMAIN node'[i].args : node'[i].args[k] \in 1 .. i - 1
             /\ node'[i].op = "Add" => Len(node'[i].args) = 2
  <2> HIDE DEF N
  <2>1. CASE i = N + 1
    <3>1. i - 1 = N
      BY <1>1, <2>1
    <3>2. \A k \in DOMAIN args : args[k] \in 1 .. N
      BY DEF Operands, N
    <3>3. op = "Add" => Len(args) = 2
      BY ArityFacts DEF Operands
    <3> QED
      BY <1>2, <1>4, <1>5, <2>1, <3>1, <3>2, <3>3
  <2>2. CASE i \in 1 .. N
    <3>1. /\ node[i].cell \in 0 .. Len(cell)
          /\ \A k \in DOMAIN node[i].args : node[i].args[k] \in 1 .. i - 1
          /\ node[i].op = "Add" => Len(node[i].args) = 2
      BY <1>1, <2>2 DEF Shape
    <3>2. node[i].cell \in 0 .. Len(cell')
      BY <1>1, <1>2, <1>6, <3>1
    <3> QED
      BY <1>5, <2>2, <3>1, <3>2
  <2>3. i = N + 1 \/ i \in 1 .. N
    BY <1>1
  <2> QED
    BY <2>1, <2>2, <2>3
<1>9. Shape'
  BY <1>2, <1>5, <1>7, <1>8 DEF Shape
<1> DEFINE later(i) == IF node'[i].cell = 0 THEN NotConst ELSE cell'[node'[i].cell]
<1>10. FillAddedToEmpty' <=>
         \E i \in DOMAIN node' :
           /\ node'[i].op = "Add" /\ node'[i].cell # 0
           /\ {later(node'[i].args[k]).size : k \in 1 .. 2} = {-1, 0}
  BY DEF FillAddedToEmpty, At
<1>11. \A i \in 1 .. N : later(i).size = At(i).size
  <2> TAKE i \in 1 .. N
  <2>1. node'[i].cell = node[i].cell
    BY <1>5
  <2>2. CASE node[i].cell = 0
    BY <2>1, <2>2 DEF At
  <2>3. CASE node[i].cell # 0
    <3>1. node[i].cell \in DOMAIN cell
      BY <1>1, <2>3, AtFacts
    <3>2. cell'[node[i].cell].size = cell[node[i].cell].size
      BY <1>2, <3>1 DEF Kept
    <3> QED
      BY <2>1, <2>3, <3>2 DEF At
  <2> QED
    BY <2>2, <2>3
<1>12. FillAddedToEmpty => FillAddedToEmpty'
  <2> SUFFICES ASSUME FillAddedToEmpty
               PROVE  FillAddedToEmpty'
    OBVIOUS
  <2>1. PICK i \in DOMAIN node :
          /\ node[i].op = "Add" /\ node[i].cell # 0
          /\ {At(node[i].args[k]).size : k \in 1 .. 2} = {-1, 0}
    BY DEF FillAddedToEmpty
  <2> DEFINE r == node[i].args
  <2>2. r[1] \in 1 .. N /\ r[2] \in 1 .. N
    <3>1. Len(r) = 2 /\ r \in Seq(Nat)
      <4>1. node[i] \in Nodes
        BY <1>1, <2>1
      <4>2. r \in Seq(Nat)
        BY <4>1 DEF Nodes
      <4>3. Len(r) = 2
        BY <1>1, <2>1 DEF Shape
      <4> QED
        BY <4>2, <4>3
    <3>2. 1 \in DOMAIN r /\ 2 \in DOMAIN r
      BY <3>1
    <3>3. r[1] \in 1 .. i - 1 /\ r[2] \in 1 .. i - 1
      BY <1>1, <2>1, <3>2 DEF Shape
    <3> HIDE DEF r
    <3> QED
      BY <1>1, <3>3
  <2>3. i \in DOMAIN node' /\ node'[i] = node[i]
    BY <1>1, <1>5
  <2>4. later(r[1]).size = At(r[1]).size /\ later(r[2]).size = At(r[2]).size
    BY <1>11, <2>2
  <2>5. {later(r[k]).size : k \in 1 .. 2} = {-1, 0}
    <3>1. \A k \in 1 .. 2 : later(r[k]).size = At(r[k]).size
      <4> TAKE k \in 1 .. 2
      <4>1. k = 1 \/ k = 2
        OBVIOUS
      <4> HIDE DEF later
      <4> QED
        BY <2>4, <4>1
    <3> HIDE DEF later
    <3> QED
      BY <2>1, <3>1
  <2> HIDE DEF later
  <2> QED
    BY <1>10, <2>1, <2>3, <2>5
<1>13. ASSUME ~ FillAddedToEmpty'
       PROVE  \A i \in DOMAIN cell' : Fits(cell'[i])
  <2>1. \A i \in DOMAIN cell : Fits(cell[i])
    BY <1>12, <1>13 DEF IInv
  <2> TAKE i \in DOMAIN cell'
  <2>2. CASE i \in DOMAIN cell
    BY <1>2, <2>1, <2>2 DEF Kept
  <2>3. CASE i \notin DOMAIN cell
    <3>1. i = at /\ at # 0
      BY <1>6, <2>3 DEF Grows
    <3>2. op = "Add" => {At(args[1]).size, At(args[2]).size} # {-1, 0}
      <4> SUFFICES ASSUME op = "Add", {At(args[1]).size, At(args[2]).size} = {-1, 0}
                   PROVE  FALSE
        OBVIOUS
      <4>1. args[1] \in 1 .. N /\ args[2] \in 1 .. N
        BY ArityFacts DEF Operands
      <4>2. later(args[1]).size = At(args[1]).size /\ later(args[2]).size = At(args[2]).size
        BY <1>11, <4>1
      <4>3. {later(args[k]).size : k \in 1 .. 2} = {later(args[1]).size, later(args[2]).size}
        <5> HIDE DEF later
        <5>1. \A k \in 1 .. 2 : k = 1 \/ k = 2
          OBVIOUS
        <5> QED
          BY <5>1
      <4>4. node'[N + 1].args = args /\ node'[N + 1].op = "Add" /\ node'[N + 1].cell # 0
            /\ N + 1 \in DOMAIN node'
        BY <1>1, <1>4, <1>5, <3>1
      <4> DEFINE M == N + 1
      <4>5. {later(node'[M].args[k]).size : k \in 1 .. 2} = {-1, 0}
        <5> DEFINE r == node'[M].args
        <5>1. r = args
          BY <4>4
        <5>2. {later(args[k]).size : k \in 1 .. 2} = {-1, 0}
          <6> HIDE DEF later
          <6> QED
            BY <4>2, <4>3
        <5> HIDE DEF later, r
        <5>3. {later(r[k]).size : k \in 1 .. 2} = {-1, 0}
          BY <5>1, <5>2
        <5> QED
          BY <5>3 DEF r
      <4>7. M \in DOMAIN node' /\ node'[M].op = "Add" /\ node'[M].cell # 0
        BY <4>4
      <4> HIDE DEF M, later
      <4>6. FillAddedToEmpty'
        BY <1>10, <4>5, <4>7
      <4> QED
        BY <1>13, <4>6
    <3> QED
      BY <2>1, <2>3, <3>2 DEF Grows
  <2> QED
    BY <2>2, <2>3
<1> QED
  BY <1>9, <1>13 DEF IInv

\* Every step of the program is one of an operator on the operands it takes.
LEMMA NextGrows ==
  ASSUME Shape, Next
  PROVE  \E op, par, n, args : \E at \in Nat :
           Operands(op, par, n, args) /\ Grows(op, par, args, at)
<1>1. DOMAIN node = 1 .. Len(node) /\ Len(node) \in Nat
  BY DEF Shape
<1>2. CASE ReduceUnary
  <2>1. PICK op \in UnaryOps : \E par \in Parameters[op], a \in DOMAIN node :
          Reduce(op, par, <<a>>)
    BY <1>2 DEF ReduceUnary
  <2>2. PICK par \in Parameters[op], a \in DOMAIN node : Reduce(op, par, <<a>>)
    BY <2>1
  <2>3. Operands(op, par, 1, <<a>>)
    BY <1>1, <2>2 DEF Operands
  <2> QED
    BY <2>2, <2>3, ReduceGrows
<1>3. CASE ReduceBinary
  <2>1. PICK op \in BinaryOps, a \in DOMAIN node, b \in DOMAIN node : Reduce(op, 0, <<a, b>>)
    BY <1>3 DEF ReduceBinary
  <2>2. Operands(op, 0, 2, <<a, b>>)
    BY <1>1, <2>1 DEF Operands
  <2> QED
    BY <2>1, <2>2, ReduceGrows
<1>4. CASE ReduceTernary
  <2>1. PICK op \in TernaryOps, a \in DOMAIN node, b \in DOMAIN node, c \in DOMAIN node :
          Reduce(op, 0, <<a, b, c>>)
    BY <1>4 DEF ReduceTernary
  <2>2. Operands(op, 0, 3, <<a, b, c>>)
    BY <1>1, <2>1 DEF Operands
  <2> QED
    BY <2>1, <2>2, ReduceGrows
<1> QED
  BY <1>2, <1>3, <1>4 DEF Next

\* The invariant holds in every state.
LEMMA Invariant == Spec => []IInv
<1>1. Init => IInv
  BY InitInv
<1>2. IInv /\ [Next]_vars => IInv'
  <2> SUFFICES ASSUME IInv, [Next]_vars
               PROVE  IInv'
    OBVIOUS
  <2>1. CASE Next
    <3>1. PICK op, par, n, args :
            \E at \in Nat : Operands(op, par, n, args) /\ Grows(op, par, args, at)
      BY <2>1, NextGrows DEF IInv
    <3> QED
      BY <3>1, GrowsInv
  <2>2. CASE UNCHANGED vars
    <3>1. cell' = cell /\ node' = node
      BY <2>2 DEF vars
    <3>2. Shape'
      BY <3>1 DEF IInv, Shape
    <3>3. FillAddedToEmpty' <=> FillAddedToEmpty
      BY <3>1 DEF FillAddedToEmpty, At
    <3> QED
      BY <3>1, <3>2, <3>3 DEF IInv
  <2> QED
    BY <2>1, <2>2
<1> QED
  BY <1>1, <1>2, PTL DEF Spec

(***************************************************************************)
(* The theorems.                                                           *)
(***************************************************************************)
\* Every object is a constant of its type, whatever chain of operators made
\* it, and every node names one of them or none.
THEOREM TypeCorrect == Spec => []TypeOK
<1>1. IInv => TypeOK
  <2> SUFFICES ASSUME IInv PROVE TypeOK
    OBVIOUS
  <2>1. Shape
    BY DEF IInv
  <2>2. ASSUME NEW i \in DOMAIN node, NEW k \in DOMAIN node[i].args
        PROVE  node[i].args[k] < i
    <3>1. node[i].args[k] \in 1 .. i - 1 /\ i \in Nat
      BY <2>1 DEF Shape
    <3> QED
      BY <3>1
  <2> QED
    BY <2>1, <2>2 DEF Shape, TypeOK
<1> QED
  BY <1>1, Invariant, PTL

\* A binary text never has more digits than its size announces, except after
\* the one sum that breaks it.  (Fits also says what has the size 0, which
\* concatenations need of their operands.)
THEOREM DigitsFit == Spec => []DigitsFitSize
<1>1. IInv => DigitsFitSize
  BY DEF IInv, DigitsFitSize, Fits
<1> QED
  BY <1>1, Invariant, PTL

\* No operator changes the number of an object that others share, unless it
\* is the fill literal '1, and then into as many ones as were asked for.
THEOREM OnlyOnes == Spec => OnlyOnesAreResized
<1> DEFINE A == \A i \in DOMAIN cell :
                  get_value(cell'[i]) # get_value(cell[i]) =>
                    /\ cell[i].ones /\ ~cell'[i].ones
                    /\ \E s \in 2 .. Word : cell'[i].text = <<2 ^ s - 1>>
<1>1. IInv /\ [Next]_vars => A \/ UNCHANGED vars
  <2> SUFFICES ASSUME IInv, Next
               PROVE  A
    OBVIOUS
  <2>1. PICK op, par, n, args : \E at \in Nat : Grows(op, par, args, at)
    BY NextGrows DEF IInv
  <2>2. \A i \in DOMAIN cell : Kept(cell[i], cell'[i])
    BY <2>1 DEF Grows
  <2> QED
    BY <2>2, Zenon DEF Kept
<1>2. OnlyOnesAreResized <=> [][A]_vars
  BY DEF OnlyOnesAreResized
<1> HIDE DEF A
<1> QED
  BY <1>1, <1>2, Invariant, PTL DEF Spec
=============================================================================
