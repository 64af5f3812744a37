------------------------------ MODULE NumUtils ------------------------------
(***************************************************************************)
(* The conversions of templates/NumUtils.cpp and NumUtils.h between the    *)
(* texts that VPI values are kept in, machine words and rows of bits.      *)
(* A text is a sequence of digits (of one integer, for the decimal kinds)  *)
(* with the most significant first; a word is an integer below 2 ^ Word.   *)
(***************************************************************************)
EXTENDS Integers, Sequences, SequencesExt

CONSTANTS
  Word,     \* bits of uint64_t and int64_t
  Half,     \* bits of int32_t
  Quarter   \* bits of int16_t

ASSUME WordAssumption ==
  /\ {Word, Half, Quarter} \subseteq Nat \ {0}
  /\ Quarter < Half /\ Half < Word

Unsigned(n) == n % (2 ^ Word)
Wrapped(n, w) == ((n + 2 ^ (w - 1)) % (2 ^ w)) - 2 ^ (w - 1)
Bit(n, i) == (n \div (2 ^ i)) % 2
BitsOf(n, w) == [i \in 1 .. w |-> Bit(n, w - i)]
Number(base, digits) ==
  LET upTo[i \in 0 .. Len(digits)] == IF i = 0 THEN 0 ELSE upTo[i - 1] * base + digits[i]
  IN  upTo[Len(digits)]

\* The result of a parser: whether it returned a place in the text, and what
\* it stored.
Parsed(ok, n) == [ok |-> ok, val |-> IF ok THEN n ELSE 0]
Failed == Parsed(FALSE, 0)

\* std::from_chars into int64_t and into uint64_t; strToInt tries both.
parseInt64(n) == Parsed(-(2 ^ (Word - 1)) <= n /\ n < 2 ^ (Word - 1), n)
parseUint64(n) == Parsed(0 <= n /\ n < 2 ^ Word, n)
parseIntLenient(n) ==
  IF parseInt64(n).ok THEN parseInt64(n)
  ELSE IF n > 0 THEN parseUint64(n) ELSE Failed
\* parseBinary, parseOctal, parseHex: an empty text is refused.
parseDigits(base, digits) ==
  IF digits = <<>> THEN Failed ELSE parseIntLenient(Number(base, digits))

\* Four bits for each digit, whatever the base.
hexToBin(digits) ==
  [i \in 1 .. 4 * Len(digits) |-> Bit(digits[((i - 1) \div 4) + 1], 3 - ((i - 1) % 4))]

\* Without a size, as many bits as the value has (none for 0).
toBinary(size, val) ==
  LET width == CHOOSE w \in 0 .. Word : val < 2 ^ w /\ (w > 0 => val >= 2 ^ (w - 1))
  IN  BitsOf(val, IF size > 0 THEN size ELSE width)

\* A negative width, converted to uint64_t, is a large one.
getMask(wide) == IF wide \in 0 .. Word - 1 THEN 2 ^ wide - 1 ELSE 2 ^ Word - 1
=============================================================================
