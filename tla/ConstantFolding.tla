-------------------------- MODULE ConstantFolding --------------------------
(***************************************************************************)
(* The folding of operators, selects and conversions over constants:       *)
(* reduceExpr of templates/ExprEval.cpp, with the readers of constants it  *)
(* calls (get_value, get_uvalue, toBinary, resize, reduceCompOp,           *)
(* reduceBitSelect, getWordSize).                                          *)
(*                                                                         *)
(* A node is a literal, or a named value (a parameter, say) defined by one *)
(* operator over earlier nodes.  What matters is that nodes SHARE constant *)
(* objects: a name is read by handing out the constant it holds, some      *)
(* operators hand one of their operands back, and three of them change an  *)
(* operand in place.  So constants live in cell, and a node has an index   *)
(* into it, or 0 while its expression is not reduced to a constant.        *)
(*                                                                         *)
(* Real and string constants, x and z digits are left out (a double is     *)
(* then only tried where get_value was refused, and refused as well), and  *)
(* so are the messages.  An invalid expression and one that is left as it  *)
(* is are not told apart: neither is a constant, and whatever reads either *)
(* of them is refused.                                                     *)
(***************************************************************************)
EXTENDS NumUtils

CONSTANTS
  MaxRepeat,  \* the largest replication (1000)
  Pools,      \* the literals to start from: one (and a name without a value) or two
  UnaryOps, BinaryOps, TernaryOps,  \* the operators tried: names
  Parameters, \* what an operator has besides its operands, by name
  MaxNodes    \* bound: the nodes made

ASSUME BoundsAssumption == MaxRepeat \in Nat /\ MaxNodes \in Nat

VARIABLES
  cell,  \* the constant objects
  node   \* the literals and named values: [op, par, args, cell]

vars == <<cell, node>>

-----------------------------------------------------------------------------
(* Constants: VpiConstType, the text of VpiValue, VpiSize (-1 is a literal  *)
(* without base or size), whether VpiDecompile is '1, and the typespec: a   *)
(* signed marker, the width of a replicated word, or a range [0 : n - 1].   *)
Typeless == [kind |-> "none", n |-> 0]
SignedMark == [kind |-> "signed", n |-> 0]
Const(type, text, size) ==
  [type |-> type, text |-> text, size |-> size, ones |-> FALSE, ts |-> Typeless]
SInt(n, size) == Const("INT", <<n>>, size)
UInt(n, size) == Const("UINT", <<n>>, size)
Bin(bits, size) == Const("BIN", bits, size)
Flag(b) == IF b THEN 1 ELSE 0

NotConst == Const("NONE", <<>>, 0)

\* What a constant looks like: digits of its base, or one number; a size of -1
\* for none, which a fill literal has; a replicated word of some width.
ConstTypes == {"BIN", "HEX", "OCT", "DEC", "INT", "UINT"}
DigitsOf(type) == CASE type = "BIN" -> 0 .. 1
                    [] type = "OCT" -> 0 .. 7
                    [] type = "HEX" -> 0 .. 15
                    [] OTHER -> Int
Typespecs == [kind : {"none", "signed", "word", "up"}, n : Nat]
IsConst(c) ==
  /\ c \in [type : ConstTypes, text : Seq(Int), size : Int, ones : BOOLEAN, ts : Typespecs]
  /\ c.type \in {"DEC", "INT", "UINT"} => Len(c.text) = 1
  /\ \A k \in DOMAIN c.text : c.text[k] \in DigitsOf(c.type)
  /\ c.size >= -1
  /\ c.ones => c.type = "BIN" /\ c.text = <<1>> /\ c.size = -1
  /\ c.ts.kind = "word" => c.ts.n > 0

\* A binary text has at most the digits its size announces, and nothing is
\* announced only of what has no bits: no text, or the number 0.
Fits(c) ==
  /\ c.type = "BIN" /\ c.size >= 0 => Len(c.text) <= c.size
  /\ c.size = 0 => IF c.type \in {"BIN", "HEX", "OCT"} THEN c.text = <<>> ELSE c.text = <<0>>

\* Literals as the parser of the language gives them: of one bit at least.
\* Binary ones are not written with more digits than their size (bound).
ASSUME PoolsAssumption ==
  \A p \in Pools : /\ p \in Seq(Range(p)) /\ Len(p) \in 1 .. 2
                   /\ \A i \in DOMAIN p : IsConst(p[i]) /\ Fits(p[i]) /\ p[i].size # 0

\* get_value: a signed word.
get_value(c) ==
  LET digits(base) == LET p == parseDigits(base, c.text)
                      IN  [p EXCEPT !.val = Wrapped(p.val, Word)]
      refused == c.size > Word
  IN  CASE c.type = "BIN" -> IF refused THEN Failed ELSE [digits(2) EXCEPT !.ok = TRUE]
        [] c.type = "HEX" -> IF refused THEN Failed ELSE digits(16)
        [] c.type = "OCT" -> IF refused THEN Failed ELSE digits(8)
        [] c.type \in {"DEC", "INT"} -> parseInt64(c.text[1])
        [] c.type = "UINT" -> LET p == parseIntLenient(c.text[1])
                              IN  [p EXCEPT !.val = Wrapped(p.val, Word)]
        [] OTHER -> Failed

\* get_uvalue: the same bits, unsigned, and no decimal text with a sign.
get_uvalue(c) ==
  IF c.type \in {"DEC", "INT", "UINT"} THEN parseUint64(c.text[1])
  ELSE [get_value(c) EXCEPT !.val = Unsigned(@)]

\* ExprEval::toBinary: the text of a constant as bits, filled up to its size
\* and never cut.  An octal text goes through hexToBin.
toBits(c) ==
  LET filled(bits) == [i \in 1 .. c.size - Len(bits) |-> 0] \o bits
      decimal(p) == toBinary(c.size, Unsigned(p.val))
  IN  CASE c.type = "BIN" -> filled(c.text)
        [] c.type \in {"HEX", "OCT"} -> filled(hexToBin(c.text))
        [] c.type \in {"DEC", "INT"} -> decimal(parseIntLenient(c.text[1]))
        [] c.type = "UINT" -> decimal(parseUint64(c.text[1]))

\* resize: '1 becomes a number of so many ones, in the object itself, which
\* keeps its size of -1.
\* Mutant of resize: whatever has no size is a fill of ones.
ResizeAny(c, size) == [c EXCEPT !.type = "UINT", !.text = <<getMask(size)>>, !.ones = FALSE]
resize(c, size) ==
  IF c.ones
  THEN [c EXCEPT !.type = "UINT", !.text = <<getMask(size)>>, !.ones = FALSE]
  ELSE c

-----------------------------------------------------------------------------
(* The operators.  Each gives the set of the constants it may produce:     *)
(* NotConst where it gives up, several where C++ leaves a shift by the     *)
(* width of the word or more undefined (the processor ignores the upper    *)
(* bits of the amount, the optimiser may take the result for 0), none      *)
(* where the program ends in an exception or a trap.                       *)
Amounts(n) == IF n \in 0 .. Word - 1 THEN {n} ELSE {n % Word, Word}

RShift(a, b) ==
  IF a.size = -1 \/ ~get_value(a).ok \/ ~get_value(b).ok THEN {NotConst}
  ELSE {UInt(Unsigned(get_value(a).val) \div (2 ^ n), Word) :
           n \in Amounts(Unsigned(get_value(b).val))}

LShift(a, b) ==
  IF a.size = -1 \/ ~get_value(a).ok \/ ~get_value(b).ok THEN {NotConst}
  ELSE {UInt(Unsigned(get_value(a).val * (2 ^ n)), Word) :
           n \in Amounts(Unsigned(get_value(b).val))}

\* reduceCompOp, after its resizing: as int64_t if both read as unsigned
\* numbers, through long double otherwise.
Related(op, x, y) ==
  CASE op = "Eq" -> x = y
    [] op = "Neq" -> x # y
    [] op = "Lt" -> x < y
    [] op = "Le" -> x <= y
    [] op = "Gt" -> x > y
    [] op = "Ge" -> x >= y

Compare(op, a, b) ==
  IF get_uvalue(a).ok /\ get_uvalue(b).ok
  THEN {Bin(<<Flag(Related(op, Wrapped(get_uvalue(a).val, Word),
                               Wrapped(get_uvalue(b).val, Word)))>>, 1)}
  ELSE IF get_value(a).ok /\ get_value(b).ok
  THEN {Bin(<<Flag(Related(op, get_value(a).val, get_value(b).val))>>, 1)}
  ELSE {NotConst}

Add(a, b) ==
  LET size == IF a.size > b.size THEN a.size ELSE b.size
      signed == {a.type, b.type} \cap {"INT", "DEC"} # {}
  IN  IF signed /\ get_value(a).ok /\ get_value(b).ok
      THEN {SInt(Wrapped(get_value(a).val + get_value(b).val, Word), size)}
      ELSE IF ~signed /\ get_uvalue(a).ok /\ get_uvalue(b).ok
      THEN {UInt(Unsigned(get_uvalue(a).val + get_uvalue(b).val), size)}
      ELSE {NotConst}

\* The operators on two words, or one, that make a constant of 64 bits.
OnWords(a, b, Result(_, _)) ==
  IF get_value(a).ok /\ get_value(b).ok
  THEN {Result(get_value(a).val, get_value(b).val)} ELSE {NotConst}

BitWise(x, y, F(_, _)) ==
  UInt(Number(2, [i \in 1 .. Word |->
         F(Bit(Unsigned(x), Word - i), Bit(Unsigned(y), Word - i))]), Word)
BitAnd(a, b) == OnWords(a, b, LAMBDA x, y : BitWise(x, y, LAMBDA p, q : p * q))
BitOr(a, b) == OnWords(a, b, LAMBDA x, y : BitWise(x, y, LAMBDA p, q : p + q - p * q))
LogAnd(a, b) == OnWords(a, b, LAMBDA x, y : UInt(Flag(x # 0 /\ y # 0), Word))
LogOr(a, b) == OnWords(a, b, LAMBDA x, y : UInt(Flag(x # 0 \/ y # 0), Word))
Sub(a, b) == OnWords(a, b, LAMBDA x, y : SInt(Wrapped(x - y, Word), Word))
Mult(a, b) == OnWords(a, b, LAMBDA x, y : SInt(Wrapped(x * y, Word), Word))
\* Mutant of Minus: the value is set, the type of the constant is not.
MinusKeepsType(a) == OnWords(a, a, LAMBDA x, y : [a EXCEPT !.text = <<Wrapped(-x, Word)>>])
Minus(a) == OnWords(a, a, LAMBDA x, y : SInt(Wrapped(-x, Word), a.size))
Not(a) == OnWords(a, a, LAMBDA x, y : UInt(Flag(x = 0), Word))

\* The size is that of the typespec if there is one: a logic without a range
\* has one bit, an int 32.
BitNeg(a) ==
  LET size == CASE a.ts.kind = "none" -> a.size
                [] a.ts.kind = "signed" -> 1
                [] a.ts.kind = "word" -> Half
                [] a.ts.kind = "up" -> a.ts.n
  IN  OnWords(a, a, LAMBDA x, y :
        IF size = 1 THEN UInt(Flag(x = 0), size)
        ELSE UInt(Unsigned(-x - 1) % (getMask(size) + 1), size))

\* A constant only when the value was found.
Inside(a, b, c) ==
  IF ~get_value(a).ok \/ ~get_value(b).ok THEN {NotConst}
  ELSE IF get_value(a).val = get_value(b).val \/ get_value(a) = get_value(c)
  THEN {UInt(1, Word)} ELSE {NotConst}

\* The reductions look at as many bits as each loop has turns.
Ones(n, bits) == {i \in 0 .. (IF bits > 1 THEN bits - 1 ELSE 0) : Bit(n, i % Word) = 1}
Reduction(a, bits, Result(_)) ==
  OnWords(a, a, LAMBDA x, y :
    UInt(Flag(Result(Cardinality(Ones(Unsigned(x), bits)))), Word))
\* Mutant of UnaryAnd: as many turns as the other reductions take.
UnaryAndOfHalf(a) == Reduction(a, Half, LAMBDA n : n = Half)
UnaryAnd(a) == Reduction(a, a.size, LAMBDA n : n = IF a.size > 1 THEN a.size ELSE 1)
UnaryNand(a) == Reduction(a, Half, LAMBDA n : n # Half)
UnaryOr(a) == Reduction(a, Half, LAMBDA n : n # 0)
UnaryNor(a) == Reduction(a, Word, LAMBDA n : n = 0)
UnaryXor(a) == Reduction(a, Word, LAMBDA n : n % 2 = 1)
UnaryXNor(a) == Reduction(a, Word, LAMBDA n : n % 2 = 0)

\* C++ division: towards zero.  The least number by -1 is a trap.
Magnitude(n) == IF n < 0 THEN -n ELSE n
Quotient(x, y) ==
  LET q == Magnitude(x) \div Magnitude(y)
  IN  IF (x < 0) = (y < 0) THEN q ELSE -q
Divided(a, b, Result(_, _)) ==
  IF ~get_value(a).ok \/ ~get_value(b).ok \/ get_value(b).val = 0 THEN {NotConst}
  ELSE IF get_value(b).val = -1 /\ get_value(a).val = -(2 ^ (Word - 1)) THEN {}
  ELSE {SInt(Result(get_value(a).val, get_value(b).val), Word)}
Div(a, b) == Divided(a, b, Quotient)
Mod(a, b) == Divided(a, b, LAMBDA x, y : x - y * Quotient(x, y))

\* std::pow over doubles, then a conversion that is undefined outside of
\* int64_t and gives its least or its largest number.
Least == -(2 ^ (Word - 1))
Bounded(x, n) ==
  LET power[i \in 0 .. n] == IF i = 0 THEN 1
                             ELSE IF Magnitude(power[i - 1]) >= 2 ^ Word THEN power[i - 1]
                             ELSE power[i - 1] * x
  IN  power[n]
Power(a, b) ==
  IF ~get_value(a).ok \/ ~get_value(b).ok THEN {NotConst}
  ELSE LET x == get_value(a).val
           y == get_value(b).val
           p == IF y >= 0 THEN Bounded(x, y)
                ELSE IF x = 0 THEN 2 ^ Word
                ELSE IF Magnitude(x) > 1 THEN 0
                ELSE IF y % 2 = 0 THEN 1 ELSE x
       IN  {SInt(q, Word) : q \in IF Least <= p /\ p < -Least THEN {p} ELSE {Least, -Least - 1}}

\* The number chosen, in 64 bits; a fill literal, or what is not a constant,
\* is handed back as it is (see HandsBack).
Condition(a, b, c) ==
  LET chosen == IF get_value(a).val # 0 THEN b ELSE c
  IN  IF ~get_value(a).ok \/ ~get_value(chosen).ok \/ chosen.size = -1 THEN {NotConst}
      ELSE {SInt(get_value(chosen).val, Word)}

\* The text is repeated, whatever its digits stand for; other numbers are
\* shifted by their width.  The typespec keeps the width of the word.
MultiConcat(a, b) ==
  LET n == IF get_value(a).val > MaxRepeat THEN MaxRepeat
           ELSE IF get_value(a).val < 0 THEN 0 ELSE get_value(a).val
      repeated(text) == [i \in 1 .. n * Len(text) |-> text[((i - 1) % Len(text)) + 1]]
      filled == [i \in 1 .. b.size - Len(b.text) |-> 0] \o b.text
      copies(f) == LET at(i) == IF i < Word THEN i ELSE IF f THEN Word ELSE i % Word
                       \* the bits that some copy puts at place i
                       set(i) == \E k \in 0 .. n - 1 :
                                   /\ at(k * b.size) <= i
                                   /\ Bit(Unsigned(get_value(b).val), i - at(k * b.size)) = 1
                   IN  Number(2, [i \in 1 .. Word |-> Flag(set(Word - i))])
      word == IF b.size = 0 THEN Typeless ELSE [kind |-> "word", n |-> b.size]
      made == CASE b.type = "BIN" -> {Bin(repeated(filled), n * b.size)}
                [] b.type \in {"HEX", "OCT"} -> {Const(b.type, repeated(b.text), n * b.size)}
                [] OTHER -> {UInt(copies(f), n * b.size) : f \in BOOLEAN}
      refused == b.type \in {"NONE", "DEC", "INT", "UINT"} /\ ~get_value(b).ok
  IN  IF ~get_value(a).ok \/ refused
      THEN {NotConst}
      ELSE {[c EXCEPT !.ts = word] : c \in made}

\* Mutant of OperandBits: a text longer than its size is not cut.
OperandBitsUncut(c, reordered) ==
  IF reordered THEN Reverse(toBits(c)) ELSE toBits(c)

\* The bits of one operand of a concatenation, each kind in its own way.  A
\* reordered concatenation turns every operand round and then the whole; the
\* zeros that fill an operand up are not turned.
OperandBits(c, reordered) ==
  LET turned(bits) == IF reordered THEN Reverse(bits) ELSE bits
      filled(bits) == [i \in 1 .. c.size - Len(bits) |-> 0] \o turned(bits)
      cut(bits) == IF c.size < 0 THEN <<>>
                   ELSE IF c.size < Len(bits)
                   THEN SubSeq(bits, Len(bits) - c.size + 1, Len(bits)) ELSE bits
      number(p) == turned(toBinary(c.size, Unsigned(p.val)))
  IN  CASE c.type = "BIN" -> filled(c.text)
        [] c.type = "HEX" -> filled(cut(hexToBin(c.text)))
        [] c.type = "OCT" -> number(parseDigits(8, c.text))
        [] c.type \in {"DEC", "INT"} -> number(parseInt64(c.text[1]))
        [] c.type = "UINT" -> number(parseUint64(c.text[1]))

\* A 64-bit integer is taken for one without a size: only alone.
Concat(a, b, reordered) ==
  IF \E c \in {a, b} : c.type = "NONE" \/ (c.type \in {"INT", "UINT"} /\ c.size = Word)
  THEN {NotConst}
  ELSE LET bits == OperandBits(a, reordered) \o OperandBits(b, reordered)
       IN  {Bin(IF reordered THEN Reverse(bits) ELSE bits, a.size + b.size)}

\* Casts, by the kind of the typespec.
Cast(a, to) ==
  LET v == get_value(a).val
  IN  IF ~get_value(a).ok THEN {NotConst}
      ELSE CASE to = "int" -> {UInt(Wrapped(v, Half), Word)}
             [] to = "long_int" -> {UInt(v, Word)}
             [] to = "enum" -> {UInt(Unsigned(v), Word)}
             [] to = "bit" -> {Bin(<<v % 2>>, 1)}
             [] to = "short_int" -> {UInt(Wrapped(v, Quarter), Quarter)}

\* A cast to a number of bits (integer_typespec) keeps the sign of a marked
\* constant.  To make the mask for Word bits, 1 is shifted by Word.
SizeCast(a, to) ==
  LET bits == IF to < Word THEN to ELSE Word
      low(m) == Unsigned(get_value(resize(a, to)).val) % m
  IN  IF ~get_value(a).ok THEN {NotConst}
      ELSE {IF a.ts = SignedMark
            THEN [SInt(Wrapped(low(m), bits), to) EXCEPT !.ts = SignedMark]
            ELSE UInt(low(m), to) : m \in IF to < Word THEN {2 ^ to} ELSE {1, 2 ^ Word}}

\* $clog2: the shifts that make val - 1 zero.
Clog2(a) ==
  LET v == get_uvalue(a).val
  IN  IF ~get_uvalue(a).ok THEN {NotConst}
      ELSE {UInt(IF v = 0 THEN 0 ELSE Len(toBinary(0, v - 1)), Word)}

\* $signed.  Without the typespec of the call only the sign bit is taken off
\* and the rest negated; with one that is signed the number is moved below 0.
\* Integers are marked and handed back (see Changed and HandsBack).
ToSigned(a, typed) ==
  LET v == get_uvalue(a).val
      half == 2 ^ (a.size - 1)
      res == IF v % (2 * half) < half /\ v < 2 * half THEN v
             ELSE IF typed THEN v - 2 * half
             ELSE IF Bit(v, a.size - 1) = 1 THEN half - v ELSE v
  IN  IF a.type \in {"NONE", "DEC", "INT"} \/ ~get_uvalue(a).ok THEN {NotConst}
      ELSE {[SInt(res, a.size) EXCEPT !.ts = SignedMark]}

\* $unsigned: only a negative integer makes a new constant.
ToUnsigned(a) ==
  IF a.type \in {"DEC", "INT"} /\ get_value(a).ok /\ get_value(a).val < 0
  THEN {UInt(Unsigned(get_value(a).val) % (getMask(a.size) + 1), a.size)}
  ELSE {NotConst}

-----------------------------------------------------------------------------
(* Selects.  getWordSize: the width of a replicated word, else a bit.      *)
getWordSize(a) == IF a.ts.kind = "word" THEN a.ts.n ELSE 1

\* reduceBitSelect: the index is a uint32_t.  A text is read from its end,
\* unless the range of the typespec goes up.
BitSelect(a, b) ==
  LET bits == toBits(a)
      ws == getWordSize(a)
      index == get_value(b).val % (2 ^ Half)
      up == a.ts.kind = "up" /\ a.ts.n > 1
      from == IF up THEN index ELSE (Len(bits) - (index + 1) * ws) % (2 ^ Half)
      at(i) == (from + i) % (2 ^ Half)
      \* the loop over the word: places outside of the text give nothing
      taken[i \in 0 .. ws] ==
        IF i = 0 THEN <<>>
        ELSE IF at(i - 1) < Len(bits) THEN Append(taken[i - 1], bits[at(i - 1) + 1])
        ELSE taken[i - 1]
  IN  IF a.type = "NONE" \/ ~get_value(b).ok THEN {NotConst}
      ELSE {Bin(IF index < Len(bits) THEN taken[ws] ELSE <<0>>, ws)}

\* std::string::substr on the reversed text: it throws when the start is
\* outside, and stops at the end.
Taken(a, from, width) ==
  LET bits == Reverse(toBits(a))
      end == IF from + width > Len(bits) THEN Len(bits) ELSE from + width
  IN  IF from \notin 0 .. Len(bits) THEN {}
      ELSE {Bin(Reverse(SubSeq(bits, from + 1, end)), end - from)}

PartSelect(a, l, r) ==
  IF a.type = "NONE" THEN {NotConst}
  ELSE IF r > Len(toBits(a)) \/ l > Len(toBits(a)) THEN {Bin(<<0>>, 1)}
  ELSE IF l > r THEN Taken(a, r, l - r + 1) ELSE Taken(a, l, r - l + 1)

\* [base +: width] and [base -: width].
IndexedSelect(a, up, base, width) ==
  LET within == IF up THEN (base + width) % (2 ^ Half) <= Len(toBits(a))
                ELSE base % (2 ^ Half) < Len(toBits(a))
  IN  IF a.type = "NONE" THEN {NotConst}
      ELSE IF ~within THEN {Bin(<<>>, 0)}
      ELSE Taken(a, IF up THEN base ELSE base - width, width)

-----------------------------------------------------------------------------
Relations == {"Eq", "Neq", "Lt", "Le", "Gt", "Ge"}

\* The operators by the number of their operands, and what some have besides:
\* the typespec of a cast, a width (never 0: the code takes 32 then), the
\* bounds of a part, the base and the width of an indexed one.
ASSUME OperatorsAssumption ==
  /\ UnaryOps \subseteq
       {"Minus", "BitNeg", "Not", "UnaryAnd", "UnaryNand", "UnaryOr", "UnaryNor",
        "UnaryXor", "UnaryXNor", "Cast", "SizeCast", "Clog2", "Signed", "SignedTyped",
        "Unsigned", "PartSelect", "PosIndexed", "NegIndexed"}
  /\ BinaryOps \subseteq Relations \cup
       {"RShift", "ArithRShift", "LShift", "Add", "Sub", "Mult", "Div", "Mod", "Power",
        "BitAnd", "BitOr", "BitXor", "LogAnd", "LogOr", "Concat", "Reordered",
        "MultiConcat", "BitSelect"}
  /\ TernaryOps \subseteq {"Inside", "Condition"}
  /\ \A op \in UnaryOps : \A par \in Parameters[op] :
       /\ op = "Cast" => par \in {"int", "long_int", "enum", "bit", "short_int"}
       /\ op = "SizeCast" => par \in Nat \ {0}
       /\ op \in {"PartSelect", "PosIndexed", "NegIndexed"} => par \in Nat \X Nat

\* The operands after the operator: what reduceCompOp, a cast to a width and
\* $signed do to the objects they were given.
Changed(op, par, a) ==
  CASE op \in Relations ->
         IF a[1].size = -1 /\ a[2].size > 1
         THEN [a EXCEPT ![1] = resize(@, a[2].size)]
         ELSE IF a[2].size = -1 /\ a[1].size > 1
         THEN [a EXCEPT ![2] = resize(@, a[1].size)]
         ELSE a
    [] op = "SizeCast" -> IF get_value(a[1]).ok THEN <<resize(a[1], par)>> ELSE a
    [] op \in {"Signed", "SignedTyped"} ->
         IF a[1].type \in {"DEC", "INT"} /\ a[1].ts = Typeless
         THEN <<[a[1] EXCEPT !.ts = SignedMark]>> ELSE a
    [] OTHER -> a

\* The constants the operator may make of the operands so changed.
Made(op, par, a) ==
  CASE op = "RShift" -> RShift(a[1], a[2])
    [] op = "ArithRShift" -> RShift(a[1], a[2])
    [] op = "LShift" -> LShift(a[1], a[2])
    [] op \in Relations -> Compare(op, a[1], a[2])
    [] op = "Add" -> Add(a[1], a[2])
    [] op = "Sub" -> Sub(a[1], a[2])
    [] op = "Mult" -> Mult(a[1], a[2])
    [] op = "Div" -> Div(a[1], a[2])
    [] op = "Mod" -> Mod(a[1], a[2])
    [] op = "Power" -> Power(a[1], a[2])
    [] op = "BitAnd" -> BitAnd(a[1], a[2])
    [] op = "BitOr" -> BitOr(a[1], a[2])
    [] op = "BitXor" -> {NotConst}
    [] op = "LogAnd" -> LogAnd(a[1], a[2])
    [] op = "LogOr" -> LogOr(a[1], a[2])
    [] op = "Minus" -> Minus(a[1])
    [] op = "BitNeg" -> BitNeg(a[1])
    [] op = "Not" -> Not(a[1])
    [] op = "UnaryAnd" -> UnaryAnd(a[1])
    [] op = "UnaryNand" -> UnaryNand(a[1])
    [] op = "UnaryOr" -> UnaryOr(a[1])
    [] op = "UnaryNor" -> UnaryNor(a[1])
    [] op = "UnaryXor" -> UnaryXor(a[1])
    [] op = "UnaryXNor" -> UnaryXNor(a[1])
    [] op = "Inside" -> Inside(a[1], a[2], a[3])
    [] op = "Condition" -> Condition(a[1], a[2], a[3])
    [] op = "MultiConcat" -> MultiConcat(a[1], a[2])
    [] op = "Concat" -> Concat(a[1], a[2], FALSE)
    [] op = "Reordered" -> Concat(a[1], a[2], TRUE)
    [] op = "Cast" -> Cast(a[1], par)
    [] op = "SizeCast" -> SizeCast(a[1], par)
    [] op = "Clog2" -> Clog2(a[1])
    [] op = "Signed" -> ToSigned(a[1], FALSE)
    [] op = "SignedTyped" -> ToSigned(a[1], TRUE)
    [] op = "Unsigned" -> ToUnsigned(a[1])
    [] op = "BitSelect" -> BitSelect(a[1], a[2])
    [] op = "PartSelect" -> PartSelect(a[1], par[1], par[2])
    [] op = "PosIndexed" -> IndexedSelect(a[1], TRUE, par[1], par[2])
    [] op = "NegIndexed" -> IndexedSelect(a[1], FALSE, par[1], par[2])

\* The operand that is handed back itself, or 0.
HandsBack(op, a) ==
  CASE op = "Condition" ->
         LET chosen == IF get_value(a[1]).val # 0 THEN 2 ELSE 3
         IN  IF /\ get_value(a[1]).ok /\ a[chosen].type # "NONE"
                /\ a[chosen].size = -1 \/ ~get_value(a[chosen]).ok
             THEN chosen ELSE 0
    [] op \in {"Signed", "SignedTyped"} ->
         IF a[1].type \in {"DEC", "INT"} /\ get_value(a[1]).ok THEN 1 ELSE 0
    [] op = "Unsigned" ->
         IF \/ a[1].type \in {"UINT", "BIN", "HEX", "OCT"} /\ get_uvalue(a[1]).ok
            \/ a[1].type \in {"DEC", "INT"} /\ get_value(a[1]).ok /\ get_value(a[1]).val >= 0
         THEN 1 ELSE 0
    [] OTHER -> 0

-----------------------------------------------------------------------------
\* The constant of a node; objects are counted from 1.
At(i) == IF node[i].cell = 0 THEN NotConst ELSE cell[node[i].cell]

Init ==
  \E p \in Pools :
    /\ cell = p
    /\ node = [i \in 1 .. 2 |->
                 [op |-> "Literal", par |-> 0, args |-> <<>>,
                  cell |-> IF i \in DOMAIN p THEN i ELSE 0]]

\* What the language does not allow is not given: a literal without a size in
\* a concatenation or a replication.  The operand of a $signed has a width
\* that its shifts are defined for, and exponents are small (bounds).
Legal(op, args) ==
  /\ op = "Power" => get_value(At(args[2])).val \in -2 .. Word
  /\ op = "Signed" => At(args[1]).size \in 1 .. Word
  /\ op = "SignedTyped" => At(args[1]).type \in {"DEC", "INT"} \/ At(args[1]).size \in 2 .. Half - 2
  /\ op \in {"Concat", "Reordered", "MultiConcat"} =>
      \A i \in DOMAIN args : (op = "MultiConcat" /\ i = 1) \/ At(args[i]).size >= 0

\* One named value more: reduceExpr of its expression.
Reduce(op, par, args) ==
  LET before == [i \in DOMAIN args |-> At(args[i])]
      after == Changed(op, par, before)
      kept == [c \in DOMAIN cell |->
                 IF \E i \in DOMAIN args : node[args[i]].cell = c /\ after[i] # before[i]
                 THEN after[CHOOSE i \in DOMAIN args :
                              node[args[i]].cell = c /\ after[i] # before[i]]
                 ELSE cell[c]]
      back == HandsBack(op, before)
      new(at) == Append(node, [op |-> op, par |-> par, args |-> args, cell |-> at])
  IN  /\ Legal(op, args)
      /\ IF back # 0
         THEN /\ cell' = kept
              /\ node' = new(node[args[back]].cell)
         ELSE \E c \in Made(op, par, after) :
                IF c = NotConst
                THEN cell' = kept /\ node' = new(0)
                ELSE cell' = Append(kept, c) /\ node' = new(Len(cell) + 1)

More == Len(node) < MaxNodes
ReduceUnary == More /\ \E op \in UnaryOps : \E par \in Parameters[op], a \in DOMAIN node :
                         Reduce(op, par, <<a>>)
ReduceBinary == More /\ \E op \in BinaryOps : \E a, b \in DOMAIN node :
                  Reduce(op, 0, <<a, b>>)
ReduceTernary == More /\ \E op \in TernaryOps : \E a, b, c \in DOMAIN node :
                   Reduce(op, 0, <<a, b, c>>)

Next == ReduceUnary \/ ReduceBinary \/ ReduceTernary

Spec == Init /\ [][Next]_vars

-----------------------------------------------------------------------------
TypeOK ==
  /\ \A i \in DOMAIN cell : IsConst(cell[i])
  /\ \A i \in DOMAIN node :
       /\ node[i].cell \in 0 .. Len(cell)
       /\ \A k \in DOMAIN node[i].args : node[i].args[k] < i

\* A name is read by handing out the object that holds its value, and
\* comparisons, casts and $signed write into what they were handed.  The
\* only object whose number this may change is the literal '1, once, into as
\* many ones as were asked for.  (reduceCompOp, resize, $signed)
OnlyOnesAreResized ==
  [][\A i \in DOMAIN cell :
       get_value(cell'[i]) # get_value(cell[i]) =>
         /\ cell[i].ones /\ ~cell'[i].ones
         /\ \E s \in 2 .. Word : cell'[i].text = <<2 ^ s - 1>>]_vars

\* A part outside of its vector is a constant of size 0 with no text, and the
\* sum of that and a literal without a size is a number of size 0.
FillAddedToEmpty ==
  \E i \in DOMAIN node :
    /\ node[i].op = "Add" /\ node[i].cell # 0
    /\ {At(node[i].args[k]).size : k \in 1 .. 2} = {-1, 0}

\* The bits of a binary text are at most those its size announces, along any
\* chain of operators: selects count from the end of the text, concatenations
\* add sizes up.  One sum breaks it (see FillAddedToEmpty): in a concatenation
\* a number of size 0 has as many bits as its value.  (Add, toBinary)
DigitsFitSize ==
  ~FillAddedToEmpty => \A i \in DOMAIN cell :
     cell[i].type = "BIN" /\ cell[i].size >= 0 => Len(cell[i].text) <= cell[i].size
=============================================================================
