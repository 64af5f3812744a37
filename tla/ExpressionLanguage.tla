------------------------- MODULE ExpressionLanguage -------------------------
(***************************************************************************)
(* What SystemVerilog (IEEE 1800-2017, 11.4 to 11.8) says of the nodes of  *)
(* ConstantFolding, and how the constants folded compare with it.          *)
(*                                                                         *)
(* In the language an expression has a width and a sign of its own, and    *)
(* the value it has depends on the width and the sign of its context: a    *)
(* meaning holds the value for each of them.  The evaluator has no such    *)
(* context and computes in words of 64 bits.                               *)
(*                                                                         *)
(* mean is a history variable: the meanings of the nodes, found from what  *)
(* their literals were when they were written.                             *)
(***************************************************************************)
EXTENDS ConstantFolding

VARIABLE mean

varsWithMeaning == <<cell, node, mean>>

Unknown == [known |-> FALSE]
Low(n, w) == n % (2 ^ w)
Extended(v, w, s, k) ==
  IF k > w /\ s /\ Bit(v, w - 1) = 1 THEN v + 2 ^ k - 2 ^ w ELSE Low(v, k)
AsInteger(v, w, s) == IF s /\ Bit(v, w - 1) = 1 THEN v - 2 ^ w ELSE v

Meaning(w, s, Val(_, _)) ==
  [known |-> TRUE, w |-> w, s |-> s, fill |-> FALSE, up |-> FALSE,
   at |-> [sg \in BOOLEAN |-> [k \in 1 .. Word |-> Low(Val(sg, k), k)]]]
\* A value of a width of its own, wherever it stands.
Sized(v, w, s) == Meaning(w, s, LAMBDA sg, k : Extended(Low(v, w), w, sg /\ s, k))
Truth(b) == Sized(Flag(b), 1, FALSE)
Self(m) == m.at[m.s][m.w]
Wide(m, n) == IF m.w > n THEN m.w ELSE n

\* A literal as it is written.  A decimal one without a size is an int.
LiteralMeaning(c) ==
  IF c.ones THEN [Meaning(1, FALSE, LAMBDA sg, k : 2 ^ k - 1) EXCEPT !.fill = TRUE]
  ELSE IF c.size = -1 THEN [Meaning(1, FALSE, LAMBDA sg, k : 0) EXCEPT !.fill = TRUE]
  ELSE [Sized(get_value(c).val, IF c.size = Word THEN Half ELSE c.size, c.type = "INT")
          EXCEPT !.up = (c.ts.kind = "up")]

\* Operators whose operands take the width and the sign of the context.
InContext(a, b, F(_, _, _, _)) ==
  Meaning(Wide(a, b.w), a.s /\ b.s,
          LAMBDA sg, k : F(a.at[sg][k], b.at[sg][k], sg, k))
Bitwise(x, y, k, F(_, _)) ==
  Number(2, [i \in 1 .. k |-> F(Bit(x, k - i), Bit(y, k - i))])
Signs(F(_, _), x, y, sg, k) == F(AsInteger(x, k, sg), AsInteger(y, k, sg))
Context(op, a, b) ==
  CASE op = "Add" -> InContext(a, b, LAMBDA x, y, sg, k : x + y)
    [] op = "Sub" -> InContext(a, b, LAMBDA x, y, sg, k : x - y)
    [] op = "Mult" -> InContext(a, b, LAMBDA x, y, sg, k : x * y)
    [] op = "BitAnd" -> InContext(a, b, LAMBDA x, y, sg, k :
                          Bitwise(x, y, k, LAMBDA p, q : p * q))
    [] op = "BitOr" -> InContext(a, b, LAMBDA x, y, sg, k :
                          Bitwise(x, y, k, LAMBDA p, q : p + q - p * q))
    [] op = "BitXor" -> InContext(a, b, LAMBDA x, y, sg, k :
                          Bitwise(x, y, k, LAMBDA p, q : (p + q) % 2))
    [] op = "Div" -> InContext(a, b, LAMBDA x, y, sg, k :
                       IF y = 0 THEN 0 ELSE Signs(Quotient, x, y, sg, k))
    [] op = "Mod" -> InContext(a, b, LAMBDA x, y, sg, k :
                       IF y = 0 THEN 0
                       ELSE Signs(LAMBDA p, q : p - q * Quotient(p, q), x, y, sg, k))

\* Comparisons extend their operands to each other.
Common(a, b) == [k |-> Wide(a, b.w), s |-> a.s /\ b.s]
Compared(op, a, b) ==
  LET c == Common(a, b)
      v(m) == AsInteger(m.at[c.s][c.k], c.k, c.s)
  IN  Related(op, v(a), v(b))

Bits(m) == BitsOf(Self(m), m.w)
OfBits(bits) == IF Len(bits) \notin 1 .. Word THEN Unknown ELSE Sized(Number(2, bits), Len(bits), FALSE)
Slice(m, hi, lo) ==
  IF lo < 0 \/ hi >= m.w THEN Unknown
  ELSE Sized(Self(m) \div (2 ^ lo), hi - lo + 1, FALSE)
\* The operand of a cast to a width is extended by its own sign; a fill
\* literal fills.
Resized(m, k) == IF m.fill THEN m.at[FALSE][k] ELSE Extended(Self(m), m.w, m.s, k)
Raised(x, y, k) ==
  LET power[i \in 0 .. y] == IF i = 0 THEN 1 ELSE Low(power[i - 1] * x, k) IN power[y]

\* The meaning of an operator over known operands.
OperatorMeaning(op, par, m) ==
  LET n == Self(m[2])
      one(F(_)) == Truth(F(Cardinality({i \in 1 .. m[1].w : Bits(m[1])[i] = 1})))
  IN
  CASE op \in {"Add", "Sub", "Mult", "BitAnd", "BitOr", "BitXor"} -> Context(op, m[1], m[2])
    [] op \in {"Div", "Mod"} -> IF n = 0 THEN Unknown ELSE Context(op, m[1], m[2])
    [] op = "Power" ->
         LET y == AsInteger(n, m[2].w, m[2].s)
         IN  IF (y < 0 /\ Self(m[1]) = 0) \/ y > Word THEN Unknown
             ELSE Meaning(m[1].w, m[1].s, LAMBDA sg, k :
                    LET x == AsInteger(m[1].at[sg][k], k, sg)
                    IN  IF y >= 0 THEN Raised(m[1].at[sg][k], y, k)
                        ELSE IF x = 1 THEN 1
                        ELSE IF x = -1 THEN (IF y % 2 = 0 THEN 1 ELSE -1) ELSE 0)
    [] op = "LShift" -> Meaning(m[1].w, m[1].s, LAMBDA sg, k :
                          IF n < k THEN m[1].at[sg][k] * (2 ^ n) ELSE 0)
    [] op = "RShift" -> Meaning(m[1].w, m[1].s, LAMBDA sg, k :
                          IF n < k THEN m[1].at[sg][k] \div (2 ^ n) ELSE 0)
    [] op = "ArithRShift" -> Meaning(m[1].w, m[1].s, LAMBDA sg, k :
                          AsInteger(m[1].at[sg][k], k, sg) \div (2 ^ (IF n < k THEN n ELSE k)))
    [] op \in Relations -> Truth(Compared(op, m[1], m[2]))
    [] op = "LogAnd" -> Truth(Self(m[1]) # 0 /\ n # 0)
    [] op = "LogOr" -> Truth(Self(m[1]) # 0 \/ n # 0)
    [] op = "Not" -> Truth(Self(m[1]) = 0)
    [] op = "Minus" -> Meaning(m[1].w, m[1].s, LAMBDA sg, k : -m[1].at[sg][k])
    [] op = "BitNeg" -> Meaning(m[1].w, m[1].s, LAMBDA sg, k : -m[1].at[sg][k] - 1)
    [] op = "UnaryAnd" -> one(LAMBDA k : k = m[1].w)
    [] op = "UnaryNand" -> one(LAMBDA k : k # m[1].w)
    [] op = "UnaryOr" -> one(LAMBDA k : k # 0)
    [] op = "UnaryNor" -> one(LAMBDA k : k = 0)
    [] op = "UnaryXor" -> one(LAMBDA k : k % 2 = 1)
    [] op = "UnaryXNor" -> one(LAMBDA k : k % 2 = 0)
    [] op = "Inside" -> Truth(Compared("Eq", m[1], m[2]) \/ Compared("Eq", m[1], m[3]))
    [] op = "Condition" ->
         LET chosen == IF Self(m[1]) # 0 THEN m[2] ELSE m[3]
         IN  Meaning(Wide(m[2], m[3].w), m[2].s /\ m[3].s, LAMBDA sg, k : chosen.at[sg][k])
    [] op = "Concat" -> OfBits(Bits(m[1]) \o Bits(m[2]))
    [] op = "Reordered" -> OfBits(Bits(m[2]) \o Bits(m[1]))
    [] op = "MultiConcat" ->
         IF Self(m[1]) > Word THEN Unknown ELSE OfBits(FlattenSeq([i \in 1 .. Self(m[1]) |-> Bits(m[2])]))
    [] op = "Cast" ->
         LET to == CASE par = "int" -> Half [] par = "bit" -> 1
                     [] par = "short_int" -> Quarter [] OTHER -> Word
         IN  Sized(m[1].at[m[1].s][Wide(m[1], to)], to, par \in {"int", "long_int", "short_int"})
    [] op = "SizeCast" -> Sized(Resized(m[1], par), par, m[1].s)
    [] op = "Clog2" ->
         Sized(CHOOSE k \in 0 .. Word : /\ 2 ^ k >= Self(m[1])
                                        /\ k > 0 => 2 ^ (k - 1) < Self(m[1]), Half, TRUE)
    [] op \in {"Signed", "SignedTyped"} -> Sized(Self(m[1]), m[1].w, TRUE)
    [] op = "Unsigned" -> Sized(Self(m[1]), m[1].w, FALSE)
    [] op = "BitSelect" ->
         LET i == IF m[1].up THEN m[1].w - 1 - n ELSE n IN Slice(m[1], i, i)
    [] op = "PartSelect" ->
         IF par[1] > par[2] THEN Slice(m[1], par[1], par[2]) ELSE Slice(m[1], par[2], par[1])
    [] op = "PosIndexed" -> Slice(m[1], par[1] + par[2] - 1, par[1])
    [] op = "NegIndexed" -> Slice(m[1], par[1], par[1] - par[2] + 1)

-----------------------------------------------------------------------------
(* What an operator must be given to be right.                             *)
(* Agrees: the constant has the low bits of the meaning in that context.   *)
(* Reads: it is the number of the meaning in that context, which matters   *)
(* where high bits reach the result.  Stands: '1 stands for as many ones   *)
(* as its context wants, as long as it is handed on as it is.              *)
Agrees(c, m, s, k) == Low(get_value(c).val, k) = m.at[s][k]
Stands(c, m, s, k) == IF c.ones THEN m.at[s][k] = 2 ^ k - 1 ELSE Agrees(c, m, s, k)
Reads(c, m, s, k) == get_value(c).val = AsInteger(m.at[s][k], k, s)
ReadsSelf(c, m) == Reads(c, m, m.s, m.w)
AgreesSelf(c, m) == Agrees(c, m, m.s, m.w)
Plain(c, m) == AgreesSelf(c, m) /\ c.size = m.w /\ ~c.ones

\* toBinary reads an octal digit as four bits, and a UINT text with a minus
\* sign (a cast of a negative number to int) as 0.
ReadsAsBits(c) == /\ c.type = "OCT" => Len(c.text) = 1
                  /\ c.type = "UINT" => c.text[1] >= 0

\* The operators over these constants (as changed) that the evaluator folds
\* as the language says.  The operands must be right, and beyond that:
Sound(op, par, c, m) ==
  LET both == Common(m[1], m[2])
      each(P(_, _)) == \A i \in DOMAIN c : P(c[i], m[i])
      exactly == \A i \in 1 .. 2 : Reads(c[i], m[i], both.s, both.k)
      \* meanings have at most Word bits (bound)
      fits == OperatorMeaning(op, par, m).known
      amount == Reads(c[2], m[2], FALSE, m[2].w) /\ get_value(c[2]).val \in 0 .. Word - 1
  IN
  CASE op \in {"Add", "Sub", "Mult", "BitAnd", "BitOr", "BitXor"} ->
         \* fill literals are not extended to the other operand,
         /\ \A i \in 1 .. 2 : c[i].size # -1 /\ Agrees(c[i], m[i], both.s, both.k)
    [] op \in {"Div", "Mod"} \cup Relations -> exactly
    [] op = "Power" ->
         /\ fits /\ each(ReadsSelf)
         /\ get_value(c[2]).val >= 0 =>
              Magnitude(Bounded(get_value(c[1]).val, get_value(c[2]).val)) < 2 ^ (Word - 1)
    [] op = "LShift" -> AgreesSelf(c[1], m[1]) /\ amount
         \* a shift to the right brings in zeros only,
    [] op \in {"RShift", "ArithRShift"} -> Reads(c[1], m[1], FALSE, m[1].w) /\ amount
                                           /\ (op = "ArithRShift" /\ m[1].s => get_value(c[1]).val < 2 ^ (m[1].w - 1))
    [] op \in {"LogAnd", "LogOr", "Not"} -> each(ReadsSelf)
    [] op = "Minus" -> AgreesSelf(c[1], m[1])
         \* the complement of a marked constant is that of a bit, and that of a
         \* replication of an int,
    [] op = "BitNeg" -> /\ AgreesSelf(c[1], m[1])
                        /\ c[1].ts = SignedMark => m[1].w = 1
                        /\ c[1].ts.kind = "word" => m[1].w <= Half
    [] op = "UnaryAnd" -> Plain(c[1], m[1])
         \* these two look at 32 bits, whatever the width,
    [] op = "UnaryNand" -> Reads(c[1], m[1], FALSE, m[1].w) /\ m[1].w = Half
    [] op = "UnaryOr" -> Reads(c[1], m[1], FALSE, m[1].w) /\ m[1].w <= Half
    [] op \in {"UnaryNor", "UnaryXor", "UnaryXNor"} -> Reads(c[1], m[1], FALSE, m[1].w)
    [] op = "Inside" ->
         /\ exactly
         /\ LET other == Common(m[1], m[3])
            IN  \A i \in {1, 3} : Reads(c[i], m[i], other.s, other.k)
    [] op = "Condition" ->
         LET chosen == IF get_value(c[1]).val # 0 THEN 2 ELSE 3
             k == Wide(m[2], m[3].w)
         IN  ReadsSelf(c[1], m[1]) /\ Stands(c[chosen], m[chosen], m[2].s /\ m[3].s, k)
    [] op = "Concat" -> fits /\ each(Plain) /\ each(LAMBDA d, n : d.type = "UINT" => d.text[1] >= 0)
         \* the filling of a short operand ends up below it,
    [] op = "Reordered" ->
         /\ fits /\ each(Plain) /\ each(LAMBDA d, n : d.type = "UINT" => d.text[1] >= 0)
         /\ each(LAMBDA d, n : d.type \in {"BIN", "HEX"} =>
                   Len(d.text) * (IF d.type = "BIN" THEN 1 ELSE 4) >= d.size)
         \* hexadecimal and octal texts are repeated by the digit,
    [] op = "MultiConcat" ->
         /\ ReadsSelf(c[1], m[1]) /\ get_value(c[1]).val \in 0 .. MaxRepeat
         /\ fits /\ Plain(c[2], m[2])
         /\ c[2].type = "HEX" => c[2].size = 4 * Len(c[2].text)
         /\ c[2].type = "OCT" => c[2].size = 3 * Len(c[2].text)
         /\ c[2].type \notin {"BIN", "HEX", "OCT"} => Reads(c[2], m[2], FALSE, m[2].w)
    [] op = "Cast" -> Low(get_value(c[1]).val, Word) = m[1].at[m[1].s][Word]
         \* a cast to 64 bits may give 0,
    [] op = "SizeCast" ->
         par < Word /\ Low(get_value(c[1]).val, par) = Resized(m[1], par)
    [] op = "Clog2" -> Reads(c[1], m[1], FALSE, m[1].w)
         \* $signed without a typespec negates what is below the sign bit,
    [] op = "Signed" -> /\ AgreesSelf(c[1], m[1])
                        /\ c[1].type \notin {"INT", "DEC"} =>
                             c[1].size = m[1].w /\ Bit(Self(m[1]), m[1].w - 1) = 0
    [] op = "SignedTyped" -> AgreesSelf(c[1], m[1])
    [] op = "Unsigned" -> AgreesSelf(c[1], m[1]) /\ c[1].size >= m[1].w
         \* a bit of a replication is a word of it, a place outside is 0, and
         \* parts are counted from the end even where the range goes up.
    [] op = "BitSelect" ->
         /\ AgreesSelf(c[1], m[1]) /\ ReadsAsBits(c[1]) /\ ~c[1].ones
         /\ c[1].ts.kind # "word" /\ m[1].up = (c[1].ts.kind = "up")
         /\ m[1].up => Plain(c[1], m[1])
         /\ Reads(c[2], m[2], FALSE, m[2].w) /\ get_value(c[2]).val < m[1].w
    [] op \in {"PartSelect", "PosIndexed"} ->
         /\ AgreesSelf(c[1], m[1]) /\ ReadsAsBits(c[1]) /\ ~c[1].ones /\ ~m[1].up
         /\ fits
         \* [base -: width] is read one place too low.
    [] op = "NegIndexed" -> FALSE

-----------------------------------------------------------------------------
InitWithMeaning ==
  /\ Init
  /\ mean = [i \in DOMAIN node |->
               IF node[i].cell = 0 THEN Unknown ELSE LiteralMeaning(cell[i])]

NextWithMeaning ==
  /\ Next
  /\ LET n == node'[Len(node')]
         m == [k \in DOMAIN n.args |-> mean[n.args[k]]]
     IN  mean' = Append(mean, IF \A k \in DOMAIN m : m[k].known
                              THEN OperatorMeaning(n.op, n.par, m) ELSE Unknown)

SpecWithMeaning == InitWithMeaning /\ [][NextWithMeaning]_varsWithMeaning

\* A constant that is made of operands that are right themselves is right: its
\* low bits, as many as the expression has in the language, are those of its
\* value; and no constant is made of an operand that is none, nor where the
\* language has no value (a division by zero).  Outside of this lie the
\* departures that Sound names.  (reduceExpr; seen at the node
\* made last, over its operands as they are after the step.)
FoldsLikeTheLanguage ==
  LET n == node[Len(node)]
      c == [k \in DOMAIN n.args |-> At(n.args[k])]
      m == [k \in DOMAIN n.args |-> mean[n.args[k]]]
      made == At(Len(node))
      meant == mean[Len(node)]
  IN  n.op # "Literal" =>
        IF \E k \in DOMAIN c : c[k].type = "NONE"
        THEN n.op \notin {"Condition", "Inside"} => made.type = "NONE"
        ELSE (\A k \in DOMAIN m : m[k].known) =>
               (Sound(n.op, n.par, c, m) /\ made.type # "NONE" =>
                  meant.known /\ get_value(made).ok /\ Stands(made, meant, meant.s, meant.w))
=============================================================================
