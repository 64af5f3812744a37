------------------------- MODULE MCConstantFolding -------------------------
(***************************************************************************)
(* ConstantFolding on words of 10 bits (64 in the code, int 5, short 3),   *)
(* started from pairs of literals: every kind of text, texts shorter and   *)
(* longer than their size, both fill literals, the largest unsigned word,  *)
(* and a vector whose range goes up.                                       *)
(***************************************************************************)
EXTENDS ExpressionLanguage

Bin5 == Bin(<<1, 0, 1>>, 3)          \* 3'b101
Short == Bin(<<1>>, 2)               \* 2'b1, whose text is shorter
Hex == Const("HEX", <<6>>, 3)        \* 3'h6, whose text has four bits
Hex2 == Const("HEX", <<1, 2>>, 8)
Oct == Const("OCT", <<5, 2>>, 6)     \* 6'o52
Dec == Const("DEC", <<5>>, 3)
Two == SInt(2, Word)                 \* 2
Seven == SInt(7, Word)
UInt2 == UInt(3, 2)
Huge == UInt(2 ^ Word - 1, Word)
AllOnes == [Const("BIN", <<1>>, -1) EXCEPT !.ones = TRUE]  \* '1
AllZeros == Const("BIN", <<0>>, -1)                        \* '0
Up == [Bin(<<1, 1, 0>>, 3) EXCEPT !.ts = [kind |-> "up", n |-> 3]]

MCPools == {<<Bin5>>, <<Short, Hex>>, <<Oct, Two>>, <<AllOnes, Bin5>>,
            <<AllOnes, AllZeros>>, <<Up, Dec>>, <<Hex2, Seven>>, <<Huge, UInt2>>}

MCUnaryOps == {"Minus", "BitNeg", "Not", "UnaryAnd", "UnaryNand", "UnaryOr",
               "UnaryNor", "UnaryXor", "UnaryXNor", "Cast", "SizeCast", "Clog2",
               "Signed", "SignedTyped", "Unsigned",
               "PartSelect", "PosIndexed", "NegIndexed"}
MCBinaryOps == {"RShift", "ArithRShift", "LShift", "Add", "Sub", "Mult", "Div",
                "Mod", "Power", "BitAnd", "BitOr", "BitXor", "LogAnd", "LogOr",
                "Concat", "Reordered", "MultiConcat", "BitSelect", "Eq", "Lt", "Ge"}
MCTernaryOps == {"Inside", "Condition"}
MCParameters ==
  [op \in MCUnaryOps |->
     CASE op = "Cast" -> {"int", "bit", "short_int", "long_int", "enum"}
       [] op = "SizeCast" -> {2, 4, Word}
       [] op = "PartSelect" -> {<<1, 0>>, <<1, 2>>, <<9, 1>>}
       [] op \in {"PosIndexed", "NegIndexed"} -> {<<1, 2>>, <<2, 1>>}
       [] OTHER -> {0}]
=============================================================================
