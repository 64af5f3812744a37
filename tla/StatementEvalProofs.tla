------------------------ MODULE StatementEvalProofs ------------------------
(***************************************************************************)
(* Proofs about the evaluation of constant functions, for any functions    *)
(* and any width of the values: its state is well formed, and a block that *)
(* finds a vector of values gives the variables it declares their outer    *)
(* bindings back.                                                          *)
(***************************************************************************)
EXTENDS StatementEval, CommonLemmas

\* Bindings of variables.
IsMap(g) == g = [n \in DOMAIN g |-> g[n]] /\ DOMAIN g \subseteq Var

\* An activation of evalBlock_: with a vector it shadows what the block declares
\* and holds the bindings from before, without one it shadows nothing.
IsBlock(f) ==
  /\ f = [at |-> "block", rest |-> f.rest, begun |-> f.begun, shadowed |-> f.shadowed,
          savedValues |-> f.savedValues, savedLocals |-> f.savedLocals,
          hadAssigns |-> f.hadAssigns, declares |-> f.declares, before |-> f.before]
  /\ f.rest \in Seq(Statements)
  /\ f.shadowed \subseteq Var /\ f.savedLocals \subseteq Var
  /\ IsMap(f.savedValues) /\ DOMAIN f.savedValues \subseteq f.shadowed
  /\ f.hadAssigns => f.shadowed = f.declares /\ f.savedValues = f.before
  /\ ~ f.hadAssigns => f.shadowed = {}

IsFrame(f) ==
  /\ f.at \in {"body", "stmt", "block", "test", "ran", "do", "repeat"}
  /\ f.at = "body" => f = [at |-> "body", rest |-> f.rest] /\ f.rest \in Seq(Statements)
  /\ f.at \in {"stmt", "test", "ran", "do", "repeat"} => f.stmt \in Statements
  /\ f.at \in {"test", "ran"} => f = [at |-> f.at, stmt |-> f.stmt]
                                 /\ f.stmt.op \in {"for", "while"}
  /\ f.at = "do" => f.stmt.op = "do"
  /\ f.at = "repeat" => f = [at |-> "repeat", stmt |-> f.stmt, left |-> f.left]
                        /\ f.stmt.op = "repeat"
  /\ f.at = "block" => IsBlock(f)

\* A frame that found a vector of values: then there is one.
IsSound(f, vector) == IsFrame(f) /\ (f.at = "block" /\ f.hadAssigns => vector)

\* The values a frame has put aside are words.
IsKnown(f) ==
  f.at = "block" => \A n \in DOMAIN f.savedValues : f.savedValues[n] \in Words

(***************************************************************************)
(* The invariant.  KnownStack and KnownValues are apart: they need that no *)
(* assignment reads a variable without a value.                            *)
(***************************************************************************)
StackInv == \E S : stack \in Seq(S) /\ \A f \in S : IsSound(f, hasAssigns)
KnownStack == \E S : stack \in Seq(S) /\ \A f \in S : IsKnown(f)
KnownValues == \A n \in DOMAIN values : values[n] \in Words

DataInv ==
  /\ hasAssigns \in BOOLEAN
  /\ IsMap(values) /\ (DOMAIN values # {} => hasAssigns)
  /\ localVars \subseteq Var
  /\ continueFlag \in BOOLEAN /\ breakFlag \in BOOLEAN /\ returnFlag \in BOOLEAN
  /\ invalid \in BOOLEAN

\* What the statements that are run next read, they find.
ReadsKnown ==
  stack # <<>> /\ Top.at = "stmt" /\ ~ invalid =>
    /\ Top.stmt.op = "assign" => Value(Top.stmt.rhs) # None
    /\ Top.stmt.op = "return" /\ Top.stmt.value # None => Value(Top.stmt.value) # None

-----------------------------------------------------------------------------
(***************************************************************************)
(* Values.                                                                 *)
(***************************************************************************)
\* The words include 0 and 1, and every number is wrapped into one.
LEMMA WordsFacts ==
  /\ Words \subseteq Int /\ 0 \in Words /\ 1 \in Words
  /\ \A n \in Int : Wrap(n) \in Words
<1> DEFINE h == 2 ^ (Bits - 1)
           p == 2 ^ Bits
<1>1. h \in Nat /\ h >= 2 /\ p = 2 * h
  <2>1. Bits - 2 \in Nat /\ Bits - 1 \in Nat /\ (Bits - 2) + 1 = Bits - 1
        /\ (Bits - 1) + 1 = Bits
    BY BitsAssumption
  <2>2. h = 2 * (2 ^ (Bits - 2)) /\ p = 2 * h
    BY <2>1, PowerDoubles
  <2>3. 2 ^ (Bits - 2) \in Nat /\ 2 ^ (Bits - 2) > 0
    BY <2>1, PowerPositive
  <2> DEFINE q == 2 ^ (Bits - 2)
  <2>4. q \in Nat /\ q > 0 /\ h = 2 * q /\ p = 2 * h
    BY <2>2, <2>3
  <2> HIDE DEF q, h, p
  <2> QED
    BY <2>4
<1>2. Words = (-h) .. (h - 1)
  BY DEF Words
<1>3. \A n \in Int : Wrap(n) = ((n + h) % p) - h
  BY DEF Wrap
<1> HIDE DEF h, p
<1>4. \A n \in Int : Wrap(n) \in Words
  <2> TAKE n \in Int
  <2> DEFINE m == n + h
  <2>1. m \in Int /\ p \in Nat /\ p > 0
    BY <1>1
  <2> HIDE DEF m
  <2>2. m % p \in 0 .. p - 1
    BY <2>1
  <2> DEFINE r == m % p
  <2>3. Wrap(n) = r - h /\ r \in 0 .. p - 1
    BY <1>3, <2>2 DEF m
  <2> HIDE DEF r
  <2> QED
    BY <1>1, <1>2, <2>3
<1> QED
  BY <1>1, <1>2, <1>4

\* An expression over words has a word for its value, or none.
LEMMA ValueFacts ==
  ASSUME NEW e \in Expressions, KnownValues
  PROVE  Value(e) = None \/ Value(e) \in Words
<1>1. e.mul \in Int /\ e.add \in Int /\ e.rel \in {"no", "=", "<"}
  BY DEF Expressions
<1>2. \A x \in Int : Apply(e, x) \in Words
  <2> TAKE x \in Int
  <2> DEFINE n == e.mul * x + e.add
  <2>1. n \in Int
    BY <1>1
  <2>2. Apply(e, x) = CASE e.rel = "=" -> IF n = 0 THEN 1 ELSE 0
                        [] e.rel = "<" -> IF n < 0 THEN 1 ELSE 0
                        [] OTHER -> Wrap(n)
    BY DEF Apply
  <2> HIDE DEF n
  <2>3. Wrap(n) \in Words
    BY <2>1, WordsFacts
  <2> QED
    BY <2>2, <2>3, WordsFacts
<1>3. e.var \in DOMAIN values => values[e.var] \in Int
  BY WordsFacts DEF KnownValues
<1> QED
  BY <1>2, <1>3 DEF Value

-----------------------------------------------------------------------------
(***************************************************************************)
(* The stack.                                                              *)
(***************************************************************************)
\* The innermost activation is sound, and known with the others.
LEMMA TopFacts ==
  ASSUME StackInv, stack # <<>>
  PROVE  /\ IsSound(Top, hasAssigns)
         /\ KnownStack => IsKnown(Top)
<1>1. PICK S : stack \in Seq(S) /\ \A f \in S : IsSound(f, hasAssigns)
  BY DEF StackInv
<1>2. \A T : stack \in Seq(T) => Top \in T
  BY <1>1 DEF Top, Last
<1> QED
  BY <1>1, <1>2 DEF KnownStack

\* A step that leaves some frames for the innermost activation.
LEMMA Resumed ==
  ASSUME NEW S, NEW T, NEW frames, stack \in Seq(S), frames \in Seq(T), stack # <<>>,
         Resume(frames)
  PROVE  stack' \in Seq(S \cup T)
<1>1. stack' = Front(stack) \o frames
  BY DEF Resume
<1>2. Front(stack) \in Seq(S)
  BY DEF Front
<1> DEFINE U == S \cup T
<1>3. \A V, s : s \in Seq(V) /\ V \subseteq U => s \in Seq(U)
  <2> SUFFICES ASSUME NEW V, NEW s \in Seq(V), V \subseteq U
               PROVE  s \in Seq(U)
    OBVIOUS
  <2> HIDE DEF U
  <2>1. \A i \in 1 .. Len(s) : s[i] \in U
    OBVIOUS
  <2> QED
    BY <2>1
<1>4. Front(stack) \in Seq(U) /\ frames \in Seq(U)
  BY <1>2, <1>3
<1> HIDE DEF U
<1>5. stack' \in Seq(U)
  BY <1>1, <1>4
<1> QED
  BY <1>5 DEF U

\* If they are sound, the stack is still sound, and known if they are known.
LEMMA StackStep ==
  ASSUME StackInv, stack # <<>>, NEW T, NEW frames \in Seq(T), Resume(frames),
         hasAssigns => hasAssigns',
         \A f \in T : IsSound(f, hasAssigns')
  PROVE  /\ StackInv'
         /\ KnownStack /\ (\A f \in T : IsKnown(f)) => KnownStack'
<1>1. PICK S : stack \in Seq(S) /\ \A f \in S : IsSound(f, hasAssigns)
  BY DEF StackInv
<1>2. \A f \in S : IsSound(f, hasAssigns')
  BY <1>1 DEF IsSound
<1>3. stack' \in Seq(S \cup T)
  BY <1>1, Resumed
<1>4. StackInv'
  <2> DEFINE U == S \cup T
  <2>1. stack' \in Seq(U) /\ \A f \in U : IsSound(f, hasAssigns')
    BY <1>2, <1>3
  <2> HIDE DEF U
  <2> QED
    BY <2>1 DEF StackInv
<1>5. ASSUME KnownStack, \A f \in T : IsKnown(f)
      PROVE  KnownStack'
  <2>1. PICK R : stack \in Seq(R) /\ \A f \in R : IsKnown(f)
    BY <1>5 DEF KnownStack
  <2>2. stack' \in Seq(R \cup T)
    BY <2>1, Resumed
  <2> DEFINE U == R \cup T
  <2>3. stack' \in Seq(U) /\ \A f \in U : IsKnown(f)
    BY <1>5, <2>1, <2>2
  <2> HIDE DEF U
  <2> QED
    BY <2>3 DEF KnownStack
<1> QED
  BY <1>4, <1>5

\* The same for a step that leaves no frame.
LEMMA StackPop ==
  ASSUME StackInv, stack # <<>>, Pop, hasAssigns => hasAssigns'
  PROVE  StackInv' /\ (KnownStack => KnownStack')
<1> DEFINE none == <<>>
           T == {}
<1>1. none \in Seq(T) /\ \A f \in T : IsSound(f, hasAssigns') /\ IsKnown(f)
  OBVIOUS
<1>2. Resume(none)
  BY DEF Pop
<1> HIDE DEF none, T
<1> QED
  BY <1>1, <1>2, StackStep

\* One frame is left.
LEMMA StackOne ==
  ASSUME StackInv, stack # <<>>, NEW f, Resume(<<f>>), hasAssigns => hasAssigns',
         IsSound(f, hasAssigns')
  PROVE  StackInv' /\ (KnownStack /\ IsKnown(f) => KnownStack')
<1> DEFINE T == {f}
           one == <<f>>
<1>1. one \in Seq(T) /\ (\A g \in T : g = f) /\ Resume(one)
  OBVIOUS
<1> HIDE DEF T, one
<1> QED
  BY <1>1, StackStep

\* Two frames are left.
LEMMA StackTwo ==
  ASSUME StackInv, stack # <<>>, NEW f, NEW g, Resume(<<f, g>>), hasAssigns => hasAssigns',
         IsSound(f, hasAssigns'), IsSound(g, hasAssigns')
  PROVE  StackInv' /\ (KnownStack /\ IsKnown(f) /\ IsKnown(g) => KnownStack')
<1> DEFINE T == {f, g}
           two == <<f, g>>
<1>1. two \in Seq(T) /\ (\A x \in T : x = f \/ x = g) /\ Resume(two)
  OBVIOUS
<1> HIDE DEF T, two
<1> QED
  BY <1>1, StackStep

\* Statements of the tree.
LEMMA StatementFacts ==
  ASSUME NEW s \in Statements
  PROVE  IsStatement(s, Statements)
BY FuncsAssumption

\* Frames that are made of statements.
LEMMA FreshFrames ==
  ASSUME NEW s \in Statements, NEW vector
  PROVE  /\ IsSound(Eval(s), vector) /\ IsKnown(Eval(s))
         /\ \A place \in {"test", "ran"} : s.op \in {"for", "while"} =>
              IsSound([at |-> place, stmt |-> s], vector) /\ IsKnown([at |-> place, stmt |-> s])
         /\ s.op = "do" => IsSound([at |-> "do", stmt |-> s], vector)
                           /\ IsKnown([at |-> "do", stmt |-> s])
         /\ s.op = "repeat" => \A n : IsSound([at |-> "repeat", stmt |-> s, left |-> n], vector)
                                      /\ IsKnown([at |-> "repeat", stmt |-> s, left |-> n])
<1>1. IsSound(Eval(s), vector) /\ IsKnown(Eval(s))
  BY DEF Eval, IsSound, IsFrame, IsKnown
<1>2. ASSUME NEW place \in {"test", "ran"}, s.op \in {"for", "while"}
      PROVE  IsSound([at |-> place, stmt |-> s], vector) /\ IsKnown([at |-> place, stmt |-> s])
  BY <1>2 DEF IsSound, IsFrame, IsKnown
<1>3. s.op = "do" => IsSound([at |-> "do", stmt |-> s], vector)
                     /\ IsKnown([at |-> "do", stmt |-> s])
  BY DEF IsSound, IsFrame, IsKnown
<1>4. ASSUME s.op = "repeat", NEW n
      PROVE  IsSound([at |-> "repeat", stmt |-> s, left |-> n], vector)
             /\ IsKnown([at |-> "repeat", stmt |-> s, left |-> n])
  BY <1>4 DEF IsSound, IsFrame, IsKnown
<1> QED
  BY <1>1, <1>2, <1>3, <1>4

\* Statements that are to be run one after the other.
LEMMA EvalAllFacts ==
  ASSUME NEW stmts \in Seq(Statements), NEW vector
  PROVE  \E T : /\ EvalAll(stmts) \in Seq(T)
                /\ \A f \in T : IsSound(f, vector) /\ IsKnown(f)
<1> DEFINE T == {Eval(s) : s \in Statements}
           row == [i \in DOMAIN stmts |-> Eval(stmts[i])]
<1>1. row \in Seq(T) /\ Len(row) = Len(stmts)
  <2>1. DOMAIN stmts = 1 .. Len(stmts) /\ Len(stmts) \in Nat
        /\ \A i \in 1 .. Len(stmts) : stmts[i] \in Statements
    OBVIOUS
  <2>2. \A i \in 1 .. Len(stmts) : row[i] \in T
    BY <2>1
  <2>3. row = [i \in 1 .. Len(stmts) |-> row[i]]
    BY <2>1
  <2> HIDE DEF row, T
  <2> QED
    BY <2>1, <2>2, <2>3
<1>2. \A f \in T : IsSound(f, vector) /\ IsKnown(f)
  BY FreshFrames
<1>3. Reverse(row) \in Seq(T)
  <2> HIDE DEF row, T
  <2>1. Reverse(row) = [i \in 1 .. Len(row) |-> row[(Len(row) - i) + 1]]
    BY DEF Reverse
  <2>2. Len(row) \in Nat /\ \A i \in 1 .. Len(row) : row[(Len(row) - i) + 1] \in T
    BY <1>1
  <2> QED
    BY <2>1, <2>2
<1>4. EvalAll(stmts) = Reverse(row)
  BY DEF EvalAll
<1> HIDE DEF row, T
<1> QED
  BY <1>2, <1>3, <1>4

-----------------------------------------------------------------------------
(***************************************************************************)
(* The actions.                                                            *)
(***************************************************************************)
Keeps == /\ StackInv' /\ DataInv'
         /\ KnownStack /\ KnownValues /\ ReadsKnown => KnownStack' /\ KnownValues'

\* The statement that is evaluated is one of the tree.
LEMMA AtFacts ==
  ASSUME StackInv, NEW op, At(op)
  PROVE  stack # <<>> /\ Stmt \in Statements /\ IsStatement(Stmt, Statements) /\ Stmt.op = op
         /\ Top.at = "stmt" /\ ~ invalid
<1>1. stack # <<>> /\ Top.at = "stmt" /\ Stmt.op = op /\ ~ invalid
  BY DEF At, Stmt
<1>2. Stmt \in Statements
  BY <1>1, TopFacts DEF IsSound, IsFrame, Stmt
<1> QED
  BY <1>1, <1>2, StatementFacts

\* Values are not touched by most actions.
LEMMA SameData ==
  ASSUME DataInv, UNCHANGED data
  PROVE  /\ hasAssigns' = hasAssigns /\ values' = values
         /\ (continueFlag' \in BOOLEAN /\ breakFlag' \in BOOLEAN /\ returnFlag' \in BOOLEAN
             /\ invalid' \in BOOLEAN => DataInv')
         /\ (KnownValues => KnownValues')
<1>1. hasAssigns' = hasAssigns /\ values' = values /\ localVars' = localVars
  BY DEF data
<1> QED
  BY <1>1 DEF DataInv, KnownValues

\* The body of the function.
LEMMA BodyKeeps ==
  ASSUME StackInv, DataInv, BodyNext \/ BodyEnd
  PROVE  Keeps
<1>1. UNCHANGED <<data, flags, invalid>> /\ stack # <<>>
  BY DEF BodyNext, BodyEnd
<1>2. DataInv' /\ (KnownValues => KnownValues') /\ hasAssigns' = hasAssigns
  BY <1>1, SameData DEF flags, DataInv
<1>3. CASE BodyNext
  <2> DEFINE f == [Top EXCEPT !.rest = Tail(@)]
             g == Eval(Head(Top.rest))
  <2>1. /\ Top = [at |-> "body", rest |-> Top.rest] /\ Top.rest \in Seq(Statements)
        /\ Top.rest # <<>> /\ Resume(<<f, g>>)
    BY <1>1, <1>3, TopFacts DEF BodyNext, IsSound, IsFrame
  <2>2. Head(Top.rest) \in Statements /\ Tail(Top.rest) \in Seq(Statements)
    BY <2>1
  <2>3. f = [at |-> "body", rest |-> Tail(Top.rest)]
    <3> DEFINE t == Top
               r == t.rest
    <3>1. t = [at |-> "body", rest |-> r] /\ f = [t EXCEPT !.rest = Tail(@)]
      BY <2>1
    <3> HIDE DEF f, r
    <3>2. f = [at |-> "body", rest |-> Tail(r)]
      BY <3>1
    <3> QED
      BY <3>2 DEF r
  <2>4. IsSound(f, hasAssigns') /\ IsKnown(f)
    <3> HIDE DEF f
    <3> QED
      BY <2>2, <2>3 DEF IsSound, IsFrame, IsKnown
  <2>5. IsSound(g, hasAssigns') /\ IsKnown(g)
    BY <2>2, FreshFrames
  <2> HIDE DEF f, g
  <2>6. StackInv' /\ (KnownStack => KnownStack')
    BY <1>1, <1>2, <2>1, <2>4, <2>5, StackTwo
  <2> QED
    BY <1>2, <2>6 DEF Keeps
<1>4. CASE BodyEnd
  <2>1. StackInv' /\ (KnownStack => KnownStack')
    BY <1>1, <1>2, <1>4, StackPop DEF BodyEnd
  <2> QED
    BY <1>2, <2>1 DEF Keeps
<1> QED
  BY <1>3, <1>4

\* The jumps, and what is skipped.
LEMMA JumpKeeps ==
  ASSUME StackInv, DataInv, SkipInvalid \/ Continue \/ Break \/ Unsupported
  PROVE  Keeps
<1>1. UNCHANGED data /\ stack # <<>> /\ Pop
  BY DEF SkipInvalid, Continue, Break, Unsupported, At
<1>2. continueFlag' \in BOOLEAN /\ breakFlag' \in BOOLEAN /\ returnFlag' \in BOOLEAN
      /\ invalid' \in BOOLEAN
  BY DEF SkipInvalid, Continue, Break, Unsupported, flags, DataInv
<1>3. DataInv' /\ (KnownValues => KnownValues') /\ hasAssigns' = hasAssigns
  BY <1>1, <1>2, SameData
<1>4. StackInv' /\ (KnownStack => KnownStack')
  BY <1>1, <1>3, StackPop
<1> QED
  BY <1>3, <1>4 DEF Keeps

\* setValueInInstance.
LEMMA SetValueFacts ==
  ASSUME DataInv, NEW n \in Var, NEW x, SetValue(n, x)
  PROVE  /\ hasAssigns' = TRUE /\ IsMap(values') /\ localVars' = localVars
         /\ (KnownValues /\ x \in Words => KnownValues')
<1>1. values' = [v \in DOMAIN values \cup {n} |-> IF v = n THEN x ELSE values[v]]
      /\ hasAssigns' = TRUE /\ localVars' = localVars
  BY DEF SetValue, Assigned
<1>2. DOMAIN values \subseteq Var
  BY DEF DataInv, IsMap
<1> QED
  BY <1>1, <1>2 DEF IsMap, KnownValues

\* An assignment binds its variable.
LEMMA AssignmentKeeps ==
  ASSUME StackInv, DataInv, Assignment
  PROVE  Keeps
<1>1. /\ At("assign") /\ SetValue(Stmt.var, Value(Stmt.rhs)) /\ Pop
      /\ UNCHANGED <<flags, invalid>>
  BY DEF Assignment
<1>2. /\ stack # <<>> /\ IsStatement(Stmt, Statements) /\ Stmt.op = "assign"
      /\ Top.at = "stmt" /\ ~ invalid
  BY <1>1, AtFacts
<1>3. Stmt.var \in Var /\ Stmt.rhs \in Expressions
  BY <1>2 DEF IsStatement
<1>4. /\ hasAssigns' = TRUE /\ IsMap(values') /\ localVars' = localVars
      /\ (KnownValues /\ Value(Stmt.rhs) \in Words => KnownValues')
  BY <1>1, <1>3, SetValueFacts
<1>5. DataInv'
  BY <1>1, <1>4 DEF DataInv, flags
<1>6. KnownValues /\ ReadsKnown => Value(Stmt.rhs) \in Words
  BY <1>2, <1>3, ValueFacts DEF ReadsKnown, Stmt
<1>7. StackInv' /\ (KnownStack => KnownStack')
  BY <1>1, <1>2, <1>4, StackPop
<1> QED
  BY <1>4, <1>5, <1>6, <1>7 DEF Keeps

\* A return binds the name of the function, or does nothing.
LEMMA ReturnKeeps ==
  ASSUME StackInv, DataInv, Return
  PROVE  Keeps
<1>1. At("return") /\ Pop /\ UNCHANGED invalid
  BY DEF Return
<1>2. /\ stack # <<>> /\ IsStatement(Stmt, Statements) /\ Stmt.op = "return"
      /\ Top.at = "stmt" /\ ~ invalid
  BY <1>1, AtFacts
<1>3. CASE Stmt.value = None
  <2>1. UNCHANGED <<data, flags>>
    BY <1>3 DEF Return
  <2>2. DataInv' /\ (KnownValues => KnownValues') /\ hasAssigns' = hasAssigns
    BY <1>1, <2>1, SameData DEF flags, DataInv
  <2>3. StackInv' /\ (KnownStack => KnownStack')
    BY <1>1, <1>2, <2>2, StackPop
  <2> QED
    BY <2>2, <2>3 DEF Keeps
<1>4. CASE Stmt.value # None
  <2>1. /\ SetValue(Result, Value(Stmt.value)) /\ returnFlag' = TRUE
        /\ UNCHANGED <<continueFlag, breakFlag>>
    BY <1>4 DEF Return
  <2>2. Stmt.value \in Expressions
    BY <1>2, <1>4 DEF IsStatement
  <2>3. /\ hasAssigns' = TRUE /\ IsMap(values') /\ localVars' = localVars
        /\ (KnownValues /\ Value(Stmt.value) \in Words => KnownValues')
    BY <2>1, ResultAssumption, SetValueFacts
  <2>4. DataInv'
    BY <1>1, <2>1, <2>3 DEF DataInv
  <2>5. KnownValues /\ ReadsKnown => Value(Stmt.value) \in Words
    BY <1>2, <1>4, <2>2, ValueFacts DEF ReadsKnown, Stmt
  <2>6. StackInv' /\ (KnownStack => KnownStack')
    BY <1>1, <1>2, <2>3, StackPop
  <2> QED
    BY <2>3, <2>4, <2>5, <2>6 DEF Keeps
<1> QED
  BY <1>3, <1>4

\* The conditional statements.
LEMMA BranchKeeps ==
  ASSUME StackInv, DataInv, IfElse \/ CaseStmt
  PROVE  Keeps
<1>1. UNCHANGED <<data, flags>> /\ Condition(Stmt.cond) /\ (At("if") \/ At("case"))
  BY DEF IfElse, CaseStmt
<1>2. stack # <<>> /\ IsStatement(Stmt, Statements)
  BY <1>1, AtFacts
<1>3. invalid' \in BOOLEAN
  BY <1>1 DEF Condition, DataInv
<1>4. DataInv' /\ (KnownValues => KnownValues') /\ hasAssigns' = hasAssigns
  BY <1>1, <1>3, SameData DEF flags, DataInv
<1>5. Pop \/ \E s \in Statements : Resume(<<Eval(s)>>)
  <2>1. CASE IfElse
    <3> DEFINE s == IF Cond(Stmt.cond) > 0 THEN Stmt.then ELSE Stmt.else
    <3>1. Stmt.op = "if"
      BY <2>1, AtFacts DEF IfElse
    <3>2. s = None \/ s \in Statements
      BY <1>2, <3>1 DEF IsStatement
    <3>3. Resume(IF s = None THEN <<>> ELSE <<Eval(s)>>)
      BY <2>1 DEF IfElse
    <3> HIDE DEF s
    <3>4. CASE s = None
      BY <3>3, <3>4 DEF Pop
    <3>5. CASE s # None
      BY <3>2, <3>3, <3>5
    <3> QED
      BY <3>4, <3>5
  <2>2. CASE CaseStmt
    <3>1. Stmt.op = "case"
      BY <2>2, AtFacts DEF CaseStmt
    <3>2. Pop \/ \E i \in DOMAIN Stmt.items : Resume(<<Eval(Stmt.items[i].stmt)>>)
      BY <2>2 DEF CaseStmt
    <3>3. \A i \in DOMAIN Stmt.items : Stmt.items[i].stmt \in Statements
      BY <1>2, <3>1 DEF IsStatement
    <3> QED
      BY <3>2, <3>3
  <2> QED
    BY <2>1, <2>2
<1>6. StackInv' /\ (KnownStack => KnownStack')
  <2>1. CASE Pop
    BY <1>2, <1>4, <2>1, StackPop
  <2>2. ASSUME NEW s \in Statements, Resume(<<Eval(s)>>)
        PROVE  StackInv' /\ (KnownStack => KnownStack')
    <3> DEFINE f == Eval(s)
    <3>1. IsSound(f, hasAssigns') /\ IsKnown(f) /\ Resume(<<f>>)
      BY <2>2, FreshFrames
    <3> HIDE DEF f
    <3> QED
      BY <1>2, <1>4, <3>1, StackOne
  <2> QED
    BY <1>5, <2>1, <2>2
<1> QED
  BY <1>4, <1>6 DEF Keeps

-----------------------------------------------------------------------------
(***************************************************************************)
(* Blocks.                                                                 *)
(***************************************************************************)
\* What is left of the bindings of some variables, and what is taken away.
LEMMA RestrictFacts ==
  ASSUME NEW g, IsMap(g), NEW names
  PROVE  /\ IsMap(Restricted(g, names)) /\ DOMAIN Restricted(g, names) = DOMAIN g \cap names
         /\ \A n \in DOMAIN Restricted(g, names) : Restricted(g, names)[n] = g[n]
         /\ IsMap(Without(g, names)) /\ DOMAIN Without(g, names) = DOMAIN g \ names
         /\ \A n \in DOMAIN Without(g, names) : Without(g, names)[n] = g[n]
<1>1. /\ Restricted(g, names) = [n \in DOMAIN g \cap names |-> g[n]]
      /\ Without(g, names) = [n \in DOMAIN g \ names |-> g[n]]
  BY DEF Restricted, Without, Restrict
<1> QED
  BY <1>1 DEF IsMap

\* The frame of a block that is entered is sound.
LEMMA EnterBlockKeeps ==
  ASSUME StackInv, DataInv, EnterBlock
  PROVE  Keeps
<1> DEFINE sh == IF hasAssigns THEN Stmt.vars ELSE {}
           saved == Restricted(values, sh)
           locals == localVars \cap sh
           before == Restricted(values, Stmt.vars)
           f == [at |-> "block", rest |-> Stmt.stmts, begun |-> FALSE, shadowed |-> sh,
                 savedValues |-> saved, savedLocals |-> locals, hadAssigns |-> hasAssigns,
                 declares |-> Stmt.vars, before |-> before]
<1>1. /\ At("block") /\ Resume(<<f>>)
      /\ values' = Without(values, sh) /\ localVars' = localVars \cup sh
      /\ hasAssigns' = hasAssigns /\ UNCHANGED <<flags, invalid>>
  BY DEF EnterBlock
<1>2. /\ stack # <<>> /\ Stmt.vars \subseteq Var /\ Stmt.stmts \in Seq(Statements)
  BY <1>1, AtFacts DEF IsStatement
<1>3. sh \subseteq Var /\ (hasAssigns => sh = Stmt.vars /\ saved = before)
      /\ (~ hasAssigns => sh = {})
  BY <1>2
<1>4. IsMap(values)
  BY DEF DataInv
<1> HIDE DEF sh
<1>5. /\ IsMap(saved) /\ DOMAIN saved = DOMAIN values \cap sh
      /\ \A n \in DOMAIN saved : saved[n] = values[n]
      /\ IsMap(Without(values, sh)) /\ DOMAIN Without(values, sh) = DOMAIN values \ sh
      /\ \A n \in DOMAIN Without(values, sh) : Without(values, sh)[n] = values[n]
  BY <1>4, RestrictFacts
<1>6. DataInv'
  <2>1. IsMap(values') /\ (DOMAIN values' # {} => hasAssigns')
    BY <1>1, <1>5 DEF DataInv
  <2>2. localVars' \subseteq Var
    BY <1>1, <1>3 DEF DataInv
  <2> QED
    BY <1>1, <2>1, <2>2 DEF DataInv, flags
<1>7. KnownValues => KnownValues'
  BY <1>1, <1>5 DEF KnownValues
<1>8. IsSound(f, hasAssigns')
  <2> HIDE DEF saved, before
  <2>1. IsBlock(f)
    BY <1>2, <1>3, <1>5 DEF IsBlock, DataInv
  <2> QED
    BY <1>1, <2>1 DEF IsSound, IsFrame
<1>9. KnownValues => IsKnown(f)
  <2> HIDE DEF saved, before
  <2> QED
    BY <1>5 DEF KnownValues, IsKnown
<1> HIDE DEF f
<1>10. StackInv' /\ (KnownStack /\ IsKnown(f) => KnownStack')
  BY <1>1, <1>2, <1>8, StackOne
<1> QED
  BY <1>6, <1>7, <1>9, <1>10 DEF Keeps

\* The next statement of a block.
LEMMA BlockNextKeeps ==
  ASSUME StackInv, DataInv, BlockNext
  PROVE  Keeps
<1> DEFINE t == Top
           f == [t EXCEPT !.rest = Tail(@), !.begun = TRUE]
           g == Eval(Head(t.rest))
<1>1. /\ stack # <<>> /\ t.at = "block" /\ t.rest # <<>> /\ Resume(<<f, g>>)
      /\ UNCHANGED <<data, flags, invalid>>
  BY DEF BlockNext
<1>2. DataInv' /\ (KnownValues => KnownValues') /\ hasAssigns' = hasAssigns
  BY <1>1, SameData DEF flags, DataInv
<1>3. IsBlock(t) /\ (t.hadAssigns => hasAssigns) /\ (KnownStack => IsKnown(t))
  BY <1>1, TopFacts DEF IsSound, IsFrame
<1>4. t.rest \in Seq(Statements)
  BY <1>3 DEF IsBlock
<1> HIDE DEF t
<1>5. Head(t.rest) \in Statements /\ Tail(t.rest) \in Seq(Statements)
  BY <1>1, <1>4
<1>6. f = [at |-> "block", rest |-> Tail(t.rest), begun |-> TRUE, shadowed |-> t.shadowed,
           savedValues |-> t.savedValues, savedLocals |-> t.savedLocals,
           hadAssigns |-> t.hadAssigns, declares |-> t.declares, before |-> t.before]
  <2> DEFINE r == t.rest
             b == t.begun
             s == t.shadowed
             v == t.savedValues
             l == t.savedLocals
             h == t.hadAssigns
             d == t.declares
             p == t.before
  <2>1. t = [at |-> "block", rest |-> r, begun |-> b, shadowed |-> s, savedValues |-> v,
             savedLocals |-> l, hadAssigns |-> h, declares |-> d, before |-> p]
    BY <1>3 DEF IsBlock
  <2>2. f = [[t EXCEPT !.rest = Tail(r)] EXCEPT !.begun = TRUE]
    OBVIOUS
  <2> HIDE DEF f, r, b, s, v, l, h, d, p
  <2>3. \A q : [t EXCEPT !.rest = q] =
                [at |-> "block", rest |-> q, begun |-> b, shadowed |-> s,
                 savedValues |-> v, savedLocals |-> l, hadAssigns |-> h, declares |-> d,
                 before |-> p]
    BY <2>1
  <2>4. f = [at |-> "block", rest |-> Tail(r), begun |-> TRUE, shadowed |-> s,
             savedValues |-> v, savedLocals |-> l, hadAssigns |-> h, declares |-> d,
             before |-> p]
    BY <2>2, <2>3
  <2> QED
    BY <2>4 DEF r, b, s, v, l, h, d, p
<1> HIDE DEF f
<1>7. IsBlock(f)
  BY <1>3, <1>5, <1>6 DEF IsBlock
<1>8. f.at = "block" /\ f.hadAssigns = t.hadAssigns /\ f.savedValues = t.savedValues
  BY <1>6
<1>9. IsSound(f, hasAssigns') /\ (KnownStack => IsKnown(f))
  BY <1>1, <1>2, <1>3, <1>7, <1>8 DEF IsSound, IsFrame, IsKnown
<1>10. IsSound(g, hasAssigns') /\ IsKnown(g)
  BY <1>5, FreshFrames
<1> HIDE DEF g
<1>11. StackInv' /\ (KnownStack /\ IsKnown(f) /\ IsKnown(g) => KnownStack')
  BY <1>1, <1>2, <1>9, <1>10, StackTwo
<1> QED
  BY <1>2, <1>9, <1>10, <1>11 DEF Keeps

\* What putting bindings back gives: where there are none, those of before.
LEMMA PutBackFacts ==
  ASSUME NEW g, IsMap(g), NEW saved, IsMap(saved), NEW names, DOMAIN saved \subseteq names,
         NEW b, b = PutBack(saved, Without(g, names))
  PROVE  /\ IsMap(b) /\ DOMAIN b = DOMAIN saved \cup (DOMAIN g \ names)
         /\ \A n \in DOMAIN b : b[n] = IF n \in DOMAIN saved THEN saved[n] ELSE g[n]
         /\ Restricted(b, names) = saved
<1> DEFINE w == Without(g, names)
<1>1. IsMap(w) /\ DOMAIN w = DOMAIN g \ names /\ \A n \in DOMAIN w : w[n] = g[n]
  BY RestrictFacts
<1>2. b = [v \in DOMAIN saved \cup DOMAIN w |-> IF v \in DOMAIN saved THEN saved[v] ELSE w[v]]
  BY DEF PutBack
<1> HIDE DEF w
<1>3. DOMAIN b = DOMAIN saved \cup (DOMAIN g \ names)
  BY <1>1, <1>2
<1>4. \A n \in DOMAIN b : b[n] = IF n \in DOMAIN saved THEN saved[n] ELSE g[n]
  BY <1>1, <1>2
<1>5. IsMap(b)
  <2>1. DOMAIN b \subseteq Var
    BY <1>3 DEF IsMap
  <2>2. b = [n \in DOMAIN b |-> b[n]]
    BY <1>2
  <2> QED
    BY <2>1, <2>2 DEF IsMap
<1>6. Restricted(b, names) = saved
  <2>1. Restricted(b, names) = [n \in DOMAIN b \cap names |-> b[n]]
    BY DEF Restricted, Restrict
  <2>2. DOMAIN b \cap names = DOMAIN saved
    BY <1>3
  <2>3. saved = [n \in DOMAIN saved |-> saved[n]]
    BY DEF IsMap
  <2>4. \A n \in DOMAIN saved : b[n] = saved[n]
    BY <1>3, <1>4
  <2>5. [n \in DOMAIN saved |-> b[n]] = [n \in DOMAIN saved |-> saved[n]]
    BY <2>4
  <2> QED
    BY <2>1, <2>2, <2>3, <2>5
<1> QED
  BY <1>3, <1>4, <1>5, <1>6

\* What a block that is left leaves behind.
LEMMA LeaveBlockFacts ==
  ASSUME StackInv, DataInv, LeaveBlock
  PROVE  /\ stack # <<>> /\ Pop /\ Top.at = "block" /\ IsBlock(Top)
         /\ (Top.hadAssigns => hasAssigns) /\ (KnownStack => IsKnown(Top))
         /\ IsMap(values')
         /\ DOMAIN values' = DOMAIN Top.savedValues \cup (DOMAIN values \ Top.shadowed)
         /\ \A n \in DOMAIN values' :
              values'[n] = IF n \in DOMAIN Top.savedValues THEN Top.savedValues[n]
                                                           ELSE values[n]
         /\ Restricted(values', Top.shadowed) = Top.savedValues
<1> DEFINE t == Top
           saved == t.savedValues
           names == t.shadowed
<1>1. /\ stack # <<>> /\ t.at = "block" /\ Pop
      /\ values' = PutBack(saved, Without(values, names))
  BY DEF LeaveBlock, BlockIsOver
<1>2. IsBlock(t) /\ (t.hadAssigns => hasAssigns) /\ (KnownStack => IsKnown(t))
  BY <1>1, TopFacts DEF IsSound, IsFrame
<1>3. IsMap(saved) /\ DOMAIN saved \subseteq names /\ IsMap(values)
  BY <1>2 DEF IsBlock, DataInv
<1> HIDE DEF saved, names
<1>4. /\ IsMap(values') /\ DOMAIN values' = DOMAIN saved \cup (DOMAIN values \ names)
      /\ \A n \in DOMAIN values' :
           values'[n] = IF n \in DOMAIN saved THEN saved[n] ELSE values[n]
      /\ Restricted(values', names) = saved
  <2> DEFINE b == values'
             g == values
  <2>1. b = PutBack(saved, Without(g, names)) /\ IsMap(g)
    BY <1>1, <1>3
  <2> HIDE DEF b, g
  <2>2. /\ IsMap(b) /\ DOMAIN b = DOMAIN saved \cup (DOMAIN g \ names)
        /\ \A n \in DOMAIN b : b[n] = IF n \in DOMAIN saved THEN saved[n] ELSE g[n]
        /\ Restricted(b, names) = saved
    BY <1>3, <2>1, PutBackFacts
  <2> QED
    BY <2>2 DEF b, g
<1> QED
  BY <1>1, <1>2, <1>4 DEF saved, names

\* The end of a block.
LEMMA LeaveBlockKeeps ==
  ASSUME StackInv, DataInv, LeaveBlock
  PROVE  Keeps
<1>1. /\ UNCHANGED <<hasAssigns, flags, invalid>>
      /\ localVars' = (localVars \ Top.shadowed) \cup Top.savedLocals
  BY DEF LeaveBlock
<1> DEFINE t == Top
           saved == t.savedValues
<1>2. /\ stack # <<>> /\ Pop /\ t.at = "block" /\ IsBlock(t) /\ (t.hadAssigns => hasAssigns)
      /\ (KnownStack => IsKnown(t)) /\ IsMap(values')
      /\ DOMAIN values' = DOMAIN saved \cup (DOMAIN values \ t.shadowed)
      /\ \A n \in DOMAIN values' : values'[n] = IF n \in DOMAIN saved THEN saved[n] ELSE values[n]
  BY LeaveBlockFacts
<1>3. localVars' \subseteq Var
  BY <1>1, <1>2 DEF IsBlock, DataInv
<1> HIDE DEF t
<1>4. DOMAIN saved \subseteq t.shadowed /\ (~ t.hadAssigns => t.shadowed = {})
  BY <1>2 DEF IsBlock
<1>5. DOMAIN values' # {} => hasAssigns'
  BY <1>1, <1>2, <1>4 DEF DataInv
<1>6. DataInv'
  BY <1>1, <1>2, <1>3, <1>5 DEF DataInv, flags
<1>7. KnownStack /\ KnownValues => KnownValues'
  BY <1>2 DEF KnownValues, IsKnown
<1>8. StackInv' /\ (KnownStack => KnownStack')
  BY <1>1, <1>2, StackPop
<1> QED
  BY <1>6, <1>7, <1>8 DEF Keeps

-----------------------------------------------------------------------------
(***************************************************************************)
(* Loops.                                                                  *)
(***************************************************************************)
\* A loop that is to test again, under statements that are run before.
LEMMA LoopFrames ==
  ASSUME NEW s \in Statements, s.op \in {"for", "while"},
         NEW stmts \in Seq(Statements), NEW vector
  PROVE  \E T : /\ <<[at |-> "test", stmt |-> s]>> \o EvalAll(stmts) \in Seq(T)
                /\ \A f \in T : IsSound(f, vector) /\ IsKnown(f)
<1>1. PICK U : /\ EvalAll(stmts) \in Seq(U)
               /\ \A f \in U : IsSound(f, vector) /\ IsKnown(f)
  BY EvalAllFacts
<1> DEFINE test == [at |-> "test", stmt |-> s]
           run == EvalAll(stmts)
           T == U \cup {test}
<1>2. IsSound(test, vector) /\ IsKnown(test)
  BY FreshFrames
<1> HIDE DEF test, run
<1>3. run \in Seq(T)
  <2> HIDE DEF T
  <2>1. U \subseteq T /\ run \in Seq(U)
    BY <1>1 DEF T, run
  <2>2. \A i \in 1 .. Len(run) : run[i] \in T
    BY <2>1
  <2> QED
    BY <2>1, <2>2
<1>4. <<test>> \in Seq(T)
  OBVIOUS
<1>5. \A f \in T : IsSound(f, vector) /\ IsKnown(f)
  BY <1>1, <1>2
<1> HIDE DEF T
<1>6. <<test>> \o run \in Seq(T)
  BY <1>3, <1>4
<1> QED
  BY <1>5, <1>6 DEF test, run

\* A loop that is entered.
LEMMA EnterLoopKeeps ==
  ASSUME StackInv, DataInv, EnterFor \/ EnterWhile \/ EnterDo
  PROVE  Keeps
<1> DEFINE s == Stmt
<1>1. CASE EnterFor
  <2>1. /\ At("for") /\ localVars' = localVars \cup s.declares
        /\ Resume(<<[at |-> "test", stmt |-> s]>> \o EvalAll(s.init))
        /\ UNCHANGED <<hasAssigns, values, flags, invalid>>
    BY <1>1 DEF EnterFor
  <2>2. /\ stack # <<>> /\ s \in Statements /\ s.op = "for"
        /\ s.declares \subseteq Var /\ s.init \in Seq(Statements)
    BY <2>1, AtFacts DEF IsStatement
  <2>3. DataInv' /\ (KnownValues => KnownValues') /\ hasAssigns' = hasAssigns
    BY <2>1, <2>2 DEF DataInv, flags, KnownValues
  <2> HIDE DEF s
  <2> DEFINE frames == <<[at |-> "test", stmt |-> s]>> \o EvalAll(s.init)
  <2>4. PICK T : /\ frames \in Seq(T)
                 /\ \A f \in T : IsSound(f, hasAssigns') /\ IsKnown(f)
    BY <2>2, LoopFrames
  <2>5. Resume(frames)
    BY <2>1
  <2> HIDE DEF frames
  <2>6. StackInv' /\ (KnownStack => KnownStack')
    BY <2>2, <2>3, <2>4, <2>5, StackStep
  <2> QED
    BY <2>3, <2>6 DEF Keeps
<1>2. CASE EnterWhile
  <2> DEFINE f == [at |-> "test", stmt |-> s]
  <2>1. At("while") /\ Resume(<<f>>) /\ UNCHANGED <<data, flags, invalid>>
    BY <1>2 DEF EnterWhile
  <2>2. stack # <<>> /\ s \in Statements /\ s.op = "while"
    BY <2>1, AtFacts
  <2>3. DataInv' /\ (KnownValues => KnownValues') /\ hasAssigns' = hasAssigns
    BY <2>1, SameData DEF flags, DataInv
  <2> HIDE DEF s
  <2>4. IsSound(f, hasAssigns') /\ IsKnown(f)
    BY <2>2, FreshFrames
  <2> HIDE DEF f
  <2>5. StackInv' /\ (KnownStack => KnownStack')
    BY <2>1, <2>2, <2>3, <2>4, StackOne
  <2> QED
    BY <2>3, <2>5 DEF Keeps
<1>3. CASE EnterDo
  <2> DEFINE f == [at |-> "do", stmt |-> s]
             g == Eval(s.body)
  <2>1. At("do") /\ Resume(<<f, g>>) /\ UNCHANGED <<data, flags, invalid>>
    BY <1>3 DEF EnterDo
  <2>2. stack # <<>> /\ s \in Statements /\ s.op = "do" /\ s.body \in Statements
    BY <2>1, AtFacts DEF IsStatement
  <2>3. DataInv' /\ (KnownValues => KnownValues') /\ hasAssigns' = hasAssigns
    BY <2>1, SameData DEF flags, DataInv
  <2> HIDE DEF s
  <2>4. IsSound(f, hasAssigns') /\ IsKnown(f) /\ IsSound(g, hasAssigns') /\ IsKnown(g)
    BY <2>2, FreshFrames
  <2> HIDE DEF f, g
  <2>5. StackInv' /\ (KnownStack => KnownStack')
    BY <2>1, <2>2, <2>3, <2>4, StackTwo
  <2> QED
    BY <2>3, <2>5 DEF Keeps
<1> QED
  BY <1>1, <1>2, <1>3

\* The test of a loop.
LEMMA TestLoopKeeps ==
  ASSUME StackInv, DataInv, TestLoop
  PROVE  Keeps
<1> DEFINE t == Top
           s == t.stmt
           f == [t EXCEPT !.at = "ran"]
           g == Eval(s.body)
<1>1. /\ stack # <<>> /\ t.at = "test" /\ Condition(s.cond) /\ UNCHANGED <<data, flags>>
      /\ (Pop \/ Resume(<<f, g>>))
  BY DEF TestLoop, Stmt
<1>2. invalid' \in BOOLEAN
  BY <1>1 DEF Condition, DataInv
<1>3. DataInv' /\ (KnownValues => KnownValues') /\ hasAssigns' = hasAssigns
  BY <1>1, <1>2, SameData DEF flags, DataInv
<1>4. t = [at |-> "test", stmt |-> s] /\ s.op \in {"for", "while"} /\ s \in Statements
  BY <1>1, TopFacts DEF IsSound, IsFrame
<1>5. s.body \in Statements
  BY <1>4, StatementFacts DEF IsStatement
<1> HIDE DEF t, s
<1>6. f = [at |-> "ran", stmt |-> s]
  BY <1>4
<1> HIDE DEF f
<1>7. IsSound(f, hasAssigns') /\ IsKnown(f)
  BY <1>4, <1>6, FreshFrames
<1>8. IsSound(g, hasAssigns') /\ IsKnown(g)
  BY <1>5, FreshFrames
<1> HIDE DEF g
<1>9. StackInv' /\ (KnownStack => KnownStack')
  <2>1. CASE Pop
    BY <1>1, <1>3, <2>1, StackPop
  <2>2. CASE Resume(<<f, g>>)
    BY <1>1, <1>3, <1>7, <1>8, <2>2, StackTwo
  <2> QED
    BY <1>1, <2>1, <2>2
<1> QED
  BY <1>3, <1>9 DEF Keeps

\* After the body of a for or while loop.
LEMMA AfterBodyKeeps ==
  ASSUME StackInv, DataInv, AfterBody
  PROVE  Keeps
<1> DEFINE t == Top
           s == t.stmt
           f == [t EXCEPT !.at = "test"]
           more == <<f>> \o EvalAll(s.inc)
<1>1. /\ stack # <<>> /\ t.at = "ran" /\ TakeFlag /\ UNCHANGED <<data, invalid>>
      /\ Resume(IF EndsLoop THEN <<>>
                ELSE <<f>> \o (IF continueFlag THEN <<>> ELSE EvalAll(s.inc)))
  BY DEF AfterBody, Stmt
<1>2. DataInv' /\ (KnownValues => KnownValues') /\ hasAssigns' = hasAssigns
  BY <1>1, SameData DEF TakeFlag, DataInv
<1>3. t = [at |-> "ran", stmt |-> s] /\ s.op \in {"for", "while"} /\ s \in Statements
  BY <1>1, TopFacts DEF IsSound, IsFrame
<1>4. s.inc \in Seq(Statements)
  BY <1>3, StatementFacts DEF IsStatement
<1> HIDE DEF t, s
<1>5. f = [at |-> "test", stmt |-> s]
  BY <1>3
<1> HIDE DEF f
<1>6. IsSound(f, hasAssigns') /\ IsKnown(f)
  BY <1>3, <1>5, FreshFrames
<1>7. PICK T : /\ more \in Seq(T)
               /\ \A x \in T : IsSound(x, hasAssigns') /\ IsKnown(x)
  BY <1>3, <1>4, <1>5, LoopFrames
<1>8. Pop \/ Resume(<<f>>) \/ Resume(more)
  <2>1. CASE EndsLoop
    BY <1>1, <2>1 DEF Pop
  <2>2. CASE ~ EndsLoop /\ continueFlag
    <3>1. Resume(<<f>> \o <<>>)
      BY <1>1, <2>2
    <3>2. <<f>> \o <<>> = <<f>>
      OBVIOUS
    <3> QED
      BY <3>1, <3>2
  <2>3. CASE ~ EndsLoop /\ ~ continueFlag
    BY <1>1, <2>3
  <2> QED
    BY <2>1, <2>2, <2>3
<1> HIDE DEF more
<1>9. StackInv' /\ (KnownStack => KnownStack')
  <2>1. CASE Pop
    BY <1>1, <1>2, <2>1, StackPop
  <2>2. CASE Resume(<<f>>)
    BY <1>1, <1>2, <1>6, <2>2, StackOne
  <2>3. CASE Resume(more)
    BY <1>1, <1>2, <1>7, <2>3, StackStep
  <2> QED
    BY <1>8, <2>1, <2>2, <2>3
<1> QED
  BY <1>2, <1>9 DEF Keeps

\* After the body of a do loop, and before it runs again.
LEMMA AfterDoBodyKeeps ==
  ASSUME StackInv, DataInv, AfterDoBody
  PROVE  Keeps
<1> DEFINE t == Top
           g == Eval(t.stmt.body)
<1>1. /\ stack # <<>> /\ t.at = "do" /\ TakeFlag /\ UNCHANGED data
      /\ (Pop \/ Resume(<<t, g>>))
  BY DEF AfterDoBody, Stmt, Pop
<1>2. invalid' \in BOOLEAN
  BY DEF AfterDoBody, DataInv
<1>3. DataInv' /\ (KnownValues => KnownValues') /\ hasAssigns' = hasAssigns
  BY <1>1, <1>2, SameData DEF TakeFlag, DataInv
<1>4. IsSound(t, hasAssigns') /\ t.stmt.op = "do" /\ t.stmt \in Statements /\ IsKnown(t)
  BY <1>1, <1>3, TopFacts DEF IsSound, IsFrame, IsKnown
<1>5. t.stmt.body \in Statements
  BY <1>4, StatementFacts DEF IsStatement
<1> HIDE DEF t
<1>6. IsSound(g, hasAssigns') /\ IsKnown(g)
  BY <1>5, FreshFrames
<1> HIDE DEF g
<1>7. StackInv' /\ (KnownStack => KnownStack')
  <2>1. CASE Pop
    BY <1>1, <1>3, <2>1, StackPop
  <2>2. CASE Resume(<<t, g>>)
    BY <1>1, <1>3, <1>4, <1>6, <2>2, StackTwo
  <2> QED
    BY <1>1, <2>1, <2>2
<1> QED
  BY <1>3, <1>7 DEF Keeps

\* A repeat, which counts down.
LEMMA RepeatKeeps ==
  ASSUME StackInv, DataInv, EnterRepeat \/ RepeatNext
  PROVE  Keeps
<1>1. CASE EnterRepeat
  <2> DEFINE s == Stmt
             n == Cond(s.cond)
             f == [at |-> "repeat", stmt |-> s, left |-> n]
  <2>1. At("repeat") /\ Condition(s.cond) /\ UNCHANGED <<data, flags>>
        /\ (Pop \/ Resume(<<f>>))
    BY <1>1 DEF EnterRepeat, Pop
  <2>2. stack # <<>> /\ s \in Statements /\ s.op = "repeat"
    BY <2>1, AtFacts
  <2>3. invalid' \in BOOLEAN
    BY <2>1 DEF Condition, DataInv
  <2>4. DataInv' /\ (KnownValues => KnownValues') /\ hasAssigns' = hasAssigns
    BY <2>1, <2>3, SameData DEF flags, DataInv
  <2> HIDE DEF s, n
  <2>5. IsSound(f, hasAssigns') /\ IsKnown(f)
    BY <2>2, FreshFrames
  <2> HIDE DEF f
  <2>6. StackInv' /\ (KnownStack => KnownStack')
    <3>1. CASE Pop
      BY <2>2, <2>4, <3>1, StackPop
    <3>2. CASE Resume(<<f>>)
      BY <2>2, <2>4, <2>5, <3>2, StackOne
    <3> QED
      BY <2>1, <3>1, <3>2
  <2> QED
    BY <2>4, <2>6 DEF Keeps
<1>2. CASE RepeatNext
  <2> DEFINE t == Top
             s == t.stmt
             n == t.left
             f == [t EXCEPT !.left = @ - 1]
             g == Eval(s.body)
  <2>1. stack # <<>> /\ t.at = "repeat" /\ UNCHANGED <<data, flags, invalid>>
        /\ (Pop \/ Resume(<<f, g>>))
    BY <1>2 DEF RepeatNext, Stmt, Pop
  <2>2. DataInv' /\ (KnownValues => KnownValues') /\ hasAssigns' = hasAssigns
    BY <2>1, SameData DEF flags, DataInv
  <2>3. /\ t = [at |-> "repeat", stmt |-> s, left |-> n] /\ s.op = "repeat"
        /\ s \in Statements
    BY <2>1, TopFacts DEF IsSound, IsFrame
  <2>4. s.body \in Statements
    BY <2>3, StatementFacts DEF IsStatement
  <2>5. f = [t EXCEPT !.left = n - 1]
    OBVIOUS
  <2> HIDE DEF t, s, n, f
  <2>6. f = [at |-> "repeat", stmt |-> s, left |-> n - 1]
    BY <2>3, <2>5
  <2>7. IsSound(f, hasAssigns') /\ IsKnown(f)
    BY <2>3, <2>6, FreshFrames
  <2>8. IsSound(g, hasAssigns') /\ IsKnown(g)
    BY <2>4, FreshFrames
  <2> HIDE DEF g
  <2>9. StackInv' /\ (KnownStack => KnownStack')
    <3>1. CASE Pop
      BY <2>1, <2>2, <3>1, StackPop
    <3>2. CASE Resume(<<f, g>>)
      BY <2>1, <2>2, <2>7, <2>8, <3>2, StackTwo
    <3> QED
      BY <2>1, <3>1, <3>2
  <2> QED
    BY <2>2, <2>9 DEF Keeps
<1> QED
  BY <1>1, <1>2

-----------------------------------------------------------------------------
(***************************************************************************)
(* The invariants of the evaluator.                                        *)
(***************************************************************************)
\* A function is started with its body to run and the values it is given.
LEMMA StartsSound ==
  ASSUME Init
  PROVE  StackInv /\ DataInv /\ KnownStack /\ KnownValues
<1> DEFINE f == [at |-> "body", rest |-> func.body]
           T == {f}
           g == func.given
<1>1. IsFunction(func, Statements)
  BY FuncsAssumption DEF Init
<1>2. /\ g \in [DOMAIN g -> Words] /\ DOMAIN g \cup func.vars \subseteq Var
      /\ func.hasParams \in BOOLEAN /\ func.body \in Seq(Statements)
  BY <1>1 DEF IsFunction
<1>3. /\ values = g /\ hasAssigns = (func.hasParams \/ DOMAIN g # {})
      /\ localVars = func.vars \cup DOMAIN g \cup {Result} /\ stack = <<f>>
      /\ continueFlag = FALSE /\ breakFlag = FALSE /\ returnFlag = FALSE /\ invalid = FALSE
  BY DEF Init
<1>4. IsSound(f, hasAssigns) /\ IsKnown(f)
  BY <1>2 DEF IsSound, IsFrame, IsKnown
<1> HIDE DEF f, g
<1>5. StackInv /\ KnownStack
  <2>1. stack \in Seq(T)
    BY <1>3
  <2>2. \A x \in T : IsSound(x, hasAssigns) /\ IsKnown(x)
    BY <1>4
  <2> HIDE DEF T
  <2> QED
    BY <2>1, <2>2 DEF StackInv, KnownStack
<1>6. IsMap(values)
  BY <1>2, <1>3 DEF IsMap
<1>7. localVars \subseteq Var
  BY <1>2, <1>3, ResultAssumption
<1>8. DataInv
  BY <1>3, <1>6, <1>7 DEF DataInv
<1>9. KnownValues
  BY <1>2, <1>3 DEF KnownValues
<1> QED
  BY <1>5, <1>8, <1>9

\* Every step keeps the invariant.
LEMMA StepKeeps ==
  ASSUME StackInv, DataInv, [Next]_vars
  PROVE  Keeps
<1>1. CASE Next
  BY <1>1, BodyKeeps, JumpKeeps, AssignmentKeeps, ReturnKeeps, BranchKeeps,
     EnterBlockKeeps, BlockNextKeeps, LeaveBlockKeeps, EnterLoopKeeps, TestLoopKeeps,
     AfterBodyKeeps, AfterDoBodyKeeps, RepeatKeeps
     DEF Next
<1>2. CASE UNCHANGED vars
  <2>1. UNCHANGED stack /\ UNCHANGED data /\ UNCHANGED flags /\ UNCHANGED invalid
    BY <1>2 DEF vars, data, flags
  <2>2. DataInv' /\ (KnownValues => KnownValues') /\ hasAssigns' = hasAssigns
    BY <2>1, SameData DEF flags, DataInv
  <2>3. StackInv' /\ (KnownStack => KnownStack')
    BY <2>1, <2>2 DEF StackInv, KnownStack
  <2> QED
    BY <2>2, <2>3 DEF Keeps
<1> QED
  BY <1>1, <1>2

\* What the type invariant says of the stack and the values.
LEMMA InvariantSuffices ==
  ASSUME StackInv, DataInv
  PROVE  KnownValues => TypeOK
<1>1. \A k \in DOMAIN stack :
        stack[k].at \in {"body", "stmt", "block", "test", "ran", "do", "repeat"}
  <2>1. PICK S : stack \in Seq(S) /\ \A f \in S : IsSound(f, hasAssigns)
    BY DEF StackInv
  <2>2. \A k \in DOMAIN stack : stack[k] \in S
    BY <2>1
  <2> QED
    BY <2>1, <2>2 DEF IsSound, IsFrame
<1>2. {continueFlag, breakFlag, returnFlag, invalid} \subseteq BOOLEAN
  BY DEF DataInv
<1>3. DOMAIN values \subseteq Var
  BY DEF DataInv, IsMap
<1> QED
  BY <1>1, <1>2, <1>3 DEF TypeOK, ValuesAreKnown, DataInv, KnownValues

-----------------------------------------------------------------------------
\* Whatever the functions and the width: as long as no assignment and no return
\* reads a variable without a value, every variable that is bound has a value of
\* the width, values are bound only where there is a vector of them, and the
\* activations of evalStmt and evalBlock_ are of the kinds the code knows.
THEOREM TypeCorrect == Spec /\ []ReadsKnown => []TypeOK
<1> DEFINE Inv == StackInv /\ DataInv /\ KnownStack /\ KnownValues
<1>1. Init => Inv
  BY StartsSound
<1>2. Inv /\ ReadsKnown /\ [Next]_vars => Inv'
  BY StepKeeps DEF Keeps
<1>3. Inv => TypeOK
  BY InvariantSuffices
<1> QED
  BY <1>1, <1>2, <1>3, PTL DEF Spec

\* A block that is over is left, and nothing else is done.
LEMMA OverMeansLeave ==
  ASSUME StackInv, [Next]_vars, BlockIsOver, stack' # stack
  PROVE  LeaveBlock
<1>1. stack # <<>> /\ Top.at = "block" /\ (Top.rest = <<>> \/ (Top.begun /\ AnyFlag))
  BY DEF BlockIsOver
<1>2. Next
  BY DEF vars
<1>3. ~ (BodyNext \/ BodyEnd \/ TestLoop \/ AfterBody \/ AfterDoBody \/ RepeatNext)
  BY <1>1 DEF BodyNext, BodyEnd, TestLoop, AfterBody, AfterDoBody, RepeatNext
<1>4. ~ (SkipInvalid \/ \E op : At(op))
  BY <1>1 DEF SkipInvalid, At
<1>5. ~ BlockNext
  BY <1>1 DEF BlockNext
<1>6. Assignment \/ IfElse \/ CaseStmt \/ Return \/ Continue \/ Break \/ Unsupported
      \/ EnterBlock \/ EnterFor \/ EnterWhile \/ EnterDo \/ EnterRepeat => \E op : At(op)
  BY DEF Assignment, IfElse, CaseStmt, Return, Continue, Break, Unsupported,
         EnterBlock, EnterFor, EnterWhile, EnterDo, EnterRepeat
<1> QED
  BY <1>2, <1>3, <1>4, <1>5, <1>6 DEF Next

\* Whatever the functions, and whatever their values: a block that is entered
\* while there is a vector of values gives the variables it declares the bindings
\* they had outside when it is left, be it by its end or by a jump (evalBlock_).
THEOREM Shadows == Spec => OuterBindingsKeptInVector
<1> DEFINE Inv == StackInv /\ DataInv
<1>1. Init => Inv
  BY StartsSound
<1>2. Inv /\ [Next]_vars => Inv'
  BY StepKeeps DEF Keeps
<1>3. Inv /\ [Next]_vars => [ShadowsWhere(Top.hadAssigns)]_vars
  <2> SUFFICES ASSUME StackInv, DataInv, [Next]_vars, BlockIsOver, stack' # stack,
                      Top.hadAssigns
               PROVE  Restricted(values', Top.declares) = Top.before
    BY DEF ShadowsWhere
  <2>1. LeaveBlock
    BY OverMeansLeave
  <2>2. IsBlock(Top) /\ Restricted(values', Top.shadowed) = Top.savedValues
    BY <2>1, LeaveBlockFacts
  <2>3. Top.shadowed = Top.declares /\ Top.savedValues = Top.before
    BY <2>2 DEF IsBlock
  <2> QED
    BY <2>2, <2>3
<1> QED
  BY <1>1, <1>2, <1>3, PTL DEF Spec, OuterBindingsKeptInVector
=============================================================================
