--------------------------- MODULE StatementEval ---------------------------
(***************************************************************************)
(* The evaluation of constant functions: evalFunc, evalStmt and evalBlock_ *)
(* of templates/ExprEval.cpp.  Elaboration runs the statements of a        *)
(* SystemVerilog function to find out the value of a parameter or a width. *)
(* One step of the recursion is one action; stack holds what the           *)
(* activations of the three functions have still to do.                    *)
(*                                                                         *)
(* Variables are kept by name only, as param_assigns of a scratch module;  *)
(* the jumps of the language are three flags that are passed by reference. *)
(*                                                                         *)
(* Expressions are abstracted to mul * var + add, in words of Bits bits,   *)
(* or to the test whether that is 0 or negative (rel is "=" or "<").       *)
(* An expression over a variable without a value has the value None; a     *)
(* condition on it sets invalidValue.  (An assignment would store it as it *)
(* stands; the functions given must not make one, see ValuesAreKnown.)     *)
(* Left-hand sides are whole variables, the labels of a case are           *)
(* constants, an assignment has no operator, and i++ is i = i + 1.         *)
(***************************************************************************)
EXTENDS Integers, Sequences, SequencesExt

CONSTANTS
  Var,       \* names of variables
  Result,    \* the name of the function, which is that of its result
  None,      \* no value, no statement, no expression
  Bits,      \* width of the values (64 in the code)
  Statements, \* the statements of the functions, and those they are made of
  Funcs      \* the functions to evaluate

ASSUME ResultAssumption == Result \in Var
ASSUME BitsAssumption == Bits \in Nat \ {0, 1}
ASSUME NoneAssumption == None \notin Var \cup Int

\* The tree as the parser builds it: statements by their kind, of expressions
\* and of statements of S.
Expressions == [mul : Int, var : Var, add : Int, rel : {"no", "=", "<"}]
IsStatement(s, S) ==
  /\ s.op \in {"assign", "if", "case", "return", "continue", "break", "unsupported",
              "block", "for", "while", "do", "repeat"}
  /\ s.op = "assign" => s.var \in Var /\ s.rhs \in Expressions
  /\ s.op = "return" => s.value = None \/ s.value \in Expressions
  /\ s.op \in {"if", "case", "for", "while", "do", "repeat"} => s.cond \in Expressions
  /\ s.op = "if" => \A t \in {s.then, s.else} : t = None \/ t \in S
  /\ s.op = "case" => \A i \in DOMAIN s.items : s.items[i].stmt \in S
  /\ s.op = "block" => s.vars \subseteq Var /\ s.stmts \in Seq(S)
  /\ s.op \in {"for", "while", "do", "repeat"} => s.body \in S
  /\ s.op \in {"for", "while"} => s.inc \in Seq(S)
  /\ s.op = "for" => s.declares \subseteq Var /\ s.init \in Seq(S)

Words == -(2 ^ (Bits - 1)) .. 2 ^ (Bits - 1) - 1
IsFunction(f, S) ==
  /\ f.given \in [DOMAIN f.given -> Words]
  /\ DOMAIN f.given \cup f.vars \subseteq Var
  /\ f.hasParams \in BOOLEAN
  /\ f.body \in Seq(S)

ASSUME FuncsAssumption ==
  \A S \in {Statements} : /\ \A s \in S : IsStatement(s, S)
                          /\ \A f \in Funcs : IsFunction(f, S)

VARIABLES
  func,       \* the function; never changes
  hasAssigns, \* Param_assigns() of the scratch module is not null
  values,     \* its contents: the variables that have a value
  localVars,  \* the names in local_vars
  stack,      \* the activations, the innermost last
  continueFlag, breakFlag, returnFlag,
  invalid     \* invalidValue

vars == <<func, hasAssigns, values, localVars, stack,
          continueFlag, breakFlag, returnFlag, invalid>>
flags == <<continueFlag, breakFlag, returnFlag>>
data == <<hasAssigns, values, localVars>>

-----------------------------------------------------------------------------
Wrap(n) == ((n + 2 ^ (Bits - 1)) % (2 ^ Bits)) - 2 ^ (Bits - 1)

Apply(e, x) ==
  LET n == e.mul * x + e.add
  IN  CASE e.rel = "=" -> IF n = 0 THEN 1 ELSE 0
        [] e.rel = "<" -> IF n < 0 THEN 1 ELSE 0
        [] OTHER -> Wrap(n)

\* reduceExpr and get_value in the scratch module.
Value(e) ==
  IF e.mul = 0 THEN Apply(e, 0)
  ELSE IF e.var \notin DOMAIN values THEN None
  ELSE Apply(e, values[e.var])

Restricted(g, names) == Restrict(g, DOMAIN g \cap names)
Without(g, names) == Restrict(g, DOMAIN g \ names)
Assigned(g, n, x) == [v \in DOMAIN g \cup {n} |-> IF v = n THEN x ELSE g[v]]
PutBack(saved, g) ==
  [v \in DOMAIN saved \cup DOMAIN g |-> IF v \in DOMAIN saved THEN saved[v] ELSE g[v]]

AnyFlag == continueFlag \/ breakFlag \/ returnFlag

Top == Last(stack)
Resume(frames) == stack' = Front(stack) \o frames
Pop == Resume(<<>>)
Eval(s) == [at |-> "stmt", stmt |-> s]
EvalAll(stmts) == Reverse([i \in DOMAIN stmts |-> Eval(stmts[i])])

Init ==
  /\ func \in Funcs
  /\ values = func.given
  /\ hasAssigns = (func.hasParams \/ DOMAIN func.given # {})
  /\ localVars = func.vars \cup DOMAIN func.given \cup {Result}
  /\ stack = <<[at |-> "body", rest |-> func.body]>>
  /\ continueFlag = FALSE /\ breakFlag = FALSE /\ returnFlag = FALSE
  /\ invalid = FALSE

-----------------------------------------------------------------------------
(***************************************************************************)
(* evalFunc: the statements of the body.  A continue or break that reaches *)
(* it is reported, but neither stops it nor is taken back.                 *)
(***************************************************************************)
BodyNext ==
  /\ stack # <<>> /\ Top.at = "body"
  /\ Top.rest # <<>> /\ ~ returnFlag
  /\ Resume(<<[Top EXCEPT !.rest = Tail(@)], Eval(Head(Top.rest))>>)
  /\ UNCHANGED <<func, data, flags, invalid>>

BodyEnd ==
  /\ stack # <<>> /\ Top.at = "body"
  /\ Top.rest = <<>> \/ returnFlag
  /\ Pop
  /\ UNCHANGED <<func, data, flags, invalid>>

Done == stack = <<>>

\* What evalFunc returns: no value if invalidValue is set, or if a variable has
\* a value that is not known as a variable of the function.
Answer ==
  IF invalid \/ ~ (DOMAIN values \subseteq localVars) \/ Result \notin DOMAIN values
    THEN None ELSE values[Result]

-----------------------------------------------------------------------------
(***************************************************************************)
(* evalStmt, by kind of statement.                                         *)
(***************************************************************************)
At(op) == stack # <<>> /\ Top.at = "stmt" /\ Top.stmt.op = op /\ ~ invalid
Stmt == Top.stmt

\* Everything is skipped once a value is invalid.
SkipInvalid ==
  /\ stack # <<>> /\ Top.at = "stmt" /\ invalid
  /\ Pop
  /\ UNCHANGED <<func, data, flags, invalid>>

\* Mutant of SetValue: the new vector is not given to the module.
SetValueDetached(n, x) ==
  /\ values' = Assigned(values, n, x)
  /\ UNCHANGED <<hasAssigns, localVars>>

\* setValueInInstance makes the vector of param_assigns when there is none.
SetValue(n, x) ==
  /\ hasAssigns' = TRUE
  /\ values' = Assigned(values, n, x)
  /\ UNCHANGED localVars

Assignment ==
  /\ At("assign")
  /\ SetValue(Stmt.var, Value(Stmt.rhs))
  /\ Pop
  /\ UNCHANGED <<func, flags, invalid>>

\* An invalid condition reads as 0.
Cond(e) == IF Value(e) = None THEN 0 ELSE Value(e)
Condition(e) == invalid' = (invalid \/ Value(e) = None)

IfElse ==
  /\ At("if")
  /\ Condition(Stmt.cond)
  /\ LET s == IF Cond(Stmt.cond) > 0 THEN Stmt.then ELSE Stmt.else
     IN  Resume(IF s = None THEN <<>> ELSE <<Eval(s)>>)
  /\ UNCHANGED <<func, data, flags>>

\* The first item with a label that matches; the default item has none.
CaseStmt ==
  /\ At("case")
  /\ Condition(Stmt.cond)
  /\ LET fits(i) == Cond(Stmt.cond) \in Stmt.items[i].labels
     IN  \/ /\ \A i \in DOMAIN Stmt.items : ~ fits(i)
            /\ Pop
         \/ \E i \in DOMAIN Stmt.items :
              /\ fits(i) /\ \A j \in 1 .. i - 1 : ~ fits(j)
              /\ Resume(<<Eval(Stmt.items[i].stmt)>>)
  /\ UNCHANGED <<func, data, flags>>

Return ==
  /\ At("return")
  /\ IF Stmt.value = None THEN UNCHANGED <<data, flags>>
     ELSE /\ SetValue(Result, Value(Stmt.value))
          /\ returnFlag' = TRUE
          /\ UNCHANGED <<continueFlag, breakFlag>>
  /\ Pop
  /\ UNCHANGED <<func, invalid>>

Continue ==
  /\ At("continue")
  /\ continueFlag' = TRUE
  /\ Pop
  /\ UNCHANGED <<func, data, breakFlag, returnFlag, invalid>>

Break ==
  /\ At("break")
  /\ breakFlag' = TRUE
  /\ Pop
  /\ UNCHANGED <<func, data, continueFlag, returnFlag, invalid>>

Unsupported ==
  /\ At("unsupported")
  /\ invalid' = TRUE
  /\ Pop
  /\ UNCHANGED <<func, data, flags>>

-----------------------------------------------------------------------------
(***************************************************************************)
(* evalBlock_.  The bindings of the variables a block declares are put     *)
(* aside and put back in the end, unless there are no param_assigns yet.   *)
(* hadAssigns, declares and before are there for the properties only.      *)
(***************************************************************************)
EnterBlock ==
  /\ At("block")
  /\ LET shadowed == IF hasAssigns THEN Stmt.vars ELSE {}
     IN  /\ Resume(<<[at |-> "block", rest |-> Stmt.stmts, begun |-> FALSE,
                      shadowed |-> shadowed,
                      savedValues |-> Restricted(values, shadowed),
                      savedLocals |-> localVars \cap shadowed,
                      hadAssigns |-> hasAssigns, declares |-> Stmt.vars,
                      before |-> Restricted(values, Stmt.vars)]>>)
         /\ values' = Without(values, shadowed)
         /\ localVars' = localVars \cup shadowed
  /\ UNCHANGED <<func, hasAssigns, flags, invalid>>

\* The flags are looked at after a statement, not before the first one.
BlockNext ==
  /\ stack # <<>> /\ Top.at = "block"
  /\ Top.rest # <<>> /\ (Top.begun => ~ AnyFlag)
  /\ Resume(<<[Top EXCEPT !.rest = Tail(@), !.begun = TRUE], Eval(Head(Top.rest))>>)
  /\ UNCHANGED <<func, data, flags, invalid>>

BlockIsOver ==
  /\ stack # <<>> /\ Top.at = "block"
  /\ Top.rest = <<>> \/ (Top.begun /\ AnyFlag)

\* Mutant of LeaveBlock: no binding is put back when a jump leaves the block.
LeaveBlockByJump ==
  /\ BlockIsOver
  /\ values' = IF AnyFlag THEN values
               ELSE PutBack(Top.savedValues, Without(values, Top.shadowed))
  /\ localVars' = (localVars \ Top.shadowed) \cup Top.savedLocals
  /\ Pop
  /\ UNCHANGED <<func, hasAssigns, flags, invalid>>

LeaveBlock ==
  /\ BlockIsOver
  /\ values' = PutBack(Top.savedValues, Without(values, Top.shadowed))
  /\ localVars' = (localVars \ Top.shadowed) \cup Top.savedLocals
  /\ Pop
  /\ UNCHANGED <<func, hasAssigns, flags, invalid>>

-----------------------------------------------------------------------------
(***************************************************************************)
(* Loops.  A for loop tests, runs its body and then its increments; a      *)
(* while loop is the same without increments.                              *)
(***************************************************************************)
EnterFor ==
  /\ At("for")
  /\ localVars' = localVars \cup Stmt.declares
  /\ Resume(<<[at |-> "test", stmt |-> Stmt]>> \o EvalAll(Stmt.init))
  /\ UNCHANGED <<func, hasAssigns, values, flags, invalid>>

EnterWhile ==
  /\ At("while")
  /\ Resume(<<[at |-> "test", stmt |-> Stmt]>>)
  /\ UNCHANGED <<func, data, flags, invalid>>

TestLoop ==
  /\ stack # <<>> /\ Top.at = "test"
  /\ Condition(Stmt.cond)
  /\ IF Cond(Stmt.cond) = 0 \/ invalid' THEN Pop
     ELSE Resume(<<[Top EXCEPT !.at = "ran"], Eval(Stmt.body)>>)
  /\ UNCHANGED <<func, data, flags>>

\* Mutant of TakeFlag: the flags stay up.
KeepFlags == UNCHANGED flags

\* After the body of a loop: one flag is taken down, in this order.
TakeFlag ==
  /\ continueFlag' = (continueFlag /\ invalid)
  /\ breakFlag' = (breakFlag /\ (invalid \/ continueFlag))
  /\ UNCHANGED returnFlag

\* Mutant of EndsLoop: a break is only taken down.
EndsLoopByReturn == invalid \/ (~ continueFlag /\ returnFlag)

EndsLoop == invalid \/ (~ continueFlag /\ (breakFlag \/ returnFlag))

\* A continue goes straight to the next test, past the increments.
AfterBody ==
  /\ stack # <<>> /\ Top.at = "ran"
  /\ TakeFlag
  /\ Resume(IF EndsLoop THEN <<>>
            ELSE <<[Top EXCEPT !.at = "test"]>>
                 \o (IF continueFlag THEN <<>> ELSE EvalAll(Stmt.inc)))
  /\ UNCHANGED <<func, data, invalid>>

EnterDo ==
  /\ At("do")
  /\ Resume(<<[at |-> "do", stmt |-> Stmt], Eval(Stmt.body)>>)
  /\ UNCHANGED <<func, data, flags, invalid>>

\* A continue goes straight to the body again, past the test.
AfterDoBody ==
  /\ stack # <<>> /\ Top.at = "do"
  /\ TakeFlag
  /\ LET tests == ~ EndsLoop /\ ~ continueFlag
         again == IF tests THEN Value(Stmt.cond) \notin {0, None} ELSE ~ EndsLoop
     IN  /\ invalid' = (invalid \/ (tests /\ Value(Stmt.cond) = None))
         /\ Resume(IF again THEN <<Top, Eval(Stmt.body)>> ELSE <<>>)
  /\ UNCHANGED <<func, data>>

\* A repeat looks at no flag.
EnterRepeat ==
  /\ At("repeat")
  /\ Condition(Stmt.cond)
  /\ Resume(IF invalid' THEN <<>>
            ELSE <<[at |-> "repeat", stmt |-> Stmt, left |-> Cond(Stmt.cond)]>>)
  /\ UNCHANGED <<func, data, flags>>

RepeatNext ==
  /\ stack # <<>> /\ Top.at = "repeat"
  /\ Resume(IF Top.left > 0 THEN <<[Top EXCEPT !.left = @ - 1], Eval(Stmt.body)>>
                            ELSE <<>>)
  /\ UNCHANGED <<func, data, flags, invalid>>

-----------------------------------------------------------------------------
Next ==
  \/ BodyNext \/ BodyEnd \/ SkipInvalid \/ Assignment \/ IfElse \/ CaseStmt
  \/ Return \/ Continue \/ Break \/ Unsupported
  \/ EnterBlock \/ BlockNext \/ LeaveBlock
  \/ EnterFor \/ EnterWhile \/ TestLoop \/ AfterBody
  \/ EnterDo \/ AfterDoBody \/ EnterRepeat \/ RepeatNext

Spec == Init /\ [][Next]_vars

\* evalFunc is a single-threaded computation that waits for nothing.
FairSpec == Spec /\ WF_vars(Next)

-----------------------------------------------------------------------------
\* What a variable may hold: ValuesAreKnown is also the demand on Funcs that no
\* assignment reads a variable without a value.
ValuesAreKnown == DOMAIN values \subseteq Var /\ \A n \in DOMAIN values : values[n] \in Words

\* Type invariant of the evaluator: every variable that is bound has a value of
\* the width, values are bound only once there is a vector to bind them in, and
\* a frame is one of the kinds of unfinished work.
TypeOK ==
  /\ ValuesAreKnown
  /\ hasAssigns \in BOOLEAN /\ (DOMAIN values # {} => hasAssigns)
  /\ localVars \subseteq Var
  /\ {continueFlag, breakFlag, returnFlag, invalid} \subseteq BOOLEAN
  /\ \A k \in DOMAIN stack :
       stack[k].at \in {"body", "stmt", "block", "test", "ran", "do", "repeat"}

\* Leaving a block, by its end or by a jump, gives the variables it declares the
\* bindings they had outside: evalBlock_ promises that they shadow
\* (ExprEval.cpp:6494).
ShadowsWhere(P) ==
  BlockIsOver /\ stack' # stack /\ P => Restricted(values', Top.declares) = Top.before
OuterBindingsKept == [][ShadowsWhere(TRUE)]_vars

\* The same of the blocks that find a vector of param_assigns.
OuterBindingsKeptInVector == [][ShadowsWhere(Top.hadAssigns)]_vars
=============================================================================
