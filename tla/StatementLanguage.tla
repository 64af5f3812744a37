------------------------- MODULE StatementLanguage -------------------------
(***************************************************************************)
(* What the statements of a function mean in SystemVerilog, as a recursive *)
(* definition that shares nothing with the evaluator but the expressions:  *)
(* variables live in nested scopes and a jump is the outcome of a          *)
(* statement.  The evaluator must agree with it, except where it is known  *)
(* to do something else; odd records that such a place has been reached.   *)
(***************************************************************************)
EXTENDS StatementEval

CONSTANT Fuel  \* iterations after which a function counts as endless

Innermost(scopes, n) ==
  LET declaring == {k \in DOMAIN scopes : n \in DOMAIN scopes[k]}
  IN  CHOOSE k \in declaring : \A j \in declaring : j <= k
Lookup(scopes, n) == scopes[Innermost(scopes, n)][n]
ValueOf(st, e) ==
  IF e.mul = 0 THEN Apply(e, 0)
  ELSE LET x == Lookup(st.scopes, e.var)
       IN  IF x = None THEN None ELSE Apply(e, x)

Store(st, n, x) ==
  [st EXCEPT !.scopes[Innermost(st.scopes, n)][n] = x, !.assigned = TRUE,
             !.odd = @ \/ x = None]
Jump(st, j) == [st EXCEPT !.jump = j]
Odd(st, b) == [st EXCEPT !.odd = @ \/ b]
Open(st, names) == [st EXCEPT !.scopes = Append(@, [n \in names |-> None])]
Close(st) == [st EXCEPT !.scopes = Front(@)]

\* A condition without a value ends the evaluation.
Tested(st, e) == IF ValueOf(st, e) = None THEN Jump(st, "error") ELSE st
Holds(st, e) == ValueOf(st, e) \notin {0, None}

\* A loop looks at the jump of its body: it goes on after none and continue, and
\* consumes continue and break.
GoesOn(st) == st.jump \in {"none", "continue"} /\ st.fuel > 0
Iterated(st) == [st EXCEPT !.fuel = @ - 1,
                           !.jump = IF @ \in {"continue", "break"} THEN "none" ELSE @,
                           !.odd = @ \/ st.fuel = 0]

RECURSIVE Run(_, _), RunAll(_, _), Loop(_, _), DoLoop(_, _), Times(_, _, _)

RunAll(stmts, st) ==
  IF stmts = <<>> \/ st.jump # "none" THEN st
  ELSE RunAll(Tail(stmts), Run(Head(stmts), st))

\* odd: a continue in a for loop skips its increments in the evaluator.
Loop(s, st) ==
  LET tested == Tested(st, s.cond)
      ran == Run(s.body, tested)
  IN  IF ~ Holds(st, s.cond) THEN tested
      ELSE IF ~ GoesOn(ran) THEN Iterated(ran)
      ELSE Loop(s, RunAll(s.inc, Odd(Iterated(ran), ran.jump = "continue" /\ s.inc # <<>>)))

\* odd: a continue in a do loop skips its test in the evaluator.
DoLoop(s, st) ==
  LET ran == Run(s.body, st)
      next == Odd(Iterated(ran), ran.jump = "continue")
  IN  IF ~ GoesOn(ran) THEN Iterated(ran)
      ELSE IF Holds(next, s.cond) THEN DoLoop(s, next) ELSE Tested(next, s.cond)

\* odd: a repeat takes no notice of jumps in the evaluator.
Times(s, st, n) ==
  LET ran == Run(s.body, st)
  IN  IF n <= 0 THEN st
      ELSE IF ~ GoesOn(ran) THEN Odd(Iterated(ran), ran.jump # "error")
      ELSE Times(s, Odd(Iterated(ran), ran.jump = "continue"), n - 1)

Run(s, st) ==
  CASE s.op = "assign" -> Store(st, s.var, ValueOf(st, s.rhs))
    \* odd: the evaluator takes a negative condition for false.
    [] s.op = "if" ->
         LET next == Odd(Tested(st, s.cond), Holds(st, s.cond) /\ ValueOf(st, s.cond) < 0)
             branch == IF Holds(st, s.cond) THEN s.then ELSE s.else
         IN  IF branch = None \/ next.jump # "none" THEN next ELSE Run(branch, next)
    \* odd: the evaluator never runs the default item.
    [] s.op = "case" ->
         LET fits == SelectSeq(s.items, LAMBDA i : ValueOf(st, s.cond) \in i.labels)
             default == SelectSeq(s.items, LAMBDA i : i.labels = {})
         IN  IF Tested(st, s.cond).jump # "none" THEN Tested(st, s.cond)
             ELSE IF fits # <<>> THEN Run(Head(fits).stmt, st)
             ELSE IF default # <<>> THEN Run(Head(default).stmt, Odd(st, TRUE))
             ELSE st
    \* odd: in the evaluator a return without a value does not return.
    [] s.op = "return" ->
         Jump(IF s.value = None THEN Odd(st, TRUE) 
              ELSE [Store(st, Result, ValueOf(st, s.value)) EXCEPT !.assigned = TRUE], "return")
    [] s.op \in {"continue", "break"} -> Jump(st, s.op)
    [] s.op = "unsupported" -> Jump(st, "error")
    \* odd: nothing shadows in the evaluator before the first assignment.
    [] s.op = "block" ->
         Close(RunAll(s.stmts, Open(Odd(st, s.vars # {} /\ ~ st.assigned), s.vars)))
    \* odd: the variable a for loop declares does not shadow in the evaluator.
    [] s.op = "for" ->
         Close(Loop(s, RunAll(s.init, Open(Odd(st, \E n \in s.declares : 
           \E k \in DOMAIN st.scopes : n \in DOMAIN st.scopes[k]), s.declares))))
    [] s.op = "while" -> Loop(s, st)
    [] s.op = "do" -> DoLoop(s, st)
    [] s.op = "repeat" -> IF Tested(st, s.cond).jump # "none" THEN Tested(st, s.cond)
                          ELSE Times(s, st, ValueOf(st, s.cond))

OwnNames(f) == f.vars \cup DOMAIN f.given \cup {Result}
Meaning(f) ==
  RunAll(f.body,
         [scopes |-> <<[n \in OwnNames(f) |-> IF n \in DOMAIN f.given THEN f.given[n] ELSE None]>>,
          jump |-> "none", odd |-> FALSE, fuel |-> Fuel,
          assigned |-> f.hasParams \/ DOMAIN f.given # {}])

\* When evalFunc is done, its result and the variables of the function hold what
\* the language says, or both have given up, however blocks, loops, jumps and
\* shadowing are nested; unless the function is one the evaluator is known to
\* take differently.
AgreesWithLanguage ==
  Done =>
    LET m == Meaning(func)
        known == {n \in OwnNames(func) : m.scopes[1][n] # None}
    IN  \/ m.odd
        \/ invalid /\ m.jump = "error"
        \/ /\ ~ invalid /\ m.jump # "error"
           /\ Restricted(values, OwnNames(func)) = [n \in known |-> m.scopes[1][n]]
           /\ Answer = m.scopes[1][Result]

\* evalFunc ends for every function that ends in the language: no flag that a
\* jump leaves behind keeps a loop going.
Ends == Meaning(func).odd \/ <>Done
=============================================================================
