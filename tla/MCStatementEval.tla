-------------------------- MODULE MCStatementEval --------------------------
(***************************************************************************)
(* Functions for TLC: a loop of every kind around blocks of one or two     *)
(* statements, which count, jump, jump under a condition, shadow the       *)
(* counter, or are loops themselves; and a few with the other statements.  *)
(***************************************************************************)
EXTENDS StatementLanguage

CONSTANTS cnt, idx, fun

Expr(m, n, a, r) == [mul |-> m, var |-> n, add |-> a, rel |-> r]
Const(k) == Expr(0, cnt, k, "no")
Plus(n, k) == Expr(1, n, k, "no")
Less(n, k) == Expr(1, n, -k, "<")
Is(n, k) == Expr(1, n, -k, "=")

Assign(n, e) == [op |-> "assign", var |-> n, rhs |-> e]
If(c, s) == [op |-> "if", cond |-> c, then |-> s, else |-> None]
IfElseOf(c, s, t) == [op |-> "if", cond |-> c, then |-> s, else |-> t]
Block(names, stmts) == [op |-> "block", vars |-> names, stmts |-> stmts]
Plain(o) == [op |-> o]
ReturnOf(e) == [op |-> "return", value |-> e]
Item(ls, s) == [labels |-> ls, stmt |-> s]
Case(c, items) == [op |-> "case", cond |-> c, items |-> items]

Count == Assign(cnt, Plus(cnt, 1))
Leaves == {Count, Plain("continue"), Plain("break"), ReturnOf(Plus(cnt, 3))}
Guarded == {If(Is(cnt, 1), s) : s \in Leaves \ {Count}} \cup {IfElseOf(Less(cnt, 2), Count, Plain("break"))}
Small == Leaves \cup Guarded

Blocks(items) ==
  {Block({}, <<s, t>>) : s \in Small, t \in items} \cup
  {Block({cnt}, <<Assign(cnt, Const(0)), s, t>>) : s \in Small, t \in items}

Increment == Assign(idx, Plus(idx, 1))
Loops(bodies) ==
  {[op |-> "for", declares |-> d, init |-> <<Assign(idx, Const(0))>>, inc |-> <<Increment>>,
    cond |-> Less(idx, 2), body |-> b] : d \in {{}, {idx}}, b \in bodies} \cup
  {[op |-> "while", declares |-> {}, inc |-> <<>>, cond |-> Less(cnt, 3), body |-> b] : b \in bodies} \cup
  {[op |-> "do", declares |-> {}, cond |-> Less(cnt, 3), body |-> b] : b \in bodies} \cup
  {[op |-> "repeat", declares |-> {}, cond |-> Const(2), body |-> b] : b \in bodies}

Simple == Loops(Blocks(Small))
Inner == Loops(Leaves \cup {Block({cnt}, <<Assign(cnt, Const(1)), s>>) : s \in Guarded})
Nested == Loops({Block({}, <<s, t>>) : s \in {Count, If(Is(cnt, 1), Plain("continue"))}, t \in Inner})

Others == {
  Case(Plus(cnt, 0), <<Item({1}, Plain("unsupported")), Item({}, Count), Item({0, 2}, Count)>>),
  Case(Plus(cnt, 0), <<Item({1, 3}, Count), Item({}, ReturnOf(Const(5)))>>),
  Case(Plus(idx, 0), <<Item({0}, Count)>>),
  If(Plus(idx, 0), Count), If(Plus(cnt, -1), Count), If(Plus(cnt, 1), Plain("unsupported")),
  Block({}, <<Block({cnt, idx}, <<Assign(cnt, Const(4)), Count>>), Count, ReturnOf(None), Count>>),
  [op |-> "while", inc |-> <<>>, cond |-> Less(idx, 1), body |-> Count],
  [op |-> "do", cond |-> Less(idx, 1), body |-> Count],
  [op |-> "repeat", cond |-> Plus(idx, 0), body |-> Count] }

MCVar == {cnt, idx, fun}
Function(g, p, names, stmts) ==
  [given |-> g, hasParams |-> p, vars |-> names, body |-> stmts]
NoneGiven == [n \in {} |-> 0]
First == Assign(cnt, Const(0))

MCFuncs ==
  {Function(NoneGiven, FALSE, {cnt, idx} \ s.declares,
            <<First, s, ReturnOf(Plus(cnt, 0))>>) : s \in Simple \cup Nested} \cup
  {Function(NoneGiven, FALSE, {cnt, idx}, <<First, s, ReturnOf(Plus(cnt, 0))>>) : s \in Others} \cup
  {Function([n \in {cnt} |-> 1], FALSE, {idx}, <<s, Count, ReturnOf(Plus(cnt, 0))>>) : s \in Others} \cup
  {Function(NoneGiven, p, names,
            <<Block({cnt}, <<First, Count, Assign(fun, Plus(cnt, 1))>>), Assign(fun, Plus(fun, 1))>>) :
     p \in BOOLEAN, names \in {{}, {cnt}}}

\* The statements of the functions, and of these: no deeper than a condition in a
\* block in a loop, twice.
Parts(s) ==
  CASE s.op = "if" -> {s.then, s.else} \ {None}
    [] s.op = "case" -> {s.items[i].stmt : i \in DOMAIN s.items}
    [] s.op = "block" -> Range(s.stmts)
    [] s.op = "for" -> {s.body} \cup Range(s.init) \cup Range(s.inc)
    [] s.op \in {"while", "do", "repeat"} -> {s.body}
    [] OTHER -> {}
WithParts(S) == {s : s \in S \cup UNION {Parts(s) : s \in S}}
MCStatements ==
  WithParts(WithParts(WithParts(WithParts(WithParts(WithParts(
    UNION {Range(f.body) : f \in MCFuncs}))))))
=============================================================================
