------------------------- MODULE MCTaskFuncBinding -------------------------
(***************************************************************************)
(* Model checking of TaskFuncBinding over designs of a package, a module,  *)
(* an instance sub in it, and two classes of which derived extends parent, *)
(* which lists it as derived or does not.                                  *)
(* Each scope has no function foo, a function foo or a task foo; the       *)
(* package and the module have bar before or after it.  One call of foo is *)
(* somewhere: calls do not influence each other.                           *)
(***************************************************************************)
EXTENDS TaskFuncBinding

CONSTANTS pack, top, sub, parent, derived, foo, bar

Def(n, k) == [name |-> n, kind |-> k]
Function(n) == Def(n, "function")
Task(n) == Def(n, "task")

FuncsOf ==
  {[s \in Scope |-> CASE s = pack -> inPack
                      [] s = top -> <<Function(bar)>> \o other[top]
                      [] OTHER -> other[s]] :
     inPack \in {<<Function(bar), Task(foo)>>, <<Function(foo), Function(bar)>>},
     other \in {h \in [{top, sub, parent, derived} ->
                         {<<>>, <<Function(foo)>>, <<Task(foo)>>}] :
                  h[parent] # <<Task(foo)>>}}

\* Where the walk goes: the lists of the design; what is in pack, in top and in
\* sub; where it goes from parent, and from derived.
Shape(tops, inPack, inTop, inSub, fromParent, fromDerived) ==
  [tops |-> tops,
   children |-> [s \in Scope |-> CASE s = pack -> inPack [] s = top -> inTop
                                   [] s = sub -> inSub [] s = parent -> fromParent
                                   [] OTHER -> fromDerived],
   around |-> [s \in Scope |-> CASE s \in ToSet(inPack) -> pack
                                 [] s \in ToSet(inTop) -> top
                                 [] s \in ToSet(inSub) -> sub
                                 [] OTHER -> None]]

Classes == <<pack, None, parent, None, top>>

\* Without the list of derived classes: the class is in top, in sub, in pack.
Plain ==
  {Shape(Classes, <<>>, <<derived, sub>>, <<>>, <<>>, <<>>),
   Shape(Classes, <<>>, <<sub>>, <<derived>>, <<>>, <<>>),
   Shape(Classes, <<derived>>, <<sub>>, <<>>, <<>>, <<>>)}

\* The walk goes from parent to derived: both are in the design, either first;
\* parent is in pack; parent is in top, and leads to the class of the definition.
Derived ==
  {Shape(<<pack, None, parent, derived, None, top>>, <<>>, <<sub>>, <<>>, <<derived>>, <<>>),
   Shape(<<pack, None, derived, parent, None, top>>, <<>>, <<sub>>, <<>>, <<derived>>, <<>>),
   Shape(<<pack, None, derived, None, top>>, <<parent>>, <<sub>>, <<>>, <<derived>>, <<>>),
   Shape(<<pack, None, derived, None, top>>, <<>>, <<parent, sub>>, <<>>, <<derived>>, <<>>)}

\* A method of derived refers to the interface sub of top.
Referring == {Shape(Classes, <<>>, <<derived, sub>>, <<>>, <<>>, <<sub>>)}

KindsOf(kindOfSub) ==
  [s \in Scope |-> CASE s = pack -> "package" [] s = top -> "module"
                      [] s = sub -> kindOfSub [] OTHER -> "class"]

CallIn(s, byFunc, hc, k, pre) ==
  [in |-> s, by |-> byFunc, highConn |-> hc, name |-> foo, kind |-> k, prefix |-> pre]

Calls ==
  {CallIn(s, 0, FALSE, k, None) : s \in {top, sub, derived, parent}, k \in CallKind}
  \cup {CallIn(s, 0, FALSE, "task", derived) : s \in {top, sub}}
  \cup {CallIn(sub, 0, TRUE, "function", None), CallIn(top, 1, FALSE, "function", None)}
  \cup {CallIn(pack, i, FALSE, "task", None) : i \in 1 .. 2}

DesignsOf(shapes, kindsOfSub, definitions) ==
  UNION {[tops : {sh.tops}, children : {sh.children}, around : {sh.around},
          kind : {KindsOf(k) : k \in kindsOfSub},
          bases : {[s \in Scope |-> IF s = derived THEN <<derived, parent>> ELSE <<s>>]},
          defined : definitions,
          funcs : FuncsOf,
          calls : {{cl} : cl \in Calls}] : sh \in shapes}

MCDesigns ==
  DesignsOf(Plain, {"module"}, {{top, sub}, {top}, {sub}})
  \cup DesignsOf(Plain, {"interface"}, {{top}})
  \cup DesignsOf(Derived, {"module"}, {{top, sub}})
  \cup DesignsOf(Referring, {"interface"}, {{top}})
=============================================================================
