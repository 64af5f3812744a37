------------------------------ MODULE HierPath ------------------------------
(***************************************************************************)
(* How elaboration binds the elements of a hierarchical path               *)
(* (hier_path::DeepClone in templates/clone_tree.cpp, and the DeepCopy of  *)
(* ref_obj and bit_select in scripts/classes.py).                          *)
(*                                                                         *)
(* The elements a.b.c of a path are cloned one after the other.  Each one  *)
(* is first bound as if it stood alone, to what the scopes around the path *)
(* know under its name (bindAny), and then again to a member of what stands*)
(* before it, if one is found.  What stands before it, `previous', is      *)
(* either the clone of an element or the object that element was bound to, *)
(* depending on how it was found, and the two are searched by different    *)
(* pieces of code.                                                         *)
(*                                                                         *)
(* The objects the path can run through are a graph that nothing changes.  *)
(* Errors are not muted, and no uhdmall iterator is open.                  *)
(***************************************************************************)
EXTENDS Integers, SequencesExt

CONSTANTS
  Object,   \* objects, typespecs included
  None,     \* nullptr
  Kept,     \* left as it is
  Root,     \* the design
  Call,     \* the func_call made for a builtin method
  Graphs,   \* what the objects may be
  Paths,    \* the paths to clone
  Scopes    \* what surrounds a path in each instance: [names, class]

ASSUME NoneAssumption == {None, Kept} \cap Object = {} /\ None # Kept

\* A name is declared with an index or without, as "lanes" or "lanes[2]".
NoIndex == -1
Symbolic == -2     \* a text that is no number, as in "lanes[P+1]"
Name == STRING \X Int
Entry == [name : Name, object : Object]

\* The tags of the operands of an assignment pattern.
Untagged == <<"", NoIndex>>
Default == <<"default", NoIndex>>

Refs == {"ref_obj", "bit_select"}                       \* any_cast<ref_obj*>
Calls == {"method_func_call", "method_task_call"}

VARIABLES
  graph,     \* graph[o]: kind, name, lists and single relations of o; never changes
  path,      \* Path_elems() of the path that is cloned
  scopes,    \* what surrounds it in the instances; never changes
  instance,  \* the instance it is cloned for
  clone,     \* what the clones of its elements are bound to
  previous,  \* [elem, object]: the clone of an element, or an object (elem = 0)
  reported,  \* the elements at which UHDM_UNRESOLVED_HIER_PATH was reported
  cut        \* the loop was left before the last element

vars == <<graph, path, scopes, instance, clone, previous, reported, cut>>

Kind(o) == graph[o].kind
One[o \in Object, r \in STRING] == IF r \in DOMAIN graph[o].one THEN graph[o].one[r] ELSE None
List[o \in Object, l \in STRING] == IF l \in DOMAIN graph[o].lists THEN graph[o].lists[l] ELSE <<>>

FirstOf[a \in Object \cup {None}, b \in Object \cup {None}] == IF a # None THEN a ELSE b

KindIs(o, kinds) == o # None /\ Kind(o) \in kinds

-----------------------------------------------------------------------------
(***************************************************************************)
(* Names of an element.  An index is a constant, a name that is bound to a *)
(* parameter, or an operation on two of these.                             *)
(***************************************************************************)
Known(v) == [ok |-> TRUE, value |-> v]
Unknown == [ok |-> FALSE, value |-> 0]

\* Division of C++, towards zero.
Quotient(a, b) ==
  LET abs(x) == IF x < 0 THEN -x ELSE x
      q == abs(a) \div abs(b)
  IN  IF (a < 0) = (b < 0) THEN q ELSE -q

\* Mutant of Combined: the operands of - are swapped.
CombinedSwapped(op, l, r) ==
  IF ~(l.ok /\ r.ok) \/ op \notin {"+", "-", "*", "/"} \/ (op = "/" /\ r.value = 0) THEN Unknown
  ELSE Known(CASE op = "+" -> l.value + r.value [] op = "-" -> r.value - l.value
               [] op = "*" -> l.value * r.value [] OTHER -> Quotient(l.value, r.value))

Combined(op, l, r) ==
  IF ~(l.ok /\ r.ok) \/ op \notin {"+", "-", "*", "/"} \/ (op = "/" /\ r.value = 0) THEN Unknown
  ELSE Known(CASE op = "+" -> l.value + r.value [] op = "-" -> l.value - r.value
               [] op = "*" -> l.value * r.value [] OTHER -> Quotient(l.value, r.value))

Term(t) == IF t.is = "constant" THEN Known(t.value)
           ELSE IF t.is = "parameter" /\ t.known THEN Known(t.value) ELSE Unknown

evalIndex(i) ==
  IF i.is = "operation" THEN Combined(i.op, Term(i.left), Term(i.right)) ELSE Term(i)

\* The text of an index, VpiDecompile.
Text(i) == IF i.is = "constant" THEN i.value ELSE IF i.is = "none" THEN NoIndex ELSE Symbolic

\* An element without a name, "[j]" of a[i][j], goes by the name of what the
\* path as written is bound to.
NameOf(e) ==
  IF e.name = "" /\ e.kind \in Refs /\ e.actual # None THEN graph[e.actual].name ELSE e.name

\* What an element looks for.
Question ==
  [kind : Refs \cup Calls, name : STRING,
   exact : SUBSET Name, indexed : SUBSET Name, resolved : SUBSET Name]

\* Mutant of Asks: a generate block goes by the text of the index only.
AsksByText(e) ==
  LET exact == {<<NameOf(e), NoIndex>>}
      indexed == exact \cup {<<NameOf(e), Text(e.index)>>}
  IN  [kind |-> e.kind, name |-> NameOf(e), exact |-> exact, indexed |-> indexed, resolved |-> indexed]

\* The names an element may go by: its own, with the text of its index, and, for
\* a generate block, with the value of its index.
Asks(e) ==
  LET exact == {<<NameOf(e), NoIndex>>}
      indexed == exact \cup {<<NameOf(e), Text(e.index)>>}
  IN  [kind |-> e.kind, name |-> NameOf(e), exact |-> exact, indexed |-> indexed,
       resolved |-> IF e.kind = "bit_select" /\ evalIndex(e.index).ok
                      THEN indexed \cup {<<NameOf(e), evalIndex(e.index).value>>} ELSE indexed]

-----------------------------------------------------------------------------
(***************************************************************************)
(* Outcome of a search: whether the element was found, what stands before  *)
(* the next one, and what the element is bound to.                         *)
(***************************************************************************)
Outcome(f, p, a) == [found |-> f, previous |-> p, actual |-> a]
Missing == Outcome(FALSE, Kept, Kept)
Builtin == Outcome(TRUE, Kept, Kept)
FoundIf(b) == IF b THEN Builtin ELSE Missing

Outcomes ==
  [found : BOOLEAN, previous : Object \cup {None, Kept}, actual : Object \cup {None, Kept}]

\* cro->Actual_group: a call has no such relation.  Nothing is found if the search
\* gave nullptr.
Found[e \in Refs \cup Calls, o \in Object \cup {None}] ==
  IF o = None THEN Missing ELSE Outcome(TRUE, o, IF e \in Refs THEN o ELSE Kept)
FoundUnbound[o \in Object \cup {None}] == IF o = None THEN Missing ELSE Outcome(TRUE, o, Kept)

\* The second outcome over the first.
Then[x \in Outcomes, y \in Outcomes] ==
  Outcome(x.found \/ y.found,
          IF y.previous # Kept THEN y.previous ELSE x.previous,
          IF y.actual # Kept THEN y.actual ELSE x.actual)

\* Lists that are searched one after the other, until one has the name.
FirstFound[searches \in Seq(Outcomes)] ==
  IF searches = <<>> \/ Head(searches).found
    THEN (IF searches = <<>> THEN Missing ELSE Head(searches))
    ELSE FirstFound[Tail(searches)]

\* The first object of a list that goes by one of the names, or nullptr.
FirstNamed[list \in Seq(Entry), wanted \in SUBSET Name] ==
  IF list = <<>> THEN None
  ELSE IF Head(list).name \in wanted THEN Head(list).object ELSE FirstNamed[Tail(list), wanted]

In(e, o, l, wanted) == Found[e.kind, FirstNamed[List[o, l], wanted]]

InUnbound(o, l, wanted) == FoundUnbound[FirstNamed[List[o, l], wanted]]

-----------------------------------------------------------------------------
(***************************************************************************)
(* Members of types.                                                       *)
(***************************************************************************)

\* A class and those it extends.
Ancestry[c \in Object] ==
  IF One[c, "Extends"] = None THEN <<c>> ELSE <<c>> \o Ancestry[One[c, "Extends"]]

\* A call is bound to a function or task of its own kind only.
IsCallee(e, tf) == tf # None /\ (Kind(tf) = "function") = (e.kind = "method_func_call")

Callee[e \in Question, tf \in Object \cup {None}] ==
  IF tf = None THEN Missing ELSE Outcome(TRUE, tf, IF e.kind \in Refs \/ IsCallee(e, tf) THEN tf ELSE Kept)

InOneClass[e \in Question, c \in Object] ==
  FirstFound[<<Callee[e, FirstNamed[List[c, "Task_funcs"], e.exact]],
               Found[e.kind, FirstNamed[List[c, "Named_events"] \o List[c, "Variables"], e.exact]]>>]

InClasses[e \in Question, classes \in Seq(Object)] ==
  FirstFound[[i \in DOMAIN classes |-> InOneClass[e, classes[i]]]]

\* The first class that knows the name.  found says that the element was found
\* before: then only the class itself is searched, and what precedes the next
\* element may become nullptr.
Lost[outcome \in Outcomes] == IF outcome.found THEN outcome ELSE Outcome(TRUE, None, Kept)

InClass[e \in Question, c \in Object \cup {None}, found \in BOOLEAN] ==
  IF found THEN Lost[IF c = None THEN Missing ELSE InOneClass[e, c]]
  ELSE IF c = None THEN Missing ELSE InClasses[e, Ancestry[c]]

\* Mutant of InAggregate: the builtin hides the members.
InAggregateBuiltinFirst(e, t, kinds) ==
  IF ~KindIs(t, kinds) THEN Missing
  ELSE IF e.name = "name" THEN Builtin ELSE In(e, t, "Members", e.exact)

\* A struct or union; "name" is a builtin.
InAggregate(e, t, kinds) ==
  IF ~KindIs(t, kinds) THEN Missing
  ELSE Then[In(e, t, "Members", e.exact), FoundIf(e.name = "name")]

Structs == {"struct_typespec"}
Aggregates == {"struct_typespec", "union_typespec"}
Arrays == {"array_typespec", "packed_array_typespec"}

InType[e \in Question, t \in Object \cup {None}, found \in BOOLEAN] ==
  CASE KindIs(t, {"string_typespec"}) -> Builtin
    [] KindIs(t, {"class_typespec"}) -> InClass[e, One[t, "Class_defn"], found]
    [] KindIs(t, {"enum_typespec"}) -> FoundIf(e.name = "name")
    [] OTHER -> InAggregate(e, t, Aggregates)

\* The typespec of an object; of its elements, if it is an array.
ElementType[t \in Object \cup {None}, arrays \in SUBSET STRING] ==
  IF KindIs(t, arrays) /\ One[t, "Elem_typespec"] # None THEN One[t, "Elem_typespec"] ELSE t

\* Members of a struct variable or net; a union only for a net.
InStruct(e, o) ==
  LET t == One[o, "Typespec"]
  IN  IF KindIs(t, IF Kind(o) = "struct_net" THEN Aggregates ELSE Structs)
        THEN In(e, t, "Members", e.exact) ELSE Missing

-----------------------------------------------------------------------------
(***************************************************************************)
(* Members of what an element is bound to: two switches on the kind of     *)
(* that object, the second one on its first element if it is an array.     *)
(***************************************************************************)
InScopes(e, o, wanted) == In(e, o, "Gen_scope_arrays", wanted)

\* A call picks a function or task by its name; one of the other kind is nullptr.
OfItsKind[e \in Question, tf \in Object \cup {None}] == IF IsCallee(e, tf) THEN tf ELSE None

InTaskFuncs(e, o) ==
  IF FirstNamed[List[o, "Task_funcs"], e.exact] = None THEN Missing
  ELSE LET callee == OfItsKind[e, FirstNamed[List[o, "Task_funcs"], e.exact]]
       IN  Outcome(TRUE, callee, callee)

InGenScope(e, o) ==
  IF e.kind \in Calls THEN InTaskFuncs(e, o)
  ELSE FirstFound[<<In(e, o, "Modules", e.indexed), In(e, o, "Nets", e.indexed),
                    In(e, o, "Array_nets", e.indexed), In(e, o, "Variables", e.indexed),
                    InScopes(e, o, e.resolved)>>]

InBlock(e, o) ==
  FirstFound[<<In(e, o, "Variables", e.indexed), In(e, o, "Array_vars", e.indexed)>>]

\* Builtin methods of arrays; what precedes the next element is a new
\* call.
IsBuiltin(e) == e.name \in {"size", "exists", "find", "max", "min"}

\* The typespec of the elements, and of the elements of those: Elem_typespec is
\* then taken for a typespec, which it is not.
InArrayVar(e, o, found) ==
  LET t == ElementType[One[o, "Typespec"],
                       IF Kind(o) = "array_var" THEN {"array_typespec"}
                       ELSE {"packed_array_typespec"}]
  IN  IF IsBuiltin(e) THEN Found[e.kind, Call]
      ELSE IF found \/ t = None \/ KindIs(t, Arrays) THEN Missing ELSE InType[e, t, FALSE]

InArrayNet(e) == IF IsBuiltin(e) THEN Found[e.kind, Call] ELSE FoundIf(e.name = "")

InPackedArrayNet(e) == IF IsBuiltin(e) /\ e.name # "find" THEN Found[e.kind, Call] ELSE Missing

InActualFirst(e, o, found) ==
  CASE Kind(o) = "design" -> In(e, o, "TopModules", e.indexed)
    [] Kind(o) = "gen_scope" ->
         IF found /\ e.kind \notin Calls THEN Missing ELSE InGenScope(e, o)
    [] Kind(o) = "modport" -> In(e, o, "Io_decls", e.exact)
    [] Kind(o) = "named_event" -> FoundIf(e.name = "triggered")
    [] Kind(o) = "array_net" -> InArrayNet(e)
    [] Kind(o) \in {"array_var", "packed_array_var"} -> InArrayVar(e, o, found)
    [] Kind(o) = "packed_array_net" -> InPackedArrayNet(e)
    [] Kind(o) \in {"named_begin", "named_fork"} -> IF found THEN Missing ELSE InBlock(e, o)
    [] OTHER -> Missing

\* actual = vars->front()
FirstElement[o \in Object] ==
  IF Kind(o) \in {"array_net", "array_var", "packed_array_var", "packed_array_net"}
     /\ One[o, "front"] # None
    THEN One[o, "front"] ELSE o

FoundAssigned[e \in Question, pa \in Object \cup {None}] ==
  IF pa = None THEN Missing ELSE Outcome(TRUE, pa, IF e.kind \in Refs THEN One[pa, "Rhs"] ELSE Kept)

InModule(e, o) ==
  FirstFound[<<In(e, o, "Variables", e.exact), In(e, o, "Nets", e.exact),
               InUnbound(o, "Modules", e.indexed), InUnbound(o, "Interfaces", e.indexed),
               InScopes(e, o, e.resolved), In(e, o, "Task_funcs", e.indexed),
               FoundAssigned[e, FirstNamed[List[o, "Param_assigns"], e.indexed]]>>]

InClassVar(e, o, found) ==
  LET t == One[o, "Typespec"]
  IN  IF t = None THEN Missing
      ELSE Then[CASE KindIs(t, {"class_typespec"}) -> InClass[e, One[t, "Class_defn"], found]
                  [] KindIs(t, Structs) -> In(e, t, "Members", e.exact)
                  [] OTHER -> Missing,
                FoundIf(e.kind = "method_func_call")]

InUnionVar(e, t) == IF KindIs(t, {"union_typespec"}) THEN In(e, t, "Members", e.exact) ELSE Missing

\* A modport of that name, or what its io_decl of that name stands for.
InModport(e, port) ==
  LET decl == FirstNamed[List[port.object, "Io_decls"], e.exact]
  IN  IF port.name \in e.exact THEN Found[e.kind, port.object]
      ELSE IF decl = None THEN Missing ELSE Found[e.kind, FirstOf[One[decl, "Expr"], decl]]

InModports(e, o) ==
  FirstFound[[i \in DOMAIN List[o, "Modports"] |-> InModport(e, List[o, "Modports"][i])]]

\* A port stands for what its Low_conn is bound to: for nullptr, if that is not
\* bound, and then the element is found all the same.
FoundPort[e \in Question, port \in Object \cup {None}] ==
  IF port = None THEN Missing
  ELSE Outcome(TRUE, One[port, "Low_conn"], IF e.kind \in Refs THEN One[port, "Low_conn"] ELSE Kept)

\* Mutant of InInterface: the modports come before the signals.
InInterfaceModportsFirst(e, o) ==
  FirstFound[<<In(e, o, "Variables", e.exact), In(e, o, "Parameters", e.exact),
               In(e, o, "Param_assigns", e.exact), InModports(e, o),
               In(e, o, "Nets", e.exact), InScopes(e, o, e.indexed)>>]

\* Signals before the declarations of modports: a field of a declaration cannot
\* be found.  The object of a Param_assigns entry is its Lhs.
InInterface(e, o) ==
  FirstFound[<<In(e, o, "Variables", e.exact), In(e, o, "Parameters", e.exact),
               In(e, o, "Param_assigns", e.exact),
               LET tf == FirstNamed[List[o, "Task_funcs"], e.exact]
               IN  IF tf = None THEN Missing
                   ELSE FoundUnbound[IF Kind(tf) = "function" THEN tf ELSE None],
               In(e, o, "Nets", e.exact), InModports(e, o),
               FoundPort[e, FirstNamed[List[o, "Ports"], e.exact]],
               InScopes(e, o, e.indexed)>>]

\* An argument, or a parameter: builtins of its dimensions besides the members of
\* its type.
InIoDecl(e, o, found) ==
  IF One[o, "Typespec"] = None THEN Missing
  ELSE Then[InType[e, One[o, "Typespec"], found],
            FoundIf(\/ e.kind = "method_func_call"
                    \/ e.kind = "bit_select" /\ List[o, "Ranges"] # <<>>)]

InParameter(e, o, found) ==
  IF One[o, "Typespec"] = None THEN Missing
  ELSE Then[InType[e, ElementType[One[o, "Typespec"], Arrays], found],
            FoundIf(e.kind \in {"method_func_call", "bit_select"} /\ List[o, "Ranges"] # <<>>)]

\* Does the operand at an index of an assignment pattern stand for a field?
Stands[operand \in Entry, index \in Nat, fields \in Seq(Entry)] ==
  IF operand.name = Untagged THEN index <= Len(fields)
  ELSE \E i \in DOMAIN fields :
         \/ operand.name = fields[i].name
         \/ /\ operand.name # Default
            /\ Kind(One[operand.object, "Typespec"]) = Kind(One[fields[i].object, "Typespec"])

LastStanding[operands \in Seq(Entry), fields \in Seq(Entry)] ==
  IF operands = <<>> THEN None
  ELSE IF Stands[Last(operands), Len(operands), fields] THEN Last(operands).object
  ELSE LastStanding[Front(operands), fields]

\* An assignment pattern of struct type: whatever the name, what follows is
\* searched in the last operand that stands for a field, or in the default.
InPattern(o) ==
  LET fields == SelectSeq(List[One[o, "Typespec"], "Members"], LAMBDA m : One[m.object, "Typespec"] # None)
      operands == List[o, "Operands"]
  IN  IF ~KindIs(One[o, "Typespec"], Structs) THEN Missing
      ELSE Outcome(\E i \in DOMAIN operands : operands[i].name = Untagged /\ i <= Len(fields),
                   FirstOf[LastStanding[operands, fields], FirstNamed[Reverse(operands), {Default}]],
                   Kept)

InActualSecond(e, o, found) ==
  CASE Kind(o) = "clocking_block" -> In(e, o, "Clocking_io_decls", e.exact)
    [] Kind(o) = "module_inst" -> IF found THEN Missing ELSE InModule(e, o)
    [] Kind(o) = "class_var" -> InClassVar(e, o, found)
    [] Kind(o) \in {"struct_net", "struct_var"} -> InStruct(e, o)
    [] Kind(o) = "union_var" -> InUnionVar(e, One[o, "Typespec"])
    [] Kind(o) = "interface_inst" -> IF found THEN Missing ELSE InInterface(e, o)
    [] Kind(o) \in {"array_var", "string_var"} ->
         FoundIf(e.kind \in {"method_func_call", "bit_select"})
    [] Kind(o) = "class_typespec" -> InClass[e, One[o, "Class_defn"], found]
    [] Kind(o) = "io_decl" -> InIoDecl(e, o, found)
    [] Kind(o) = "parameter" -> InParameter(e, o, found)
    [] Kind(o) = "operation" -> InPattern(o)
    [] Kind(o) = "ref_var" -> Builtin
    [] OTHER -> FoundIf(e.kind = "method_func_call")

-----------------------------------------------------------------------------
(***************************************************************************)
(* The clone of one element.                                               *)
(***************************************************************************)
names == scopes[instance].names
Enclosing == scopes[instance].class
bindAny(n) == IF n \in DOMAIN names THEN names[n] ELSE None

\* DeepCopy: a select is also known as "a[2]" if its index is; what nothing in
\* scope is called stays bound to what the path as written is bound to.  The
\* function of a call is bound later.
ScopeBinding(e) ==
  LET full == IF e.kind = "bit_select" /\ evalIndex(e.index).ok
                THEN bindAny(<<e.name, evalIndex(e.index).value>>) ELSE None
  IN  IF e.kind \in Calls THEN None
      ELSE FirstOf[full, FirstOf[bindAny(<<e.name, NoIndex>>), e.actual]]

ThisOrSuper(e) ==
  CASE e.kind \in Refs /\ e.name = "this" /\ Enclosing # None -> Outcome(TRUE, Kept, Enclosing)
    [] e.kind \in Refs /\ e.name = "super" /\ Enclosing # None /\ One[Enclosing, "Extends"] # None
         -> Outcome(TRUE, Kept, One[Enclosing, "Extends"])
    [] OTHER -> Missing

More == Len(clone) < Len(path) /\ ~cut
Element == path[Len(clone) + 1]
AfterElement == previous.elem > 0
AfterRef == AfterElement /\ path[previous.elem].kind \in Refs
AfterObject(kinds) == ~AfterElement /\ KindIs(previous.object, kinds)

\* What the element before stands for.
Actual ==
  IF clone[previous.elem] = None /\ path[previous.elem].name = "$root" THEN Root
  ELSE clone[previous.elem]

\* Mutant of IsAgain: any element after a select.
IsAgainWhatever(e) == e.kind \in Refs /\ AfterElement /\ path[previous.elem].kind = "bit_select"

\* "[j]" after a select: the element of the path as written is bound, not its clone.
IsAgain(e) ==
  e.kind \in Refs /\ e.name = "" /\ AfterElement /\ path[previous.elem].kind = "bit_select"

Nothing == [elem |-> 0, object |-> None]

\* Mutant of Push: the clone precedes the next element even if it was found.
PushBoth(outcome) ==
  LET k == Len(clone) + 1
  IN  /\ clone' = Append(clone, IF outcome.actual = Kept THEN ScopeBinding(Element) ELSE outcome.actual)
      /\ previous' = [elem |-> k, object |-> IF outcome.previous = Kept THEN None ELSE outcome.previous]
      /\ UNCHANGED <<graph, scopes, instance>>

\* The clone joins the others, bound as the outcome says.
Push(outcome) ==
  LET k == Len(clone) + 1
  IN  /\ clone' = Append(clone, IF outcome.actual = Kept THEN ScopeBinding(Element) ELSE outcome.actual)
      /\ previous' = IF ~outcome.found THEN [elem |-> k, object |-> None]
                     ELSE IF outcome.previous = Kept THEN previous
                     ELSE [elem |-> 0, object |-> outcome.previous]
      /\ UNCHANGED <<graph, scopes, instance>>

-----------------------------------------------------------------------------
(***************************************************************************)
(* Actions: an element after each kind of thing.                           *)
(***************************************************************************)

\* The first element, and one after nullptr.
CloneFirst ==
  /\ More /\ previous = Nothing
  /\ \E outcome \in {ThisOrSuper(Element)} : Push(outcome)
  /\ UNCHANGED <<path, reported, cut>>

\* After an element that is bound.
CloneAfterRef ==
  /\ More /\ AfterRef /\ Actual # None
  /\ \E own \in {IF IsAgain(Element) THEN Builtin ELSE ThisOrSuper(Element)},
        e \in {Asks(Element)}, o \in {Actual}, front \in {FirstElement[Actual]} :
     \E early \in {InActualFirst(e, o, own.found)} :
     \E first \in {Then[own, early]} :
     \E late \in {InActualSecond(e, front, first.found)} :
     \E outcome \in {Then[first, late]} :
         /\ Push(outcome)
         /\ reported' = IF outcome.found THEN reported ELSE reported \cup {Len(clone) + 1}
  /\ path' = IF IsAgain(Element) THEN [path EXCEPT ![Len(clone) + 1].actual = clone[previous.elem]] ELSE path
  /\ UNCHANGED cut

\* After an element that is not bound: the path ends after a select.
CloneAfterUnbound ==
  /\ More /\ AfterRef /\ Actual = None
  /\ \E outcome \in {IF IsAgain(Element) THEN Builtin ELSE ThisOrSuper(Element)} : Push(outcome)
  /\ cut' = (path[previous.elem].kind = "bit_select")
  /\ reported' = IF cut' THEN reported ELSE reported \cup {Len(clone) + 1}
  /\ path' = IF IsAgain(Element) THEN [path EXCEPT ![Len(clone) + 1].actual = None] ELSE path

\* After a call.
CloneAfterCall ==
  /\ More /\ AfterElement /\ ~AfterRef
  /\ \E outcome \in {ThisOrSuper(Element)} : Push(outcome)
  /\ UNCHANGED <<path, reported, cut>>

\* Members of the type t, for an element that can be bound to one.
BoundMember(e, t, kinds) ==
  IF KindIs(t, kinds) /\ e.kind \in Refs THEN In(e, t, "Members", e.exact) ELSE Missing

\* After a field of a struct or union; a field without a type ends the path.
CloneAfterMember ==
  /\ More /\ AfterObject({"typespec_member"})
  /\ \E e \in {Asks(Element)}, t \in {ElementType[One[previous.object, "Typespec"], Arrays]},
        own \in {ThisOrSuper(Element)} :
     \E member \in {BoundMember(e, t, Aggregates)},
        len \in {FoundIf(KindIs(t, {"string_typespec"}) /\ e.name = "len")} :
       Push(Then[own, Then[member, len]])
  /\ cut' = (One[previous.object, "Typespec"] = None)
  /\ UNCHANGED <<path, reported>>

\* After a parameter of an interface; as after a field, of a struct only.
CloneAfterParameter ==
  /\ More /\ AfterObject({"parameter"})
  /\ \E e \in {Asks(Element)}, own \in {ThisOrSuper(Element)},
        t \in {ElementType[One[previous.object, "Typespec"], {"packed_array_typespec"}]} :
     \E member \in {BoundMember(e, t, Structs)} : Push(Then[own, member])
  /\ cut' = (One[previous.object, "Typespec"] = None)
  /\ UNCHANGED <<path, reported>>

\* After an array of structs, or a struct.
CloneAfterStruct ==
  /\ More /\ AfterObject({"array_var", "struct_var", "struct_net"})
  /\ \E e \in {Asks(Element)}, own \in {ThisOrSuper(Element)},
        o \in {IF Kind(previous.object) = "array_var" THEN One[previous.object, "front"] ELSE previous.object} :
     \E member \in {IF KindIs(o, {"struct_var", "struct_net"}) THEN InStruct(e, o) ELSE Missing} :
       Push(Then[own, member])
  /\ UNCHANGED <<path, reported, cut>>

\* After a module instance, which is found in another one: the path ends here.
CloneAfterModule ==
  /\ More /\ AfterObject({"module_inst"})
  /\ \E e \in {Asks(Element)}, own \in {ThisOrSuper(Element)}, o \in {previous.object} :
     \E member \in {FirstFound[<<In(e, o, "Variables", e.exact), In(e, o, "Nets", e.exact),
                                 InUnbound(o, "Modules", e.indexed)>>]} :
       Push(Then[own, member])
  /\ cut' = TRUE
  /\ UNCHANGED <<path, reported>>

\* Mutant of CloneAfterGenScope: the path ends there, as after a module instance.
CloneAfterGenScopeLast ==
  /\ More /\ AfterObject({"gen_scope"})
  /\ \E e \in {Asks(Element)}, o \in {previous.object} :
       Push(FirstFound[<<In(e, o, "Nets", e.exact), In(e, o, "Variables", e.indexed)>>])
  /\ cut' = TRUE
  /\ UNCHANGED <<path, reported>>

\* After a generate block, which is found in a module or another one.
CloneAfterGenScope ==
  /\ More /\ AfterObject({"gen_scope"})
  /\ \E e \in {Asks(Element)}, own \in {ThisOrSuper(Element)}, o \in {previous.object} :
     \E member \in {IF e.kind \in Calls THEN InTaskFuncs(e, o)
                    ELSE FirstFound[<<In(e, o, "Nets", e.exact), In(e, o, "Array_nets", e.indexed),
                                      In(e, o, "Variables", e.indexed), In(e, o, "Modules", e.indexed)>>]} :
       Push(Then[own, member])
  /\ UNCHANGED <<path, reported, cut>>

\* After any other object nothing is searched.
CloneAfterOther ==
  /\ More /\ ~AfterElement /\ previous.object # None
  /\ ~AfterObject({"typespec_member", "parameter", "array_var", "struct_var", "struct_net", "module_inst", "gen_scope"})
  /\ \E outcome \in {ThisOrSuper(Element)} : Push(outcome)
  /\ UNCHANGED <<path, reported, cut>>

Init ==
  /\ graph \in Graphs /\ path \in Paths /\ scopes \in Scopes /\ instance = 1
  /\ clone = <<>> /\ previous = Nothing /\ reported = {} /\ cut = FALSE

\* The same path, cloned for the next instance of its module.
NextInstance ==
  /\ ~More /\ instance < Len(scopes)
  /\ instance' = instance + 1
  /\ clone' = <<>> /\ previous' = Nothing /\ reported' = {} /\ cut' = FALSE
  /\ UNCHANGED <<graph, path, scopes>>

Next ==
  \/ CloneFirst \/ CloneAfterRef \/ CloneAfterUnbound \/ CloneAfterCall \/ CloneAfterMember
  \/ CloneAfterParameter \/ CloneAfterStruct \/ CloneAfterModule \/ CloneAfterGenScope
  \/ CloneAfterOther \/ NextInstance

Spec == Init /\ [][Next]_vars

=============================================================================
