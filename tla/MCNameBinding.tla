---------------------------- MODULE MCNameBinding ----------------------------
(***************************************************************************)
(* Model checking of NameBinding over designs of up to three scopes, one   *)
(* in the other, and a reference x in the innermost one.  The innermost    *)
(* scope declares x in every way it can, or not, and the scopes around it  *)
(* in one way, or not; or only the outermost declares it, in every way.    *)
(* References do not influence each other, but for those the designs have  *)
(* on purpose.                                                             *)
(***************************************************************************)
EXTENDS NameBindingLanguage

Item(id, kind, name, in, rel) == [id |-> id, kind |-> kind, name |-> name, in |-> in, rel |-> rel]
\* An object that is in another one is also related to this one.
Link(id, in, rel) == [id |-> id, kind |-> "", name |-> "", in |-> in, rel |-> rel]

\* A design of these items; bound: what references are bound to before.
Design(items, defName, bound, mute) ==
  LET own == SelectSeq(items, LAMBDA i : i.kind # "")
      ids == {own[i].id : i \in DOMAIN own} \cup {"design"}
      item == [o \in ids \ {"design"} |-> own[CHOOSE i \in DOMAIN own : own[i].id = o]]
      in(o) == SelectSeq(items, LAMBDA i : i.in = o)
      refs == {o \in DOMAIN item : item[o].kind \in References}
  IN  [kind |-> [o \in ids |-> IF o = "design" THEN o ELSE item[o].kind],
       name |-> [o \in ids |-> IF o = "design" THEN "" ELSE item[o].name],
       parent |-> [o \in ids |-> IF o = "design" THEN None ELSE item[o].in],
       defName |-> [o \in ids |-> IF o \in DOMAIN defName THEN defName[o] ELSE ""],
       relations |-> [o \in ids |->
         [r \in {in(o)[i].rel : i \in DOMAIN in(o)} |->
            LET related == SelectSeq(in(o), LAMBDA i : i.rel = r)
            IN  [i \in DOMAIN related |-> related[i].id]]],
       actual |-> [r \in refs |-> IF r \in DOMAIN bound THEN bound[r] ELSE None],
       muteErrors |-> mute]

-----------------------------------------------------------------------------
Instance == {"module_inst", "interface_inst"}
Statement == Blocks \cup NamedBlocks \cup {"for_stmt", "foreach_stmt", "method_func_call"}

\* The statement or expression id in the scope in of kind k.
InBody(id, kind, name, in, k) ==
  CASE k \in Instance \cup {"gen_scope"} ->
         <<Item(id \o ".process", "initial", "", in, "Process"), Item(id, kind, name, id \o ".process", "Stmts")>>
    [] k \in {"package", "class_defn"} ->
         <<Item(id \o ".init", "logic_var", "init", in, "Variables"), Item(id, kind, name, id \o ".init", "Expr")>>
    [] k = "for_stmt" -> <<Item(id, kind, name, in, "VpiCondition")>>
    [] k = "method_func_call" -> <<Item(id, kind, name, in, "With")>>
    [] OTHER -> <<Item(id, kind, name, in, "Stmts")>>

\* The scope id of kind k in the scope in of kind outer.
Placed(id, k, in, outer) ==
  CASE k = "module_inst" -> <<Item(id, k, id, in, IF outer = "design" THEN "topModules" ELSE "Modules")>>
    [] k = "interface_inst" -> <<Item(id, k, id, in, "Interfaces")>>
    [] k = "package" -> <<Item(id, k, id, in, "allPackages")>>
    [] k = "class_defn" -> <<Item(id, k, id, in, IF outer = "design" THEN "allClasses" ELSE "Class_defns")>>
    [] k = "gen_scope" -> <<Item(id \o ".array", "gen_scope_array", id, in, "Gen_scope_arrays"),
                            Item(id, k, "", id \o ".array", "Gen_scopes")>>
    [] k = "task_func" -> <<Item(id, k, id, in, "Task_funcs")>>
    [] OTHER -> InBody(id, k, id, in, outer)

-----------------------------------------------------------------------------
(***************************************************************************)
(* The ways to declare x in a scope s of kind k.                           *)
(***************************************************************************)
X(s) == s \o ".x"

KindOf ==
  [w \in ByItself |->
     CASE w \in {"Nets", "Array_nets"} -> "net" [] w = "Parameters" -> "parameter"
       [] w = "Interfaces" -> "interface_inst" [] w = "Modules" -> "module_inst"
       [] w = "Module_arrays" -> "module_array" [] w \in {"Variables", "Array_vars"} -> "logic_var"
       [] w = "Named_events" -> "named_event" [] w = "Io_decls" -> "io_decl"
       [] w = "VpiLoopVars" -> "logic_var" [] OTHER -> "clocking_block"]

Assign(s) == <<Item(s \o ".assign", "param_assign", "", s, "Param_assigns"), Link(X(s), s \o ".assign", "Lhs")>>

\* The interface that a port of s is connected to.
Bus(s) == <<Item("bus", "interface_inst", "bus", s, "Interfaces")>>
PortTo(s, id) ==
  <<Item(s \o ".port", "port", "x", s, "Ports"), Item(s \o ".low", "ref_obj", "x", s \o ".port", "Low_conn")>>

Declare(s, k, w) ==
  CASE w = "none" -> <<>>
    [] w \in ByItself -> <<Item(X(s), KindOf[w], "x", s, w)>>
    [] w = "assigned" -> <<Item(X(s), "parameter", "x", s, "Parameters")>> \o Assign(s)
                         \o <<Item(s \o ".value", "constant", "", s \o ".assign", "Rhs")>>
    [] w = "not assigned" -> <<Item(X(s), "parameter", "x", s, "Parameters")>> \o Assign(s)
    [] w = "enum variables" -> <<Item(s \o ".v", "enum_var", "v", s, "Variables"),
                                 Item(s \o ".t", "enum_typespec", "t", s \o ".v", "Typespec"),
                                 Item(X(s), "enum_const", "x", s \o ".t", "Enum_consts")>>
    [] w = "enum types" -> <<Item(s \o ".t", "enum_typespec", "t", s, "Typespecs"),
                             Item(X(s), "enum_const", "x", s \o ".t", "Enum_consts")>>
    [] w = "definition" -> <<Item("def", k, "", "design", "allModules"),
                             Item(s \o ".t", "enum_typespec", "t", "def", "Typespecs"),
                             Item(X(s), "enum_const", "x", s \o ".t", "Enum_consts")>>
    [] w = "interface arrays" -> <<Item(s \o ".a", "interface_array", "a", s, "Interface_arrays"),
                                   Item(X(s), "interface_inst", "x", s \o ".a", "Instances")>>
    [] w = "generate blocks" -> <<Item(s \o ".a", "gen_scope_array", "x", s, "Gen_scope_arrays"),
                                  Item(X(s), "gen_scope", "", s \o ".a", "Gen_scopes")>>
    [] w = "port" -> PortTo(s, "bus") \o Bus(s)
    [] w = "modport" -> PortTo(s, "bus.mp") \o Bus(s) \o <<Item("bus.mp", "modport", "mp", "bus", "Modports")>>
    [] w = "init" -> <<Item(s \o ".i", "assignment", "", s, "VpiForInitStmts"), Item(X(s), "logic_var", "x", s \o ".i", "Lhs")>>
    [] w = "init ref" -> <<Item(s \o ".i", "assignment", "", s, "VpiForInitStmts"), Item(s \o ".e", "ref_obj", "x", s \o ".i", "Lhs")>>
    [] w = "init ref_var" -> <<Item(s \o ".i", "assignment", "", s, "VpiForInitStmts"), Item(s \o ".e", "ref_var", "x", s \o ".i", "Lhs")>>
    [] w = "argument" -> <<Item(X(s), "logic_var", "x", s, "Tf_call_args")>>
    [] w = "argument ref" -> <<Item(s \o ".e", "ref_obj", "x", s, "Tf_call_args")>>
    [] w = "block" -> InBody(X(s), "named_fork", "x", s, k)
    [] w = "block and variable" -> InBody(X(s), "named_begin", "x", s, k)
                                   \o <<Item(X(s) \o ".x", "logic_var", "x", X(s), "Variables")>>
    [] w = "return" -> <<Item(X(s), "logic_var", "", s, "Return")>>
    [] w = "base" -> <<Item(s \o ".base", "class_defn", s \o ".base", "design", "allClasses"), Link(s \o ".base", s, "Extends"),
                       Item(X(s), "logic_var", "x", s \o ".base", "Variables")>>
    [] w = "base and own" -> <<Item(X(s), "logic_var", "x", s, "Variables"),
                               Item(s \o ".base", "class_defn", s \o ".base", "design", "allClasses"), Link(s \o ".base", s, "Extends"),
                               Item(s \o ".base.x", "logic_var", "x", s \o ".base", "Variables")>>
    [] OTHER -> <<>>   \* its own name: "name", "defName"

Basic == {"Array_vars", "Variables", "Parameters"}
WaysOf(k) ==
  {"none"} \cup
  CASE k = "module_inst" ->
         (ByItself \ {"VpiLoopVars", "Io_decls"})
         \cup {"assigned", "not assigned", "enum variables", "enum types", "definition", "interface arrays",
               "generate blocks", "port", "modport", "name", "defName", "block"}
    [] k = "interface_inst" ->
         (ByItself \ {"VpiLoopVars", "Io_decls", "Modules", "Module_arrays"})
         \cup {"assigned", "not assigned", "enum variables", "enum types", "interface arrays",
               "generate blocks", "port", "modport"}
    [] k = "package" -> Basic \cup {"Named_events", "enum variables", "enum types"}
    [] k = "class_defn" -> Basic \cup {"Named_events", "enum variables", "enum types", "base", "base and own"}
    [] k = "gen_scope" ->
         Basic \cup {"Nets", "Array_nets", "Interfaces", "Modules", "Module_arrays", "interface arrays",
                     "generate blocks", "Named_events", "enum variables", "enum types", "block"}
    [] k = "task_func" -> {"Array_vars", "Variables", "Io_decls", "return", "name"}
    [] k = "for_stmt" -> {"Array_vars", "Variables", "init", "init ref", "init ref_var"}
    [] k = "foreach_stmt" -> {"Array_vars", "Variables", "VpiLoopVars"}
    [] k = "method_func_call" -> {"argument", "argument ref"}
    [] OTHER -> Basic \cup {"block", "block and variable"}

\* One way to declare something in a scope of kind k.
Usual(k) == IF k = "method_func_call" THEN "argument" ELSE "Variables"

-----------------------------------------------------------------------------
S == <<"s1", "s2", "s3">>

Chain(kinds) ==
  FlattenSeq([i \in DOMAIN kinds |->
    Placed(S[i], kinds[i], IF i = 1 THEN "design" ELSE S[i - 1], IF i = 1 THEN "design" ELSE kinds[i - 1])])

\* With names of their own.
Renamed(items, kinds, ways) ==
  [i \in DOMAIN items |->
     IF \E j \in DOMAIN kinds : items[i].id = S[j] /\ ways[j] \in {"name", "return"}
       THEN [items[i] EXCEPT !.name = "x"] ELSE items[i]]
DefNames(kinds, ways) ==
  [s \in {S[j] : j \in {i \in DOMAIN kinds : kinds[i] \in Instance}} \cup {"def"} |->
     IF \E j \in DOMAIN kinds : s = S[j] /\ ways[j] = "defName" THEN "x"
     ELSE IF s = "def" \/ \E j \in DOMAIN kinds : s = S[j] /\ ways[j] = "definition" THEN "Def" ELSE "Other"]

Declarations(kinds, ways) == FlattenSeq([i \in DOMAIN kinds |-> Declare(S[i], kinds[i], ways[i])])

\* The reference in the scope s of kind k.
Reference(where, s, k) ==
  CASE where = "body" -> InBody("r", "ref_obj", "x", s, k)
    [] where = "connection" -> <<Item("r.port", "port", "p", s, "Ports"), Item("r", "bit_select", "x", "r.port", "High_conn")>>
\* The interface of a port is bound by the parser, as the port's low connection.
Bound(items, r) ==
  [o \in {items[i].id : i \in DOMAIN items} \cap {"r", "s1.low", "s2.low", "s3.low"} |->
     IF o = "r" THEN r
     ELSE IF \E i \in DOMAIN items : items[i].id = "bus.mp" THEN "bus.mp" ELSE "bus"]

Made(kinds, ways, where, r, mute, declaredLast) ==
  LET inner == Len(kinds)
      declarations == Declarations(kinds, ways)
      reference == Reference(where, S[inner], kinds[inner])
      items == Renamed(Chain(kinds), kinds, ways)
               \o (IF declaredLast THEN reference \o declarations ELSE declarations \o reference)
  IN  Design(items, DefNames(kinds, ways), Bound(items, r), mute)

InModule == Instance \cup {"gen_scope", "class_defn", "task_func"} \cup Statement
Chains ==
  {<<"module_inst">>, <<"package">>, <<"class_defn">>, <<"package", "class_defn">>, <<"package", "task_func">>,
   <<"class_defn", "task_func">>, <<"package", "class_defn", "task_func">>, <<"module_inst", "class_defn", "task_func">>,
   <<"module_inst", "begin", "named_begin">>, <<"module_inst", "named_fork", "for_stmt">>}
  \cup {<<"module_inst", k>> : k \in InModule}
  \cup {<<"module_inst", k, "begin">> : k \in Instance \cup {"gen_scope"}}
  \cup {<<"module_inst", "gen_scope", k>> : k \in Instance \cup {"gen_scope"}}
  \cup {<<"module_inst", "task_func", k>> : k \in Statement}

WaysIn(kinds) ==
  {ways \in [DOMAIN kinds -> UNION {WaysOf(kinds[i]) : i \in DOMAIN kinds}] :
     /\ \A i \in DOMAIN kinds : ways[i] \in WaysOf(kinds[i])
     /\ \A i \in DOMAIN kinds : i < Len(kinds) => ways[i] \in {"none", Usual(kinds[i])}
     \* the scope around a function declares its name
     /\ \A i \in DOMAIN kinds \ {1} : ways[i] \in {"name", "return"} => ways[i - 1] = "none"}
  \cup {[[i \in DOMAIN kinds |-> "none"] EXCEPT ![1] = w] : w \in WaysOf(kinds[1])}

InItsScopes ==
  UNION {UNION {
    {Made(kinds, ways, where, r, mute, declaredLast) :
       where \in {"body"} \cup (IF kinds[Len(kinds)] \in Instance THEN {"connection"} ELSE {}),
       r \in {None} \cup (IF ways[1] = "Variables" THEN {X("s1")} ELSE {}),
       mute \in {FALSE} \cup {b \in BOOLEAN : \E i \in DOMAIN ways : ways[i] \in {"assigned", "not assigned"}},
       declaredLast \in {FALSE} \cup {b \in BOOLEAN : \E i \in DOMAIN ways : ways[i] \in {"block", "block and variable"}}}
    : ways \in WaysIn(kinds)} : kinds \in Chains}

-----------------------------------------------------------------------------
(***************************************************************************)
(* Designs in which the walk may come to the reference from elsewhere.     *)
(***************************************************************************)
Basics(n) == [1 .. n -> {"none", "Variables"}]

\* What r may be bound to before: something in one of the scopes, or nothing.
Before(ways) == {None} \cup {X(S[i]) : i \in {j \in DOMAIN ways : ways[j] = "Variables"}}

Composed(kinds, ways, more, links, r) ==
  Design(Chain(kinds) \o Declarations(kinds, ways) \o more, DefNames(kinds, ways),
         [o \in DOMAIN links \cup {"r"} |-> IF o = "r" THEN r ELSE links[o]], FALSE)

NoLinks == [o \in {} |-> None]

\* The range of a type of the second scope, which a variable of the first has.
SharedTypes ==
  UNION {UNION {
    {Composed(kinds, ways,
       <<Item("t", "logic_typespec", "t", "s2", "Typespecs"), Item("r", "ref_obj", "x", "t", "Ranges"),
         Item("v", "logic_var", "v", "s1", "Variables"), Link("t", "v", "Typespec")>>, NoLinks, r)
     : r \in Before(ways)} : ways \in Basics(2)} : kinds \in {<<"module_inst", "class_defn">>, <<"module_inst", "gen_scope">>}}

\* The same with a type of a package that a module uses.
PackageTypes ==
  UNION {
    {Composed(<<"package">>, <<ways[1]>>,
       <<Item("t", "logic_typespec", "t", "s1", "Typespecs"), Item("r", "ref_obj", "x", "t", "Ranges")>>
       \o Placed("s2", "module_inst", "design", "design") \o Declare("s2", "module_inst", ways[2])
       \o <<Item("v", "logic_var", "v", "s2", "Variables"), Link("t", "v", "Typespec")>>, NoLinks, r)
     : r \in Before(ways)} : ways \in Basics(2)}

\* A path to the second scope, from a block around which it is not.
Paths ==
  UNION {
    {Composed(<<"module_inst", "module_inst">>, <<ways[1], ways[2]>>,
       InBody("r", "ref_obj", "x", "s2", "module_inst") \o Placed("s3", "begin", "s1", "module_inst")
       \o Declare("s3", "begin", ways[3])
       \o <<Item("path", "hier_path", "", "s3", "Stmts"), Item("a", "ref_obj", "s2", "path", "Path_elems"),
            Item("y", "ref_obj", "x", "path", "Path_elems")>>, ("a" :> "s2") @@ ("y" :> y), r)
     : r \in Before(ways), y \in {None} \cup {X(S[i]) : i \in {j \in {2} : ways[j] = "Variables"}}} : ways \in Basics(3)}

\* An instance in the second scope, connected to an interface there, to whose
\* port something is connected in turn.
Connections ==
  UNION {UNION {
    {Composed(<<"module_inst", k, "module_inst">>, ways,
       <<Item("bus", "interface_inst", "bus", "s2", "Interfaces"), Item("bus.port", "port", "p", "bus", "Ports"),
         Item("clk", "ref_obj", "x", "bus.port", "High_conn"), Item("bus.x", "logic_var", "x", "bus", "Variables"),
         Item("port", "port", "p", "s3", "Ports"), Item("op", "operation", "", "port", "High_conn"),
         Item("b", "ref_obj", "bus", "op", "Rhs"), Item("r", "ref_obj", "x", "op", "Lhs")>>
       \o InBody("inner", "ref_obj", "x", "bus", "interface_inst"), ("b" :> "bus"), r)
     : r \in Before(ways)} : ways \in Basics(3)} : k \in {"module_inst", "gen_scope"}}

MCDesigns == InItsScopes \cup SharedTypes \cup PackageTypes \cup Paths \cup Connections
=============================================================================
