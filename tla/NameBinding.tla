----------------------------- MODULE NameBinding -----------------------------
(***************************************************************************)
(* How elaboration binds references to nets, variables, parameters and     *)
(* instances (templates/ElaboratorListener.cpp), along the walk of         *)
(* scripts/VpiListener.py.                                                 *)
(*                                                                         *)
(* The walk enters and leaves every object it meets as often as it meets   *)
(* it, and goes through its relations the first time only.  Entering a     *)
(* scope pushes what it declares on instStack_; leaving a reference binds  *)
(* it to what its name means on the stack by then.  The relations include  *)
(* the object a reference is bound to and the type of a variable, so that  *)
(* the walk also reaches a scope, or a type, from wherever it is used.     *)
(*                                                                         *)
(* Only binding is done here (bindOnly, or muteErrors, which leave out the *)
(* cloning), and nothing is propagated to the classes of class variables.  *)
(* The functions on the stack are those of TaskFuncBinding, and left out.  *)
(***************************************************************************)
EXTENDS Naturals, SequencesExt

CONSTANTS
  None,     \* nullptr
  Designs   \* what to elaborate, see Init

ASSUME NoneAssumption == \A d \in Designs : None \notin DOMAIN d.kind
ASSUME DesignAssumption == \A d \in Designs : d.kind["design"] = "design"

References == {"ref_obj", "bit_select", "part_select", "indexed_part_select", "var_select"}
Blocks == {"begin", "fork_stmt"}
NamedBlocks == {"named_begin", "named_fork"}
Scopes == {"module_inst", "interface_inst", "package", "class_defn", "gen_scope", "task_func",
           "for_stmt", "foreach_stmt", "method_func_call"} \cup Blocks \cup NamedBlocks

VARIABLES
  design,       \* the kind, names, parent and relations of each object; never changes
  walk,         \* the objects the walk is in, with the steps that are left in each
  visited,      \* visited
  instStack,    \* instStack_
  flat,         \* flatComponentMap_
  inHierarchy,  \* inHierarchy_
  ignoreLast,   \* ignoreLastInstance_
  actual        \* Actual_group of the references

vars == <<design, walk, visited, instStack, flat, inHierarchy, ignoreLast, actual>>

Kind(o) == design.kind[o]
Name(o) == design.name[o]
R(o, r) == IF r \in DOMAIN design.relations[o] THEN design.relations[o][r] ELSE <<>>

-----------------------------------------------------------------------------
(***************************************************************************)
(* What the scopes declare: sequences of pairs of a name and an object, in *)
(* the order in which they are put into a map.                             *)
(***************************************************************************)
Pair(n, o) == [name |-> n, object |-> o]
Pairs(os) == [i \in DOMAIN os |-> Pair(Name(os[i]), os[i])]
Through(os, r) == FlattenSeq([i \in DOMAIN os |-> R(os[i], r)])

\* Mutant of Map: the last one of a name replaces the others.
MapLastWins(pairs) ==
  [n \in {pairs[i].name : i \in DOMAIN pairs} \ {""} |->
     pairs[CHOOSE i \in DOMAIN pairs :
             pairs[i].name = n /\ \A j \in DOMAIN pairs : j > i => pairs[j].name # n].object]

\* Mutant of Map: what has no name is put into the map, too.
MapUnnamed(pairs) ==
  [n \in {pairs[i].name : i \in DOMAIN pairs} |->
     pairs[CHOOSE i \in DOMAIN pairs :
             pairs[i].name = n /\ \A j \in 1 .. i - 1 : pairs[j].name # n].object]

\* emplace for each pair with a name: the first one of a name stays.
Map(pairs) ==
  [n \in {pairs[i].name : i \in DOMAIN pairs} \ {""} |->
     pairs[CHOOSE i \in DOMAIN pairs :
             pairs[i].name = n /\ \A j \in 1 .. i - 1 : pairs[j].name # n].object]

\* Each variable, followed by the constants of its type if that is an enum.
WithEnumConsts(os) ==
  FlattenSeq([i \in DOMAIN os |->
    <<os[i]>> \o (IF Kind(os[i]) = "enum_var" THEN Through(R(os[i], "Typespec"), "Enum_consts")
                                              ELSE <<>>)])

\* The ports whose low connection is bound to one of the kinds.
Connected(o, kinds) ==
  LET low(p) == R(p, "Low_conn")
      bound == SelectSeq(R(o, "Ports"), LAMBDA p :
                 low(p) # <<>> /\ actual[low(p)[1]] # None /\ Kind(actual[low(p)[1]]) \in kinds)
  IN  [i \in DOMAIN bound |-> Pair(Name(bound[i]), actual[low(bound[i])[1]])]

\* A generate block goes by the name of its array.
GenScopes(o) ==
  FlattenSeq([i \in DOMAIN R(o, "Gen_scope_arrays") |->
    LET gsa == R(o, "Gen_scope_arrays")[i]
    IN  [j \in DOMAIN R(gsa, "Gen_scopes") |-> Pair(Name(gsa), R(gsa, "Gen_scopes")[j])]])

\* The values the parameters are assigned, before the parameters themselves;
\* but a parameter replaces a missing value.
Parameters(o, assigns) ==
  LET values == [i \in DOMAIN assigns |->
                   Pair(Name(R(assigns[i], "Lhs")[1]),
                        IF R(assigns[i], "Rhs") = <<>> THEN None ELSE R(assigns[i], "Rhs")[1])]
  IN  SelectSeq(values, LAMBDA v : v.object # None) \o Pairs(R(o, "Parameters"))
      \o SelectSeq(values, LAMBDA v : v.object = None)

Clocking(o) ==
  Pairs(R(o, "Default_clocking") \o R(o, "Global_clocking") \o R(o, "Clocking_blocks"))

\* The enum constants of the definition of an instance, if that is a module.
DefinitionEnumConsts(o) ==
  IF design.defName[o] \in DOMAIN flat /\ Kind(flat[design.defName[o]]) = "module_inst"
    THEN Pairs(Through(R(flat[design.defName[o]], "Typespecs"), "Enum_consts"))
    ELSE <<>>

Bases[c \in DOMAIN design.kind] ==
  IF R(c, "Extends") = <<>> THEN <<c>> ELSE <<c>> \o Bases[R(c, "Extends")[1]]

ModuleNets(o) ==
  Pairs(R(o, "Nets") \o WithEnumConsts(R(o, "Variables")) \o R(o, "Interfaces")
        \o Through(R(o, "Interface_arrays"), "Instances"))
  \o Connected(o, {"modport"})
  \o Pairs(R(o, "Array_nets") \o R(o, "Named_events"))
  \o Connected(o, {"interface_inst"})
  \o GenScopes(o)

ModuleParams(o) ==
  Parameters(o, IF design.muteErrors THEN R(o, "Param_assigns") ELSE <<>>)
  \o Pairs(Through(R(o, "Typespecs"), "Enum_consts"))
  \o DefinitionEnumConsts(o)

\* The module itself, by the names of the instance and of the definition.
ModuleMods(o) ==
  <<Pair(Name(o), o), Pair(design.defName[o], o)>>
  \o Pairs(R(o, "Modules") \o R(o, "Module_arrays")) \o Clocking(o)

InterfaceNets(o) ==
  Pairs(R(o, "Nets") \o R(o, "Array_nets") \o WithEnumConsts(R(o, "Variables"))
        \o R(o, "Interfaces") \o Through(R(o, "Interface_arrays"), "Instances")
        \o R(o, "Named_events"))
  \o Connected(o, {"interface_inst", "modport"})
  \o GenScopes(o)

InterfaceParams(o) == Parameters(o, R(o, "Param_assigns")) \o DefinitionEnumConsts(o)

PackageNets(o) ==
  Pairs(R(o, "Array_vars") \o WithEnumConsts(R(o, "Variables")) \o R(o, "Named_events"))

\* A class also offers what its base classes offer.
ClassVars(o) ==
  Pairs(FlattenSeq([i \in DOMAIN Bases[o] |->
    WithEnumConsts(R(Bases[o][i], "Variables")) \o R(Bases[o][i], "Named_events")]))

ClassParams(o) == Pairs(Through(Bases[o], "Parameters"))

\* A function also knows the variables of its class, and its own name is that
\* of the value it returns; a task returns none.
TaskFuncVars(o) ==
  LET return == IF R(o, "Return") = <<>> THEN None ELSE R(o, "Return")[1]
      class == design.parent[o]
  IN  Pairs(R(o, "Variables") \o R(o, "Io_decls")) \o <<Pair(Name(o), return)>>
      \o (IF class # None /\ Kind(class) = "class_defn"
            THEN Pairs(Through(Bases[class], "Variables"))
            ELSE <<>>)

BlockVars(o) == Pairs(R(o, "Array_vars") \o R(o, "Variables"))

\* What the initial assignments assign to, unless that is a ref_var.
ForVars(o) ==
  LET assigned(s) == IF Kind(s) # "assignment" THEN <<>>
                     ELSE SelectSeq(R(s, "Lhs"), LAMBDA l : Kind(l) # "ref_var")
      inits == R(o, "VpiForInitStmts")
  IN  BlockVars(o) \o Pairs(FlattenSeq([i \in DOMAIN inits |-> assigned(inits[i])]))

GenScopeNets(o) ==
  Pairs(R(o, "Nets") \o R(o, "Array_nets") \o R(o, "Variables") \o R(o, "Interfaces")
        \o Through(R(o, "Interface_arrays"), "Instances"))

GenScopeMods(o) == Pairs(R(o, "Modules") \o R(o, "Module_arrays")) \o GenScopes(o)

-----------------------------------------------------------------------------
(***************************************************************************)
(* Looking up a name.                                                      *)
(***************************************************************************)
\* Mutant of Searched: high connections are looked up in the instance, too.
SearchedAll == instStack

\* The entries that are searched.
Searched == IF ignoreLast THEN Front(instStack) ELSE instStack

Known(entry) == DOMAIN entry.netMap \cup DOMAIN entry.paramMap \cup DOMAIN entry.modMap

\* The innermost scope that knows the name, its nets before its parameters and
\* those before its instances.  A reference stands for what it is bound to.
bindAny(n) ==
  LET knowing == SelectSeq(Searched, LAMBDA e : n \in Known(e))
      entry == Last(knowing)
      found == CASE n \in DOMAIN entry.netMap   -> entry.netMap[n]
                 [] n \in DOMAIN entry.paramMap -> entry.paramMap[n]
                 [] OTHER                       -> entry.modMap[n]
  IN  IF knowing = <<>> THEN None
      ELSE IF found \in DOMAIN actual THEN actual[found] ELSE found

-----------------------------------------------------------------------------
(***************************************************************************)
(* The walk.  A step leads to an object, through the high connection of a  *)
(* port or not, or it ends (None) the list of all packages, classes or     *)
(* modules, after which the walk forgets what it has visited.              *)
(***************************************************************************)
ScopeRelations ==
  <<"Named_events", "Variables", "Array_vars", "Parameters", "Param_assigns", "Typespecs",
    "Class_defns", "Task_funcs", "Nets", "Array_nets", "Modports", "Global_clocking",
    "Default_clocking">>
Instances == <<"Interfaces", "Interface_arrays">>
Statements ==
  <<"Return", "Io_decls", "VpiForInitStmts", "VpiCondition", "VpiLoopVars", "Stmts", "Process">>
Nested == <<"Modules", "Module_arrays", "Gen_scope_arrays">>
Rest ==
  <<"Clocking_blocks", "Typespec", "Actual", "VpiIndex", "Expr", "Ranges", "Enum_consts", "Instances",
    "Gen_scopes", "Path_elems", "Rhs", "Lhs", "Tf_call_args", "Prefix", "With", "High_conn", "Low_conn">>

\* The relations of a kind in the order of the model, those of its base
\* classes first.  A generate block comes to its interfaces last.
WalkOrder(kind) ==
  CASE kind = "design"         -> <<"allPackages", "allClasses", "allModules", "topModules">>
    [] kind = "gen_scope"      -> ScopeRelations \o Statements \o Nested \o Instances \o Rest
    [] kind = "interface_inst" -> ScopeRelations \o Instances \o Statements \o <<"Ports">> \o Nested \o Rest
    [] OTHER                   -> ScopeRelations \o <<"Ports">> \o Instances \o Statements \o Nested \o Rest

Steps(o) ==
  LET related(r) == IF r # "Actual" THEN R(o, r)
                    ELSE IF o \in DOMAIN actual /\ actual[o] # None THEN <<actual[o]>> ELSE <<>>
      order == SelectSeq(WalkOrder(Kind(o)), LAMBDA r : related(r) # <<>>)
      step(x, r) == [object |-> x, highConn |-> r = "High_conn"]
      ends(r) == IF Kind(o) = "design" /\ r # "topModules" THEN <<step(None, r)>> ELSE <<>>
  IN  FlattenSeq([i \in DOMAIN order |->
        [j \in DOMAIN related(order[i]) |-> step(related(order[i])[j], order[i])] \o ends(order[i])])

Top == Last(walk)
Here == Head(Top.todo).object
Enters(kinds) == walk # <<>> /\ Top.todo # <<>> /\ Here # None /\ Kind(Here) \in kinds
Leaves(kinds) == walk # <<>> /\ Top.todo = <<>> /\ Kind(Top.object) \in kinds

Advanced == [walk EXCEPT ![Len(walk)].todo = Tail(@)]

\* The walk goes into Here, and through its relations if it has not before.
Descend ==
  /\ walk' = Append(Advanced, [object |-> Here, highConn |-> Head(Top.todo).highConn,
                               todo |-> IF Here \in visited THEN <<>> ELSE Steps(Here)])
  /\ visited' = visited \cup {Here}
  /\ ignoreLast' = (ignoreLast \/ Head(Top.todo).highConn)
  /\ UNCHANGED <<design, actual>>

\* Leaving a high connection ends that of every port around it, too.
Ascend ==
  /\ walk' = Front(walk)
  /\ ignoreLast' = (ignoreLast /\ ~ Top.highConn)
  /\ UNCHANGED <<design, visited, flat>>

-----------------------------------------------------------------------------
(***************************************************************************)
(* Actions.                                                                *)
(***************************************************************************)
Init ==
  /\ design \in Designs
  /\ actual = design.actual
  /\ walk = <<[object |-> "design", highConn |-> FALSE, todo |-> Steps("design")]>>
  /\ visited = {"design"}
  /\ instStack = <<>> /\ flat = [n \in {} |-> None]
  /\ inHierarchy = FALSE /\ ignoreLast = FALSE

Push(nets, params, mods) ==
  instStack' = Append(instStack, [object |-> Here, netMap |-> Map(nets), paramMap |-> Map(params),
                                  modMap |-> Map(mods)])

\* An instance has a name or is in a module; a definition has neither.
IsDefinition(o) ==
  Name(o) = "" /\ (design.parent[o] = None \/ Kind(design.parent[o]) # "module_inst")

\* enterModule_inst and enterInterface_inst of a definition.
EnterDefinition ==
  /\ Enters({"module_inst", "interface_inst"}) /\ IsDefinition(Here)
  /\ Descend
  /\ flat' = IF design.defName[Here] \in DOMAIN flat THEN flat ELSE flat @@ (design.defName[Here] :> Here)
  /\ UNCHANGED <<instStack, inHierarchy>>

EnterModule_inst ==
  /\ Enters({"module_inst"}) /\ ~ IsDefinition(Here)
  /\ Descend
  /\ Push(ModuleNets(Here), ModuleParams(Here), ModuleMods(Here))
  /\ inHierarchy' = TRUE
  /\ UNCHANGED flat

EnterInterface_inst ==
  /\ Enters({"interface_inst"}) /\ ~ IsDefinition(Here)
  /\ Descend
  /\ Push(InterfaceNets(Here), InterfaceParams(Here), Clocking(Here))
  /\ inHierarchy' = TRUE
  /\ UNCHANGED flat

\* Entering the other scopes differs by what they declare.
Enter(kinds, nets, params, mods) ==
  /\ Enters(kinds)
  /\ Descend
  /\ Push(nets, params, mods)
  /\ UNCHANGED <<flat, inHierarchy>>

EnterPackage == Enter({"package"}, PackageNets(Here), Pairs(R(Here, "Parameters")), <<>>)
EnterClass_defn == Enter({"class_defn"}, ClassVars(Here), ClassParams(Here), <<>>)
EnterTask_func == Enter({"task_func"}, TaskFuncVars(Here), <<>>, <<>>)
EnterFor_stmt == Enter({"for_stmt"}, ForVars(Here), <<>>, <<>>)
EnterForeach_stmt ==
  Enter({"foreach_stmt"}, BlockVars(Here) \o Pairs(R(Here, "VpiLoopVars")), <<>>, <<>>)
EnterBegin == Enter({"begin"}, BlockVars(Here), <<>>, <<>>)
EnterFork_stmt == Enter({"fork_stmt"}, BlockVars(Here), <<>>, <<>>)
EnterGen_scope ==
  Enter({"gen_scope"}, GenScopeNets(Here), Pairs(R(Here, "Parameters")), GenScopeMods(Here))
EnterMethod_func_call ==
  Enter({"method_func_call"}, Pairs(R(Here, "Tf_call_args")), <<>>, <<>>)

\* The name of a block becomes known in the scope around it, to stay.
EnterNamed(kinds) ==
  /\ Enters(kinds)
  /\ Descend
  /\ LET known == IF instStack = <<>> THEN instStack
                  ELSE [instStack EXCEPT ![Len(instStack)].modMap = @ @@ Map(Pairs(<<Here>>))]
     IN  instStack' = Append(known, [object |-> Here, netMap |-> Map(BlockVars(Here)),
                                     paramMap |-> Map(<<>>), modMap |-> Map(<<>>)])
  /\ UNCHANGED <<flat, inHierarchy>>

EnterNamed_begin == EnterNamed({"named_begin"})
EnterNamed_fork == EnterNamed({"named_fork"})

\* Nothing is done when any other object is entered.
EnterOther ==
  /\ walk # <<>> /\ Top.todo # <<>> /\ Here # None
  /\ Kind(Here) \notin Scopes
  /\ Descend
  /\ UNCHANGED <<instStack, flat, inHierarchy>>

\* The end of the list of all packages, classes or modules.
EndList ==
  /\ walk # <<>> /\ Top.todo # <<>> /\ Here = None
  /\ walk' = Advanced
  /\ visited' = {Top.object}
  /\ UNCHANGED <<design, instStack, flat, inHierarchy, ignoreLast, actual>>

IsOnTop(o) == instStack # <<>> /\ Last(instStack).object = o

LeaveModule_inst ==
  /\ Leaves({"module_inst"})
  /\ Ascend
  /\ IF inHierarchy /\ IsOnTop(Top.object)
       THEN instStack' = Front(instStack) /\ inHierarchy' = (Len(instStack) > 1)
       ELSE UNCHANGED <<instStack, inHierarchy>>
  /\ UNCHANGED actual

\* Leaving any other scope pops its entry, if it is the top one.
Leave(kinds) ==
  /\ Leaves(kinds)
  /\ Ascend
  /\ instStack' = IF IsOnTop(Top.object) THEN Front(instStack) ELSE instStack
  /\ UNCHANGED <<inHierarchy, actual>>

\* Mutant of LeaveGen_scope: a generate block is not popped.
LeaveGen_scopeWithoutPop ==
  /\ Leaves({"gen_scope"})
  /\ Ascend
  /\ UNCHANGED <<instStack, inHierarchy, actual>>

LeaveInterface_inst == Leave({"interface_inst"})
LeavePackage == Leave({"package"})
LeaveClass_defn == Leave({"class_defn"})
LeaveTask_func == Leave({"task_func"})
LeaveFor_stmt == Leave({"for_stmt"})
LeaveForeach_stmt == Leave({"foreach_stmt"})
LeaveBegin == Leave({"begin"})
LeaveNamed_begin == Leave({"named_begin"})
LeaveFork_stmt == Leave({"fork_stmt"})
LeaveNamed_fork == Leave({"named_fork"})
LeaveGen_scope == Leave({"gen_scope"})
LeaveMethod_func_call == Leave({"method_func_call"})

\* leaveRef_obj, also for selects: a reference is bound to what its name means
\* now, if it means anything, but a bound element of a path is left alone.
LeaveRef_obj ==
  /\ Leaves(References)
  /\ Ascend
  /\ LET o == Top.object
         isElement == Kind(design.parent[o]) = "hier_path"
     IN  actual' = IF (actual[o] = None \/ ~ isElement) /\ Name(o) # "" /\ bindAny(Name(o)) # None
                     THEN [actual EXCEPT ![o] = bindAny(Name(o))] ELSE actual
  /\ UNCHANGED <<instStack, inHierarchy>>

LeaveOther ==
  /\ walk # <<>> /\ Top.todo = <<>>
  /\ Kind(Top.object) \notin Scopes \cup References
  /\ Ascend
  /\ UNCHANGED <<instStack, inHierarchy, actual>>

Next ==
  \/ EnterDefinition \/ EnterModule_inst \/ EnterInterface_inst \/ EnterPackage
  \/ EnterClass_defn \/ EnterTask_func \/ EnterFor_stmt \/ EnterForeach_stmt
  \/ EnterBegin \/ EnterNamed_begin \/ EnterFork_stmt \/ EnterNamed_fork
  \/ EnterGen_scope \/ EnterMethod_func_call \/ EnterOther \/ EndList
  \/ LeaveModule_inst \/ LeaveInterface_inst \/ LeavePackage \/ LeaveClass_defn
  \/ LeaveTask_func \/ LeaveFor_stmt \/ LeaveForeach_stmt \/ LeaveBegin
  \/ LeaveNamed_begin \/ LeaveFork_stmt \/ LeaveNamed_fork \/ LeaveGen_scope
  \/ LeaveMethod_func_call \/ LeaveRef_obj \/ LeaveOther

Spec == Init /\ [][Next]_vars

Over == walk = <<>>

-----------------------------------------------------------------------------
IsScope(o) == Kind(o) \in Scopes /\ ~ (Kind(o) \in {"module_inst", "interface_inst"} /\ IsDefinition(o))

\* How many of the first k objects that the walk is in are scopes.
Depth(k) == Cardinality({i \in 1 .. k : IsScope(walk[i].object)})

\* The entries of instStack_ are those of the scopes the walk is in, whichever
\* way it has come there: no scope is left without being popped, and none pops
\* the entry of another.  In a module elaboration knows that it is in the
\* hierarchy, and the innermost instance is left out of a search only in a high
\* connection.  (the enter and leave handlers of ElaboratorListener)
StackFollowsWalk ==
  /\ Len(instStack) = Depth(Len(walk))
  /\ \A k \in DOMAIN walk :
       IsScope(walk[k].object) => instStack[Depth(k)].object = walk[k].object
  /\ \A i \in DOMAIN instStack : Kind(instStack[i].object) = "module_inst" => inHierarchy
  /\ ignoreLast => \E k \in DOMAIN walk : walk[k].highConn
=============================================================================
