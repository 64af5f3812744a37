-------------------------- MODULE TaskFuncBinding --------------------------
(***************************************************************************)
(* How elaboration binds calls to tasks and functions                      *)
(* (templates/ElaboratorListener.cpp, the DeepClone of the call classes in *)
(* templates/clone_tree.cpp and scripts/ElaboratorListener_cpp.py).        *)
(*                                                                         *)
(* The elaborator walks the instance tree.  Entering a scope pushes its    *)
(* names on instStack_ and clones its contents; a cloned call cannot be    *)
(* bound yet, because the function it calls may not have been cloned, so   *)
(* it is scheduled, and all the scheduled calls are bound whenever the     *)
(* walk leaves a module, interface, class or package, with the names that  *)
(* are on the stack by then.                                               *)
(*                                                                         *)
(* Only what serves this binding is modelled: of the five components of an *)
(* entry of instStack_ the object and the map of functions.  The scopes of *)
(* statements and of functions push an empty map of functions and are left *)
(* out.  The elaborator clones (bindOnly is off) and reports errors.  A    *)
(* definition holds logic and classes but no instances (README.md, "Design *)
(* modeling").                                                             *)
(*                                                                         *)
(* The walk does not only go from a scope to what is written in it: a      *)
(* class lists the classes that extend it (vpiDerivedClasses), and a       *)
(* reference leads to the interface it is bound to.  A scope that has been *)
(* visited is entered and left again, but what is in it is not.            *)
(***************************************************************************)
EXTENDS Naturals, Sequences, SequencesExt, Reachability

CONSTANTS
  Scope,    \* the instances, packages and class definitions
  Name,     \* names of tasks and functions
  None,     \* nullptr
  Designs   \* the designs to elaborate, see DesignType

Kind == {"module", "interface", "class", "package"}
CallKind == {"function", "task"}

\* A call, where it is written: in the body of the by-th function of a scope,
\* elsewhere in the scope (0), or in the high connection of one of its ports.
\* prefix is the class of the variable a method is called on.
Call == [in : Scope, by : Nat, highConn : BOOLEAN, name : Name,
         kind : CallKind, prefix : Scope \cup {None}]

DesignType ==
  [tops : Seq(Scope \cup {None}),        \* allPackages and so on, None ends a list
   children : [Scope -> Seq(Scope)],     \* where the walk goes from a scope
   around : [Scope -> Scope \cup {None}],\* the scope it is written in
   kind : [Scope -> Kind],
   bases : [Scope -> Seq(Scope)],        \* a class, the one it extends and so on
   defined : SUBSET Scope,               \* has a definition in allModules
   funcs : [Scope -> Seq([name : Name, kind : CallKind])],
   calls : SUBSET Call]

\* The walk may go from p to s though s is not written in p: s is derived from p,
\* or something in p refers to s.
MayLead(d, p, s) ==
  d.kind[s] = "interface" \/ (d.kind[p] = "class" /\ d.kind[s] = "class")

\* What is written in a scope is listed there, once, and in no list of the design;
\* a package is in one of these only, a module in modules, and what has a high
\* connection in a scope.
IsNested(d) ==
  /\ \A s \in Scope : d.around[s] # None =>
       \E i \in DOMAIN d.children[d.around[s]] : d.children[d.around[s]][i] = s
  /\ \A i \in DOMAIN d.tops : d.tops[i] # None => d.around[d.tops[i]] = None
  /\ \A i, j \in DOMAIN d.tops :
       d.tops[i] # None /\ d.tops[i] = d.tops[j] =>
         i = j \/ d.kind[d.tops[i]] \in {"class", "interface"}
  /\ \A p \in Scope : \A i \in DOMAIN d.children[p] :
       LET s == d.children[p][i] IN
       /\ d.kind[s] # "package"
       /\ d.kind[s] = "module" => d.kind[p] = "module"
       /\ d.around[s] = p \/ MayLead(d, p, s)
       /\ \A j \in DOMAIN d.children[p] :
            d.children[p][j] = s => i = j \/ MayLead(d, p, s)
  /\ \A c \in d.calls : c.highConn => d.around[c.in] # None

\* Only classes extend and are extended, and methods are called on their objects.
ExtendsClasses(d) ==
  /\ \A s \in Scope : d.bases[s] # <<>> /\ d.bases[s][1] = s
  /\ \A s \in Scope : \A i \in 2 .. Len(d.bases[s]) :
       d.kind[s] = "class" /\ d.kind[d.bases[s][i]] = "class"
  /\ \A c \in d.calls : c.prefix # None => d.kind[c.prefix] = "class"

ASSUME NoneAssumption == None \notin Scope \cup Name
ASSUME DesignAssumption ==
  \A d \in Designs :
    /\ d \in DesignType /\ IsNested(d) /\ ExtendsClasses(d)
    /\ \A c \in d.calls : c.by <= Len(d.funcs[c.in])

VARIABLES
  design,     \* the design; never changes
  walk,       \* the scopes the walk is in, the outermost first
  todo,       \* the scopes still to enter: among the tops, then per scope of walk
  visited,    \* visited, but for the design
  instStack,  \* instStack_
  inHierarchy,\* inHierarchy_
  taskFuncs,  \* taskFuncs[s]: the vector Task_funcs() of s
  kinds,      \* the kind of the class of the latest clone of a call
  scheduled,  \* scheduledTfCallBinding_
  bound       \* what the clone of a call is bound to

vars == <<design, walk, todo, visited, instStack, inHierarchy, taskFuncs, kinds,
          scheduled, bound>>

\* A task or function object: the one the parser made (generation 0), its
\* clone, the clone of that one.
Func == [scope : Scope, name : Name, kind : CallKind, generation : Nat]

ASSUME FuncAssumption == None \notin Func

-----------------------------------------------------------------------------
(***************************************************************************)
(* Tables of functions.                                                    *)
(***************************************************************************)
NoFuncs == [n \in {} |-> None]
Named(fs) == {fs[i].name : i \in DOMAIN fs}

\* The positions of the functions named n.
Places(fs, n) == {i \in DOMAIN fs : fs[i].name = n}

\* emplace for each element: the first one of a name stays.
FuncMap(fs) == [n \in Named(fs) |-> fs[Min(Places(fs, n))]]

\* erase and emplace for each element: the last one of a name stays.
LatestFuncMap(fs) == [n \in Named(fs) |-> fs[Max(Places(fs, n))]]

\* A class offers its functions, and those of its base classes that have none of
\* its own of the same name in front of them.
ClassFuncMap(s) ==
  LET bases == design.bases[s]
      offering(n) == {i \in DOMAIN bases : n \in Named(taskFuncs[bases[i]])}
  IN  [n \in UNION {Named(taskFuncs[bases[i]]) : i \in DOMAIN bases} |->
         FuncMap(taskFuncs[bases[Min(offering(n))]])[n]]

ClonesOf(s) ==
  [i \in DOMAIN taskFuncs[s] |-> [taskFuncs[s][i] EXCEPT !.generation = @ + 1]]

\* Mutant of ClonedFuncMap: the originals stay on the stack.
OriginalFuncMap(s, i) == LatestFuncMap(SubSeq(taskFuncs[s], 1, i))

\* Mutant of ClonedFuncMap: the name of a function is known, with nullptr for
\* its value, just before it is cloned.
TooSoonFuncMap(s, i) ==
  LET cloned == LatestFuncMap(SubSeq(ClonesOf(s), 1, i - 1))
  IN  [n \in Named(SubSeq(taskFuncs[s], 1, i)) |->
         IF n \in DOMAIN cloned THEN cloned[n] ELSE None]

\* The names that are known when the first i functions of s have been cloned.
ClonedFuncMap(s, i) == LatestFuncMap(SubSeq(ClonesOf(s), 1, i))

\* Mutants of Lookup: only the innermost scope is searched; the outermost scope
\* that knows the name is taken.
LookupInnermost(stack, n, prefix) ==
  IF stack # <<>> /\ n \in DOMAIN Last(stack).funcMap
    THEN Last(stack).funcMap[n]
    ELSE None
LookupOutermost(stack, n, prefix) ==
  LET known == {i \in DOMAIN stack : n \in DOMAIN stack[i].funcMap}
  IN  IF known # {}
        THEN stack[Min(known)].funcMap[n]
      ELSE IF prefix # None /\ n \in DOMAIN ClassFuncMap(prefix)
        THEN ClassFuncMap(prefix)[n]
      ELSE None

\* The innermost scope of the stack that knows n, then the class of the prefix.
Lookup(stack, n, prefix) ==
  LET known == {i \in DOMAIN stack : n \in DOMAIN stack[i].funcMap}
  IN  IF known # {}
        THEN stack[Max(known)].funcMap[n]
      ELSE IF prefix # None /\ n \in DOMAIN ClassFuncMap(prefix)
        THEN ClassFuncMap(prefix)[n]
      ELSE None

-----------------------------------------------------------------------------
(***************************************************************************)
(* Scheduling and binding.                                                 *)
(***************************************************************************)

\* isFunctionCall and isTaskCall: a call is of the kind of what its name means
\* now, of its own kind if the name is not known.
KindNow(c, stack) ==
  LET f == Lookup(stack, c.name, c.prefix)
  IN  IF f = None THEN kinds[c] ELSE f.kind

\* DeepClone of the call classes: a call that is not of the kind of its class is
\* cloned into a call of the other class; the clone is scheduled.
CloneOf(c, stack) == [call |-> c, kind |-> KindNow(c, stack)]

\* The clones take the place of the calls.
KindsAfter(clones) ==
  [c \in design.calls |->
     IF \E x \in clones : x.call = c THEN (CHOOSE x \in clones : x.call = c).kind
                                     ELSE kinds[c]]

CallsOf(s) == {c \in design.calls : c.in = s}

\* Whether the clone of c is bound in a round: a call that is scheduled is bound
\* to what its name means on the stack, if that is of the kind of the clone.
BindsIn(round, c) ==
  LET f == Lookup(round.stack, c.name, c.prefix)
  IN  f # None /\ [call |-> c, kind |-> f.kind] \in round.schedule

\* bindScheduledTaskFunc, once per round: each is at a position, with the stack
\* and the schedule of then.  A call that no round binds keeps what it, or the
\* call it is a clone of, was bound to.
BoundAfter(rounds) ==
  [c \in design.calls |->
     LET binding == {i \in DOMAIN rounds : BindsIn(rounds[i], c)}
     IN  IF binding = {} THEN bound[c]
         ELSE Lookup(rounds[Max(binding)].stack, c.name, c.prefix)]

Round(stack, schedule) == [stack |-> stack, schedule |-> schedule]

-----------------------------------------------------------------------------
(***************************************************************************)
(* Actions.                                                                *)
(***************************************************************************)
Init ==
  /\ design \in Designs
  /\ walk = <<>> /\ todo = <<design.tops>> /\ visited = {}
  /\ instStack = <<>> /\ inHierarchy = FALSE
  /\ taskFuncs =
       [s \in Scope |->
          [i \in DOMAIN design.funcs[s] |->
             [scope |-> s, name |-> design.funcs[s][i].name,
              kind |-> design.funcs[s][i].kind, generation |-> 0]]]
  /\ kinds = [c \in design.calls |-> c.kind]
  /\ scheduled = {}
  /\ bound = [c \in design.calls |-> None]

Current == todo[Len(todo)]
Here == Current[1]
CanEnter(kind) ==
  todo # <<>> /\ Current # <<>> /\ Here # None /\ design.kind[Here] = kind

\* The walk steps into Here.
Descend ==
  /\ walk' = Append(walk, Here)
  /\ todo' = Append(Append(Front(todo), Tail(Current)),
                    IF Here \in visited THEN <<>> ELSE design.children[Here])
  /\ visited' = visited \cup {Here}

Push(funcMap) == Append(instStack, [object |-> Here, funcMap |-> funcMap])

\* enterModule_inst of an instance whose definition is not known.
EnterUndefinedModule ==
  /\ CanEnter("module")
  /\ Here \notin design.defined
  /\ Descend
  /\ inHierarchy' = TRUE
  /\ instStack' = Push(FuncMap(taskFuncs[Here]))
  /\ UNCHANGED <<design, taskFuncs, kinds, scheduled, bound>>

\* enterModule_inst, then elabModule_inst, which clones the contents of the
\* definition in this order: the processes, ports and so on; the classes; the
\* functions, which take the place of the originals on the stack.  Cloning a
\* class enters and leaves it (its DeepCopy calls enterClass_defn and
\* leaveClass_defn), so that the first one binds all that is scheduled.
EnterModule ==
  /\ CanEnter("module")
  /\ Here \in design.defined
  /\ Descend
  /\ inHierarchy' = TRUE
  /\ LET members == design.children[Here]
         classes == {i \in DOMAIN members : design.kind[members[i]] = "class"}
         original == Push(FuncMap(taskFuncs[Here]))
         within(k) == Append(original, [object |-> k, funcMap |-> ClassFuncMap(k)])
         early == {CloneOf(c, original) : c \in {d \in CallsOf(Here) : d.by = 0}}
         inClass(i) == {CloneOf(c, within(members[i])) : c \in CallsOf(members[i])}
         pending(i) == (IF \A j \in classes : i <= j THEN scheduled \cup early ELSE {})
                         \cup inClass(i)
         late == {CloneOf(c, instStack') : c \in {d \in CallsOf(Here) : d.by > 0}}
     IN  /\ bound' = BoundAfter([i \in classes |-> Round(within(members[i]), pending(i))])
         /\ instStack' = Push(ClonedFuncMap(Here, Len(taskFuncs[Here])))
         /\ scheduled' = (IF classes = {} THEN scheduled \cup early ELSE {}) \cup late
         /\ kinds' = KindsAfter(early \cup late \cup UNION {inClass(i) : i \in classes})
         /\ taskFuncs' = [s \in Scope |->
              IF s = Here \/ \E i \in classes : s = members[i] THEN ClonesOf(s)
                                                               ELSE taskFuncs[s]]
  /\ UNCHANGED design

\* enterInterface_inst: the contents of an interface are not elaborated.
EnterInterface ==
  /\ CanEnter("interface")
  /\ Descend
  /\ inHierarchy' = TRUE
  /\ instStack' = Push(FuncMap(taskFuncs[Here]))
  /\ UNCHANGED <<design, taskFuncs, kinds, scheduled, bound>>

\* enterClass_defn, then elabClass_defn: the functions are cloned, but those on
\* the stack are not replaced.
EnterClass ==
  /\ CanEnter("class")
  /\ Descend
  /\ instStack' = Push(ClassFuncMap(Here))
  /\ taskFuncs' = [taskFuncs EXCEPT ![Here] = ClonesOf(Here)]
  /\ LET clones == {CloneOf(c, instStack') : c \in CallsOf(Here)}
     IN  scheduled' = scheduled \cup clones /\ kinds' = KindsAfter(clones)
  /\ UNCHANGED <<design, inHierarchy, bound>>

\* enterPackage: no functions yet.
EnterPackage ==
  /\ CanEnter("package")
  /\ Descend
  /\ instStack' = Push(NoFuncs)
  /\ UNCHANGED <<design, inHierarchy, taskFuncs, kinds, scheduled, bound>>

\* A list of the design ends: the walk forgets what it has visited.
EndList ==
  /\ todo # <<>> /\ Current # <<>> /\ Here = None
  /\ todo' = Append(Front(todo), Tail(Current))
  /\ visited' = {}
  /\ UNCHANGED <<design, walk, instStack, inHierarchy, taskFuncs, kinds, scheduled, bound>>

CanLeave(those) ==
  /\ walk # <<>> /\ Current = <<>>
  /\ design.kind[Last(walk)] \in those

\* The walk steps out of its innermost scope.
Ascend == walk' = Front(walk) /\ todo' = Front(todo) /\ UNCHANGED visited

IsOnTop(s) == instStack # <<>> /\ Last(instStack).object = s

\* Mutant of Pop: only modules in a hierarchy are popped.
PopModules ==
  IF inHierarchy /\ IsOnTop(Last(walk)) /\ design.kind[Last(walk)] = "module"
    THEN instStack' = Front(instStack) /\ inHierarchy' = (Len(instStack) > 1)
    ELSE UNCHANGED <<instStack, inHierarchy>>

\* Every leave handler pops the entry of the scope that is left, if it is the
\* top one; that of modules only in a hierarchy, which ends when the stack is
\* empty.
Pop ==
  LET s == Last(walk)
      isModule == design.kind[s] = "module"
      pops == IsOnTop(s) /\ (isModule => inHierarchy)
  IN  /\ instStack' = IF pops THEN Front(instStack) ELSE instStack
      /\ inHierarchy' =
           (inHierarchy /\ ~ (pops /\ isModule /\ Len(instStack) = 1))

\* Mutant of LeaveInstance: what has been bound stays scheduled.
LeaveInstanceKeepingSchedule ==
  /\ CanLeave({"module", "interface", "class"})
  /\ bound' = BoundAfter(<<Round(instStack, scheduled)>>)
  /\ scheduled' = scheduled
  /\ Pop
  /\ Ascend
  /\ UNCHANGED <<design, taskFuncs, kinds>>

\* leaveModule_inst, leaveInterface_inst, leaveClass_defn: everything that is
\* scheduled is bound, whichever scope has scheduled it.
LeaveInstance ==
  /\ CanLeave({"module", "interface", "class"})
  /\ bound' = BoundAfter(<<Round(instStack, scheduled)>>)
  /\ scheduled' = {}
  /\ Pop
  /\ Ascend
  /\ UNCHANGED <<design, taskFuncs, kinds>>

\* leavePackage: the functions are cloned one after the other, each becoming
\* known when it has been cloned.
LeavePackage ==
  /\ CanLeave({"package"})
  /\ LET s == Last(walk)
         known(i) == Append(Front(instStack),
                            [object |-> s,
                             funcMap |-> ClonedFuncMap(s, i)])
         all == known(Len(taskFuncs[s]))
         clones == {CloneOf(c, known(c.by - 1)) : c \in {d \in CallsOf(s) : d.by > 0}}
     IN  /\ taskFuncs' = [taskFuncs EXCEPT ![s] = ClonesOf(s)]
         /\ kinds' = KindsAfter(clones)
         /\ bound' = BoundAfter(<<Round(all, scheduled \cup clones)>>)
  /\ scheduled' = {}
  /\ Pop
  /\ Ascend
  /\ UNCHANGED design

Next ==
  \/ EnterModule \/ EnterUndefinedModule \/ EnterInterface \/ EnterClass \/ EnterPackage
  \/ LeaveInstance \/ LeavePackage \/ EndList

Spec == Init /\ [][Next]_vars

Over == walk = <<>> /\ Current = <<>>

-----------------------------------------------------------------------------
(***************************************************************************)
(* What a name means by the rules of the language.                         *)
(***************************************************************************)
\* The scope itself and those around it.
Chain(s) == Reached([t \in Scope |-> {design.around[t]} \ {None}], {s})

\* A method is looked for in the class of its variable, a name in a high
\* connection from the scope around the instance outwards, any other from the
\* scope it is written in.
Home(c) == IF c.highConn THEN design.around[c.in] ELSE c.in
SearchedBy(c) == IF c.prefix # None THEN {c.prefix} ELSE Chain(Home(c))

Offers(s, n) ==
  \E i \in DOMAIN design.bases[s] : n \in Named(design.funcs[design.bases[s][i]])

\* The nearest of these scopes that offers the name.
MeantBy(c) ==
  LET offering == {s \in SearchedBy(c) : Offers(s, c.name)}
  IN  {s \in offering : \A t \in offering : t \in Chain(s)}
HasMeaning(c) == MeantBy(c) # {}
Meaning(c) == CHOOSE s \in MeantBy(c) : TRUE

\* Where the walk comes from to s, from one scope to the next, and where it goes
\* from s.
Comes(s) == {p \in Scope : \E i \in DOMAIN design.children[p] : design.children[p][i] = s}
Above(s) == Reached([t \in Scope |-> Comes(t)], {s})
Below(s) == {t \in Scope : \E p \in Comes(t) : s \in Above(p)}

\* The walk comes to s, and to what is around it, from the scope around it only.
IsInPlace(s) == \A t \in Chain(s) : Comes(t) \subseteq {design.around[t]}

\* Of the scopes that may be on the stack when the call is bound no other offers
\* its name than the one it means, or one that is searched after that.
Unconfused(c) ==
  \A s \in Above(c.in) \cup Below(c.in) :
    Offers(s, c.name) =>
      \/ s = Meaning(c)
      \/ IsInPlace(c.in) /\ s \in SearchedBy(c) /\ s \notin Below(c.in)

Belongs(f, s) == \E i \in DOMAIN design.bases[s] : f.scope = design.bases[s][i]

-----------------------------------------------------------------------------
(***************************************************************************)
(* Properties.                                                             *)
(***************************************************************************)
TypeOK ==
  /\ \A i \in DOMAIN instStack :
       LET m == instStack[i].funcMap IN
       /\ instStack[i].object \in Scope
       /\ DOMAIN m \subseteq Name /\ \A n \in DOMAIN m : m[n] \in Func
  /\ walk \in Seq(Scope) /\ todo \in Seq(Seq(Scope \cup {None}))
  /\ Len(todo) = Len(walk) + 1 /\ visited \subseteq Scope
  /\ inHierarchy \in BOOLEAN
  /\ taskFuncs \in [Scope -> Seq(Func)]
  /\ kinds \in [design.calls -> CallKind]
  /\ scheduled \in SUBSET [call : design.calls, kind : CallKind]
  /\ bound \in [design.calls -> Func \cup {None}]

\* The entries of instStack_ are those of the scopes the walk is in: no handler
\* forgets to push or to pop, which would hide the names of some scope, or let
\* those of a scope that has been left hide others, for the rest of the design.
StackFollowsWalk ==
  /\ [i \in DOMAIN instStack |-> instStack[i].object] = walk
  /\ (\E i \in DOMAIN walk : design.kind[walk[i]] = "module") => inHierarchy

\* What the walk comes to, and elaborates.
IsElaborated(s) ==
  /\ \E i \in DOMAIN design.tops : design.tops[i] \in Above(s)
  /\ \/ design.kind[s] = "module" /\ s \in design.defined
     \/ design.kind[s] = "class"

\* In a class the first of several functions of a name counts, before and after
\* they are cloned; elsewhere the first before, the last after.
HasOneKind(s, n) ==
  \/ design.kind[s] = "class"
  \/ LET fs == design.funcs[s]
     IN  \A i, j \in Places(fs, n) : fs[i].kind = fs[j].kind

\* A call that is to be bound: it is elaborated, its name has a meaning, nothing
\* confuses it, and what it means is on the stack whenever its scope is, or is
\* found from the prefix; but not a call in a class of a package to a function of
\* the package, which is not known yet when the class is left.
IsToBind(c) ==
  /\ IsElaborated(c.in) /\ HasMeaning(c) /\ Unconfused(c)
  /\ IsInPlace(c.in) \/ Meaning(c) \in {c.in, c.prefix}
  /\ design.kind[Meaning(c)] # "package" /\ HasOneKind(Meaning(c), c.name)

\* No call is forgotten: at the end nothing is left scheduled, and the calls that
\* are to be bound are.
Settles ==
  Over => scheduled = {} /\ \A c \in design.calls : IsToBind(c) => bound[c] # None

\* A call that nothing confuses is bound to nothing else than what it means.
BindsByTheLanguage ==
  \A c \in design.calls :
    bound[c] # None /\ HasMeaning(c) /\ Unconfused(c) =>
      Belongs(bound[c], Meaning(c))

\* Whatever confuses it, a call never ends up with a function of a scope that the
\* walk neither comes through to its own nor goes to from there, and that is not
\* the class of its prefix.
BindsToKin ==
  \A c \in design.calls :
    bound[c] # None =>
      \E s \in Above(c.in) \cup Below(c.in) \cup ({c.prefix} \ {None}) :
        Belongs(bound[c], s)

\* A call that is bound to a function of a package, or of a module that has no
\* classes, is bound to the one in its vector Task_funcs, not to one that a
\* clone has replaced there.
HasClasses(s) ==
  \E i \in DOMAIN design.children[s] : design.kind[design.children[s][i]] = "class"

BindsToClones ==
  \A c \in design.calls :
    LET f == bound[c] IN
    f # None /\ design.kind[f.scope] # "class" /\ ~ HasClasses(f.scope) =>
      f \in ToSet(taskFuncs[f.scope])

\* A call of a module or a package is bound once: leaving further scopes does
\* not touch it, whatever their functions are called.
BoundOnce ==
  [][\A c \in design.calls :
       bound[c] # None /\ design.kind[c.in] # "class" => bound'[c] = bound[c]]_vars

\* ElaboratorListener.h says of bindTaskFunc: "Bind to a function or task in
\* the current scope".  The scope of a call is the one it is written in.
BindsInCurrentScope ==
  \A c \in design.calls :
    bound[c] # None /\ c.prefix = None /\ HasMeaning(c) =>
      Belongs(bound[c], Meaning(c))

\* README.md: elaboration "uniquifies nets, ports, variables and function by
\* performing a deep cloning and ref_obj binding": in the elaborated design
\* calls refer to the clones, in classes too.
BindsToUniquified ==
  \A c \in design.calls :
    bound[c] # None => bound[c] \in ToSet(taskFuncs[bound[c].scope])
=============================================================================
