# Verification of UHDM

UHDM is an object model of elaborated SystemVerilog: a schema in YAML, Python
scripts that generate C++ classes, a store that owns and persists the objects,
listeners that traverse them, an elaborator, a VPI interface, and analyses on top.
Everything runs on one thread. What is hard about it is not concurrency but long
sequences of calls over a cyclic graph of objects: pointers that outlive what they
point at, names looked up when another scope is on the stack, ids that must stay
unique over a save and a restore, recursion over graphs with cycles, and files
written by a process that dies.

Paths below are relative to the repository; `templates/` holds the C++ sources (the
generator fills the places marked `<...>` from the text in `scripts/`).

## 1. Inventory

| component | state it keeps | operations | interacts with |
|---|---|---|---|
| symbol tables (`templates/SymbolFactory.*`, `SymbolId.*`) | `m_id2SymbolMap`, `m_symbol2IdMap`, `m_idCounter`; a parent, never used | `add`, `registerSymbol`, `Make`, `copyFrom`, `get*`, `Purge`, `AppendSymbols` | one per Serializer; every name, file and value string of an object is an id of it |
| object store (`templates/Serializer*.cpp`, `BaseClass.h: FactoryT`, `scripts/serializer.py`) | a factory per type (`objects_`), `m_objId`, `m_enableGC`, the file | `Make*`, setters, `Erase`, `GarbageCollect`, `Save`, `Purge`, `Restore` | runs a UhdmListener to collect; owns the symbols; external: Cap'n Proto, the file system |
| object listener (`templates/UhdmListener.*`, `scripts/UhdmListener.py`) | `visited`, `callstack`, per-vector stacks | `listenX`, `listenAny`, callbacks `enterX`/`leaveX`, `didVisitAll` | called by the store, by linters and by user code |
| VPI listener (`templates/VpiListener.*`, `scripts/VpiListener.py`) | `visited_`, `callstack_`, `uhdmAllIterator` marker | `listenDesigns`, `listenX(handle)`, callbacks | drives elaborator, linter, adjuster, synthesis checker |
| elaborator: tasks and functions (`templates/ElaboratorListener.*`, `clone_tree.cpp`, `scripts/ElaboratorListener_cpp.py`) | `instStack_`, `scheduledTfCallBinding_`, `inHierarchy_`, the `Task_funcs` vectors | `enter`/`leave` of modules, interfaces, classes, packages; `bindTaskFunc`, `scheduleTfCallBinding` | callbacks of the VPI listener; clones objects of the store |
| elaborator: nets, parameters, variables (same files) | the other maps of an `instStack_` entry, `ignoreLastInstance_`, `flatComponentMap_` | `bindNet`, `bindAny`, `bindParam`, `DeepClone` | the same |
| base class of the objects (`templates/BaseClass.*`, `scripts/classes.py`) | `vpiParent_`, ids, cached full name | setters, `ComputeFullName`, `Compare`, `GetByVpiName` | every other part |
| group compliance (`templates/group_header.*`) | none | checks the members when a vector is set | setters |
| VPI access and value strings (`templates/vpi_user.cpp`, `scripts/vpi_user_cpp.py`) | handles, iterators with a position | `vpi_iterate`, `vpi_scan`, `vpi_get*`, `String2VpiValue`, ... | points into objects and vectors of the store |
| VPI visitor (`templates/vpi_visitor.*`) | visited set | prints a design | VPI access |
| adjuster of sizes (`templates/UhdmAdjuster.*`) | `currentInstance_` | rewrites constants | VPI listener, expression evaluator |
| expression evaluator (`templates/ExprEval.*`), number utilities (`NumUtils.*`) | constants, which expressions share and some operators change in place; while a constant function runs: a scratch module with the values, three flags for jumps | reduce expressions, run constant functions, sizes, conversions | elaborator, adjuster |
| synthesis checker, linter (`SynthSubset.*`, `UhdmLint.*`) | objects marked or scheduled for erasure; none | rewrite, report | VPI listener, store |
| generator, tools, Python binding (`scripts/*.py`, `util/`, `python/`) | none at run time | generate sources; command lines | - |

What makes each correct, and where that is hard:

* **Symbol tables.** Ids and strings stay in bijection while tables grow, copy from one
  another and are purged; an id handed out keeps its meaning; id 0 is never a real
  string. Hard: resets after long sequences, ids of a table that was refilled.
* **Object store.** Ids unique; factories list what is alive, in the order the file
  relies on; nothing kept points at something deleted; what `Restore` gives back is
  what the last complete `Save` had. Hard: collections in `Save`, a `Restore` that
  purges before it looks at the file, index 0 and `kBadIndex` wrapping around, a crash
  in the middle of a save, the types the collector skips.
* **Listeners.** They end on every graph, visit what is reachable, call back in
  balance. Hard: parents make every graph cyclic; objects are marked before their
  fields are followed.
* **Elaborator.** A name is bound to what the language says, to the clone. Hard:
  calls are scheduled in one scope and bound when another is left; functions are
  replaced by clones while calls to them are pending; `ignoreLastInstance_` is read
  when it has long been reset; the walk reaches an object from wherever it is used and
  goes through it once; the elements of a path are looked up in what the one before was
  bound to, by a cascade of cases that falls back to the scopes without a message.
* **Constant folding.** A constant expression has the value, size and sign the language
  gives it. Hard: constants are texts of digits in several bases, that may be longer or
  shorter than their size; a fill literal has no size; results are often the operand
  itself, and three operators change an operand in place.
* **VPI handles.** Position in a live vector, objects deleted under a handle.
* **Constant functions.** What a function evaluates to is what its statements mean, and
  it ends. Hard: jumps are flags passed by reference through the recursion; variables
  are kept by name only, so that shadowing must be undone on every way out of a block.
* **Names, values, numbers.** Cached names go stale; conversions have edges.

`PROJECT.json` lists the hazards line by line, each with the properties that cover it
or the reason why none does.

## 2. Modules

| module | what it is |
|---|---|
| `SymbolFactory` | several symbol tables and the ids their clients hold |
| `Reachability` | closed sets and reachability in a finite graph; used by the listener, the store and the elaborator |
| `Serializer` | the object store down to addresses, factories, positions and file records |
| `ObjectStore` | what the store promises: a graph of ids, collections, a disk |
| `UhdmListener` | the recursive traversal, one step per action, over any graph |
| `TaskFuncBinding` | the elaborator's scopes, clones, scheduled calls and their binding |
| `NameBinding` | the walk of the VPI listener, the scopes on `instStack_`, and the binding of references |
| `NameBindingLanguage` | what a name means in nested scopes, and where the code departs from it |
| `HierPath` | the cloning and binding of the elements of a hierarchical path |
| `HierPathLanguage` | what a path means, and where the code departs from it |
| `NumUtils` | digits, words that wrap around, the parsers of numbers |
| `ConstantFolding` | the reduction of operators, selects, casts and system functions over shared constants |
| `ExpressionLanguage` | the value, size and sign of an expression in the language, and where the code departs |
| `StatementEval` | the evaluation of constant functions, one step of the recursion per action |
| `StatementLanguage` | what the statements mean in SystemVerilog: the reference for `StatementEval` |
| `MC...` | instances for TLC: bounds, symmetry, the designs to elaborate |
| `...Proofs` | theorems, see section 5 |

Definitions named `...` with the comment "Mutant of X" are not part of a model: they
are plausible bugs of X. Every property of a passing run is violated when one of them
replaces the definition it mutates (`PROJECT.json`, "mutants").

### SymbolFactory

`table[f]` is the record of the three fields of one `SymbolFactory`; `issued[f]` is
history, the (id, string) pairs clients got since the last purge. The actions are
`RegisterSymbol` (`registerSymbol`, i.e. `add`), `MakeSymbol` (`Make`), `CopyFrom` and
`Purge`. Lookups are operators. `BadId` (0) is shared by "no string", the bad symbol
and failed lookups, as in the code. Strings are atoms; tables with a parent are left out.

### Serializer and ObjectStore

`heap` maps live addresses to objects, `factory[t]` is the deque of a type's factory,
`objId` is `m_objId`, `file` is the one file. References come in the two kinds the
generated code treats differently: `parent` stands for the fields saved with the type
of their target, which saving dereferences, `refs` for those of a static type, which
saving only looks up. A file names objects by type and 1-based position; `Minus1`,
`IsUnset` and `InRange` are the reader's arithmetic on 32 bits, with `BadIndex` in the
place of `kBadIndex`. `Save` collects first if collection is enabled. `Restore` makes
the objects of every factory at addresses the allocator picks, then sets the counter,
then reads the fields; `RestoreFails` covers a missing, torn or foreign file, which is
noticed when everything has been purged. `SaveInterrupted` is a save whose write at the end
stops half way, because it throws or the process dies (`Restart`, possible at any time,
follows). The file is opened without `O_TRUNC` (`Serializer_save.cpp:92`): if there was
none, it is torn, and the reader throws; if there was an older, longer one, new bytes stand
before old ones (`MixedFile`), and as nothing in the file is a checksum the reader may
throw (`RestoreFails`) or take it for a design (`RestoreMixed`). Using a freed object, an element
past the end of a deque, or a mixed file sets `status` to "undefined", after which only
`Restart` is possible, with anything in the file. `Uncollected` are the types
`GarbageCollect` skips; the generator writes a collector that skips packages
(`scripts/serializer.py`).

`mishaps` is history that no guard reads: a client has erased an object that another points
at ("erased"), a collection has kept an object of a skipped type and deleted what it points
at ("skipped"), a save has left a mixed file ("mixed"). The store guards against none of the
three, and the properties name them where they hold only without.

The allocator hands out an address when nothing lives there and nothing points there;
a dangling pointer is undefined to use whatever was put in its place. `Erase` deletes any
object, as the code does, which looks for no pointers to it. Not
modelled: symbols and plain properties of objects, vector factories, object
statistics, the error handler.

`ObjectStore` forgets addresses and positions: objects are UhdmIds. Its promise lapses
(`broken`) when an object is left that refers to a deleted one: a client has deleted that, or
a collection has, which can only happen if more is kept than the designs reach. A save that is
cut off may leave what was saved, nothing, or junk. `Serializer!ImplementsObjectStore` is the
refinement; the mapping names objects by their ids, in memory and in the file.

### UhdmListener

`field[o]` are the references of an object, `vpiParent` first, as the generated code
follows them. An activation of `listenX` is a record of `callstack`: the object, the
next field, and whether the `listenAny` around it will call `leaveAny`, a decision
taken before the call from the `visited` of that time. `Follow` is a call, `SkipNull` a
null field, `Leave` a return. Callbacks are counted. `Reached`, the reference, is the
least closed set, defined without a traversal. The store uses this module's result
as `Visited` instead of repeating the recursion.

### TaskFuncBinding

`walk` and `todo` are the traversal that drives the elaborator, `instStack` the stack
of name maps, `taskFuncs` the `Task_funcs` vectors, which elaboration replaces by
vectors of clones (`generation` counts), `scheduled` the pending clones of calls and
`bound` the result. `EnterModule` is `enterModule_inst` with the generated body of
`elabModule_inst`: contents, then classes (whose deep copy enters and leaves them, so
that the first one binds whatever is pending), then functions. `EnterInterface`,
`EnterClass`, `EnterPackage`, `LeaveInstance` and `LeavePackage` are the other
handlers. Where one handler binds several times (`bindScheduledTaskFunc` behind each class of
a module), each round is a stack and a schedule at a position, and the last that binds a
call counts (`BoundAfter`). The second half of the module says what a name means in the
language, from the design alone.

A design is a constant record. `around` is the scope a scope is written in, `children` where
the walk goes from it, which is more: a class lists the classes derived from it
(`vpiDerivedClasses`, which `scripts/VpiListener.py` does not skip and elaboration keeps,
`scripts/ElaboratorListener_cpp.py:145`), and a reference leads to the interface it is bound
to. So a derived class is entered, and left, from inside its base, and pending calls of the
base are bound with the names of the derived class on top of the stack; it is entered again
where it is written. `visited` is the set of the listener: a scope that is in it is entered
and left once more, what is in it is not gone through; `EndList` is the end of a list of the
design (`None` in `tops`), where the set is cleared. `kinds` is the class (function or task
call) of the clone that stands for a call now, which a further clone starts from.
`DesignAssumption` says what the walk is given: what is written in a scope is listed there,
packages and modules once, and modules in modules; only classes and interfaces are come to by
other ways (`IsNested`, `MayLead`); only classes extend classes, methods are called on objects
of classes; `bases` is a class with those it extends, in order. No tree is assumed. Maps of
functions depend on how they are filled: before cloning the first function of a name stays
(`FuncMap`), after it the last (`LatestFuncMap`: erase, then emplace). Two departures from the
language follow, and `Settles` names them: a name declared both as a function and as a task in
one scope (`HasOneKind`), and a call in a class of a package to a function of the package,
which becomes known only when the package is left (`ElaboratorListener.cpp:508`), after the
class.

`Above(s)` are the scopes on the ways of the walk to `s`, `Below(s)` those it may go to while
it is in `s`. `Unconfused` is the condition under which late binding does no harm: of all
these no scope offers the name of the call but the one it means, or, if the walk comes to the
call from the scopes around it only (`IsInPlace`), one that the language searches later. An
override in a derived class thus confuses a call of the base, in the model as in the code.

Left out: inline elaboration (`bindOnly`), a second elaboration of the same
design, generate and statement scopes, modules that a hierarchical reference leads to, calls
inside hierarchical paths.

### NameBinding and NameBindingLanguage

`walk` is the C++ stack of `listenX`: the object and the steps left in it. A step is an
element of a relation, in the order of the generated code (base classes first), and
knows whether it goes through the high connection of a port. `visited`, `instStack`,
`flat`, `inHierarchy` and `ignoreLast` are `visited`, `instStack_`, `flatComponentMap_`,
`inHierarchy_` and `ignoreLastInstance_`; `actual` are the `Actual_group`s of the
references. An entry of `instStack` has three of the four maps; functions are those
of `TaskFuncBinding`. There is an `Enter...` action per enter handler and a `Leave...`
action per leave handler (functions and tasks share theirs, as they do in the code; so do
selects and references, `LeaveRef_obj`), and `EndList` for the end of a list of a design, where
the visited set is cleared. What a scope declares is a sequence of pairs, and `Map`
what `emplace` makes of it.

The language is one operator, `MeaningIn`: an object may be declared in a scope in any of
23 ways, and a name means what the nearest scope around the reference declares. The code
is known to depart from it in these places, each a definition the property names:

* `Uncollected`: what a handler does not put into its maps. Array variables in
  modules, interfaces, classes and generate blocks; enum constants of the types of all
  scopes but modules (`enterGen_scope` looks for the type where it is not, line 1371);
  events in functions and blocks, parameters in functions and blocks.
* `IsAhead`: a named block that the walk has not come to yet.
* `Veils`: a name that is in a map and stands for nothing. A task's own name; a
  reference that is an argument of a method call or is assigned to first in a for loop.
* `Astray`: the walk has come to the reference along another reference or a type, from
  scopes it is not in, or `ignoreLastInstance_` has been taken down by a port further
  in. Such a reference stays as it was or is bound to a namesake in those scopes, nothing
  else: this much is checked.

Each of them really occurs in the run. Left out: what elaboration does when it clones
(`bindOnly` and `muteErrors` are the two ways to bind only; `muteErrors` makes values of
parameters known in place of the parameters), the propagation of parameters to classes,
relations that play no role for the elaborator, and `Def_params` (a `def_param` has no
name, so that the code never puts one into a map).

### HierPath and HierPathLanguage

`graph` are the objects a path can run through, a record of lists and single relations
each; it is chosen in `Init` and never changes. A path is cloned for one instance
after the other. `clone` are the references of the clone, `previous` what stands before the
element that is next: the clone of an element, or what that was bound to; the code
decides by the kind of the former and searches both by different pieces of code, which
are operators here, one per piece of the cascade, in its order. The elements are first
bound by themselves (`bindAny`) to what the scopes around the path know, then to members.

`HierPathLanguage` says what a path means with one name space per object. `Departs` lists
where the code is known to do something else: members of `this` and `super` are not searched
(`this.x` is bound to an `x` around the path, an argument say); an instance or interface in a
module is found and not bound; a field of an assignment pattern is not bound; the type of an
array of arrays has no members; generate blocks of an interface go by the text of their index,
not its value; behind an object of most other kinds nothing is searched; the path is cut
behind a member of a module instance, behind a field without a type and behind a select that
is not bound; and the second instance finds what the first one wrote into the original. A port
of an interface whose low connection is bound to nothing counts as found, and what follows it
is looked for in nothing (`FoundPort`). Nothing of that is in a document of the repository, so
these are hazards, not findings. Restrictions: operations in an index are one level deep,
errors are not muted, no `uhdmall` iterator is open, only what follows a select may have an
empty name.

### ConstantFolding and ExpressionLanguage

`cell` are the constant objects and `node` the expressions made so far, each of an
operator over earlier ones, with the index of the cell its reduction gave. An action reduces
one more expression (`reduceExpr`); what it hands back without copying keeps its cell,
so that sharing is visible, and `Changed` is what it does to an operand in place. A constant
has a type (BIN, HEX, OCT, DEC, INT, UINT), a text (of digits, or a number), a size, the
fill mark and a typespec. `Word` is the width of `uint64_t`, `Half` of `int`, `Quarter` of
the short one; arithmetic wraps around there. `IsConst` is the form of a constant and
`Fits` what its size says of its text; `PoolsAssumption` demands both of the literals, so
that a binary literal written with more digits than its size (which a front end cuts) is
left out, and `OperatorsAssumption` names the operators that may be tried.

`ExpressionLanguage` carries the value, size and sign of each node by the rules of the
language, with the state. `Sound` names where the code departs: fill literals as operands of
arithmetic; `~` of a constant marked signed or of a replication; nand and or look at 32 bits;
an arithmetic shift right brings in zeros; octal digits are read as four bits in selects; a
negative cast to int of a value that has become unsigned reads as 0; hex and octal constants
are repeated by digit; a reordered concatenation; a cast to 64 bits; `$signed` without a
typespec; a bit of a replication is a word; a place outside is 0; parts of a vector whose
range goes up; `[base -: width]` is one place too low; `$signed` marks the constant it shares
with others; and a fill that has been resized in place keeps size -1.

### StatementEval and StatementLanguage

`stack` is the C++ stack: what `evalFunc` ("body"), `evalStmt` ("stmt"), `evalBlock_`
("block") and the loops ("test", "ran", "do", "repeat") have still to do. `values` and
`hasAssigns` are the vector `Param_assigns` of the scratch module, `localVars` the keys
of `local_vars`. A statement is a record `op` of the C++ object types. Expressions are
linear in one variable, or a test of that, in `Bits` bits; assignments are plain and to
whole variables, none reads a variable without a value (`ValuesAreKnown` in `TypeOK`).
`Statements` are the statements of the functions with their parts, and
`FuncsAssumption` says that the tree is as the parser builds it.

`StatementLanguage!Run` says recursively what a statement does, with nested scopes in
the place of saving and restoring, and jumps as outcomes in the place of flags. The
evaluator is known to depart from the language in these places, each listed as a
hazard: a negative condition, the default item of a case, continue in a for loop and in a
do loop, jumps in a repeat, a return without a value, the variable a for loop declares,
and blocks entered before the first assignment. The reference marks a function that
reaches one of them (`odd`); about half of the 1 064 functions of the run do not.

## 3. Runs

| run | asks | bounds | states, time |
|---|---|---|---|
| `mc_symbols` | bijection and stability of ids | 2 tables, 3 strings and the empty one, ids to 4 | under a minute |
| `mc_serializer` | ids, factories, pointers, refinement with packages exempt from collection; what can lead to undefined behaviour? | 3 addresses, 3 types, ids to 3, 2 links, 2 objects in memory and file together when these differ, or after a mishap | 59 154, 80 s |
| `mc_listener` | exact visits, bounded recursion, balanced callbacks, and does it end? | every graph of 3 objects with 2 fields, every set of designs, no symmetry | 40 s |
| `mc_tf_binding` | calls bound to the right clone, once, none forgotten; stack in step with the walk | 25 704 designs | 349 272, 60 s |
| `mc_name_binding` | the stack in step with the walk; references bound to what their names mean | 2 789 designs, 3 nested scopes | 47 661, 35 s |
| `mc_hier_path` | elements bound to members, none lost, instances apart | one design with every kind of object, paths of up to 4 elements from every object of it, 2 instances | 59 918, 75 s |
| `mc_expressions` | value, size and sign of a reduced expression; who is changed in place | 41 operators, 8 pairs of literals, 2 operators deep; words of 10 bits | 401 527, 90 s |
| `mc_statements` | constant functions compute what they mean, and end | 1 064 functions | 26 831, 35 s |
| `statements_shadowing` | finding, see section 6 | the same | a violation |
| `tf_binding_scope`, `tf_binding_uniquified` | findings, see section 6 | the same | a violation each |

Why these bounds show what they should:

* Symbols: a second table is needed for `copyFrom`; 4 ids let a table fill, be purged
  and be refilled in another order while the other still holds ids.
* Store: three objects make a design, a package outside it and the module the
  package points at, the smallest broken collection; and a factory with two
  elements and another one, so that positions and types matter. Ids to 3 allow an id
  to be given out again after a restart, when a restore must set the counter. `BadIndex`
  is 7: larger than any position, so that wrapping and range are distinct cases. The
  constraint `OneDesign` is how a Serializer is used; `Small` cuts the states in
  which memory and file differ, where the product of the two is large; those in which
  they agree are all kept. After a mishap two objects are enough for what the three do: one
  that points at a deleted one, and a collection, a save or a restore of that. Both are
  constraints of the instance, not of the module.
* Listener: 3 objects with 2 fields contain self-loops, cycles with the parent, two
  paths to an object and designs inside a cycle.
* Binding: a package, a module, an instance in it and two classes, one extending the
  other, which sit in the design, the package, the module or the instance. The class that is
  extended lists the other one or does not, with either of them first in the design; a method may
  refer to an interface of the module. Each scope has no `foo`, a
  function `foo` or a task `foo`, the package and the module `bar` too so that order matters;
  the instance may be an interface, definitions may be missing. One call, in any
  scope and position: calls are bound independently of each other.

* Functions: every kind of loop around every pair of statements that count, jump, jump
  under a condition, or are a loop that does so, plain and in a block that shadows the
  counter. Two iterations tell a dropped flag from one that is kept; 4 bits keep the
  counters of endless functions finite, and no function that counts goes that far
  (`Fuel` bounds the reference, whose loops take at most 9 steps otherwise).

* Names: three scopes are a reference, a scope that knows the name and one that hides or
  misses it. The innermost declares in every way, or the outermost does; in between there is
  one usual way or none, as all ways go through the same maps. Four more families
  lead the walk astray: a type or an object used from another scope, a type of a
  package, a path, and a high connection within another.
* Paths: members have the same two names everywhere, so that a search in the wrong
  place finds something. Two elements are needed for a member, a third for one found
  behind an unusual object; a second instance to see what the first one has left.
* Expressions: two operators deep shows what one leaves for the next (text against
  size, fills, marks, sharing). With 10 bits for a word every boundary of the code,
  size = word, size > word, sign bits of int and short, is in reach of a small literal.

`CHECK_DEADLOCK FALSE` is set for the listener, the elaborator, paths, functions and
expressions, which return or are bounded. The
store and the symbol tables never stop.

**Fairness.** Only `Returns` and `Ends` need it: `WF_vars(Next)`, i.e. the traversal or the
function takes its next step as long as it has one. Both are single-threaded recursions
that call nothing which waits; user callbacks are assumed to return.

**What `mc_serializer` says of undefined behaviour.** The store does reach it: a package no
design reaches is kept while what it points at is deleted, and the next traversal or save of
it uses a freed object; `Erase` deletes what others point at; a mixed file is taken for a
design. No text in the repository promises otherwise, so these are recorded as hazards and
made precise by two properties: `NoDangling` (a collection leaves only objects of skipped
types so) and `AlwaysDefined` (nothing but these three causes it). The refinement needs
`broken` for the same reason.

What TLC found of the departures listed in section 2 was found by running the properties
without their exceptions and reading the code of every counterexample; an exception is as
narrow as the cause allows.

## 4. Properties

* `MapsAreInverse`, `IssuedIdsResolve`, `MakeRoundTrip`, `AppendOnly`: the bijection, its
  stability for holders of ids, the special id 0, and the action property.
* `UniqueIds`, `FactoriesListHeap`, `NoDangling`, `AlwaysDefined`,
  `ImplementsObjectStore`: see section 2.
* `VisitsTheReachable`, `BoundedRecursion`, `CallstackIsPath`, `ReportsEveryReference`,
  `AnyOncePerObject`, `Returns`.
* `Settles` (at the end nothing is left scheduled, and a call that means something and that
  nothing confuses is bound, but for the two departures of section 2),
  `BindsByTheLanguage` (and to what it means), `BindsToKin` (a confused call is still
  bound to a function of a scope on the ways of the walk to its own or on from there, or of the class
  of its prefix), `BindsToClones`, `BoundOnce`, `StackFollowsWalk`. For `Unconfused` see section 2;
  `tf_binding_scope` shows what happens without it.

* `StackFollowsWalk` of `NameBinding` (the entries of `instStack_` are those of the scopes the
  walk is in, one each and in their order, on whichever way it has come there; the flags for
  hierarchy and high connections are set only where they belong), and its
  `BindsByTheLanguage` (a reference is looked up in the scopes it stands in, and is bound in
  the end to what its name means there, declared in any way).
* `BindsToMembers` (an element of a path is bound to the member the path means),
  `KeepsElements` (no element gets lost), `InstancesApart` (the clone for an instance is not
  bound to what only an earlier instance knows, but for the index of an index).
* `FoldsLikeTheLanguage` (value, size and sign), `DigitsFitSize` (a binary text has no
  more digits than its size says, along any chain of operators), `OnlyOnesAreResized` (the only
  constant whose value is ever changed in place is the literal `'1`, once). `DigitsFitSize`
  excepts `FillAddedToEmpty`, which the attempt to prove it brought out and the instance for
  TLC is too small to meet: a part outside of its vector is a constant of size 0, a fill
  added to it gives the number 1 of size 0, and a concatenation takes a digit of that.
* `AgreesWithLanguage` (result and variables are what the language says, or both give up),
  `Ends` (if the function ends in the language), `OuterBindingsKeptInVector`
  (shadowing is undone on every way out of a block).

## 5. Proofs

Checked by TLAPS for every value of the constants. What is assumed of them are the named
`ASSUME`s of the modules: null is no object and `nullptr` no function, the design type is a
type, bounds are naturals, ids stay below `kBadIndex` (so that a position never reads as
unset), the bad symbol is no client string, there are finitely many objects
(`ObjectAssumption`, needed to count references), and `DesignAssumption` of section 2; in
`NameBinding`, that the root of the walk is a design. Further: words have a width and ints and
shorts are narrower (`WordAssumption`), values of functions have at least two bits
(`BitsAssumption`), literals and statements are as the parser makes them (`PoolsAssumption`,
`FuncsAssumption`).

| module | theorems, each stating a property of section 4 |
|---|---|
| `SymbolFactoryProofs` | `TypeCorrect`, `InverseMaps`, `StableIds`, `MakeThenGet`, `OnlyAppends` |
| `CommonLemmas` | lemmas: `Reached` contains the roots, is closed, and is the least such set; what holds at 0 and passes from a number to the next holds of all; powers of two |
| `UhdmListenerProofs` | `TypeCorrect`, `PathOnStack`, `VisitsReachable`, `RecursionIsBounded`, `AnyIsPaired`, `ReportsReferences` |
| `SerializerProofs` | `NeverDangling`, `TypeCorrect`, `IdsAreUnique`, `FactoriesAreExact`, `OnlyMishapsAreUndefined`, `Refines` |
| `TaskFuncBindingProofs` | `TypeCorrect`, `StackIsWalk`, `CallsStayInKin`, `CallsAreBoundOnce`, `CallsBindToClones`, `CallsBindByLanguage`, `CallsSettle` |
| `NameBindingProofs` | `StackIsWalk` |
| `ConstantFoldingProofs` | `TypeCorrect`, `DigitsFit`, `OnlyOnes` |
| `StatementEvalProofs` | `TypeCorrect`, `Shadows` |

**Symbol tables.** The invariant says of each table that it is `Consistent` (counter =
length, each container defined by the other) and that the bad symbol is at 0.
`MapsAreInverse` is not inductive: without the counter nothing keeps a new id from being an
old one. `OnlyAppends` needs the same: a new string goes behind the last.

**Listener.** The invariant of `UhdmListenerProofs`: every visited object is reached; every
target of a visited object's field is visited unless an activation on the callstack still has that
field ahead (`Explored`, `Awaited`); designs not in `toListen` are visited. With an empty
callstack nothing is awaited, `visited` is closed, and the minimality of `Reached` gives
equality. What is reported takes three more parts. Only the innermost activation can be a
second one of its object (`OnlyTopRevisits`), so the others are different objects, and the
callstack is no longer than there are objects, and one. One activation at most of an
object is to call `leaveAny`, and then `enterAny` has been called and `leaveAny` not
(`AnyPaired`). `enterX` was called as often as references to the object have been followed,
`leaveX` as often but for the activations that last (`CallsCounted`, an equation between
cardinalities that each step changes by one on both sides).

**Object store.** `SerializerProofs`: objects are well formed, objects of collected types point
at live objects unless one that was pointed at has been erased, and the links of a file that was
saved name types. The collection step needs
that the traversal reached no freed object, the restore step that every index is in
range: both are what the code has otherwise declared undefined. `StoreInv` is
about ids and order: a factory lists the live objects of its type, each once and by increasing
id; ids are different and not above the counter; and the same of the records of
a file, type by type, since `Restore` makes the one from the other. The
order is what keeps an object from being listed twice, and what makes the position that
`Save` writes the one `Restore` reads. `Keepers`, what a collection leaves of a factory, is
said by numbering the kept entries in their order, as `SelectSeq` is recursive; the
instance for TLC assumes, and so checks, that the two agree (`KeepersSelects`).
`OnlyMishapsAreUndefined` holds whatever types the collector skips, and for clients that erase
what they like: as long as none of the three mishaps has happened (`DefinedInv`), every pointer
is to a live object, every index in the file is in range and the file is not mixed, which each
step keeps: a collection that skips nothing that points at what it deletes keeps a closed
set, and a file written from a closed heap has only indices that are in range (`FileReadable`).

`Refines` shows step by step that the store is an `ObjectStore`. A heap with all its targets
is a graph of ids; restricting it to what a collection keeps is what `ObjectStore` calls a
collection (the minimality of `Reached` on addresses gives that on ids), and reading a written
file back gives the graph that was written, link by link. Where a collection or an erasure
leaves a dangling pointer the mapping is `broken`: a later collection, that of a save too,
does not repair it, and what it saves can never be restored, since the index of a deleted
object is out of range.

**Elaborator.** Seven parts. Types, and the stack as long as the walk with the same objects,
and `inHierarchy` in modules, so that every leave handler pops its own entry. The walk is a
way it may take: each scope is one the walk comes to from the one in front (`PathInv`), which
need not be the one around it. The tables on the stack hold what their scopes offer and what
is scheduled comes from a scope of the walk (kin). No module and no package is ahead and on
the walk, or entered twice (`FreshInv`; classes and interfaces are); calls of what is ahead
are not scheduled, and what is bound is not scheduled (once, and why calls of classes are
exempt: a module's copy of a class and the walk bind these again). What is on the stack is in
the vector of its scope now and will not be replaced (clones). The tables know exactly the
names that their scopes offer, with the kinds the language gives them, and what is bound is so
by the rules (language): of the scopes on the stack that know the name, none is another than
the one it means, unless the walk has come to the call through the scopes around it only; then
the first scopes of the walk are those around the call (`Straight`), and the innermost of them
that knows the name is what it means (`LookupMeans`), whichever scope below the walk is
leaving. And a call that is to be bound, and whose scope has been entered once, is bound, or
scheduled as a call of the right kind. What has been entered cannot be read off `visited`,
which the end of a list clears, so `DueInv` says that there is a set with what is visited in
it, whose calls are so, and from which the walk only goes to what is in it or remains to be
entered (`IsCovered`); at the end nothing remains, and so every scope the design leads to is
in it. `CallsSettle` was what showed that the kind of a name with two declarations changes
while it is cloned (`HasOneKind`).

**The walk of elaboration.** `NameBinding` assumes no tree: the walk also goes along
references and types, enters what it is already in, and a definition is an instance that
pushes nothing. `StackFollowsWalk` counts: the height of the stack is the number of
scopes in the walk, and the entry of the k-th frame is at the height counted so far
(`Depth`). It needs `EntriesInv` beside it, that every entry is of a scope: otherwise leaving
a definition that happens to be on top would pop the entry of another. There are four kinds
of step, with a lemma each (`PushKeeps`, `NoPushKeeps`, `PopKeeps`, `NoPopKeeps`),
and under them how the count changes when a frame is appended or taken away; the
handlers are then each shown to be of one kind. `TopIsItsEntry` is the heart of it: the
test of the leave handlers, whether the top entry is of the object that is left, comes out
as whether that object is a scope. `inHierarchy_` is reset only when the last entry
goes, so that it is set for every module that remains.

**Constant folding.** The invariant: every cell is a constant (`IsConst`), every node refers to
earlier ones and to a cell, and, unless a fill has been added to a constant of no
bits, every cell `Fits`. `DigitsFitSize` alone is not inductive, for two reasons: a
number of size 0 must be the number 0, since a concatenation takes the digits of a number
from its value, and a constant of size -1 must not be taken for one of a known size. There
is a lemma per operator that says that what it may produce is a constant that fits if its
operands do, under them lemmas about `hexToBin` (four digits each), `toBinary` (not
more digits than asked for, and enough for 0), `ExprEval::toBinary` and the readers of
numbers, which are functions over the length of the text; they are proved by
the least number at which they could fail (`FromZero`), as induction theorems cannot be
instantiated. The prover knows nothing of `2 ^ n`: that it is positive and doubles is
obtained from the number of subsets of a set of n elements (`PowerPositive`,
`PowerDoubles`). `OnlyOnes` goes over what the three operators change: comparisons,
the conditional and `$signed`; a typespec changes no value.

**Constant functions.** `StackInv` says of each activation what it has still to run and, of a
block, that it shadows what it declares and holds the bindings from before if it found a vector
of values, and shadows nothing else; a block that found one means that there is one.
`Shadows` follows: a block that is over can only be left, and `PutBack` gives, on the
shadowed names, exactly what was put aside, whatever the statements in between have
bound. `TypeCorrect` has the hypothesis `[]ReadsKnown`, that no assignment and no return reads
a variable without a value: the code would keep the expression as the value, which is
not modelled. The functions of `mc_statements` satisfy it (`ValuesAreKnown` would fail
otherwise); everything else in the invariant is proved without it.

Model-checked only:

* `Returns` and `Ends`: liveness under fairness is out of the prover's reach.
* `FoldsLikeTheLanguage`, `AgreesWithLanguage`, the two `BindsByTheLanguage` and
  `BindsToMembers` of `NameBinding` and `HierPath`: what they are compared with is recursive
  (values of expressions, statements, nested scopes, paths), or compares numbers bit by
  bit, and what a recursive definition computes for every input takes induction over data.
* `TypeOK` of `NameBinding`: that a reference is bound to an object depends on what the
  scopes declare, sequences made with `SelectSeq` and `FlattenSeq`, which are recursive.
* `TypeOK`, `KeepsElements` and `InstancesApart` of `HierPath`: what is found is the result of
  recursive functions over lists (`FirstFound`, `FirstNamed`, `Ancestry`, and `Means` for
  what an element stands for).
* `BindsInCurrentScope`, `BindsToUniquified` and `OuterBindingsKept` do not hold, see section 6.

## 6. Findings

* **Calls are bound with the names of an inner scope** (`tf_binding_scope`).
  `bindScheduledTaskFunc` (`templates/ElaboratorListener.cpp:623`) binds everything that is
  pending whenever any scope is left. A call in a module is bound when the first
  class or instance inside it is left, with the inner names on top of `instStack_`, so
  that a function of that name there wins. `ElaboratorListener.h:68` says "Bind to a
  function or task in the current scope".
* **Calls stay bound to functions that have been replaced** (`tf_binding_uniquified`).
  `elabClass_defn` clones a class's functions without replacing them on `instStack_`, and
  a module with classes binds its calls before its functions are cloned. `README.md:82`
  says that elaboration uniquifies functions.

* **A block shadows nothing before the first assignment** (`statements_shadowing`).
  `evalBlock_` looks for the vector of `param_assigns` once, at its entry
  (`templates/ExprEval.cpp:6506`); in a function without arguments, of a scope without
  parameters, the first assignment makes it. If that is in a block, the block's
  variables stay bound after it. The comment at `ExprEval.cpp:6494` says that they "must
  shadow any same-named outer variable" and that otherwise "the inner block's write would
  overwrite the outer scope's binding". If there is no outer variable, `evalFunc` meets a
  name it does not know and gives up.

## 7. Plan, and what is not modelled

Done: symbol tables, store, object listener, both bindings of the elaborator, hierarchical
paths, constant functions, constant expressions.

Left, in this order:

1. Proofs: type correctness of `NameBinding` and `HierPath`, with the recursive helpers over
   lists said by positions, as `Keepers` of `Serializer` is.
2. Compound assignments in `StatementEval`, with constants as cells that variables and
   literals of the program share (`ExprEval.cpp:6435`; `ConstantFolding` has such cells),
   and assignments to selects.
3. `FullNames`: `ComputeFullName` over parent chains, the cached `VpiFullName`, and the
   symbols `Save` makes while it writes.
4. `UhdmAdjuster` (`currentInstance_` over nested scopes) on the walk of `NameBinding`, and
   the erasures `SynthSubset` schedules, against the store.

Not modelled, and why:

* The copying of objects by `DeepClone` outside of paths and calls: it is generated, one
  assignment per relation, and what it binds goes through the same handlers. Propagation of
  parameters to classes (`propagateParamAssign`): its hazards are listed.
* Real and string constants, `x` and `z` digits: they take the paths through the evaluator
  that refuse or copy them.
* Tables with a parent (`SymbolFactory.h:94`): nothing in the repository makes one.
* VPI access functions: generated, one relation or property each; handles are kept only by
  clients outside of the repository. Visitor and linter: they print and keep no state. Group
  compliance: reports, changes nothing. The generator: its output is what is modelled. Tools and
  the Python binding: no state of their own.
