------------------------- MODULE NameBindingLanguage -------------------------
(***************************************************************************)
(* What the name of a reference means by the rules of the language, and    *)
(* what must be true of the walk that binds it.  Nothing here follows the  *)
(* handlers: a scope declares a name by one of its relations, whichever,   *)
(* and a name means what the nearest scope around it declares.             *)
(***************************************************************************)
EXTENDS NameBinding

Objects == DOMAIN design.kind
Refs == {o \in Objects : Kind(o) \in References}
Elements == {r \in Refs : Kind(design.parent[r]) = "hier_path"}

\* The scopes around an object, the outermost first.  What is connected to a
\* port of an instance from above is not in the instance.
Around[o \in Objects] ==
  LET p == design.parent[o]
  IN  IF p = None THEN <<>>
      ELSE IF o \in ToSet(R(p, "High_conn")) THEN Around[design.parent[p]]
      ELSE IF IsScope(p) THEN Append(Around[p], p)
      ELSE Around[p]

RECURSIVE IsIn(_, _)
IsIn(o, p) == o = p \/ (design.parent[o] # None /\ IsIn(design.parent[o], p))

-----------------------------------------------------------------------------
(***************************************************************************)
(* Declarations.                                                           *)
(***************************************************************************)
\* The ways to declare something in a scope, and what is declared.
ByItself ==
  {"Nets", "Array_nets", "Variables", "Array_vars", "Named_events", "Parameters", "Interfaces",
   "Modules", "Module_arrays", "Clocking_blocks", "Default_clocking", "Global_clocking",
   "VpiLoopVars", "Io_decls"}
Ways == ByItself \cup {"enum variables", "enum types", "interface arrays", "generate blocks",
                       "ports", "init", "own name", "blocks", "arguments"}

EnumsOf(s) == SelectSeq(R(s, "Variables"), LAMBDA v : Kind(v) = "enum_var")

\* The types of an instance are declared in its definition, too.
TypesOf(s) ==
  R(s, "Typespecs") \o
  FlattenSeq([i \in DOMAIN R("design", "allModules") |->
    LET m == R("design", "allModules")[i]
    IN  IF design.defName[m] = design.defName[s] /\ design.defName[s] # "" THEN R(m, "Typespecs") ELSE <<>>])

Declared(s, way) ==
  CASE way = "enum variables"   -> {Pair(Name(c), c) : c \in ToSet(Through(Through(EnumsOf(s), "Typespec"), "Enum_consts"))}
    [] way = "enum types"       -> {Pair(Name(c), c) : c \in ToSet(Through(TypesOf(s), "Enum_consts"))}
    [] way = "interface arrays" -> {Pair(Name(i), i) : i \in ToSet(Through(R(s, "Interface_arrays"), "Instances"))}
    [] way = "generate blocks"  -> ToSet(GenScopes(s))
    [] way = "ports"            -> ToSet(Connected(s, {"modport", "interface_inst"}))
    [] way = "init"             -> {Pair(Name(v), v) : v \in ToSet(Through(R(s, "VpiForInitStmts"), "Lhs")) \ (Refs \cup {o \in Objects : Kind(o) = "ref_var"})}
    [] way = "arguments"        -> {Pair(Name(a), a) : a \in ToSet(R(s, "Tf_call_args")) \ Refs}
    [] way = "blocks"           -> {Pair(Name(b), b) : b \in {c \in Objects : Kind(c) \in NamedBlocks /\ Around[c] # <<>>
                                                                         /\ Last(Around[c]) = s}}
    [] way = "own name"         -> CASE Kind(s) = "module_inst" -> {Pair(Name(s), s), Pair(design.defName[s], s)}
                                     [] Kind(s) = "task_func"   -> {Pair(Name(s), v) : v \in ToSet(R(s, "Return"))}
                                     [] OTHER                   -> {}
    [] OTHER                    -> {Pair(Name(o), o) : o \in ToSet(R(s, way))}

Denotes(s, n, ways) == UNION {{p.object : p \in {q \in Declared(s, way) : q.name = n}} : way \in ways}

\* A class declares what the classes it extends declare, unless it does itself.
DenotesWithBases(s, n, ways) ==
  LET declaring == SelectSeq(Bases[s], LAMBDA c : Denotes(c, n, ways) # {})
  IN  IF declaring = <<>> THEN {} ELSE Denotes(declaring[1], n, ways)

\* What the name of r means in the scope s, if those ways are known there; the
\* names of a module are the last ones that are looked for in it.
MeaningIn(s, r, ways) ==
  LET inner == DenotesWithBases(s, Name(r), ways \ {"own name"})
  IN  IF inner # {} THEN inner ELSE DenotesWithBases(s, Name(r), ways \cap {"own name"})

\* What is assigned to a parameter stands for it.
Assigned(objects) ==
  objects \cup UNION {ToSet(Through(<<pa>>, "Rhs")) :
                       pa \in {a \in Objects : Kind(a) = "param_assign" /\ ToSet(R(a, "Lhs")) \cap objects # {}}}

-----------------------------------------------------------------------------
(***************************************************************************)
(* Where the code departs from the language.                               *)
(***************************************************************************)

\* The handler of the scope does not collect what is declared that way.
Uncollected ==
  [k \in Scopes |->
     CASE k = "module_inst" -> {"Array_vars"}
       [] k = "interface_inst" -> {"Array_vars", "enum types"}
       [] k = "package" -> {"enum types"}
       [] k = "class_defn" -> {"Array_vars", "enum types"}
       [] k = "gen_scope" -> {"Array_vars", "Named_events", "enum variables", "enum types"}
       [] k = "task_func" -> {"Array_vars", "Named_events", "Parameters", "enum variables", "enum types"}
       [] OTHER -> {"Named_events", "Parameters", "enum variables", "enum types"}]

\* A named block is known only after the walk has come to it: s does not know
\* those that are further on than r.
IsAhead(b, r) ==
  \E p \in Objects :
    /\ IsIn(r, p) /\ IsIn(b, p) /\ ~ IsIn(r, b)
    /\ \E i, j \in DOMAIN Steps(p) :
         /\ i < j /\ None \notin {Steps(p)[i].object, Steps(p)[j].object}
         /\ IsIn(r, Steps(p)[i].object) /\ IsIn(b, Steps(p)[j].object)

Knows(s, r) ==
  {o \in MeaningIn(s, r, Ways \ Uncollected[Kind(s)]) : ~ (Kind(o) \in NamedBlocks /\ IsAhead(o, r))}

\* A name that stands for nothing there: a task has no value, and the argument
\* of a method, or what a loop assigns to first, is taken for a declaration
\* although it is a reference, that is bound to nothing yet.
Veils(s, r) ==
  \/ Kind(s) = "task_func" /\ Name(s) = Name(r) /\ R(s, "Return") = <<>>
  \/ \E e \in (ToSet(R(s, "Tf_call_args")) \cup ToSet(Through(R(s, "VpiForInitStmts"), "Lhs"))) \cap Refs :
       Name(e) = Name(r) /\ actual[e] = None

\* What leads the walk to an object outside of the scopes it is in: a reference
\* to it or a variable of that type.
ScopesOf(o) == {s \in Objects : IsScope(s) /\ IsIn(o, s)}
Links == {l \in Objects \X Objects : /\ \/ l[2] \in ToSet(R(l[1], "Typespec"))
                                        \/ l[1] \in Refs /\ actual[l[1]] = l[2]
                                     /\ ~ IsIn(l[1], l[2])
                                     /\ ScopesOf(l[1]) # ScopesOf(l[2]) \ {l[2]}}
IsConnected(a, b) ==
  \E p \in Objects : \E c \in ToSet(R(p, "High_conn")) : IsIn(a, c) /\ IsIn(b, c)

\* The walk comes to the reference along a link, and looks its name up in the
\* scopes where the link starts; or it has been, within the same high
\* connection, along a link to an instance with a high connection of its own,
\* which has ended this one.
Astray(r) ==
  UNION {ScopesOf(l[1]) : l \in {k \in Links : IsIn(r, k[2])}}
  \cup {s \in ScopesOf(r) :
          \E l \in Links : /\ IsConnected(l[1], r)
                           /\ \E p \in Objects : IsIn(p, l[2]) /\ R(p, "High_conn") # <<>>}

-----------------------------------------------------------------------------
(***************************************************************************)
(* Properties.                                                             *)
(***************************************************************************)
\* The maps of instStack_ hold objects or nullptr, none under an empty name, and
\* flatComponentMap_ holds definitions.
TypeOK ==
  /\ \A i \in DOMAIN walk : walk[i].object \in Objects /\ walk[i].highConn \in BOOLEAN
  /\ visited \subseteq Objects
  /\ \A i \in DOMAIN instStack :
       /\ instStack[i].object \in Objects
       /\ \A m \in {instStack[i].netMap, instStack[i].paramMap, instStack[i].modMap} :
            \A n \in DOMAIN m : n # "" /\ m[n] \in Objects \cup {None}
  /\ \A n \in DOMAIN flat : IsDefinition(flat[n])
  /\ inHierarchy \in BOOLEAN /\ ignoreLast \in BOOLEAN
  /\ DOMAIN actual = Refs /\ \A r \in Refs : actual[r] \in Objects \cup {None}

\* What a reference should be bound to at the end: what the nearest scope around
\* it declares by its name, among the scopes that know it.
Expected(r) ==
  LET knowing == SelectSeq(Around[r], LAMBDA s : Knows(s, r) # {} \/ Veils(s, r))
      before == design.actual[r]
  IN  IF (r \in Elements /\ before # None) \/ knowing = <<>> \/ Knows(Last(knowing), r) = {}
        THEN {before}
        ELSE Assigned(Knows(Last(knowing), r))

\* leaveRef_obj, with all that enter and leave handlers have done to instStack_
\* and to the other references by then, looks every reference up in the scopes it
\* stands in, the instance left out in a high connection, and binds it to what its
\* name means.  Only one that is led astray is looked up elsewhere, and may also
\* stay as it was, or be bound to a namesake in a scope it is not in.
BindsByTheLanguage ==
  /\ Leaves(References) /\ Astray(Top.object) = {} =>
       [i \in DOMAIN Searched |-> Searched[i].object] = Around[Top.object]
  /\ Over => \A r \in Refs :
       \/ actual[r] \in Expected(r)
       \/ Astray(r) # {} /\ actual[r] = design.actual[r]
       \/ \E s \in Astray(r) : actual[r] \in Assigned(MeaningIn(s, r, Ways))
=============================================================================
