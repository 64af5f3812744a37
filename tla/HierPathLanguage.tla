-------------------------- MODULE HierPathLanguage --------------------------
(***************************************************************************)
(* What a hierarchical path means, and what must be true of its clone.     *)
(* Nothing here follows the code: an object has one name space, a variable *)
(* has the members of its type, an array those of its elements, and a class*)
(* those it inherits.                                                      *)
(***************************************************************************)
EXTENDS HierPath

\* The type of an object, of its elements if it is an array.
Stripped[t \in Object] == IF Kind(t) \in Arrays THEN Stripped[One[t, "Elem_typespec"]] ELSE t

TypeOf[o \in Object] ==
  IF One[o, "Typespec"] # None THEN Stripped[One[o, "Typespec"]]
  ELSE IF One[o, "front"] # None THEN Stripped[One[One[o, "front"], "Typespec"]] ELSE None

\* The value of an index, if it has one.
ValueOf(t) == IF t.is = "constant" \/ (t.is = "parameter" /\ t.known) THEN {t.value} ELSE {}

IndexOf(i) ==
  IF i.is # "operation" THEN ValueOf(i)
  ELSE {v \in -16 .. 16 : \E l \in ValueOf(i.left), r \in ValueOf(i.right) :
          CASE i.op = "+" -> v = l + r
            [] i.op = "-" -> l = v + r
            [] i.op = "*" -> v = l * r
            [] i.op = "/" -> l - v * r \in 0 .. r - 1}

\* The names an element may stand for.
Spelled(e) ==
  {<<e.name, NoIndex>>} \cup (IF e.kind = "bit_select" THEN {<<e.name, v>> : v \in IndexOf(e.index)} ELSE {})

\* A parameter assignment stands for what is assigned, a port for what is
\* connected to it.
Assigned(o) ==
  CASE Kind(o) = "param_assign" -> One[o, "Rhs"]
    [] Kind(o) = "port" -> One[o, "Low_conn"]
    [] OTHER -> o

Named[o \in Object, spelled \in SUBSET Name] ==
  UNION {{Assigned(List[o, l][i].object) : i \in {j \in DOMAIN List[o, l] : List[o, l][j].name \in spelled}} :
           l \in DOMAIN graph[o].lists}

Inherited[c \in Object, spelled \in SUBSET Name] ==
  IF Named[c, spelled] # {} \/ One[c, "Extends"] = None THEN Named[c, spelled]
  ELSE Inherited[One[c, "Extends"], spelled]

MembersOf[o \in Object, spelled \in SUBSET Name] ==
  LET t == IF Kind(o) = "class_typespec" THEN o ELSE TypeOf[o]
  IN  CASE Kind(o) = "class_defn" -> Inherited[o, spelled]
        [] KindIs(t, {"class_typespec"}) -> Inherited[One[t, "Class_defn"], spelled]
        [] KindIs(t, Aggregates) -> Named[t, spelled]
        [] OTHER -> Named[o, spelled]

OneOf(S) == IF S = {} THEN None ELSE CHOOSE o \in S : TRUE

MeaningAlone(e) ==
  CASE e.name = "this" -> Enclosing
    [] e.name = "super" -> IF Enclosing = None THEN None ELSE One[Enclosing, "Extends"]
    [] e.name = "$root" -> Root
    [] OTHER -> ScopeBinding(e)

\* What the elements stand for; None if it is no object.
Member[o \in Object \cup {None}, spelled \in SUBSET Name] ==
  IF o = None THEN None ELSE OneOf(MembersOf[o, spelled])

Means[k \in Nat] ==
  IF k = 1 THEN MeaningAlone(path[1])
  ELSE IF path[k].name = "" THEN Means[k - 1]
  ELSE Member[Means[k - 1], Spelled(path[k])]

Meanings == [k \in DOMAIN path |-> Means[k]]

-----------------------------------------------------------------------------
(***************************************************************************)
(* Properties.                                                             *)
(***************************************************************************)
\* The state keeps its shape: an element is bound to an object or to nothing, and
\* what precedes the next one is a clone that was made, or an object
\* (hier_path::DeepClone).
TypeOK ==
  /\ Len(clone) <= Len(path) /\ \A k \in DOMAIN clone : clone[k] \in Object \cup {None}
  /\ previous.elem \in 0 .. Len(clone) /\ previous.object \in Object \cup {None}
  /\ previous.elem > 0 => previous.object = None
  /\ reported \subseteq 2 .. Len(clone) /\ cut \in BOOLEAN
  /\ instance \in DOMAIN scopes

\* Where the code departs from the language, about the k-th element; meant is what
\* the elements stand for.
Departs(meant, k) ==
  \* the members of this and super are not searched
  \/ path[k - 1].name \in {"this", "super"}
  \* an instance in a module is found, and not bound
  \/ Kind(meant[k - 1]) = "module_inst" /\ Kind(meant[k]) \in {"module_inst", "interface_inst"}
  \* nor a field of an assignment pattern
  \/ Kind(meant[k - 1]) = "operation"
  \* an array of arrays has no members
  \/ \E t \in {One[meant[k - 1], "Typespec"]} :
       KindIs(t, Arrays) /\ KindIs(One[t, "Elem_typespec"], Arrays)
  \* a generate block of an interface goes by the text of its index
  \/ Kind(meant[k - 1]) = "interface_inst" /\ Kind(meant[k]) = "gen_scope" /\ path[k].index.is # "constant"
  \* a member has members only if it is a field, a struct or an array of structs, a
  \* parameter, or, for some of what they hold, an instance or a generate block
  \/ k > 2 /\ \/ Kind(meant[k - 1]) \notin {"typespec_member", "parameter", "array_var",
                                            "struct_var", "struct_net", "module_inst", "gen_scope"}
              \/ Kind(meant[k - 1]) \in {"module_inst", "gen_scope"} /\ Kind(meant[k]) = "gen_scope"

\* An element that stands for a member of what the element before stands for is
\* bound to that member, whatever else goes by its name around the path, and is
\* not reported; a departure above leaves nothing certain about what follows it
\* (the switches of hier_path::DeepClone).
BindsToMembers ==
  \A meant \in {Meanings} : \A k \in 2 .. Len(clone) :
    /\ path[k].kind \in Refs /\ path[k].name # "" /\ meant[k] # None
    /\ \A j \in 2 .. k : path[j].name # "" /\ ~Departs(meant, j)
    => clone[k] = meant[k] /\ k \notin reported

\* A path of which every element stands for something loses elements only after a
\* departure, or behind the member of a module instance that was found in the
\* design or in another instance (the `break' out of the loop over Path_elems).
KeepsElements ==
  \A meant \in {Meanings} :
    cut /\ (\A k \in DOMAIN path : meant[k] # None)
    => \/ Kind(meant[Len(clone) - 1]) = "module_inst"
       \/ \E k \in 2 .. Len(clone) : Departs(meant, k)

\* The clone made for an instance is not bound to what only the scopes of an
\* earlier instance know, but for an unnamed "[j]" (ro->Actual_group on the path
\* that is cloned).
InstancesApart ==
  \A k \in DOMAIN clone :
    path[k].name # "" =>
      \A i \in 1 .. instance - 1 : \A n \in DOMAIN scopes[i].names :
        clone[k] = scopes[i].names[n] => clone[k] \in {names[m] : m \in DOMAIN names} \cup {Meanings[k]}
=============================================================================
