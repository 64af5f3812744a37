----------------------------- MODULE MCHierPath -----------------------------
(***************************************************************************)
(* A design for TLC, with an object of every kind that a path can run      *)
(* through.  Members are called "a" and "b" everywhere, so that a name that*)
(* is searched in the wrong place is found there.                          *)
(***************************************************************************)
EXTENDS HierPathLanguage

Obj(k, ls, rs) == [kind |-> k, name |-> k, lists |-> ls, one |-> rs]
Plain(k) == Obj(k, [l \in {} |-> <<>>], [r \in {} |-> None])
Of(k, t) == Obj(k, [l \in {} |-> <<>>], [Typespec |-> t])
Array(k, t, first) == Obj(k, [l \in {} |-> <<>>], [Typespec |-> t, front |-> first])
Elements(k, t) == Obj(k, [l \in {} |-> <<>>], [Elem_typespec |-> t])
Scope(k, ls) == Obj(k, ls, [r \in {} |-> None])
Under(n, o) == [name |-> <<n, NoIndex>>, object |-> o]
At(n, i, o) == [name |-> <<n, i>>, object |-> o]
AB(x, y) == <<Under("a", x), Under("b", y)>>

Types ==
  [ logic |-> Plain("logic_typespec"), string |-> Plain("string_typespec"),
    enum |-> Plain("enum_typespec"),
    struct |-> Scope("struct_typespec", [Members |-> AB("s_a", "s_b")]),
    inner |-> Scope("struct_typespec", [Members |-> <<Under("a", "i_a"), Under("name", "i_name")>>]),
    union |-> Scope("union_typespec", [Members |-> AB("u_a", "u_b")]),
    classtype |-> Obj("class_typespec", [l \in {} |-> <<>>], [Class_defn |-> "derived"]),
    derived |-> Obj("class_defn", [Variables |-> <<Under("a", "svar")>>, Task_funcs |-> <<Under("f", "func")>>],
                    [Extends |-> "base"]),
    base |-> Scope("class_defn", [Variables |-> AB("c_a", "cvar"), Named_events |-> <<Under("e", "event")>>]),
    array |-> Elements("array_typespec", "struct"), packed |-> Elements("packed_array_typespec", "struct"),
    classes |-> Elements("array_typespec", "classtype"), matrix |-> Elements("array_typespec", "array"),
    s_a |-> Of("typespec_member", "inner"), s_b |-> Of("typespec_member", "array"),
    i_a |-> Of("typespec_member", "string"), i_name |-> Plain("typespec_member"),
    u_a |-> Of("typespec_member", "union"), u_b |-> Of("typespec_member", "logic") ]

Data ==
  [ svar |-> Of("struct_var", "struct"), snet |-> Of("struct_net", "union"), uvar |-> Of("union_var", "union"),
    cvar |-> Of("class_var", "classtype"), c_a |-> Of("logic_var", "logic"), lnet |-> Of("logic_net", "logic"),
    avar |-> Array("array_var", "array", "svar"), mvar |-> Array("array_var", "matrix", "avar"),
    objects |-> Array("array_var", "classes", "cvar"),
    pvar |-> Array("packed_array_var", "packed", "svar"), anet |-> Array("array_net", "logic", "snet"),
    pnet |-> Array("packed_array_net", "logic", "snet"), text |-> Of("string_var", "string"),
    event |-> Plain("named_event"), refvar |-> Plain("ref_var"),
    arg |-> Of("io_decl", "inner"), objarg |-> Of("io_decl", "classtype"), textarg |-> Of("io_decl", "string"),
    dir |-> Of("io_decl", "logic"), port |-> Obj("io_decl", [l \in {} |-> <<>>], [Expr |-> "snet"]),
    dims |-> Obj("io_decl", [Ranges |-> <<Under("", "lnet")>>], [Typespec |-> "enum"]),
    par |-> Obj("parameter", [Ranges |-> <<Under("", "lnet")>>], [Typespec |-> "packed"]),
    plain |-> Plain("parameter"), unitype |-> Of("parameter", "union"),
    assign |-> Obj("param_assign", [l \in {} |-> <<>>], [Rhs |-> "pattern"]),
    pattern |-> Obj("operation", [Operands |-> <<At("", NoIndex, "const"), Under("b", "tag")>>], [Typespec |-> "struct"]),
    defaults |-> Obj("operation", [Operands |-> <<Under("default", "tag"), Under("x", "tag")>>], [Typespec |-> "struct"]),
    netport |-> Obj("port", [l \in {} |-> <<>>], [Low_conn |-> "lnet"]), openport |-> Plain("port"),
    const |-> Plain("constant"), tag |-> Of("tagged_pattern", "logic"),
    func |-> Plain("function"), task |-> Plain("task"), call |-> Plain("func_call") ]

Instances ==
  [ design |-> Scope("design", [TopModules |-> AB("module", "leaf")]),
    module |-> Scope("module_inst",
      [Variables |-> <<Under("a", "svar"), Under("c", "cvar")>>, Nets |-> <<Under("b", "lnet")>>,
       Modules |-> <<Under("u", "leaf"), At("v", 0, "leaf")>>, Interfaces |-> <<Under("i", "bus")>>,
       Gen_scope_arrays |-> <<At("g", 0, "other"), At("g", 1, "block")>>,
       Task_funcs |-> <<Under("f", "func")>>, Param_assigns |-> <<Under("p", "assign")>>]),
    leaf |-> Scope("module_inst", [Nets |-> AB("snet", "lnet"), Modules |-> <<Under("u", "module")>>]),
    bus |-> Scope("interface_inst",
      [Parameters |-> <<Under("q", "plain")>>, Param_assigns |-> <<Under("p", "par")>>,
       Nets |-> <<Under("a", "snet")>>, Modports |-> <<Under("m", "modport"), Under("n", "modport")>>,
       Ports |-> <<Under("u", "openport"), Under("c", "netport")>>, Task_funcs |-> <<Under("f", "task"), Under("h", "func")>>,
       Gen_scope_arrays |-> <<At("g", 1, "block")>>]),
    modport |-> Scope("modport", [Io_decls |-> <<Under("a", "dir"), Under("b", "port")>>]),
    clocking |-> Scope("clocking_block", [Clocking_io_decls |-> <<Under("a", "lnet")>>]),
    block |-> Scope("gen_scope",
      [Modules |-> <<Under("u", "leaf")>>, Nets |-> <<Under("a", "snet")>>, Array_nets |-> <<Under("b", "anet")>>,
       Variables |-> <<Under("c", "cvar")>>, Task_funcs |-> <<Under("f", "func"), Under("t", "task")>>,
       Gen_scope_arrays |-> <<At("g", 1, "other")>>]),
    other |-> Scope("gen_scope", [Variables |-> AB("svar", "lnet")]),
    begin |-> Scope("named_begin", [Variables |-> <<Under("a", "svar")>>, Array_vars |-> <<Under("b", "avar")>>]),
    decoy |-> Plain("logic_var"), decoy2 |-> Plain("logic_var") ]

MCGraph ==
  [o \in DOMAIN Types \cup DOMAIN Data \cup DOMAIN Instances |->
     IF o \in DOMAIN Types THEN Types[o] ELSE IF o \in DOMAIN Data THEN Data[o] ELSE Instances[o]]
MCGraphs == {MCGraph}
MCObject == DOMAIN MCGraph

\* An index: a number, a parameter, an operation on two of these, a variable.
NoExpr == [is |-> "none"]
Literal(v) == [is |-> "constant", value |-> v]
Parameter(v) == [is |-> "parameter", known |-> TRUE, value |-> v]
Variable == [is |-> "parameter", known |-> FALSE, value |-> 0]
Operation(o, l, r) == [is |-> "operation", op |-> o, left |-> l, right |-> r]

Elem(k, n, i) == [kind |-> k, name |-> n, index |-> i, actual |-> None]
Ref(n) == Elem("ref_obj", n, NoExpr)
Select(n, i) == Elem("bit_select", n, i)
CallOf(n) == Elem("method_func_call", n, NoExpr)

Second == {Ref(n) : n \in {"a", "b", "c", "u", "i", "p", "size", "name"}} \cup
          {Select("g", i) : i \in {Literal(0), Operation("-", Parameter(2), Literal(1)), Operation("/", Literal(3), Parameter(2)), Variable}} \cup
          {Select("a", Literal(0)), Ref(""), CallOf("f")}
Third == {Ref(n) : n \in {"a", "b", "name", "m", "u"}} \cup {Ref(""), Select("g", Parameter(1)), CallOf("t")}
Fourth == {Ref("a"), Ref("b")}

Heads == {Ref("r"), Select("r", Literal(1))}
Short == {<<x, y>> : x \in Heads \cup {Ref("$root"), Ref("this"), Ref("super"), CallOf("r")},
                     y \in Second \cup {Elem("method_task_call", "t", NoExpr)}}
Long == {<<Ref("r"), y, z, w>> : y \in Second, z \in Third, w \in Fourth}
\* An element without a name follows a select.
MCPaths ==
  {p \in Short \cup Long : \A k \in 2 .. Len(p) : p[k].name = "" => p[k - 1].kind = "bit_select"}

Names(root, n) ==
  [m \in {<<"r", NoIndex>>, <<"a", NoIndex>>, <<"u", NoIndex>>} |->
     IF m[1] = "r" THEN root ELSE n]
Surroundings(root, n) == [names |-> Names(root, n), class |-> IF n = "decoy" THEN "derived" ELSE "base"]
MCScopes ==
  {<<Surroundings(o, "decoy")>> : o \in DOMAIN Instances \cup DOMAIN Data} \cup
  {<<Surroundings("avar", "decoy"), Surroundings("module", "decoy2")>>,
   <<[names |-> [m \in {} |-> None], class |-> None]>>}
=============================================================================
