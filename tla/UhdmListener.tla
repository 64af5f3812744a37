---------------------------- MODULE UhdmListener ----------------------------
(***************************************************************************)
(* The traversal of templates/UhdmListener.cpp and the code                *)
(* scripts/UhdmListener.py generates: one step of the recursion per        *)
(* action, over any graph of objects, cycles through vpiParent and between *)
(* objects included.  GarbageCollect trusts it to visit every object that  *)
(* a design can reach; linters and user code trust its callbacks.          *)
(*                                                                         *)
(* An object has the fields 1 .. NumFields, followed in that order: 1 is   *)
(* vpiParent, which listenBaseClass_ follows first, the others are the     *)
(* references of its class, an element of a vector being a field.          *)
(***************************************************************************)
EXTENDS Naturals, Sequences, FiniteSets, Reachability

CONSTANTS
  Object,     \* the live objects of a Serializer
  Null,       \* nullptr
  NumFields   \* references per object

ASSUME ObjectAssumption == IsFiniteSet(Object)
ASSUME NullAssumption == Null \notin Object
ASSUME FieldAssumption == NumFields \in Nat

Field == 1 .. NumFields

VARIABLES
  field,      \* field[o][k]: what field k of o points at; never changes
  designs,    \* designMaker.objects_; never changes
  toListen,   \* the designs listenDesign has not been called on yet
  callstack,  \* the activations of listenX, the innermost last
  visited,
  entered,    \* history: calls of enterX and
  left,       \*          leaveX for an object,
  enteredAny, \*          of enterAny and
  leftAny     \*          leaveAny

vars == <<field, designs, toListen, callstack, visited,
          entered, left, enteredAny, leftAny>>
callbacks == <<entered, left, enteredAny, leftAny>>

\* An activation: the object, the next field to follow, and whether listenAny
\* will call leaveAny after it.
Frame == [object : Object, next : 1 .. NumFields + 1, any : BOOLEAN]

Graph == [o \in Object |-> {field[o][k] : k \in Field} \ {Null}]

Count(c, o) == [c EXCEPT ![o] = @ + 1]

\* Mutant of Below: the wrong end of the callstack is popped.
BelowFirst == SubSeq(callstack, 2, Len(callstack))

Top == callstack[Len(callstack)]
Below == SubSeq(callstack, 1, Len(callstack) - 1)

-----------------------------------------------------------------------------
Init ==
  /\ field \in [Object -> [Field -> Object \cup {Null}]]
  /\ designs \in SUBSET Object
  /\ toListen = designs
  /\ callstack = <<>>
  /\ visited = {}
  /\ entered = [o \in Object |-> 0]
  /\ left = [o \in Object |-> 0]
  /\ enteredAny = [o \in Object |-> 0]
  /\ leftAny = [o \in Object |-> 0]

\* Mutants of FirstField: a first visit does not follow vpiParent; a revisit
\* follows the fields again; a revisit misses its end.
FirstFieldSkipsParent(o) == IF o \in visited THEN NumFields + 1 ELSE 2
FirstFieldAlways(o) == 1
FirstFieldPastEnd(o) == IF o \in visited THEN NumFields + 2 ELSE 1

\* The fields an activation for o will follow: all on the first visit, none
\* after that.
FirstField(o) == IF o \in visited THEN NumFields + 1 ELSE 1

\* Mutant of Listen: enterX is called on first visits only.
ListenOnce(o, stack, any) ==
  /\ callstack' = Append(stack, [object |-> o, next |-> FirstField(o), any |-> any])
  /\ visited' = visited \cup {o}
  /\ entered' = IF o \in visited THEN entered ELSE Count(entered, o)
  /\ enteredAny' = IF any THEN Count(enteredAny, o) ELSE enteredAny
  /\ UNCHANGED <<field, designs, left, leftAny>>

\* listenX(o) up to its first field, on top of the activations in stack.
\* Every visit calls enterX; only a first one marks o and follows its fields.
Listen(o, stack, any) ==
  /\ callstack' = Append(stack, [object |-> o, next |-> FirstField(o), any |-> any])
  /\ visited' = visited \cup {o}
  /\ entered' = Count(entered, o)
  /\ enteredAny' = IF any THEN Count(enteredAny, o) ELSE enteredAny
  /\ UNCHANGED <<field, designs, left, leftAny>>

\* GarbageCollect calls listenDesign, which does not go through listenAny.
ListenDesign(d) ==
  /\ callstack = <<>>
  /\ d \in toListen
  /\ toListen' = toListen \ {d}
  /\ Listen(d, <<>>, FALSE)

\* listenAny on the next field.  It calls enterAny unless the object has been
\* visited.
Advanced == Append(Below, [Top EXCEPT !.next = @ + 1])

\* Mutant of Follow: enterAny is called on revisits too.
FollowAny ==
  /\ callstack # <<>>
  /\ Top.next \in Field
  /\ field[Top.object][Top.next] # Null
  /\ Listen(field[Top.object][Top.next], Advanced, TRUE)
  /\ UNCHANGED toListen

Follow ==
  /\ callstack # <<>>
  /\ Top.next \in Field
  /\ LET o == field[Top.object][Top.next] IN
     /\ o # Null
     /\ Listen(o, Advanced, o \notin visited)
  /\ UNCHANGED toListen

\* The next field is nullptr.
SkipNull ==
  /\ callstack # <<>>
  /\ Top.next \in Field
  /\ field[Top.object][Top.next] = Null
  /\ callstack' = Advanced
  /\ UNCHANGED <<field, designs, toListen, visited, callbacks>>

\* The end of listenX, and of the listenAny that called it.
Leave ==
  /\ callstack # <<>>
  /\ Top.next = NumFields + 1
  /\ callstack' = Below
  /\ left' = Count(left, Top.object)
  /\ leftAny' = IF Top.any THEN Count(leftAny, Top.object) ELSE leftAny
  /\ UNCHANGED <<field, designs, toListen, visited, entered, enteredAny>>

Next == (\E d \in Object : ListenDesign(d)) \/ Follow \/ SkipNull \/ Leave

Spec == Init /\ [][Next]_vars

\* The traversal is a single thread that does nothing else until it returns.
FairSpec == Spec /\ WF_vars(Next)

Finished == toListen = {} /\ callstack = <<>>

\* didVisitAll: the allocated objects are the visited ones.
DidVisitAll == Object \subseteq visited

-----------------------------------------------------------------------------
(***************************************************************************)
(* Properties.                                                             *)
(***************************************************************************)
TypeOK ==
  /\ field \in [Object -> [Field -> Object \cup {Null}]]
  /\ designs \subseteq Object
  /\ toListen \subseteq designs
  /\ callstack \in Seq(Frame)
  /\ visited \subseteq Object
  /\ \A c \in {entered, left, enteredAny, leftAny} : c \in [Object -> Nat]

\* When the traversal returns it has visited what the designs reach, no more
\* and no less, however the references loop: a collection that erases the rest
\* neither leaves a dangling pointer in what it keeps nor keeps garbage; and
\* didVisitAll answers whether there is any.
VisitsTheReachable ==
  Finished => /\ visited = Reached(Graph, designs)
              /\ DidVisitAll <=> Reached(Graph, designs) = Object

\* The recursion is no deeper than the objects are many, plus one for a
\* revisit: only the innermost activation can be for an object that another
\* activation is for.
BoundedRecursion ==
  /\ \A i, j \in 1 .. Len(callstack) - 1 :
       callstack[i].object = callstack[j].object => i = j
  /\ Len(callstack) <= Cardinality(Object) + 1

\* The callstack that listeners inspect (isOnCallstack) is a chain of
\* references from a design.
CallstackIsPath ==
  \A i \in 1 .. Len(callstack) :
    IF i = 1 THEN callstack[i].object \in designs
    ELSE callstack[i].object \in Graph[callstack[i - 1].object]

\* Listeners hear of every reference in the visited part once, a revisit like
\* a visit, and of every design once more; they hear the end of each.
ReportsEveryReference ==
  Finished =>
    \A o \in Object :
      /\ entered[o] = Cardinality({r \in visited \X Field : field[r[1]][r[2]] = o})
                        + Cardinality(designs \cap {o})
      /\ left[o] = entered[o]

\* enterAny is called at most once for an object, and leaveAny as often: in
\* the end once for each visited one, except that a design may be left out,
\* since listenDesign does not call it.
AnyOncePerObject ==
  \A o \in Object :
    /\ leftAny[o] <= enteredAny[o]
    /\ enteredAny[o] <= Cardinality(visited \cap {o})
    /\ Finished => leftAny[o] = enteredAny[o]
    /\ Finished /\ o \in visited \ designs => enteredAny[o] = 1

\* The traversal returns, for every graph.
Returns == <>Finished
=============================================================================
