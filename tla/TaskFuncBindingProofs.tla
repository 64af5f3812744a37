------------------------ MODULE TaskFuncBindingProofs ------------------------
(***************************************************************************)
(* Theorems about TaskFuncBinding: its types, that instStack_ follows the  *)
(* walk, what calls are bound to, that they are bound once, and that none  *)
(* that is to be bound is forgotten.                                       *)
(***************************************************************************)
EXTENDS TaskFuncBinding, CommonLemmas, SequenceTheorems, WellFoundedInduction

(***************************************************************************)
(* The first and the last of some positions.                               *)
(***************************************************************************)
\* Some natural numbers have a least one.
LEMMA MinOf ==
  ASSUME NEW S \in SUBSET Nat, S # {}
  PROVE  Min(S) \in S /\ \A j \in S : Min(S) <= j
<1>1. PICK x \in S : \A y \in S : ~ (<<y, x>> \in OpToRel(<, Nat))
  <2>1. IsWellFoundedOn(OpToRel(<, Nat), Nat)
    BY NatLessThanWellFounded
  <2> QED
    BY <2>1, WFMin, Zenon
<1>2. ASSUME NEW y \in S
      PROVE  x <= y
  <2>1. ~ (<<y, x>> \in {ss \in Nat \X Nat : ss[1] < ss[2]})
    BY <1>1 DEF OpToRel
  <2>2. y \in Nat /\ x \in Nat
    OBVIOUS
  <2>3. ~ (y < x)
    BY <2>1, <2>2
  <2> QED
    BY <2>2, <2>3
<1> QED
  BY <1>2 DEF Min

\* Some positions of a sequence have a greatest one.
LEMMA MaxOf ==
  ASSUME NEW n \in Nat, NEW S \in SUBSET (1 .. n), S # {}
  PROVE  Max(S) \in S /\ \A j \in S : j <= Max(S)
<1> DEFINE Rest == {k \in Nat : n - k \in S}
<1>1. Rest \in SUBSET Nat /\ Rest # {}
  <2>1. PICK s \in S : TRUE
    OBVIOUS
  <2>2. n - s \in Nat /\ n - (n - s) = s
    OBVIOUS
  <2> QED
    BY <2>1, <2>2
<1>2. Min(Rest) \in Rest /\ \A j \in Rest : Min(Rest) <= j
  <2> HIDE DEF Rest
  <2> QED
    BY <1>1, MinOf
<1>3. n - Min(Rest) \in S
  BY <1>2
<1>4. ASSUME NEW j \in S
      PROVE  n - Min(Rest) >= j
  <2>1. n - j \in Nat /\ n - (n - j) = j
    OBVIOUS
  <2>2. n - j \in Rest
    BY <2>1
  <2>3. Min(Rest) <= n - j
    BY <1>2, <2>2
  <2>4. Min(Rest) \in Nat
    BY <1>2
  <2> HIDE DEF Rest
  <2> QED
    BY <2>3, <2>4
<1>5. \E x \in S : \A y \in S : x >= y
  BY <1>3, <1>4
<1>6. Max(S) \in S /\ \A y \in S : Max(S) >= y
  <2> HIDE DEF Rest
  <2> QED
    BY <1>5 DEF Max
<1> QED
  <2> HIDE DEF Rest
  <2>1. S \subseteq Nat
    OBVIOUS
  <2> QED
    BY <1>6, <2>1

(***************************************************************************)
(* Tables of functions.                                                    *)
(***************************************************************************)
Tables == UNION {[N -> Func] : N \in SUBSET Name}

\* A table made from a vector knows the names in it, each with a function of
\* that name that is in the vector.
LEMMA FuncMapOf ==
  ASSUME NEW fs \in Seq(Func)
  PROVE  /\ Named(fs) \subseteq Name
         /\ DOMAIN FuncMap(fs) = Named(fs) /\ DOMAIN LatestFuncMap(fs) = Named(fs)
         /\ \A n \in Named(fs) :
              /\ \E i \in DOMAIN fs : FuncMap(fs)[n] = fs[i] /\ fs[i].name = n
              /\ \E i \in DOMAIN fs : LatestFuncMap(fs)[n] = fs[i] /\ fs[i].name = n
<1>1. DOMAIN fs = 1 .. Len(fs) /\ Len(fs) \in Nat /\ \A i \in DOMAIN fs : fs[i] \in Func
  OBVIOUS
<1>2. Named(fs) \subseteq Name
  BY <1>1 DEF Named, Func
<1>3. ASSUME NEW n \in Named(fs)
      PROVE  /\ \E i \in DOMAIN fs : FuncMap(fs)[n] = fs[i] /\ fs[i].name = n
             /\ \E i \in DOMAIN fs : LatestFuncMap(fs)[n] = fs[i] /\ fs[i].name = n
  <2>1. Places(fs, n) \in SUBSET (1 .. Len(fs)) /\ Places(fs, n) # {}
    BY <1>1, <1>3 DEF Named, Places
  <2>2. Places(fs, n) \in SUBSET Nat
    BY <2>1
  <2>3. Min(Places(fs, n)) \in Places(fs, n)
    BY <2>1, <2>2, MinOf
  <2>4. Max(Places(fs, n)) \in Places(fs, n)
    BY <1>1, <2>1, MaxOf
  <2>5. FuncMap(fs)[n] = fs[Min(Places(fs, n))] /\ LatestFuncMap(fs)[n] = fs[Max(Places(fs, n))]
    BY <1>3 DEF FuncMap, LatestFuncMap
  <2> QED
    BY <2>3, <2>4, <2>5 DEF Places
<1> QED
  BY <1>2, <1>3 DEF FuncMap, LatestFuncMap

\* Such tables are tables.
LEMMA FuncMapIsTable ==
  ASSUME NEW fs \in Seq(Func)
  PROVE  FuncMap(fs) \in Tables /\ LatestFuncMap(fs) \in Tables
<1>1. \A n \in Named(fs) : FuncMap(fs)[n] \in Func /\ LatestFuncMap(fs)[n] \in Func
  <2>1. \A i \in DOMAIN fs : fs[i] \in Func
    OBVIOUS
  <2> QED
    BY <2>1, FuncMapOf
<1>2. FuncMap(fs) \in [Named(fs) -> Func] /\ LatestFuncMap(fs) \in [Named(fs) -> Func]
  BY <1>1 DEF FuncMap, LatestFuncMap
<1> QED
  BY <1>2, FuncMapOf DEF Tables

-----------------------------------------------------------------------------
(***************************************************************************)
(* The inductive invariant.  Two more parts, LanguageInv and DueInv, are   *)
(* stated further down, where they are needed.                             *)
(***************************************************************************)
Entry == [object : Scope, funcMap : Tables]
Item == Scope \cup {None}

\* The types; the stack goes along with the walk; a vector of functions keeps
\* its length and its scope.
TypeInv ==
  /\ design \in Designs
  /\ walk \in Seq(Scope) /\ todo \in Seq(Seq(Item)) /\ Len(todo) = Len(walk) + 1
  /\ visited \subseteq Scope
  /\ instStack \in Seq(Entry) /\ Len(instStack) = Len(walk)
  /\ \A i \in DOMAIN walk : instStack[i].object = walk[i]
  /\ inHierarchy \in BOOLEAN
  /\ \A i \in DOMAIN walk : design.kind[walk[i]] = "module" => inHierarchy
  /\ taskFuncs \in [Scope -> Seq(Func)]
  /\ \A s \in Scope : /\ Len(taskFuncs[s]) = Len(design.funcs[s])
                      /\ \A i \in DOMAIN taskFuncs[s] : taskFuncs[s][i].scope = s
  /\ kinds \in [design.calls -> CallKind]
  /\ scheduled \in SUBSET [call : design.calls, kind : CallKind]
  /\ bound \in [design.calls -> Func \cup {None}]

\* The walk leads from one scope to another, and so does what is still to be
\* entered from it.
IsPath(p) == \A i, j \in DOMAIN p : i < j => p[j] \in Below(p[i])

PathInv ==
  /\ IsPath(walk)
  /\ \A i \in DOMAIN walk : \A k \in DOMAIN todo[i + 1] : walk[i] \in Comes(todo[i + 1][k])
  /\ \A k \in DOMAIN todo[1] : \E l \in DOMAIN design.tops : todo[1][k] = design.tops[l]

\* What is scheduled has been scheduled by the scopes of the walk, and the tables
\* on the stack hold what these scopes offer.
OffersOwn(stack, p) ==
  \A i \in DOMAIN p : \A n \in DOMAIN stack[i].funcMap : Belongs(stack[i].funcMap[n], p[i])

KinInv ==
  /\ \A sc \in scheduled : \E i \in DOMAIN walk : walk[i] = sc.call.in
  /\ OffersOwn(instStack, walk)
  /\ BindsToKin

\* What the walk comes to once, however it wanders: the modules and packages that
\* are still to be entered.
IsOnce(s) == design.kind[s] \in {"module", "package"}
Down == [s \in Scope |-> {t \in ToSet(design.children[s]) : IsOnce(t)}]
Roots(t) == {s \in UNION {ToSet(t[i]) : i \in DOMAIN t} : s \in Scope /\ IsOnce(s)}
AheadOf(t) == Reached(Down, Roots(t))
Ahead == AheadOf(todo)

Scheduled(c) == \E sc \in scheduled : sc.call = c

\* No module and no package is entered twice; the calls of what is ahead, and of a
\* package until it is left, are neither scheduled nor bound; what is bound is not
\* scheduled any more.
FreshInv ==
  /\ \A i \in DOMAIN walk : walk[i] \notin Ahead
  /\ \A i, j \in DOMAIN walk : walk[i] = walk[j] /\ IsOnce(walk[i]) => i = j
  /\ \A i \in DOMAIN todo : \A k, l \in DOMAIN todo[i] :
       todo[i][k] = todo[i][l] /\ todo[i][k] \in Scope /\ IsOnce(todo[i][k]) => k = l
  /\ \A c \in design.calls :
       design.kind[c.in] # "class" =>
         /\ bound[c] # None \/ Scheduled(c) => c.in \notin Ahead
         /\ ~ (bound[c] # None /\ Scheduled(c))
         /\ design.kind[c.in] = "package" /\ (\E i \in DOMAIN walk : walk[i] = c.in) =>
              bound[c] = None /\ ~ Scheduled(c)

\* What is on the stack, and what calls are bound to, is in the vectors now, and
\* stays there: its scope is behind the walk.
SettledIn(f, funcs, ahead, p) ==
  design.kind[f.scope] # "class" /\ ~ HasClasses(f.scope) =>
    /\ f \in ToSet(funcs[f.scope])
    /\ f.scope \notin ahead
    /\ design.kind[f.scope] = "package" => \A i \in DOMAIN p : p[i] # f.scope

IsSettled(f) == SettledIn(f, taskFuncs, Ahead, walk)

SettledInv ==
  /\ \A i \in DOMAIN instStack : \A n \in DOMAIN instStack[i].funcMap :
       IsSettled(instStack[i].funcMap[n])
  /\ \A c \in design.calls : bound[c] # None => IsSettled(bound[c])

-----------------------------------------------------------------------------
(***************************************************************************)
(* What the parts of a step do.                                            *)
(***************************************************************************)
\* The types of the fields of a design, and its shape.
LEMMA DesignIs ==
  ASSUME design \in Designs
  PROVE  /\ design.tops \in Seq(Item)
         /\ design.around \in [Scope -> Scope \cup {None}]
         /\ design.children \in [Scope -> Seq(Scope)]
         /\ design.kind \in [Scope -> Kind]
         /\ design.bases \in [Scope -> Seq(Scope)]
         /\ design.funcs \in [Scope -> Seq([name : Name, kind : CallKind])]
         /\ design.calls \in SUBSET Call
         /\ IsNested(design) /\ ExtendsClasses(design)
         /\ \A c \in design.calls : c.by <= Len(design.funcs[c.in])
<1>1. design \in DesignType
  BY DesignAssumption
<1>2. /\ design.tops \in Seq(Item)
      /\ design.around \in [Scope -> Scope \cup {None}]
      /\ design.children \in [Scope -> Seq(Scope)]
      /\ design.kind \in [Scope -> Kind]
  BY <1>1 DEF DesignType, Item
<1>3. /\ design.bases \in [Scope -> Seq(Scope)]
      /\ design.funcs \in [Scope -> Seq([name : Name, kind : CallKind])]
      /\ design.calls \in SUBSET Call
  BY <1>1 DEF DesignType
<1> QED
  BY <1>2, <1>3, DesignAssumption

\* The clones of the functions of a scope are functions of that scope.
LEMMA ClonesAre ==
  ASSUME TypeInv, NEW s \in Scope
  PROVE  /\ ClonesOf(s) \in Seq(Func)
         /\ Len(ClonesOf(s)) = Len(taskFuncs[s])
         /\ \A i \in DOMAIN ClonesOf(s) : ClonesOf(s)[i].scope = s
<1>1. /\ taskFuncs[s] \in Seq(Func)
      /\ \A i \in DOMAIN taskFuncs[s] : taskFuncs[s][i].scope = s
  BY DEF TypeInv
<1>2. DOMAIN taskFuncs[s] = 1 .. Len(taskFuncs[s]) /\ Len(taskFuncs[s]) \in Nat
  BY <1>1
<1>3. ASSUME NEW i \in DOMAIN taskFuncs[s]
      PROVE  /\ [taskFuncs[s][i] EXCEPT !.generation = @ + 1] \in Func
             /\ [taskFuncs[s][i] EXCEPT !.generation = @ + 1].scope = s
  <2>1. taskFuncs[s][i] \in Func /\ taskFuncs[s][i].scope = s
    BY <1>1, <1>3
  <2> QED
    BY <2>1 DEF Func
<1>4. ClonesOf(s) \in [1 .. Len(taskFuncs[s]) -> Func]
  BY <1>2, <1>3 DEF ClonesOf
<1>5. ClonesOf(s) \in Seq(Func) /\ Len(ClonesOf(s)) = Len(taskFuncs[s])
  BY <1>2, <1>4
<1> QED
  BY <1>2, <1>3, <1>5 DEF ClonesOf

\* The names that are known when some functions have been cloned stand for clones.
LEMMA ClonedFuncMapIs ==
  ASSUME TypeInv, NEW s \in Scope, NEW i \in 0 .. Len(taskFuncs[s])
  PROVE  /\ ClonedFuncMap(s, i) \in Tables
         /\ \A n \in DOMAIN ClonedFuncMap(s, i) :
              \E j \in DOMAIN ClonesOf(s) : ClonedFuncMap(s, i)[n] = ClonesOf(s)[j]
<1> DEFINE some == SubSeq(ClonesOf(s), 1, i)
<1>1. /\ ClonesOf(s) \in Seq(Func) /\ Len(ClonesOf(s)) = Len(taskFuncs[s])
      /\ DOMAIN ClonesOf(s) = 1 .. Len(taskFuncs[s]) /\ Len(taskFuncs[s]) \in Nat
  BY ClonesAre
<1>2. some \in Seq(Func) /\ Len(some) = i /\ \A j \in 1 .. i : some[j] = ClonesOf(s)[j]
  BY <1>1, SubSeqProperties
<1>3. DOMAIN some = 1 .. i
  BY <1>2
<1> HIDE DEF some
<1>4. ClonedFuncMap(s, i) = LatestFuncMap(some)
  BY DEF ClonedFuncMap, some
<1>5. ASSUME NEW n \in DOMAIN ClonedFuncMap(s, i)
      PROVE  \E j \in DOMAIN ClonesOf(s) : ClonedFuncMap(s, i)[n] = ClonesOf(s)[j]
  <2>1. PICK j \in DOMAIN some : LatestFuncMap(some)[n] = some[j]
    BY <1>2, <1>4, <1>5, FuncMapOf
  <2>2. j \in 1 .. i /\ j \in DOMAIN ClonesOf(s)
    BY <1>1, <1>3
  <2> QED
    BY <1>2, <1>4, <2>1, <2>2
<1> QED
  BY <1>2, <1>4, <1>5, FuncMapIsTable

\* What a class offers are functions of the class or of its base classes.
LEMMA ClassFuncMapIs ==
  ASSUME TypeInv, NEW s \in Scope
  PROVE  /\ ClassFuncMap(s) \in Tables
         /\ \A n \in DOMAIN ClassFuncMap(s) :
              /\ ClassFuncMap(s)[n] \in Func
              /\ \E i \in DOMAIN design.bases[s] :
                   ClassFuncMap(s)[n].scope = design.bases[s][i]
<1> DEFINE bases == design.bases[s]
           offering(n) == {i \in DOMAIN bases : n \in Named(taskFuncs[bases[i]])}
           all == UNION {Named(taskFuncs[bases[i]]) : i \in DOMAIN bases}
<1>1. /\ bases \in Seq(Scope) /\ DOMAIN bases = 1 .. Len(bases)
      /\ \A i \in DOMAIN bases : bases[i] \in Scope
  BY DesignIs DEF TypeInv
<1>2. ASSUME NEW i \in DOMAIN bases
      PROVE  /\ taskFuncs[bases[i]] \in Seq(Func)
             /\ \A j \in DOMAIN taskFuncs[bases[i]] :
                  /\ taskFuncs[bases[i]][j] \in Func
                  /\ taskFuncs[bases[i]][j].scope = bases[i]
             /\ Named(taskFuncs[bases[i]]) \subseteq Name
  <2>1. bases[i] \in Scope
    BY <1>1
  <2>2. /\ taskFuncs[bases[i]] \in Seq(Func)
        /\ \A j \in DOMAIN taskFuncs[bases[i]] : taskFuncs[bases[i]][j].scope = bases[i]
    BY <2>1 DEF TypeInv
  <2> HIDE DEF bases
  <2> QED
    BY <2>2, FuncMapOf
<1>3. ClassFuncMap(s) = [n \in all |-> FuncMap(taskFuncs[bases[Min(offering(n))]])[n]]
  BY DEF ClassFuncMap
<1>4. ASSUME NEW n \in all
      PROVE  /\ n \in Name
             /\ ClassFuncMap(s)[n] \in Func
             /\ \E i \in DOMAIN bases : ClassFuncMap(s)[n].scope = bases[i]
  <2>1. offering(n) \in SUBSET Nat /\ offering(n) # {}
    BY <1>1, <1>4
  <2>2. Min(offering(n)) \in offering(n)
    <3> HIDE DEF offering
    <3> QED
      BY <2>1, MinOf
  <2>3. PICK i \in DOMAIN bases : i = Min(offering(n)) /\ n \in Named(taskFuncs[bases[i]])
    BY <2>2
  <2>4. ClassFuncMap(s)[n] = FuncMap(taskFuncs[bases[i]])[n]
    <3> HIDE DEF all, bases, offering
    <3> QED
      BY <1>3, <1>4, <2>3
  <2> HIDE DEF all, bases, offering
  <2>5. PICK j \in DOMAIN taskFuncs[bases[i]] :
          FuncMap(taskFuncs[bases[i]])[n] = taskFuncs[bases[i]][j]
    BY <1>2, <2>3, FuncMapOf
  <2>6. n \in Name
    BY <1>2, <2>3
  <2> QED
    BY <1>2, <2>4, <2>5, <2>6
<1>5. DOMAIN ClassFuncMap(s) = all /\ all \subseteq Name
  BY <1>3, <1>4
<1>6. ClassFuncMap(s) \in [all -> Func]
  <2> HIDE DEF all, bases, offering
  <2> QED
    BY <1>3, <1>4
<1> QED
  BY <1>4, <1>5, <1>6 DEF Tables

\* A name is looked up in the innermost scope of the stack that knows it, or else
\* in the class of the prefix.
LEMMA LookupFinds ==
  ASSUME TypeInv, NEW stack \in Seq(Entry), NEW n, NEW prefix \in Scope \cup {None}
  PROVE  \/ \E i \in DOMAIN stack :
              /\ n \in DOMAIN stack[i].funcMap
              /\ Lookup(stack, n, prefix) = stack[i].funcMap[n]
              /\ \A j \in DOMAIN stack : n \in DOMAIN stack[j].funcMap => j <= i
         \/ /\ \A i \in DOMAIN stack : n \notin DOMAIN stack[i].funcMap
            /\ \/ Lookup(stack, n, prefix) = None
               \/ /\ prefix \in Scope /\ prefix # None
                  /\ n \in DOMAIN ClassFuncMap(prefix)
                  /\ Lookup(stack, n, prefix) = ClassFuncMap(prefix)[n]
<1> DEFINE known == {i \in DOMAIN stack : n \in DOMAIN stack[i].funcMap}
<1>1. CASE known # {}
  <2>1. known \in SUBSET (1 .. Len(stack)) /\ Len(stack) \in Nat
    OBVIOUS
  <2>2. Max(known) \in known /\ \A j \in known : j <= Max(known)
    <3> HIDE DEF known
    <3> QED
      BY <1>1, <2>1, MaxOf
  <2>3. Lookup(stack, n, prefix) = stack[Max(known)].funcMap[n]
    BY <1>1 DEF Lookup
  <2> QED
    BY <2>2, <2>3
<1>2. CASE known = {}
  <2>1. Lookup(stack, n, prefix) =
          IF prefix # None /\ n \in DOMAIN ClassFuncMap(prefix)
            THEN ClassFuncMap(prefix)[n] ELSE None
    BY <1>2 DEF Lookup
  <2> QED
    BY <1>2, <2>1
<1> QED
  BY <1>1, <1>2

\* It is nothing, or in a scope of the stack, or in that class.
LEMMA LookupIs ==
  ASSUME TypeInv, NEW stack \in Seq(Entry), NEW n, NEW prefix \in Scope \cup {None}
  PROVE  \/ Lookup(stack, n, prefix) = None
         \/ \E i \in DOMAIN stack : /\ n \in DOMAIN stack[i].funcMap
                                    /\ Lookup(stack, n, prefix) = stack[i].funcMap[n]
         \/ /\ prefix \in Scope /\ prefix # None
            /\ n \in DOMAIN ClassFuncMap(prefix)
            /\ Lookup(stack, n, prefix) = ClassFuncMap(prefix)[n]
BY LookupFinds

\* What is found is a function.
LEMMA LookupType ==
  ASSUME TypeInv, NEW stack \in Seq(Entry), NEW n, NEW prefix \in Scope \cup {None}
  PROVE  Lookup(stack, n, prefix) \in Func \cup {None}
<1>1. ASSUME NEW i \in DOMAIN stack, n \in DOMAIN stack[i].funcMap
      PROVE  stack[i].funcMap[n] \in Func
  <2>1. stack[i] \in Entry
    OBVIOUS
  <2>2. PICK N \in SUBSET Name : stack[i].funcMap \in [N -> Func]
    BY <2>1 DEF Entry, Tables
  <2> QED
    BY <1>1, <2>2
<1>2. ASSUME prefix \in Scope, n \in DOMAIN ClassFuncMap(prefix)
      PROVE  ClassFuncMap(prefix)[n] \in Func
  BY <1>2, ClassFuncMapIs
<1> QED
  BY <1>1, <1>2, LookupIs

\* The clone of a call can be scheduled.
LEMMA CloneOfType ==
  ASSUME TypeInv, NEW c \in design.calls, NEW stack \in Seq(Entry)
  PROVE  CloneOf(c, stack) \in [call : design.calls, kind : CallKind]
<1>1. c \in Call
  BY DesignIs DEF TypeInv
<1>2. kinds[c] \in CallKind /\ c.prefix \in Scope \cup {None}
  BY <1>1 DEF Call, TypeInv
<1>3. Lookup(stack, c.name, c.prefix) \in Func \cup {None}
  BY <1>2, LookupType
<1>4. KindNow(c, stack) \in CallKind
  BY <1>2, <1>3 DEF KindNow, Func
<1> QED
  BY <1>4 DEF CloneOf

\* Clones have kinds.
LEMMA KindsAfterType ==
  ASSUME TypeInv, NEW clones \in SUBSET [call : design.calls, kind : CallKind]
  PROVE  KindsAfter(clones) \in [design.calls -> CallKind]
<1>1. ASSUME NEW c \in design.calls
      PROVE  KindsAfter(clones)[c] \in CallKind
  <2>1. kinds[c] \in CallKind
    BY DEF TypeInv
  <2>2. ASSUME NEW x \in clones, x.call = c
        PROVE  (CHOOSE y \in clones : y.call = c).kind \in CallKind
    <3>1. (CHOOSE y \in clones : y.call = c) \in clones
      BY <2>2
    <3> QED
      BY <3>1
  <2> QED
    BY <2>1, <2>2 DEF KindsAfter
<1> QED
  BY <1>1 DEF KindsAfter

\* After some rounds a call is bound to what it was bound to, unless a round has
\* bound it: then to what its name means on the stack of such a round.
LEMMA BoundAfterIs ==
  ASSUME NEW rounds, NEW n \in Nat, DOMAIN rounds \in SUBSET (1 .. n),
         NEW c \in design.calls
  PROVE  \/ /\ \A i \in DOMAIN rounds : ~ BindsIn(rounds[i], c)
            /\ BoundAfter(rounds)[c] = bound[c]
         \/ \E i \in DOMAIN rounds :
              /\ BindsIn(rounds[i], c)
              /\ BoundAfter(rounds)[c] = Lookup(rounds[i].stack, c.name, c.prefix)
<1> DEFINE binding == {i \in DOMAIN rounds : BindsIn(rounds[i], c)}
<1>1. BoundAfter(rounds)[c] = IF binding = {} THEN bound[c]
                              ELSE Lookup(rounds[Max(binding)].stack, c.name, c.prefix)
  BY DEF BoundAfter
<1>2. CASE binding = {}
  BY <1>1, <1>2
<1>3. CASE binding # {}
  <2>1. binding \in SUBSET (1 .. n)
    OBVIOUS
  <2>2. Max(binding) \in binding
    <3> HIDE DEF binding
    <3> QED
      BY <1>3, <2>1, MaxOf
  <2> QED
    BY <1>1, <1>3, <2>2
<1> QED
  BY <1>2, <1>3

\* After some rounds calls are bound to functions or to nothing.
LEMMA BoundAfterType ==
  ASSUME TypeInv, NEW rounds, NEW n \in Nat, DOMAIN rounds \in SUBSET (1 .. n),
         \A i \in DOMAIN rounds : rounds[i].stack \in Seq(Entry)
  PROVE  BoundAfter(rounds) \in [design.calls -> Func \cup {None}]
<1>1. ASSUME NEW c \in design.calls
      PROVE  BoundAfter(rounds)[c] \in Func \cup {None}
  <2>1. bound[c] \in Func \cup {None}
    BY DEF TypeInv
  <2>2. c \in Call
    BY DesignIs DEF TypeInv
  <2>3. c.prefix \in Scope \cup {None}
    BY <2>2 DEF Call
  <2>4. \A i \in DOMAIN rounds :
          Lookup(rounds[i].stack, c.name, c.prefix) \in Func \cup {None}
    BY <2>3, LookupType
  <2> QED
    BY <2>1, <2>4, BoundAfterIs
<1> QED
  BY <1>1 DEF BoundAfter

\* One round, as when an instance or a package is left.
LEMMA OneRound ==
  ASSUME NEW stack, NEW schedule
  PROVE  /\ DOMAIN <<Round(stack, schedule)>> \in SUBSET (1 .. 1)
         /\ \A i \in DOMAIN <<Round(stack, schedule)>> :
              /\ <<Round(stack, schedule)>>[i].stack = stack
              /\ <<Round(stack, schedule)>>[i].schedule = schedule
BY DEF Round

-----------------------------------------------------------------------------
\* Where the walk can step into a scope.
LEMMA CanEnterIs ==
  ASSUME TypeInv, NEW kind, CanEnter(kind)
  PROVE  /\ Here \in Scope /\ design.kind[Here] = kind
         /\ Current \in Seq(Item) /\ Current # <<>> /\ Current = todo[Len(todo)]
         /\ Len(todo) \in Nat /\ Len(walk) \in Nat /\ Len(todo) = Len(walk) + 1
<1>1. /\ todo \in Seq(Seq(Item)) /\ walk \in Seq(Scope) /\ Len(todo) = Len(walk) + 1
  BY DEF TypeInv
<1>2. Len(todo) \in DOMAIN todo /\ Len(todo) \in Nat /\ Len(walk) \in Nat
  BY <1>1
<1>3. Current \in Seq(Item) /\ Current = todo[Len(todo)]
  BY <1>1, <1>2 DEF Current
<1>4. Current # <<>> /\ Here # None /\ design.kind[Here] = kind
  BY DEF CanEnter
<1>5. 1 \in DOMAIN Current
  BY <1>3, <1>4
<1>6. Here \in Scope
  BY <1>3, <1>4, <1>5 DEF Here, Item
<1> QED
  BY <1>1, <1>2, <1>3, <1>4, <1>6

\* Where the walk goes from a scope it enters.
Beyond == IF Here \in visited THEN <<>> ELSE design.children[Here]

\* Where the walk is when it has stepped into a scope.
LEMMA DescendIs ==
  ASSUME TypeInv, NEW kind, CanEnter(kind), Descend
  PROVE  /\ walk' \in Seq(Scope) /\ Len(walk') = Len(walk) + 1
         /\ \A i \in 1 .. Len(walk) : walk'[i] = walk[i]
         /\ walk'[Len(walk) + 1] = Here
         /\ todo' \in Seq(Seq(Item)) /\ Len(todo') = Len(walk) + 2
         /\ \A i \in 1 .. Len(walk) : todo'[i] = todo[i]
         /\ todo'[Len(walk) + 1] = Tail(Current)
         /\ todo'[Len(walk) + 2] = Beyond
         /\ visited' = visited \cup {Here}
<1>1. /\ Here \in Scope /\ Current \in Seq(Item) /\ Current # <<>>
      /\ Len(todo) \in Nat /\ Len(walk) \in Nat /\ Len(todo) = Len(walk) + 1
  BY CanEnterIs
<1>2. walk \in Seq(Scope) /\ todo \in Seq(Seq(Item))
  BY DEF TypeInv
<1>3. walk' = Append(walk, Here)
  BY DEF Descend
<1>4. /\ walk' \in Seq(Scope) /\ Len(walk') = Len(walk) + 1
      /\ \A i \in 1 .. Len(walk) : walk'[i] = walk[i]
      /\ walk'[Len(walk) + 1] = Here
  BY <1>1, <1>2, <1>3, AppendProperties
<1> DEFINE front == Front(todo)
<1>5. /\ front \in Seq(Seq(Item)) /\ Len(front) = Len(walk)
      /\ \A i \in 1 .. Len(walk) : front[i] = todo[i]
  <2>1. \A i \in 1 .. Len(todo) - 1 : todo[i] \in Seq(Item)
    BY <1>1, <1>2
  <2> QED
    BY <1>1, <2>1, SubSeqProperties DEF Front
<1> HIDE DEF front
<1>6. Tail(Current) \in Seq(Item) /\ Beyond \in Seq(Item)
  <2>1. design.children[Here] \in Seq(Scope)
    BY <1>1, DesignIs DEF TypeInv
  <2>2. Tail(Current) \in Seq(Item)
    BY <1>1
  <2>3. design.children[Here] \in Seq(Item)
    BY <2>1 DEF Item
  <2> QED
    BY <2>2, <2>3 DEF Beyond
<1> DEFINE mid == Append(front, Tail(Current))
<1>7. /\ mid \in Seq(Seq(Item)) /\ Len(mid) = Len(walk) + 1
      /\ \A i \in 1 .. Len(walk) : mid[i] = todo[i]
      /\ mid[Len(walk) + 1] = Tail(Current)
  BY <1>1, <1>5, <1>6, AppendProperties
<1> HIDE DEF mid
<1>8. todo' = Append(mid, Beyond) /\ visited' = visited \cup {Here}
  BY DEF Descend, Beyond, mid, front
<1>9. /\ todo' \in Seq(Seq(Item)) /\ Len(todo') = Len(walk) + 2
      /\ \A i \in 1 .. Len(walk) + 1 : todo'[i] = mid[i]
      /\ todo'[Len(walk) + 2] = Beyond
  BY <1>1, <1>6, <1>7, <1>8, AppendProperties
<1>10. /\ \A i \in 1 .. Len(walk) : todo'[i] = todo[i]
       /\ todo'[Len(walk) + 1] = Tail(Current)
  <2>1. \A i \in 1 .. Len(walk) : i \in 1 .. Len(walk) + 1
    BY <1>1
  <2>2. Len(walk) + 1 \in 1 .. Len(walk) + 1
    BY <1>1
  <2> QED
    BY <1>7, <1>9, <2>1, <2>2
<1> QED
  BY <1>4, <1>8, <1>9, <1>10

\* Where the walk is when a list of the design has ended.
LEMMA EndListIs ==
  ASSUME TypeInv, EndList
  PROVE  /\ todo' \in Seq(Seq(Item)) /\ Len(todo') = Len(todo)
         /\ \A i \in 1 .. Len(walk) : todo'[i] = todo[i]
         /\ todo'[Len(walk) + 1] = Tail(todo[Len(walk) + 1])
         /\ todo[Len(walk) + 1] \in Seq(Item) /\ todo[Len(walk) + 1] # <<>>
         /\ todo[Len(walk) + 1][1] = None
         /\ UNCHANGED <<design, walk, instStack, inHierarchy, taskFuncs, kinds, scheduled, bound>>
         /\ visited' = {}
<1>1. /\ todo \in Seq(Seq(Item)) /\ Len(todo) = Len(walk) + 1 /\ Len(walk) \in Nat
  BY DEF TypeInv
<1>2. PICK n \in Nat : n = Len(walk)
  BY <1>1
<1>3. /\ Current \in Seq(Item) /\ Current = todo[n + 1] /\ Current # <<>> /\ Current[1] = None
  BY <1>1, <1>2 DEF EndList, Current, Here
<1> DEFINE front == Front(todo)
<1>4. front \in Seq(Seq(Item)) /\ Len(front) = n /\ \A i \in 1 .. n : front[i] = todo[i]
  <2>1. \A i \in 1 .. n : todo[i] \in Seq(Item)
    BY <1>1, <1>2
  <2> QED
    BY <1>1, <1>2, <2>1, SubSeqProperties DEF Front
<1>5. todo' = Append(front, Tail(Current))
  BY DEF EndList
<1> HIDE DEF front
<1>6. Tail(Current) \in Seq(Item)
  BY <1>3
<1>7. /\ todo' \in Seq(Seq(Item)) /\ Len(todo') = n + 1
      /\ \A i \in 1 .. n : todo'[i] = todo[i]
      /\ todo'[n + 1] = Tail(todo[n + 1])
  BY <1>3, <1>4, <1>5, <1>6, AppendProperties
<1>8. /\ UNCHANGED <<design, walk, instStack, inHierarchy, taskFuncs, kinds, scheduled, bound>>
      /\ visited' = {}
  BY DEF EndList
<1> QED
  BY <1>1, <1>2, <1>3, <1>7, <1>8

\* Pushing a table for the scope that is entered.
LEMMA PushIs ==
  ASSUME TypeInv, Here \in Scope, NEW m \in Tables
  PROVE  /\ Push(m) \in Seq(Entry) /\ Len(Push(m)) = Len(walk) + 1
         /\ \A i \in 1 .. Len(walk) : Push(m)[i] = instStack[i]
         /\ Push(m)[Len(walk) + 1].object = Here /\ Push(m)[Len(walk) + 1].funcMap = m
<1>1. [object |-> Here, funcMap |-> m] \in Entry
  BY DEF Entry
<1>2. instStack \in Seq(Entry) /\ Len(instStack) = Len(walk)
  BY DEF TypeInv
<1> QED
  BY <1>1, <1>2, AppendProperties DEF Push

\* Where the walk steps out of a scope.
LEMMA AscendIs ==
  ASSUME TypeInv, NEW those, CanLeave(those), Ascend
  PROVE  /\ walk # <<>> /\ Len(walk) \in Nat \ {0} /\ Last(walk) = walk[Len(walk)]
         /\ Last(walk) \in Scope /\ design.kind[Last(walk)] \in those
         /\ walk' \in Seq(Scope) /\ Len(walk') = Len(walk) - 1
         /\ \A i \in 1 .. Len(walk) - 1 : walk'[i] = walk[i]
         /\ todo' \in Seq(Seq(Item)) /\ Len(todo') = Len(walk)
         /\ \A i \in 1 .. Len(walk) : todo'[i] = todo[i]
         /\ visited' = visited
<1>1. /\ walk \in Seq(Scope) /\ todo \in Seq(Seq(Item)) /\ Len(todo) = Len(walk) + 1
  BY DEF TypeInv
<1>2. walk # <<>> /\ design.kind[Last(walk)] \in those
  BY DEF CanLeave
<1>3. /\ Len(walk) \in Nat \ {0} /\ Last(walk) = walk[Len(walk)] /\ Last(walk) \in Scope
  BY <1>1, <1>2 DEF Last
<1>4. /\ walk' = SubSeq(walk, 1, Len(walk) - 1) /\ todo' = SubSeq(todo, 1, Len(walk))
      /\ visited' = visited
  BY <1>1, <1>3 DEF Ascend, Front
<1>5. \A i \in 1 .. Len(walk) - 1 : walk[i] \in Scope
  BY <1>1
<1>6. \A i \in 1 .. Len(walk) : todo[i] \in Seq(Item)
  BY <1>1, <1>3
<1>7. /\ walk' \in Seq(Scope) /\ Len(walk') = Len(walk) - 1
      /\ \A i \in 1 .. Len(walk) - 1 : walk'[i] = walk[i]
  <2>1. PICK n \in Nat : n = Len(walk) - 1
    BY <1>3
  <2>2. walk' = SubSeq(walk, 1, n) /\ \A i \in 1 .. n : walk[i] \in Scope
    BY <1>4, <1>5, <2>1
  <2>3. /\ walk' \in Seq(Scope) /\ Len(walk') = n
        /\ \A i \in 1 .. n : walk'[i] = walk[i]
    BY <2>2, SubSeqProperties
  <2> QED
    BY <2>1, <2>3
<1>8. /\ todo' \in Seq(Seq(Item)) /\ Len(todo') = Len(walk)
      /\ \A i \in 1 .. Len(walk) : todo'[i] = todo[i]
  BY <1>3, <1>4, <1>6, SubSeqProperties
<1> QED
  BY <1>2, <1>3, <1>4, <1>7, <1>8

\* Leaving always pops: the top of the stack is the scope that is left, and a
\* module is left in a hierarchy.
LEMMA PopIs ==
  ASSUME TypeInv, walk # <<>>, Pop
  PROVE  /\ instStack' \in Seq(Entry) /\ Len(instStack') = Len(walk) - 1
         /\ \A i \in 1 .. Len(walk) - 1 : instStack'[i] = instStack[i]
         /\ inHierarchy' \in BOOLEAN
         /\ Len(walk) > 1 => inHierarchy' = inHierarchy
<1>1. /\ walk \in Seq(Scope) /\ instStack \in Seq(Entry) /\ Len(instStack) = Len(walk)
      /\ \A i \in DOMAIN walk : instStack[i].object = walk[i]
      /\ inHierarchy \in BOOLEAN
      /\ \A i \in DOMAIN walk : design.kind[walk[i]] = "module" => inHierarchy
  BY DEF TypeInv
<1>2. Len(walk) \in Nat \ {0} /\ Len(walk) \in DOMAIN walk /\ instStack # <<>>
  BY <1>1
<1>3. IsOnTop(Last(walk))
  BY <1>1, <1>2 DEF IsOnTop, Last
<1>4. design.kind[Last(walk)] = "module" => inHierarchy
  BY <1>1, <1>2 DEF Last
<1>5. instStack' = Front(instStack)
  BY <1>3, <1>4 DEF Pop
<1>6. inHierarchy' \in BOOLEAN /\ (Len(walk) > 1 => inHierarchy' = inHierarchy)
  BY <1>1, <1>2, <1>3, <1>4 DEF Pop
<1>7. \A i \in 1 .. Len(walk) - 1 : instStack[i] \in Entry
  BY <1>1
<1>8. /\ instStack' \in Seq(Entry) /\ Len(instStack') = Len(walk) - 1
      /\ \A i \in 1 .. Len(walk) - 1 : instStack'[i] = instStack[i]
  BY <1>1, <1>2, <1>5, <1>7, SubSeqProperties DEF Front
<1> QED
  BY <1>6, <1>8

-----------------------------------------------------------------------------
(***************************************************************************)
(* The parts of EnterModule and LeavePackage, by name.                     *)
(***************************************************************************)
SchedulingType == [call : design.calls, kind : CallKind]

Members == design.children[Here]
Classes == {i \in DOMAIN Members : design.kind[Members[i]] = "class"}
Original == Push(FuncMap(taskFuncs[Here]))
Within(k) == Append(Original, [object |-> k, funcMap |-> ClassFuncMap(k)])
Own == {CloneOf(c, Original) : c \in {d \in CallsOf(Here) : d.by = 0}}
Early == scheduled \cup Own
InClass(i) == {CloneOf(c, Within(Members[i])) : c \in CallsOf(Members[i])}
Pending(i) == (IF \A j \in Classes : i <= j THEN Early ELSE {}) \cup InClass(i)
Rounds == [i \in Classes |-> Round(Within(Members[i]), Pending(i))]
Cloned == Push(ClonedFuncMap(Here, Len(taskFuncs[Here])))
Late == {CloneOf(c, Cloned) : c \in {d \in CallsOf(Here) : d.by > 0}}

KnownAfter(i) ==
  Append(Front(instStack), [object |-> Last(walk), funcMap |-> ClonedFuncMap(Last(walk), i)])
AllKnown == KnownAfter(Len(taskFuncs[Last(walk)]))
PackageClones ==
  {CloneOf(c, KnownAfter(c.by - 1)) : c \in {d \in CallsOf(Last(walk)) : d.by > 0}}
PackageSchedule == scheduled \cup PackageClones

\* EnterModule and LeavePackage in terms of these.
LEMMA EnterModuleIs ==
  ASSUME EnterModule
  PROVE  /\ bound' = BoundAfter(Rounds)
         /\ instStack' = Cloned
         /\ scheduled' = (IF Classes = {} THEN Early ELSE {}) \cup Late
         /\ kinds' = KindsAfter(Own \cup Late \cup UNION {InClass(i) : i \in Classes})
         /\ taskFuncs' = [s \in Scope |->
              IF s = Here \/ \E i \in Classes : s = Members[i] THEN ClonesOf(s)
                                                               ELSE taskFuncs[s]]
BY DEF EnterModule, Rounds, Pending, InClass, Own, Early, Late, Within, Original, Classes, Members, Cloned

\* What LeavePackage does in terms of these.
LEMMA LeavePackageIs ==
  ASSUME LeavePackage
  PROVE  /\ bound' = BoundAfter(<<Round(AllKnown, PackageSchedule)>>)
         /\ taskFuncs' = [taskFuncs EXCEPT ![Last(walk)] = ClonesOf(Last(walk))]
         /\ scheduled' = {}
         /\ kinds' = KindsAfter(PackageClones)
BY DEF LeavePackage, AllKnown, KnownAfter, PackageClones, PackageSchedule

\* The stacks and schedules of the rounds in which a module binds early.
LEMMA RoundsAre ==
  ASSUME TypeInv, CanEnter("module")
  PROVE  /\ Members \in Seq(Scope)
         /\ DOMAIN Rounds = Classes /\ Classes \in SUBSET (1 .. Len(Members))
         /\ Original \in Seq(Entry)
         /\ \A i \in Classes :
              /\ Members[i] \in Scope /\ design.kind[Members[i]] = "class"
              /\ Rounds[i].stack = Within(Members[i]) /\ Rounds[i].schedule = Pending(i)
              /\ Within(Members[i]) \in Seq(Entry)
<1>1. Here \in Scope
  BY CanEnterIs
<1>2. Members \in Seq(Scope)
  BY <1>1, DesignIs DEF TypeInv, Members
<1>3. Classes \in SUBSET (1 .. Len(Members)) /\ DOMAIN Rounds = Classes
  BY <1>2 DEF Classes, Rounds
<1>4. Original \in Seq(Entry)
  <2>1. taskFuncs[Here] \in Seq(Func)
    BY <1>1 DEF TypeInv
  <2> QED
    BY <1>1, <2>1, FuncMapIsTable, PushIs DEF Original
<1>5. ASSUME NEW i \in Classes
      PROVE  /\ Members[i] \in Scope /\ design.kind[Members[i]] = "class"
             /\ Rounds[i].stack = Within(Members[i]) /\ Rounds[i].schedule = Pending(i)
             /\ Within(Members[i]) \in Seq(Entry)
  <2>1. Members[i] \in Scope /\ design.kind[Members[i]] = "class"
    BY <1>2 DEF Classes
  <2>2. Rounds[i].stack = Within(Members[i]) /\ Rounds[i].schedule = Pending(i)
    BY DEF Rounds, Round
  <2>3. [object |-> Members[i], funcMap |-> ClassFuncMap(Members[i])] \in Entry
    BY <2>1, ClassFuncMapIs DEF Entry
  <2> QED
    BY <1>4, <2>1, <2>2, <2>3, AppendProperties DEF Within
<1> QED
  BY <1>2, <1>3, <1>4, <1>5

\* The stack on which a module with cloned functions stands.
LEMMA ClonedIs ==
  ASSUME TypeInv, CanEnter("module")
  PROVE  /\ ClonedFuncMap(Here, Len(taskFuncs[Here])) \in Tables
         /\ Cloned \in Seq(Entry)
<1>1. Here \in Scope
  BY CanEnterIs
<1>2. Len(taskFuncs[Here]) \in 0 .. Len(taskFuncs[Here])
  <2>1. taskFuncs[Here] \in Seq(Func)
    BY <1>1 DEF TypeInv
  <2> QED
    BY <2>1
<1> QED
  BY <1>1, <1>2, ClonedFuncMapIs, PushIs DEF Cloned

\* The stacks while the functions of a package are cloned.
LEMMA KnownIs ==
  ASSUME TypeInv, walk # <<>>, NEW i \in 0 .. Len(taskFuncs[Last(walk)])
  PROVE  /\ KnownAfter(i) \in Seq(Entry) /\ Len(KnownAfter(i)) = Len(walk)
         /\ \A j \in 1 .. Len(walk) - 1 : KnownAfter(i)[j] = instStack[j]
         /\ KnownAfter(i)[Len(walk)].funcMap = ClonedFuncMap(Last(walk), i)
<1>1. /\ walk \in Seq(Scope) /\ instStack \in Seq(Entry) /\ Len(instStack) = Len(walk)
  BY DEF TypeInv
<1>2. Last(walk) \in Scope /\ Len(walk) \in Nat \ {0}
  BY <1>1 DEF Last
<1> DEFINE entry == [object |-> Last(walk), funcMap |-> ClonedFuncMap(Last(walk), i)]
<1>3. entry \in Entry /\ entry.funcMap = ClonedFuncMap(Last(walk), i)
  BY <1>2, ClonedFuncMapIs DEF Entry
<1> HIDE DEF entry
<1>4. PICK n \in Nat : n = Len(walk) - 1
  <2>1. Len(walk) - 1 \in Nat
    BY <1>2
  <2> QED
    BY <2>1
<1>5. /\ Front(instStack) \in Seq(Entry) /\ Len(Front(instStack)) = n
      /\ \A j \in 1 .. n : Front(instStack)[j] = instStack[j]
  <2>1. Front(instStack) = SubSeq(instStack, 1, n)
    BY <1>1, <1>4 DEF Front
  <2>2. \A j \in 1 .. n : instStack[j] \in Entry
    BY <1>1, <1>4
  <2> QED
    BY <2>1, <2>2, SubSeqProperties
<1>6. KnownAfter(i) = Append(Front(instStack), entry)
  BY DEF KnownAfter, entry
<1>7. /\ KnownAfter(i) \in Seq(Entry) /\ Len(KnownAfter(i)) = n + 1
      /\ \A j \in 1 .. n : KnownAfter(i)[j] = instStack[j]
      /\ KnownAfter(i)[n + 1] = entry
  BY <1>3, <1>5, <1>6, AppendProperties
<1> QED
  BY <1>2, <1>3, <1>4, <1>7

-----------------------------------------------------------------------------
(***************************************************************************)
(* The types, and the stack that follows the walk.                         *)
(***************************************************************************)
\* The types of the walk and of the stack, which are of the same length.
LEMMA WalkIs ==
  ASSUME TypeInv
  PROVE  /\ walk \in Seq(Scope) /\ Len(walk) \in Nat /\ DOMAIN walk = 1 .. Len(walk)
         /\ DOMAIN instStack = 1 .. Len(walk)
         /\ \A i \in 1 .. Len(walk) : instStack[i].object = walk[i] /\ walk[i] \in Scope
         /\ \A i \in 1 .. Len(walk) : design.kind[walk[i]] = "module" => inHierarchy
<1>1. /\ walk \in Seq(Scope) /\ instStack \in Seq(Entry) /\ Len(instStack) = Len(walk)
      /\ \A i \in DOMAIN walk : instStack[i].object = walk[i]
      /\ \A i \in DOMAIN walk : design.kind[walk[i]] = "module" => inHierarchy
  BY DEF TypeInv
<1>2. /\ DOMAIN walk = 1 .. Len(walk) /\ Len(walk) \in Nat
      /\ \A i \in 1 .. Len(walk) : walk[i] \in Scope
  BY <1>1
<1>3. DOMAIN instStack = 1 .. Len(walk)
  BY <1>1
<1> QED
  BY <1>1, <1>2, <1>3

\* Entering keeps stack and walk together.
LEMMA EnterStack ==
  ASSUME TypeInv, NEW kind, CanEnter(kind), Descend, design' = design,
         NEW m \in Tables, instStack' = Push(m),
         \/ inHierarchy' = TRUE
         \/ kind # "module" /\ inHierarchy' = inHierarchy
  PROVE  /\ walk' \in Seq(Scope) /\ todo' \in Seq(Seq(Item)) /\ Len(todo') = Len(walk') + 1
         /\ visited' \subseteq Scope
         /\ instStack' \in Seq(Entry) /\ Len(instStack') = Len(walk')
         /\ \A i \in DOMAIN walk' : instStack'[i].object = walk'[i]
         /\ inHierarchy' \in BOOLEAN
         /\ \A i \in DOMAIN walk' : design'.kind[walk'[i]] = "module" => inHierarchy'
<1>1. Here \in Scope /\ design.kind[Here] = kind /\ Len(walk) \in Nat
  BY CanEnterIs
<1>2. /\ walk' \in Seq(Scope) /\ Len(walk') = Len(walk) + 1
      /\ \A i \in 1 .. Len(walk) : walk'[i] = walk[i]
      /\ walk'[Len(walk) + 1] = Here
      /\ todo' \in Seq(Seq(Item)) /\ Len(todo') = Len(walk) + 2
      /\ visited' \subseteq Scope
  <2>1. visited \subseteq Scope
    BY DEF TypeInv
  <2> QED
    BY <1>1, <2>1, DescendIs
<1>3. /\ instStack' \in Seq(Entry) /\ Len(instStack') = Len(walk) + 1
      /\ \A i \in 1 .. Len(walk) : instStack'[i] = instStack[i]
      /\ instStack'[Len(walk) + 1].object = Here
  BY <1>1, PushIs
<1>4. /\ \A i \in 1 .. Len(walk) : instStack[i].object = walk[i]
      /\ \A i \in 1 .. Len(walk) : design.kind[walk[i]] = "module" => inHierarchy
      /\ inHierarchy \in BOOLEAN
  <2>1. inHierarchy \in BOOLEAN
    BY DEF TypeInv
  <2> QED
    BY <2>1, WalkIs
<1>5. DOMAIN walk' = 1 .. Len(walk) + 1
  BY <1>2
<1>6. ASSUME NEW i \in DOMAIN walk'
      PROVE  /\ instStack'[i].object = walk'[i]
             /\ design'.kind[walk'[i]] = "module" => inHierarchy'
  <2>1. CASE i \in 1 .. Len(walk)
    BY <1>2, <1>3, <1>4, <2>1
  <2>2. CASE i = Len(walk) + 1
    BY <1>1, <1>2, <1>3, <2>2
  <2> QED
    BY <1>1, <1>5, <2>1, <2>2
<1>7. inHierarchy' \in BOOLEAN
  BY <1>4
<1> QED
  BY <1>1, <1>2, <1>3, <1>6, <1>7

\* So does leaving.
LEMMA LeaveStack ==
  ASSUME TypeInv, NEW those, CanLeave(those), Ascend, Pop, design' = design
  PROVE  /\ walk' \in Seq(Scope) /\ todo' \in Seq(Seq(Item)) /\ Len(todo') = Len(walk') + 1
         /\ visited' \subseteq Scope
         /\ instStack' \in Seq(Entry) /\ Len(instStack') = Len(walk')
         /\ \A i \in DOMAIN walk' : instStack'[i].object = walk'[i]
         /\ inHierarchy' \in BOOLEAN
         /\ \A i \in DOMAIN walk' : design'.kind[walk'[i]] = "module" => inHierarchy'
<1>1. /\ walk # <<>> /\ Len(walk) \in Nat \ {0}
      /\ walk' \in Seq(Scope) /\ Len(walk') = Len(walk) - 1
      /\ \A i \in 1 .. Len(walk) - 1 : walk'[i] = walk[i]
      /\ todo' \in Seq(Seq(Item)) /\ Len(todo') = Len(walk)
      /\ visited' \subseteq Scope
  <2>1. visited \subseteq Scope
    BY DEF TypeInv
  <2> QED
    BY <2>1, AscendIs
<1>2. /\ instStack' \in Seq(Entry) /\ Len(instStack') = Len(walk) - 1
      /\ \A i \in 1 .. Len(walk) - 1 : instStack'[i] = instStack[i]
      /\ inHierarchy' \in BOOLEAN
      /\ Len(walk) > 1 => inHierarchy' = inHierarchy
  BY <1>1, PopIs
<1>3. /\ \A i \in 1 .. Len(walk) : instStack[i].object = walk[i]
      /\ \A i \in 1 .. Len(walk) : design.kind[walk[i]] = "module" => inHierarchy
  BY WalkIs
<1>4. ASSUME NEW i \in DOMAIN walk'
      PROVE  /\ instStack'[i].object = walk'[i]
             /\ design'.kind[walk'[i]] = "module" => inHierarchy'
  <2>1. i \in 1 .. Len(walk) - 1 /\ i \in 1 .. Len(walk) /\ Len(walk) > 1
    BY <1>1
  <2>2. walk'[i] = walk[i] /\ instStack'[i] = instStack[i] /\ inHierarchy' = inHierarchy
    BY <1>1, <1>2, <2>1
  <2> QED
    BY <1>3, <2>1, <2>2
<1> QED
  BY <1>1, <1>2, <1>4

\* A vector that is cloned keeps its length and its scope.
LEMMA FuncsStep ==
  ASSUME TypeInv, design' = design, taskFuncs' = [s \in Scope |-> taskFuncs'[s]],
         \A s \in Scope : taskFuncs'[s] = taskFuncs[s] \/ taskFuncs'[s] = ClonesOf(s)
  PROVE  /\ taskFuncs' \in [Scope -> Seq(Func)]
         /\ \A s \in Scope : /\ Len(taskFuncs'[s]) = Len(design'.funcs[s])
                             /\ \A i \in DOMAIN taskFuncs'[s] : taskFuncs'[s][i].scope = s
<1>1. ASSUME NEW s \in Scope
      PROVE  /\ taskFuncs'[s] \in Seq(Func)
             /\ Len(taskFuncs'[s]) = Len(design.funcs[s])
             /\ \A i \in DOMAIN taskFuncs'[s] : taskFuncs'[s][i].scope = s
  <2>1. /\ taskFuncs[s] \in Seq(Func)
        /\ Len(taskFuncs[s]) = Len(design.funcs[s])
        /\ \A i \in DOMAIN taskFuncs[s] : taskFuncs[s][i].scope = s
    BY DEF TypeInv
  <2>2. /\ ClonesOf(s) \in Seq(Func) /\ Len(ClonesOf(s)) = Len(taskFuncs[s])
        /\ \A i \in DOMAIN ClonesOf(s) : ClonesOf(s)[i].scope = s
    BY ClonesAre
  <2>3. CASE taskFuncs'[s] = taskFuncs[s]
    BY <2>1, <2>3
  <2>4. CASE taskFuncs'[s] = ClonesOf(s)
    BY <2>1, <2>2, <2>4
  <2> QED
    BY <2>3, <2>4
<1>2. taskFuncs' \in [Scope -> Seq(Func)]
  BY <1>1
<1> QED
  BY <1>1, <1>2

\* The parts of the invariant that every step keeps in its own way, put together.
LEMMA TypeParts ==
  ASSUME TypeInv, design' = design,
         walk' \in Seq(Scope), todo' \in Seq(Seq(Item)), Len(todo') = Len(walk') + 1,
         visited' \subseteq Scope,
         instStack' \in Seq(Entry), Len(instStack') = Len(walk'),
         \A i \in DOMAIN walk' : instStack'[i].object = walk'[i],
         inHierarchy' \in BOOLEAN,
         \A i \in DOMAIN walk' : design'.kind[walk'[i]] = "module" => inHierarchy',
         taskFuncs' = [s \in Scope |-> taskFuncs'[s]],
         \A s \in Scope : taskFuncs'[s] = taskFuncs[s] \/ taskFuncs'[s] = ClonesOf(s),
         kinds' \in [design.calls -> CallKind],
         scheduled' \in SUBSET SchedulingType,
         bound' \in [design.calls -> Func \cup {None}]
  PROVE  TypeInv'
<1>1. design' \in Designs
  BY DEF TypeInv
<1>2. /\ taskFuncs' \in [Scope -> Seq(Func)]
      /\ \A s \in Scope : /\ Len(taskFuncs'[s]) = Len(design'.funcs[s])
                          /\ \A i \in DOMAIN taskFuncs'[s] : taskFuncs'[s][i].scope = s
  BY FuncsStep
<1>3. /\ scheduled' \in SUBSET [call : design'.calls, kind : CallKind]
      /\ kinds' \in [design'.calls -> CallKind]
      /\ bound' \in [design'.calls -> Func \cup {None}]
  BY DEF SchedulingType
<1> QED
  BY <1>1, <1>2, <1>3 DEF TypeInv

\* The types hold at the start.
LEMMA TypeInit == Init => TypeInv
<1> SUFFICES ASSUME Init PROVE TypeInv
  OBVIOUS
<1>1. /\ design \in Designs /\ walk = <<>> /\ todo = <<design.tops>> /\ visited = {}
      /\ instStack = <<>> /\ inHierarchy = FALSE /\ scheduled = {}
      /\ kinds = [c \in design.calls |-> c.kind]
      /\ bound = [c \in design.calls |-> None]
  BY DEF Init
<1>2. design.tops \in Seq(Item)
  BY <1>1, DesignIs
<1>3. /\ walk \in Seq(Scope) /\ todo \in Seq(Seq(Item)) /\ Len(todo) = Len(walk) + 1
      /\ instStack \in Seq(Entry) /\ Len(instStack) = Len(walk) /\ DOMAIN walk = {}
  BY <1>1, <1>2
<1>4. ASSUME NEW s \in Scope
      PROVE  /\ taskFuncs[s] \in Seq(Func) /\ Len(taskFuncs[s]) = Len(design.funcs[s])
             /\ \A i \in DOMAIN taskFuncs[s] : taskFuncs[s][i].scope = s
  <2> DEFINE Sig == [name : Name, kind : CallKind]
             fs == design.funcs[s]
  <2>0. fs \in Seq(Sig)
    BY <1>1, DesignIs
  <2>1. /\ DOMAIN fs = 1 .. Len(fs) /\ Len(fs) \in Nat
        /\ \A i \in DOMAIN fs : fs[i] \in Sig
    <3> HIDE DEF Sig, fs
    <3> QED
      BY <2>0
  <2>2. taskFuncs[s] = [i \in DOMAIN design.funcs[s] |->
           [scope |-> s, name |-> design.funcs[s][i].name,
            kind |-> design.funcs[s][i].kind, generation |-> 0]]
    BY DEF Init
  <2>3. ASSUME NEW i \in DOMAIN design.funcs[s]
        PROVE  taskFuncs[s][i] \in Func /\ taskFuncs[s][i].scope = s
    <3>1. design.funcs[s][i] \in [name : Name, kind : CallKind]
      BY <2>1, <2>3
    <3> HIDE DEF Sig, fs
    <3> QED
      BY <2>2, <3>1 DEF Func
  <2>4. taskFuncs[s] \in [1 .. Len(design.funcs[s]) -> Func]
    BY <2>1, <2>2, <2>3
  <2> QED
    BY <2>1, <2>3, <2>4
<1>5. taskFuncs \in [Scope -> Seq(Func)]
  BY <1>4 DEF Init
<1>6. /\ scheduled \in SUBSET [call : design.calls, kind : CallKind]
      /\ bound \in [design.calls -> Func \cup {None}] /\ inHierarchy \in BOOLEAN
  BY <1>1
<1>7. kinds \in [design.calls -> CallKind]
  <2>1. \A c \in design.calls : c.kind \in CallKind
    BY <1>1, DesignIs DEF Call
  <2> QED
    BY <1>1, <2>1
<1> QED
  BY <1>1, <1>3, <1>4, <1>5, <1>6, <1>7 DEF TypeInv

\* Nothing happens to the functions, to what is scheduled and to what is bound.
LEMMA TypeKept ==
  ASSUME TypeInv, UNCHANGED <<taskFuncs, kinds, scheduled, bound>>
  PROVE  /\ taskFuncs' = [s \in Scope |-> taskFuncs'[s]]
         /\ \A s \in Scope : taskFuncs'[s] = taskFuncs[s]
         /\ kinds' \in [design.calls -> CallKind]
         /\ scheduled' \in SUBSET SchedulingType
         /\ bound' \in [design.calls -> Func \cup {None}]
<1>1. /\ taskFuncs \in [Scope -> Seq(Func)] /\ bound \in [design.calls -> Func \cup {None}]
      /\ scheduled \in SUBSET SchedulingType /\ kinds \in [design.calls -> CallKind]
  BY DEF TypeInv, SchedulingType
<1> QED
  BY <1>1

\* They hold after entering a module whose definition is known.
LEMMA TypeEnterModule ==
  ASSUME TypeInv, EnterModule PROVE TypeInv'
<1>1. /\ CanEnter("module") /\ Descend /\ inHierarchy' = TRUE /\ design' = design
  BY DEF EnterModule
<1>2. /\ bound' = BoundAfter(Rounds)
      /\ instStack' = Cloned
      /\ scheduled' = (IF Classes = {} THEN Early ELSE {}) \cup Late
      /\ kinds' = KindsAfter(Own \cup Late \cup UNION {InClass(i) : i \in Classes})
      /\ taskFuncs' = [s \in Scope |->
           IF s = Here \/ \E i \in Classes : s = Members[i] THEN ClonesOf(s) ELSE taskFuncs[s]]
  BY EnterModuleIs
<1>3. /\ ClonedFuncMap(Here, Len(taskFuncs[Here])) \in Tables
      /\ Cloned \in Seq(Entry)
      /\ instStack' = Push(ClonedFuncMap(Here, Len(taskFuncs[Here])))
  BY <1>1, <1>2, ClonedIs DEF Cloned
<1>4. /\ DOMAIN Rounds \in SUBSET (1 .. Len(Members)) /\ Len(Members) \in Nat
      /\ \A i \in DOMAIN Rounds : Rounds[i].stack \in Seq(Entry)
      /\ Original \in Seq(Entry)
  <2>1. Members \in Seq(Scope)
    BY <1>1, RoundsAre
  <2> QED
    BY <1>1, <2>1, RoundsAre
<1>5. bound' \in [design.calls -> Func \cup {None}]
  BY <1>2, <1>4, BoundAfterType
<1>6. scheduled' \in SUBSET SchedulingType
  <2>1. scheduled \in SUBSET SchedulingType
    BY DEF TypeInv, SchedulingType
  <2>2. CallsOf(Here) \subseteq design.calls
    BY DEF CallsOf
  <2>3. \A c \in CallsOf(Here) : /\ CloneOf(c, Original) \in SchedulingType
                                 /\ CloneOf(c, Cloned) \in SchedulingType
    BY <1>3, <1>4, <2>2, CloneOfType DEF SchedulingType
  <2>4. Early \subseteq SchedulingType /\ Late \subseteq SchedulingType
    BY <2>1, <2>3 DEF Early, Own, Late
  <2> QED
    BY <1>2, <2>4
<1>9. kinds' \in [design.calls -> CallKind]
  <2>1. \A s \in Scope : CallsOf(s) \subseteq design.calls
    BY DEF CallsOf
  <2>2. Here \in Scope
    BY <1>1, CanEnterIs
  <2>3. Own \subseteq SchedulingType /\ Late \subseteq SchedulingType
    BY <1>3, <1>4, <2>1, <2>2, CloneOfType DEF SchedulingType, Own, Late
  <2>4. ASSUME NEW i \in Classes
        PROVE  InClass(i) \subseteq SchedulingType
    <3>1. Members[i] \in Scope /\ Within(Members[i]) \in Seq(Entry)
      BY <1>1, RoundsAre
    <3> QED
      BY <2>1, <3>1, CloneOfType DEF SchedulingType, InClass
  <2> DEFINE all == Own \cup Late \cup UNION {InClass(i) : i \in Classes}
  <2>5. all \in SUBSET [call : design.calls, kind : CallKind]
    BY <2>3, <2>4 DEF SchedulingType
  <2> HIDE DEF all
  <2>6. kinds' = KindsAfter(all)
    BY <1>2 DEF all
  <2> QED
    BY <2>5, <2>6, KindsAfterType
<1>7. /\ taskFuncs' = [s \in Scope |-> taskFuncs'[s]]
      /\ \A s \in Scope : taskFuncs'[s] = taskFuncs[s] \/ taskFuncs'[s] = ClonesOf(s)
  BY <1>2
<1>8. /\ walk' \in Seq(Scope) /\ todo' \in Seq(Seq(Item)) /\ Len(todo') = Len(walk') + 1
      /\ visited' \subseteq Scope
      /\ instStack' \in Seq(Entry) /\ Len(instStack') = Len(walk')
      /\ \A i \in DOMAIN walk' : instStack'[i].object = walk'[i]
      /\ inHierarchy' \in BOOLEAN
      /\ \A i \in DOMAIN walk' : design'.kind[walk'[i]] = "module" => inHierarchy'
  BY <1>1, <1>3, EnterStack
<1> QED
  BY <1>1, <1>5, <1>6, <1>7, <1>8, <1>9, TypeParts

\* Instances whose contents are not elaborated.
LEMMA TypeEnterInstance ==
  ASSUME TypeInv, EnterUndefinedModule \/ EnterInterface PROVE TypeInv'
<1>1. PICK kind \in {"module", "interface"} :
        /\ CanEnter(kind) /\ Descend /\ inHierarchy' = TRUE /\ design' = design
        /\ instStack' = Push(FuncMap(taskFuncs[Here]))
        /\ UNCHANGED <<taskFuncs, kinds, scheduled, bound>>
  BY DEF EnterUndefinedModule, EnterInterface
<1>2. FuncMap(taskFuncs[Here]) \in Tables
  <2>1. Here \in Scope
    BY <1>1, CanEnterIs
  <2>2. taskFuncs[Here] \in Seq(Func)
    BY <2>1 DEF TypeInv
  <2> QED
    BY <2>2, FuncMapIsTable
<1>3. /\ walk' \in Seq(Scope) /\ todo' \in Seq(Seq(Item)) /\ Len(todo') = Len(walk') + 1
      /\ visited' \subseteq Scope
      /\ instStack' \in Seq(Entry) /\ Len(instStack') = Len(walk')
      /\ \A i \in DOMAIN walk' : instStack'[i].object = walk'[i]
      /\ inHierarchy' \in BOOLEAN
      /\ \A i \in DOMAIN walk' : design'.kind[walk'[i]] = "module" => inHierarchy'
  BY <1>1, <1>2, EnterStack
<1> QED
  BY <1>1, <1>3, TypeKept, TypeParts

\* After entering a class.
LEMMA TypeEnterClass ==
  ASSUME TypeInv, EnterClass PROVE TypeInv'
<1>1. /\ CanEnter("class") /\ Descend /\ inHierarchy' = inHierarchy /\ design' = design
      /\ instStack' = Push(ClassFuncMap(Here)) /\ bound' = bound
      /\ taskFuncs' = [taskFuncs EXCEPT ![Here] = ClonesOf(Here)]
      /\ scheduled' = scheduled \cup {CloneOf(c, instStack') : c \in CallsOf(Here)}
      /\ kinds' = KindsAfter({CloneOf(c, instStack') : c \in CallsOf(Here)})
  BY DEF EnterClass
<1>2. Here \in Scope
  BY <1>1, CanEnterIs
<1>3. ClassFuncMap(Here) \in Tables /\ "class" # "module"
  BY <1>2, ClassFuncMapIs
<1>4. /\ walk' \in Seq(Scope) /\ todo' \in Seq(Seq(Item)) /\ Len(todo') = Len(walk') + 1
      /\ visited' \subseteq Scope
      /\ instStack' \in Seq(Entry) /\ Len(instStack') = Len(walk')
      /\ \A i \in DOMAIN walk' : instStack'[i].object = walk'[i]
      /\ inHierarchy' \in BOOLEAN
      /\ \A i \in DOMAIN walk' : design'.kind[walk'[i]] = "module" => inHierarchy'
  BY <1>1, <1>3, EnterStack
<1> DEFINE clones == {CloneOf(c, instStack') : c \in CallsOf(Here)}
<1>8. clones \in SUBSET SchedulingType
  BY <1>4, CloneOfType DEF SchedulingType, CallsOf
<1>9. scheduled' = scheduled \cup clones /\ kinds' = KindsAfter(clones)
  BY <1>1
<1> HIDE DEF clones
<1>5. scheduled' \in SUBSET SchedulingType /\ kinds' \in [design.calls -> CallKind]
  <2>1. scheduled \in SUBSET SchedulingType
    BY DEF TypeInv, SchedulingType
  <2> QED
    BY <1>8, <1>9, <2>1, KindsAfterType DEF SchedulingType
<1>6. /\ taskFuncs' = [s \in Scope |-> taskFuncs'[s]]
      /\ \A s \in Scope : taskFuncs'[s] = taskFuncs[s] \/ taskFuncs'[s] = ClonesOf(s)
  <2>1. taskFuncs \in [Scope -> Seq(Func)]
    BY DEF TypeInv
  <2> QED
    BY <1>1, <2>1
<1>7. bound' \in [design.calls -> Func \cup {None}]
  BY <1>1 DEF TypeInv
<1> QED
  BY <1>1, <1>4, <1>5, <1>6, <1>7, TypeParts

\* After entering a package.
LEMMA TypeEnterPackage ==
  ASSUME TypeInv, EnterPackage PROVE TypeInv'
<1>1. /\ CanEnter("package") /\ Descend /\ inHierarchy' = inHierarchy /\ design' = design
      /\ instStack' = Push(NoFuncs) /\ UNCHANGED <<taskFuncs, kinds, scheduled, bound>>
  BY DEF EnterPackage
<1>2. NoFuncs \in Tables /\ "package" # "module"
  <2>1. NoFuncs \in [{} -> Func]
    BY DEF NoFuncs
  <2> QED
    BY <2>1 DEF Tables
<1>3. /\ walk' \in Seq(Scope) /\ todo' \in Seq(Seq(Item)) /\ Len(todo') = Len(walk') + 1
      /\ visited' \subseteq Scope
      /\ instStack' \in Seq(Entry) /\ Len(instStack') = Len(walk')
      /\ \A i \in DOMAIN walk' : instStack'[i].object = walk'[i]
      /\ inHierarchy' \in BOOLEAN
      /\ \A i \in DOMAIN walk' : design'.kind[walk'[i]] = "module" => inHierarchy'
  BY <1>1, <1>2, EnterStack
<1> QED
  BY <1>1, <1>3, TypeKept, TypeParts

\* After leaving a module, an interface or a class.
LEMMA TypeLeaveInstance ==
  ASSUME TypeInv, LeaveInstance PROVE TypeInv'
<1>1. PICK those : CanLeave(those)
  BY DEF LeaveInstance
<1>2. /\ Ascend /\ Pop /\ design' = design /\ taskFuncs' = taskFuncs /\ scheduled' = {}
      /\ bound' = BoundAfter(<<Round(instStack, scheduled)>>) /\ kinds' = kinds
  BY DEF LeaveInstance
<1>3. /\ walk' \in Seq(Scope) /\ todo' \in Seq(Seq(Item)) /\ Len(todo') = Len(walk') + 1
      /\ visited' \subseteq Scope
      /\ instStack' \in Seq(Entry) /\ Len(instStack') = Len(walk')
      /\ \A i \in DOMAIN walk' : instStack'[i].object = walk'[i]
      /\ inHierarchy' \in BOOLEAN
      /\ \A i \in DOMAIN walk' : design'.kind[walk'[i]] = "module" => inHierarchy'
  BY <1>1, <1>2, LeaveStack
<1>4. bound' \in [design.calls -> Func \cup {None}]
  <2>1. instStack \in Seq(Entry)
    BY DEF TypeInv
  <2> QED
    BY <1>2, <2>1, OneRound, BoundAfterType
<1>5. /\ taskFuncs' = [s \in Scope |-> taskFuncs'[s]]
      /\ \A s \in Scope : taskFuncs'[s] = taskFuncs[s]
  <2>1. taskFuncs \in [Scope -> Seq(Func)]
    BY DEF TypeInv
  <2> QED
    BY <1>2, <2>1
<1>6. scheduled' \in SUBSET SchedulingType /\ kinds' \in [design.calls -> CallKind]
  BY <1>2 DEF TypeInv
<1> QED
  BY <1>2, <1>3, <1>4, <1>5, <1>6, TypeParts

\* After leaving a package.
LEMMA TypeLeavePackage ==
  ASSUME TypeInv, LeavePackage PROVE TypeInv'
<1>1. /\ CanLeave({"package"}) /\ Ascend /\ Pop /\ design' = design
  BY DEF LeavePackage
<1>2. /\ bound' = BoundAfter(<<Round(AllKnown, PackageSchedule)>>)
      /\ taskFuncs' = [taskFuncs EXCEPT ![Last(walk)] = ClonesOf(Last(walk))]
      /\ scheduled' = {} /\ kinds' = KindsAfter(PackageClones)
  BY LeavePackageIs
<1>3. /\ walk' \in Seq(Scope) /\ todo' \in Seq(Seq(Item)) /\ Len(todo') = Len(walk') + 1
      /\ visited' \subseteq Scope
      /\ instStack' \in Seq(Entry) /\ Len(instStack') = Len(walk')
      /\ \A i \in DOMAIN walk' : instStack'[i].object = walk'[i]
      /\ inHierarchy' \in BOOLEAN
      /\ \A i \in DOMAIN walk' : design'.kind[walk'[i]] = "module" => inHierarchy'
  BY <1>1, LeaveStack
<1>4. /\ taskFuncs \in [Scope -> Seq(Func)] /\ walk # <<>> /\ Last(walk) \in Scope
  <2>1. taskFuncs \in [Scope -> Seq(Func)]
    BY DEF TypeInv
  <2> QED
    BY <1>1, <2>1, AscendIs
<1>5. bound' \in [design.calls -> Func \cup {None}]
  <2>1. Len(taskFuncs[Last(walk)]) \in 0 .. Len(taskFuncs[Last(walk)])
    <3>1. taskFuncs[Last(walk)] \in Seq(Func)
      BY <1>4
    <3> QED
      BY <3>1
  <2>2. AllKnown \in Seq(Entry)
    BY <1>4, <2>1, KnownIs DEF AllKnown
  <2> QED
    BY <1>2, <2>2, OneRound, BoundAfterType
<1>6. /\ taskFuncs' = [s \in Scope |-> taskFuncs'[s]]
      /\ \A s \in Scope : taskFuncs'[s] = taskFuncs[s] \/ taskFuncs'[s] = ClonesOf(s)
  BY <1>2, <1>4
<1>7. scheduled' \in SUBSET SchedulingType
  BY <1>2
<1>8. kinds' \in [design.calls -> CallKind]
  <2>1. ASSUME NEW c \in CallsOf(Last(walk)), c.by > 0
        PROVE  CloneOf(c, KnownAfter(c.by - 1)) \in [call : design.calls, kind : CallKind]
    <3>1. c \in design.calls /\ c.in = Last(walk)
      BY <2>1 DEF CallsOf
    <3>2. c \in Call /\ c.by <= Len(design.funcs[c.in])
      BY <3>1, DesignIs DEF TypeInv
    <3>3. c.by \in Nat
      BY <3>2 DEF Call
    <3>4. Len(taskFuncs[c.in]) = Len(design.funcs[c.in]) /\ Len(taskFuncs[c.in]) \in Nat
      <4>1. taskFuncs[c.in] \in Seq(Func)
        BY <1>4, <3>1
      <4> QED
        BY <1>4, <3>1, <4>1 DEF TypeInv
    <3>5. c.by - 1 \in 0 .. Len(taskFuncs[c.in])
      BY <2>1, <3>2, <3>3, <3>4
    <3>6. KnownAfter(c.by - 1) \in Seq(Entry)
      BY <1>4, <3>1, <3>5, KnownIs
    <3> QED
      BY <3>1, <3>6, CloneOfType
  <2>2. PackageClones \in SUBSET [call : design.calls, kind : CallKind]
    BY <2>1 DEF PackageClones
  <2> QED
    BY <1>2, <2>2, KindsAfterType
<1> QED
  BY <1>1, <1>3, <1>5, <1>6, <1>7, <1>8, TypeParts

\* At the end of a list.
LEMMA TypeEndList ==
  ASSUME TypeInv, EndList PROVE TypeInv'
<1>1. /\ todo' \in Seq(Seq(Item)) /\ Len(todo') = Len(todo) /\ visited' = {}
      /\ UNCHANGED <<design, walk, instStack, inHierarchy, taskFuncs, kinds, scheduled, bound>>
  BY EndListIs
<1>2. taskFuncs' = [s \in Scope |-> taskFuncs'[s]]
  BY <1>1 DEF TypeInv
<1> QED
  BY <1>1, <1>2, TypeParts DEF TypeInv, SchedulingType

\* After every step.
LEMMA TypeStep == TypeInv /\ [Next]_vars => TypeInv'
<1> SUFFICES ASSUME TypeInv, [Next]_vars PROVE TypeInv'
  OBVIOUS
<1>1. CASE EnterModule
  BY <1>1, TypeEnterModule
<1>2. CASE EnterUndefinedModule \/ EnterInterface
  BY <1>2, TypeEnterInstance
<1>3. CASE EnterClass
  BY <1>3, TypeEnterClass
<1>4. CASE EnterPackage
  BY <1>4, TypeEnterPackage
<1>5. CASE LeaveInstance
  BY <1>5, TypeLeaveInstance
<1>6. CASE LeavePackage
  BY <1>6, TypeLeavePackage
<1>7. CASE EndList
  BY <1>7, TypeEndList
<1>8. CASE UNCHANGED vars
  BY <1>8 DEF vars, TypeInv
<1> QED
  BY <1>1, <1>2, <1>3, <1>4, <1>5, <1>6, <1>7, <1>8 DEF Next

\* The types are those of the declarations, in every design.
THEOREM TypeCorrect == Spec => []TypeOK
<1>1. TypeInv => TypeOK
  <2> SUFFICES ASSUME TypeInv PROVE TypeOK
    OBVIOUS
  <2>1. ASSUME NEW i \in DOMAIN instStack
        PROVE  /\ instStack[i].object \in Scope
               /\ DOMAIN instStack[i].funcMap \subseteq Name
               /\ \A n \in DOMAIN instStack[i].funcMap : instStack[i].funcMap[n] \in Func
    <3>1. instStack[i] \in Entry
      BY <2>1 DEF TypeInv
    <3>2. PICK N \in SUBSET Name : instStack[i].funcMap \in [N -> Func]
      BY <3>1 DEF Entry, Tables
    <3> QED
      BY <3>1, <3>2 DEF Entry
  <2> QED
    BY <2>1 DEF TypeInv, TypeOK, Item
<1> QED
  BY <1>1, TypeInit, TypeStep, PTL DEF Spec

\* Whatever the design: every handler has pushed and popped what it should, the
\* entries of instStack_ being those of the scopes the walk is in.
THEOREM StackIsWalk == Spec => []StackFollowsWalk
<1>1. TypeInv => StackFollowsWalk
  <2> SUFFICES ASSUME TypeInv PROVE StackFollowsWalk
    OBVIOUS
  <2>1. [i \in DOMAIN instStack |-> instStack[i].object] = walk
    <3>1. walk = [i \in 1 .. Len(walk) |-> walk[i]]
      BY WalkIs
    <3> QED
      BY <3>1, WalkIs
  <2> QED
    BY <2>1, WalkIs DEF StackFollowsWalk
<1> QED
  BY <1>1, TypeInit, TypeStep, PTL DEF Spec

-----------------------------------------------------------------------------
(***************************************************************************)
(* The walk goes from a scope to what it leads to.                         *)
(***************************************************************************)
\* The walk comes through a scope to itself, and through what leads to it.
LEMMA AboveIs ==
  ASSUME NEW s \in Scope
  PROVE  /\ s \in Above(s)
         /\ \A p \in Comes(s) : Above(p) \subseteq Above(s)
<1> DEFINE Up == [t \in Scope |-> Comes(t)]
<1>1. DOMAIN Up = Scope /\ \A t : Above(t) = Reached(Up, {t})
  BY DEF Above
<1>2. Up[s] = Comes(s) /\ Comes(s) \subseteq Scope
  BY DEF Comes
<1> HIDE DEF Up
<1>3. s \in Above(s)
  BY <1>1, ReachedHasRoots
<1>4. Above(s) \in SUBSET DOMAIN Up /\ IsClosed(Up, Above(s))
  BY <1>1, ReachedAreNodes, ReachedIsClosed
<1>5. ASSUME NEW p \in Comes(s)
      PROVE  Above(p) \subseteq Above(s)
  <2>1. p \in Above(s)
    BY <1>1, <1>2, <1>3, <1>4 DEF IsClosed
  <2>2. {p} \subseteq Above(s)
    BY <2>1
  <2>3. Reached(Up, {p}) \subseteq Above(s)
    BY <1>4, <2>2, ReachedIsLeast
  <2> QED
    BY <1>1, <2>3
<1> QED
  BY <1>3, <1>5

\* The walk comes to what is below a scope through that scope.
LEMMA BelowIs ==
  ASSUME NEW s \in Scope, NEW t \in Scope
  PROVE  /\ t \in Below(s) => s \in Above(t)
         /\ \A p \in Comes(t) : s \in Above(p) => t \in Below(s)
<1>1. \A p \in Comes(t) : Above(p) \subseteq Above(t)
  BY AboveIs
<1> QED
  BY <1>1 DEF Below

\* What the walk comes through to the scope of a call, or goes to from there, and
\* the class of the prefix.
IsKin(f, c) ==
  \E s \in Above(c.in) \cup Below(c.in) \cup ({c.prefix} \ {None}) : Belongs(f, s)

\* What leads where is a matter of the design, which does not change.
LEMMA SameKin ==
  ASSUME design' = design
  PROVE  /\ \A s : Comes(s)' = Comes(s) /\ Above(s)' = Above(s) /\ Below(s)' = Below(s)
         /\ \A f, s : Belongs(f, s)' = Belongs(f, s)
         /\ \A f, c : IsKin(f, c)' = IsKin(f, c)
<1>1. \A s : Comes(s)' = Comes(s)
  BY DEF Comes
<1>2. ASSUME NEW s PROVE Above(s)' = Above(s)
  BY <1>1 DEF Above
<1>3. ASSUME NEW s PROVE Below(s)' = Below(s)
  BY <1>1, <1>2 DEF Below
<1>4. ASSUME NEW f, NEW s PROVE Belongs(f, s)' = Belongs(f, s)
  BY DEF Belongs
<1>5. ASSUME NEW f, NEW c PROVE IsKin(f, c)' = IsKin(f, c)
  BY <1>2, <1>3, <1>4 DEF IsKin
<1> QED
  BY <1>1, <1>2, <1>3, <1>4, <1>5

\* A path comes through each of its scopes to those after it.
LEMMA PathAbove ==
  ASSUME NEW p \in Seq(Scope), IsPath(p), NEW i \in DOMAIN p, NEW j \in DOMAIN p, i <= j
  PROVE  p[i] \in Above(p[j])
<1>1. p[i] \in Scope /\ p[j] \in Scope /\ i \in Nat /\ j \in Nat
  OBVIOUS
<1>2. CASE i = j
  BY <1>1, <1>2, AboveIs
<1>3. CASE i < j
  BY <1>1, <1>3, BelowIs DEF IsPath
<1> QED
  BY <1>1, <1>2, <1>3

\* A path can be prolonged to where its last scope leads.
LEMMA PathGrows ==
  ASSUME NEW p \in Seq(Scope), IsPath(p), NEW k \in Scope,
         Len(p) > 0 => p[Len(p)] \in Comes(k)
  PROVE  IsPath(Append(p, k))
<1> DEFINE q == Append(p, k)
<1>1. /\ q \in Seq(Scope) /\ Len(q) = Len(p) + 1 /\ Len(p) \in Nat
      /\ \A i \in 1 .. Len(p) : q[i] = p[i]
      /\ q[Len(p) + 1] = k
  BY AppendProperties
<1>2. DOMAIN q = 1 .. Len(p) + 1 /\ DOMAIN p = 1 .. Len(p)
  BY <1>1
<1> HIDE DEF q
<1>3. SUFFICES ASSUME NEW i \in DOMAIN q, NEW j \in DOMAIN q, i < j
               PROVE  q[j] \in Below(q[i])
  BY DEF IsPath, q
<1>4. CASE j \in 1 .. Len(p)
  <2>1. i \in 1 .. Len(p)
    BY <1>2, <1>3, <1>4
  <2> QED
    BY <1>1, <1>2, <1>3, <1>4, <2>1 DEF IsPath
<1>6. CASE j = Len(p) + 1 /\ i \in 1 .. Len(p)
  <2>1. Len(p) \in DOMAIN p /\ i \in DOMAIN p /\ i <= Len(p) /\ Len(p) > 0
    BY <1>1, <1>2, <1>6
  <2>2. p[i] \in Scope /\ p[Len(p)] \in Scope
    BY <2>1
  <2>3. p[i] \in Above(p[Len(p)])
    BY <2>1, <2>2, PathAbove
  <2>4. k \in Below(p[i])
    BY <2>1, <2>2, <2>3, BelowIs
  <2> QED
    BY <1>1, <1>6, <2>4
<1> QED
  BY <1>1, <1>2, <1>3, <1>4, <1>6

\* Every step descends, ascends, ends a list or changes nothing.
LEMMA Moves ==
  ASSUME [Next]_vars
  PROVE  \/ \E kind : CanEnter(kind) /\ Descend /\ design' = design
         \/ \E those : CanLeave(those) /\ Ascend /\ design' = design
         \/ EndList
         \/ UNCHANGED vars
<1>1. CASE EnterModule \/ EnterUndefinedModule \/ EnterInterface \/ EnterClass \/ EnterPackage
  <2>1. \E kind : CanEnter(kind) /\ Descend /\ design' = design
    BY <1>1 DEF EnterModule, EnterUndefinedModule, EnterInterface, EnterClass, EnterPackage
  <2> QED
    BY <2>1
<1>2. CASE LeaveInstance \/ LeavePackage
  <2>1. \E those : CanLeave(those) /\ Ascend /\ design' = design
    BY <1>2 DEF LeaveInstance, LeavePackage
  <2> QED
    BY <2>1
<1> QED
  BY <1>1, <1>2 DEF Next

\* The last scope leads to the one that is entered next, or else a list of the design.
LEMMA HereIsChild ==
  ASSUME TypeInv, PathInv, NEW kind, CanEnter(kind)
  PROVE  /\ Len(walk) > 0 => walk[Len(walk)] \in Comes(Here)
         /\ Len(walk) = 0 => \E l \in DOMAIN design.tops : Here = design.tops[l]
<1>1. /\ Current \in Seq(Item) /\ Current # <<>> /\ Current = todo[Len(walk) + 1]
      /\ Len(walk) \in Nat
  BY CanEnterIs
<1>2. 1 \in DOMAIN Current /\ Here = Current[1]
  BY <1>1 DEF Here
<1>3. ASSUME Len(walk) > 0 PROVE walk[Len(walk)] \in Comes(Here)
  <2>1. Len(walk) \in DOMAIN walk
    BY <1>3, WalkIs
  <2> QED
    BY <1>1, <1>2, <2>1 DEF PathInv
<1>4. ASSUME Len(walk) = 0 PROVE \E l \in DOMAIN design.tops : Here = design.tops[l]
  <2>1. Current = todo[1]
    BY <1>1, <1>4
  <2> QED
    BY <1>2, <2>1 DEF PathInv
<1> QED
  BY <1>3, <1>4

\* Entering a scope prolongs the path.
LEMMA PathEnter ==
  ASSUME TypeInv, PathInv, NEW kind, CanEnter(kind), Descend, design' = design
  PROVE  PathInv'
<1>1. /\ Here \in Scope /\ Current \in Seq(Item) /\ Current # <<>>
      /\ Current = todo[Len(walk) + 1] /\ Len(walk) \in Nat
  BY CanEnterIs
<1>2. /\ walk' \in Seq(Scope) /\ Len(walk') = Len(walk) + 1
      /\ \A i \in 1 .. Len(walk) : walk'[i] = walk[i]
      /\ walk'[Len(walk) + 1] = Here
      /\ \A i \in 1 .. Len(walk) : todo'[i] = todo[i]
      /\ todo'[Len(walk) + 1] = Tail(Current)
      /\ todo'[Len(walk) + 2] = Beyond
  BY DescendIs
<1>3. DOMAIN walk' = 1 .. Len(walk) + 1 /\ DOMAIN walk = 1 .. Len(walk) /\ walk \in Seq(Scope)
  BY <1>2, WalkIs
<1>4. \A k \in DOMAIN Tail(Current) :
        k + 1 \in DOMAIN Current /\ Tail(Current)[k] = Current[k + 1]
  BY <1>1, HeadTailProperties
<1>5. IsPath(walk)'
  <2>1. IsPath(Append(walk, Here))
    BY <1>1, <1>3, HereIsChild, PathGrows DEF PathInv
  <2>2. walk' = Append(walk, Here)
    BY DEF Descend
  <2>3. \A s : Below(s)' = Below(s)
    BY SameKin
  <2> HIDE DEF Descend
  <2> QED
    BY <2>1, <2>2, <2>3 DEF IsPath
<1>6. ASSUME NEW i \in DOMAIN walk', NEW k \in DOMAIN todo'[i + 1]
      PROVE  walk'[i] \in Comes(todo'[i + 1][k])
  <2>1. CASE i + 1 \in 1 .. Len(walk)
    <3>1. i \in 1 .. Len(walk) /\ todo'[i + 1] = todo[i + 1] /\ walk'[i] = walk[i]
      BY <1>2, <1>3, <2>1
    <3> QED
      BY <1>3, <1>6, <3>1 DEF PathInv
  <2>2. CASE i = Len(walk)
    <3>1. todo'[i + 1] = Tail(Current) /\ i \in DOMAIN walk /\ walk'[i] = walk[i]
      BY <1>1, <1>2, <1>3, <2>2
    <3>2. k + 1 \in DOMAIN todo[i + 1] /\ todo'[i + 1][k] = todo[i + 1][k + 1]
      BY <1>1, <1>4, <1>6, <2>2, <3>1
    <3> QED
      BY <3>1, <3>2 DEF PathInv
  <2>3. CASE i = Len(walk) + 1
    <3>1. i + 1 = Len(walk) + 2
      BY <1>1, <2>3
    <3>2. todo'[i + 1] = Beyond /\ walk'[i] = Here
      BY <1>2, <2>3, <3>1
    <3>3. k \in DOMAIN design.children[Here] /\ todo'[i + 1][k] = design.children[Here][k]
      BY <1>6, <3>2 DEF Beyond
    <3> QED
      BY <1>1, <3>2, <3>3 DEF Comes
  <2> QED
    BY <1>1, <1>3, <2>1, <2>2, <2>3
<1>7. ASSUME NEW k \in DOMAIN todo'[1]
      PROVE  \E l \in DOMAIN design.tops : todo'[1][k] = design.tops[l]
  <2>1. CASE Len(walk) > 0
    <3>1. todo'[1] = todo[1]
      BY <1>1, <1>2, <2>1
    <3> QED
      BY <1>7, <3>1 DEF PathInv
  <2>2. CASE Len(walk) = 0
    <3>1. todo'[1] = Tail(todo[1]) /\ Current = todo[1]
      BY <1>1, <1>2, <2>2
    <3>2. k + 1 \in DOMAIN todo[1] /\ todo'[1][k] = todo[1][k + 1]
      BY <1>4, <1>7, <3>1
    <3> QED
      BY <3>2 DEF PathInv
  <2> QED
    BY <1>1, <2>1, <2>2
<1>8. \A s : Comes(s)' = Comes(s)
  BY SameKin
<1>9. (\A i \in DOMAIN walk : \A k \in DOMAIN todo[i + 1] : walk[i] \in Comes(todo[i + 1][k]))'
  BY <1>6, <1>8
<1> QED
  BY <1>5, <1>7, <1>9 DEF PathInv

\* Leaving one shortens it.
LEMMA PathLeave ==
  ASSUME TypeInv, PathInv, NEW those, CanLeave(those), Ascend, design' = design
  PROVE  PathInv'
<1>1. /\ Len(walk) \in Nat \ {0}
      /\ walk' \in Seq(Scope) /\ Len(walk') = Len(walk) - 1
      /\ \A i \in 1 .. Len(walk) - 1 : walk'[i] = walk[i]
      /\ \A i \in 1 .. Len(walk) : todo'[i] = todo[i]
  BY AscendIs
<1>2. DOMAIN walk' = 1 .. Len(walk) - 1 /\ DOMAIN walk = 1 .. Len(walk)
  BY <1>1, WalkIs
<1>3. \A s : Comes(s)' = Comes(s) /\ Below(s)' = Below(s)
  BY SameKin
<1>4. \A i \in DOMAIN walk' :
        i \in DOMAIN walk /\ walk'[i] = walk[i] /\ todo'[i + 1] = todo[i + 1]
  <2>1. \A i \in DOMAIN walk' : i \in 1 .. Len(walk) - 1 /\ i + 1 \in 1 .. Len(walk)
    BY <1>1, <1>2
  <2> QED
    BY <1>1, <1>2, <2>1
<1>5. IsPath(walk)'
  BY <1>3, <1>4 DEF PathInv, IsPath
<1>6. (\A i \in DOMAIN walk : \A k \in DOMAIN todo[i + 1] : walk[i] \in Comes(todo[i + 1][k]))'
  BY <1>3, <1>4 DEF PathInv
<1>7. todo'[1] = todo[1]
  BY <1>1
<1>8. \A k \in DOMAIN todo'[1] : \E l \in DOMAIN design'.tops : todo'[1][k] = design'.tops[l]
  BY <1>7 DEF PathInv
<1> QED
  BY <1>5, <1>6, <1>8 DEF PathInv

\* The end of a list leaves it where it is.
LEMMA PathEndList ==
  ASSUME TypeInv, PathInv, EndList PROVE PathInv'
<1>1. /\ \A i \in 1 .. Len(walk) : todo'[i] = todo[i]
      /\ todo'[Len(walk) + 1] = Tail(todo[Len(walk) + 1])
      /\ todo[Len(walk) + 1] \in Seq(Item) /\ todo[Len(walk) + 1] # <<>>
      /\ design' = design /\ walk' = walk
  BY EndListIs
<1>2. \A k \in DOMAIN Tail(todo[Len(walk) + 1]) :
        /\ k + 1 \in DOMAIN todo[Len(walk) + 1]
        /\ Tail(todo[Len(walk) + 1])[k] = todo[Len(walk) + 1][k + 1]
  BY <1>1, HeadTailProperties
<1>3. ASSUME NEW i \in 1 .. Len(walk) + 1, NEW k \in DOMAIN todo'[i]
      PROVE  \E l \in DOMAIN todo[i] : todo'[i][k] = todo[i][l]
  <2>1. CASE i \in 1 .. Len(walk)
    BY <1>1, <1>3, <2>1
  <2>2. CASE i = Len(walk) + 1
    BY <1>1, <1>2, <1>3, <2>2
  <2> QED
    BY <2>1, <2>2, WalkIs
<1>4. \A s : Comes(s)' = Comes(s) /\ Below(s)' = Below(s)
  BY <1>1, SameKin
<1>5. DOMAIN walk = 1 .. Len(walk) /\ Len(walk) \in Nat
  BY WalkIs
<1>6. ASSUME NEW i \in DOMAIN walk, NEW k \in DOMAIN todo'[i + 1]
      PROVE  walk[i] \in Comes(todo'[i + 1][k])
  <2>1. i + 1 \in 1 .. Len(walk) + 1
    BY <1>5
  <2>2. PICK l \in DOMAIN todo[i + 1] : todo'[i + 1][k] = todo[i + 1][l]
    BY <1>3, <1>6, <2>1
  <2> QED
    BY <2>2 DEF PathInv
<1>7. ASSUME NEW k \in DOMAIN todo'[1]
      PROVE  \E l \in DOMAIN design.tops : todo'[1][k] = design.tops[l]
  <2>1. 1 \in 1 .. Len(walk) + 1
    BY <1>5
  <2>2. PICK l \in DOMAIN todo[1] : todo'[1][k] = todo[1][l]
    BY <1>3, <1>7, <2>1
  <2> QED
    BY <2>2 DEF PathInv
<1>8. IsPath(walk)'
  BY <1>1, <1>4 DEF PathInv, IsPath
<1>9. (\A i \in DOMAIN walk : \A k \in DOMAIN todo[i + 1] : walk[i] \in Comes(todo[i + 1][k]))'
  BY <1>1, <1>4, <1>6
<1> QED
  BY <1>1, <1>7, <1>8, <1>9 DEF PathInv

\* The walk is a path after every step.
LEMMA PathStep ==
  ASSUME TypeInv, PathInv, [Next]_vars PROVE PathInv'
<1>1. CASE \E kind : CanEnter(kind) /\ Descend /\ design' = design
  BY <1>1, PathEnter
<1>2. CASE \E those : CanLeave(those) /\ Ascend /\ design' = design
  BY <1>2, PathLeave
<1>4. CASE EndList
  BY <1>4, PathEndList
<1>3. CASE UNCHANGED vars
  <2>1. design' = design /\ walk' = walk /\ todo' = todo
    BY <1>3 DEF vars
  <2>2. \A s : Comes(s)' = Comes(s) /\ Below(s)' = Below(s)
    BY <2>1, SameKin
  <2> QED
    BY <2>1, <2>2 DEF PathInv, IsPath
<1> QED
  BY <1>1, <1>2, <1>3, <1>4, Moves

\* The walk is a path at the start.
LEMMA PathInit == Init => PathInv
<1> SUFFICES ASSUME Init PROVE PathInv
  OBVIOUS
<1>1. walk = <<>> /\ todo = <<design.tops>> /\ DOMAIN walk = {}
  BY DEF Init
<1> QED
  BY <1>1 DEF PathInv, IsPath


-----------------------------------------------------------------------------
(***************************************************************************)
(* Calls are bound to kin.                                                 *)
(***************************************************************************)
\* A function belongs to its own scope.
LEMMA OwnBelongs ==
  ASSUME design \in Designs, NEW s \in Scope, NEW f, f.scope = s
  PROVE  Belongs(f, s)
<1>1. design.bases[s] \in Seq(Scope) /\ design.bases[s] # <<>> /\ design.bases[s][1] = s
  BY DesignIs DEF ExtendsClasses
<1>2. 1 \in DOMAIN design.bases[s]
  BY <1>1
<1> QED
  BY <1>1, <1>2 DEF Belongs

\* The tables that are pushed for a scope hold what the scope offers.
LEMMA TablesOffer ==
  ASSUME TypeInv, NEW s \in Scope
  PROVE  /\ \A n \in DOMAIN FuncMap(taskFuncs[s]) : Belongs(FuncMap(taskFuncs[s])[n], s)
         /\ \A n \in DOMAIN ClassFuncMap(s) : Belongs(ClassFuncMap(s)[n], s)
         /\ \A i \in 0 .. Len(taskFuncs[s]) : \A n \in DOMAIN ClonedFuncMap(s, i) :
              Belongs(ClonedFuncMap(s, i)[n], s)
<1>1. design \in Designs /\ taskFuncs[s] \in Seq(Func)
      /\ \A i \in DOMAIN taskFuncs[s] : taskFuncs[s][i].scope = s
  BY DEF TypeInv
<1>2. ASSUME NEW n \in DOMAIN FuncMap(taskFuncs[s])
      PROVE  Belongs(FuncMap(taskFuncs[s])[n], s)
  <2>1. PICK i \in DOMAIN taskFuncs[s] : FuncMap(taskFuncs[s])[n] = taskFuncs[s][i]
    BY <1>1, <1>2, FuncMapOf
  <2> QED
    BY <1>1, <2>1, OwnBelongs
<1>3. ASSUME NEW n \in DOMAIN ClassFuncMap(s)
      PROVE  Belongs(ClassFuncMap(s)[n], s)
  BY <1>3, ClassFuncMapIs DEF Belongs
<1>4. ASSUME NEW i \in 0 .. Len(taskFuncs[s]), NEW n \in DOMAIN ClonedFuncMap(s, i)
      PROVE  Belongs(ClonedFuncMap(s, i)[n], s)
  <2>1. PICK j \in DOMAIN ClonesOf(s) : ClonedFuncMap(s, i)[n] = ClonesOf(s)[j]
    BY <1>4, ClonedFuncMapIs
  <2>2. ClonesOf(s)[j].scope = s
    BY ClonesAre
  <2> QED
    BY <1>1, <2>1, <2>2, OwnBelongs
<1> QED
  BY <1>2, <1>3, <1>4

\* Pushing such a table keeps a stack that holds what the scopes of a path offer.
LEMMA OffersGrow ==
  ASSUME NEW stack \in Seq(Entry), NEW p \in Seq(Scope), Len(stack) = Len(p),
         OffersOwn(stack, p), NEW e \in Entry, NEW k \in Scope,
         \A n \in DOMAIN e.funcMap : Belongs(e.funcMap[n], k)
  PROVE  OffersOwn(Append(stack, e), Append(p, k))
<1> DEFINE s == Append(stack, e)
           q == Append(p, k)
<1>1. /\ s \in Seq(Entry) /\ q \in Seq(Scope) /\ Len(p) \in Nat
      /\ Len(s) = Len(p) + 1 /\ Len(q) = Len(p) + 1
      /\ \A i \in 1 .. Len(p) : s[i] = stack[i] /\ q[i] = p[i]
      /\ s[Len(p) + 1] = e /\ q[Len(p) + 1] = k
  BY AppendProperties
<1>2. DOMAIN q = 1 .. Len(p) + 1 /\ DOMAIN p = 1 .. Len(p)
  BY <1>1
<1> HIDE DEF s, q
<1>3. SUFFICES ASSUME NEW i \in DOMAIN q, NEW n \in DOMAIN s[i].funcMap
               PROVE  Belongs(s[i].funcMap[n], q[i])
  BY DEF OffersOwn, s, q
<1>4. CASE i \in 1 .. Len(p)
  BY <1>1, <1>2, <1>3, <1>4 DEF OffersOwn
<1>5. CASE i = Len(p) + 1
  BY <1>1, <1>3, <1>5
<1> QED
  BY <1>1, <1>2, <1>4, <1>5

\* What a call means on such a stack, if it is in a scope of the path.
LEMMA MeantIsKin ==
  ASSUME TypeInv, NEW stack \in Seq(Entry), NEW p \in Seq(Scope), Len(stack) = Len(p),
         IsPath(p), OffersOwn(stack, p),
         NEW c \in design.calls, NEW j \in DOMAIN p, p[j] = c.in,
         Lookup(stack, c.name, c.prefix) # None
  PROVE  IsKin(Lookup(stack, c.name, c.prefix), c)
<1> DEFINE f == Lookup(stack, c.name, c.prefix)
<1>1. c.in \in Scope /\ c.prefix \in Scope \cup {None}
  <2>1. c \in Call
    BY DesignIs DEF TypeInv
  <2> QED
    BY <2>1 DEF Call
<1>2. DOMAIN stack = DOMAIN p /\ DOMAIN p = 1 .. Len(p) /\ Len(p) \in Nat
      /\ \A i \in DOMAIN p : p[i] \in Scope
  OBVIOUS
<1>3. ASSUME NEW i \in DOMAIN stack, c.name \in DOMAIN stack[i].funcMap,
             f = stack[i].funcMap[c.name]
      PROVE  IsKin(f, c)
  <2>1. Belongs(f, p[i]) /\ p[i] \in Scope
    BY <1>2, <1>3 DEF OffersOwn
  <2>2. CASE i <= j
    <3>1. p[i] \in Above(c.in)
      BY <1>2, <1>3, <2>2, PathAbove
    <3> QED
      BY <2>1, <3>1 DEF IsKin
  <2>3. CASE j < i
    <3>1. p[i] \in Below(c.in)
      BY <1>2, <1>3, <2>3 DEF IsPath
    <3> QED
      BY <2>1, <3>1 DEF IsKin
  <2> QED
    BY <1>2, <2>2, <2>3
<1>4. ASSUME c.prefix \in Scope, c.prefix # None, c.name \in DOMAIN ClassFuncMap(c.prefix),
             f = ClassFuncMap(c.prefix)[c.name]
      PROVE  IsKin(f, c)
  <2>1. Belongs(f, c.prefix)
    BY <1>4, TablesOffer
  <2> QED
    BY <1>4, <2>1 DEF IsKin
<1> QED
  BY <1>1, <1>3, <1>4, LookupIs

\* A round may take place with a stack that holds what the scopes of a path
\* offer, if what is scheduled is in these scopes.
IsRoundOn(round, p) ==
  /\ round.stack \in Seq(Entry) /\ p \in Seq(Scope)
  /\ Len(round.stack) = Len(p) /\ IsPath(p) /\ OffersOwn(round.stack, p)
  /\ \A sc \in round.schedule : \E j \in DOMAIN p : p[j] = sc.call.in

IsKinRound(round) == \E p : IsRoundOn(round, p)

\* After such rounds all calls are bound to kin, if they were before.
LEMMA RoundsBindKin ==
  ASSUME TypeInv, BindsToKin,
         NEW rounds, NEW n \in Nat, DOMAIN rounds \in SUBSET (1 .. n),
         \A i \in DOMAIN rounds : IsKinRound(rounds[i]),
         NEW c \in design.calls, BoundAfter(rounds)[c] # None
  PROVE  IsKin(BoundAfter(rounds)[c], c)
<1>1. CASE BoundAfter(rounds)[c] = bound[c]
  BY <1>1 DEF BindsToKin, IsKin
<1>2. ASSUME NEW i \in DOMAIN rounds, BindsIn(rounds[i], c),
             BoundAfter(rounds)[c] = Lookup(rounds[i].stack, c.name, c.prefix)
      PROVE  IsKin(BoundAfter(rounds)[c], c)
  <2> DEFINE round == rounds[i]
             f == Lookup(round.stack, c.name, c.prefix)
  <2>1. f # None /\ [call |-> c, kind |-> f.kind] \in round.schedule
    BY <1>2 DEF BindsIn
  <2>2. PICK p : IsRoundOn(round, p)
    BY DEF IsKinRound
  <2>3. /\ round.stack \in Seq(Entry) /\ p \in Seq(Scope)
        /\ Len(round.stack) = Len(p) /\ IsPath(p) /\ OffersOwn(round.stack, p)
        /\ \A sc \in round.schedule : \E j \in DOMAIN p : p[j] = sc.call.in
    BY <2>2 DEF IsRoundOn
  <2>4. PICK j \in DOMAIN p : p[j] = c.in
    <3>1. [call |-> c, kind |-> f.kind].call = c
      OBVIOUS
    <3> HIDE DEF round, f
    <3> QED
      BY <2>1, <2>3, <3>1
  <2>5. IsKin(f, c)
    <3> HIDE DEF round
    <3> QED
      BY <2>1, <2>3, <2>4, MeantIsKin
  <2> QED
    BY <1>2, <2>5
<1> QED
  BY <1>1, <1>2, BoundAfterIs

\* The invariant after a step is a matter of the new stack and the new bindings.
LEMMA KinAfter ==
  ASSUME design' = design,
         \A sc \in scheduled' : \E i \in DOMAIN walk' : walk'[i] = sc.call.in,
         OffersOwn(instStack', walk'),
         \A c \in design.calls : bound'[c] # None => IsKin(bound'[c], c)
  PROVE  KinInv'
<1>1. OffersOwn(instStack, walk)'
  BY SameKin DEF OffersOwn
<1>2. (\A c \in design.calls : bound[c] # None => IsKin(bound[c], c))'
  BY SameKin
<1>3. BindsToKin'
  BY <1>2 DEF BindsToKin, IsKin
<1> QED
  BY <1>1, <1>3 DEF KinInv

\* A scope is entered that offers what is pushed for it.
LEMMA KinEnter ==
  ASSUME TypeInv, KinInv, NEW kind, CanEnter(kind), Descend, design' = design,
         NEW m \in Tables, \A n \in DOMAIN m : Belongs(m[n], Here),
         instStack' = Push(m),
         \A sc \in scheduled' : sc \in scheduled \/ sc.call.in = Here,
         \A c \in design.calls : bound'[c] # None => IsKin(bound'[c], c)
  PROVE  KinInv'
<1>1. Here \in Scope /\ Len(walk) \in Nat /\ DOMAIN walk = 1 .. Len(walk)
  BY CanEnterIs, WalkIs
<1>2. /\ walk' \in Seq(Scope) /\ Len(walk') = Len(walk) + 1
      /\ \A i \in 1 .. Len(walk) : walk'[i] = walk[i]
      /\ walk'[Len(walk) + 1] = Here
  BY DescendIs
<1>3. DOMAIN walk' = 1 .. Len(walk) + 1
  BY <1>1, <1>2
<1>4. \A sc \in scheduled' : \E i \in DOMAIN walk' : walk'[i] = sc.call.in
  <2>1. ASSUME NEW sc \in scheduled' PROVE \E i \in DOMAIN walk' : walk'[i] = sc.call.in
    <3>1. CASE sc \in scheduled
      <4>1. PICK i \in 1 .. Len(walk) : walk[i] = sc.call.in
        BY <1>1, <3>1 DEF KinInv
      <4> QED
        BY <1>1, <1>2, <1>3, <4>1
    <3>2. CASE sc.call.in = Here
      BY <1>1, <1>2, <1>3, <3>2
    <3> QED
      BY <2>1, <3>1, <3>2
  <2> QED
    BY <2>1
<1>5. OffersOwn(instStack', walk')
  <2> DEFINE e == [object |-> Here, funcMap |-> m]
  <2>1. e \in Entry /\ e.funcMap = m
    BY <1>1 DEF Entry
  <2>2. instStack \in Seq(Entry) /\ walk \in Seq(Scope) /\ Len(instStack) = Len(walk)
    BY DEF TypeInv
  <2>3. instStack' = Append(instStack, e) /\ walk' = Append(walk, Here)
    BY DEF Push, Descend
  <2> HIDE DEF e
  <2>4. OffersOwn(Append(instStack, e), Append(walk, Here))
    BY <1>1, <2>1, <2>2, OffersGrow DEF KinInv
  <2> QED
    BY <2>3, <2>4
<1> QED
  BY <1>4, <1>5, KinAfter

\* A scope is left, and everything that was scheduled has been bound.
LEMMA KinLeave ==
  ASSUME TypeInv, KinInv, NEW those, CanLeave(those), Ascend, Pop, design' = design,
         scheduled' = {},
         \A c \in design.calls : bound'[c] # None => IsKin(bound'[c], c)
  PROVE  KinInv'
<1>1. /\ walk # <<>> /\ Len(walk) \in Nat \ {0}
      /\ walk' \in Seq(Scope) /\ Len(walk') = Len(walk) - 1
      /\ \A i \in 1 .. Len(walk) - 1 : walk'[i] = walk[i]
  BY AscendIs
<1>2. \A i \in 1 .. Len(walk) - 1 : instStack'[i] = instStack[i]
  BY <1>1, PopIs
<1>3. DOMAIN walk' = 1 .. Len(walk) - 1 /\ DOMAIN walk = 1 .. Len(walk)
  BY <1>1, WalkIs
<1>4. OffersOwn(instStack', walk')
  <2>1. \A i \in DOMAIN walk' : i \in DOMAIN walk /\ instStack'[i] = instStack[i] /\ walk'[i] = walk[i]
    BY <1>1, <1>2, <1>3
  <2> QED
    BY <2>1 DEF KinInv, OffersOwn
<1> QED
  BY <1>4, KinAfter

\* A module that has classes binds the calls around it, its own and those of the
\* classes early, all of them in rounds that bind kin.
LEMMA ModuleRounds ==
  ASSUME TypeInv, PathInv, KinInv, CanEnter("module"), NEW r \in Classes
  PROVE  IsRoundOn(Rounds[r], Append(Append(walk, Here), Members[r]))
<1> DEFINE k == Members[r]
           e == [object |-> Here, funcMap |-> FuncMap(taskFuncs[Here])]
           f == [object |-> k, funcMap |-> ClassFuncMap(k)]
           p == Append(walk, Here)
           q == Append(p, k)
<1>1. Here \in Scope /\ k \in Scope /\ Rounds[r].stack = Within(k)
      /\ Rounds[r].schedule = Pending(r) /\ Within(k) \in Seq(Entry)
  BY CanEnterIs, RoundsAre
<1>2. /\ walk \in Seq(Scope) /\ instStack \in Seq(Entry) /\ Len(instStack) = Len(walk)
      /\ taskFuncs[Here] \in Seq(Func)
  BY <1>1 DEF TypeInv
<1>3. e \in Entry /\ f \in Entry
  BY <1>1, <1>2, FuncMapIsTable, ClassFuncMapIs DEF Entry
<1>4. Within(k) = Append(Append(instStack, e), f)
  BY DEF Within, Original, Push
<1>5. /\ p \in Seq(Scope) /\ Len(p) = Len(walk) + 1 /\ p[Len(walk) + 1] = Here
      /\ \A i \in 1 .. Len(walk) : p[i] = walk[i]
      /\ Append(instStack, e) \in Seq(Entry) /\ Len(Append(instStack, e)) = Len(walk) + 1
  <2> HIDE DEF e, k
  <2> QED
    BY <1>1, <1>2, <1>3, AppendProperties
<1>6. IsPath(p)
  BY <1>1, <1>2, HereIsChild, PathGrows DEF PathInv
<1>7. Here \in Comes(k)
  <2>1. r \in DOMAIN design.children[Here] /\ k = design.children[Here][r]
    BY DEF Classes, Members
  <2> QED
    BY <1>1, <2>1 DEF Comes
<1>8. /\ q \in Seq(Scope) /\ Len(q) = Len(walk) + 2 /\ q[Len(walk) + 2] = k
      /\ \A i \in 1 .. Len(walk) + 1 : q[i] = p[i]
  <2> HIDE DEF k, p
  <2> QED
    BY <1>1, <1>2, <1>5, AppendProperties
<1>9. IsPath(q)
  <2> HIDE DEF k, p
  <2> QED
    BY <1>1, <1>2, <1>5, <1>6, <1>7, PathGrows DEF q
<1>10. \A n \in DOMAIN e.funcMap : Belongs(e.funcMap[n], Here)
  BY <1>1, TablesOffer
<1>11. \A n \in DOMAIN f.funcMap : Belongs(f.funcMap[n], k)
  <2> HIDE DEF k
  <2> QED
    BY <1>1, TablesOffer
<1> HIDE DEF k, e, f, p, q
<1>12. OffersOwn(Append(instStack, e), p)
  BY <1>1, <1>2, <1>3, <1>10, OffersGrow DEF p, KinInv
<1>13. OffersOwn(Within(k), q)
  BY <1>1, <1>3, <1>4, <1>5, <1>11, <1>12, OffersGrow DEF q
<1>14. Len(Within(k)) = Len(q)
  BY <1>1, <1>2, <1>3, <1>4, <1>5, <1>8, AppendProperties
<1>15. \A i \in 1 .. Len(walk) : q[i] = walk[i]
  BY <1>2, <1>5, <1>8
<1>16. q[Len(walk) + 1] = Here /\ q[Len(walk) + 2] = k /\ DOMAIN q = 1 .. Len(walk) + 2
  <2>1. Len(walk) + 1 \in 1 .. Len(walk) + 1 /\ Len(walk) + 2 \in Nat
    BY <1>2
  <2>2. q[Len(walk) + 1] = Here
    BY <1>5, <1>8, <2>1
  <2>3. DOMAIN q = 1 .. Len(walk) + 2
    BY <1>8, <2>1
  <2> QED
    BY <1>8, <2>2, <2>3
<1>17. ASSUME NEW sc \in Pending(r)
       PROVE  \E j \in DOMAIN q : q[j] = sc.call.in
  <2>1. \/ sc \in scheduled
        \/ \E c \in CallsOf(Here) : sc.call = c
        \/ \E c \in CallsOf(k) : sc.call = c
    BY <1>17 DEF Pending, InClass, Early, Own, CloneOf, k
  <2>2. CASE sc \in scheduled
    <3>1. PICK i \in 1 .. Len(walk) : walk[i] = sc.call.in
      BY <2>2, WalkIs DEF KinInv
    <3> QED
      BY <1>2, <1>15, <1>16, <3>1
  <2>3. CASE \E c \in CallsOf(Here) \cup CallsOf(k) : sc.call = c
    <3>1. sc.call.in = Here \/ sc.call.in = k
      BY <2>3 DEF CallsOf
    <3> QED
      BY <1>2, <1>16, <3>1
  <2> QED
    BY <2>1, <2>2, <2>3
<1> QED
  BY <1>1, <1>8, <1>9, <1>13, <1>14, <1>17 DEF IsRoundOn, q, p, k

\* Leaving a package binds its calls among the functions it has cloned, on the
\* stack of the walk.
LEMMA PackageRound ==
  ASSUME TypeInv, PathInv, KinInv, walk # <<>>
  PROVE  IsRoundOn(Round(AllKnown, PackageSchedule), walk)
<1> DEFINE s == Last(walk)
           all == Len(taskFuncs[s])
<1>1. /\ walk \in Seq(Scope) /\ Len(walk) \in Nat \ {0} /\ DOMAIN walk = 1 .. Len(walk)
      /\ s \in Scope /\ s = walk[Len(walk)]
  BY WalkIs DEF Last
<1>2. all \in 0 .. all
  <2>1. taskFuncs[s] \in Seq(Func)
    BY <1>1 DEF TypeInv
  <2> QED
    BY <2>1
<1>3. /\ AllKnown \in Seq(Entry) /\ Len(AllKnown) = Len(walk)
      /\ \A j \in 1 .. Len(walk) - 1 : AllKnown[j] = instStack[j]
      /\ AllKnown[Len(walk)].funcMap = ClonedFuncMap(s, all)
  BY <1>2, KnownIs DEF AllKnown
<1>4. \A n \in DOMAIN ClonedFuncMap(s, all) : Belongs(ClonedFuncMap(s, all)[n], s)
  BY <1>1, <1>2, TablesOffer
<1> HIDE DEF s, all
<1>5. ASSUME NEW i \in DOMAIN walk, NEW n \in DOMAIN AllKnown[i].funcMap
      PROVE  Belongs(AllKnown[i].funcMap[n], walk[i])
  <2>1. CASE i \in 1 .. Len(walk) - 1
    BY <1>1, <1>3, <1>5, <2>1 DEF KinInv, OffersOwn
  <2>2. CASE i = Len(walk)
    BY <1>1, <1>3, <1>4, <1>5, <2>2
  <2> QED
    BY <1>1, <2>1, <2>2
<1>6. OffersOwn(AllKnown, walk)
  BY <1>5 DEF OffersOwn
<1>7. ASSUME NEW sc \in PackageSchedule
      PROVE  \E j \in DOMAIN walk : walk[j] = sc.call.in
  <2>1. sc \in scheduled \/ \E c \in CallsOf(s) : sc.call = c
    BY <1>7 DEF PackageSchedule, PackageClones, CloneOf, s
  <2>2. CASE sc \in scheduled
    BY <2>2 DEF KinInv
  <2>3. CASE \E c \in CallsOf(s) : sc.call = c
    BY <1>1, <2>3 DEF CallsOf
  <2> QED
    BY <2>1, <2>2, <2>3
<1>8. IsPath(walk)
  BY DEF PathInv
<1> QED
  BY <1>1, <1>3, <1>6, <1>7, <1>8 DEF IsRoundOn, Round

\* Entering a module keeps the invariant.
LEMMA KinModule ==
  ASSUME TypeInv, PathInv, KinInv, EnterModule
  PROVE  KinInv'
<1>1. CanEnter("module") /\ Descend /\ design' = design
  BY DEF EnterModule
<1>2. /\ bound' = BoundAfter(Rounds) /\ instStack' = Cloned
      /\ scheduled' = (IF Classes = {} THEN Early ELSE {}) \cup Late
      /\ kinds' = KindsAfter(Own \cup Late \cup UNION {InClass(i) : i \in Classes})
  BY EnterModuleIs
<1>3. Here \in Scope
  BY <1>1, CanEnterIs
<1>4. Len(taskFuncs[Here]) \in 0 .. Len(taskFuncs[Here])
  <2>1. taskFuncs[Here] \in Seq(Func)
    BY <1>3 DEF TypeInv
  <2> QED
    BY <2>1
<1> DEFINE m == ClonedFuncMap(Here, Len(taskFuncs[Here]))
<1>5. m \in Tables /\ (\A n \in DOMAIN m : Belongs(m[n], Here)) /\ instStack' = Push(m)
  BY <1>1, <1>2, <1>3, <1>4, ClonedIs, TablesOffer DEF Cloned
<1>6. ASSUME NEW sc \in scheduled'
      PROVE  sc \in scheduled \/ sc.call.in = Here
  BY <1>2, <1>6 DEF Early, Own, Late, CloneOf, CallsOf
<1>7. ASSUME NEW c \in design.calls, bound'[c] # None
      PROVE  IsKin(bound'[c], c)
  <2>1. PICK n \in Nat : DOMAIN Rounds \in SUBSET (1 .. n)
    <3>1. Members \in Seq(Scope) /\ DOMAIN Rounds \in SUBSET (1 .. Len(Members))
      BY <1>1, RoundsAre
    <3>2. Len(Members) \in Nat
      BY <3>1
    <3> QED
      BY <3>1, <3>2
  <2>2. \A i \in DOMAIN Rounds : IsKinRound(Rounds[i])
    <3>1. DOMAIN Rounds = Classes
      BY <1>1, RoundsAre
    <3> QED
      BY <1>1, <3>1, ModuleRounds DEF IsKinRound
  <2>3. BoundAfter(Rounds)[c] # None
    BY <1>2, <1>7
  <2>4. IsKin(BoundAfter(Rounds)[c], c)
    BY <2>1, <2>2, <2>3, RoundsBindKin DEF KinInv
  <2> QED
    BY <1>2, <2>4
<1> HIDE DEF m
<1> QED
  BY <1>1, <1>5, <1>6, <1>7, KinEnter

\* So does entering any other scope.
LEMMA KinEnterOther ==
  ASSUME TypeInv, KinInv,
         EnterUndefinedModule \/ EnterInterface \/ EnterClass \/ EnterPackage
  PROVE  KinInv'
<1>1. \A c \in design.calls : bound[c] # None => IsKin(bound[c], c)
  BY DEF KinInv, BindsToKin, IsKin
<1>2. CASE EnterUndefinedModule \/ EnterInterface
  <2>1. PICK kind : CanEnter(kind) /\ Descend /\ design' = design
    BY <1>2 DEF EnterUndefinedModule, EnterInterface
  <2>2. Here \in Scope
    BY <2>1, CanEnterIs
  <2>3. taskFuncs[Here] \in Seq(Func)
    BY <2>2 DEF TypeInv
  <2>4. instStack' = Push(FuncMap(taskFuncs[Here])) /\ scheduled' = scheduled /\ bound' = bound
    BY <1>2 DEF EnterUndefinedModule, EnterInterface
  <2>5. /\ FuncMap(taskFuncs[Here]) \in Tables
        /\ \A n \in DOMAIN FuncMap(taskFuncs[Here]) : Belongs(FuncMap(taskFuncs[Here])[n], Here)
    BY <2>2, <2>3, FuncMapIsTable, TablesOffer
  <2> QED
    BY <1>1, <2>1, <2>4, <2>5, KinEnter
<1>3. CASE EnterClass
  <2>1. CanEnter("class") /\ Descend /\ design' = design
    BY <1>3 DEF EnterClass
  <2>2. Here \in Scope
    BY <2>1, CanEnterIs
  <2>3. /\ instStack' = Push(ClassFuncMap(Here)) /\ bound' = bound
        /\ scheduled' = scheduled \cup {CloneOf(c, instStack') : c \in CallsOf(Here)}
    BY <1>3 DEF EnterClass
  <2>4. /\ ClassFuncMap(Here) \in Tables
        /\ \A n \in DOMAIN ClassFuncMap(Here) : Belongs(ClassFuncMap(Here)[n], Here)
    BY <2>2, ClassFuncMapIs, TablesOffer
  <2>5. \A sc \in scheduled' : sc \in scheduled \/ sc.call.in = Here
    BY <2>3 DEF CloneOf, CallsOf
  <2> QED
    BY <1>1, <2>1, <2>3, <2>4, <2>5, KinEnter
<1>4. CASE EnterPackage
  <2>1. CanEnter("package") /\ Descend /\ design' = design
    BY <1>4 DEF EnterPackage
  <2>2. instStack' = Push(NoFuncs) /\ scheduled' = scheduled /\ bound' = bound
    BY <1>4 DEF EnterPackage
  <2>3. DOMAIN NoFuncs = {} /\ NoFuncs \in Tables
    <3>1. NoFuncs \in [{} -> Func] /\ {} \in SUBSET Name
      BY DEF NoFuncs
    <3> QED
      BY <3>1 DEF Tables, NoFuncs
  <2> QED
    BY <1>1, <2>1, <2>2, <2>3, KinEnter
<1> QED
  BY <1>2, <1>3, <1>4

\* So does leaving any scope.
LEMMA KinLeaveAny ==
  ASSUME TypeInv, PathInv, KinInv, LeaveInstance \/ LeavePackage
  PROVE  KinInv'
<1>1. ASSUME NEW stack, NEW schedule, IsKinRound(Round(stack, schedule)),
             bound' = BoundAfter(<<Round(stack, schedule)>>),
             NEW c \in design.calls, bound'[c] # None
      PROVE  IsKin(bound'[c], c)
  <2> DEFINE rounds == <<Round(stack, schedule)>>
  <2>1. 1 \in Nat /\ DOMAIN rounds \in SUBSET (1 .. 1)
    BY OneRound
  <2>2. \A i \in DOMAIN rounds : IsKinRound(rounds[i])
    <3>1. \A i \in DOMAIN rounds : rounds[i] = Round(stack, schedule)
      OBVIOUS
    <3> QED
      BY <1>1, <3>1
  <2>3. BoundAfter(rounds)[c] # None
    BY <1>1
  <2> HIDE DEF rounds
  <2>4. IsKin(BoundAfter(rounds)[c], c)
    BY <2>1, <2>2, <2>3, RoundsBindKin DEF KinInv
  <2> QED
    BY <1>1, <2>4 DEF rounds
<1>2. CASE LeaveInstance
  <2>1. /\ CanLeave({"module", "interface", "class"}) /\ Ascend /\ Pop /\ design' = design
        /\ scheduled' = {} /\ bound' = BoundAfter(<<Round(instStack, scheduled)>>)
    BY <1>2 DEF LeaveInstance
  <2>2. /\ instStack \in Seq(Entry) /\ walk \in Seq(Scope) /\ Len(instStack) = Len(walk)
    BY DEF TypeInv
  <2>3. IsKinRound(Round(instStack, scheduled))
    BY <2>2 DEF KinInv, PathInv, IsKinRound, IsRoundOn, Round
  <2>4. \A c \in design.calls : bound'[c] # None => IsKin(bound'[c], c)
    BY <1>1, <2>1, <2>3
  <2> QED
    BY <2>1, <2>4, KinLeave
<1>3. CASE LeavePackage
  <2>1. /\ CanLeave({"package"}) /\ Ascend /\ Pop /\ design' = design
        /\ scheduled' = {}
    BY <1>3 DEF LeavePackage
  <2>2. walk # <<>>
    BY <2>1 DEF CanLeave
  <2>3. IsKinRound(Round(AllKnown, PackageSchedule))
    BY <2>2, PackageRound DEF IsKinRound
  <2>4. bound' = BoundAfter(<<Round(AllKnown, PackageSchedule)>>)
    BY <1>3, LeavePackageIs
  <2>5. \A c \in design.calls : bound'[c] # None => IsKin(bound'[c], c)
    BY <1>1, <2>3, <2>4
  <2> QED
    BY <2>1, <2>5, KinLeave
<1> QED
  BY <1>2, <1>3

\* The invariant of kin holds at the start.
LEMMA KinInit == Init => KinInv
<1> SUFFICES ASSUME Init PROVE KinInv
  OBVIOUS
<1>1. walk = <<>> /\ scheduled = {} /\ bound = [c \in design.calls |-> None]
  BY DEF Init
<1> QED
  BY <1>1 DEF KinInv, OffersOwn, BindsToKin

\* It holds after every step.
LEMMA KinStep ==
  ASSUME TypeInv, PathInv, KinInv, [Next]_vars
  PROVE  KinInv'
<1>1. CASE UNCHANGED vars
  <2>1. /\ design' = design /\ scheduled' = scheduled /\ walk' = walk
        /\ instStack' = instStack /\ bound' = bound
    BY <1>1 DEF vars
  <2>2. \A c \in design.calls : bound'[c] # None => IsKin(bound'[c], c)
    BY <2>1 DEF KinInv, BindsToKin, IsKin
  <2>3. OffersOwn(instStack', walk')
    BY <2>1 DEF KinInv
  <2>4. \A sc \in scheduled' : \E i \in DOMAIN walk' : walk'[i] = sc.call.in
    BY <2>1 DEF KinInv
  <2> QED
    BY <2>1, <2>2, <2>3, <2>4, KinAfter
<1>2. CASE EndList
  <2>1. /\ design' = design /\ scheduled' = scheduled /\ walk' = walk
        /\ instStack' = instStack /\ bound' = bound
    BY <1>2 DEF EndList
  <2>2. \A c \in design.calls : bound'[c] # None => IsKin(bound'[c], c)
    BY <2>1 DEF KinInv, BindsToKin, IsKin
  <2>3. OffersOwn(instStack', walk')
    BY <2>1 DEF KinInv
  <2>4. \A sc \in scheduled' : \E i \in DOMAIN walk' : walk'[i] = sc.call.in
    BY <2>1 DEF KinInv
  <2> QED
    BY <2>1, <2>2, <2>3, <2>4, KinAfter
<1>3. CASE Next
  BY <1>2, <1>3, KinModule, KinEnterOther, KinLeaveAny DEF Next
<1> QED
  BY <1>1, <1>3

\* Whatever the design, and whatever confuses a call: it is never bound to a
\* function of a scope that the walk neither comes through to its own nor goes to
\* from there, and that is not the class of its prefix.
THEOREM CallsStayInKin == Spec => []BindsToKin
<1>1. KinInv => BindsToKin
  BY DEF KinInv
<1>2. Init => TypeInv /\ PathInv /\ KinInv
  BY TypeInit, PathInit, KinInit
<1>3. TypeInv /\ PathInv /\ KinInv /\ [Next]_vars => (TypeInv /\ PathInv /\ KinInv)'
  BY TypeStep, PathStep, KinStep
<1> QED
  BY <1>1, <1>2, <1>3, PTL DEF Spec

-----------------------------------------------------------------------------
(***************************************************************************)
(* No module and no package is entered twice.                              *)
(***************************************************************************)
\* What leads to such a scope is the module that a module is written in.
LEMMA ComesOnce ==
  ASSUME design \in Designs, NEW s \in Scope, IsOnce(s)
  PROVE  /\ \A p \in Comes(s) : /\ design.kind[s] = "module" /\ design.around[s] = p
                                /\ design.kind[p] = "module"
         /\ \A l \in DOMAIN design.tops : design.tops[l] = s => Comes(s) = {}
<1>1. IsNested(design)
  BY DesignIs
<1>2. ASSUME NEW p \in Comes(s)
      PROVE  /\ design.kind[s] = "module" /\ design.around[s] = p
             /\ design.kind[p] = "module"
  <2>1. PICK i \in DOMAIN design.children[p] : p \in Scope /\ design.children[p][i] = s
    BY DEF Comes
  <2>2. /\ design.kind[s] # "package"
        /\ design.kind[s] = "module" => design.kind[p] = "module"
        /\ design.around[s] = p \/ MayLead(design, p, s)
    BY <1>1, <2>1 DEF IsNested
  <2> QED
    BY <2>2 DEF IsOnce, MayLead
<1>3. ASSUME NEW l \in DOMAIN design.tops, design.tops[l] = s, NEW p \in Comes(s)
      PROVE  FALSE
  <2>1. s # None /\ p # None
    BY NoneAssumption DEF Comes
  <2>2. design.around[s] = None
    BY <1>1, <1>3, <2>1 DEF IsNested
  <2> QED
    BY <1>2, <2>1, <2>2
<1> QED
  BY <1>2, <1>3

\* What is ahead contains what is still to be entered and is closed under
\* children; it is the least such set.
LEMMA AheadIs ==
  ASSUME design \in Designs, NEW t
  PROVE  /\ AheadOf(t) \in SUBSET {s \in Scope : IsOnce(s)}
         /\ Roots(t) \subseteq AheadOf(t)
         /\ \A n \in AheadOf(t) : \A i \in DOMAIN design.children[n] :
              IsOnce(design.children[n][i]) => design.children[n][i] \in AheadOf(t)
         /\ \A S \in SUBSET Scope :
              /\ Roots(t) \subseteq S
              /\ \A n \in S : \A i \in DOMAIN design.children[n] :
                   IsOnce(design.children[n][i]) => design.children[n][i] \in S
              => AheadOf(t) \subseteq S
<1> DEFINE O == {s \in Scope : IsOnce(s)}
<1>1. /\ DOMAIN Down = Scope
      /\ \A n \in Scope : Down[n] = {s \in ToSet(design.children[n]) : IsOnce(s)}
  BY DEF Down
<1>2. \A n \in Scope : \A i \in DOMAIN design.children[n] :
        /\ design.children[n][i] \in Scope
        /\ IsOnce(design.children[n][i]) => design.children[n][i] \in Down[n]
  <2>1. \A n \in Scope : design.children[n] \in Seq(Scope)
    BY DesignIs
  <2> QED
    BY <1>1, <2>1 DEF ToSet
<1>3. AheadOf(t) \in SUBSET Scope /\ Roots(t) \cap Scope \subseteq AheadOf(t)
  BY <1>1, ReachedAreNodes, ReachedHasRoots DEF AheadOf
<1>4. IsClosed(Down, AheadOf(t))
  BY ReachedIsClosed DEF AheadOf
<1>5. \A n \in AheadOf(t) : \A i \in DOMAIN design.children[n] :
        IsOnce(design.children[n][i]) => design.children[n][i] \in AheadOf(t)
  BY <1>1, <1>2, <1>3, <1>4 DEF IsClosed
<1>6. ASSUME NEW S \in SUBSET Scope, Roots(t) \subseteq S,
             \A n \in S : \A i \in DOMAIN design.children[n] :
               IsOnce(design.children[n][i]) => design.children[n][i] \in S
      PROVE  AheadOf(t) \subseteq S
  <2>1. IsClosed(Down, S)
    BY <1>1, <1>6 DEF IsClosed, ToSet
  <2>2. S \in SUBSET DOMAIN Down
    BY <1>1
  <2> QED
    BY <1>6, <2>1, <2>2, ReachedIsLeast DEF AheadOf
<1>7. Roots(t) \subseteq O
  BY DEF Roots
<1>8. \A n \in O : \A i \in DOMAIN design.children[n] :
        IsOnce(design.children[n][i]) => design.children[n][i] \in O
  BY <1>2
<1>9. AheadOf(t) \subseteq O
  <2>1. O \in SUBSET Scope
    OBVIOUS
  <2> HIDE DEF O
  <2> QED
    BY <1>6, <1>7, <1>8, <2>1
<1> QED
  BY <1>3, <1>5, <1>6, <1>7, <1>9

\* With fewer scopes to enter nothing comes ahead.
LEMMA AheadShrinks ==
  ASSUME design \in Designs, NEW t, Roots(t) \subseteq Roots(todo)
  PROVE  AheadOf(t) \subseteq Ahead
<1>1. /\ Ahead \in SUBSET Scope /\ Roots(todo) \subseteq Ahead
      /\ \A n \in Ahead : \A i \in DOMAIN design.children[n] :
           IsOnce(design.children[n][i]) => design.children[n][i] \in Ahead
  BY AheadIs DEF Ahead
<1>2. Roots(t) \subseteq Ahead
  BY <1>1
<1> HIDE DEF Ahead
<1> QED
  BY <1>1, <1>2, AheadIs

\* A module or a package that is entered is the only one that is not ahead any more.
LEMMA AheadEnter ==
  ASSUME TypeInv, PathInv, FreshInv, NEW kind, CanEnter(kind), Descend
  PROVE  /\ IsOnce(Here) => Here \in Ahead
         /\ AheadOf(todo') \subseteq Ahead \ {Here}
<1>1. /\ Here \in Scope /\ Current \in Seq(Item) /\ Current # <<>>
      /\ Current = todo[Len(walk) + 1] /\ Len(walk) \in Nat /\ design \in Designs
  BY CanEnterIs DEF TypeInv
<1>2. /\ todo' \in Seq(Seq(Item)) /\ Len(todo') = Len(walk) + 2
      /\ \A i \in 1 .. Len(walk) : todo'[i] = todo[i]
      /\ todo'[Len(walk) + 1] = Tail(Current)
      /\ todo'[Len(walk) + 2] = Beyond
  BY DescendIs
<1>3. /\ DOMAIN todo = 1 .. Len(walk) + 1 /\ DOMAIN todo' = 1 .. Len(walk) + 2
      /\ DOMAIN walk = 1 .. Len(walk)
  <2>1. todo \in Seq(Seq(Item)) /\ Len(todo) = Len(walk) + 1
    BY DEF TypeInv
  <2> QED
    BY <1>2, <2>1, WalkIs
<1>4. 1 \in DOMAIN Current /\ Here = Current[1]
  BY <1>1 DEF Here
<1>5. \A k \in DOMAIN Tail(Current) :
        k + 1 \in DOMAIN Current /\ Tail(Current)[k] = Current[k + 1] /\ k + 1 # 1
  <2>1. \A k \in DOMAIN Tail(Current) : k \in Nat /\ k > 0
    BY <1>1, HeadTailProperties
  <2> QED
    BY <1>1, <2>1, HeadTailProperties
<1>6. Len(walk) + 1 \in DOMAIN todo
  BY <1>1, <1>3
<1>7. \A i \in DOMAIN todo : \A k \in DOMAIN todo[i] :
        todo[i][k] \in Scope /\ IsOnce(todo[i][k]) => todo[i][k] \in Roots(todo)
  BY DEF Roots, ToSet
<1>8. \A i \in DOMAIN todo : \A k \in DOMAIN todo[i] :
        todo[i][k] \in Scope /\ IsOnce(todo[i][k]) => todo[i][k] \in Ahead
  BY <1>1, <1>7, AheadIs DEF Ahead
<1>9. IsOnce(Here) => Here \in Ahead
  BY <1>1, <1>4, <1>6, <1>8
<1>10. \A n \in Ahead : /\ n \in Scope /\ IsOnce(n)
                        /\ \A i \in DOMAIN design.children[n] :
                             IsOnce(design.children[n][i]) => design.children[n][i] \in Ahead
  BY <1>1, AheadIs DEF Ahead
<1>11. ASSUME NEW n \in Scope, NEW i \in DOMAIN design.children[n],
              design.children[n][i] = Here, IsOnce(Here)
       PROVE  Len(walk) \in DOMAIN walk /\ walk[Len(walk)] = n
  <2>1. n \in Comes(Here)
    BY <1>11 DEF Comes
  <2>2. Len(walk) > 0
    BY <1>1, <1>11, <2>1, HereIsChild, ComesOnce
  <2>3. walk[Len(walk)] \in Comes(Here)
    BY <2>2, HereIsChild
  <2> QED
    BY <1>1, <1>3, <1>11, <2>1, <2>2, <2>3, ComesOnce
<1>12. ASSUME NEW i \in DOMAIN todo', NEW k \in DOMAIN todo'[i],
              todo'[i][k] \in Scope, IsOnce(todo'[i][k])
       PROVE  todo'[i][k] \in Ahead \ {Here}
  <2>1. CASE i \in 1 .. Len(walk)
    <3>1. todo'[i] = todo[i] /\ i \in DOMAIN todo
      BY <1>1, <1>2, <1>3, <2>1
    <3>2. SUFFICES ASSUME todo[i][k] = Here, IsOnce(Here) PROVE FALSE
      BY <1>8, <1>12, <3>1
    <3>3. Len(walk) > 0 /\ Len(walk) \in DOMAIN walk
      BY <1>1, <1>3, <2>1
    <3>4. walk[Len(walk)] \in Comes(Here)
      BY <3>3, HereIsChild
    <3>5. CASE i = 1
      <4>1. PICK l \in DOMAIN design.tops : Here = design.tops[l]
        BY <1>12, <3>1, <3>2, <3>5 DEF PathInv
      <4> QED
        BY <1>1, <3>2, <3>4, <4>1, ComesOnce
    <3>6. CASE i > 1
      <4>1. PICK j \in DOMAIN walk : i = j + 1 /\ j # Len(walk)
        <5>1. i - 1 \in DOMAIN walk /\ i - 1 # Len(walk) /\ i = (i - 1) + 1
          BY <1>1, <1>3, <2>1, <3>6
        <5> QED
          BY <5>1
      <4>2. walk[j] \in Comes(Here)
        BY <1>12, <3>1, <3>2, <4>1 DEF PathInv
      <4>3. walk[j] = walk[Len(walk)] /\ design.kind[walk[j]] = "module"
        BY <1>1, <3>2, <3>4, <4>2, ComesOnce
      <4>4. IsOnce(walk[j])
        BY <4>3 DEF IsOnce
      <4> QED
        BY <3>3, <4>1, <4>3, <4>4 DEF FreshInv
    <3> QED
      BY <1>1, <2>1, <3>5, <3>6
  <2>2. CASE i = Len(walk) + 1
    <3>1. k \in DOMAIN Tail(Current) /\ todo'[i][k] = Tail(Current)[k]
      BY <1>2, <1>12, <2>2
    <3>2. /\ k + 1 \in DOMAIN todo[Len(walk) + 1] /\ 1 \in DOMAIN todo[Len(walk) + 1]
          /\ todo'[i][k] = todo[Len(walk) + 1][k + 1] /\ k + 1 # 1
          /\ Here = todo[Len(walk) + 1][1]
      BY <1>1, <1>4, <1>5, <3>1
    <3>3. todo[Len(walk) + 1][k + 1] # todo[Len(walk) + 1][1]
      BY <1>6, <1>12, <3>2 DEF FreshInv
    <3> QED
      BY <1>6, <1>8, <1>12, <3>2, <3>3
  <2>3. CASE i = Len(walk) + 2
    <3>1. todo'[i] = Beyond
      BY <1>2, <2>3
    <3>2. k \in DOMAIN design.children[Here] /\ todo'[i][k] = design.children[Here][k]
      BY <1>12, <3>1 DEF Beyond
    <3>3. Here \in Comes(todo'[i][k])
      BY <1>1, <3>2 DEF Comes
    <3>4. design.kind[Here] = "module"
      BY <1>1, <1>12, <3>3, ComesOnce
    <3>5. Here \in Ahead
      BY <1>9, <3>4 DEF IsOnce
    <3>6. todo'[i][k] \in Ahead
      BY <1>10, <1>12, <3>2, <3>5
    <3>7. todo'[i][k] # Here
      BY <1>1, <1>11, <1>12, <3>2, <3>5 DEF FreshInv
    <3> QED
      BY <3>6, <3>7
  <2> QED
    BY <1>1, <1>3, <2>1, <2>2, <2>3
<1>13. Roots(todo') \subseteq Ahead \ {Here}
  BY <1>12 DEF Roots, ToSet
<1>14. AheadOf(todo') \subseteq Ahead \ {Here}
  <2> DEFINE S == Ahead \ {Here}
  <2>1. S \in SUBSET Scope
    BY <1>10
  <2>2. ASSUME NEW n \in S, NEW i \in DOMAIN design.children[n],
               IsOnce(design.children[n][i])
        PROVE  design.children[n][i] \in S
    <3>1. design.children[n][i] \in Ahead /\ n \in Scope /\ n \in Ahead
      BY <1>10, <2>2
    <3>2. design.children[n][i] # Here
      BY <1>11, <2>2, <3>1 DEF FreshInv
    <3> QED
      BY <3>1, <3>2
  <2>3. Roots(todo') \subseteq S
    BY <1>13
  <2> HIDE DEF S
  <2>4. AheadOf(todo') \subseteq S
    BY <1>1, <2>1, <2>2, <2>3, AheadIs
  <2> QED
    BY <2>4 DEF S
<1> QED
  BY <1>9, <1>14

\* Nothing comes ahead when a scope is left.
LEMMA AheadLeave ==
  ASSUME TypeInv, NEW those, CanLeave(those), Ascend
  PROVE  AheadOf(todo') \subseteq Ahead
<1>1. /\ Len(walk) \in Nat \ {0}
      /\ todo' \in Seq(Seq(Item)) /\ Len(todo') = Len(walk)
      /\ \A i \in 1 .. Len(walk) : todo'[i] = todo[i]
  BY AscendIs
<1>2. todo \in Seq(Seq(Item)) /\ Len(todo) = Len(walk) + 1 /\ design \in Designs
  BY DEF TypeInv
<1>3. \A i \in DOMAIN todo' : i \in DOMAIN todo /\ todo'[i] = todo[i]
  <2>1. DOMAIN todo' = 1 .. Len(walk) /\ DOMAIN todo = 1 .. Len(walk) + 1
    BY <1>1, <1>2
  <2> QED
    BY <1>1, <2>1
<1>4. Roots(todo') \subseteq Roots(todo)
  BY <1>3 DEF Roots
<1> QED
  BY <1>2, <1>4, AheadShrinks

\* What is still to be entered at the end of a list was to be entered before.
LEMMA EndListKeeps ==
  ASSUME TypeInv, EndList
  PROVE  /\ design' = design /\ walk' = walk /\ DOMAIN todo' = DOMAIN todo
         /\ \A i \in DOMAIN todo' :
              \/ todo'[i] = todo[i]
              \/ \A k \in DOMAIN todo'[i] : /\ k \in Nat /\ k + 1 \in DOMAIN todo[i]
                                            /\ todo'[i][k] = todo[i][k + 1]
<1>1. /\ \A i \in 1 .. Len(walk) : todo'[i] = todo[i]
      /\ todo'[Len(walk) + 1] = Tail(todo[Len(walk) + 1])
      /\ todo[Len(walk) + 1] \in Seq(Item) /\ todo[Len(walk) + 1] # <<>>
      /\ design' = design /\ walk' = walk /\ DOMAIN todo' = DOMAIN todo
      /\ DOMAIN todo = 1 .. Len(walk) + 1
  <2>1. todo \in Seq(Seq(Item)) /\ Len(todo) = Len(walk) + 1 /\ Len(walk) \in Nat
    BY DEF TypeInv
  <2>2. todo' \in Seq(Seq(Item)) /\ Len(todo') = Len(walk) + 1
    BY <2>1, EndListIs
  <2> QED
    BY <2>1, <2>2, EndListIs
<1>2. \A k \in DOMAIN Tail(todo[Len(walk) + 1]) :
        /\ k \in Nat /\ k + 1 \in DOMAIN todo[Len(walk) + 1]
        /\ Tail(todo[Len(walk) + 1])[k] = todo[Len(walk) + 1][k + 1]
  BY <1>1, HeadTailProperties
<1>3. \A i \in DOMAIN todo' : i \in 1 .. Len(walk) \/ i = Len(walk) + 1
  BY <1>1, WalkIs
<1> QED
  BY <1>1, <1>2, <1>3

\* Nothing comes ahead at the end of a list.
LEMMA AheadEndList ==
  ASSUME TypeInv, EndList
  PROVE  AheadOf(todo') \subseteq Ahead
<1>1. design \in Designs
  BY DEF TypeInv
<1>2. Roots(todo') \subseteq Roots(todo)
  BY EndListKeeps DEF Roots, ToSet
<1> QED
  BY <1>1, <1>2, AheadShrinks

-----------------------------------------------------------------------------
(***************************************************************************)
(* A call is bound once.                                                   *)
(***************************************************************************)
\* What BoundOnce says of a step.
KeepsBound ==
  \A c \in design.calls :
    bound[c] # None /\ design.kind[c.in] # "class" => bound'[c] = bound[c]

\* The calls whose scope has never been entered, or is the package the walk is in.
Untouched(b, sched, ahead, p) ==
  \A c \in design.calls :
    design.kind[c.in] # "class" =>
      /\ b[c] # None \/ (\E sc \in sched : sc.call = c) => c.in \notin ahead
      /\ ~ (b[c] # None /\ \E sc \in sched : sc.call = c)
      /\ design.kind[c.in] = "package" /\ (\E i \in DOMAIN p : p[i] = c.in) =>
           b[c] = None /\ ~ \E sc \in sched : sc.call = c

\* No module or package occurs twice on a path, or in what is still to be entered
\* in one scope.
Single(p) == \A i, j \in DOMAIN p : p[i] = p[j] /\ IsOnce(p[i]) => i = j
Apart(t) ==
  \A i \in DOMAIN t : \A k, l \in DOMAIN t[i] :
    t[i][k] = t[i][l] /\ t[i][k] \in Scope /\ IsOnce(t[i][k]) => k = l

\* The invariant in terms of its parts.
LEMMA FreshIs ==
  FreshInv <=>
    /\ \A i \in DOMAIN walk : walk[i] \notin Ahead
    /\ Single(walk)
    /\ Apart(todo)
    /\ Untouched(bound, scheduled, Ahead, walk)
BY DEF FreshInv, Single, Apart, Untouched, Scheduled

\* The same after a step.
LEMMA FreshAfter ==
  ASSUME design' = design,
         \A i \in DOMAIN walk' : walk'[i] \notin AheadOf(todo'),
         Single(walk'),
         Apart(todo'),
         Untouched(bound', scheduled', AheadOf(todo'), walk')
  PROVE  FreshInv'
<1>1. Ahead' = AheadOf(todo')
  BY DEF Ahead, AheadOf, Down, Roots, IsOnce
<1>2. (\A i \in DOMAIN walk : walk[i] \notin Ahead)'
  BY <1>1
<1>3. Apart(todo)'
  BY DEF Apart, IsOnce
<1>4. Untouched(bound, scheduled, Ahead, walk)'
  BY <1>1 DEF Untouched
<1>5. Single(walk)'
  BY DEF Single, IsOnce
<1> QED
  BY <1>2, <1>3, <1>4, <1>5 DEF FreshInv, Single, Apart, Untouched, Scheduled

\* A scope is entered: only what was scheduled, or is in this scope, is bound, and
\* only what is in this scope is scheduled, if it is a module or a class.
LEMMA FreshEnter ==
  ASSUME TypeInv, PathInv, FreshInv, NEW kind, CanEnter(kind), Descend, design' = design,
         \A c \in design.calls : design.kind[c.in] # "class" =>
           /\ bound'[c] = bound[c] \/ Scheduled(c) \/ (c.in = Here /\ kind = "module")
           /\ (\E sc \in scheduled' : sc.call = c) =>
                Scheduled(c) \/ (c.in = Here /\ kind = "module")
           /\ ~ (bound'[c] # bound[c] /\ \E sc \in scheduled' : sc.call = c)
  PROVE  FreshInv' /\ KeepsBound
<1>1. /\ Here \in Scope /\ design.kind[Here] = kind /\ Len(walk) \in Nat
      /\ Current \in Seq(Item) /\ Current # <<>> /\ Current = todo[Len(walk) + 1]
      /\ DOMAIN walk = 1 .. Len(walk) /\ design \in Designs
  BY CanEnterIs, WalkIs DEF TypeInv
<1>2. /\ Len(walk') = Len(walk) + 1 /\ walk' \in Seq(Scope)
      /\ \A i \in 1 .. Len(walk) : walk'[i] = walk[i]
      /\ walk'[Len(walk) + 1] = Here
      /\ todo' \in Seq(Seq(Item)) /\ Len(todo') = Len(walk) + 2
      /\ \A i \in 1 .. Len(walk) : todo'[i] = todo[i]
      /\ todo'[Len(walk) + 1] = Tail(Current)
      /\ todo'[Len(walk) + 2] = Beyond
  BY DescendIs
<1>3. (IsOnce(Here) => Here \in Ahead) /\ AheadOf(todo') \subseteq Ahead \ {Here}
  BY AheadEnter
<1>4. /\ \A i \in DOMAIN walk : walk[i] \notin Ahead
      /\ Single(walk)
      /\ Apart(todo) /\ Untouched(bound, scheduled, Ahead, walk)
  BY FreshIs
<1>5. DOMAIN walk' = 1 .. Len(walk) + 1
  BY <1>1, <1>2
<1>6. \A i \in DOMAIN walk' : (i \in DOMAIN walk /\ walk'[i] = walk[i]) \/
                              (i = Len(walk) + 1 /\ walk'[i] = Here)
  BY <1>1, <1>2, <1>5
<1>7. \A i \in DOMAIN walk' : walk'[i] \notin AheadOf(todo')
  BY <1>3, <1>4, <1>6
<1>8. Single(walk')
  BY <1>3, <1>4, <1>6 DEF Single
<1>9. Apart(todo')
  <2>1. SUFFICES ASSUME NEW i \in DOMAIN todo', NEW k \in DOMAIN todo'[i],
                        NEW l \in DOMAIN todo'[i], todo'[i][k] = todo'[i][l],
                        todo'[i][k] \in Scope, IsOnce(todo'[i][k])
                 PROVE  k = l
    BY DEF Apart
  <2>2. DOMAIN todo' = 1 .. Len(walk) + 2 /\ DOMAIN todo = 1 .. Len(walk) + 1
    BY <1>1, <1>2 DEF TypeInv
  <2>3. CASE i \in 1 .. Len(walk)
    <3>1. todo'[i] = todo[i] /\ i \in DOMAIN todo
      BY <1>1, <1>2, <2>2, <2>3
    <3> QED
      BY <1>4, <2>1, <3>1 DEF Apart
  <2>4. CASE i = Len(walk) + 1
    <3>1. todo'[i] = Tail(Current)
      BY <1>2, <2>4
    <3>2. \A m \in DOMAIN Tail(Current) :
            m \in Nat /\ m + 1 \in DOMAIN Current /\ Tail(Current)[m] = Current[m + 1]
      BY <1>1, HeadTailProperties
    <3>3. /\ k \in Nat /\ l \in Nat /\ k + 1 \in DOMAIN Current /\ l + 1 \in DOMAIN Current
          /\ Current[k + 1] = Current[l + 1] /\ Current[k + 1] \in Scope
          /\ IsOnce(Current[k + 1])
      BY <2>1, <3>1, <3>2
    <3>4. Len(walk) + 1 \in DOMAIN todo
      BY <1>1, <2>2
    <3>5. k + 1 = l + 1
      BY <1>1, <1>4, <3>3, <3>4 DEF Apart
    <3> QED
      BY <3>3, <3>5
  <2>5. CASE i = Len(walk) + 2
    <3>1. todo'[i] = Beyond
      BY <1>2, <2>5
    <3>2. /\ k \in DOMAIN design.children[Here] /\ l \in DOMAIN design.children[Here]
          /\ todo'[i][k] = design.children[Here][k]
          /\ todo'[i][l] = design.children[Here][l]
      BY <2>1, <3>1 DEF Beyond
    <3>3. k = l \/ MayLead(design, Here, todo'[i][k])
      <4>1. IsNested(design)
        BY <1>1, DesignIs
      <4>2. ASSUME NEW q \in Scope, NEW a \in DOMAIN design.children[q],
                   NEW b \in DOMAIN design.children[q],
                   design.children[q][b] = design.children[q][a]
            PROVE  a = b \/ MayLead(design, q, design.children[q][a])
        BY <4>1, <4>2 DEF IsNested
      <4>3. design.children[Here][l] = design.children[Here][k]
        BY <2>1, <3>2
      <4> QED
        BY <1>1, <3>2, <4>2, <4>3
    <3> QED
      BY <2>1, <3>3 DEF MayLead, IsOnce
  <2> QED
    BY <1>1, <2>2, <2>3, <2>4, <2>5
<1>10. ASSUME NEW c \in design.calls, design.kind[c.in] # "class"
       PROVE  /\ bound[c] # None => bound'[c] = bound[c]
              /\ bound'[c] # None \/ (\E sc \in scheduled' : sc.call = c) =>
                   c.in \notin AheadOf(todo')
              /\ ~ (bound'[c] # None /\ \E sc \in scheduled' : sc.call = c)
              /\ design.kind[c.in] = "package" /\ (\E i \in DOMAIN walk' : walk'[i] = c.in) =>
                   bound'[c] = None /\ ~ \E sc \in scheduled' : sc.call = c
  <2>1. /\ bound'[c] = bound[c] \/ Scheduled(c) \/ (c.in = Here /\ kind = "module")
        /\ (\E sc \in scheduled' : sc.call = c) =>
             Scheduled(c) \/ (c.in = Here /\ kind = "module")
        /\ ~ (bound'[c] # bound[c] /\ \E sc \in scheduled' : sc.call = c)
    BY <1>10
  <2>2. /\ bound[c] # None \/ Scheduled(c) => c.in \notin Ahead
        /\ ~ (bound[c] # None /\ Scheduled(c))
        /\ design.kind[c.in] = "package" /\ (\E i \in DOMAIN walk : walk[i] = c.in) =>
             bound[c] = None /\ ~ Scheduled(c)
    BY <1>4, <1>10 DEF Untouched, Scheduled
  <2>7. c.in = Here /\ (kind = "module" \/ design.kind[c.in] = "package") => c.in \in Ahead
    BY <1>1, <1>3 DEF IsOnce
  <2>3. ASSUME bound[c] # None PROVE bound'[c] = bound[c]
    BY <2>1, <2>2, <2>3, <2>7
  <2>4. ASSUME bound'[c] # None \/ (\E sc \in scheduled' : sc.call = c)
        PROVE  c.in \notin AheadOf(todo')
    <3>1. bound[c] # None \/ Scheduled(c) \/ c.in = Here
      BY <2>1, <2>4
    <3> QED
      BY <1>3, <2>2, <3>1
  <2>5. ~ (bound'[c] # None /\ \E sc \in scheduled' : sc.call = c)
    BY <2>1, <2>2, <2>7
  <2>6. ASSUME design.kind[c.in] = "package", NEW i \in DOMAIN walk', walk'[i] = c.in
        PROVE  bound'[c] = None /\ ~ \E sc \in scheduled' : sc.call = c
    <3>1. ~ (c.in = Here /\ kind = "module")
      BY <1>1, <2>6
    <3>2. bound[c] = None /\ ~ Scheduled(c)
      BY <1>6, <2>2, <2>6, <2>7
    <3> QED
      BY <2>1, <3>1, <3>2
  <2> QED
    BY <2>3, <2>4, <2>5, <2>6
<1>11. Untouched(bound', scheduled', AheadOf(todo'), walk') /\ KeepsBound
  BY <1>10 DEF Untouched, KeepsBound
<1> QED
  BY <1>7, <1>8, <1>9, <1>11, FreshAfter

\* A scope is left: only what was scheduled, or is in the package that is left, is
\* bound.
LEMMA FreshLeave ==
  ASSUME TypeInv, FreshInv, NEW those, CanLeave(those), Ascend, design' = design,
         scheduled' = {},
         \A c \in design.calls : design.kind[c.in] # "class" =>
           \/ bound'[c] = bound[c] \/ Scheduled(c)
           \/ c.in = Last(walk) /\ design.kind[c.in] = "package"
  PROVE  FreshInv' /\ KeepsBound
<1>1. /\ Len(walk) \in Nat \ {0} /\ Last(walk) = walk[Len(walk)] /\ Len(walk') = Len(walk) - 1
      /\ walk' \in Seq(Scope) /\ \A i \in 1 .. Len(walk) - 1 : walk'[i] = walk[i]
      /\ todo' \in Seq(Seq(Item)) /\ Len(todo') = Len(walk)
      /\ \A i \in 1 .. Len(walk) : todo'[i] = todo[i]
  BY AscendIs
<1>2. /\ DOMAIN walk' = 1 .. Len(walk) - 1 /\ DOMAIN walk = 1 .. Len(walk)
      /\ DOMAIN todo' = 1 .. Len(walk) /\ DOMAIN todo = 1 .. Len(walk) + 1
  BY <1>1, WalkIs DEF TypeInv
<1>3. AheadOf(todo') \subseteq Ahead
  BY AheadLeave
<1>4. /\ \A i \in DOMAIN walk : walk[i] \notin Ahead
      /\ Single(walk)
      /\ Apart(todo) /\ Untouched(bound, scheduled, Ahead, walk)
  BY FreshIs
<1>5. \A i \in DOMAIN walk' : i \in DOMAIN walk /\ walk'[i] = walk[i] /\ i # Len(walk)
  BY <1>1, <1>2
<1>6. /\ Len(walk) \in DOMAIN walk
      /\ IsOnce(Last(walk)) => \A i \in DOMAIN walk' : walk'[i] # Last(walk)
  <2>1. Len(walk) \in DOMAIN walk
    BY <1>1, <1>2
  <2> QED
    BY <1>1, <1>4, <1>5, <2>1 DEF Single
<1>7. Apart(todo')
  <2>1. \A i \in DOMAIN todo' : i \in DOMAIN todo /\ todo'[i] = todo[i]
    BY <1>1, <1>2
  <2> QED
    BY <1>4, <2>1 DEF Apart
<1>8. ASSUME NEW c \in design.calls, design.kind[c.in] # "class"
      PROVE  /\ bound[c] # None => bound'[c] = bound[c]
             /\ bound'[c] # None => c.in \notin AheadOf(todo')
             /\ design.kind[c.in] = "package" /\ (\E i \in DOMAIN walk' : walk'[i] = c.in) =>
                  bound'[c] = None
  <2>1. \/ bound'[c] = bound[c] \/ Scheduled(c)
        \/ c.in = Last(walk) /\ design.kind[c.in] = "package"
    BY <1>8
  <2>2. /\ bound[c] # None \/ Scheduled(c) => c.in \notin Ahead
        /\ ~ (bound[c] # None /\ Scheduled(c))
        /\ design.kind[c.in] = "package" /\ (\E i \in DOMAIN walk : walk[i] = c.in) =>
             bound[c] = None /\ ~ Scheduled(c)
    BY <1>4, <1>8 DEF Untouched, Scheduled
  <2>3. c.in = Last(walk) => \E i \in DOMAIN walk : walk[i] = c.in
    BY <1>1, <1>6
  <2>4. ASSUME bound[c] # None PROVE bound'[c] = bound[c]
    BY <2>1, <2>2, <2>3, <2>4
  <2>5. ASSUME bound'[c] # None PROVE c.in \notin AheadOf(todo')
    <3>1. c.in \notin Ahead
      BY <1>1, <1>4, <1>6, <2>1, <2>2, <2>5
    <3> QED
      BY <1>3, <3>1
  <2>6. ASSUME design.kind[c.in] = "package", NEW i \in DOMAIN walk', walk'[i] = c.in
        PROVE  bound'[c] = None
    <3>1. bound[c] = None /\ ~ Scheduled(c) /\ c.in # Last(walk)
      BY <1>5, <1>6, <2>2, <2>6 DEF IsOnce
    <3> QED
      BY <2>1, <3>1
  <2> QED
    BY <2>4, <2>5, <2>6
<1>9. Untouched(bound', scheduled', AheadOf(todo'), walk') /\ KeepsBound
  BY <1>8 DEF Untouched, KeepsBound
<1>10. \A i \in DOMAIN walk' : walk'[i] \notin AheadOf(todo')
  BY <1>3, <1>4, <1>5
<1>11. Single(walk')
  BY <1>4, <1>5 DEF Single
<1> QED
  BY <1>7, <1>9, <1>10, <1>11, FreshAfter

\* Nothing is bound, scheduled or left at the end of a list.
LEMMA FreshEndList ==
  ASSUME TypeInv, FreshInv, EndList
  PROVE  FreshInv' /\ KeepsBound
<1>1. /\ design' = design /\ walk' = walk /\ DOMAIN todo' = DOMAIN todo
      /\ \A i \in DOMAIN todo' :
           \/ todo'[i] = todo[i]
           \/ \A k \in DOMAIN todo'[i] : /\ k \in Nat /\ k + 1 \in DOMAIN todo[i]
                                         /\ todo'[i][k] = todo[i][k + 1]
  BY EndListKeeps
<1>2. bound' = bound /\ scheduled' = scheduled
  BY DEF EndList
<1>3. AheadOf(todo') \subseteq Ahead
  BY AheadEndList
<1>4. /\ \A i \in DOMAIN walk : walk[i] \notin Ahead
      /\ Single(walk)
      /\ Apart(todo) /\ Untouched(bound, scheduled, Ahead, walk)
  BY FreshIs
<1>5. Apart(todo')
  <2>1. SUFFICES ASSUME NEW i \in DOMAIN todo', NEW k \in DOMAIN todo'[i],
                        NEW l \in DOMAIN todo'[i], todo'[i][k] = todo'[i][l],
                        todo'[i][k] \in Scope, IsOnce(todo'[i][k])
                 PROVE  k = l
    BY DEF Apart
  <2>2. CASE todo'[i] = todo[i]
    BY <1>1, <1>4, <2>1, <2>2 DEF Apart
  <2>3. ASSUME \A m \in DOMAIN todo'[i] : /\ m \in Nat /\ m + 1 \in DOMAIN todo[i]
                                          /\ todo'[i][m] = todo[i][m + 1]
        PROVE  k = l
    <3>1. k \in Nat /\ l \in Nat
      BY <2>3
    <3>2. k + 1 = l + 1
      BY <1>1, <1>4, <2>1, <2>3 DEF Apart
    <3> QED
      BY <3>1, <3>2
  <2> QED
    BY <1>1, <2>2, <2>3
<1>6. Untouched(bound', scheduled', AheadOf(todo'), walk')
  BY <1>1, <1>2, <1>3, <1>4 DEF Untouched
<1>7. \A i \in DOMAIN walk' : walk'[i] \notin AheadOf(todo')
  BY <1>1, <1>3, <1>4
<1>8. Single(walk')
  BY <1>1, <1>4
<1>9. KeepsBound
  BY <1>2 DEF KeepsBound
<1> QED
  BY <1>1, <1>5, <1>6, <1>7, <1>8, <1>9, FreshAfter

\* Rounds bind nothing but what is scheduled for them.
LEMMA BindsScheduled ==
  ASSUME NEW rounds, NEW n \in Nat, DOMAIN rounds \in SUBSET (1 .. n),
         NEW c \in design.calls, BoundAfter(rounds)[c] # bound[c]
  PROVE  \E i \in DOMAIN rounds : \E sc \in rounds[i].schedule : sc.call = c
<1>1. PICK i \in DOMAIN rounds : BindsIn(rounds[i], c)
  BY BoundAfterIs
<1>2. PICK k : [call |-> c, kind |-> k] \in rounds[i].schedule
  BY <1>1 DEF BindsIn
<1>3. [call |-> c, kind |-> k].call = c
  OBVIOUS
<1> QED
  BY <1>2, <1>3

\* Entering a module keeps the invariant, and what is bound.
LEMMA FreshModule ==
  ASSUME TypeInv, PathInv, FreshInv, EnterModule
  PROVE  FreshInv' /\ KeepsBound
<1>1. CanEnter("module") /\ Descend /\ design' = design
  BY DEF EnterModule
<1>2. /\ bound' = BoundAfter(Rounds)
      /\ scheduled' = (IF Classes = {} THEN Early ELSE {}) \cup Late
      /\ kinds' = KindsAfter(Own \cup Late \cup UNION {InClass(i) : i \in Classes})
  BY EnterModuleIs
<1>3. ASSUME NEW c \in design.calls, design.kind[c.in] # "class", bound'[c] # bound[c]
      PROVE  Classes # {} /\ (Scheduled(c) \/ (c.in = Here /\ c.by = 0))
  <2>1. PICK n \in Nat : DOMAIN Rounds \in SUBSET (1 .. n)
    <3>1. Members \in Seq(Scope) /\ DOMAIN Rounds \in SUBSET (1 .. Len(Members))
      BY <1>1, RoundsAre
    <3>2. Len(Members) \in Nat
      BY <3>1
    <3> QED
      BY <3>1, <3>2
  <2>2. PICK i \in DOMAIN Rounds : \E sc \in Rounds[i].schedule : sc.call = c
    BY <1>2, <1>3, <2>1, BindsScheduled
  <2>3. i \in Classes /\ Rounds[i].schedule = Pending(i) /\ design.kind[Members[i]] = "class"
    BY <1>1, RoundsAre
  <2>4. PICK sc \in Pending(i) : sc.call = c
    BY <2>2, <2>3
  <2>5. \/ sc \in scheduled
        \/ \E d \in CallsOf(Here) : sc.call = d /\ d.by = 0
        \/ \E d \in CallsOf(Members[i]) : sc.call = d
    BY <2>4 DEF Pending, InClass, Early, Own, CloneOf
  <2>6. ASSUME NEW d \in CallsOf(Members[i]), sc.call = d PROVE FALSE
    BY <1>3, <2>3, <2>4, <2>6 DEF CallsOf
  <2>7. Scheduled(c) \/ (c.in = Here /\ c.by = 0)
    BY <2>4, <2>5, <2>6 DEF Scheduled, CallsOf
  <2> QED
    BY <2>3, <2>7
<1>4. ASSUME NEW c \in design.calls, NEW sc \in scheduled', sc.call = c
      PROVE  \/ Classes = {} /\ Scheduled(c)
             \/ Classes = {} /\ c.in = Here
             \/ c.in = Here /\ c.by > 0
  <2>1. CASE sc \in Late
    BY <1>4, <2>1 DEF Late, CloneOf, CallsOf
  <2>2. CASE Classes = {} /\ sc \in Early
    BY <1>4, <2>2 DEF Early, Own, CloneOf, CallsOf, Scheduled
  <2> QED
    BY <1>2, <2>1, <2>2
<1>5. ASSUME NEW c \in design.calls, design.kind[c.in] # "class"
      PROVE  /\ bound'[c] = bound[c] \/ Scheduled(c) \/ (c.in = Here /\ "module" = "module")
             /\ (\E sc \in scheduled' : sc.call = c) =>
                  Scheduled(c) \/ (c.in = Here /\ "module" = "module")
             /\ ~ (bound'[c] # bound[c] /\ \E sc \in scheduled' : sc.call = c)
  <2>1. "module" = "module"
    OBVIOUS
  <2>2. ASSUME bound'[c] # bound[c], NEW sc \in scheduled', sc.call = c
        PROVE  FALSE
    <3>1. Classes # {} /\ (Scheduled(c) \/ (c.in = Here /\ c.by = 0))
      BY <1>3, <1>5, <2>2
    <3>2. c.in = Here /\ c.by > 0
      BY <1>4, <2>2, <3>1
    <3>3. Scheduled(c)
      BY <3>1, <3>2
    <3>4. c.in \notin Ahead
      BY <1>5, <3>3 DEF FreshInv
    <3>5. IsOnce(Here)
      BY <1>1, CanEnterIs DEF IsOnce
    <3> QED
      BY <1>1, <3>2, <3>4, <3>5, AheadEnter
  <2> QED
    BY <1>3, <1>4, <1>5, <2>1, <2>2
<1> HIDE DEF Descend
<1> QED
  BY <1>1, <1>5, FreshEnter

\* So does entering any other scope.
LEMMA FreshEnterOther ==
  ASSUME TypeInv, PathInv, FreshInv,
         EnterUndefinedModule \/ EnterInterface \/ EnterClass \/ EnterPackage
  PROVE  FreshInv' /\ KeepsBound
<1>1. CASE EnterUndefinedModule \/ EnterInterface \/ EnterPackage
  <2>1. PICK kind : CanEnter(kind) /\ Descend /\ design' = design
    BY <1>1 DEF EnterUndefinedModule, EnterInterface, EnterPackage
  <2>2. bound' = bound /\ scheduled' = scheduled
    BY <1>1 DEF EnterUndefinedModule, EnterInterface, EnterPackage
  <2>3. \A c \in design.calls : (\E sc \in scheduled' : sc.call = c) => Scheduled(c)
    BY <2>2 DEF Scheduled
  <2> QED
    BY <2>1, <2>2, <2>3, FreshEnter
<1>2. CASE EnterClass
  <2>1. CanEnter("class") /\ Descend /\ design' = design
    BY <1>2 DEF EnterClass
  <2>2. bound' = bound
        /\ scheduled' = scheduled \cup {CloneOf(c, instStack') : c \in CallsOf(Here)}
    BY <1>2 DEF EnterClass
  <2>3. design.kind[Here] = "class"
    BY <2>1, CanEnterIs
  <2>4. ASSUME NEW c \in design.calls, design.kind[c.in] # "class",
               NEW sc \in scheduled', sc.call = c
        PROVE  Scheduled(c)
    BY <2>2, <2>3, <2>4 DEF CloneOf, CallsOf, Scheduled
  <2> QED
    BY <2>1, <2>2, <2>4, FreshEnter
<1> QED
  BY <1>1, <1>2

\* So does leaving any scope.
LEMMA FreshLeaveAny ==
  ASSUME TypeInv, FreshInv, LeaveInstance \/ LeavePackage
  PROVE  FreshInv' /\ KeepsBound
<1>1. ASSUME NEW stack, NEW schedule, bound' = BoundAfter(<<Round(stack, schedule)>>),
             NEW c \in design.calls, bound'[c] # bound[c]
      PROVE  \E sc \in schedule : sc.call = c
  <2> DEFINE rounds == <<Round(stack, schedule)>>
  <2>1. /\ 1 \in Nat /\ DOMAIN rounds \in SUBSET (1 .. 1)
        /\ \A i \in DOMAIN rounds : rounds[i].schedule = schedule
    BY OneRound
  <2>2. BoundAfter(rounds)[c] # bound[c]
    BY <1>1
  <2> HIDE DEF rounds
  <2> QED
    BY <2>1, <2>2, BindsScheduled
<1>2. CASE LeaveInstance
  <2>1. /\ CanLeave({"module", "interface", "class"}) /\ Ascend /\ design' = design
        /\ scheduled' = {} /\ bound' = BoundAfter(<<Round(instStack, scheduled)>>)
    BY <1>2 DEF LeaveInstance
  <2>2. \A c \in design.calls : bound'[c] = bound[c] \/ Scheduled(c)
    BY <1>1, <2>1 DEF Scheduled
  <2> QED
    BY <2>1, <2>2, FreshLeave
<1>3. CASE LeavePackage
  <2>1. /\ CanLeave({"package"}) /\ Ascend /\ design' = design /\ scheduled' = {}
    BY <1>3 DEF LeavePackage
  <2>2. bound' = BoundAfter(<<Round(AllKnown, PackageSchedule)>>)
    BY <1>3, LeavePackageIs
  <2>3. design.kind[Last(walk)] = "package"
    BY <2>1 DEF CanLeave
  <2>4. ASSUME NEW c \in design.calls, bound'[c] # bound[c]
        PROVE  Scheduled(c) \/ (c.in = Last(walk) /\ design.kind[c.in] = "package")
    <3>1. PICK sc \in PackageSchedule : sc.call = c
      BY <1>1, <2>2, <2>4
    <3> QED
      BY <2>3, <3>1 DEF PackageSchedule, PackageClones, CloneOf, CallsOf, Scheduled
  <2> QED
    BY <2>1, <2>4, FreshLeave
<1> QED
  BY <1>2, <1>3

\* Nothing is bound, scheduled or entered at the start.
LEMMA FreshInit == Init => FreshInv
<1> SUFFICES ASSUME Init PROVE FreshInv
  OBVIOUS
<1>1. /\ walk = <<>> /\ scheduled = {} /\ bound = [c \in design.calls |-> None]
      /\ todo = <<design.tops>> /\ design \in Designs
  BY DEF Init
<1>2. Apart(todo)
  <2>1. IsNested(design)
    BY <1>1, DesignIs
  <2>2. \A i \in DOMAIN todo : todo[i] = design.tops
    BY <1>1
  <2>3. ASSUME NEW k \in DOMAIN design.tops, NEW l \in DOMAIN design.tops,
               design.tops[k] = design.tops[l], design.tops[k] \in Scope,
               IsOnce(design.tops[k])
        PROVE  k = l
    <3>1. design.tops[k] # None
      BY <2>3, NoneAssumption
    <3> QED
      BY <2>1, <2>3, <3>1 DEF IsNested, IsOnce
  <2> QED
    BY <2>2, <2>3 DEF Apart
<1>3. Untouched(bound, scheduled, Ahead, walk)
  BY <1>1 DEF Untouched
<1>4. (\A i \in DOMAIN walk : walk[i] \notin Ahead) /\ Single(walk)
  BY <1>1 DEF Single
<1> QED
  BY <1>2, <1>3, <1>4, FreshIs

\* Every step keeps the invariant, and what is bound.
LEMMA FreshStep ==
  ASSUME TypeInv, PathInv, FreshInv, [Next]_vars
  PROVE  FreshInv' /\ KeepsBound
<1>1. CASE UNCHANGED vars
  <2>1. /\ design' = design /\ scheduled' = scheduled /\ walk' = walk
        /\ todo' = todo /\ bound' = bound
    BY <1>1 DEF vars
  <2>2. FreshInv'
    BY <2>1, FreshIs, FreshAfter DEF Ahead
  <2> QED
    BY <2>1, <2>2 DEF KeepsBound
<1>2. CASE Next
  BY <1>2, FreshModule, FreshEnterOther, FreshLeaveAny, FreshEndList DEF Next
<1> QED
  BY <1>1, <1>2

\* Whatever the design: leaving further scopes does not touch what a call of a
\* module or a package is bound to, whatever their functions are called.
THEOREM CallsAreBoundOnce == Spec => BoundOnce
<1>1. Init => TypeInv /\ PathInv /\ FreshInv
  BY TypeInit, PathInit, FreshInit
<1>2. TypeInv /\ PathInv /\ FreshInv /\ [Next]_vars => (TypeInv /\ PathInv /\ FreshInv)'
  BY TypeStep, PathStep, FreshStep
<1>3. TypeInv /\ PathInv /\ FreshInv /\ [Next]_vars =>
        [\A c \in design.calls :
           bound[c] # None /\ design.kind[c.in] # "class" => bound'[c] = bound[c]]_vars
  BY FreshStep DEF KeepsBound
<1> QED
  BY <1>1, <1>2, <1>3, PTL DEF Spec, BoundOnce

-----------------------------------------------------------------------------
(***************************************************************************)
(* Calls are bound to what the vectors hold.                               *)
(***************************************************************************)
\* What is settled before a step is so after it, as no vector changes but that of
\* a scope that is entered, of a class, or of a package that is left.
SettledNext(f) == SettledIn(f, taskFuncs', AheadOf(todo'), walk')

\* The invariant after a step is a matter of the new stack, bindings and vectors.
LEMMA SettledAfter ==
  ASSUME design' = design,
         \A i \in DOMAIN instStack' : \A n \in DOMAIN instStack'[i].funcMap :
           SettledNext(instStack'[i].funcMap[n]),
         \A c \in design.calls : bound'[c] # None => SettledNext(bound'[c])
  PROVE  SettledInv'
<1>1. Ahead' = AheadOf(todo')
  BY DEF Ahead, AheadOf, Down, Roots, IsOnce
<1>2. \A s : HasClasses(s)' = HasClasses(s)
  BY DEF HasClasses
<1>3. \A f : IsSettled(f)' <=> SettledNext(f)
  BY <1>1, <1>2 DEF IsSettled, SettledNext, SettledIn
<1>4. (\A i \in DOMAIN instStack : \A n \in DOMAIN instStack[i].funcMap :
         IsSettled(instStack[i].funcMap[n]))'
  BY <1>3
<1>5. (\A c \in design.calls : bound[c] # None => IsSettled(bound[c]))'
  BY <1>3
<1> QED
  BY <1>4, <1>5 DEF SettledInv

\* The functions of a class, or of a scope that has classes, need not settle.
LEMMA ClassesSettle ==
  ASSUME NEW f, design.kind[f.scope] = "class" \/ HasClasses(f.scope)
  PROVE  SettledNext(f)
BY DEF SettledNext, SettledIn

\* All that a class offers are functions of classes.
LEMMA ClassFuncMapSettles ==
  ASSUME TypeInv, NEW k \in Scope, design.kind[k] = "class",
         NEW n \in DOMAIN ClassFuncMap(k)
  PROVE  SettledNext(ClassFuncMap(k)[n])
<1>1. PICK i \in DOMAIN design.bases[k] : ClassFuncMap(k)[n].scope = design.bases[k][i]
  BY ClassFuncMapIs
<1>2. /\ design.bases[k] \in Seq(Scope) /\ design.bases[k][1] = k
      /\ \A j \in 2 .. Len(design.bases[k]) : design.kind[design.bases[k][j]] = "class"
  <2>1. design.bases \in [Scope -> Seq(Scope)] /\ ExtendsClasses(design)
    BY DesignIs DEF TypeInv
  <2> QED
    BY <2>1 DEF ExtendsClasses
<1>3. i = 1 \/ i \in 2 .. Len(design.bases[k])
  BY <1>2
<1>4. design.kind[ClassFuncMap(k)[n].scope] = "class"
  BY <1>1, <1>2, <1>3
<1> QED
  BY <1>4, ClassesSettle

\* After rounds with stacks that hold nothing but what is settled after the step,
\* what calls are bound to is settled.
LEMMA RoundsSettle ==
  ASSUME TypeInv, \A c \in design.calls : bound[c] # None => SettledNext(bound[c]),
         NEW rounds, NEW n \in Nat, DOMAIN rounds \in SUBSET (1 .. n),
         \A i \in DOMAIN rounds :
           /\ rounds[i].stack \in Seq(Entry)
           /\ \A j \in DOMAIN rounds[i].stack : \A m \in DOMAIN rounds[i].stack[j].funcMap :
                SettledNext(rounds[i].stack[j].funcMap[m]),
         NEW c \in design.calls, BoundAfter(rounds)[c] # None
  PROVE  SettledNext(BoundAfter(rounds)[c])
<1>1. CASE BoundAfter(rounds)[c] = bound[c]
  BY <1>1
<1>2. ASSUME NEW i \in DOMAIN rounds,
             BoundAfter(rounds)[c] = Lookup(rounds[i].stack, c.name, c.prefix)
      PROVE  SettledNext(BoundAfter(rounds)[c])
  <2>1. c \in Call /\ (c.prefix # None => design.kind[c.prefix] = "class")
    BY DesignIs DEF TypeInv, ExtendsClasses
  <2>2. c.prefix \in Scope \cup {None}
    BY <2>1 DEF Call
  <2>3. ASSUME c.prefix \in Scope, c.prefix # None, c.name \in DOMAIN ClassFuncMap(c.prefix)
        PROVE  SettledNext(ClassFuncMap(c.prefix)[c.name])
    BY <2>1, <2>3, ClassFuncMapSettles
  <2> HIDE DEF SettledNext
  <2> DEFINE stack == rounds[i].stack
  <2>4. /\ stack \in Seq(Entry)
        /\ \A j \in DOMAIN stack : \A m \in DOMAIN stack[j].funcMap :
             SettledNext(stack[j].funcMap[m])
    OBVIOUS
  <2>5. Lookup(stack, c.name, c.prefix) # None
    BY <1>2
  <2> HIDE DEF stack
  <2>6. SettledNext(Lookup(stack, c.name, c.prefix))
    BY <2>2, <2>3, <2>4, <2>5, LookupIs
  <2> QED
    BY <1>2, <2>6 DEF stack
<1> QED
  BY <1>1, <1>2, BoundAfterIs

\* On entering a scope.
LEMMA SettledEnter ==
  ASSUME TypeInv, PathInv, FreshInv, NEW kind, CanEnter(kind), Descend,
         \A s \in Scope : \/ taskFuncs'[s] = taskFuncs[s] \/ design.kind[s] = "class"
                          \/ s = Here /\ kind = "module",
         NEW f, f.scope \in Scope, IsSettled(f)
  PROVE  SettledNext(f)
<1>1. (IsOnce(Here) => Here \in Ahead) /\ AheadOf(todo') \subseteq Ahead
  BY AheadEnter
<1>2. \A i \in DOMAIN walk' : walk'[i] = Here \/ \E j \in DOMAIN walk : walk'[i] = walk[j]
  <2>1. /\ Len(walk') = Len(walk) + 1 /\ walk' \in Seq(Scope)
        /\ \A i \in 1 .. Len(walk) : walk'[i] = walk[i]
        /\ walk'[Len(walk) + 1] = Here
    BY DescendIs
  <2>2. DOMAIN walk = 1 .. Len(walk) /\ Len(walk) \in Nat
    BY WalkIs
  <2>3. \A i \in DOMAIN walk' : i \in 1 .. Len(walk) \/ i = Len(walk) + 1
    BY <2>1, <2>2
  <2> QED
    BY <2>1, <2>2, <2>3
<1>3. SUFFICES ASSUME design.kind[f.scope] # "class", ~ HasClasses(f.scope)
               PROVE  /\ f \in ToSet(taskFuncs'[f.scope])
                      /\ f.scope \notin AheadOf(todo')
                      /\ design.kind[f.scope] = "package" =>
                           \A i \in DOMAIN walk' : walk'[i] # f.scope
  BY DEF SettledNext, SettledIn
<1>4. /\ f \in ToSet(taskFuncs[f.scope])
      /\ f.scope \notin Ahead
      /\ design.kind[f.scope] = "package" => \A i \in DOMAIN walk : walk[i] # f.scope
  BY <1>3 DEF IsSettled, SettledIn
<1>5. f.scope = Here => kind # "module" /\ design.kind[f.scope] # "package"
  BY <1>1, <1>4, CanEnterIs DEF IsOnce
<1>6. taskFuncs'[f.scope] = taskFuncs[f.scope]
  BY <1>3, <1>5
<1>7. f \in ToSet(taskFuncs'[f.scope])
  BY <1>4, <1>6
<1> QED
  BY <1>1, <1>2, <1>4, <1>5, <1>7

\* On leaving one.
LEMMA SettledLeave ==
  ASSUME TypeInv, NEW those, CanLeave(those), Ascend,
         \A s \in Scope : \/ taskFuncs'[s] = taskFuncs[s]
                          \/ s = Last(walk) /\ design.kind[s] = "package",
         NEW f, f.scope \in Scope, IsSettled(f)
  PROVE  SettledNext(f)
<1>1. AheadOf(todo') \subseteq Ahead
  BY AheadLeave
<1>2. /\ Len(walk) \in Nat \ {0} /\ walk' \in Seq(Scope) /\ Len(walk') = Len(walk) - 1
      /\ \A i \in 1 .. Len(walk) - 1 : walk'[i] = walk[i]
      /\ Last(walk) = walk[Len(walk)]
  BY AscendIs
<1>3. DOMAIN walk = 1 .. Len(walk) /\ DOMAIN walk' = 1 .. Len(walk) - 1
  BY <1>2, WalkIs
<1>4. Len(walk) \in DOMAIN walk /\ \A i \in DOMAIN walk' : i \in DOMAIN walk /\ walk'[i] = walk[i]
  <2>1. Len(walk) \in DOMAIN walk
    BY <1>2, <1>3
  <2>2. \A i \in DOMAIN walk' : i \in DOMAIN walk
    BY <1>2, <1>3
  <2> QED
    BY <1>2, <1>3, <2>1, <2>2
<1>5. SUFFICES ASSUME design.kind[f.scope] # "class", ~ HasClasses(f.scope)
               PROVE  /\ f \in ToSet(taskFuncs'[f.scope])
                      /\ f.scope \notin AheadOf(todo')
                      /\ design.kind[f.scope] = "package" =>
                           \A i \in DOMAIN walk' : walk'[i] # f.scope
  BY DEF SettledNext, SettledIn
<1>6. /\ f \in ToSet(taskFuncs[f.scope])
      /\ f.scope \notin Ahead
      /\ design.kind[f.scope] = "package" => \A i \in DOMAIN walk : walk[i] # f.scope
  BY <1>5 DEF IsSettled, SettledIn
<1>7. taskFuncs'[f.scope] = taskFuncs[f.scope]
  BY <1>2, <1>4, <1>6
<1>8. f \in ToSet(taskFuncs'[f.scope])
  BY <1>6, <1>7
<1> QED
  BY <1>1, <1>4, <1>6, <1>8

\* The entries of a stack are functions with a scope.
LEMMA EntriesAreFuncs ==
  ASSUME NEW stack \in Seq(Entry), NEW i \in DOMAIN stack, NEW n \in DOMAIN stack[i].funcMap
  PROVE  stack[i].funcMap[n] \in Func /\ stack[i].funcMap[n].scope \in Scope
<1>1. stack[i] \in Entry
  OBVIOUS
<1>2. PICK N \in SUBSET Name : stack[i].funcMap \in [N -> Func]
  BY <1>1 DEF Entry, Tables
<1>3. stack[i].funcMap[n] \in Func
  BY <1>2
<1> QED
  BY <1>3 DEF Func

\* What was on the stack, or bound, stays settled whatever the step does to the
\* vectors, if that keeps what is settled.
LEMMA OldStaySettled ==
  ASSUME TypeInv, SettledInv,
         \A f : f.scope \in Scope /\ IsSettled(f) => SettledNext(f)
  PROVE  /\ \A i \in DOMAIN instStack : \A n \in DOMAIN instStack[i].funcMap :
              SettledNext(instStack[i].funcMap[n])
         /\ \A c \in design.calls : bound[c] # None => SettledNext(bound[c])
<1>1. instStack \in Seq(Entry) /\ bound \in [design.calls -> Func \cup {None}]
  BY DEF TypeInv
<1>2. ASSUME NEW i \in DOMAIN instStack, NEW n \in DOMAIN instStack[i].funcMap
      PROVE  SettledNext(instStack[i].funcMap[n])
  <2>1. instStack[i].funcMap[n].scope \in Scope
    BY <1>1, EntriesAreFuncs
  <2>2. IsSettled(instStack[i].funcMap[n])
    BY DEF SettledInv
  <2> QED
    BY <2>1, <2>2
<1>3. ASSUME NEW c \in design.calls, bound[c] # None
      PROVE  SettledNext(bound[c])
  <2>1. bound[c] \in Func
    BY <1>1, <1>3
  <2>2. bound[c].scope \in Scope
    BY <2>1 DEF Func
  <2>3. IsSettled(bound[c])
    BY <1>3 DEF SettledInv
  <2> QED
    BY <2>2, <2>3
<1> QED
  BY <1>2, <1>3

\* A stack with one more entry.
LEMMA AppendSettles ==
  ASSUME NEW stack \in Seq(Entry), NEW e \in Entry,
         \A i \in DOMAIN stack : \A n \in DOMAIN stack[i].funcMap :
           SettledNext(stack[i].funcMap[n]),
         \A n \in DOMAIN e.funcMap : SettledNext(e.funcMap[n])
  PROVE  /\ Append(stack, e) \in Seq(Entry)
         /\ \A i \in DOMAIN Append(stack, e) : \A n \in DOMAIN Append(stack, e)[i].funcMap :
              SettledNext(Append(stack, e)[i].funcMap[n])
<1> DEFINE s == Append(stack, e)
<1>1. /\ s \in Seq(Entry) /\ Len(s) = Len(stack) + 1 /\ Len(stack) \in Nat
      /\ \A i \in 1 .. Len(stack) : s[i] = stack[i]
      /\ s[Len(stack) + 1] = e
  BY AppendProperties
<1>2. DOMAIN s = 1 .. Len(stack) + 1 /\ DOMAIN stack = 1 .. Len(stack)
  BY <1>1
<1> HIDE DEF s
<1>3. SUFFICES ASSUME NEW i \in DOMAIN s, NEW n \in DOMAIN s[i].funcMap
               PROVE  SettledNext(s[i].funcMap[n])
  BY <1>1 DEF s
<1>4. CASE i \in 1 .. Len(stack)
  BY <1>1, <1>2, <1>3, <1>4
<1>5. CASE i = Len(stack) + 1
  BY <1>1, <1>3, <1>5
<1> QED
  BY <1>1, <1>2, <1>4, <1>5

\* The functions in the vector of a scope that has just been entered, and is no
\* package, or that has just been left, are settled.
LEMMA NewSettles ==
  ASSUME NEW s, NEW f, f.scope = s, NEW j \in DOMAIN taskFuncs'[s], f = taskFuncs'[s][j],
         s \notin AheadOf(todo'),
         design.kind[s] # "package" \/ \A i \in DOMAIN walk' : walk'[i] # s
  PROVE  SettledNext(f)
<1>1. f \in ToSet(taskFuncs'[s])
  BY DEF ToSet
<1> QED
  BY <1>1 DEF SettledNext, SettledIn

\* A scope is entered with a table of what is settled.
LEMMA SettledPush ==
  ASSUME TypeInv, PathInv, FreshInv, SettledInv,
         NEW kind, CanEnter(kind), Descend, design' = design,
         \A s \in Scope : \/ taskFuncs'[s] = taskFuncs[s] \/ design.kind[s] = "class"
                          \/ s = Here /\ kind = "module",
         NEW m \in Tables, \A n \in DOMAIN m : SettledNext(m[n]), instStack' = Push(m),
         \A c \in design.calls : bound'[c] # None => SettledNext(bound'[c])
  PROVE  SettledInv'
<1>1. \A f : f.scope \in Scope /\ IsSettled(f) => SettledNext(f)
  <2> HIDE DEF Descend
  <2> QED
    BY SettledEnter
<1>2. \A i \in DOMAIN instStack : \A n \in DOMAIN instStack[i].funcMap :
        SettledNext(instStack[i].funcMap[n])
  BY <1>1, OldStaySettled
<1> DEFINE e == [object |-> Here, funcMap |-> m]
<1>3. e \in Entry /\ e.funcMap = m
  BY CanEnterIs DEF Entry
<1>4. instStack \in Seq(Entry) /\ instStack' = Append(instStack, e)
  BY DEF TypeInv, Push
<1> HIDE DEF e, SettledNext
<1>5. \A i \in DOMAIN instStack' : \A n \in DOMAIN instStack'[i].funcMap :
        SettledNext(instStack'[i].funcMap[n])
  BY <1>2, <1>3, <1>4, AppendSettles
<1> QED
  BY <1>5, SettledAfter

\* What a module does to the vectors: it clones its own functions and those of its
\* classes.
LEMMA ModuleFuncs ==
  ASSUME TypeInv, EnterModule
  PROVE  /\ taskFuncs'[Here] = ClonesOf(Here)
         /\ \A s \in Scope : taskFuncs'[s] = taskFuncs[s] \/ s = Here \/ design.kind[s] = "class"
<1>1. CanEnter("module")
  BY DEF EnterModule
<1>2. Here \in Scope
  BY <1>1, CanEnterIs
<1>3. taskFuncs' = [s \in Scope |->
        IF s = Here \/ \E i \in Classes : s = Members[i] THEN ClonesOf(s) ELSE taskFuncs[s]]
  BY EnterModuleIs
<1>4. \A i \in Classes : design.kind[Members[i]] = "class"
  BY <1>1, RoundsAre
<1> QED
  BY <1>2, <1>3, <1>4

\* The stacks of the rounds of a module hold nothing that does not settle: the
\* functions it has not cloned yet are those of a scope that has classes.
LEMMA ModuleStacksSettle ==
  ASSUME TypeInv, CanEnter("module"), NEW r \in Classes,
         \A i \in DOMAIN instStack : \A n \in DOMAIN instStack[i].funcMap :
           SettledNext(instStack[i].funcMap[n])
  PROVE  /\ Within(Members[r]) \in Seq(Entry)
         /\ \A i \in DOMAIN Within(Members[r]) : \A n \in DOMAIN Within(Members[r])[i].funcMap :
              SettledNext(Within(Members[r])[i].funcMap[n])
<1> DEFINE k == Members[r]
           e == [object |-> Here, funcMap |-> FuncMap(taskFuncs[Here])]
           g == [object |-> k, funcMap |-> ClassFuncMap(k)]
<1>1. Here \in Scope /\ k \in Scope /\ design.kind[k] = "class" /\ instStack \in Seq(Entry)
  BY CanEnterIs, RoundsAre DEF TypeInv
<1>2. /\ taskFuncs[Here] \in Seq(Func)
      /\ \A j \in DOMAIN taskFuncs[Here] : taskFuncs[Here][j].scope = Here
  BY <1>1 DEF TypeInv
<1>3. e \in Entry /\ g \in Entry
  BY <1>1, <1>2, FuncMapIsTable, ClassFuncMapIs DEF Entry
<1>4. HasClasses(Here)
  BY DEF HasClasses, Classes, Members
<1>5. ASSUME NEW n \in DOMAIN e.funcMap PROVE SettledNext(e.funcMap[n])
  <2>1. PICK j \in DOMAIN taskFuncs[Here] : e.funcMap[n] = taskFuncs[Here][j]
    BY <1>2, <1>5, FuncMapOf
  <2>2. e.funcMap[n].scope = Here
    BY <1>2, <2>1
  <2> QED
    BY <1>4, <2>2, ClassesSettle
<1>6. ASSUME NEW n \in DOMAIN g.funcMap PROVE SettledNext(g.funcMap[n])
  <2> HIDE DEF k
  <2> QED
    BY <1>1, <1>6, ClassFuncMapSettles
<1>7. Original = Append(instStack, e) /\ Within(k) = Append(Original, g)
  BY DEF Original, Within, Push
<1> HIDE DEF k, e, g, SettledNext
<1>8. /\ Original \in Seq(Entry)
      /\ \A i \in DOMAIN Original : \A n \in DOMAIN Original[i].funcMap :
           SettledNext(Original[i].funcMap[n])
  BY <1>1, <1>3, <1>5, <1>7, AppendSettles
<1>9. /\ Within(k) \in Seq(Entry)
      /\ \A i \in DOMAIN Within(k) : \A n \in DOMAIN Within(k)[i].funcMap :
           SettledNext(Within(k)[i].funcMap[n])
  BY <1>3, <1>6, <1>7, <1>8, AppendSettles
<1> QED
  BY <1>9 DEF k

\* Entering a module keeps what is settled.
LEMMA SettledModule ==
  ASSUME TypeInv, PathInv, FreshInv, SettledInv, EnterModule
  PROVE  SettledInv'
<1>1. CanEnter("module") /\ Descend /\ design' = design
  BY DEF EnterModule
<1>2. bound' = BoundAfter(Rounds) /\ instStack' = Cloned
  BY EnterModuleIs
<1>3. Here \in Scope /\ design.kind[Here] = "module" /\ Here \notin AheadOf(todo')
  <2> HIDE DEF Descend
  <2> QED
    BY <1>1, CanEnterIs, AheadEnter
<1>4. /\ taskFuncs'[Here] = ClonesOf(Here)
      /\ \A s \in Scope : taskFuncs'[s] = taskFuncs[s] \/ s = Here \/ design.kind[s] = "class"
  BY ModuleFuncs
<1>5. \A f : f.scope \in Scope /\ IsSettled(f) => SettledNext(f)
  <2> HIDE DEF Descend
  <2> QED
    BY <1>1, <1>4, SettledEnter
<1>6. /\ \A i \in DOMAIN instStack : \A n \in DOMAIN instStack[i].funcMap :
           SettledNext(instStack[i].funcMap[n])
      /\ \A c \in design.calls : bound[c] # None => SettledNext(bound[c])
  BY <1>5, OldStaySettled
<1> DEFINE all == Len(taskFuncs[Here])
           m == ClonedFuncMap(Here, all)
<1>7. all \in 0 .. all
  <2>1. taskFuncs[Here] \in Seq(Func)
    BY <1>3 DEF TypeInv
  <2> QED
    BY <2>1
<1>8. m \in Tables /\ instStack' = Push(m)
  BY <1>1, <1>2, ClonedIs DEF Cloned
<1>9. ASSUME NEW n \in DOMAIN m PROVE SettledNext(m[n])
  <2>1. PICK j \in DOMAIN ClonesOf(Here) : m[n] = ClonesOf(Here)[j]
    BY <1>3, <1>7, <1>9, ClonedFuncMapIs
  <2>2. m[n].scope = Here
    BY <1>3, <2>1, ClonesAre
  <2>3. j \in DOMAIN taskFuncs'[Here] /\ m[n] = taskFuncs'[Here][j]
    BY <1>4, <2>1
  <2>4. design.kind[Here] # "package"
    BY <1>3
  <2> HIDE DEF m
  <2> QED
    BY <1>3, <2>2, <2>3, <2>4, NewSettles
<1>10. ASSUME NEW c \in design.calls, bound'[c] # None PROVE SettledNext(bound'[c])
  <2>1. PICK n \in Nat : DOMAIN Rounds \in SUBSET (1 .. n)
    <3>1. Members \in Seq(Scope) /\ DOMAIN Rounds \in SUBSET (1 .. Len(Members))
      BY <1>1, RoundsAre
    <3>2. Len(Members) \in Nat
      BY <3>1
    <3> QED
      BY <3>1, <3>2
  <2>2. \A i \in DOMAIN Rounds : i \in Classes /\ Rounds[i].stack = Within(Members[i])
    BY <1>1, RoundsAre
  <2>3. \A i \in DOMAIN Rounds :
          /\ Rounds[i].stack \in Seq(Entry)
          /\ \A j \in DOMAIN Rounds[i].stack : \A k \in DOMAIN Rounds[i].stack[j].funcMap :
               SettledNext(Rounds[i].stack[j].funcMap[k])
    <3>1. \A i \in Classes :
            /\ Within(Members[i]) \in Seq(Entry)
            /\ \A j \in DOMAIN Within(Members[i]) :
                 \A k \in DOMAIN Within(Members[i])[j].funcMap :
                   SettledNext(Within(Members[i])[j].funcMap[k])
      BY <1>1, <1>6, ModuleStacksSettle
    <3> HIDE DEF SettledNext
    <3> QED
      BY <2>2, <3>1
  <2>4. BoundAfter(Rounds)[c] # None
    BY <1>2, <1>10
  <2> HIDE DEF SettledNext
  <2>5. SettledNext(BoundAfter(Rounds)[c])
    BY <1>6, <2>1, <2>3, <2>4, RoundsSettle
  <2> QED
    BY <1>2, <2>5
<1> HIDE DEF m, Descend, SettledNext
<1> QED
  BY <1>1, <1>4, <1>8, <1>9, <1>10, SettledPush

\* So does entering any other scope.
LEMMA SettledEnterOther ==
  ASSUME TypeInv, PathInv, FreshInv, SettledInv,
         EnterUndefinedModule \/ EnterInterface \/ EnterClass \/ EnterPackage
  PROVE  SettledInv'
<1>1. ASSUME NEW kind, CanEnter(kind), Descend, bound' = bound,
             \A s \in Scope : \/ taskFuncs'[s] = taskFuncs[s] \/ design.kind[s] = "class"
                              \/ s = Here /\ kind = "module"
      PROVE  \A c \in design.calls : bound'[c] # None => SettledNext(bound'[c])
  <2>1. \A f : f.scope \in Scope /\ IsSettled(f) => SettledNext(f)
    <3> HIDE DEF Descend
    <3> QED
      BY <1>1, SettledEnter
  <2>2. \A c \in design.calls : bound[c] # None => SettledNext(bound[c])
    BY <2>1, OldStaySettled
  <2> QED
    BY <1>1, <2>2
<1>2. CASE EnterUndefinedModule \/ EnterInterface
  <2>1. PICK kind \in {"module", "interface"} : CanEnter(kind) /\ Descend /\ design' = design
    BY <1>2 DEF EnterUndefinedModule, EnterInterface
  <2>2. /\ instStack' = Push(FuncMap(taskFuncs[Here])) /\ bound' = bound
        /\ taskFuncs' = taskFuncs
    BY <1>2 DEF EnterUndefinedModule, EnterInterface
  <2>3. Here \in Scope /\ design.kind[Here] = kind /\ Here \notin AheadOf(todo')
    <3> HIDE DEF Descend
    <3> QED
      BY <2>1, CanEnterIs, AheadEnter
  <2>4. /\ taskFuncs[Here] \in Seq(Func)
        /\ \A j \in DOMAIN taskFuncs[Here] : taskFuncs[Here][j].scope = Here
    BY <2>3 DEF TypeInv
  <2> DEFINE m == FuncMap(taskFuncs[Here])
  <2>5. m \in Tables
    BY <2>4, FuncMapIsTable
  <2>6. ASSUME NEW n \in DOMAIN m PROVE SettledNext(m[n])
    <3>1. PICK j \in DOMAIN taskFuncs[Here] : m[n] = taskFuncs[Here][j]
      BY <2>4, <2>6, FuncMapOf
    <3>2. m[n].scope = Here /\ j \in DOMAIN taskFuncs'[Here] /\ m[n] = taskFuncs'[Here][j]
      BY <2>2, <2>4, <3>1
    <3>3. design.kind[Here] # "package"
      BY <2>1, <2>3
    <3> HIDE DEF m
    <3> QED
      BY <2>3, <3>2, <3>3, NewSettles
  <2> HIDE DEF m, Descend, SettledNext
  <2>7. instStack' = Push(m)
    BY <2>2 DEF m
  <2> QED
    BY <1>1, <2>1, <2>2, <2>5, <2>6, <2>7, SettledPush
<1>3. CASE EnterClass
  <2>1. CanEnter("class") /\ Descend /\ design' = design
    BY <1>3 DEF EnterClass
  <2>2. Here \in Scope /\ design.kind[Here] = "class"
    BY <2>1, CanEnterIs
  <2>3. /\ instStack' = Push(ClassFuncMap(Here)) /\ bound' = bound
        /\ taskFuncs' = [taskFuncs EXCEPT ![Here] = ClonesOf(Here)]
    BY <1>3 DEF EnterClass
  <2>4. \A s \in Scope : taskFuncs'[s] = taskFuncs[s] \/ design.kind[s] = "class"
    <3>1. taskFuncs \in [Scope -> Seq(Func)]
      BY DEF TypeInv
    <3> QED
      BY <2>2, <2>3, <3>1
  <2>5. /\ ClassFuncMap(Here) \in Tables
        /\ \A n \in DOMAIN ClassFuncMap(Here) : SettledNext(ClassFuncMap(Here)[n])
    BY <2>2, ClassFuncMapIs, ClassFuncMapSettles
  <2> HIDE DEF Descend, SettledNext
  <2> QED
    BY <1>1, <2>1, <2>3, <2>4, <2>5, SettledPush
<1>4. CASE EnterPackage
  <2>1. CanEnter("package") /\ Descend /\ design' = design
    BY <1>4 DEF EnterPackage
  <2>2. instStack' = Push(NoFuncs) /\ bound' = bound /\ taskFuncs' = taskFuncs
    BY <1>4 DEF EnterPackage
  <2>3. NoFuncs \in Tables /\ \A n \in DOMAIN NoFuncs : SettledNext(NoFuncs[n])
    <3>1. NoFuncs \in [{} -> Func] /\ {} \in SUBSET Name
      BY DEF NoFuncs
    <3> QED
      BY <3>1 DEF Tables, NoFuncs
  <2> HIDE DEF Descend, SettledNext
  <2> QED
    BY <1>1, <2>1, <2>2, <2>3, SettledPush
<1> QED
  BY <1>2, <1>3, <1>4

\* A scope is left after a round in which all that can be found is settled.
LEMMA SettledPop ==
  ASSUME TypeInv, SettledInv, NEW those, CanLeave(those), Ascend, Pop, design' = design,
         \A s \in Scope : \/ taskFuncs'[s] = taskFuncs[s]
                          \/ s = Last(walk) /\ design.kind[s] = "package",
         NEW stack \in Seq(Entry), NEW schedule,
         \A i \in DOMAIN stack : \A n \in DOMAIN stack[i].funcMap :
           \/ \E j \in DOMAIN instStack : stack[i] = instStack[j]
           \/ SettledNext(stack[i].funcMap[n]),
         bound' = BoundAfter(<<Round(stack, schedule)>>)
  PROVE  SettledInv'
<1>1. \A f : f.scope \in Scope /\ IsSettled(f) => SettledNext(f)
  <2> HIDE DEF Ascend
  <2> QED
    BY SettledLeave
<1>2. /\ \A i \in DOMAIN instStack : \A n \in DOMAIN instStack[i].funcMap :
           SettledNext(instStack[i].funcMap[n])
      /\ \A c \in design.calls : bound[c] # None => SettledNext(bound[c])
  BY <1>1, OldStaySettled
<1> HIDE DEF SettledNext
<1>3. \A i \in DOMAIN stack : \A n \in DOMAIN stack[i].funcMap :
        SettledNext(stack[i].funcMap[n])
  BY <1>2
<1>4. ASSUME NEW c \in design.calls, bound'[c] # None PROVE SettledNext(bound'[c])
  <2> DEFINE rounds == <<Round(stack, schedule)>>
  <2>1. /\ 1 \in Nat /\ DOMAIN rounds \in SUBSET (1 .. 1)
        /\ \A i \in DOMAIN rounds : rounds[i].stack = stack
    BY OneRound
  <2>2. BoundAfter(rounds)[c] # None
    BY <1>4
  <2> HIDE DEF rounds
  <2>3. SettledNext(BoundAfter(rounds)[c])
    BY <1>2, <1>3, <2>1, <2>2, RoundsSettle
  <2> QED
    BY <2>3 DEF rounds
<1>5. \A i \in DOMAIN instStack' : i \in DOMAIN instStack /\ instStack'[i] = instStack[i]
  <2>1. /\ walk # <<>> /\ Len(walk) \in Nat \ {0}
    BY AscendIs
  <2>2. /\ instStack' \in Seq(Entry) /\ Len(instStack') = Len(walk) - 1
        /\ \A i \in 1 .. Len(walk) - 1 : instStack'[i] = instStack[i]
    BY <2>1, PopIs
  <2>3. DOMAIN instStack' = 1 .. Len(walk) - 1 /\ DOMAIN instStack = 1 .. Len(walk)
    BY <2>1, <2>2, WalkIs
  <2> QED
    BY <2>1, <2>2, <2>3
<1>6. \A i \in DOMAIN instStack' : \A n \in DOMAIN instStack'[i].funcMap :
        SettledNext(instStack'[i].funcMap[n])
  BY <1>2, <1>5
<1> QED
  BY <1>4, <1>6, SettledAfter

\* So does leaving any scope.
LEMMA SettledLeaveAny ==
  ASSUME TypeInv, FreshInv, SettledInv, LeaveInstance \/ LeavePackage
  PROVE  SettledInv'
<1>1. CASE LeaveInstance
  <2>1. /\ CanLeave({"module", "interface", "class"}) /\ Ascend /\ Pop /\ design' = design
        /\ taskFuncs' = taskFuncs /\ bound' = BoundAfter(<<Round(instStack, scheduled)>>)
    BY <1>1 DEF LeaveInstance
  <2>2. instStack \in Seq(Entry)
    BY DEF TypeInv
  <2> HIDE DEF Ascend, SettledNext
  <2> QED
    BY <2>1, <2>2, SettledPop
<1>2. CASE LeavePackage
  <2> DEFINE s == Last(walk)
             all == Len(taskFuncs[s])
  <2>1. /\ CanLeave({"package"}) /\ Ascend /\ Pop /\ design' = design
    BY <1>2 DEF LeavePackage
  <2>2. /\ bound' = BoundAfter(<<Round(AllKnown, PackageSchedule)>>)
        /\ taskFuncs' = [taskFuncs EXCEPT ![s] = ClonesOf(s)]
    BY <1>2, LeavePackageIs
  <2>3. /\ walk # <<>> /\ Len(walk) \in Nat \ {0} /\ s \in Scope /\ s = walk[Len(walk)]
        /\ design.kind[s] = "package"
        /\ Len(walk') = Len(walk) - 1 /\ walk' \in Seq(Scope)
        /\ \A i \in 1 .. Len(walk) - 1 : walk'[i] = walk[i]
    BY <2>1, AscendIs
  <2>4. taskFuncs \in [Scope -> Seq(Func)]
    BY DEF TypeInv
  <2>5. all \in 0 .. all
    <3>1. taskFuncs[s] \in Seq(Func)
      BY <2>3, <2>4
    <3> QED
      BY <3>1
  <2>6. /\ AllKnown \in Seq(Entry) /\ Len(AllKnown) = Len(walk)
        /\ \A j \in 1 .. Len(walk) - 1 : AllKnown[j] = instStack[j]
        /\ AllKnown[Len(walk)].funcMap = ClonedFuncMap(s, all)
    BY <2>3, <2>5, KnownIs DEF AllKnown
  <2>7. taskFuncs'[s] = ClonesOf(s) /\ \A t \in Scope : taskFuncs'[t] = taskFuncs[t] \/ t = s
    BY <2>2, <2>3, <2>4
  <2>8. s \notin AheadOf(todo')
    <3>1. AheadOf(todo') \subseteq Ahead
      BY <2>1, AheadLeave
    <3>2. Len(walk) \in DOMAIN walk
      BY <2>3, WalkIs
    <3> QED
      BY <2>3, <3>1, <3>2 DEF FreshInv
  <2>9. \A i \in DOMAIN walk' : walk'[i] # s
    <3>1. \A i \in DOMAIN walk' : i \in 1 .. Len(walk) - 1
      BY <2>3
    <3>2. \A i \in 1 .. Len(walk) - 1 : i \in DOMAIN walk /\ i # Len(walk)
      BY <2>3, WalkIs
    <3>3. Len(walk) \in DOMAIN walk
      BY <2>3, WalkIs
    <3> QED
      BY <2>3, <3>1, <3>2, <3>3 DEF FreshInv, IsOnce
  <2>10. ASSUME NEW n \in DOMAIN ClonedFuncMap(s, all)
         PROVE  SettledNext(ClonedFuncMap(s, all)[n])
    <3>1. PICK j \in DOMAIN ClonesOf(s) : ClonedFuncMap(s, all)[n] = ClonesOf(s)[j]
      BY <2>3, <2>5, <2>10, ClonedFuncMapIs
    <3>2. ClonedFuncMap(s, all)[n].scope = s
      BY <2>3, <3>1, ClonesAre
    <3>3. j \in DOMAIN taskFuncs'[s] /\ ClonedFuncMap(s, all)[n] = taskFuncs'[s][j]
      BY <2>7, <3>1
    <3> HIDE DEF s, all
    <3> QED
      BY <2>8, <2>9, <3>2, <3>3, NewSettles
  <2>11. ASSUME NEW i \in DOMAIN AllKnown, NEW n \in DOMAIN AllKnown[i].funcMap
         PROVE  \/ \E j \in DOMAIN instStack : AllKnown[i] = instStack[j]
                \/ SettledNext(AllKnown[i].funcMap[n])
    <3>1. DOMAIN AllKnown = 1 .. Len(walk) /\ DOMAIN instStack = 1 .. Len(walk)
      BY <2>3, <2>6, WalkIs
    <3>2. CASE i \in 1 .. Len(walk) - 1
      <4>1. i \in DOMAIN instStack /\ AllKnown[i] = instStack[i]
        BY <2>3, <2>6, <3>1, <3>2
      <4> QED
        BY <4>1
    <3>3. CASE i = Len(walk)
      BY <2>6, <2>10, <2>11, <3>3
    <3> QED
      BY <2>3, <3>1, <3>2, <3>3
  <2> HIDE DEF Ascend, SettledNext, all
  <2>12. \A t \in Scope : taskFuncs'[t] = taskFuncs[t] \/ (t = s /\ design.kind[t] = "package")
    BY <2>3, <2>7
  <2> QED
    BY <2>1, <2>2, <2>6, <2>11, <2>12, SettledPop
<1> QED
  BY <1>1, <1>2

\* Nothing unsettles at the end of a list.
LEMMA SettledEndList ==
  ASSUME TypeInv, FreshInv, SettledInv, EndList
  PROVE  SettledInv'
<1>1. /\ design' = design /\ instStack' = instStack /\ walk' = walk
      /\ bound' = bound /\ taskFuncs' = taskFuncs
  BY DEF EndList
<1>2. AheadOf(todo') \subseteq Ahead
  BY AheadEndList
<1>3. \A f : IsSettled(f) => SettledNext(f)
  BY <1>1, <1>2 DEF IsSettled, SettledNext, SettledIn
<1> HIDE DEF SettledNext
<1> QED
  BY <1>1, <1>3, SettledAfter DEF SettledInv

\* Nothing is on the stack, or bound, at the start.
LEMMA SettledInit == Init => SettledInv
<1> SUFFICES ASSUME Init PROVE SettledInv
  OBVIOUS
<1>1. instStack = <<>> /\ bound = [c \in design.calls |-> None]
  BY DEF Init
<1> QED
  BY <1>1 DEF SettledInv

\* What is on the stack, or bound, is settled after every step.
LEMMA SettledStep ==
  ASSUME TypeInv, PathInv, FreshInv, SettledInv, [Next]_vars
  PROVE  SettledInv'
<1>1. CASE UNCHANGED vars
  <2>1. /\ design' = design /\ instStack' = instStack /\ walk' = walk
        /\ todo' = todo /\ bound' = bound /\ taskFuncs' = taskFuncs
    BY <1>1 DEF vars
  <2>2. \A f : IsSettled(f) <=> SettledNext(f)
    BY <2>1 DEF IsSettled, SettledNext, Ahead
  <2> HIDE DEF SettledNext
  <2> QED
    BY <2>1, <2>2, SettledAfter DEF SettledInv
<1>2. CASE Next
  BY <1>2, SettledModule, SettledEnterOther, SettledLeaveAny, SettledEndList DEF Next
<1> QED
  BY <1>1, <1>2

\* Whatever the design: a call that is bound to a function of a package, or of a
\* module that has no classes, is bound to the one that ends up in the vector of
\* that scope, not to one that a clone has replaced there.
THEOREM CallsBindToClones == Spec => []BindsToClones
<1>1. SettledInv => BindsToClones
  BY DEF SettledInv, IsSettled, SettledIn, BindsToClones
<1>2. Init => TypeInv /\ PathInv /\ FreshInv /\ SettledInv
  BY TypeInit, PathInit, FreshInit, SettledInit
<1>3. /\ TypeInv /\ PathInv /\ FreshInv /\ SettledInv /\ [Next]_vars
      => (TypeInv /\ PathInv /\ FreshInv /\ SettledInv)'
  BY TypeStep, PathStep, FreshStep, SettledStep
<1> QED
  BY <1>1, <1>2, <1>3, PTL DEF Spec

-----------------------------------------------------------------------------
(***************************************************************************)
(* What nothing confuses is bound by the rules of the language.            *)
(***************************************************************************)
\* A way the walk may take: the first scope is a top one, and it comes to each of
\* the others from the one in front of it.
Branch(p) ==
  \A j \in DOMAIN p : IF j = 1 THEN \E l \in DOMAIN design.tops : p[1] = design.tops[l]
                               ELSE p[j - 1] \in Comes(p[j])

\* The first scopes of a way are each written in the one in front of them.
Straight(p, j) ==
  \A k \in 1 .. j : design.around[p[k]] = IF k = 1 THEN None ELSE p[k - 1]

\* The scopes around a scope: the least set that contains it and what is around it.
LEMMA ChainIs ==
  ASSUME design \in Designs, NEW s \in Scope
  PROVE  /\ s \in Chain(s) /\ Chain(s) \subseteq Scope
         /\ \A t \in Chain(s) : design.around[t] # None => design.around[t] \in Chain(s)
         /\ \A S \in SUBSET Scope :
              s \in S /\ (\A t \in S : design.around[t] # None => design.around[t] \in S)
                => Chain(s) \subseteq S
<1> DEFINE Up == [t \in Scope |-> {design.around[t]} \ {None}]
<1>1. DOMAIN Up = Scope /\ Chain(s) = Reached(Up, {s})
  BY DEF Chain
<1>2. ASSUME NEW t \in Scope
      PROVE  Up[t] = {design.around[t]} \ {None} /\ Up[t] \subseteq Scope
  <2>1. design.around \in [Scope -> Scope \cup {None}]
    BY DesignIs
  <2> QED
    BY <2>1
<1> HIDE DEF Up
<1>3. s \in Chain(s) /\ Chain(s) \subseteq Scope /\ IsClosed(Up, Chain(s))
  BY <1>1, ReachedHasRoots, ReachedAreNodes, ReachedIsClosed
<1>4. ASSUME NEW t \in Chain(s), design.around[t] # None
      PROVE  design.around[t] \in Chain(s)
  <2>1. t \in Scope /\ design.around[t] \in Up[t] \cap Scope
    BY <1>2, <1>3, <1>4
  <2> QED
    BY <1>1, <1>3, <2>1 DEF IsClosed
<1>5. ASSUME NEW S \in SUBSET Scope, s \in S,
             \A t \in S : design.around[t] # None => design.around[t] \in S
      PROVE  Chain(s) \subseteq S
  <2>1. IsClosed(Up, S)
    BY <1>2, <1>5 DEF IsClosed
  <2> QED
    BY <1>1, <1>5, <2>1, ReachedIsLeast
<1> QED
  BY <1>3, <1>4, <1>5

\* If the walk comes to a scope, and to what is around it, only from the scope
\* around it, the way there is straight.
LEMMA InPlaceIsStraight ==
  ASSUME design \in Designs, NEW p \in Seq(Scope), Branch(p), NEW j \in DOMAIN p,
         IsInPlace(p[j])
  PROVE  Straight(p, j)
<1>1. /\ DOMAIN p = 1 .. Len(p) /\ Len(p) \in Nat /\ j \in 1 .. Len(p)
      /\ \A i \in DOMAIN p : p[i] \in Scope /\ p[i] # None
  BY NoneAssumption
<1>2. ASSUME NEW k \in 1 .. j, k # 1, p[k] \in Chain(p[j])
      PROVE  design.around[p[k]] = p[k - 1]
  <2>1. k \in DOMAIN p
    BY <1>1
  <2>2. p[k - 1] \in Comes(p[k])
    BY <1>2, <2>1 DEF Branch
  <2> QED
    BY <1>2, <2>2 DEF IsInPlace
<1> DEFINE off == {k \in 1 .. j : p[k] \notin Chain(p[j])}
<1>3. off = {}
  <2>1. SUFFICES ASSUME off # {} PROVE FALSE
    OBVIOUS
  <2>2. off \in SUBSET (1 .. j) /\ j \in Nat
    BY <1>1
  <2>3. Max(off) \in off /\ \A k \in off : k <= Max(off)
    <3> HIDE DEF off
    <3> QED
      BY <2>1, <2>2, MaxOf
  <2>4. PICK k \in 1 .. j : p[k] \notin Chain(p[j]) /\ \A l \in off : l <= k
    BY <2>3
  <2>5. k # j
    BY <1>1, <2>4, ChainIs
  <2>6. k + 1 \in 1 .. j /\ k + 1 # 1 /\ (k + 1) - 1 = k /\ k \in DOMAIN p
    BY <1>1, <2>4, <2>5
  <2>7. p[k + 1] \in Chain(p[j])
    BY <2>4, <2>6
  <2>8. design.around[p[k + 1]] = p[k]
    BY <1>2, <2>6, <2>7
  <2> QED
    BY <1>1, <2>4, <2>6, <2>7, <2>8, ChainIs
<1>4. ASSUME NEW k \in 1 .. j
      PROVE  design.around[p[k]] = IF k = 1 THEN None ELSE p[k - 1]
  <2>1. CASE k = 1
    <3>1. 1 \in DOMAIN p
      BY <1>1
    <3>2. PICK l \in DOMAIN design.tops : p[1] = design.tops[l]
      BY <3>1 DEF Branch
    <3>3. IsNested(design)
      BY DesignIs
    <3>4. \A l1 \in DOMAIN design.tops :
            design.tops[l1] # None => design.around[design.tops[l1]] = None
      BY <3>3 DEF IsNested
    <3> QED
      BY <1>1, <2>1, <3>1, <3>2, <3>4
  <2>2. CASE k # 1
    BY <1>2, <1>3, <2>2
  <2> QED
    BY <2>1, <2>2
<1> QED
  BY <1>4 DEF Straight

\* No scope occurs twice on a straight way.
LEMMA StraightApart ==
  ASSUME NEW p \in Seq(Scope), NEW j \in DOMAIN p, Straight(p, j)
  PROVE  \A i, k \in 1 .. j : p[i] = p[k] => i = k
<1> DEFINE twice == {i \in 1 .. j : \E k \in 1 .. j : i < k /\ p[i] = p[k]}
<1>1. j \in Nat /\ \A i \in 1 .. j : p[i] \in Scope /\ p[i] # None
  BY NoneAssumption
<1>2. twice = {}
  <2>1. SUFFICES ASSUME twice # {} PROVE FALSE
    OBVIOUS
  <2>2. twice \in SUBSET Nat
    BY <1>1
  <2>3. Min(twice) \in twice /\ \A k \in twice : Min(twice) <= k
    <3> HIDE DEF twice
    <3> QED
      BY <2>1, <2>2, MinOf
  <2>4. PICK i \in 1 .. j : i \in twice /\ \A k \in twice : i <= k
    BY <2>3
  <2>5. PICK k \in 1 .. j : i < k /\ p[i] = p[k]
    BY <2>4
  <2>6. k # 1 /\ design.around[p[k]] = p[k - 1] /\ k - 1 \in 1 .. j
    BY <1>1, <2>5 DEF Straight
  <2>7. i # 1 /\ design.around[p[i]] = p[i - 1]
    BY <1>1, <2>5, <2>6 DEF Straight
  <2>8. i - 1 \in 1 .. j /\ i - 1 < k - 1 /\ i - 1 < i
    BY <1>1, <2>5, <2>7
  <2>9. i - 1 \in twice
    BY <2>5, <2>6, <2>7, <2>8
  <2> QED
    BY <1>1, <2>4, <2>8, <2>9
<1>3. ASSUME NEW i \in 1 .. j, NEW k \in 1 .. j, p[i] = p[k], i # k
      PROVE  FALSE
  <2>1. i < k \/ k < i
    BY <1>1, <1>3
  <2> QED
    BY <1>2, <1>3, <2>1
<1> QED
  BY <1>3

\* Around a scope of a straight way are those in front of it, and no others.
LEMMA StraightIsChain ==
  ASSUME design \in Designs, NEW p \in Seq(Scope), NEW j \in DOMAIN p, Straight(p, j),
         NEW h \in 1 .. j, NEW s \in Chain(p[h])
  PROVE  \E i \in 1 .. h : s = p[i]
<1> DEFINE S == {p[i] : i \in 1 .. h}
<1>1. h \in Nat /\ j \in Nat /\ \A i \in 1 .. h : i \in 1 .. j /\ i \in DOMAIN p /\ p[i] \in Scope
  OBVIOUS
<1>2. S \in SUBSET Scope /\ p[h] \in S
  BY <1>1
<1>3. ASSUME NEW t \in S, design.around[t] # None
      PROVE  design.around[t] \in S
  <2>1. PICK i \in 1 .. h : t = p[i]
    OBVIOUS
  <2>2. i # 1 /\ design.around[t] = p[i - 1]
    BY <1>1, <1>3, <2>1 DEF Straight
  <2>3. i - 1 \in 1 .. h
    BY <1>1, <2>1, <2>2
  <2> QED
    BY <2>2, <2>3
<1>4. Chain(p[h]) \subseteq S
  <2>1. p[h] \in Scope
    BY <1>1
  <2> HIDE DEF S
  <2> QED
    BY <1>2, <1>3, <2>1, ChainIs
<1> QED
  BY <1>4

\* A way is prolonged to where its last scope leads.
LEMMA BranchGrows ==
  ASSUME NEW p \in Seq(Scope), Branch(p), NEW k \in Scope,
         Len(p) > 0 => p[Len(p)] \in Comes(k),
         Len(p) = 0 => \E l \in DOMAIN design.tops : k = design.tops[l]
  PROVE  Branch(Append(p, k))
<1> DEFINE q == Append(p, k)
<1>1. /\ q \in Seq(Scope) /\ Len(q) = Len(p) + 1 /\ Len(p) \in Nat
      /\ \A i \in 1 .. Len(p) : q[i] = p[i]
      /\ q[Len(p) + 1] = k
  BY AppendProperties
<1>2. DOMAIN q = 1 .. Len(p) + 1 /\ DOMAIN p = 1 .. Len(p)
  BY <1>1
<1> HIDE DEF q
<1>3. SUFFICES ASSUME NEW j \in DOMAIN q
               PROVE  IF j = 1 THEN \E l \in DOMAIN design.tops : q[1] = design.tops[l]
                               ELSE q[j - 1] \in Comes(q[j])
  BY DEF Branch, q
<1>4. CASE j \in 1 .. Len(p)
  <2>1. j # 1 => j - 1 \in 1 .. Len(p)
    BY <1>1, <1>4
  <2> QED
    BY <1>1, <1>2, <1>4, <2>1 DEF Branch
<1>5. CASE j = Len(p) + 1
  <2>1. CASE Len(p) = 0
    BY <1>1, <1>5, <2>1
  <2>2. CASE Len(p) > 0
    <3>1. q[j - 1] = p[Len(p)] /\ q[j] = k /\ j # 1
      BY <1>1, <1>5, <2>2
    <3> QED
      BY <2>2, <3>1
  <2> QED
    BY <1>1, <2>1, <2>2
<1> QED
  BY <1>1, <1>2, <1>4, <1>5

\* Vectors with functions of the same names and kinds.
Alike(fs, gs) ==
  /\ DOMAIN fs = DOMAIN gs
  /\ \A i \in DOMAIN fs : fs[i].name = gs[i].name /\ fs[i].kind = gs[i].kind

\* The kind of what a scope of a design offers under a name.
KindIn(d, s, n) ==
  LET bases == d.bases[s]
      fs == d.funcs[bases[Min({i \in DOMAIN bases : n \in Named(d.funcs[bases[i]])})]]
  IN  fs[Min(Places(fs, n))].kind

\* A table knows the names that a scope offers, and what kinds they are of; that of
\* a package does not know them all, but knows no others.
Knows(m, s) ==
  /\ \A n \in DOMAIN m : Offers(s, n)
  /\ design.kind[s] # "package" => \A n : Offers(s, n) => n \in DOMAIN m
  /\ \A n \in DOMAIN m : HasOneKind(s, n) => m[n].kind = KindIn(design, s, n)

KnowsOwn(stack, p) == \A i \in DOMAIN p : Knows(stack[i].funcMap, p[i])

\* Cloning functions changes neither their names nor their kinds.
NamesInv == \A s \in Scope : Alike(taskFuncs[s], design.funcs[s])

\* Alike vectors have a name in the same places.
LEMMA AlikePlaces ==
  ASSUME NEW fs, NEW gs, Alike(fs, gs)
  PROVE  Named(fs) = Named(gs) /\ \A n : Places(fs, n) = Places(gs, n)
BY DEF Alike, Named, Places

\* The kinds in the tables made of a vector are those of a vector alike.
LEMMA AlikeKinds ==
  ASSUME NEW fs \in Seq(Func), NEW gs, Alike(fs, gs), NEW n \in Named(fs)
  PROVE  /\ Min(Places(gs, n)) \in Places(gs, n) /\ Max(Places(gs, n)) \in Places(gs, n)
         /\ FuncMap(fs)[n].kind = gs[Min(Places(gs, n))].kind
         /\ LatestFuncMap(fs)[n].kind = gs[Max(Places(gs, n))].kind
<1>1. DOMAIN fs = 1 .. Len(fs) /\ Len(fs) \in Nat
  OBVIOUS
<1>2. Places(fs, n) \in SUBSET (1 .. Len(fs)) /\ Places(fs, n) # {}
      /\ \A i \in Places(fs, n) : i \in DOMAIN fs
  BY <1>1 DEF Places, Named
<1>3. Min(Places(fs, n)) \in Places(fs, n) /\ Max(Places(fs, n)) \in Places(fs, n)
  <2>1. Places(fs, n) \in SUBSET Nat
    BY <1>1, <1>2
  <2> QED
    BY <1>1, <1>2, <2>1, MinOf, MaxOf
<1>4. Places(fs, n) = Places(gs, n)
  BY AlikePlaces
<1>5. /\ FuncMap(fs)[n] = fs[Min(Places(fs, n))]
      /\ LatestFuncMap(fs)[n] = fs[Max(Places(fs, n))]
  BY DEF FuncMap, LatestFuncMap
<1>6. \A i \in DOMAIN fs : fs[i].kind = gs[i].kind
  BY DEF Alike
<1> QED
  BY <1>2, <1>3, <1>4, <1>5, <1>6

\* The clones of the functions of a scope are like them.
LEMMA ClonesAlike ==
  ASSUME TypeInv, NEW s \in Scope
  PROVE  Alike(ClonesOf(s), taskFuncs[s])
<1> DEFINE fs == taskFuncs[s]
           gs == ClonesOf(s)
<1>1. fs \in Seq(Func)
  BY DEF TypeInv
<1>2. DOMAIN gs = DOMAIN fs
  BY DEF ClonesOf
<1>3. ASSUME NEW i \in DOMAIN fs
      PROVE  gs[i].name = fs[i].name /\ gs[i].kind = fs[i].kind
  <2>1. gs[i] = [fs[i] EXCEPT !.generation = @ + 1]
    BY DEF ClonesOf
  <2>2. fs[i] \in Func
    BY <1>1
  <2> HIDE DEF fs, gs
  <2> QED
    BY <2>1, <2>2 DEF Func
<1> HIDE DEF fs, gs
<1>4. Alike(gs, fs)
  BY <1>2, <1>3 DEF Alike
<1> QED
  BY <1>4 DEF fs, gs

\* What is known when all functions have been cloned.
LEMMA AllCloned ==
  ASSUME TypeInv, NEW s \in Scope
  PROVE  ClonedFuncMap(s, Len(taskFuncs[s])) = LatestFuncMap(ClonesOf(s))
<1> DEFINE cs == ClonesOf(s)
           n == Len(taskFuncs[s])
           some == SubSeq(cs, 1, n)
<1>1. cs \in Seq(Func) /\ Len(cs) = n /\ n \in Nat
  <2>1. taskFuncs[s] \in Seq(Func)
    BY DEF TypeInv
  <2> QED
    BY <2>1, ClonesAre
<1> HIDE DEF cs, n
<1>2. some \in Seq(Func) /\ Len(some) = n /\ \A i \in 1 .. n : some[i] = cs[i]
  BY <1>1, SubSeqProperties
<1> HIDE DEF some
<1>3. some = cs
  BY <1>1, <1>2, SeqEqual
<1> QED
  BY <1>3 DEF some, cs, n, ClonedFuncMap

\* The tables that are pushed for a scope know what it offers.
LEMMA TablesKnow ==
  ASSUME TypeInv, NamesInv, NEW s \in Scope
  PROVE  /\ Knows(ClassFuncMap(s), s)
         /\ design.kind[s] # "class" =>
              /\ Knows(FuncMap(taskFuncs[s]), s)
              /\ Knows(ClonedFuncMap(s, Len(taskFuncs[s])), s)
<1> DEFINE bases == design.bases[s]
           offering(n) == {i \in DOMAIN bases : n \in Named(design.funcs[bases[i]])}
<1>1. design \in Designs /\ \A t \in Scope : taskFuncs[t] \in Seq(Func)
  BY DEF TypeInv
<1>2. /\ bases \in Seq(Scope) /\ bases # <<>> /\ bases[1] = s
      /\ design.kind[s] # "class" => \A i \in 2 .. Len(bases) : FALSE
  <2>1. design.bases \in [Scope -> Seq(Scope)] /\ ExtendsClasses(design)
    BY <1>1, DesignIs
  <2> QED
    BY <2>1 DEF ExtendsClasses
<1>3. /\ \A i \in DOMAIN bases : bases[i] \in Scope /\ i \in Nat
      /\ 1 \in DOMAIN bases
  BY <1>2
<1>4. \A n : Offers(s, n) <=> offering(n) # {}
  BY DEF Offers
<1>5. ASSUME NEW n, Offers(s, n)
      PROVE  Min(offering(n)) \in offering(n)
  <2>1. offering(n) \in SUBSET Nat /\ offering(n) # {}
    BY <1>3, <1>4, <1>5
  <2> HIDE DEF offering
  <2> QED
    BY <2>1, MinOf
<1>6. ASSUME NEW n
      PROVE  /\ KindIn(design, s, n) =
                  design.funcs[bases[Min(offering(n))]]
                    [Min(Places(design.funcs[bases[Min(offering(n))]], n))].kind
             /\ {i \in DOMAIN bases : n \in Named(taskFuncs[bases[i]])} = offering(n)
  <2>1. \A i \in DOMAIN bases : Named(taskFuncs[bases[i]]) = Named(design.funcs[bases[i]])
    BY <1>3, AlikePlaces DEF NamesInv
  <2> QED
    BY <2>1 DEF KindIn
<1>7. Knows(ClassFuncMap(s), s)
  <2>1. \A n : n \in DOMAIN ClassFuncMap(s) <=>
               {i \in DOMAIN bases : n \in Named(taskFuncs[bases[i]])} # {}
    BY DEF ClassFuncMap
  <2>2. \A n : n \in DOMAIN ClassFuncMap(s) <=> Offers(s, n)
    BY <1>4, <1>6, <2>1
  <2>3. ASSUME NEW n \in DOMAIN ClassFuncMap(s)
        PROVE  ClassFuncMap(s)[n].kind = KindIn(design, s, n)
    <3> DEFINE b == bases[Min(offering(n))]
    <3>1. ClassFuncMap(s)[n] = FuncMap(taskFuncs[b])[n]
      <4>1. ClassFuncMap(s)[n] =
              FuncMap(taskFuncs[bases[Min({i \in DOMAIN bases : n \in Named(taskFuncs[bases[i]])})]])[n]
        BY DEF ClassFuncMap
      <4> QED
        BY <1>6, <4>1
    <3>2. b \in Scope /\ n \in Named(design.funcs[b])
      <4>1. Min(offering(n)) \in offering(n)
        BY <1>5, <2>2
      <4> QED
        BY <1>3, <4>1
    <3>3. KindIn(design, s, n) = design.funcs[b][Min(Places(design.funcs[b], n))].kind
      BY <1>6
    <3> HIDE DEF b
    <3>4. Alike(taskFuncs[b], design.funcs[b]) /\ taskFuncs[b] \in Seq(Func)
      BY <1>1, <3>2 DEF NamesInv
    <3>5. n \in Named(taskFuncs[b])
      BY <3>2, <3>4, AlikePlaces
    <3> QED
      BY <3>1, <3>3, <3>4, <3>5, AlikeKinds
  <2> QED
    BY <2>2, <2>3 DEF Knows
<1>8. ASSUME design.kind[s] # "class",
             NEW fs \in Seq(Func), Alike(fs, design.funcs[s])
      PROVE  Knows(FuncMap(fs), s) /\ Knows(LatestFuncMap(fs), s)
  <2>1. \A i \in DOMAIN bases : i = 1
    BY <1>2, <1>8
  <2>2. \A n : Offers(s, n) <=> n \in Named(fs)
    <3>1. Named(fs) = Named(design.funcs[s])
      BY <1>8, AlikePlaces
    <3> QED
      BY <1>2, <1>3, <2>1, <3>1 DEF Offers
  <2>3. DOMAIN FuncMap(fs) = Named(fs) /\ DOMAIN LatestFuncMap(fs) = Named(fs)
    BY DEF FuncMap, LatestFuncMap
  <2>4. ASSUME NEW n \in Named(fs), HasOneKind(s, n)
        PROVE  /\ FuncMap(fs)[n].kind = KindIn(design, s, n)
               /\ LatestFuncMap(fs)[n].kind = KindIn(design, s, n)
    <3> DEFINE ds == design.funcs[s]
    <3>1. Min(offering(n)) = 1
      BY <1>5, <2>1, <2>2
    <3>2. KindIn(design, s, n) = ds[Min(Places(ds, n))].kind
      BY <1>2, <1>6, <3>1
    <3>3. \A i, j \in Places(ds, n) : ds[i].kind = ds[j].kind
      BY <1>8, <2>4 DEF HasOneKind
    <3> HIDE DEF ds
    <3>4. /\ Min(Places(ds, n)) \in Places(ds, n) /\ Max(Places(ds, n)) \in Places(ds, n)
          /\ FuncMap(fs)[n].kind = ds[Min(Places(ds, n))].kind
          /\ LatestFuncMap(fs)[n].kind = ds[Max(Places(ds, n))].kind
      BY <1>8, AlikeKinds DEF ds
    <3>5. ds[Min(Places(ds, n))].kind = ds[Max(Places(ds, n))].kind
      BY <3>3, <3>4
    <3> QED
      BY <3>2, <3>4, <3>5
  <2> QED
    BY <2>2, <2>3, <2>4 DEF Knows
<1>9. ASSUME design.kind[s] # "class"
      PROVE  /\ Knows(FuncMap(taskFuncs[s]), s)
             /\ Knows(ClonedFuncMap(s, Len(taskFuncs[s])), s)
  <2>1. Alike(taskFuncs[s], design.funcs[s])
    BY DEF NamesInv
  <2>2. Alike(ClonesOf(s), design.funcs[s])
    BY <2>1, ClonesAlike DEF Alike
  <2>3. ClonesOf(s) \in Seq(Func)
    BY ClonesAre
  <2> QED
    BY <1>1, <1>8, <1>9, <2>1, <2>2, <2>3, AllCloned
<1> QED
  BY <1>7, <1>9

\* Pushing a table that knows what a scope offers.
LEMMA KnowsGrow ==
  ASSUME NEW stack \in Seq(Entry), NEW p \in Seq(Scope), Len(stack) = Len(p),
         KnowsOwn(stack, p), NEW e \in Entry, NEW k \in Scope, Knows(e.funcMap, k)
  PROVE  KnowsOwn(Append(stack, e), Append(p, k))
<1> DEFINE s == Append(stack, e)
           q == Append(p, k)
<1>1. /\ s \in Seq(Entry) /\ q \in Seq(Scope) /\ Len(p) \in Nat
      /\ Len(s) = Len(p) + 1 /\ Len(q) = Len(p) + 1
      /\ \A i \in 1 .. Len(p) : s[i] = stack[i] /\ q[i] = p[i]
      /\ s[Len(p) + 1] = e /\ q[Len(p) + 1] = k
  BY AppendProperties
<1>2. DOMAIN q = 1 .. Len(p) + 1 /\ DOMAIN p = 1 .. Len(p)
  BY <1>1
<1> HIDE DEF s, q
<1>3. SUFFICES ASSUME NEW i \in DOMAIN q PROVE Knows(s[i].funcMap, q[i])
  BY DEF KnowsOwn, s, q
<1>4. CASE i \in 1 .. Len(p)
  BY <1>1, <1>2, <1>4 DEF KnowsOwn
<1>5. CASE i = Len(p) + 1
  BY <1>1, <1>5
<1> QED
  BY <1>1, <1>2, <1>4, <1>5

\* The scope a call on a straight way looks outwards from, if it has no prefix: its
\* own, or the one in front of it.
LEMMA HomeIs ==
  ASSUME design \in Designs, NEW p \in Seq(Scope),
         NEW c \in design.calls, NEW j \in DOMAIN p, p[j] = c.in, Straight(p, j)
  PROVE  \E h \in 1 .. j : Home(c) = p[h]
<1>1. j \in Nat /\ j \in 1 .. j
  OBVIOUS
<1>2. CASE ~ c.highConn
  BY <1>1, <1>2 DEF Home
<1>3. CASE c.highConn
  <2>1. IsNested(design)
    BY DesignIs
  <2>2. design.around[p[j]] # None
    BY <1>3, <2>1 DEF IsNested
  <2>3. j # 1 /\ design.around[p[j]] = p[j - 1]
    BY <1>1, <2>2 DEF Straight
  <2>4. j - 1 \in 1 .. j
    BY <1>1, <2>3
  <2> QED
    BY <1>3, <2>3, <2>4 DEF Home
<1> QED
  BY <1>2, <1>3

\* What a name means offers it; it is one of the scopes that are searched, and all
\* others of them that offer the name are around it.
LEMMA MeaningIs ==
  ASSUME design \in Designs, NEW c, HasMeaning(c), c.prefix \in Scope \cup {None}
  PROVE  /\ Meaning(c) \in Scope /\ Meaning(c) \in SearchedBy(c)
         /\ Offers(Meaning(c), c.name)
         /\ \A t \in SearchedBy(c) : Offers(t, c.name) => t \in Chain(Meaning(c))
<1>1. Meaning(c) \in MeantBy(c)
  BY DEF HasMeaning, Meaning
<1>2. SearchedBy(c) \subseteq Scope
  <2>1. CASE c.prefix = None
    <3>1. Chain(Home(c)) \subseteq Scope
      BY ReachedAreNodes DEF Chain
    <3> QED
      BY <2>1, <3>1 DEF SearchedBy
  <2>2. CASE c.prefix # None
    BY <2>2 DEF SearchedBy
  <2> QED
    BY <2>1, <2>2
<1> QED
  BY <1>1, <1>2 DEF MeantBy

\* A way never leads to a package.
LEMMA NoPackageInside ==
  ASSUME design \in Designs, NEW p, Branch(p), NEW k \in DOMAIN p, k # 1
  PROVE  design.kind[p[k]] # "package"
<1>1. p[k - 1] \in Comes(p[k])
  BY DEF Branch
<1>2. PICK q \in Scope : \E i \in DOMAIN design.children[q] : design.children[q][i] = p[k]
  BY <1>1 DEF Comes
<1>3. IsNested(design)
  BY DesignIs
<1>4. \A q1 \in Scope : \A i \in DOMAIN design.children[q1] :
        design.kind[design.children[q1][i]] # "package"
  BY <1>3 DEF IsNested
<1> QED
  BY <1>2, <1>4

\* If a name that nothing confuses is found in a scope of the way, it means that
\* scope.
LEMMA FoundIsMeant ==
  ASSUME TypeInv,
         NEW stack \in Seq(Entry), NEW p \in Seq(Scope), Len(stack) = Len(p),
         Branch(p), IsPath(p), KnowsOwn(stack, p),
         NEW c \in design.calls, NEW j \in DOMAIN p, p[j] = c.in,
         HasMeaning(c), Unconfused(c),
         NEW i \in DOMAIN p, c.name \in DOMAIN stack[i].funcMap,
         \A k \in DOMAIN p : c.name \in DOMAIN stack[k].funcMap => k <= i
  PROVE  Meaning(c) = p[i]
<1>1. /\ c.in \in Scope /\ c.prefix \in Scope \cup {None} /\ design \in Designs
  <2>1. c \in Call /\ design \in Designs
    BY DesignIs DEF TypeInv
  <2> QED
    BY <2>1 DEF Call
<1>2. /\ DOMAIN p = 1 .. Len(p) /\ Len(p) \in Nat
      /\ \A k \in DOMAIN p : p[k] \in Scope
  OBVIOUS
<1>3. Offers(p[i], c.name)
  BY DEF KnowsOwn, Knows
<1>4. p[i] \in Above(c.in) \cup Below(c.in) /\ (j < i => p[i] \in Below(c.in))
  <2>1. CASE i <= j
    BY <1>2, <2>1, PathAbove
  <2>2. CASE j < i
    BY <2>2 DEF IsPath
  <2> QED
    BY <1>2, <2>1, <2>2
<1>5. SUFFICES ASSUME Meaning(c) # p[i] PROVE FALSE
  OBVIOUS
<1>6. IsInPlace(c.in) /\ p[i] \in SearchedBy(c) /\ p[i] \notin Below(c.in)
  BY <1>3, <1>4, <1>5 DEF Unconfused
<1>7. /\ Meaning(c) \in Scope /\ Meaning(c) \in SearchedBy(c) /\ Offers(Meaning(c), c.name)
      /\ p[i] \in Chain(Meaning(c))
  BY <1>1, <1>3, <1>6, MeaningIs
<1>8. c.prefix = None
  BY <1>5, <1>6, <1>7 DEF SearchedBy
<1>9. Straight(p, j)
  BY <1>1, <1>6, InPlaceIsStraight
<1>10. PICK h \in 1 .. j : Home(c) = p[h]
  BY <1>1, <1>9, HomeIs
<1>11. SearchedBy(c) = Chain(p[h])
  BY <1>8, <1>10 DEF SearchedBy
<1>12. i \in 1 .. j
  BY <1>2, <1>4, <1>6
<1>13. PICK m \in 1 .. h : Meaning(c) = p[m]
  <2>1. \A s \in Chain(p[h]) : \E k \in 1 .. h : s = p[k]
    BY <1>1, <1>9, StraightIsChain
  <2> QED
    BY <1>7, <1>11, <2>1
<1>14. m \in 1 .. j /\ m \in DOMAIN p /\ m \in Nat
  BY <1>2, <1>13
<1>15. PICK l \in 1 .. m : p[i] = p[l]
  <2>1. \A s \in Chain(p[m]) : \E k \in 1 .. m : s = p[k]
    BY <1>1, <1>9, <1>14, StraightIsChain
  <2> QED
    BY <1>7, <1>13, <2>1
<1>16. i \in 1 .. m
  <2>1. l \in 1 .. j
    BY <1>14, <1>15
  <2>2. i = l
    BY <1>9, <1>12, <1>15, <2>1, StraightApart
  <2> QED
    BY <1>15, <2>2
<1>17. CASE design.kind[p[m]] # "package"
  <2>1. c.name \in DOMAIN stack[m].funcMap
    BY <1>7, <1>13, <1>14, <1>17 DEF KnowsOwn, Knows
  <2>2. m <= i
    BY <1>14, <2>1
  <2> QED
    BY <1>5, <1>13, <1>14, <1>16, <2>2
<1>18. CASE design.kind[p[m]] = "package"
  <2>1. m = 1
    BY <1>1, <1>14, <1>18, NoPackageInside
  <2> QED
    BY <1>5, <1>13, <1>16, <2>1
<1> QED
  BY <1>17, <1>18

\* If it is found in no scope of the way, then it means none of them but, maybe, a
\* package.
LEMMA NotFoundIsElsewhere ==
  ASSUME TypeInv,
         NEW stack \in Seq(Entry), NEW p \in Seq(Scope), Len(stack) = Len(p),
         Branch(p), KnowsOwn(stack, p),
         NEW c \in design.calls, NEW j \in DOMAIN p, p[j] = c.in,
         HasMeaning(c), c.prefix = None, IsInPlace(c.in) \/ Meaning(c) = c.in,
         \A k \in DOMAIN p : c.name \notin DOMAIN stack[k].funcMap
  PROVE  design.kind[Meaning(c)] = "package"
<1>1. design \in Designs
  BY DEF TypeInv
<1>2. /\ Meaning(c) \in Scope /\ Meaning(c) \in SearchedBy(c) /\ Offers(Meaning(c), c.name)
  BY <1>1, MeaningIs
<1>3. \E m \in DOMAIN p : Meaning(c) = p[m]
  <2>1. CASE IsInPlace(c.in)
    <3>1. Straight(p, j)
      BY <1>1, <2>1, InPlaceIsStraight
    <3>2. PICK h \in 1 .. j : Home(c) = p[h]
      BY <1>1, <3>1, HomeIs
    <3>3. Meaning(c) \in Chain(p[h])
      BY <1>2, <3>2 DEF SearchedBy
    <3>4. PICK m \in 1 .. h : Meaning(c) = p[m]
      <4>1. \A s \in Chain(p[h]) : \E k \in 1 .. h : s = p[k]
        BY <1>1, <3>1, StraightIsChain
      <4> QED
        BY <3>3, <4>1
    <3>5. m \in DOMAIN p
      <4>1. j \in 1 .. Len(p) /\ Len(p) \in Nat /\ DOMAIN p = 1 .. Len(p)
        OBVIOUS
      <4> QED
        BY <4>1
    <3> QED
      BY <3>4, <3>5
  <2>2. CASE Meaning(c) = c.in
    BY <2>2
  <2> QED
    BY <2>1, <2>2
<1> QED
  BY <1>2, <1>3 DEF KnowsOwn, Knows

\* What an unconfused name means on a stack that knows what the scopes of a way
\* offer: what it means by the rules of the language, or nothing, if that is not
\* there, or in a package.
LEMMA LookupMeans ==
  ASSUME TypeInv, NamesInv,
         NEW stack \in Seq(Entry), NEW p \in Seq(Scope), Len(stack) = Len(p),
         Branch(p), IsPath(p), KnowsOwn(stack, p),
         NEW c \in design.calls, NEW j \in DOMAIN p, p[j] = c.in,
         HasMeaning(c), Unconfused(c)
  PROVE  \/ /\ c.prefix \in Scope /\ Meaning(c) = c.prefix
            /\ c.name \in DOMAIN ClassFuncMap(c.prefix)
            /\ Lookup(stack, c.name, c.prefix) = ClassFuncMap(c.prefix)[c.name]
         \/ \E i \in DOMAIN p :
              /\ Meaning(c) = p[i] /\ c.name \in DOMAIN stack[i].funcMap
              /\ Lookup(stack, c.name, c.prefix) = stack[i].funcMap[c.name]
         \/ /\ Lookup(stack, c.name, c.prefix) = None
            /\ IsInPlace(c.in) \/ Meaning(c) \in {c.in, c.prefix} =>
                 design.kind[Meaning(c)] = "package"
<1>1. /\ c.prefix \in Scope \cup {None} /\ design \in Designs /\ None \notin Scope
      /\ c.prefix # None => design.kind[c.prefix] = "class"
  <2>1. c \in Call /\ design \in Designs /\ ExtendsClasses(design)
    BY DesignIs DEF TypeInv
  <2> QED
    BY <2>1, NoneAssumption DEF Call, ExtendsClasses
<1>2. DOMAIN stack = DOMAIN p
  OBVIOUS
<1>3. Meaning(c) \in Scope /\ Meaning(c) \in SearchedBy(c) /\ Offers(Meaning(c), c.name)
  BY <1>1, MeaningIs
<1>4. CASE \E i \in DOMAIN stack :
              /\ c.name \in DOMAIN stack[i].funcMap
              /\ Lookup(stack, c.name, c.prefix) = stack[i].funcMap[c.name]
              /\ \A k \in DOMAIN stack : c.name \in DOMAIN stack[k].funcMap => k <= i
  <2>1. PICK i \in DOMAIN p :
              /\ c.name \in DOMAIN stack[i].funcMap
              /\ Lookup(stack, c.name, c.prefix) = stack[i].funcMap[c.name]
              /\ \A k \in DOMAIN p : c.name \in DOMAIN stack[k].funcMap => k <= i
    BY <1>2, <1>4
  <2>2. Meaning(c) = p[i]
    BY <2>1, FoundIsMeant
  <2> QED
    BY <2>1, <2>2
<1>5. CASE \A i \in DOMAIN stack : c.name \notin DOMAIN stack[i].funcMap
  <2>1. CASE c.prefix # None
    <3>1. c.prefix \in Scope /\ Meaning(c) = c.prefix
      BY <1>1, <1>3, <2>1 DEF SearchedBy
    <3>2. Knows(ClassFuncMap(c.prefix), c.prefix)
      BY <3>1, TablesKnow
    <3>3. design.kind[c.prefix] # "package"
      <4>1. "class" # "package"
        OBVIOUS
      <4> QED
        BY <1>1, <2>1, <4>1
    <3>4. c.name \in DOMAIN ClassFuncMap(c.prefix)
      BY <1>3, <3>1, <3>2, <3>3 DEF Knows
    <3>5. Lookup(stack, c.name, c.prefix) = ClassFuncMap(c.prefix)[c.name]
      <4>1. {i \in DOMAIN stack : c.name \in DOMAIN stack[i].funcMap} = {}
        BY <1>5
      <4> QED
        BY <2>1, <3>4, <4>1 DEF Lookup
    <3> QED
      BY <3>1, <3>4, <3>5
  <2>2. CASE c.prefix = None
    <3>1. Lookup(stack, c.name, c.prefix) = None
      BY <1>1, <1>5, <2>2, LookupFinds
    <3>2. ASSUME IsInPlace(c.in) \/ Meaning(c) \in {c.in, c.prefix}
          PROVE  design.kind[Meaning(c)] = "package"
      <4>1. IsInPlace(c.in) \/ Meaning(c) = c.in
        BY <1>1, <1>3, <2>2, <3>2
      <4> QED
        BY <1>2, <1>5, <2>2, <4>1, NotFoundIsElsewhere
    <3> QED
      BY <3>1, <3>2
  <2> QED
    BY <2>1, <2>2
<1> QED
  BY <1>1, <1>4, <1>5, LookupFinds

\* So what it is found to be is a function of the scope it means.
LEMMA MeantByLanguage ==
  ASSUME TypeInv, NamesInv,
         NEW stack \in Seq(Entry), NEW p \in Seq(Scope), Len(stack) = Len(p),
         Branch(p), IsPath(p), OffersOwn(stack, p), KnowsOwn(stack, p),
         NEW c \in design.calls, NEW j \in DOMAIN p, p[j] = c.in,
         HasMeaning(c), Unconfused(c),
         Lookup(stack, c.name, c.prefix) # None
  PROVE  Belongs(Lookup(stack, c.name, c.prefix), Meaning(c))
<1>1. CASE /\ c.prefix \in Scope /\ Meaning(c) = c.prefix
           /\ c.name \in DOMAIN ClassFuncMap(c.prefix)
           /\ Lookup(stack, c.name, c.prefix) = ClassFuncMap(c.prefix)[c.name]
  BY <1>1, TablesOffer
<1>2. CASE \E i \in DOMAIN p :
             /\ Meaning(c) = p[i] /\ c.name \in DOMAIN stack[i].funcMap
             /\ Lookup(stack, c.name, c.prefix) = stack[i].funcMap[c.name]
  BY <1>2 DEF OffersOwn
<1> QED
  BY <1>1, <1>2, LookupMeans

\* A call that is to be bound finds a function, of the kind its name means.
LEMMA FindsItsKind ==
  ASSUME TypeInv, NamesInv,
         NEW stack \in Seq(Entry), NEW p \in Seq(Scope), Len(stack) = Len(p),
         Branch(p), IsPath(p), KnowsOwn(stack, p),
         NEW c \in design.calls, NEW j \in DOMAIN p, p[j] = c.in, IsToBind(c)
  PROVE  /\ Lookup(stack, c.name, c.prefix) # None
         /\ Lookup(stack, c.name, c.prefix).kind = KindIn(design, Meaning(c), c.name)
<1>1. /\ HasMeaning(c) /\ Unconfused(c) /\ design.kind[Meaning(c)] # "package"
      /\ IsInPlace(c.in) \/ Meaning(c) \in {c.in, c.prefix}
      /\ HasOneKind(Meaning(c), c.name)
  BY DEF IsToBind
<1>2. CASE /\ c.prefix \in Scope /\ Meaning(c) = c.prefix
           /\ c.name \in DOMAIN ClassFuncMap(c.prefix)
           /\ Lookup(stack, c.name, c.prefix) = ClassFuncMap(c.prefix)[c.name]
  <2>1. ClassFuncMap(c.prefix)[c.name] \in Func
    BY <1>2, ClassFuncMapIs
  <2>2. Knows(ClassFuncMap(c.prefix), c.prefix)
    BY <1>2, TablesKnow
  <2> QED
    BY <1>1, <1>2, <2>1, <2>2, FuncAssumption DEF Knows
<1>3. ASSUME NEW i \in DOMAIN p,
             Meaning(c) = p[i], c.name \in DOMAIN stack[i].funcMap,
             Lookup(stack, c.name, c.prefix) = stack[i].funcMap[c.name]
      PROVE  /\ Lookup(stack, c.name, c.prefix) # None
             /\ Lookup(stack, c.name, c.prefix).kind = KindIn(design, Meaning(c), c.name)
  <2>1. stack[i].funcMap[c.name] \in Func
    <3>1. stack[i].funcMap \in Tables
      <4>1. stack[i] \in Entry
        OBVIOUS
      <4> QED
        BY <4>1 DEF Entry
    <3> QED
      BY <1>3, <3>1 DEF Tables
  <2>2. Knows(stack[i].funcMap, p[i])
    BY DEF KnowsOwn
  <2> QED
    BY <1>1, <1>3, <2>1, <2>2, FuncAssumption DEF Knows
<1> QED
  BY <1>1, <1>2, <1>3, LookupMeans

\* What is bound, if it should be by the rules of the language.
ByLanguage(f, c) == HasMeaning(c) /\ Unconfused(c) => Belongs(f, Meaning(c))

\* The rules are a matter of the design.
LEMMA SameLanguage ==
  ASSUME design' = design
  PROVE  /\ \A f, c : ByLanguage(f, c)' <=> ByLanguage(f, c)
         /\ \A c : (IsToBind(c)' <=> IsToBind(c)) /\ Meaning(c)' = Meaning(c)
         /\ \A p : Branch(p)' <=> Branch(p)
         /\ \A m, s : Knows(m, s)' <=> Knows(m, s)
<1>1. /\ \A s : Comes(s)' = Comes(s) /\ Above(s)' = Above(s) /\ Below(s)' = Below(s)
      /\ \A s : Chain(s)' = Chain(s)
  BY SameKin DEF Chain
<1>2. \A f, s : Belongs(f, s)' <=> Belongs(f, s)
  BY DEF Belongs
<1>3. \A s, n : Offers(s, n)' <=> Offers(s, n)
  BY DEF Offers
<1>4. ASSUME NEW c PROVE SearchedBy(c)' = SearchedBy(c)
  <2>1. Home(c)' = Home(c)
    BY DEF Home
  <2> QED
    BY <1>1, <2>1 DEF SearchedBy
<1>5. ASSUME NEW s PROVE IsInPlace(s)' <=> IsInPlace(s)
  BY <1>1 DEF IsInPlace
<1>6. ASSUME NEW c PROVE MeantBy(c)' = MeantBy(c)
  <2>1. {s \in SearchedBy(c) : Offers(s, c.name)}' = {s \in SearchedBy(c) : Offers(s, c.name)}
    BY <1>3, <1>4
  <2> QED
    BY <1>1, <2>1 DEF MeantBy
<1>7. ASSUME NEW c PROVE (HasMeaning(c)' <=> HasMeaning(c)) /\ Meaning(c)' = Meaning(c)
  BY <1>6 DEF HasMeaning, Meaning
<1>8. ASSUME NEW c PROVE Unconfused(c)' <=> Unconfused(c)
  BY <1>1, <1>3, <1>4, <1>5, <1>7 DEF Unconfused
<1>9. ASSUME NEW f, NEW c PROVE ByLanguage(f, c)' <=> ByLanguage(f, c)
  BY <1>2, <1>7, <1>8 DEF ByLanguage
<1>10. ASSUME NEW p PROVE Branch(p)' <=> Branch(p)
  BY <1>1 DEF Branch
<1>11. ASSUME NEW m, NEW s PROVE Knows(m, s)' <=> Knows(m, s)
  <2>1. \A n : HasOneKind(s, n)' <=> HasOneKind(s, n)
    BY DEF HasOneKind, Places
  <2>2. \A n : KindIn(design', s, n) = KindIn(design, s, n)
    OBVIOUS
  <2>3. Knows(m, s)' <=>
          /\ \A n \in DOMAIN m : Offers(s, n)'
          /\ design'.kind[s] # "package" => \A n : Offers(s, n)' => n \in DOMAIN m
          /\ \A n \in DOMAIN m : HasOneKind(s, n)' => m[n].kind = KindIn(design', s, n)
    BY DEF Knows
  <2> QED
    BY <1>3, <2>1, <2>2, <2>3 DEF Knows
<1>12. ASSUME NEW c PROVE IsToBind(c)' <=> IsToBind(c)
  <2>1. \A s : IsElaborated(s)' <=> IsElaborated(s)
    BY <1>1 DEF IsElaborated
  <2>2. \A s, n : HasOneKind(s, n)' <=> HasOneKind(s, n)
    BY DEF HasOneKind, Places
  <2>3. /\ HasMeaning(c)' <=> HasMeaning(c)
        /\ Unconfused(c)' <=> Unconfused(c)
        /\ Meaning(c)' = Meaning(c)
        /\ IsInPlace(c.in)' <=> IsInPlace(c.in)
    BY <1>5, <1>7, <1>8
  <2>4. IsToBind(c)' <=>
          /\ IsElaborated(c.in)' /\ HasMeaning(c)' /\ Unconfused(c)'
          /\ IsInPlace(c.in)' \/ Meaning(c)' \in {c.in, c.prefix}
          /\ design'.kind[Meaning(c)'] # "package" /\ HasOneKind(Meaning(c), c.name)'
    BY DEF IsToBind
  <2>5. HasOneKind(Meaning(c), c.name)' <=> HasOneKind(Meaning(c), c.name)
    <3>1. HasOneKind(Meaning(c), c.name)' <=>
            \/ design'.kind[Meaning(c)'] = "class"
            \/ \A i, j \in Places(design'.funcs[Meaning(c)'], c.name) :
                 design'.funcs[Meaning(c)'][i].kind = design'.funcs[Meaning(c)'][j].kind
      BY DEF HasOneKind
    <3> QED
      BY <2>3, <3>1 DEF HasOneKind
  <2> QED
    BY <2>1, <2>3, <2>4, <2>5 DEF IsToBind
<1> QED
  BY <1>7, <1>9, <1>10, <1>11, <1>12

\* The walk is a way it may take, the stack knows what its scopes offer, and calls are
\* bound by the rules.
LanguageInv ==
  /\ Branch(walk)
  /\ NamesInv
  /\ KnowsOwn(instStack, walk)
  /\ \A c \in design.calls : bound[c] # None => ByLanguage(bound[c], c)

\* The invariant after a step.
LEMMA LanguageAfter ==
  ASSUME design' = design,
         Branch(walk'), KnowsOwn(instStack', walk'),
         \A s \in Scope : Alike(taskFuncs'[s], design.funcs[s]),
         \A c \in design.calls : bound'[c] # None => ByLanguage(bound'[c], c)
  PROVE  LanguageInv'
<1>1. Branch(walk)'
  BY SameLanguage DEF Branch
<1>2. KnowsOwn(instStack, walk)'
  BY SameLanguage DEF KnowsOwn
<1>3. NamesInv'
  BY DEF NamesInv
<1>4. (\A c \in design.calls : bound[c] # None => ByLanguage(bound[c], c))'
  BY SameLanguage
<1> QED
  BY <1>1, <1>2, <1>3, <1>4 DEF LanguageInv

\* A round on a stack that knows what the scopes of a way offer.
IsLanguageRound(round) ==
  \E p : IsRoundOn(round, p) /\ Branch(p) /\ KnowsOwn(round.stack, p)

\* After such rounds what is bound is so by the rules, if it was before.
LEMMA RoundsBindByLanguage ==
  ASSUME TypeInv, LanguageInv,
         NEW rounds, NEW n \in Nat, DOMAIN rounds \in SUBSET (1 .. n),
         \A i \in DOMAIN rounds : IsLanguageRound(rounds[i]),
         NEW c \in design.calls, BoundAfter(rounds)[c] # None
  PROVE  ByLanguage(BoundAfter(rounds)[c], c)
<1>1. CASE BoundAfter(rounds)[c] = bound[c]
  BY <1>1 DEF LanguageInv
<1>2. ASSUME NEW i \in DOMAIN rounds, BindsIn(rounds[i], c),
             BoundAfter(rounds)[c] = Lookup(rounds[i].stack, c.name, c.prefix)
      PROVE  ByLanguage(BoundAfter(rounds)[c], c)
  <2> DEFINE round == rounds[i]
             f == Lookup(round.stack, c.name, c.prefix)
  <2>1. f # None /\ [call |-> c, kind |-> f.kind] \in round.schedule
    BY <1>2 DEF BindsIn
  <2>2. PICK p : IsRoundOn(round, p) /\ Branch(p) /\ KnowsOwn(round.stack, p)
    BY DEF IsLanguageRound
  <2>3. /\ round.stack \in Seq(Entry) /\ p \in Seq(Scope)
        /\ Len(round.stack) = Len(p) /\ IsPath(p) /\ OffersOwn(round.stack, p)
        /\ \A sc \in round.schedule : \E j \in DOMAIN p : p[j] = sc.call.in
    BY <2>2 DEF IsRoundOn
  <2>4. PICK j \in DOMAIN p : p[j] = c.in
    <3>1. [call |-> c, kind |-> f.kind].call = c
      OBVIOUS
    <3> HIDE DEF round, f
    <3> QED
      BY <2>1, <2>3, <3>1
  <2>5. HasMeaning(c) /\ Unconfused(c) => Belongs(f, Meaning(c))
    <3> HIDE DEF round
    <3> QED
      BY <2>1, <2>2, <2>3, <2>4, MeantByLanguage DEF LanguageInv
  <2> QED
    BY <1>2, <2>5 DEF ByLanguage
<1> QED
  BY <1>1, <1>2, BoundAfterIs

\* The rounds of a module are such rounds.
LEMMA ModuleLanguageRounds ==
  ASSUME TypeInv, PathInv, KinInv, LanguageInv, CanEnter("module"), NEW r \in Classes
  PROVE  IsLanguageRound(Rounds[r])
<1> DEFINE k == Members[r]
           e == [object |-> Here, funcMap |-> FuncMap(taskFuncs[Here])]
           f == [object |-> k, funcMap |-> ClassFuncMap(k)]
           p == Append(walk, Here)
           q == Append(p, k)
<1>1. Here \in Scope /\ k \in Scope /\ Rounds[r].stack = Within(k) /\ design.kind[Here] = "module"
  BY CanEnterIs, RoundsAre
<1>2. /\ walk \in Seq(Scope) /\ instStack \in Seq(Entry) /\ Len(instStack) = Len(walk)
      /\ taskFuncs[Here] \in Seq(Func)
  BY <1>1 DEF TypeInv
<1>3. e \in Entry /\ f \in Entry
  BY <1>1, <1>2, FuncMapIsTable, ClassFuncMapIs DEF Entry
<1>4. Within(k) = Append(Append(instStack, e), f)
  BY DEF Within, Original, Push
<1>5. /\ p \in Seq(Scope) /\ Len(p) = Len(walk) + 1 /\ p[Len(walk) + 1] = Here
      /\ Append(instStack, e) \in Seq(Entry) /\ Len(Append(instStack, e)) = Len(walk) + 1
      /\ Len(walk) \in Nat
  <2> HIDE DEF e, k
  <2> QED
    BY <1>1, <1>2, <1>3, AppendProperties
<1>6. Branch(p)
  BY <1>1, <1>2, HereIsChild, BranchGrows DEF LanguageInv
<1>7. Here \in Comes(k)
  <2>1. r \in DOMAIN design.children[Here] /\ k = design.children[Here][r]
    BY DEF Classes, Members
  <2> QED
    BY <1>1, <2>1 DEF Comes
<1>8. Branch(q)
  <2> HIDE DEF k, p
  <2> QED
    BY <1>1, <1>5, <1>6, <1>7, BranchGrows DEF q
<1>9. Knows(e.funcMap, Here) /\ Knows(f.funcMap, k)
  <2>1. Knows(FuncMap(taskFuncs[Here]), Here)
    BY <1>1, TablesKnow DEF LanguageInv
  <2>2. Knows(ClassFuncMap(k), k)
    <3> HIDE DEF k
    <3> QED
      BY <1>1, TablesKnow DEF LanguageInv
  <2> QED
    BY <2>1, <2>2
<1>10. IsRoundOn(Rounds[r], q)
  BY ModuleRounds
<1> HIDE DEF k, e, f, p, q
<1>11. KnowsOwn(Append(instStack, e), p)
  BY <1>1, <1>2, <1>3, <1>9, KnowsGrow DEF p, LanguageInv
<1>12. KnowsOwn(Within(k), q)
  BY <1>1, <1>3, <1>4, <1>5, <1>9, <1>11, KnowsGrow DEF q
<1> QED
  BY <1>1, <1>8, <1>10, <1>12 DEF IsLanguageRound

\* So is the round of a package.
LEMMA PackageLanguageRound ==
  ASSUME TypeInv, PathInv, KinInv, LanguageInv, walk # <<>>, design.kind[Last(walk)] = "package"
  PROVE  IsLanguageRound(Round(AllKnown, PackageSchedule))
<1> DEFINE s == Last(walk)
           all == Len(taskFuncs[s])
<1>1. /\ walk \in Seq(Scope) /\ Len(walk) \in Nat \ {0} /\ DOMAIN walk = 1 .. Len(walk)
      /\ s \in Scope /\ s = walk[Len(walk)]
  BY WalkIs DEF Last
<1>2. all \in 0 .. all
  <2>1. taskFuncs[s] \in Seq(Func)
    BY <1>1 DEF TypeInv
  <2> QED
    BY <2>1
<1>3. /\ AllKnown \in Seq(Entry) /\ Len(AllKnown) = Len(walk)
      /\ \A j \in 1 .. Len(walk) - 1 : AllKnown[j] = instStack[j]
      /\ AllKnown[Len(walk)].funcMap = ClonedFuncMap(s, all)
  BY <1>2, KnownIs DEF AllKnown
<1>4. Knows(ClonedFuncMap(s, all), s)
  <2>1. "package" # "class"
    OBVIOUS
  <2> QED
    BY <1>1, <2>1, TablesKnow DEF LanguageInv
<1> HIDE DEF s, all
<1>5. ASSUME NEW i \in DOMAIN walk PROVE Knows(AllKnown[i].funcMap, walk[i])
  <2>1. CASE i \in 1 .. Len(walk) - 1
    BY <1>1, <1>3, <1>5, <2>1 DEF LanguageInv, KnowsOwn
  <2>2. CASE i = Len(walk)
    BY <1>1, <1>3, <1>4, <1>5, <2>2
  <2> QED
    BY <1>1, <2>1, <2>2
<1>6. KnowsOwn(AllKnown, walk) /\ Branch(walk)
  BY <1>5 DEF KnowsOwn, LanguageInv
<1>7. IsRoundOn(Round(AllKnown, PackageSchedule), walk)
  BY PackageRound
<1> QED
  BY <1>6, <1>7 DEF IsLanguageRound, Round

\* A step leaves the functions of a scope alone, or clones them.
LEMMA FuncsOnlyCloned ==
  ASSUME TypeInv, [Next]_vars
  PROVE  \A s \in Scope : taskFuncs'[s] = taskFuncs[s] \/ taskFuncs'[s] = ClonesOf(s)
<1>1. taskFuncs \in [Scope -> Seq(Func)]
  BY DEF TypeInv
<1>2. CASE EnterModule
  BY <1>2, EnterModuleIs
<1>3. CASE EnterClass
  BY <1>1, <1>3 DEF EnterClass
<1>4. CASE LeavePackage
  BY <1>1, <1>4, LeavePackageIs
<1>5. CASE \/ EnterUndefinedModule \/ EnterInterface \/ EnterPackage
            \/ LeaveInstance \/ EndList
  BY <1>5 DEF EnterUndefinedModule, EnterInterface, EnterPackage, LeaveInstance, EndList
<1>6. CASE UNCHANGED vars
  BY <1>6 DEF vars
<1> QED
  BY <1>2, <1>3, <1>4, <1>5, <1>6 DEF Next

\* So the names and kinds in the vectors stay those of the design.
LEMMA NamesStep ==
  ASSUME TypeInv, NamesInv, [Next]_vars
  PROVE  \A s \in Scope : Alike(taskFuncs'[s], design.funcs[s])
<1>1. ASSUME NEW s \in Scope PROVE Alike(taskFuncs'[s], design.funcs[s])
  <2>1. taskFuncs'[s] = taskFuncs[s] \/ taskFuncs'[s] = ClonesOf(s)
    BY FuncsOnlyCloned
  <2>2. Alike(taskFuncs[s], design.funcs[s])
    BY DEF NamesInv
  <2>3. Alike(ClonesOf(s), design.funcs[s])
    BY <2>2, ClonesAlike DEF Alike
  <2> QED
    BY <2>1, <2>2, <2>3
<1> QED
  BY <1>1

\* The round of leaving an instance is one that binds by the rules.
LEMMA StackIsLanguageRound ==
  ASSUME TypeInv, PathInv, KinInv, LanguageInv
  PROVE  IsLanguageRound(Round(instStack, scheduled))
<1>1. /\ instStack \in Seq(Entry) /\ walk \in Seq(Scope) /\ Len(instStack) = Len(walk)
  BY DEF TypeInv
<1>2. IsRoundOn(Round(instStack, scheduled), walk)
  BY <1>1 DEF KinInv, PathInv, IsRoundOn, Round
<1> QED
  BY <1>2 DEF IsLanguageRound, LanguageInv, Round

\* A scope is entered, and what is pushed for it knows what it offers.
LEMMA LanguageEnter ==
  ASSUME TypeInv, PathInv, LanguageInv, [Next]_vars,
         NEW kind, CanEnter(kind), Descend, design' = design,
         NEW m \in Tables, Knows(m, Here), instStack' = Push(m),
         \A c \in design.calls : bound'[c] # None => ByLanguage(bound'[c], c)
  PROVE  LanguageInv'
<1>1. Here \in Scope
  BY CanEnterIs
<1>2. /\ instStack \in Seq(Entry) /\ walk \in Seq(Scope) /\ Len(instStack) = Len(walk)
  BY DEF TypeInv
<1> DEFINE e == [object |-> Here, funcMap |-> m]
<1>3. e \in Entry /\ e.funcMap = m
  BY <1>1 DEF Entry
<1>4. instStack' = Append(instStack, e) /\ walk' = Append(walk, Here)
  BY DEF Push, Descend
<1> HIDE DEF e
<1>5. Branch(Append(walk, Here))
  BY <1>1, <1>2, HereIsChild, BranchGrows DEF LanguageInv
<1>6. KnowsOwn(Append(instStack, e), Append(walk, Here))
  BY <1>1, <1>2, <1>3, KnowsGrow DEF LanguageInv
<1>7. \A s \in Scope : Alike(taskFuncs'[s], design.funcs[s])
  BY NamesStep DEF LanguageInv
<1> QED
  BY <1>4, <1>5, <1>6, <1>7, LanguageAfter

\* A scope is left.
LEMMA LanguageLeave ==
  ASSUME TypeInv, LanguageInv, [Next]_vars,
         NEW those, CanLeave(those), Ascend, Pop, design' = design,
         \A c \in design.calls : bound'[c] # None => ByLanguage(bound'[c], c)
  PROVE  LanguageInv'
<1>1. /\ walk # <<>> /\ Len(walk) \in Nat \ {0}
      /\ walk' \in Seq(Scope) /\ Len(walk') = Len(walk) - 1
      /\ \A i \in 1 .. Len(walk) - 1 : walk'[i] = walk[i]
  BY AscendIs
<1>2. \A i \in 1 .. Len(walk) - 1 : instStack'[i] = instStack[i]
  BY <1>1, PopIs
<1>3. DOMAIN walk' = 1 .. Len(walk) - 1 /\ DOMAIN walk = 1 .. Len(walk)
  BY <1>1, WalkIs
<1>4. KnowsOwn(instStack', walk')
  <2>1. \A i \in DOMAIN walk' : i \in DOMAIN walk /\ instStack'[i] = instStack[i] /\ walk'[i] = walk[i]
    BY <1>1, <1>2, <1>3
  <2> QED
    BY <2>1 DEF LanguageInv, KnowsOwn
<1>5. Branch(walk')
  <2>1. ASSUME NEW j \in DOMAIN walk'
        PROVE  IF j = 1 THEN \E l \in DOMAIN design.tops : walk'[1] = design.tops[l]
                        ELSE walk'[j - 1] \in Comes(walk'[j])
    <3>1. j \in DOMAIN walk /\ walk'[j] = walk[j]
      BY <1>1, <1>3
    <3>2. j # 1 => walk'[j - 1] = walk[j - 1]
      BY <1>1, <1>3
    <3>3. IF j = 1 THEN \E l \in DOMAIN design.tops : walk[1] = design.tops[l]
                   ELSE walk[j - 1] \in Comes(walk[j])
      BY <3>1 DEF LanguageInv, Branch
    <3> QED
      BY <3>1, <3>2, <3>3
  <2> QED
    BY <2>1 DEF Branch
<1>6. \A s \in Scope : Alike(taskFuncs'[s], design.funcs[s])
  BY NamesStep DEF LanguageInv
<1> QED
  BY <1>4, <1>5, <1>6, LanguageAfter

\* Entering a module keeps the invariant.
LEMMA LanguageModule ==
  ASSUME TypeInv, PathInv, KinInv, LanguageInv, EnterModule
  PROVE  LanguageInv'
<1>1. CanEnter("module") /\ Descend /\ design' = design
  BY DEF EnterModule
<1>2. bound' = BoundAfter(Rounds) /\ instStack' = Cloned
  BY EnterModuleIs
<1>3. Here \in Scope /\ design.kind[Here] # "class"
  <2>1. "module" # "class"
    OBVIOUS
  <2> QED
    BY <1>1, <2>1, CanEnterIs
<1> DEFINE m == ClonedFuncMap(Here, Len(taskFuncs[Here]))
<1>4. m \in Tables /\ Knows(m, Here) /\ instStack' = Push(m)
  BY <1>1, <1>2, <1>3, ClonedIs, TablesKnow DEF Cloned, LanguageInv
<1>5. ASSUME NEW c \in design.calls, bound'[c] # None
      PROVE  ByLanguage(bound'[c], c)
  <2>1. PICK n \in Nat : DOMAIN Rounds \in SUBSET (1 .. n)
    <3>1. Members \in Seq(Scope) /\ DOMAIN Rounds \in SUBSET (1 .. Len(Members))
      BY <1>1, RoundsAre
    <3>2. Len(Members) \in Nat
      BY <3>1
    <3> QED
      BY <3>1, <3>2
  <2>2. \A i \in DOMAIN Rounds : IsLanguageRound(Rounds[i])
    <3>1. DOMAIN Rounds = Classes
      BY <1>1, RoundsAre
    <3> QED
      BY <1>1, <3>1, ModuleLanguageRounds
  <2>3. BoundAfter(Rounds)[c] # None
    BY <1>2, <1>5
  <2>4. ByLanguage(BoundAfter(Rounds)[c], c)
    BY <2>1, <2>2, <2>3, RoundsBindByLanguage
  <2> QED
    BY <1>2, <2>4
<1>6. [Next]_vars
  BY DEF Next
<1> HIDE DEF m
<1> QED
  BY <1>1, <1>4, <1>5, <1>6, LanguageEnter

\* So does entering any other scope.
LEMMA LanguageEnterOther ==
  ASSUME TypeInv, PathInv, LanguageInv,
         EnterUndefinedModule \/ EnterInterface \/ EnterClass \/ EnterPackage
  PROVE  LanguageInv'
<1>1. \A c \in design.calls : bound[c] # None => ByLanguage(bound[c], c)
  BY DEF LanguageInv
<1>2. [Next]_vars
  BY DEF Next
<1>3. NamesInv
  BY DEF LanguageInv
<1>4. CASE EnterUndefinedModule \/ EnterInterface
  <2>1. PICK kind \in {"module", "interface"} : CanEnter(kind) /\ Descend /\ design' = design
    BY <1>4 DEF EnterUndefinedModule, EnterInterface
  <2>2. Here \in Scope /\ design.kind[Here] # "class"
    <3>1. "module" # "class" /\ "interface" # "class"
      OBVIOUS
    <3> QED
      BY <2>1, <3>1, CanEnterIs
  <2>3. taskFuncs[Here] \in Seq(Func)
    BY <2>2 DEF TypeInv
  <2>4. instStack' = Push(FuncMap(taskFuncs[Here])) /\ bound' = bound
    BY <1>4 DEF EnterUndefinedModule, EnterInterface
  <2>5. FuncMap(taskFuncs[Here]) \in Tables /\ Knows(FuncMap(taskFuncs[Here]), Here)
    BY <1>3, <2>2, <2>3, FuncMapIsTable, TablesKnow
  <2> QED
    BY <1>1, <1>2, <2>1, <2>4, <2>5, LanguageEnter
<1>5. CASE EnterClass
  <2>1. CanEnter("class") /\ Descend /\ design' = design
    BY <1>5 DEF EnterClass
  <2>2. Here \in Scope
    BY <2>1, CanEnterIs
  <2>3. instStack' = Push(ClassFuncMap(Here)) /\ bound' = bound
    BY <1>5 DEF EnterClass
  <2>4. ClassFuncMap(Here) \in Tables /\ Knows(ClassFuncMap(Here), Here)
    BY <1>3, <2>2, ClassFuncMapIs, TablesKnow
  <2> QED
    BY <1>1, <1>2, <2>1, <2>3, <2>4, LanguageEnter
<1>6. CASE EnterPackage
  <2>1. CanEnter("package") /\ Descend /\ design' = design
    BY <1>6 DEF EnterPackage
  <2>2. instStack' = Push(NoFuncs) /\ bound' = bound
    BY <1>6 DEF EnterPackage
  <2>3. DOMAIN NoFuncs = {} /\ NoFuncs \in Tables
    <3>1. NoFuncs \in [{} -> Func] /\ {} \in SUBSET Name
      BY DEF NoFuncs
    <3> QED
      BY <3>1 DEF Tables, NoFuncs
  <2>4. design.kind[Here] = "package"
    BY <2>1, CanEnterIs
  <2>5. Knows(NoFuncs, Here)
    BY <2>3, <2>4 DEF Knows
  <2> QED
    BY <1>1, <1>2, <2>1, <2>2, <2>3, <2>5, LanguageEnter
<1> QED
  BY <1>4, <1>5, <1>6

\* So does leaving any scope.
LEMMA LanguageLeaveAny ==
  ASSUME TypeInv, PathInv, KinInv, LanguageInv, LeaveInstance \/ LeavePackage
  PROVE  LanguageInv'
<1>1. ASSUME NEW stack, NEW schedule, IsLanguageRound(Round(stack, schedule)),
             bound' = BoundAfter(<<Round(stack, schedule)>>),
             NEW c \in design.calls, bound'[c] # None
      PROVE  ByLanguage(bound'[c], c)
  <2> DEFINE rounds == <<Round(stack, schedule)>>
  <2>1. 1 \in Nat /\ DOMAIN rounds \in SUBSET (1 .. 1)
    BY OneRound
  <2>2. \A i \in DOMAIN rounds : IsLanguageRound(rounds[i])
    <3>1. \A i \in DOMAIN rounds : rounds[i] = Round(stack, schedule)
      OBVIOUS
    <3> QED
      BY <1>1, <3>1
  <2>3. BoundAfter(rounds)[c] # None
    BY <1>1
  <2> HIDE DEF rounds
  <2>4. ByLanguage(BoundAfter(rounds)[c], c)
    BY <2>1, <2>2, <2>3, RoundsBindByLanguage
  <2> QED
    BY <1>1, <2>4 DEF rounds
<1>2. [Next]_vars
  BY DEF Next
<1>3. CASE LeaveInstance
  <2>1. /\ CanLeave({"module", "interface", "class"}) /\ Ascend /\ Pop /\ design' = design
        /\ bound' = BoundAfter(<<Round(instStack, scheduled)>>)
    BY <1>3 DEF LeaveInstance
  <2>2. IsLanguageRound(Round(instStack, scheduled))
    BY StackIsLanguageRound
  <2>3. \A c \in design.calls : bound'[c] # None => ByLanguage(bound'[c], c)
    BY <1>1, <2>1, <2>2
  <2> QED
    BY <1>2, <2>1, <2>3, LanguageLeave
<1>4. CASE LeavePackage
  <2>1. CanLeave({"package"}) /\ Ascend /\ Pop /\ design' = design
    BY <1>4 DEF LeavePackage
  <2>2. walk # <<>> /\ design.kind[Last(walk)] = "package"
    BY <2>1 DEF CanLeave
  <2>3. IsLanguageRound(Round(AllKnown, PackageSchedule))
    BY <2>2, PackageLanguageRound
  <2>4. bound' = BoundAfter(<<Round(AllKnown, PackageSchedule)>>)
    BY <1>4, LeavePackageIs
  <2>5. \A c \in design.calls : bound'[c] # None => ByLanguage(bound'[c], c)
    BY <1>1, <2>3, <2>4
  <2> QED
    BY <1>2, <2>1, <2>5, LanguageLeave
<1> QED
  BY <1>3, <1>4

\* The invariant of the language holds at the start.
LEMMA LanguageInit == Init => LanguageInv
<1> SUFFICES ASSUME Init PROVE LanguageInv
  OBVIOUS
<1>1. walk = <<>> /\ bound = [c \in design.calls |-> None]
  BY DEF Init
<1>2. ASSUME NEW s \in Scope PROVE Alike(taskFuncs[s], design.funcs[s])
  <2>1. taskFuncs[s] = [i \in DOMAIN design.funcs[s] |->
             [scope |-> s, name |-> design.funcs[s][i].name,
              kind |-> design.funcs[s][i].kind, generation |-> 0]]
    BY DEF Init
  <2>2. /\ DOMAIN taskFuncs[s] = DOMAIN design.funcs[s]
        /\ \A i \in DOMAIN design.funcs[s] :
             /\ taskFuncs[s][i].name = design.funcs[s][i].name
             /\ taskFuncs[s][i].kind = design.funcs[s][i].kind
    BY <2>1
  <2> QED
    BY <2>2 DEF Alike
<1> QED
  BY <1>1, <1>2 DEF LanguageInv, Branch, KnowsOwn, NamesInv

\* It holds after every step.
LEMMA LanguageStep ==
  ASSUME TypeInv, PathInv, KinInv, LanguageInv, [Next]_vars
  PROVE  LanguageInv'
<1>1. CASE UNCHANGED vars \/ EndList
  <2>1. /\ design' = design /\ walk' = walk /\ taskFuncs' = taskFuncs
        /\ instStack' = instStack /\ bound' = bound
    BY <1>1 DEF vars, EndList
  <2>2. Branch(walk') /\ KnowsOwn(instStack', walk')
    BY <2>1 DEF LanguageInv
  <2>3. \A s \in Scope : Alike(taskFuncs'[s], design.funcs[s])
    BY <2>1 DEF LanguageInv, NamesInv
  <2>4. \A c \in design.calls : bound'[c] # None => ByLanguage(bound'[c], c)
    BY <2>1 DEF LanguageInv
  <2> QED
    BY <2>1, <2>2, <2>3, <2>4, LanguageAfter
<1>2. CASE Next
  BY <1>1, <1>2, LanguageModule, LanguageEnterOther, LanguageLeaveAny DEF Next
<1> QED
  BY <1>1, <1>2

\* Whatever the design: a call that nothing confuses is bound, if it is bound, to
\* a function of the scope its name means by the rules of the language.
THEOREM CallsBindByLanguage == Spec => []BindsByTheLanguage
<1>1. LanguageInv => BindsByTheLanguage
  BY DEF LanguageInv, ByLanguage, BindsByTheLanguage
<1>2. Init => TypeInv /\ PathInv /\ KinInv /\ LanguageInv
  BY TypeInit, PathInit, KinInit, LanguageInit
<1>3. TypeInv /\ PathInv /\ KinInv /\ LanguageInv /\ [Next]_vars
        => (TypeInv /\ PathInv /\ KinInv /\ LanguageInv)'
  BY TypeStep, PathStep, KinStep, LanguageStep
<1> QED
  BY <1>1, <1>2, <1>3, PTL DEF Spec

-----------------------------------------------------------------------------
(***************************************************************************)
(* No call is forgotten.                                                   *)
(***************************************************************************)
\* What a call that is to be bound is scheduled as.
Due(c) == [call |-> c, kind |-> KindIn(design, Meaning(c), c.name)]

\* The scopes that are still to be entered from where the walk is.
Remaining(t) == {s \in Scope : \E i \in DOMAIN t : \E k \in DOMAIN t[i] : t[i][k] = s}

\* The calls of the scopes of E that are to be bound are scheduled or bound, and
\* where the walk goes from these scopes, and from the lists of the design, is in
\* E or remains.
IsCovered(E, v, t, b, sched) ==
  /\ v \subseteq E
  /\ \A c \in design.calls : IsToBind(c) /\ c.in \in E => b[c] # None \/ Due(c) \in sched
  /\ \A s \in E : \A i \in DOMAIN design.children[s] :
       design.children[s][i] \in E \cup Remaining(t)
  /\ \A l \in DOMAIN design.tops :
       design.tops[l] # None => design.tops[l] \in E \cup Remaining(t)

\* E is what the walk has entered, though it may have forgotten that.
DueInv == \E E \in SUBSET Scope : IsCovered(E, visited, todo, bound, scheduled)

\* The invariant after a step.
LEMMA DueAfter ==
  ASSUME design' = design, NEW E \in SUBSET Scope,
         IsCovered(E, visited', todo', bound', scheduled')
  PROVE  DueInv'
<1>1. \A c : Due(c)' = Due(c)
  <2>1. \A c : Due(c)' = [call |-> c, kind |-> KindIn(design', Meaning(c)', c.name)]
    BY DEF Due
  <2>2. \A c : Meaning(c)' = Meaning(c)
    BY SameLanguage
  <2> QED
    BY <2>1, <2>2 DEF Due
<1>2. \A c : IsToBind(c)' <=> IsToBind(c)
  BY SameLanguage
<1>3. IsCovered(E, visited, todo, bound, scheduled)'
  <2>1. /\ visited' \subseteq E
        /\ \A c \in design.calls :
             IsToBind(c) /\ c.in \in E => bound'[c] # None \/ Due(c) \in scheduled'
        /\ \A s \in E : \A i \in DOMAIN design.children[s] :
             design.children[s][i] \in E \cup Remaining(todo')
        /\ \A l \in DOMAIN design.tops :
             design.tops[l] # None => design.tops[l] \in E \cup Remaining(todo')
    BY DEF IsCovered
  <2>2. \A c \in design'.calls :
          IsToBind(c)' /\ c.in \in E => bound'[c] # None \/ Due(c)' \in scheduled'
    BY <1>1, <1>2, <2>1
  <2>3. Remaining(todo)' = Remaining(todo')
    BY DEF Remaining
  <2> QED
    BY <2>1, <2>2, <2>3 DEF IsCovered
<1> QED
  BY <1>3 DEF DueInv

\* Entering a scope leaves everything that remained, but this scope, and adds what
\* it leads to if it has not been visited.
LEMMA OnlyEntered ==
  ASSUME TypeInv, NEW kind, CanEnter(kind), Descend
  PROVE  /\ Remaining(todo) \subseteq Remaining(todo') \cup {Here}
         /\ Here \notin visited => \A i \in DOMAIN design.children[Here] :
                                     design.children[Here][i] \in Remaining(todo')
<1>1. /\ Here \in Scope /\ Current \in Seq(Item) /\ Current # <<>> /\ Here = Current[1]
      /\ Current = todo[Len(walk) + 1] /\ Len(walk) \in Nat /\ design \in Designs
  BY CanEnterIs DEF TypeInv, Here
<1>2. /\ todo' \in Seq(Seq(Item)) /\ Len(todo') = Len(walk) + 2
      /\ \A i \in 1 .. Len(walk) : todo'[i] = todo[i]
      /\ todo'[Len(walk) + 1] = Tail(Current)
      /\ todo'[Len(walk) + 2] = Beyond
  BY DescendIs
<1>3. DOMAIN todo = 1 .. Len(walk) + 1 /\ DOMAIN todo' = 1 .. Len(walk) + 2
  <2>1. todo \in Seq(Seq(Item)) /\ Len(todo) = Len(walk) + 1
    BY DEF TypeInv
  <2> QED
    BY <1>1, <1>2, <2>1
<1>4. ASSUME NEW i \in DOMAIN todo, NEW k \in DOMAIN todo[i], todo[i][k] \in Scope
      PROVE  todo[i][k] \in Remaining(todo') \cup {Here}
  <2>1. CASE i \in 1 .. Len(walk)
    <3>1. i \in DOMAIN todo' /\ todo'[i] = todo[i]
      BY <1>1, <1>2, <1>3, <2>1
    <3> QED
      BY <1>4, <3>1 DEF Remaining
  <2>2. CASE i = Len(walk) + 1 /\ k = 1
    BY <1>1, <2>2
  <2>3. CASE i = Len(walk) + 1 /\ k # 1
    <3>1. k \in DOMAIN Current /\ todo[i][k] = Current[k]
      BY <1>1, <1>4, <2>3
    <3>2. k - 1 \in DOMAIN Tail(Current) /\ Tail(Current)[k - 1] = Current[k]
      <4>1. /\ Tail(Current) \in Seq(Item) /\ Len(Tail(Current)) = Len(Current) - 1
            /\ \A l \in 1 .. Len(Tail(Current)) : Tail(Current)[l] = Current[l + 1]
        BY <1>1, HeadTailProperties
      <4>2. k \in 2 .. Len(Current) /\ Len(Current) \in Nat
        BY <1>1, <2>3, <3>1
      <4>3. k - 1 \in 1 .. Len(Tail(Current)) /\ k = (k - 1) + 1
        BY <4>1, <4>2
      <4>4. Tail(Current)[k - 1] = Current[(k - 1) + 1]
        BY <4>1, <4>3
      <4> QED
        BY <4>1, <4>3, <4>4
    <3>3. Len(walk) + 1 \in DOMAIN todo'
      BY <1>1, <1>3
    <3> DEFINE l == k - 1
               n == Len(walk) + 1
    <3>4. n \in DOMAIN todo' /\ l \in DOMAIN todo'[n] /\ todo'[n][l] = todo[i][k]
      BY <1>2, <3>1, <3>2, <3>3
    <3> HIDE DEF l, n
    <3> QED
      BY <1>4, <3>4 DEF Remaining
  <2> QED
    BY <1>1, <1>3, <2>1, <2>2, <2>3
<1>5. ASSUME Here \notin visited, NEW i \in DOMAIN design.children[Here]
      PROVE  design.children[Here][i] \in Remaining(todo')
  <2>1. Len(walk) + 2 \in DOMAIN todo' /\ todo'[Len(walk) + 2] = design.children[Here]
    BY <1>1, <1>2, <1>3, <1>5 DEF Beyond
  <2>2. design.children[Here][i] \in Scope
    <3>1. design.children[Here] \in Seq(Scope)
      BY <1>1, DesignIs
    <3> QED
      BY <3>1
  <2> DEFINE n == Len(walk) + 2
  <2> HIDE DEF n
  <2>3. n \in DOMAIN todo' /\ todo'[n] = design.children[Here]
    BY <2>1 DEF n
  <2> QED
    BY <2>2, <2>3 DEF Remaining
<1> QED
  BY <1>4, <1>5 DEF Remaining

\* Leaving a scope leaves everything that remained.
LEMMA NoneEntered ==
  ASSUME TypeInv, NEW those, CanLeave(those), Ascend
  PROVE  Remaining(todo) \subseteq Remaining(todo')
<1>1. /\ Len(walk) \in Nat \ {0}
      /\ todo' \in Seq(Seq(Item)) /\ Len(todo') = Len(walk)
      /\ \A i \in 1 .. Len(walk) : todo'[i] = todo[i]
  BY AscendIs
<1>2. todo \in Seq(Seq(Item)) /\ Len(todo) = Len(walk) + 1
  BY DEF TypeInv
<1>3. DOMAIN todo' = 1 .. Len(walk) /\ DOMAIN todo = 1 .. Len(walk) + 1
  BY <1>1, <1>2
<1>4. todo[Len(walk) + 1] = <<>>
  BY <1>1, <1>2 DEF CanLeave, Current
<1>5. ASSUME NEW i \in DOMAIN todo, NEW k \in DOMAIN todo[i]
      PROVE  i \in DOMAIN todo' /\ todo'[i] = todo[i]
  <2>1. i # Len(walk) + 1
    BY <1>4, <1>5
  <2> QED
    BY <1>1, <1>3, <2>1
<1> QED
  BY <1>5 DEF Remaining

\* So does the end of a list.
LEMMA NoneEnded ==
  ASSUME TypeInv, EndList
  PROVE  Remaining(todo) \subseteq Remaining(todo')
<1>1. /\ DOMAIN todo' = DOMAIN todo /\ DOMAIN todo = 1 .. Len(walk) + 1 /\ Len(walk) \in Nat
      /\ \A i \in 1 .. Len(walk) : todo'[i] = todo[i]
      /\ todo'[Len(walk) + 1] = Tail(todo[Len(walk) + 1])
      /\ todo[Len(walk) + 1] \in Seq(Item) /\ todo[Len(walk) + 1] # <<>>
      /\ todo[Len(walk) + 1][1] = None
  <2>1. todo \in Seq(Seq(Item)) /\ Len(todo) = Len(walk) + 1 /\ Len(walk) \in Nat
    BY DEF TypeInv
  <2> QED
    BY <2>1, EndListIs, EndListKeeps
<1> DEFINE ended == todo[Len(walk) + 1]
<1>2. ASSUME NEW k \in DOMAIN ended, k # 1
      PROVE  k - 1 \in DOMAIN Tail(ended) /\ Tail(ended)[k - 1] = ended[k]
  <2>1. /\ Tail(ended) \in Seq(Item) /\ Len(Tail(ended)) = Len(ended) - 1
        /\ \A l \in 1 .. Len(Tail(ended)) : Tail(ended)[l] = ended[l + 1]
    BY <1>1, HeadTailProperties
  <2>2. ended \in Seq(Item)
    BY <1>1
  <2> HIDE DEF ended
  <2>3. k \in 2 .. Len(ended) /\ Len(ended) \in Nat
    BY <1>2, <2>2
  <2>4. k - 1 \in 1 .. Len(Tail(ended)) /\ k = (k - 1) + 1
    BY <2>1, <2>3
  <2>5. Tail(ended)[k - 1] = ended[(k - 1) + 1]
    BY <2>1, <2>4
  <2> QED
    BY <2>1, <2>4, <2>5
<1>3. ASSUME NEW i \in DOMAIN todo, NEW k \in DOMAIN todo[i], todo[i][k] \in Scope
      PROVE  todo[i][k] \in Remaining(todo')
  <2>1. CASE i \in 1 .. Len(walk)
    <3>1. i \in DOMAIN todo' /\ todo'[i] = todo[i]
      BY <1>1, <2>1
    <3> QED
      BY <1>3, <3>1 DEF Remaining
  <2>2. CASE i = Len(walk) + 1
    <3>1. k \in DOMAIN ended /\ k # 1 /\ todo[i][k] = ended[k]
      BY <1>1, <1>3, <2>2, NoneAssumption
    <3> DEFINE l == k - 1
    <3>2. l \in DOMAIN todo'[i] /\ todo'[i][l] = todo[i][k]
      BY <1>1, <1>2, <2>2, <3>1
    <3>3. i \in DOMAIN todo'
      BY <1>1
    <3> HIDE DEF l
    <3> QED
      BY <1>3, <3>2, <3>3 DEF Remaining
  <2> QED
    BY <1>1, <2>1, <2>2
<1> QED
  BY <1>3 DEF Remaining

\* A call that is bound stays bound to something.
LEMMA StaysBound ==
  ASSUME NEW rounds, NEW n \in Nat, DOMAIN rounds \in SUBSET (1 .. n),
         NEW c \in design.calls, bound[c] # None
  PROVE  BoundAfter(rounds)[c] # None
BY BoundAfterIs DEF BindsIn

\* A call that is due in one of the rounds is bound after them.
LEMMA DueIsBound ==
  ASSUME TypeInv, LanguageInv,
         NEW rounds, NEW n \in Nat, DOMAIN rounds \in SUBSET (1 .. n),
         NEW i \in DOMAIN rounds, IsLanguageRound(rounds[i]),
         NEW c \in design.calls, IsToBind(c), Due(c) \in rounds[i].schedule
  PROVE  BoundAfter(rounds)[c] # None
<1> DEFINE round == rounds[i]
           f == Lookup(round.stack, c.name, c.prefix)
<1>1. PICK p : IsRoundOn(round, p) /\ Branch(p) /\ KnowsOwn(round.stack, p)
  BY DEF IsLanguageRound
<1>2. /\ round.stack \in Seq(Entry) /\ p \in Seq(Scope)
      /\ Len(round.stack) = Len(p) /\ IsPath(p)
      /\ \A sc \in round.schedule : \E j \in DOMAIN p : p[j] = sc.call.in
  BY <1>1 DEF IsRoundOn
<1>3. PICK j \in DOMAIN p : p[j] = c.in
  <2>1. Due(c).call = c
    BY DEF Due
  <2> QED
    BY <1>2, <2>1
<1>4. f # None /\ f.kind = KindIn(design, Meaning(c), c.name)
  <2> HIDE DEF round
  <2> QED
    BY <1>1, <1>2, <1>3, FindsItsKind DEF LanguageInv
<1>5. BindsIn(rounds[i], c)
  BY <1>4 DEF BindsIn, Due
<1> QED
  BY <1>5, BoundAfterIs DEF BindsIn

\* A call that is scheduled when its scope has been pushed is scheduled as what it
\* will be bound to.
LEMMA ScheduledDue ==
  ASSUME TypeInv, PathInv, LanguageInv, NEW kind, CanEnter(kind),
         NEW m \in Tables, Knows(m, Here),
         NEW c \in CallsOf(Here), IsToBind(c)
  PROVE  CloneOf(c, Push(m)) = Due(c)
<1>1. Here \in Scope /\ c \in design.calls /\ c.in = Here
  BY CanEnterIs DEF CallsOf
<1>2. /\ instStack \in Seq(Entry) /\ walk \in Seq(Scope) /\ Len(instStack) = Len(walk)
      /\ Len(walk) \in Nat
  BY DEF TypeInv
<1> DEFINE e == [object |-> Here, funcMap |-> m]
           stack == Append(instStack, e)
           p == Append(walk, Here)
<1>3. e \in Entry /\ e.funcMap = m /\ Push(m) = stack
  BY <1>1 DEF Entry, Push
<1> HIDE DEF e
<1>4. /\ stack \in Seq(Entry) /\ p \in Seq(Scope)
      /\ Len(stack) = Len(walk) + 1 /\ Len(p) = Len(walk) + 1
      /\ p[Len(walk) + 1] = Here /\ Len(walk) + 1 \in DOMAIN p
  <2>1. /\ stack \in Seq(Entry) /\ p \in Seq(Scope)
        /\ Len(stack) = Len(walk) + 1 /\ Len(p) = Len(walk) + 1
        /\ p[Len(walk) + 1] = Here
    BY <1>1, <1>2, <1>3, AppendProperties
  <2>2. DOMAIN p = 1 .. Len(walk) + 1
    BY <1>2, <2>1
  <2> QED
    BY <1>2, <2>1, <2>2
<1>5. Branch(p)
  BY <1>1, <1>2, HereIsChild, BranchGrows DEF LanguageInv
<1>6. IsPath(p)
  BY <1>1, <1>2, HereIsChild, PathGrows DEF PathInv
<1>7. KnowsOwn(stack, p)
  BY <1>1, <1>2, <1>3, KnowsGrow DEF LanguageInv
<1> HIDE DEF stack, p
<1>8. /\ Lookup(stack, c.name, c.prefix) # None
      /\ Lookup(stack, c.name, c.prefix).kind = KindIn(design, Meaning(c), c.name)
  BY <1>1, <1>4, <1>5, <1>6, <1>7, FindsItsKind DEF LanguageInv
<1> QED
  BY <1>3, <1>8 DEF CloneOf, KindNow, Due

\* A scope is entered, and no call is lost.
LEMMA DueEnter ==
  ASSUME TypeInv, DueInv, NEW kind, CanEnter(kind), Descend, design' = design,
         \A c \in design.calls :
           IsToBind(c) /\ (bound[c] # None \/ Due(c) \in scheduled \/ c.in = Here) =>
             bound'[c] # None \/ Due(c) \in scheduled'
  PROVE  DueInv'
<1>1. PICK E \in SUBSET Scope : IsCovered(E, visited, todo, bound, scheduled)
  BY DEF DueInv
<1> DEFINE F == E \cup {Here}
<1>2. Here \in Scope /\ F \in SUBSET Scope
  BY CanEnterIs
<1>3. visited' \subseteq F
  BY <1>1, DescendIs DEF IsCovered
<1>4. E \cup Remaining(todo) \subseteq F \cup Remaining(todo')
  BY OnlyEntered
<1>5. ASSUME NEW s \in F, NEW i \in DOMAIN design.children[s]
      PROVE  design.children[s][i] \in F \cup Remaining(todo')
  <2>1. CASE s \in E
    <3>1. design.children[s][i] \in E \cup Remaining(todo)
      BY <1>1, <1>5, <2>1 DEF IsCovered
    <3> QED
      BY <1>4, <3>1
  <2>2. CASE s \notin E
    <3>1. s = Here /\ Here \notin visited
      BY <1>1, <2>2 DEF IsCovered
    <3> QED
      BY <1>5, <3>1, OnlyEntered
  <2> QED
    BY <2>1, <2>2
<1>6. \A l \in DOMAIN design.tops :
        design.tops[l] # None => design.tops[l] \in F \cup Remaining(todo')
  BY <1>1, <1>4 DEF IsCovered
<1>7. ASSUME NEW c \in design.calls, IsToBind(c), c.in \in F
      PROVE  bound'[c] # None \/ Due(c) \in scheduled'
  <2>1. c.in \in E => bound[c] # None \/ Due(c) \in scheduled
    BY <1>1, <1>7 DEF IsCovered
  <2> QED
    BY <1>7, <2>1
<1> HIDE DEF F
<1>8. IsCovered(F, visited', todo', bound', scheduled')
  BY <1>3, <1>5, <1>6, <1>7 DEF IsCovered
<1> QED
  BY <1>2, <1>8, DueAfter

\* A scope is left, or a list ends, and no call is lost.
LEMMA DueKeep ==
  ASSUME DueInv, design' = design, visited' \subseteq visited,
         Remaining(todo) \subseteq Remaining(todo'),
         \A c \in design.calls :
           IsToBind(c) /\ (bound[c] # None \/ Due(c) \in scheduled) =>
             bound'[c] # None \/ Due(c) \in scheduled'
  PROVE  DueInv'
<1>1. PICK E \in SUBSET Scope : IsCovered(E, visited, todo, bound, scheduled)
  BY DEF DueInv
<1>2. E \cup Remaining(todo) \subseteq E \cup Remaining(todo')
  OBVIOUS
<1>3. IsCovered(E, visited', todo', bound', scheduled')
  <2>1. \A s \in E : \A i \in DOMAIN design.children[s] :
          design.children[s][i] \in E \cup Remaining(todo')
    BY <1>1, <1>2 DEF IsCovered
  <2>2. \A l \in DOMAIN design.tops :
          design.tops[l] # None => design.tops[l] \in E \cup Remaining(todo')
    BY <1>1, <1>2 DEF IsCovered
  <2>3. \A c \in design.calls :
          IsToBind(c) /\ c.in \in E => bound'[c] # None \/ Due(c) \in scheduled'
    BY <1>1 DEF IsCovered
  <2>4. visited' \subseteq E
    BY <1>1 DEF IsCovered
  <2> QED
    BY <2>1, <2>2, <2>3, <2>4 DEF IsCovered
<1> QED
  BY <1>3, DueAfter

\* Entering a module loses no call: a first class binds what was scheduled.
LEMMA DueModule ==
  ASSUME TypeInv, PathInv, KinInv, LanguageInv, DueInv, EnterModule
  PROVE  DueInv'
<1>1. CanEnter("module") /\ Descend /\ design' = design
  BY DEF EnterModule
<1>2. /\ bound' = BoundAfter(Rounds) /\ instStack' = Cloned
      /\ scheduled' = (IF Classes = {} THEN Early ELSE {}) \cup Late
      /\ kinds' = KindsAfter(Own \cup Late \cup UNION {InClass(i) : i \in Classes})
  BY EnterModuleIs
<1>3. Here \in Scope /\ design.kind[Here] # "class"
  <2>1. "module" # "class"
    OBVIOUS
  <2> QED
    BY <1>1, <2>1, CanEnterIs
<1>4. PICK n \in Nat : DOMAIN Rounds \in SUBSET (1 .. n)
  <2>1. Members \in Seq(Scope) /\ DOMAIN Rounds \in SUBSET (1 .. Len(Members))
    BY <1>1, RoundsAre
  <2>2. Len(Members) \in Nat
    BY <2>1
  <2> QED
    BY <2>1, <2>2
<1>5. ASSUME NEW c \in design.calls, IsToBind(c), Due(c) \in Early
      PROVE  bound'[c] # None \/ Due(c) \in scheduled'
  <2>1. CASE Classes = {}
    BY <1>2, <1>5, <2>1
  <2>2. CASE Classes # {}
    <3>1. DOMAIN Rounds = Classes /\ Classes \in SUBSET Nat
      BY <1>1, <1>4, RoundsAre
    <3>2. PICK i \in Classes : \A j \in Classes : i <= j
      BY <2>2, <3>1, MinOf
    <3>3. Due(c) \in Rounds[i].schedule
      <4>1. Rounds[i].schedule = Pending(i)
        BY <1>1, RoundsAre
      <4> QED
        BY <1>5, <3>2, <4>1 DEF Pending
    <3>4. IsLanguageRound(Rounds[i])
      BY <1>1, ModuleLanguageRounds
    <3>5. BoundAfter(Rounds)[c] # None
      BY <1>4, <1>5, <3>1, <3>3, <3>4, DueIsBound
    <3> QED
      BY <1>2, <3>5
  <2> QED
    BY <2>1, <2>2
<1>6. ASSUME NEW c \in design.calls, IsToBind(c),
             bound[c] # None \/ Due(c) \in scheduled \/ c.in = Here
      PROVE  bound'[c] # None \/ Due(c) \in scheduled'
  <2>1. CASE bound[c] # None
    BY <1>2, <1>4, <2>1, StaysBound
  <2>2. CASE Due(c) \in scheduled
    BY <1>5, <1>6, <2>2 DEF Early
  <2>3. CASE c.in = Here /\ c.by = 0
    <3>1. CloneOf(c, Original) = Due(c)
      <4>1. FuncMap(taskFuncs[Here]) \in Tables
        <5>1. taskFuncs[Here] \in Seq(Func)
          BY <1>3 DEF TypeInv
        <5> QED
          BY <5>1, FuncMapIsTable
      <4>2. Knows(FuncMap(taskFuncs[Here]), Here)
        BY <1>3, TablesKnow DEF LanguageInv
      <4>3. c \in CallsOf(Here)
        BY <2>3 DEF CallsOf
      <4> QED
        BY <1>1, <1>6, <4>1, <4>2, <4>3, ScheduledDue DEF Original
    <3>2. CloneOf(c, Original) \in Early
      BY <2>3 DEF Early, Own, CallsOf
    <3> QED
      BY <1>5, <1>6, <3>1, <3>2
  <2>4. CASE c.in = Here /\ c.by > 0
    <3>1. c \in CallsOf(Here)
      BY <2>4 DEF CallsOf
    <3>2. ClonedFuncMap(Here, Len(taskFuncs[Here])) \in Tables
      BY <1>1, ClonedIs
    <3>3. Knows(ClonedFuncMap(Here, Len(taskFuncs[Here])), Here)
      BY <1>3, TablesKnow DEF LanguageInv
    <3>4. CloneOf(c, Cloned) = Due(c)
      BY <1>1, <1>6, <3>1, <3>2, <3>3, ScheduledDue DEF Cloned
    <3>5. CloneOf(c, Cloned) \in Late
      BY <2>4, <3>1 DEF Late
    <3> QED
      BY <1>2, <3>4, <3>5
  <2>5. c.by \in Nat
    <3>1. c \in Call
      BY DesignIs DEF TypeInv
    <3> QED
      BY <3>1 DEF Call
  <2>6. c.by = 0 \/ c.by > 0
    BY <2>5
  <2> QED
    BY <1>6, <2>1, <2>2, <2>3, <2>4, <2>6
<1> QED
  BY <1>1, <1>6, DueEnter

\* So does entering any other scope: only classes have calls to be bound.
LEMMA DueEnterOther ==
  ASSUME TypeInv, PathInv, LanguageInv, DueInv,
         EnterUndefinedModule \/ EnterInterface \/ EnterClass \/ EnterPackage
  PROVE  DueInv'
<1>1. PICK kind : CanEnter(kind) /\ Descend /\ design' = design
  BY DEF EnterUndefinedModule, EnterInterface, EnterClass, EnterPackage
<1>2. bound' = bound /\ scheduled \subseteq scheduled'
  BY DEF EnterUndefinedModule, EnterInterface, EnterClass, EnterPackage
<1>3. ASSUME NEW c \in design.calls, IsToBind(c), c.in = Here
      PROVE  Due(c) \in scheduled'
  <2>1. IsElaborated(Here)
    BY <1>3 DEF IsToBind
  <2>2. CASE EnterClass
    <3>1. Here \in Scope /\ CanEnter("class")
      BY <2>2, CanEnterIs DEF EnterClass
    <3>2. ClassFuncMap(Here) \in Tables /\ Knows(ClassFuncMap(Here), Here)
      BY <3>1, ClassFuncMapIs, TablesKnow DEF LanguageInv
    <3>3. c \in CallsOf(Here)
      BY <1>3 DEF CallsOf
    <3>4. CloneOf(c, Push(ClassFuncMap(Here))) = Due(c)
      BY <1>3, <3>1, <3>2, <3>3, ScheduledDue
    <3>5. CloneOf(c, Push(ClassFuncMap(Here))) \in scheduled'
      BY <2>2, <3>3 DEF EnterClass
    <3> QED
      BY <3>4, <3>5
  <2>3. CASE EnterUndefinedModule
    BY <2>1, <2>3 DEF EnterUndefinedModule, CanEnter, IsElaborated
  <2>4. CASE EnterInterface
    BY <2>1, <2>4 DEF EnterInterface, CanEnter, IsElaborated
  <2>5. CASE EnterPackage
    BY <2>1, <2>5 DEF EnterPackage, CanEnter, IsElaborated
  <2> QED
    BY <2>2, <2>3, <2>4, <2>5
<1>4. ASSUME NEW c \in design.calls, IsToBind(c),
             bound[c] # None \/ Due(c) \in scheduled \/ c.in = Here
      PROVE  bound'[c] # None \/ Due(c) \in scheduled'
  BY <1>2, <1>3, <1>4
<1> QED
  BY <1>1, <1>4, DueEnter

\* So does leaving any scope, which binds everything that is due.
LEMMA DueLeaveAny ==
  ASSUME TypeInv, PathInv, KinInv, LanguageInv, DueInv, LeaveInstance \/ LeavePackage
  PROVE  DueInv'
<1>1. ASSUME NEW stack, NEW schedule, IsLanguageRound(Round(stack, schedule)),
             scheduled \subseteq schedule,
             bound' = BoundAfter(<<Round(stack, schedule)>>),
             NEW those, CanLeave(those), Ascend, design' = design
      PROVE  DueInv'
  <2> DEFINE rounds == <<Round(stack, schedule)>>
  <2>1. 1 \in Nat /\ DOMAIN rounds \in SUBSET (1 .. 1)
    BY OneRound
  <2>2. 1 \in DOMAIN rounds /\ rounds[1] = Round(stack, schedule)
    OBVIOUS
  <2>3. ASSUME NEW c \in design.calls, IsToBind(c), bound[c] # None \/ Due(c) \in scheduled
        PROVE  bound'[c] # None
    <3>1. CASE bound[c] # None
      <4> HIDE DEF rounds
      <4>1. BoundAfter(rounds)[c] # None
        BY <2>1, <3>1, StaysBound
      <4> QED
        BY <1>1, <4>1 DEF rounds
    <3>2. CASE Due(c) \in scheduled
      <4>1. Due(c) \in rounds[1].schedule
        BY <1>1, <2>2, <3>2 DEF Round
      <4>2. IsLanguageRound(rounds[1])
        BY <1>1, <2>2
      <4> HIDE DEF rounds
      <4>3. BoundAfter(rounds)[c] # None
        BY <2>1, <2>2, <2>3, <4>1, <4>2, DueIsBound
      <4> QED
        BY <1>1, <4>3 DEF rounds
    <3> QED
      BY <2>3, <3>1, <3>2
  <2>4. visited' = visited
    BY <1>1 DEF Ascend
  <2>5. Remaining(todo) \subseteq Remaining(todo')
    BY <1>1, NoneEntered
  <2> HIDE DEF rounds
  <2> QED
    BY <1>1, <2>3, <2>4, <2>5, DueKeep
<1>2. CASE LeaveInstance
  <2>1. /\ CanLeave({"module", "interface", "class"}) /\ Ascend /\ design' = design
        /\ bound' = BoundAfter(<<Round(instStack, scheduled)>>)
    BY <1>2 DEF LeaveInstance
  <2>2. IsLanguageRound(Round(instStack, scheduled))
    BY StackIsLanguageRound
  <2> QED
    BY <1>1, <2>1, <2>2
<1>3. CASE LeavePackage
  <2>1. CanLeave({"package"}) /\ Ascend /\ design' = design
    BY <1>3 DEF LeavePackage
  <2>2. walk # <<>> /\ design.kind[Last(walk)] = "package"
    BY <2>1 DEF CanLeave
  <2>3. IsLanguageRound(Round(AllKnown, PackageSchedule))
    BY <2>2, PackageLanguageRound
  <2>4. bound' = BoundAfter(<<Round(AllKnown, PackageSchedule)>>)
    BY <1>3, LeavePackageIs
  <2>5. scheduled \subseteq PackageSchedule
    BY DEF PackageSchedule
  <2> QED
    BY <1>1, <2>1, <2>3, <2>4, <2>5
<1> QED
  BY <1>2, <1>3

\* At the start nothing has been entered, and the lists of the design remain.
LEMMA DueInit == Init => DueInv
<1> SUFFICES ASSUME Init PROVE DueInv
  OBVIOUS
<1>1. todo = <<design.tops>> /\ visited = {} /\ design.tops \in Seq(Item)
  BY DesignIs DEF Init
<1>2. ASSUME NEW l \in DOMAIN design.tops, design.tops[l] # None
      PROVE  design.tops[l] \in Remaining(todo)
  <2>1. design.tops[l] \in Scope
    BY <1>1, <1>2 DEF Item
  <2>2. 1 \in DOMAIN todo /\ todo[1] = design.tops
    BY <1>1
  <2> QED
    BY <2>1, <2>2 DEF Remaining
<1>3. IsCovered({}, visited, todo, bound, scheduled)
  BY <1>1, <1>2 DEF IsCovered
<1> QED
  BY <1>3 DEF DueInv

\* No step loses a call.
LEMMA DueStep ==
  ASSUME TypeInv, PathInv, KinInv, LanguageInv, DueInv, [Next]_vars
  PROVE  DueInv'
<1>1. CASE UNCHANGED vars
  <2>1. /\ design' = design /\ todo' = todo /\ scheduled' = scheduled /\ bound' = bound
        /\ visited' = visited
    BY <1>1 DEF vars
  <2> QED
    BY <2>1, DueKeep
<1>2. CASE EndList
  <2>1. /\ design' = design /\ scheduled' = scheduled /\ bound' = bound /\ visited' = {}
    BY <1>2 DEF EndList
  <2>2. Remaining(todo) \subseteq Remaining(todo')
    BY <1>2, NoneEnded
  <2> QED
    BY <2>1, <2>2, DueKeep
<1>3. CASE Next /\ ~ EndList
  BY <1>3, DueModule, DueEnterOther, DueLeaveAny DEF Next
<1> QED
  BY <1>1, <1>2, <1>3

\* The walk has been in every scope it comes to from the lists of the design, if
\* nothing remains.
LEMMA ElaboratedAreCovered ==
  ASSUME NEW E \in SUBSET Scope, NEW s \in Scope, IsElaborated(s),
         \A t \in E : \A i \in DOMAIN design.children[t] : design.children[t][i] \in E,
         \A l \in DOMAIN design.tops : design.tops[l] # None => design.tops[l] \in E
  PROVE  s \in E
<1> DEFINE Up == [t \in Scope |-> Comes(t)]
           U == {u \in Scope : u \in E => s \in E}
<1>1. DOMAIN Up = Scope /\ Above(s) = Reached(Up, {s})
  BY DEF Above
<1>2. U \in SUBSET Scope /\ {s} \subseteq U
  OBVIOUS
<1>3. ASSUME NEW u \in U, NEW q \in Comes(u)
      PROVE  q \in U
  <2>1. q \in Scope /\ \E i \in DOMAIN design.children[q] : design.children[q][i] = u
    BY DEF Comes
  <2>2. q \in E => u \in E
    BY <2>1
  <2> QED
    BY <2>1, <2>2
<1>4. IsClosed(Up, U)
  <2>1. \A u \in U : Up[u] = Comes(u)
    BY <1>2
  <2> HIDE DEF Up, U
  <2> QED
    BY <1>3, <2>1 DEF IsClosed
<1>5. Above(s) \subseteq U
  <2> HIDE DEF Up, U
  <2> QED
    BY <1>1, <1>2, <1>4, ReachedIsLeast
<1>6. PICK l \in DOMAIN design.tops : design.tops[l] \in Above(s)
  BY DEF IsElaborated
<1>7. design.tops[l] \in U /\ design.tops[l] # None
  BY <1>5, <1>6, NoneAssumption
<1> QED
  BY <1>7

\* Whatever the design: at the end of elaboration nothing is left scheduled, and
\* every call that is to be bound is.
THEOREM CallsSettle == Spec => []Settles
<1>1. TypeInv /\ KinInv /\ DueInv => Settles
  <2> SUFFICES ASSUME TypeInv, KinInv, DueInv, Over PROVE
        scheduled = {} /\ \A c \in design.calls : IsToBind(c) => bound[c] # None
    BY DEF Settles
  <2>1. walk = <<>> /\ Current = <<>>
    BY DEF Over
  <2>2. scheduled = {}
    BY <2>1 DEF KinInv
  <2>3. /\ todo \in Seq(Seq(Item)) /\ Len(todo) = 1 /\ todo[1] = <<>> /\ design \in Designs
    BY <2>1 DEF TypeInv, Current
  <2>4. Remaining(todo) = {}
    <3>1. \A i \in DOMAIN todo : todo[i] = <<>>
      BY <2>3
    <3> QED
      BY <3>1 DEF Remaining
  <2>5. PICK E \in SUBSET Scope : IsCovered(E, visited, todo, bound, scheduled)
    BY DEF DueInv
  <2>6. /\ \A t \in E : \A i \in DOMAIN design.children[t] : design.children[t][i] \in E
        /\ \A l \in DOMAIN design.tops : design.tops[l] # None => design.tops[l] \in E
    BY <2>4, <2>5 DEF IsCovered
  <2>7. ASSUME NEW c \in design.calls, IsToBind(c)
        PROVE  bound[c] # None
    <3>1. c.in \in Scope /\ IsElaborated(c.in)
      <4>1. c \in Call
        BY <2>3, DesignIs
      <4> QED
        BY <2>7, <4>1 DEF Call, IsToBind
    <3>2. c.in \in E
      BY <2>6, <3>1, ElaboratedAreCovered
    <3> QED
      BY <2>2, <2>5, <2>7, <3>2 DEF IsCovered
  <2> QED
    BY <2>2, <2>7
<1>2. Init => TypeInv /\ PathInv /\ KinInv /\ LanguageInv /\ DueInv
  BY TypeInit, PathInit, KinInit, LanguageInit, DueInit
<1>3. TypeInv /\ PathInv /\ KinInv /\ LanguageInv /\ DueInv /\ [Next]_vars
        => (TypeInv /\ PathInv /\ KinInv /\ LanguageInv /\ DueInv)'
  BY TypeStep, PathStep, KinStep, LanguageStep, DueStep
<1> QED
  BY <1>1, <1>2, <1>3, PTL DEF Spec
=============================================================================
