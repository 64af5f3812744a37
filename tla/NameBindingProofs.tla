-------------------------- MODULE NameBindingProofs --------------------------
(***************************************************************************)
(* Proofs about the walk of elaboration, for any design: whatever objects  *)
(* the walk comes to, as often as it does and on whichever way, the stack  *)
(* of scopes has exactly one entry for each scope it is in.                *)
(***************************************************************************)
EXTENDS NameBinding, CommonLemmas

\* What the walk keeps of an object it is in, and what the stack does of a scope.
IsFrame(f) == f = [object |-> f.object, highConn |-> f.highConn, todo |-> f.todo]
IsEntry(e) ==
  e = [object |-> e.object, netMap |-> e.netMap, paramMap |-> e.paramMap, modMap |-> e.modMap]

WalkInv == \E S : walk \in Seq(S) /\ \A f \in S : IsFrame(f)
EntriesInv == \E S : instStack \in Seq(S) /\ \A e \in S : IsEntry(e) /\ IsScope(e.object)

\* The invariant.  Without EntriesInv the popping of an entry that is not the one
\* of its scope could not be excluded.
Inv == WalkInv /\ EntriesInv /\ StackFollowsWalk

-----------------------------------------------------------------------------
(***************************************************************************)
(* Counting scopes.                                                        *)
(***************************************************************************)
\* How many of the numbers up to k are in P.
Counted(P, k) == Cardinality({i \in 1 .. k : i \in P})

\* It is a number that grows by one at each of them.
LEMMA CountNext ==
  ASSUME NEW P, NEW n \in Nat
  PROVE  /\ Counted(P, n) \in Nat
         /\ Counted(P, n + 1) = IF n + 1 \in P THEN Counted(P, n) + 1 ELSE Counted(P, n)
<1> DEFINE S == {i \in 1 .. n : i \in P}
           T == {i \in 1 .. n + 1 : i \in P}
<1>1. IsFiniteSet(S)
  <2>1. IsFiniteSet(1 .. n)
    BY FS_Interval
  <2> QED
    BY <2>1, FS_Subset
<1>2. T = IF n + 1 \in P THEN S \cup {n + 1} ELSE S
  OBVIOUS
<1>3. n + 1 \notin S
  OBVIOUS
<1>4. Counted(P, n) = Cardinality(S) /\ Counted(P, n + 1) = Cardinality(T)
  BY DEF Counted
<1> HIDE DEF S, T
<1>5. Cardinality(S) \in Nat /\ Cardinality(S \cup {n + 1}) = Cardinality(S) + 1
  BY <1>1, <1>3, FS_AddElement, FS_CardinalityType
<1> QED
  BY <1>2, <1>4, <1>5

\* It never shrinks, and is not 0 at one of them.
LEMMA CountGrows ==
  ASSUME NEW P, NEW m \in Nat, NEW k \in 0 .. m
  PROVE  /\ Counted(P, k) <= Counted(P, m)
         /\ k \in P /\ k > 0 => Counted(P, k) > 0
<1> DEFINE S == {i \in 1 .. k : i \in P}
           T == {i \in 1 .. m : i \in P}
<1>1. IsFiniteSet(1 .. m) /\ IsFiniteSet(1 .. k)
  BY FS_Interval
<1>2. IsFiniteSet(T) /\ S \subseteq T
  <2>1. T \subseteq 1 .. m
    OBVIOUS
  <2>2. IsFiniteSet(T)
    BY <1>1, <2>1, FS_Subset
  <2> QED
    BY <2>2
<1>3. Counted(P, k) = Cardinality(S) /\ Counted(P, m) = Cardinality(T)
  BY DEF Counted
<1>4. k \in P /\ k > 0 => k \in S
  OBVIOUS
<1> HIDE DEF S, T
<1>5. /\ Cardinality(S) <= Cardinality(T) /\ IsFiniteSet(S)
  BY <1>2, FS_Subset
<1>6. S # {} => Cardinality(S) > 0
  BY <1>5, FS_EmptySet, FS_CardinalityType
<1> QED
  BY <1>3, <1>4, <1>5, <1>6

\* The places of the scopes in the walk.
Places == {i \in DOMAIN walk : IsScope(walk[i].object)}

\* The depth counts them, and is the height of the stack.
LEMMA DepthCounts ==
  ASSUME NEW S, walk \in Seq(S)
  PROVE  \A k \in 0 .. Len(walk) : Depth(k) = Counted(Places, k)
<1> TAKE k \in 0 .. Len(walk)
<1>1. {i \in 1 .. k : IsScope(walk[i].object)} = {i \in 1 .. k : i \in Places}
  BY DEF Places
<1> QED
  BY <1>1 DEF Depth, Counted

\* The places of the scopes after a step, which keeps the design.
LEMMA PlacesAfter ==
  ASSUME UNCHANGED design
  PROVE  Places' = {i \in DOMAIN walk' : IsScope(walk'[i].object)}
BY DEF Places, IsScope, Kind, IsDefinition, Name

-----------------------------------------------------------------------------
(***************************************************************************)
(* The walk goes on.                                                       *)
(***************************************************************************)
\* All but the last element of a sequence.
LEMMA FrontFacts ==
  ASSUME NEW S, NEW s \in Seq(S), s # <<>>
  PROVE  /\ Front(s) \in Seq(S) /\ Len(Front(s)) = Len(s) - 1 /\ Len(s) \in Nat \ {0}
         /\ \A i \in 1 .. Len(s) - 1 : Front(s)[i] = s[i]
         /\ Last(s) = s[Len(s)]
<1>1. Len(s) \in Nat \ {0}
  OBVIOUS
<1>2. Front(s) \in Seq(S)
  BY <1>1 DEF Front
<1>3. Len(Front(s)) = Len(s) - 1
  <2> DEFINE f == Front(s)
             m == Len(s) - 1
  <2>1. f = SubSeq(s, 1, m) /\ m \in Nat /\ m < Len(s)
    BY <1>1 DEF Front
  <2>2. f = [i \in 1 .. m |-> s[i]]
    BY <2>1
  <2> HIDE DEF f, m
  <2>3. DOMAIN f = 1 .. m
    BY <2>2
  <2>4. Len(f) = m
    BY <1>2, <2>1, <2>3 DEF f
  <2> QED
    BY <2>4 DEF f, m
<1>4. \A i \in 1 .. Len(s) - 1 : Front(s)[i] = s[i]
  BY <1>1 DEF Front
<1> QED
  BY <1>1, <1>2, <1>3, <1>4 DEF Last

\* A step done with, or an object left: the others are where they were.
LEMMA AdvancedFacts ==
  ASSUME WalkInv, walk # <<>>
  PROVE  /\ \E S : Advanced \in Seq(S) /\ \A f \in S : IsFrame(f)
         /\ Len(Advanced) = Len(walk)
         /\ \A i \in 1 .. Len(walk) : /\ Advanced[i].object = walk[i].object
                                      /\ Advanced[i].highConn = walk[i].highConn
<1>1. PICK S : walk \in Seq(S) /\ \A f \in S : IsFrame(f)
  BY DEF WalkInv
<1> DEFINE n == Len(walk)
           top == walk[n]
           rest == Tail(top.todo)
           g == [top EXCEPT !.todo = rest]
           a == Advanced
<1>2. n \in Nat /\ n > 0 /\ top \in S /\ IsFrame(top)
  BY <1>1
<1>3. a = [walk EXCEPT ![n] = g]
  BY DEF Advanced
<1>4. g = [object |-> top.object, highConn |-> top.highConn, todo |-> rest]
  <2> DEFINE o == top.object
             h == top.highConn
             t == top.todo
  <2>1. top = [object |-> o, highConn |-> h, todo |-> t]
    BY <1>2 DEF IsFrame
  <2> HIDE DEF o, h, t, top, rest
  <2>2. g = [object |-> o, highConn |-> h, todo |-> rest]
    BY <2>1
  <2> QED
    BY <2>2 DEF o, h
<1> DEFINE T == S \cup {g}
<1>5. \A f \in T : IsFrame(f)
  <2> HIDE DEF g
  <2>1. IsFrame(g)
    BY <1>4 DEF IsFrame
  <2> QED
    BY <1>1, <2>1
<1> HIDE DEF a, g, top
<1>6. a \in Seq(T) /\ Len(a) = n
  <2>1. walk \in Seq(T)
    <3> HIDE DEF T
    <3>1. \A i \in 1 .. n : walk[i] \in T
      BY <1>1 DEF T
    <3> QED
      BY <1>1, <3>1
  <2>2. g \in T
    OBVIOUS
  <2> HIDE DEF T
  <2> QED
    BY <1>2, <1>3, <2>1, <2>2
<1>7. a[n] = g /\ \A i \in 1 .. n - 1 : a[i] = walk[i]
  BY <1>1, <1>2, <1>3
<1>8. \A i \in 1 .. n : a[i].object = walk[i].object /\ a[i].highConn = walk[i].highConn
  BY <1>2, <1>4, <1>7 DEF top
<1> QED
  BY <1>5, <1>6, <1>8 DEF a

\* Entering an object.
LEMMA DescendFacts ==
  ASSUME WalkInv, walk # <<>>, Descend
  PROVE  /\ WalkInv' /\ Len(walk') = Len(walk) + 1
         /\ \A i \in 1 .. Len(walk) : /\ walk'[i].object = walk[i].object
                                      /\ walk'[i].highConn = walk[i].highConn
         /\ walk'[Len(walk) + 1].object = Here
         /\ (walk'[Len(walk) + 1].highConn <=> Head(Top.todo).highConn)
         /\ UNCHANGED design
<1> DEFINE a == Advanced
           h == Head(Top.todo).highConn
           todo == IF Here \in visited THEN <<>> ELSE Steps(Here)
           e == [object |-> Here, highConn |-> h, todo |-> todo]
           n == Len(walk)
<1>1. walk' = Append(a, e) /\ UNCHANGED design
  BY DEF Descend
<1>2. PICK S : a \in Seq(S) /\ \A f \in S : IsFrame(f)
  BY AdvancedFacts
<1>3. /\ Len(a) = n
      /\ \A i \in 1 .. n : a[i].object = walk[i].object /\ a[i].highConn = walk[i].highConn
  BY AdvancedFacts
<1>4. e.object = Here /\ e.highConn = h
  OBVIOUS
<1>5. IsFrame(e)
  <2> HIDE DEF todo, h
  <2> QED
    BY DEF IsFrame
<1> HIDE DEF a, e, h
<1> DEFINE T == S \cup {e}
<1>6. \A f \in T : IsFrame(f)
  BY <1>2, <1>5
<1>7. a \in Seq(T)
  <2> HIDE DEF T
  <2>1. \A i \in 1 .. Len(a) : a[i] \in T
    BY <1>2 DEF T
  <2> QED
    BY <1>2, <2>1
<1>8. walk' \in Seq(T)
  <2>1. e \in T
    OBVIOUS
  <2> HIDE DEF T
  <2> QED
    BY <1>1, <1>7, <2>1
<1>9. WalkInv'
  <2> HIDE DEF T
  <2> QED
    BY <1>6, <1>8 DEF WalkInv, IsFrame
<1>10. Len(walk') = n + 1 /\ walk'[n + 1] = e /\ \A i \in 1 .. n : walk'[i] = a[i]
  BY <1>1, <1>2, <1>3
<1> QED
  BY <1>1, <1>3, <1>4, <1>9, <1>10 DEF h

\* Leaving an object.
LEMMA AscendFacts ==
  ASSUME WalkInv, walk # <<>>, Ascend
  PROVE  /\ WalkInv' /\ Len(walk') = Len(walk) - 1
         /\ \A i \in 1 .. Len(walk) - 1 : walk'[i] = walk[i]
         /\ Top = walk[Len(walk)] /\ Len(walk) \in Nat \ {0}
         /\ UNCHANGED design
<1>1. PICK S : walk \in Seq(S) /\ \A f \in S : IsFrame(f)
  BY DEF WalkInv
<1>2. walk' = Front(walk) /\ UNCHANGED design
  BY DEF Ascend
<1>3. walk' \in Seq(S) /\ Len(walk') = Len(walk) - 1
      /\ \A i \in 1 .. Len(walk) - 1 : walk'[i] = walk[i]
  BY <1>1, <1>2, FrontFacts
<1>4. WalkInv'
  BY <1>1, <1>3 DEF WalkInv, IsFrame
<1>5. Top = walk[Len(walk)] /\ Len(walk) \in Nat \ {0}
  BY <1>1 DEF Top, Last
<1> QED
  BY <1>2, <1>3, <1>4, <1>5

-----------------------------------------------------------------------------
(***************************************************************************)
(* The invariant, by what a step does to the walk and to the stack.        *)
(***************************************************************************)
\* The numbers the invariant is about.
LEMMA HeightFacts ==
  ASSUME Inv
  PROVE  /\ Len(walk) \in Nat /\ DOMAIN walk = 1 .. Len(walk)
         /\ Len(instStack) \in Nat /\ DOMAIN instStack = 1 .. Len(instStack)
         /\ Len(instStack) = Counted(Places, Len(walk))
         /\ \A k \in 1 .. Len(walk) : k \in Places <=> IsScope(walk[k].object)
         /\ \A k \in 1 .. Len(walk) : k \in Places =>
              /\ Counted(Places, k) \in 1 .. Len(instStack)
              /\ instStack[Counted(Places, k)].object = walk[k].object
<1>1. PICK S : walk \in Seq(S)
  BY DEF Inv, WalkInv
<1>2. PICK T : instStack \in Seq(T)
  BY DEF Inv, EntriesInv
<1>3. /\ Len(walk) \in Nat /\ DOMAIN walk = 1 .. Len(walk)
      /\ Len(instStack) \in Nat /\ DOMAIN instStack = 1 .. Len(instStack)
  BY <1>1, <1>2
<1>4. \A k \in 0 .. Len(walk) : Depth(k) = Counted(Places, k)
  BY <1>1, DepthCounts
<1>5. \A k \in 1 .. Len(walk) : k \in Places <=> IsScope(walk[k].object)
  BY <1>3 DEF Places
<1>6. Len(instStack) = Counted(Places, Len(walk))
  BY <1>3, <1>4 DEF Inv, StackFollowsWalk
<1>7. \A k \in 1 .. Len(walk) : k \in Places =>
        /\ Counted(Places, k) \in 1 .. Len(instStack)
        /\ instStack[Counted(Places, k)].object = walk[k].object
  <2> TAKE k \in 1 .. Len(walk)
  <2> HAVE k \in Places
  <2>1. Depth(k) = Counted(Places, k) /\ IsScope(walk[k].object) /\ k \in DOMAIN walk
    BY <1>3, <1>4, <1>5
  <2>2. instStack[Counted(Places, k)].object = walk[k].object
    BY <2>1 DEF Inv, StackFollowsWalk
  <2>3. k \in Nat /\ k \in 0 .. Len(walk) /\ k > 0
    BY <1>3
  <2>4. Counted(Places, k) \in Nat
    BY <2>3, CountNext
  <2>5. Counted(Places, k) > 0 /\ Counted(Places, k) <= Counted(Places, Len(walk))
    BY <1>3, <2>3, CountGrows
  <2> QED
    BY <1>3, <1>6, <2>2, <2>4, <2>5
<1> QED
  BY <1>3, <1>5, <1>6, <1>7

\* What makes up the invariant after a step.
LEMMA StackFollowsAfter ==
  ASSUME WalkInv', EntriesInv', UNCHANGED design,
         Len(instStack') = Counted(Places', Len(walk')),
         \A k \in 1 .. Len(walk') : k \in Places' =>
           instStack'[Counted(Places', k)].object = walk'[k].object,
         \A i \in 1 .. Len(instStack') :
           Kind(instStack'[i].object) = "module_inst" => inHierarchy',
         ignoreLast' => \E k \in 1 .. Len(walk') : walk'[k].highConn
  PROVE  Inv'
<1> DEFINE w == walk'
           s == instStack'
           depth(k) == Cardinality({i \in 1 .. k : IsScope(w[i].object)})
<1>1. /\ Len(s) = depth(Len(w))
      /\ \A k \in DOMAIN w : IsScope(w[k].object) => s[depth(k)].object = w[k].object
      /\ \A i \in DOMAIN s : Kind(s[i].object) = "module_inst" => inHierarchy'
      /\ ignoreLast' => \E k \in DOMAIN w : w[k].highConn
  <2>1. PICK S : w \in Seq(S)
    BY DEF WalkInv
  <2>2. PICK T : s \in Seq(T)
    BY DEF EntriesInv
  <2>3. DOMAIN w = 1 .. Len(w) /\ Len(w) \in Nat /\ DOMAIN s = 1 .. Len(s)
    BY <2>1, <2>2
  <2>4. Places' = {i \in DOMAIN w : IsScope(w[i].object)}
    BY PlacesAfter
  <2>5. \A k \in 0 .. Len(w) : depth(k) = Counted(Places', k)
    <3> HIDE DEF w
    <3> TAKE k \in 0 .. Len(w)
    <3>1. {i \in 1 .. k : IsScope(w[i].object)} = {i \in 1 .. k : i \in Places'}
      BY <2>3, <2>4
    <3> QED
      BY <3>1 DEF Counted
  <2> HIDE DEF depth
  <2>6. Len(s) = depth(Len(w))
    <3>1. Len(w) \in 0 .. Len(w)
      BY <2>3
    <3> QED
      BY <2>5, <3>1
  <2>7. ASSUME NEW k \in DOMAIN w, IsScope(w[k].object)
        PROVE  s[depth(k)].object = w[k].object
    <3>1. k \in Places' /\ k \in 1 .. Len(w) /\ k \in 0 .. Len(w)
      BY <2>3, <2>4, <2>7
    <3>2. depth(k) = Counted(Places', k)
      BY <2>5, <3>1
    <3> QED
      BY <3>1, <3>2
  <2> QED
    BY <2>3, <2>6, <2>7
<1>2. StackFollowsWalk'
  BY <1>1 DEF StackFollowsWalk, Depth, IsScope, Kind, IsDefinition, Name
<1> QED
  BY <1>2 DEF Inv

\* A scope is entered: it is pushed, on the entries there are, of which at most
\* what they know has changed.
LEMMA PushKeeps ==
  ASSUME Inv, walk # <<>>, Descend, IsScope(Here),
         NEW S, NEW base \in Seq(S), NEW e, instStack' = Append(base, e),
         \A b \in S : IsEntry(b) /\ IsScope(b.object),
         Len(base) = Len(instStack),
         \A i \in 1 .. Len(instStack) : base[i].object = instStack[i].object,
         IsEntry(e), e.object = Here,
         Kind(Here) = "module_inst" => inHierarchy', inHierarchy => inHierarchy'
  PROVE  Inv'
<1> DEFINE n == Len(walk)
           h == Len(instStack)
           x == Here
           w == walk'
           s == instStack'
           before == Places
<1>1. WalkInv /\ EntriesInv
  BY DEF Inv
<1>2. /\ WalkInv' /\ Len(w) = n + 1
      /\ \A i \in 1 .. n : w[i].object = walk[i].object /\ w[i].highConn = walk[i].highConn
      /\ w[n + 1].object = x /\ (w[n + 1].highConn <=> Head(Top.todo).highConn)
      /\ UNCHANGED design
  BY <1>1, DescendFacts
<1>3. /\ n \in Nat /\ h \in Nat /\ h = Counted(before, n) /\ DOMAIN walk = 1 .. n
      /\ \A k \in 1 .. n : k \in before <=> IsScope(walk[k].object)
      /\ \A k \in 1 .. n : k \in before =>
           Counted(before, k) \in 1 .. h /\ instStack[Counted(before, k)].object = walk[k].object
  BY HeightFacts
<1>4. /\ Len(s) = h + 1 /\ s[h + 1] = e
      /\ \A i \in 1 .. h : s[i] = base[i] /\ s[i].object = instStack[i].object
  BY <1>3
<1>5. EntriesInv'
  <2> DEFINE T == S \cup {e}
  <2>1. \A b \in T : IsEntry(b) /\ IsScope(b.object)
    OBVIOUS
  <2>2. s \in Seq(T)
    <3>1. base \in Seq(T) /\ e \in T
      <4> HIDE DEF T
      <4>1. \A i \in 1 .. Len(base) : base[i] \in T
        BY DEF T
      <4> QED
        BY <4>1 DEF T
    <3> HIDE DEF T
    <3> QED
      BY <3>1
  <2> HIDE DEF T
  <2>3. instStack' \in Seq(T) /\ \A b \in T : IsEntry(b) /\ IsScope(b.object)
    BY <2>1, <2>2
  <2> QED
    BY <1>2, <2>3 DEF EntriesInv, IsEntry, IsScope, Kind, IsDefinition, Name
<1>6. Places' = before \cup {n + 1}
  <2>1. Places' = {i \in 1 .. n + 1 : IsScope(w[i].object)}
    <3>1. PICK Q : w \in Seq(Q)
      BY <1>2 DEF WalkInv
    <3>2. DOMAIN w = 1 .. n + 1
      BY <1>2, <3>1
    <3> QED
      BY <1>2, <3>2, PlacesAfter
  <2>2. before = {i \in 1 .. n : IsScope(walk[i].object)}
    BY <1>3 DEF Places
  <2> HIDE DEF w, before, x
  <2> QED
    BY <1>2, <1>3, <2>1, <2>2 DEF x
<1> HIDE DEF n, h, w, s, before, x
<1>7. \A k \in 0 .. n : Counted(Places', k) = Counted(before, k)
  <2> TAKE k \in 0 .. n
  <2>1. {i \in 1 .. k : i \in Places'} = {i \in 1 .. k : i \in before}
    BY <1>3, <1>6
  <2> QED
    BY <2>1 DEF Counted
<1>8. Counted(Places', n + 1) = h + 1
  <2>1. n + 1 \in Places'
    BY <1>6
  <2>2. Counted(Places', n) = h
    BY <1>3, <1>7
  <2> QED
    BY <1>3, <2>1, <2>2, CountNext
<1>9. ASSUME NEW k \in 1 .. n + 1, k \in Places'
      PROVE  s[Counted(Places', k)].object = w[k].object
  <2>1. CASE k = n + 1
    BY <1>2, <1>4, <1>8, <2>1 DEF x
  <2>2. CASE k \in 1 .. n
    <3>1. k \in before /\ k \in 0 .. n
      BY <1>3, <1>6, <1>9, <2>2
    <3>2. Counted(Places', k) = Counted(before, k)
      BY <1>7, <3>1
    <3> QED
      BY <1>2, <1>3, <1>4, <2>2, <3>1, <3>2
  <2> QED
    BY <1>3, <2>1, <2>2
<1>10. \A i \in 1 .. h + 1 : Kind(s[i].object) = "module_inst" => inHierarchy'
  <2>1. \A i \in 1 .. h : Kind(instStack[i].object) = "module_inst" => inHierarchy
    BY HeightFacts DEF Inv, StackFollowsWalk, h
  <2> QED
    BY <1>3, <1>4, <2>1 DEF x
<1>11. ignoreLast' => \E k \in 1 .. n + 1 : w[k].highConn
  <2>1. ignoreLast' <=> ignoreLast \/ Head(Top.todo).highConn
    BY DEF Descend
  <2>2. ignoreLast => \E k \in 1 .. n : walk[k].highConn
    BY <1>3 DEF Inv, StackFollowsWalk
  <2> QED
    BY <1>2, <1>3, <2>1, <2>2
<1> QED
  BY <1>2, <1>4, <1>5, <1>8, <1>9, <1>10, <1>11, StackFollowsAfter DEF w, s

\* The stack is left as it is while the walk keeps its scopes.
LEMMA KeptEntries ==
  ASSUME Inv, UNCHANGED <<design, instStack, inHierarchy>>
  PROVE  /\ EntriesInv'
         /\ \A i \in 1 .. Len(instStack) :
              Kind(instStack[i].object) = "module_inst" => inHierarchy'
<1>1. EntriesInv'
  BY DEF Inv, EntriesInv, IsEntry, IsScope, Kind, IsDefinition, Name
<1>2. \A i \in 1 .. Len(instStack) : Kind(instStack[i].object) = "module_inst" => inHierarchy
  BY HeightFacts DEF Inv, StackFollowsWalk
<1> QED
  BY <1>1, <1>2

\* Another object is entered: nothing is pushed.
LEMMA NoPushKeeps ==
  ASSUME Inv, walk # <<>>, Descend, ~ IsScope(Here), UNCHANGED <<instStack, inHierarchy>>
  PROVE  Inv'
<1> DEFINE n == Len(walk)
           h == Len(instStack)
           x == Here
           w == walk'
           before == Places
<1>1. WalkInv /\ EntriesInv
  BY DEF Inv
<1>2. /\ WalkInv' /\ Len(w) = n + 1
      /\ \A i \in 1 .. n : w[i].object = walk[i].object /\ w[i].highConn = walk[i].highConn
      /\ w[n + 1].object = x /\ (w[n + 1].highConn <=> Head(Top.todo).highConn)
      /\ UNCHANGED design
  BY <1>1, DescendFacts
<1>3. /\ n \in Nat /\ h \in Nat /\ h = Counted(before, n) /\ DOMAIN walk = 1 .. n
      /\ \A k \in 1 .. n : k \in before <=> IsScope(walk[k].object)
      /\ \A k \in 1 .. n : k \in before =>
           Counted(before, k) \in 1 .. h /\ instStack[Counted(before, k)].object = walk[k].object
  BY HeightFacts
<1>4. Places' = before
  <2>1. Places' = {i \in 1 .. n + 1 : IsScope(w[i].object)}
    <3>1. PICK Q : w \in Seq(Q)
      BY <1>2 DEF WalkInv
    <3>2. DOMAIN w = 1 .. n + 1
      BY <1>2, <3>1
    <3> QED
      BY <1>2, <3>2, PlacesAfter
  <2>2. before = {i \in 1 .. n : IsScope(walk[i].object)}
    BY <1>3 DEF Places
  <2> HIDE DEF w, before, x
  <2> QED
    BY <1>2, <1>3, <2>1, <2>2 DEF x
<1>5. EntriesInv' /\ \A i \in 1 .. h : Kind(instStack[i].object) = "module_inst" => inHierarchy'
  BY <1>2, KeptEntries
<1> HIDE DEF n, h, w, before, x
<1>6. n + 1 \notin before
  BY <1>3 DEF before, Places
<1>7. Counted(Places', n + 1) = h
  BY <1>3, <1>4, <1>6, CountNext
<1>8. \A k \in 1 .. n + 1 : k \in Places' => instStack[Counted(Places', k)].object = w[k].object
  <2> TAKE k \in 1 .. n + 1
  <2> HAVE k \in Places'
  <2>1. k \in 1 .. n
    BY <1>3, <1>4, <1>6
  <2> QED
    BY <1>2, <1>3, <1>4, <2>1
<1>9. ignoreLast' => \E k \in 1 .. n + 1 : w[k].highConn
  <2>1. ignoreLast' <=> ignoreLast \/ Head(Top.todo).highConn
    BY DEF Descend
  <2>2. ignoreLast => \E k \in 1 .. n : walk[k].highConn
    BY <1>3 DEF Inv, StackFollowsWalk
  <2> QED
    BY <1>2, <1>3, <2>1, <2>2
<1> QED
  BY <1>2, <1>5, <1>7, <1>8, <1>9, StackFollowsAfter DEF w, h

\* Leaving ends what is ignored for a high connection with that connection.
LEMMA IgnoredAfter ==
  ASSUME Inv, walk # <<>>, Ascend
  PROVE  ignoreLast' => \E k \in 1 .. Len(walk) - 1 : walk[k].highConn
<1> DEFINE n == Len(walk)
<1>1. n \in Nat \ {0} /\ Top = walk[n]
  BY AscendFacts DEF Inv
<1>2. ignoreLast' <=> ignoreLast /\ ~ Top.highConn
  BY DEF Ascend
<1>3. ignoreLast => \E k \in 1 .. n : walk[k].highConn
  BY HeightFacts DEF Inv, StackFollowsWalk
<1> HIDE DEF n
<1>4. \A k \in 1 .. n : k = n \/ k \in 1 .. n - 1
  BY <1>1
<1> QED
  BY <1>1, <1>2, <1>3, <1>4 DEF n

\* A scope is left: its entry is the top one.
LEMMA TopIsItsEntry ==
  ASSUME Inv, walk # <<>>
  PROVE  IsOnTop(Top.object) <=> IsScope(Top.object)
<1> DEFINE n == Len(walk)
           h == Len(instStack)
           before == Places
<1>1. /\ n \in Nat /\ h \in Nat /\ h = Counted(before, n) /\ DOMAIN walk = 1 .. n
      /\ \A k \in 1 .. n : k \in before <=> IsScope(walk[k].object)
      /\ \A k \in 1 .. n : k \in before =>
           Counted(before, k) \in 1 .. h /\ instStack[Counted(before, k)].object = walk[k].object
  BY HeightFacts
<1>2. PICK S : walk \in Seq(S)
  BY DEF Inv, WalkInv
<1>3. PICK T : instStack \in Seq(T) /\ \A e \in T : IsEntry(e) /\ IsScope(e.object)
  BY DEF Inv, EntriesInv
<1>4. n \in 1 .. n /\ Top = walk[n]
  BY <1>2 DEF Top, Last
<1>5. instStack # <<>> => h \in 1 .. h /\ Last(instStack) = instStack[h] /\ IsScope(instStack[h].object)
  BY <1>3 DEF Last
<1> HIDE DEF n, h, before
<1>6. ASSUME IsScope(Top.object) PROVE IsOnTop(Top.object)
  <2>1. n \in before
    BY <1>1, <1>4, <1>6
  <2>2. h \in 1 .. h /\ instStack[h].object = walk[n].object
    BY <1>1, <1>4, <2>1
  <2>3. instStack # <<>>
    BY <1>3, <2>2 DEF h
  <2> QED
    BY <1>4, <1>5, <2>2, <2>3 DEF IsOnTop
<1>7. ASSUME IsOnTop(Top.object) PROVE IsScope(Top.object)
  BY <1>5, <1>7 DEF IsOnTop
<1> QED
  BY <1>6, <1>7

\* The walk without the object that is left.
LEMMA LeftFacts ==
  ASSUME Inv, walk # <<>>, Ascend
  PROVE  /\ WalkInv' /\ UNCHANGED design
         /\ Len(walk') = Len(walk) - 1 /\ Len(walk') \in Nat
         /\ Places' = Places \ {Len(walk)}
         /\ \A k \in 1 .. Len(walk') : walk'[k] = walk[k] /\ k \in 1 .. Len(walk)
         /\ \A k \in 0 .. Len(walk') : Counted(Places', k) = Counted(Places, k)
         /\ Len(walk) \in Places <=> IsScope(Top.object)
         /\ Len(instStack) = IF IsScope(Top.object) THEN Counted(Places', Len(walk')) + 1
                                                    ELSE Counted(Places', Len(walk'))
<1> DEFINE n == Len(walk)
           w == walk'
           before == Places
           h == Len(instStack)
<1>1. /\ WalkInv' /\ Len(w) = n - 1 /\ \A i \in 1 .. n - 1 : w[i] = walk[i]
      /\ Top = walk[n] /\ n \in Nat \ {0} /\ UNCHANGED design
  BY AscendFacts DEF Inv
<1>2. /\ h = Counted(before, n) /\ DOMAIN walk = 1 .. n
      /\ \A k \in 1 .. n : k \in before <=> IsScope(walk[k].object)
  BY HeightFacts
<1>3. Places' = before \ {n}
  <2>1. Places' = {i \in 1 .. n - 1 : IsScope(w[i].object)}
    <3>1. PICK Q : w \in Seq(Q)
      BY <1>1 DEF WalkInv
    <3>2. DOMAIN w = 1 .. n - 1
      BY <1>1, <3>1
    <3> QED
      BY <1>1, <3>2, PlacesAfter
  <2>2. before = {i \in 1 .. n : IsScope(walk[i].object)}
    BY <1>2 DEF Places
  <2> HIDE DEF w, before
  <2> QED
    BY <1>1, <1>2, <2>1, <2>2
<1> HIDE DEF n, w, before, h
<1>4. \A k \in 0 .. n - 1 : Counted(Places', k) = Counted(before, k)
  <2> TAKE k \in 0 .. n - 1
  <2>1. {i \in 1 .. k : i \in Places'} = {i \in 1 .. k : i \in before}
    BY <1>1, <1>3
  <2> QED
    BY <2>1 DEF Counted
<1>5. n \in before <=> IsScope(Top.object)
  BY <1>1, <1>2
<1>6. h = IF IsScope(Top.object) THEN Counted(Places', n - 1) + 1 ELSE Counted(Places', n - 1)
  <2> DEFINE m == n - 1
  <2>1. m \in Nat /\ m + 1 = n /\ m \in 0 .. n - 1
    BY <1>1
  <2> HIDE DEF m
  <2>2. Counted(before, m + 1) = IF m + 1 \in before THEN Counted(before, m) + 1
                                                     ELSE Counted(before, m)
    BY <2>1, CountNext
  <2>3. Counted(Places', m) = Counted(before, m)
    BY <1>4, <2>1
  <2> QED
    BY <1>2, <1>5, <2>1, <2>2, <2>3 DEF m
<1>7. n - 1 \in Nat /\ \A k \in 1 .. n - 1 : k \in 1 .. n
  BY <1>1
<1> QED
  BY <1>1, <1>3, <1>4, <1>5, <1>6, <1>7 DEF n, w, before, h

\* A scope is left, and popped.
LEMMA PopKeeps ==
  ASSUME Inv, walk # <<>>, Ascend, IsScope(Top.object), instStack' = Front(instStack),
         \A i \in 1 .. Len(instStack) - 1 :
           Kind(instStack[i].object) = "module_inst" => inHierarchy'
  PROVE  Inv'
<1> DEFINE n == Len(walk)
           w == walk'
           s == instStack'
           h == Len(instStack)
<1>1. /\ WalkInv' /\ UNCHANGED design /\ Len(w) = n - 1 /\ Len(w) \in Nat
      /\ Places' = Places \ {n}
      /\ \A k \in 1 .. Len(w) : w[k] = walk[k] /\ k \in 1 .. n
      /\ \A k \in 0 .. Len(w) : Counted(Places', k) = Counted(Places, k)
      /\ h = Counted(Places', Len(w)) + 1
  BY LeftFacts
<1>2. PICK T : instStack \in Seq(T) /\ \A e \in T : IsEntry(e) /\ IsScope(e.object)
  BY DEF Inv, EntriesInv
<1>3. Counted(Places', Len(w)) \in Nat
  BY <1>1, CountNext
<1>4. instStack # <<>>
  BY <1>1, <1>3
<1>5. s \in Seq(T) /\ Len(s) = h - 1 /\ \A i \in 1 .. h - 1 : s[i] = instStack[i]
  BY <1>2, <1>4, FrontFacts
<1>6. EntriesInv'
  BY <1>1, <1>2, <1>5 DEF EntriesInv, IsEntry, IsScope, Kind, IsDefinition, Name
<1>7. \A k \in 1 .. n : k \in Places => instStack[Counted(Places, k)].object = walk[k].object
  BY HeightFacts
<1>8. ignoreLast' => \E k \in 1 .. n - 1 : walk[k].highConn
  BY IgnoredAfter
<1> HIDE DEF n, w, s, h
<1>9. ASSUME NEW k \in 1 .. Len(w), k \in Places'
      PROVE  s[Counted(Places', k)].object = w[k].object
  <2> DEFINE c == Counted(Places', k)
  <2>1. k \in Nat /\ k \in 0 .. Len(w) /\ k > 0 /\ k \in Places
    BY <1>1, <1>9
  <2>2. c = Counted(Places, k)
    BY <1>1, <2>1
  <2>3. c \in Nat /\ c > 0 /\ c <= Counted(Places', Len(w))
    BY <1>1, <1>9, <2>1, CountNext, CountGrows
  <2> HIDE DEF c
  <2>4. c \in 1 .. h - 1
    BY <1>1, <1>3, <2>3
  <2>5. instStack[c].object = walk[k].object
    BY <1>1, <1>7, <2>1, <2>2
  <2> QED
    BY <1>1, <1>5, <2>4, <2>5 DEF c
<1>10. Len(s) = Counted(Places', Len(w))
  BY <1>1, <1>3, <1>5
<1>11. \A i \in 1 .. Len(s) : Kind(s[i].object) = "module_inst" => inHierarchy'
  BY <1>5 DEF h
<1>12. ignoreLast' => \E k \in 1 .. Len(w) : w[k].highConn
  BY <1>1, <1>8
<1> QED
  BY <1>1, <1>6, <1>9, <1>10, <1>11, <1>12, StackFollowsAfter DEF w, s

\* Another object is left: nothing is popped.
LEMMA NoPopKeeps ==
  ASSUME Inv, walk # <<>>, Ascend, ~ IsScope(Top.object), UNCHANGED <<instStack, inHierarchy>>
  PROVE  Inv'
<1> DEFINE n == Len(walk)
           w == walk'
<1>1. /\ WalkInv' /\ UNCHANGED design /\ Len(w) = n - 1 /\ Len(w) \in Nat
      /\ Places' = Places \ {n}
      /\ \A k \in 1 .. Len(w) : w[k] = walk[k] /\ k \in 1 .. n
      /\ \A k \in 0 .. Len(w) : Counted(Places', k) = Counted(Places, k)
      /\ Len(instStack) = Counted(Places', Len(w))
  BY LeftFacts
<1>2. /\ EntriesInv'
      /\ \A i \in 1 .. Len(instStack) : Kind(instStack[i].object) = "module_inst" => inHierarchy'
  BY <1>1, KeptEntries
<1>3. \A k \in 1 .. n : k \in Places => instStack[Counted(Places, k)].object = walk[k].object
  BY HeightFacts
<1>4. ignoreLast' => \E k \in 1 .. n - 1 : walk[k].highConn
  BY IgnoredAfter
<1> HIDE DEF n, w
<1>5. ASSUME NEW k \in 1 .. Len(w), k \in Places'
      PROVE  instStack[Counted(Places', k)].object = w[k].object
  <2>1. k \in 0 .. Len(w) /\ k \in Places /\ k \in 1 .. n /\ w[k] = walk[k]
    BY <1>1, <1>5
  <2> QED
    BY <1>1, <1>3, <2>1
<1>6. ignoreLast' => \E k \in 1 .. Len(w) : w[k].highConn
  BY <1>1, <1>4
<1> QED
  BY <1>1, <1>2, <1>5, <1>6, StackFollowsAfter DEF w

\* The end of a list: the walk is where it was.
LEMMA EndListKeeps ==
  ASSUME Inv, EndList
  PROVE  Inv'
<1> DEFINE n == Len(walk)
           a == Advanced
           before == Places
<1>1. /\ walk # <<>> /\ walk' = a
      /\ UNCHANGED <<design, instStack, flat, inHierarchy, ignoreLast, actual>>
  BY DEF EndList
<1>2. PICK S : a \in Seq(S) /\ \A f \in S : IsFrame(f)
  BY <1>1, AdvancedFacts DEF Inv
<1>3. /\ Len(a) = n
      /\ \A i \in 1 .. n : a[i].object = walk[i].object /\ a[i].highConn = walk[i].highConn
  BY <1>1, AdvancedFacts DEF Inv
<1> HIDE DEF a
<1>4. WalkInv'
  BY <1>1, <1>2 DEF WalkInv, IsFrame
<1>5. /\ Len(instStack) = Counted(before, n) /\ DOMAIN walk = 1 .. n
      /\ \A k \in 1 .. n : k \in before =>
           instStack[Counted(before, k)].object = walk[k].object
  BY HeightFacts
<1>6. Places' = before
  <2>1. Places' = {i \in DOMAIN a : IsScope(a[i].object)}
    BY <1>1, PlacesAfter
  <2>2. DOMAIN a = 1 .. n
    BY <1>2, <1>3
  <2> QED
    BY <1>3, <1>5, <2>1, <2>2 DEF Places
<1>7. /\ EntriesInv'
      /\ \A i \in 1 .. Len(instStack) : Kind(instStack[i].object) = "module_inst" => inHierarchy'
  BY <1>1, KeptEntries
<1>8. ignoreLast' => \E k \in 1 .. n : a[k].highConn
  BY <1>1, <1>3, <1>5 DEF Inv, StackFollowsWalk
<1> HIDE DEF n, before
<1> QED
  BY <1>1, <1>3, <1>4, <1>5, <1>6, <1>7, <1>8, StackFollowsAfter

-----------------------------------------------------------------------------
(***************************************************************************)
(* The handlers.                                                           *)
(***************************************************************************)
\* Elaboration starts at the design, which is no scope, with an empty stack.
LEMMA StartsEmpty == Init => Inv
<1> SUFFICES ASSUME Init PROVE Inv
  OBVIOUS
<1> DEFINE todo == Steps("design")
           f == [object |-> "design", highConn |-> FALSE, todo |-> todo]
           S == {f}
<1>1. walk = <<f>> /\ instStack = <<>> /\ ignoreLast = FALSE /\ design \in Designs
  BY DEF Init
<1>2. ~ IsScope("design")
  <2>1. Kind("design") = "design"
    BY <1>1, DesignAssumption DEF Kind
  <2> QED
    BY <2>1 DEF IsScope, Scopes, Blocks, NamedBlocks
<1> HIDE DEF todo
<1>3. IsFrame(f) /\ f.object = "design"
  BY DEF IsFrame
<1> HIDE DEF f
<1>4. WalkInv
  <2>1. walk \in Seq(S) /\ \A g \in S : IsFrame(g)
    BY <1>1, <1>3
  <2> HIDE DEF S
  <2> QED
    BY <2>1 DEF WalkInv
<1>5. EntriesInv
  <2> DEFINE T == {}
  <2>1. instStack \in Seq(T) /\ \A e \in T : IsEntry(e) /\ IsScope(e.object)
    BY <1>1
  <2> HIDE DEF T
  <2> QED
    BY <2>1 DEF EntriesInv
<1>6. Len(walk) = 1 /\ DOMAIN walk = 1 .. 1 /\ walk[1] = f /\ Len(instStack) = 0
      /\ DOMAIN instStack = {}
  BY <1>1
<1>7. Depth(1) = 0
  <2>1. {i \in 1 .. 1 : IsScope(walk[i].object)} = {}
    BY <1>2, <1>3, <1>6
  <2> QED
    BY <2>1, FS_EmptySet DEF Depth
<1>8. StackFollowsWalk
  BY <1>1, <1>2, <1>3, <1>6, <1>7 DEF StackFollowsWalk
<1> QED
  BY <1>4, <1>5, <1>8 DEF Inv

\* What a scope declares goes onto the stack with it.
LEMMA PushEntryKeeps ==
  ASSUME Inv, walk # <<>>, Descend, IsScope(Here), NEW nets, NEW params, NEW mods,
         Push(nets, params, mods),
         Kind(Here) = "module_inst" => inHierarchy', inHierarchy => inHierarchy'
  PROVE  Inv'
<1> DEFINE x == Here
           a == Map(nets)
           b == Map(params)
           c == Map(mods)
           e == [object |-> x, netMap |-> a, paramMap |-> b, modMap |-> c]
           base == instStack
<1>1. PICK S : base \in Seq(S) /\ \A g \in S : IsEntry(g) /\ IsScope(g.object)
  BY DEF Inv, EntriesInv
<1>2. instStack' = Append(base, e)
  BY DEF Push
<1> HIDE DEF x, a, b, c
<1>3. IsEntry(e) /\ e.object = x
  BY DEF IsEntry
<1> HIDE DEF e
<1>4. Len(base) = Len(instStack) /\ \A i \in 1 .. Len(instStack) : base[i].object = instStack[i].object
  OBVIOUS
<1> HIDE DEF base
<1> QED
  BY <1>1, <1>2, <1>3, <1>4, PushKeeps DEF x

\* Scopes that are entered, but for instances.
LEMMA EnterKeeps ==
  ASSUME Inv, NEW kinds, kinds \subseteq Scopes \ {"module_inst", "interface_inst"},
         NEW nets, NEW params, NEW mods, Enter(kinds, nets, params, mods)
  PROVE  Inv'
<1>1. /\ walk # <<>> /\ Kind(Here) \in kinds /\ Descend /\ Push(nets, params, mods)
      /\ inHierarchy' = inHierarchy
  BY DEF Enter, Enters
<1>2. IsScope(Here) /\ Kind(Here) # "module_inst"
  BY <1>1 DEF IsScope
<1> QED
  BY <1>1, <1>2, PushEntryKeeps

\* Instances, and definitions of them.
LEMMA EnterInstanceKeeps ==
  ASSUME Inv, EnterDefinition \/ EnterModule_inst \/ EnterInterface_inst
  PROVE  Inv'
<1>1. CASE EnterDefinition
  <2>1. /\ walk # <<>> /\ Descend /\ UNCHANGED <<instStack, inHierarchy>>
        /\ Kind(Here) \in {"module_inst", "interface_inst"} /\ IsDefinition(Here)
    BY <1>1 DEF EnterDefinition, Enters
  <2>2. ~ IsScope(Here)
    BY <2>1 DEF IsScope
  <2> QED
    BY <2>1, <2>2, NoPushKeeps
<1>2. CASE EnterModule_inst
  <2> DEFINE nets == ModuleNets(Here)
             params == ModuleParams(Here)
             mods == ModuleMods(Here)
  <2>1. /\ walk # <<>> /\ Descend /\ inHierarchy' = TRUE
        /\ Kind(Here) = "module_inst" /\ ~ IsDefinition(Here) /\ Push(nets, params, mods)
    BY <1>2 DEF EnterModule_inst, Enters
  <2>2. IsScope(Here)
    BY <2>1 DEF IsScope, Scopes
  <2> HIDE DEF nets, params, mods
  <2> QED
    BY <2>1, <2>2, PushEntryKeeps
<1>3. CASE EnterInterface_inst
  <2> DEFINE nets == InterfaceNets(Here)
             params == InterfaceParams(Here)
             mods == Clocking(Here)
  <2>1. /\ walk # <<>> /\ Descend /\ inHierarchy' = TRUE
        /\ Kind(Here) = "interface_inst" /\ ~ IsDefinition(Here) /\ Push(nets, params, mods)
    BY <1>3 DEF EnterInterface_inst, Enters
  <2>2. IsScope(Here)
    BY <2>1 DEF IsScope, Scopes
  <2> HIDE DEF nets, params, mods
  <2> QED
    BY <2>1, <2>2, PushEntryKeeps
<1> QED
  BY <1>1, <1>2, <1>3

\* A named block is pushed, too, after its name has become known around it.
LEMMA EnterNamedKeeps ==
  ASSUME Inv, NEW kinds, kinds \subseteq NamedBlocks, EnterNamed(kinds)
  PROVE  Inv'
<1> DEFINE x == Here
           h == Len(instStack)
           name == Map(Pairs(<<Here>>))
           base == IF instStack = <<>> THEN instStack
                   ELSE [instStack EXCEPT ![h].modMap = @ @@ name]
           nets == Map(BlockVars(Here))
           none == Map(<<>>)
           e == [object |-> x, netMap |-> nets, paramMap |-> none, modMap |-> none]
<1>1. /\ walk # <<>> /\ Kind(Here) \in kinds /\ Descend /\ inHierarchy' = inHierarchy
      /\ instStack' = Append(base, e)
  BY DEF EnterNamed, Enters
<1>2. IsScope(Here) /\ Kind(Here) # "module_inst"
  BY <1>1 DEF IsScope, Scopes, NamedBlocks
<1>3. PICK S : instStack \in Seq(S) /\ \A g \in S : IsEntry(g) /\ IsScope(g.object)
  BY DEF Inv, EntriesInv
<1>4. IsEntry(e) /\ e.object = x
  <2> HIDE DEF nets, none, x
  <2> QED
    BY DEF IsEntry
<1>5. \E T : /\ base \in Seq(T) /\ \A g \in T : IsEntry(g) /\ IsScope(g.object)
             /\ Len(base) = h /\ \A i \in 1 .. h : base[i].object = instStack[i].object
  <2>1. CASE instStack = <<>>
    <3>1. base = instStack
      BY <2>1
    <3> QED
      BY <1>3, <3>1
  <2>2. CASE instStack # <<>>
    <3> DEFINE top == instStack[h]
               mods == top.modMap @@ name
               g == [top EXCEPT !.modMap = mods]
               T == S \cup {g}
    <3>1. base = [instStack EXCEPT ![h] = g]
      BY <2>2
    <3>2. h \in 1 .. h /\ top \in S /\ h \in Nat
      BY <1>3, <2>2
    <3>3. IsEntry(top) /\ IsScope(top.object)
      BY <1>3, <3>2
    <3>4. IsEntry(g) /\ g.object = top.object
      <4> DEFINE o == top.object
                 n == top.netMap
                 p == top.paramMap
                 m == top.modMap
      <4>1. top = [object |-> o, netMap |-> n, paramMap |-> p, modMap |-> m]
        BY <3>3 DEF IsEntry
      <4> HIDE DEF o, n, p, m, top, mods
      <4>2. g = [object |-> o, netMap |-> n, paramMap |-> p, modMap |-> mods]
        BY <4>1
      <4> HIDE DEF g
      <4> QED
        BY <4>2 DEF IsEntry, o
    <3>5. \A b \in T : IsEntry(b) /\ IsScope(b.object)
      <4> HIDE DEF g, top
      <4> QED
        BY <1>3, <3>3, <3>4
    <3> HIDE DEF g, base, top
    <3>6. base \in Seq(T) /\ Len(base) = h
      <4>1. \A i \in 1 .. h : instStack[i] \in T
        BY <1>3
      <4>2. g \in T
        OBVIOUS
      <4> HIDE DEF T
      <4>3. instStack \in Seq(T)
        BY <1>3, <4>1
      <4> QED
        BY <3>1, <3>2, <4>2, <4>3
    <3>7. \A i \in 1 .. h : base[i].object = instStack[i].object
      BY <1>3, <3>1, <3>2, <3>4 DEF top
    <3> HIDE DEF T
    <3> QED
      BY <3>5, <3>6, <3>7
  <2> QED
    BY <2>1, <2>2
<1> HIDE DEF base, e, x
<1>6. PICK T : /\ base \in Seq(T) /\ \A g \in T : IsEntry(g) /\ IsScope(g.object)
               /\ Len(base) = h /\ \A i \in 1 .. h : base[i].object = instStack[i].object
  BY <1>5
<1> QED
  BY <1>1, <1>2, <1>4, <1>6, PushKeeps DEF x

\* Other objects.
LEMMA OtherKeeps ==
  ASSUME Inv, EnterOther \/ LeaveOther \/ LeaveRef_obj
  PROVE  Inv'
<1>1. CASE EnterOther
  <2>1. walk # <<>> /\ Descend /\ ~ IsScope(Here) /\ UNCHANGED <<instStack, inHierarchy>>
    BY <1>1 DEF EnterOther, IsScope
  <2> QED
    BY <2>1, NoPushKeeps
<1>2. CASE LeaveOther
  <2>1. walk # <<>> /\ Ascend /\ ~ IsScope(Top.object) /\ UNCHANGED <<instStack, inHierarchy>>
    BY <1>2 DEF LeaveOther, IsScope
  <2> QED
    BY <2>1, NoPopKeeps
<1>3. CASE LeaveRef_obj
  <2>1. /\ walk # <<>> /\ Ascend /\ UNCHANGED <<instStack, inHierarchy>>
        /\ Kind(Top.object) \in References
    BY <1>3 DEF LeaveRef_obj, Leaves
  <2>2. ~ IsScope(Top.object)
    BY <2>1 DEF IsScope, References, Scopes, Blocks, NamedBlocks
  <2> QED
    BY <2>1, <2>2, NoPopKeeps
<1> QED
  BY <1>1, <1>2, <1>3

\* Scopes that are left, but for modules.
LEMMA LeaveKeeps ==
  ASSUME Inv, NEW kinds, Leave(kinds)
  PROVE  Inv'
<1>1. /\ walk # <<>> /\ Ascend /\ inHierarchy' = inHierarchy
      /\ instStack' = IF IsOnTop(Top.object) THEN Front(instStack) ELSE instStack
  BY DEF Leave, Leaves
<1>2. IsOnTop(Top.object) <=> IsScope(Top.object)
  BY <1>1, TopIsItsEntry
<1>3. CASE IsScope(Top.object)
  <2>1. \A i \in 1 .. Len(instStack) - 1 :
          Kind(instStack[i].object) = "module_inst" => inHierarchy'
    <3>1. Len(instStack) \in Nat /\ DOMAIN instStack = 1 .. Len(instStack)
      BY HeightFacts
    <3> QED
      BY <1>1, <3>1 DEF Inv, StackFollowsWalk
  <2> QED
    BY <1>1, <1>2, <1>3, <2>1, PopKeeps
<1>4. CASE ~ IsScope(Top.object)
  BY <1>1, <1>2, <1>4, NoPopKeeps
<1> QED
  BY <1>3, <1>4

\* A module instance that is left was in the hierarchy, which goes on while there
\* is anything around it; a definition was not on the stack.
LEMMA LeaveModuleKeeps ==
  ASSUME Inv, LeaveModule_inst
  PROVE  Inv'
<1> DEFINE pops == inHierarchy /\ IsOnTop(Top.object)
<1>1. /\ walk # <<>> /\ Ascend /\ Kind(Top.object) = "module_inst"
      /\ pops => instStack' = Front(instStack) /\ inHierarchy' = (Len(instStack) > 1)
      /\ ~ pops => UNCHANGED <<instStack, inHierarchy>>
  BY DEF LeaveModule_inst, Leaves
<1>2. IsOnTop(Top.object) <=> IsScope(Top.object)
  BY <1>1, TopIsItsEntry
<1>3. Len(instStack) \in Nat /\ DOMAIN instStack = 1 .. Len(instStack)
  BY HeightFacts
<1>4. CASE IsScope(Top.object)
  <2>1. instStack # <<>> /\ Last(instStack).object = Top.object
    BY <1>2, <1>4 DEF IsOnTop
  <2>2. Len(instStack) \in DOMAIN instStack /\ instStack[Len(instStack)].object = Top.object
    <3>1. PICK S : instStack \in Seq(S)
      BY DEF Inv, EntriesInv
    <3> QED
      BY <2>1, <3>1 DEF Last
  <2>3. inHierarchy
    BY <1>1, <2>2 DEF Inv, StackFollowsWalk
  <2>4. instStack' = Front(instStack) /\ inHierarchy' = (Len(instStack) > 1)
    BY <1>1, <1>2, <1>4, <2>3
  <2>5. \A i \in 1 .. Len(instStack) - 1 :
          Kind(instStack[i].object) = "module_inst" => inHierarchy'
    <3> DEFINE h == Len(instStack)
    <3>1. h \in Nat /\ inHierarchy' = (h > 1)
      BY <1>3, <2>4
    <3> HIDE DEF h
    <3>2. \A i \in 1 .. h - 1 : h > 1
      BY <3>1
    <3>3. \A i \in 1 .. h - 1 : inHierarchy'
      BY <3>1, <3>2, Zenon
    <3> QED
      BY <3>3 DEF h
  <2> QED
    BY <1>1, <1>4, <2>4, <2>5, PopKeeps
<1>5. CASE ~ IsScope(Top.object)
  BY <1>1, <1>2, <1>5, NoPopKeeps
<1> QED
  BY <1>4, <1>5

\* Nothing happens.
LEMMA StutterKeeps ==
  ASSUME Inv, UNCHANGED vars
  PROVE  Inv'
<1> DEFINE n == Len(walk)
           before == Places
<1>1. UNCHANGED <<design, walk, instStack, inHierarchy, ignoreLast>>
  BY DEF vars
<1>2. WalkInv'
  BY <1>1 DEF Inv, WalkInv, IsFrame
<1>3. Places' = before
  BY <1>1, PlacesAfter DEF Places
<1>4. /\ EntriesInv'
      /\ \A i \in 1 .. Len(instStack) : Kind(instStack[i].object) = "module_inst" => inHierarchy'
  BY <1>1, KeptEntries
<1>5. /\ Len(instStack) = Counted(before, n) /\ DOMAIN walk = 1 .. n
      /\ \A k \in 1 .. n : k \in before =>
           instStack[Counted(before, k)].object = walk[k].object
  BY HeightFacts
<1>6. ignoreLast' => \E k \in 1 .. n : walk[k].highConn
  BY <1>1, <1>5 DEF Inv, StackFollowsWalk
<1> HIDE DEF before
<1> QED
  BY <1>1, <1>2, <1>3, <1>4, <1>5, <1>6, StackFollowsAfter

\* Every handler keeps the invariant.
LEMMA StepKeeps ==
  ASSUME Inv, [Next]_vars
  PROVE  Inv'
<1>1. CASE UNCHANGED vars
  BY <1>1, StutterKeeps
<1>2. CASE EnterDefinition \/ EnterModule_inst \/ EnterInterface_inst
  BY <1>2, EnterInstanceKeeps
<1>3. CASE EnterPackage \/ EnterClass_defn \/ EnterTask_func \/ EnterFor_stmt
           \/ EnterForeach_stmt \/ EnterBegin \/ EnterFork_stmt \/ EnterGen_scope
           \/ EnterMethod_func_call
  <2> DEFINE plain == {"package", "class_defn", "task_func", "for_stmt", "foreach_stmt",
                       "begin", "fork_stmt", "gen_scope", "method_func_call"}
  <2>1. \A k \in plain : {k} \subseteq Scopes \ {"module_inst", "interface_inst"}
    BY DEF Scopes, Blocks
  <2>2. \E k \in plain : \E nets, params, mods : Enter({k}, nets, params, mods)
    BY <1>3 DEF EnterPackage, EnterClass_defn, EnterTask_func, EnterFor_stmt,
                EnterForeach_stmt, EnterBegin, EnterFork_stmt, EnterGen_scope,
                EnterMethod_func_call
  <2> HIDE DEF plain
  <2> QED
    BY <2>1, <2>2, EnterKeeps
<1>4. CASE EnterNamed_begin \/ EnterNamed_fork
  <2>1. \E k \in NamedBlocks : EnterNamed({k})
    BY <1>4 DEF EnterNamed_begin, EnterNamed_fork, NamedBlocks
  <2> QED
    BY <2>1, EnterNamedKeeps
<1>5. CASE EnterOther \/ LeaveOther \/ LeaveRef_obj
  BY <1>5, OtherKeeps
<1>6. CASE EndList
  BY <1>6, EndListKeeps
<1>7. CASE LeaveModule_inst
  BY <1>7, LeaveModuleKeeps
<1>8. CASE LeaveInterface_inst \/ LeavePackage \/ LeaveClass_defn \/ LeaveTask_func
           \/ LeaveFor_stmt \/ LeaveForeach_stmt \/ LeaveBegin \/ LeaveNamed_begin
           \/ LeaveFork_stmt \/ LeaveNamed_fork \/ LeaveGen_scope \/ LeaveMethod_func_call
  <2>1. \E kinds : Leave(kinds)
    BY <1>8 DEF LeaveInterface_inst, LeavePackage, LeaveClass_defn, LeaveTask_func,
                LeaveFor_stmt, LeaveForeach_stmt, LeaveBegin, LeaveNamed_begin,
                LeaveFork_stmt, LeaveNamed_fork, LeaveGen_scope, LeaveMethod_func_call
  <2> QED
    BY <2>1, LeaveKeeps
<1> QED
  BY <1>1, <1>2, <1>3, <1>4, <1>5, <1>6, <1>7, <1>8 DEF Next

\* Whatever the design, and on whichever way the walk comes to an object, also along
\* references and types and more than once: instStack_ has one entry for each
\* scope the walk is in, in their order, so that a leave handler pops what the enter
\* handler of the same visit has pushed; within a module inHierarchy_ is set; and
\* ignoreLastInstance_ is set only while the walk is in a high connection.
THEOREM StackIsWalk == Spec => []StackFollowsWalk
<1>1. Init => Inv
  BY StartsEmpty
<1>2. Inv /\ [Next]_vars => Inv'
  BY StepKeeps
<1>3. Inv => StackFollowsWalk
  BY DEF Inv
<1> QED
  BY <1>1, <1>2, <1>3, PTL DEF Spec
=============================================================================
