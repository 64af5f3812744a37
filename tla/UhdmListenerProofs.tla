------------------------ MODULE UhdmListenerProofs ------------------------
(***************************************************************************)
(* Proofs about the traversal, for any set of objects, any graph and any   *)
(* number of fields.  The inductive invariant says what is left to do: a   *)
(* field of a visited object leads to a visited object unless an           *)
(* activation for that object has yet to come to it.                       *)
(***************************************************************************)
EXTENDS UhdmListener, CommonLemmas, SequenceTheorems, FiniteSetTheorems

Awaited(o, k) ==
  \E i \in 1 .. Len(callstack) :
    callstack[i].object = o /\ callstack[i].next <= k

Explored ==
  \A o \in visited, k \in Field :
    field[o][k] \in visited \cup {Null} \/ Awaited(o, k)

IInv ==
  /\ TypeOK
  /\ visited \subseteq Reached(Graph, designs)
  /\ designs \ toListen \subseteq visited
  /\ \A i \in 1 .. Len(callstack) : callstack[i].object \in visited
  /\ Explored
  /\ CallstackIsPath

-----------------------------------------------------------------------------
\* The activations without the innermost one.
LEMMA BelowProperties ==
  ASSUME callstack \in Seq(Frame), callstack # <<>>
  PROVE  /\ Len(callstack) \in Nat \ {0}
         /\ Top \in Frame
         /\ Below \in Seq(Frame)
         /\ Len(Below) = Len(callstack) - 1
         /\ \A i \in 1 .. Len(callstack) - 1 : Below[i] = callstack[i]
<1>1. Len(callstack) \in Nat \ {0}
  BY EmptySeq, LenProperties
<1>2. Top \in Frame
  BY <1>1, ElementOfSeq DEF Top
<1>3. QED
  BY <1>1, <1>2, SubSeqProperties DEF Below

\* The innermost activation moves on to its next field, the others stay.
LEMMA AdvancedProperties ==
  ASSUME callstack \in Seq(Frame), callstack # <<>>, NumFields \in Nat,
         Top.next \in Field
  PROVE  /\ Advanced \in Seq(Frame)
         /\ Len(Advanced) = Len(callstack)
         /\ \A i \in 1 .. Len(callstack) - 1 : Advanced[i] = callstack[i]
         /\ Advanced[Len(callstack)].object = Top.object
         /\ Advanced[Len(callstack)].next = Top.next + 1
<1> DEFINE next == [Top EXCEPT !.next = @ + 1]
<1>1. next \in Frame /\ next.object = Top.object /\ next.next = Top.next + 1
  <2>1. Top \in Frame
    BY BelowProperties
  <2>2. Top.next + 1 \in 1 .. NumFields + 1
    BY DEF Field
  <2>3. QED
    BY <2>1, <2>2 DEF Frame
<1>2. Advanced = Append(Below, next)
  BY DEF Advanced
<1> HIDE DEF next
<1>3. /\ Len(callstack) \in Nat \ {0}
      /\ Below \in Seq(Frame)
      /\ Len(Below) = Len(callstack) - 1
      /\ \A i \in 1 .. Len(callstack) - 1 : Below[i] = callstack[i]
  BY BelowProperties
<1>4. /\ Advanced \in Seq(Frame)
      /\ Len(Advanced) = Len(Below) + 1
      /\ \A i \in 1 .. Len(Below) : Advanced[i] = Below[i]
      /\ Advanced[Len(Below) + 1] = next
  BY <1>1, <1>2, <1>3, AppendProperties
<1>5. Len(Below) + 1 = Len(callstack)
  BY <1>3
<1>6. QED
  BY <1>1, <1>3, <1>4, <1>5

\* The graph is over all objects, and a field leads where it says.
LEMMA GraphProperties ==
  ASSUME TypeOK
  PROVE  /\ DOMAIN Graph = Object
         /\ \A o \in Object, k \in Field :
              field[o][k] # Null => field[o][k] \in Graph[o]
         /\ \A o \in Object : Graph[o] \subseteq Object
BY DEF Graph, TypeOK

\* Counting one more call keeps the type of the counts.
LEMMA CountType ==
  ASSUME NEW c \in [Object -> Nat], NEW o \in Object
  PROVE  Count(c, o) \in [Object -> Nat]
BY DEF Count

-----------------------------------------------------------------------------
\* The invariant holds at the start.
LEMMA InitIInv == Init => IInv
<1> SUFFICES ASSUME Init PROVE IInv
  OBVIOUS
<1>1. TypeOK
  BY EmptySeq DEF Init, TypeOK
<1>2. QED
  BY <1>1 DEF Init, IInv, Explored, CallstackIsPath

\* What listenX does to the visited objects and the stack, stated for the two
\* places that call it: stack is what the new activation is put on.
LEMMA ListenStep ==
  ASSUME IInv, NEW o \in Object, NEW stack \in Seq(Frame), NEW any \in BOOLEAN,
         Listen(o, stack, any), toListen' \subseteq toListen, NumFields \in Nat
  PROVE  /\ TypeOK'
         /\ Graph' = Graph
         /\ visited' = visited \cup {o}
         /\ Len(callstack') = Len(stack) + 1
         /\ \A i \in 1 .. Len(stack) : callstack'[i] = stack[i]
         /\ callstack'[Len(stack) + 1].object = o
         /\ o \notin visited => callstack'[Len(stack) + 1].next = 1
<1> DEFINE new == [object |-> o, next |-> FirstField(o), any |-> any]
<1>1. new \in Frame /\ new.object = o /\ (o \notin visited => new.next = 1)
  BY DEF Frame, FirstField
<1>2. callstack' = Append(stack, new)
  BY DEF Listen
<1> HIDE DEF new
<1>3. /\ callstack' \in Seq(Frame)
      /\ Len(callstack') = Len(stack) + 1
      /\ \A i \in 1 .. Len(stack) : callstack'[i] = stack[i]
      /\ callstack'[Len(stack) + 1] = new
  BY <1>1, <1>2, AppendProperties
<1>4. \A c \in {entered', left', enteredAny', leftAny'} : c \in [Object -> Nat]
  <2>1. \A c \in {entered, left, enteredAny, leftAny} : c \in [Object -> Nat]
    BY DEF IInv, TypeOK
  <2>2. Count(entered, o) \in [Object -> Nat] /\ Count(enteredAny, o) \in [Object -> Nat]
    BY <2>1, CountType
  <2>3. /\ entered' = Count(entered, o)
        /\ enteredAny' \in {enteredAny, Count(enteredAny, o)}
        /\ left' = left /\ leftAny' = leftAny
    BY DEF Listen
  <2>4. QED
    BY <2>1, <2>2, <2>3
<1>5. TypeOK'
  BY <1>3, <1>4 DEF IInv, TypeOK, Listen
<1>6. QED
  BY <1>1, <1>3, <1>5 DEF Listen, Graph

\* A new activation is for an object that is reached and leaves nothing open.
LEMMA ListenDesignStep ==
  ASSUME IInv, NEW d \in Object, ListenDesign(d), NumFields \in Nat
  PROVE  IInv'
<1>1. <<>> \in Seq(Frame) /\ Len(<<>>) = 0
  BY EmptySeq
<1> DEFINE none == <<>>
<1>2. none \in Seq(Frame) /\ Len(none) = 0
  BY <1>1
<1>3. Listen(d, none, FALSE) /\ toListen' \subseteq toListen /\ FALSE \in BOOLEAN
  BY DEF ListenDesign
<1> HIDE DEF none
<1>4. /\ TypeOK' /\ Graph' = Graph /\ visited' = visited \cup {d}
      /\ Len(callstack') = 1
      /\ callstack'[1].object = d
      /\ d \notin visited => callstack'[1].next = 1
  <2>1. Len(callstack') = Len(none) + 1
    BY <1>2, <1>3, ListenStep
  <2>2. /\ TypeOK' /\ Graph' = Graph /\ visited' = visited \cup {d}
        /\ callstack'[Len(none) + 1].object = d
        /\ d \notin visited => callstack'[Len(none) + 1].next = 1
    BY <1>2, <1>3, ListenStep
  <2>3. Len(none) + 1 = 1
    BY <1>2
  <2>4. QED
    BY <2>1, <2>2, <2>3
<1>5. d \in designs /\ designs' = designs /\ field' = field /\ callstack = <<>>
      /\ toListen' = toListen \ {d}
  BY DEF ListenDesign, Listen, IInv, TypeOK
<1>6. d \in Reached(Graph, designs)
  BY <1>5, ReachedHasRoots, GraphProperties DEF IInv
<1>7. Explored'
  <2>1. SUFFICES ASSUME NEW o \in visited', NEW k \in Field
                 PROVE  field[o][k] \in visited' \cup {Null} \/ Awaited(o, k)'
    BY <1>5 DEF Explored
  <2>2. CASE o \in visited
    BY <1>4, <1>5, <2>2 DEF IInv, Explored, Awaited
  <2>3. CASE o = d /\ d \notin visited
    BY <1>4, <2>3 DEF Awaited, Field
  <2>4. QED
    BY <1>4, <2>2, <2>3
<1>8. CallstackIsPath'
  BY <1>4, <1>5 DEF CallstackIsPath
<1>9. QED
  BY <1>4, <1>5, <1>6, <1>7, <1>8 DEF IInv

\* Following a reference keeps it.
LEMMA FollowStep ==
  ASSUME IInv, Follow, NumFields \in Nat
  PROVE  IInv'
<1> DEFINE n == Len(callstack)
           p == Top.object
           k == Top.next
           t == field[p][k]
<1>1. /\ callstack \in Seq(Frame) /\ callstack # <<>> /\ k \in Field
      /\ t # Null /\ Listen(t, Advanced, t \notin visited)
      /\ toListen' = toListen
  BY DEF Follow, IInv, TypeOK
<1>2. n \in Nat \ {0} /\ Top \in Frame /\ p \in Object
  BY <1>1, BelowProperties DEF Frame
<1>3. p \in visited
  BY <1>2 DEF IInv, Top
<1>4. t \in Object /\ t \in Graph[p]
  BY <1>1, <1>2, GraphProperties DEF IInv
<1>5. /\ Advanced \in Seq(Frame) /\ Len(Advanced) = n
      /\ \A i \in 1 .. n - 1 : Advanced[i] = callstack[i]
      /\ Advanced[n].object = p /\ Advanced[n].next = k + 1
  BY <1>1, AdvancedProperties
<1>6. /\ TypeOK' /\ Graph' = Graph /\ visited' = visited \cup {t}
      /\ Len(callstack') = n + 1
      /\ \A i \in 1 .. n : callstack'[i] = Advanced[i]
      /\ callstack'[n + 1].object = t
      /\ t \notin visited => callstack'[n + 1].next = 1
  <2> HIDE DEF t, n
  <2>1. (t \notin visited) \in BOOLEAN /\ toListen' \subseteq toListen
    BY <1>1
  <2>2. QED
    BY <1>1, <1>4, <1>5, <2>1, ListenStep
<1>7. designs' = designs /\ field' = field
  BY <1>1 DEF Listen
<1> HIDE DEF n, p, k, t
<1>8. t \in Reached(Graph, designs)
  <2>1. p \in Reached(Graph, designs) /\ t \in DOMAIN Graph
    BY <1>3, <1>4, GraphProperties DEF IInv
  <2>2. QED
    BY <1>4, <2>1, ReachedIsClosed DEF IsClosed
<1>9. Explored'
  <2>1. SUFFICES ASSUME NEW o \in visited', NEW j \in Field
                 PROVE  field[o][j] \in visited' \cup {Null} \/ Awaited(o, j)'
    BY <1>7 DEF Explored
  <2>2. CASE o = t /\ t \notin visited
    BY <1>2, <1>6, <2>2 DEF Awaited, Field
  <2>3. CASE o \in visited
    <3>1. CASE field[o][j] \in visited \cup {Null}
      BY <1>6, <3>1
    <3>2. CASE Awaited(o, j)
      <4>1. PICK i \in 1 .. n : callstack[i].object = o /\ callstack[i].next <= j
        BY <3>2 DEF Awaited, n
      <4>2. CASE i \in 1 .. n - 1
        <5>1. callstack'[i] = callstack[i] /\ i \in 1 .. Len(callstack')
          BY <1>2, <1>5, <1>6, <4>2
        <5>2. QED
          BY <4>1, <5>1 DEF Awaited
      <4>3. CASE i = n
        <5>1. o = p /\ k <= j
          BY <4>1, <4>3 DEF Top, n, p, k
        <5>2. CASE j = k
          BY <1>6, <5>1, <5>2 DEF t
        <5>3. CASE k + 1 <= j
          <6>1. callstack'[n].object = o /\ callstack'[n].next <= j
                /\ n \in 1 .. Len(callstack')
            BY <1>2, <1>5, <1>6, <5>1, <5>3
          <6>2. QED
            BY <6>1 DEF Awaited
        <5>4. QED
          BY <1>1, <5>1, <5>2, <5>3 DEF Field
      <4>4. QED
        BY <1>2, <4>2, <4>3
    <3>3. QED
      BY <2>3, <3>1, <3>2 DEF IInv, Explored
  <2>4. QED
    BY <1>6, <2>2, <2>3
<1>10. \A i \in 1 .. n : callstack'[i].object = callstack[i].object
  BY <1>2, <1>5, <1>6 DEF Top, p, n
<1>11. \A i \in 1 .. Len(callstack') : callstack'[i].object \in visited'
  BY <1>2, <1>6, <1>10 DEF IInv, n
<1>12. CallstackIsPath'
  <2>1. SUFFICES ASSUME NEW i \in 1 .. Len(callstack')
                 PROVE  IF i = 1 THEN callstack'[i].object \in designs
                        ELSE callstack'[i].object \in Graph[callstack'[i - 1].object]
    BY <1>6, <1>7 DEF CallstackIsPath
  <2>2. CASE i \in 1 .. n
    <3>1. i # 1 => i - 1 \in 1 .. n
      BY <1>2, <2>2
    <3>2. QED
      BY <1>10, <2>2, <3>1 DEF IInv, CallstackIsPath, n
  <2>3. CASE i = n + 1
    <3>1. callstack'[n].object = p /\ i # 1 /\ i - 1 = n
      BY <1>2, <1>5, <1>6, <2>3
    <3>2. QED
      BY <1>4, <1>6, <2>3, <3>1
  <2>4. QED
    BY <1>2, <1>6, <2>2, <2>3
<1>13. QED
  BY <1>1, <1>6, <1>7, <1>8, <1>9, <1>11, <1>12 DEF IInv

\* A field that is nullptr leads nowhere.
LEMMA SkipNullStep ==
  ASSUME IInv, SkipNull, NumFields \in Nat
  PROVE  IInv'
<1> DEFINE n == Len(callstack)
           p == Top.object
           k == Top.next
<1>1. /\ callstack \in Seq(Frame) /\ callstack # <<>> /\ k \in Field
      /\ field[p][k] = Null /\ callstack' = Advanced
      /\ field' = field /\ designs' = designs /\ toListen' = toListen
      /\ visited' = visited
  BY DEF SkipNull, IInv, TypeOK
<1>2. n \in Nat \ {0}
  BY <1>1, BelowProperties
<1>3. /\ callstack' \in Seq(Frame) /\ Len(callstack') = n
      /\ \A i \in 1 .. n - 1 : callstack'[i] = callstack[i]
      /\ callstack'[n].object = p /\ callstack'[n].next = k + 1
  BY <1>1, AdvancedProperties
<1>4. p = callstack[n].object /\ k = callstack[n].next
  BY DEF Top
<1>5. TypeOK'
  BY <1>1, <1>3 DEF IInv, TypeOK, SkipNull, callbacks
<1>6. Graph' = Graph
  BY <1>1 DEF Graph
<1> HIDE DEF n, p, k
<1>7. \A i \in 1 .. n : callstack'[i].object = callstack[i].object
  BY <1>2, <1>3, <1>4
<1>8. Explored'
  <2>1. SUFFICES ASSUME NEW o \in visited, NEW j \in Field,
                        field[o][j] \notin visited \cup {Null}
                 PROVE  Awaited(o, j)'
    BY <1>1 DEF Explored
  <2>2. PICK i \in 1 .. n : callstack[i].object = o /\ callstack[i].next <= j
    BY <2>1 DEF IInv, Explored, Awaited, n
  <2>3. CASE i \in 1 .. n - 1
    BY <1>2, <1>3, <2>2, <2>3 DEF Awaited
  <2>4. CASE i = n
    <3>1. k # j
      BY <1>1, <1>4, <2>1, <2>2, <2>4
    <3>2. k + 1 <= j
      BY <1>1, <1>4, <2>2, <2>4, <3>1 DEF Field
    <3>3. QED
      BY <1>2, <1>3, <1>4, <2>2, <2>4, <3>2 DEF Awaited
  <2>5. QED
    BY <1>2, <2>3, <2>4
<1>9. CallstackIsPath'
  <2>1. SUFFICES ASSUME NEW i \in 1 .. n
                 PROVE  IF i = 1 THEN callstack'[i].object \in designs
                        ELSE callstack'[i].object \in Graph[callstack'[i - 1].object]
    BY <1>1, <1>3, <1>6 DEF CallstackIsPath
  <2>2. i # 1 => i - 1 \in 1 .. n
    BY <1>2
  <2>3. QED
    BY <1>7, <2>2 DEF IInv, CallstackIsPath, n
<1>10. QED
  BY <1>1, <1>3, <1>5, <1>6, <1>7, <1>8, <1>9 DEF IInv, n

\* An activation that ends has no field left to follow.
LEMMA LeaveStep ==
  ASSUME IInv, Leave, NumFields \in Nat
  PROVE  IInv'
<1> DEFINE n == Len(callstack)
<1>1. /\ callstack \in Seq(Frame) /\ callstack # <<>>
      /\ Top.next = NumFields + 1 /\ callstack' = Below
      /\ field' = field /\ designs' = designs /\ toListen' = toListen
      /\ visited' = visited
  BY DEF Leave, IInv, TypeOK
<1>2. n \in Nat \ {0} /\ Top \in Frame /\ Top.object \in Object
  BY <1>1, BelowProperties DEF Frame
<1>3. /\ callstack' \in Seq(Frame) /\ Len(callstack') = n - 1
      /\ \A i \in 1 .. n - 1 : callstack'[i] = callstack[i]
  BY <1>1, BelowProperties
<1>4. TypeOK'
  <2>1. \A c \in {entered, left, enteredAny, leftAny} : c \in [Object -> Nat]
    BY DEF IInv, TypeOK
  <2>2. Count(left, Top.object) \in [Object -> Nat]
        /\ Count(leftAny, Top.object) \in [Object -> Nat]
    BY <1>2, <2>1, CountType
  <2>3. /\ entered' = entered /\ enteredAny' = enteredAny
        /\ left' = Count(left, Top.object)
        /\ leftAny' \in {leftAny, Count(leftAny, Top.object)}
    BY DEF Leave
  <2>4. \A c \in {entered', left', enteredAny', leftAny'} : c \in [Object -> Nat]
    BY <2>1, <2>2, <2>3
  <2>5. QED
    BY <1>1, <1>3, <2>4 DEF IInv, TypeOK
<1>5. Graph' = Graph
  BY <1>1 DEF Graph
<1>6. Explored'
  <2>1. SUFFICES ASSUME NEW o \in visited, NEW j \in Field,
                        field[o][j] \notin visited \cup {Null}
                 PROVE  Awaited(o, j)'
    BY <1>1 DEF Explored
  <2>2. PICK i \in 1 .. n : callstack[i].object = o /\ callstack[i].next <= j
    BY <2>1 DEF IInv, Explored, Awaited
  <2>3. i # n
    BY <1>1, <2>2 DEF Top, Field
  <2>4. i \in 1 .. n - 1
    BY <1>2, <2>3
  <2>5. QED
    BY <1>3, <2>2, <2>4 DEF Awaited
<1>7. CallstackIsPath'
  <2>1. SUFFICES ASSUME NEW i \in 1 .. n - 1
                 PROVE  IF i = 1 THEN callstack'[i].object \in designs
                        ELSE callstack'[i].object \in Graph[callstack'[i - 1].object]
    BY <1>1, <1>3, <1>5 DEF CallstackIsPath
  <2>2. i \in 1 .. n /\ (i # 1 => i - 1 \in 1 .. n - 1)
    BY <1>2
  <2>3. QED
    BY <1>3, <2>2 DEF IInv, CallstackIsPath
<1>8. \A i \in 1 .. n - 1 : i \in 1 .. n
  BY <1>2
<1>9. QED
  BY <1>1, <1>3, <1>4, <1>5, <1>6, <1>7, <1>8 DEF IInv

\* So does a step that changes nothing.
LEMMA StutterStep ==
  ASSUME IInv, UNCHANGED vars
  PROVE  IInv'
<1>1. /\ field' = field /\ designs' = designs /\ toListen' = toListen
      /\ callstack' = callstack /\ visited' = visited
      /\ entered' = entered /\ left' = left
      /\ enteredAny' = enteredAny /\ leftAny' = leftAny
  BY DEF vars
<1>2. TypeOK'
  BY <1>1 DEF IInv, TypeOK
<1>3. Graph' = Graph
  BY <1>1 DEF Graph
<1>4. Explored'
  BY <1>1 DEF IInv, Explored, Awaited
<1>5. CallstackIsPath'
  BY <1>1, <1>3 DEF IInv, CallstackIsPath
<1>6. QED
  BY <1>1, <1>2, <1>3, <1>4, <1>5 DEF IInv

\* The inductive invariant holds in every state of the traversal.
THEOREM Invariance == Spec => []IInv
<1>1. ASSUME IInv, [Next]_vars
      PROVE  IInv'
  <2>1. NumFields \in Nat
    BY FieldAssumption
  <2>2. CASE \E d \in Object : ListenDesign(d)
    BY <1>1, <2>1, <2>2, ListenDesignStep
  <2>3. CASE Follow
    BY <1>1, <2>1, <2>3, FollowStep
  <2>4. CASE SkipNull
    BY <1>1, <2>1, <2>4, SkipNullStep
  <2>5. CASE Leave
    BY <1>1, <2>1, <2>5, LeaveStep
  <2>6. CASE UNCHANGED vars
    BY <1>1, <2>6, StutterStep
  <2>7. QED
    BY <1>1, <2>2, <2>3, <2>4, <2>5, <2>6 DEF Next
<1>2. QED
  BY InitIInv, <1>1, PTL DEF Spec

\* Type correctness of the traversal.
THEOREM TypeCorrect == Spec => []TypeOK
<1>1. IInv => TypeOK
  BY DEF IInv
<1>2. QED
  BY Invariance, <1>1, PTL

\* The callstack that listeners inspect is always a chain of references that
\* starts at a design, for every graph.
THEOREM PathOnStack == Spec => []CallstackIsPath
<1>1. IInv => CallstackIsPath
  BY DEF IInv
<1>2. QED
  BY Invariance, <1>1, PTL

\* A finished traversal has no activation to wait for, so what it has visited
\* is closed under the references and contains the designs: it is exactly what
\* the designs reach, and didVisitAll tells whether that is everything.
LEMMA FinishedVisits ==
  ASSUME IInv PROVE VisitsTheReachable
<1>1. SUFFICES ASSUME Finished
               PROVE  visited = Reached(Graph, designs)
  <2>1. visited \subseteq Object
    BY DEF IInv, TypeOK
  <2>2. QED
    BY <1>1, <2>1 DEF VisitsTheReachable, DidVisitAll
<1>2. DOMAIN Graph = Object /\ visited \subseteq Object /\ designs \subseteq visited
  BY <1>1, GraphProperties DEF IInv, TypeOK, Finished
<1>3. IsClosed(Graph, visited)
  <2>1. SUFFICES ASSUME NEW o \in visited, NEW t \in Graph[o]
                 PROVE  t \in visited
    BY DEF IsClosed
  <2>2. PICK k \in Field : t = field[o][k] /\ t # Null
    BY <1>2, <2>1 DEF Graph
  <2>3. Len(callstack) = 0
    BY <1>1, EmptySeq DEF Finished
  <2>4. ~ Awaited(o, k)
    BY <2>3 DEF Awaited
  <2>5. QED
    BY <2>2, <2>4 DEF IInv, Explored
<1>4. Reached(Graph, designs) \subseteq visited
  BY <1>2, <1>3, ReachedIsLeast
<1>5. QED
  BY <1>4 DEF IInv

\* The traversal visits exactly what the designs reach, for every graph.
THEOREM VisitsReachable == Spec => []VisitsTheReachable
<1>1. IInv => VisitsTheReachable
  BY FinishedVisits
<1>2. QED
  BY Invariance, <1>1, PTL

-----------------------------------------------------------------------------
(***************************************************************************)
(* Proofs about what the traversal reports to its listeners and how deep   *)
(* it recurses, for any finite set of objects, any graph over it and any   *)
(* number of fields.  They rest on the callstack: an object has one        *)
(* activation that follows its fields, and the call of enterX for a        *)
(* reference is made when that activation moves past it.                   *)
(***************************************************************************)
\* Only the innermost activation can be a revisit, which follows no field.
OnlyTopRevisits ==
  \A i, j \in 1 .. Len(callstack) :
    i < j /\ callstack[i].object = callstack[j].object =>
      j = Len(callstack) /\ callstack[j].next = NumFields + 1

\* An activation that listenAny will call leaveAny after.
InAny(o) ==
  \E i \in 1 .. Len(callstack) : callstack[i].object = o /\ callstack[i].any

\* There is one such activation at most for an object, enterAny has been called
\* for it and leaveAny has not; for other objects both were called, or neither.
AnyPaired ==
  /\ \A i, j \in 1 .. Len(callstack) :
       callstack[i].object = callstack[j].object
         /\ callstack[i].any /\ callstack[j].any => i = j
  /\ \A o \in Object :
       /\ enteredAny[o] \in {0, 1}
       /\ enteredAny[o] = 1 => o \in visited
       /\ o \in visited \ designs => enteredAny[o] = 1
       /\ InAny(o) => enteredAny[o] = 1 /\ leftAny[o] = 0
       /\ ~ InAny(o) => leftAny[o] = enteredAny[o]

\* The references to o that have been followed.
Followed(o) ==
  {r \in visited \X Field : field[r[1]][r[2]] = o /\ ~ Awaited(r[1], r[2])}

Activations(o) == {i \in 1 .. Len(callstack) : callstack[i].object = o}

\* enterX has been called for every reference followed so far and for every
\* design begun, leaveX for all but the calls that are still active.
CallsCounted ==
  \A o \in Object :
    /\ entered[o] = Cardinality(Followed(o))
                      + Cardinality((designs \ toListen) \cap {o})
    /\ entered[o] = left[o] + Cardinality(Activations(o))

ReportInv == IInv /\ OnlyTopRevisits /\ AnyPaired /\ CallsCounted

-----------------------------------------------------------------------------
\* listenDesign starts on an empty callstack.
LEMMA DesignShape ==
  ASSUME IInv, NEW d \in Object, ListenDesign(d)
  PROVE  /\ Len(callstack) = 0 /\ Len(callstack') = 1
         /\ callstack'[1].object = d /\ callstack'[1].next = FirstField(d)
         /\ ~ callstack'[1].any
         /\ visited' = visited \cup {d}
         /\ d \in toListen /\ toListen' = toListen \ {d}
         /\ field' = field /\ designs' = designs
         /\ entered' = Count(entered, d) /\ left' = left
         /\ enteredAny' = enteredAny /\ leftAny' = leftAny
<1>1. /\ callstack = <<>>
      /\ callstack' = Append(<<>>, [object |-> d, next |-> FirstField(d), any |-> FALSE])
  BY DEF ListenDesign, Listen
<1>2. QED
  BY <1>1 DEF ListenDesign, Listen

\* listenAny moves the innermost activation on and puts one on top of it.
LEMMA FollowShape ==
  ASSUME IInv, Follow
  PROVE  LET n == Len(callstack)
             t == field[Top.object][Top.next]
         IN  /\ n \in Nat \ {0} /\ callstack[n] = Top
             /\ Top.object \in visited /\ Top.next \in Field /\ t \in Object
             /\ Len(callstack') = n + 1
             /\ \A i \in 1 .. n - 1 : callstack'[i] = callstack[i]
             /\ callstack'[n].object = Top.object
             /\ callstack'[n].next = Top.next + 1
             /\ callstack'[n].any = Top.any
             /\ callstack'[n + 1] = [object |-> t, next |-> FirstField(t),
                                     any |-> t \notin visited]
             /\ visited' = visited \cup {t}
             /\ toListen' = toListen /\ field' = field /\ designs' = designs
             /\ entered' = Count(entered, t) /\ left' = left
             /\ enteredAny' = IF t \notin visited THEN Count(enteredAny, t)
                                                  ELSE enteredAny
             /\ leftAny' = leftAny
<1> DEFINE n == Len(callstack)
           t == field[Top.object][Top.next]
           new == [object |-> t, next |-> FirstField(t), any |-> t \notin visited]
<1>1. /\ callstack \in Seq(Frame) /\ callstack # <<>> /\ Top.next \in Field
      /\ NumFields \in Nat
      /\ t # Null /\ callstack' = Append(Advanced, new)
      /\ visited' = visited \cup {t}
      /\ toListen' = toListen /\ field' = field /\ designs' = designs
      /\ entered' = Count(entered, t) /\ left' = left
      /\ enteredAny' = IF t \notin visited THEN Count(enteredAny, t) ELSE enteredAny
      /\ leftAny' = leftAny
  BY FieldAssumption DEF Follow, Listen, IInv, TypeOK
<1>2. n \in Nat \ {0} /\ Top \in Frame /\ callstack[n] = Top /\ Top.object \in Object
  BY <1>1, BelowProperties DEF Frame, Top
<1>3. Top.object \in visited
  BY <1>2 DEF IInv
<1>4. t \in Object
  BY <1>1, <1>2, GraphProperties DEF IInv
<1>5. new \in Frame
  BY <1>1, <1>4 DEF Frame, FirstField
<1>6. /\ Advanced \in Seq(Frame) /\ Len(Advanced) = n
      /\ \A i \in 1 .. n - 1 : Advanced[i] = callstack[i]
      /\ Advanced[n].object = Top.object /\ Advanced[n].next = Top.next + 1
  BY <1>1, AdvancedProperties
<1>7. Advanced[n].any = Top.any
  <2>1. Below \in Seq(Frame) /\ Len(Below) + 1 = n
    BY <1>1, <1>2, BelowProperties
  <2>2. Advanced[n] = [Top EXCEPT !.next = @ + 1]
    BY <2>1, <1>2 DEF Advanced
  <2>3. QED
    BY <1>2, <2>2 DEF Frame
<1> HIDE DEF n, new, t
<1>8. /\ Len(callstack') = n + 1
      /\ \A i \in 1 .. n : callstack'[i] = Advanced[i]
      /\ callstack'[n + 1] = new
  BY <1>1, <1>5, <1>6, AppendProperties
<1>9. /\ \A i \in 1 .. n - 1 : callstack'[i] = callstack[i]
      /\ callstack'[n].object = Top.object /\ callstack'[n].next = Top.next + 1
      /\ callstack'[n].any = Top.any
  BY <1>2, <1>6, <1>7, <1>8
<1>10. QED
  BY <1>1, <1>2, <1>3, <1>4, <1>8, <1>9 DEF n, new, t

\* What skipping a null reference does to the callstack.
LEMMA SkipNullShape ==
  ASSUME IInv, SkipNull
  PROVE  LET n == Len(callstack)
         IN  /\ n \in Nat \ {0} /\ callstack[n] = Top
             /\ Top.object \in visited /\ Top.next \in Field
             /\ field[Top.object][Top.next] = Null
             /\ Len(callstack') = n
             /\ \A i \in 1 .. n - 1 : callstack'[i] = callstack[i]
             /\ callstack'[n].object = Top.object
             /\ callstack'[n].next = Top.next + 1
             /\ callstack'[n].any = Top.any
             /\ visited' = visited
             /\ toListen' = toListen /\ field' = field /\ designs' = designs
             /\ entered' = entered /\ left' = left
             /\ enteredAny' = enteredAny /\ leftAny' = leftAny
<1> DEFINE n == Len(callstack)
<1>1. /\ callstack \in Seq(Frame) /\ callstack # <<>> /\ Top.next \in Field
      /\ NumFields \in Nat /\ callstack' = Advanced
      /\ field[Top.object][Top.next] = Null
      /\ visited' = visited
      /\ toListen' = toListen /\ field' = field /\ designs' = designs
      /\ entered' = entered /\ left' = left
      /\ enteredAny' = enteredAny /\ leftAny' = leftAny
  BY FieldAssumption DEF SkipNull, callbacks, IInv, TypeOK
<1>2. n \in Nat \ {0} /\ Top \in Frame /\ callstack[n] = Top
  BY <1>1, BelowProperties DEF Top
<1>3. Top.object \in visited
  BY <1>2 DEF IInv
<1>4. /\ Len(Advanced) = n
      /\ \A i \in 1 .. n - 1 : Advanced[i] = callstack[i]
      /\ Advanced[n].object = Top.object /\ Advanced[n].next = Top.next + 1
  BY <1>1, AdvancedProperties
<1>5. Advanced[n].any = Top.any
  <2>1. Below \in Seq(Frame) /\ Len(Below) + 1 = n
    BY <1>1, <1>2, BelowProperties
  <2>2. Advanced[n] = [Top EXCEPT !.next = @ + 1]
    BY <2>1, <1>2 DEF Advanced
  <2>3. QED
    BY <1>2, <2>2 DEF Frame
<1>6. QED
  BY <1>1, <1>2, <1>3, <1>4, <1>5

\* What leaving an object does to the callstack.
LEMMA LeaveShape ==
  ASSUME IInv, Leave
  PROVE  LET n == Len(callstack)
         IN  /\ n \in Nat \ {0} /\ callstack[n] = Top
             /\ Top.object \in visited /\ Top.next = NumFields + 1
             /\ Len(callstack') = n - 1
             /\ \A i \in 1 .. n - 1 : callstack'[i] = callstack[i]
             /\ visited' = visited
             /\ toListen' = toListen /\ field' = field /\ designs' = designs
             /\ entered' = entered /\ left' = Count(left, Top.object)
             /\ enteredAny' = enteredAny
             /\ leftAny' = IF Top.any THEN Count(leftAny, Top.object) ELSE leftAny
<1> DEFINE n == Len(callstack)
<1>1. /\ callstack \in Seq(Frame) /\ callstack # <<>>
      /\ Top.next = NumFields + 1 /\ callstack' = Below
      /\ visited' = visited
      /\ toListen' = toListen /\ field' = field /\ designs' = designs
      /\ entered' = entered /\ left' = Count(left, Top.object)
      /\ enteredAny' = enteredAny
      /\ leftAny' = IF Top.any THEN Count(leftAny, Top.object) ELSE leftAny
  BY DEF Leave, IInv, TypeOK
<1>2. n \in Nat \ {0} /\ callstack[n] = Top
  BY <1>1, BelowProperties DEF Top
<1>3. Top.object \in visited
  BY <1>2 DEF IInv
<1>4. Len(Below) = n - 1 /\ \A i \in 1 .. n - 1 : Below[i] = callstack[i]
  BY <1>1, BelowProperties
<1>5. QED
  BY <1>1, <1>2, <1>3, <1>4

-----------------------------------------------------------------------------
(***************************************************************************)
(* The depth of the recursion.                                             *)
(***************************************************************************)
\* A design is entered with an empty callstack: nothing is below it.
LEMMA DesignTop ==
  ASSUME ReportInv, NEW d \in Object, ListenDesign(d)
  PROVE  OnlyTopRevisits'
<1>1. Len(callstack') = 1
  BY DesignShape DEF ReportInv
<1>2. QED
  BY <1>1 DEF OnlyTopRevisits

\* The activation that follows a field is not a revisit, so that no other one
\* is for its object; a new one for a visited object is at its end.
LEMMA FollowTop ==
  ASSUME ReportInv, Follow
  PROVE  OnlyTopRevisits'
<1> DEFINE n == Len(callstack)
           t == field[Top.object][Top.next]
<1>1. /\ n \in Nat \ {0} /\ callstack[n] = Top
      /\ Top.next \in Field /\ t \in Object
      /\ Len(callstack') = n + 1
      /\ \A i \in 1 .. n - 1 : callstack'[i] = callstack[i]
      /\ callstack'[n].object = Top.object
      /\ callstack'[n + 1].object = t /\ callstack'[n + 1].next = FirstField(t)
  BY FollowShape DEF ReportInv
<1>2. \A i, j \in 1 .. n : i < j => callstack[i].object # callstack[j].object
  <2>1. callstack[n].next # NumFields + 1
    BY <1>1, FieldAssumption DEF Field
  <2>2. QED
    BY <2>1 DEF ReportInv, OnlyTopRevisits
<1>3. \A i \in 1 .. n : callstack'[i].object = callstack[i].object
  BY <1>1
<1>4. \A i \in 1 .. n : callstack[i].object \in visited
  BY DEF ReportInv, IInv
<1> HIDE DEF n, t
<1>5. SUFFICES ASSUME NEW i \in 1 .. n + 1, NEW j \in 1 .. n + 1, i < j,
                      callstack'[i].object = callstack'[j].object
               PROVE  j = n + 1 /\ callstack'[j].next = NumFields + 1
  BY <1>1 DEF OnlyTopRevisits
<1>6. j = n + 1 /\ i \in 1 .. n
  BY <1>1, <1>2, <1>3, <1>5
<1>7. t \in visited
  BY <1>1, <1>3, <1>4, <1>5, <1>6
<1>8. QED
  BY <1>1, <1>6, <1>7 DEF FirstField

\* Skipping a null reference leaves revisits on top of the callstack only.
LEMMA SkipNullTop ==
  ASSUME ReportInv, SkipNull
  PROVE  OnlyTopRevisits'
<1> DEFINE n == Len(callstack)
<1>1. /\ n \in Nat \ {0} /\ callstack[n] = Top /\ Top.next \in Field
      /\ Len(callstack') = n
      /\ \A i \in 1 .. n - 1 : callstack'[i] = callstack[i]
      /\ callstack'[n].object = Top.object
  BY SkipNullShape DEF ReportInv
<1>2. \A i, j \in 1 .. n : i < j => callstack[i].object # callstack[j].object
  <2>1. callstack[n].next # NumFields + 1
    BY <1>1, FieldAssumption DEF Field
  <2>2. QED
    BY <2>1 DEF ReportInv, OnlyTopRevisits
<1>3. \A i \in 1 .. n : callstack'[i].object = callstack[i].object
  BY <1>1
<1>4. QED
  BY <1>1, <1>2, <1>3 DEF OnlyTopRevisits

\* So does leaving an object.
LEMMA LeaveTop ==
  ASSUME ReportInv, Leave
  PROVE  OnlyTopRevisits'
<1> DEFINE n == Len(callstack)
<1>1. /\ n \in Nat \ {0} /\ Len(callstack') = n - 1
      /\ \A i \in 1 .. n - 1 : callstack'[i] = callstack[i]
  BY LeaveShape DEF ReportInv
<1>2. QED
  BY <1>1 DEF ReportInv, OnlyTopRevisits

-----------------------------------------------------------------------------
(***************************************************************************)
(* enterAny and leaveAny.                                                  *)
(***************************************************************************)
\* A design is entered without a listenAny around it.
LEMMA DesignAny ==
  ASSUME ReportInv, NEW d \in Object, ListenDesign(d)
  PROVE  AnyPaired'
<1>1. /\ Len(callstack) = 0 /\ Len(callstack') = 1
      /\ callstack'[1].object = d /\ ~ callstack'[1].any
      /\ visited' = visited \cup {d} /\ d \in toListen /\ designs' = designs
      /\ enteredAny' = enteredAny /\ leftAny' = leftAny
  BY DesignShape DEF ReportInv
<1>2. \A o : ~ InAny(o) /\ ~ InAny(o)'
  BY <1>1 DEF InAny
<1>3. d \in designs
  BY <1>1 DEF ReportInv, IInv, TypeOK
<1>4. QED
  BY <1>1, <1>2, <1>3 DEF ReportInv, AnyPaired

\* Following a reference keeps the pairs of enterAny and leaveAny.
LEMMA FollowPairsAny ==
  ASSUME ReportInv, Follow
  PROVE  AnyPaired'
<1> DEFINE n == Len(callstack)
           t == field[Top.object][Top.next]
<1>1. /\ n \in Nat \ {0} /\ callstack[n] = Top /\ t \in Object
      /\ Len(callstack') = n + 1
      /\ \A i \in 1 .. n - 1 : callstack'[i] = callstack[i]
      /\ callstack'[n].object = Top.object /\ callstack'[n].any = Top.any
      /\ callstack'[n + 1].object = t
      /\ callstack'[n + 1].any = (t \notin visited)
      /\ visited' = visited \cup {t} /\ designs' = designs
      /\ enteredAny' = IF t \notin visited THEN Count(enteredAny, t) ELSE enteredAny
      /\ leftAny' = leftAny
  BY FollowShape DEF ReportInv
<1>2. \A i \in 1 .. n : /\ callstack'[i].object = callstack[i].object
                        /\ callstack'[i].any = callstack[i].any
  BY <1>1
<1>3. \A i \in 1 .. n : callstack[i].object \in visited
  BY DEF ReportInv, IInv
<1>4. enteredAny \in [Object -> Nat]
  BY DEF ReportInv, IInv, TypeOK
<1> HIDE DEF t, n
<1>5. \A o \in Object : InAny(o)' <=> InAny(o) \/ (o = t /\ t \notin visited)
  <2>1. SUFFICES ASSUME NEW o \in Object
                 PROVE  InAny(o)' <=> InAny(o) \/ (o = t /\ t \notin visited)
    OBVIOUS
  <2>2. InAny(o)' <=> \/ \E i \in 1 .. n : callstack'[i].object = o /\ callstack'[i].any
                      \/ callstack'[n + 1].object = o /\ callstack'[n + 1].any
    BY <1>1 DEF InAny
  <2>3. QED
    BY <1>1, <1>2, <2>2 DEF InAny, n
<1>6. \A i, j \in 1 .. n + 1 :
        callstack'[i].object = callstack'[j].object
          /\ callstack'[i].any /\ callstack'[j].any => i = j
  <2>1. \A i, j \in 1 .. n :
          callstack'[i].object = callstack'[j].object
            /\ callstack'[i].any /\ callstack'[j].any => i = j
    BY <1>2 DEF ReportInv, AnyPaired, n
  <2>2. \A i \in 1 .. n :
          callstack'[n + 1].any => callstack'[i].object # callstack'[n + 1].object
    BY <1>1, <1>2, <1>3
  <2>3. QED
    BY <1>1, <2>1, <2>2
<1>7. ASSUME NEW o \in Object
      PROVE  /\ enteredAny'[o] \in {0, 1}
             /\ enteredAny'[o] = 1 => o \in visited'
             /\ o \in visited' \ designs' => enteredAny'[o] = 1
             /\ InAny(o)' => enteredAny'[o] = 1 /\ leftAny'[o] = 0
             /\ ~ InAny(o)' => leftAny'[o] = enteredAny'[o]
  <2>1. CASE o = t /\ t \notin visited
    <3>1. ~ InAny(o)
      BY <1>3, <2>1 DEF InAny, n
    <3>2. enteredAny[o] = 0 /\ leftAny[o] = 0
      BY <2>1, <3>1 DEF ReportInv, AnyPaired
    <3>3. enteredAny'[o] = 1
      BY <1>1, <1>4, <2>1, <3>2 DEF Count
    <3>4. QED
      BY <1>1, <1>5, <2>1, <3>2, <3>3
  <2>2. CASE ~ (o = t /\ t \notin visited)
    <3>1. enteredAny'[o] = enteredAny[o] /\ leftAny'[o] = leftAny[o]
      BY <1>1, <1>4, <2>2 DEF Count
    <3>2. /\ InAny(o)' <=> InAny(o)
          /\ o \in visited' <=> o \in visited
      BY <1>1, <1>5, <2>2
    <3>3. QED
      BY <1>1, <3>1, <3>2 DEF ReportInv, AnyPaired
  <2>3. QED
    BY <2>1, <2>2
<1>8. QED
  BY <1>1, <1>6, <1>7 DEF AnyPaired

\* A null reference keeps the pairs of enterAny and leaveAny.
LEMMA SkipNullAny ==
  ASSUME ReportInv, SkipNull
  PROVE  AnyPaired'
<1> DEFINE n == Len(callstack)
<1>1. /\ n \in Nat \ {0} /\ callstack[n] = Top
      /\ Len(callstack') = n
      /\ \A i \in 1 .. n - 1 : callstack'[i] = callstack[i]
      /\ callstack'[n].object = Top.object /\ callstack'[n].any = Top.any
      /\ visited' = visited /\ designs' = designs
      /\ enteredAny' = enteredAny /\ leftAny' = leftAny
  BY SkipNullShape DEF ReportInv
<1>2. \A i \in 1 .. n : /\ callstack'[i].object = callstack[i].object
                        /\ callstack'[i].any = callstack[i].any
  BY <1>1
<1>3. \A o : InAny(o)' <=> InAny(o)
  BY <1>1, <1>2 DEF InAny
<1>4. QED
  BY <1>1, <1>2, <1>3 DEF ReportInv, AnyPaired

\* The activation that leaves is the only one for its object that called
\* enterAny, if it did.
LEMMA LeavePairsAny ==
  ASSUME ReportInv, Leave
  PROVE  AnyPaired'
<1> DEFINE n == Len(callstack)
           p == Top.object
<1>1. /\ n \in Nat \ {0} /\ callstack[n] = Top /\ p \in visited
      /\ Len(callstack') = n - 1
      /\ \A i \in 1 .. n - 1 : callstack'[i] = callstack[i]
      /\ visited' = visited /\ designs' = designs
      /\ enteredAny' = enteredAny
      /\ leftAny' = IF Top.any THEN Count(leftAny, p) ELSE leftAny
  BY LeaveShape DEF ReportInv
<1>2. leftAny \in [Object -> Nat] /\ p \in Object
  BY <1>1 DEF ReportInv, IInv, TypeOK
<1>3. ASSUME NEW o \in Object
      PROVE  IF o = p /\ Top.any
               THEN InAny(o) /\ ~ InAny(o)' /\ leftAny'[o] = leftAny[o] + 1
               ELSE (InAny(o)' <=> InAny(o)) /\ leftAny'[o] = leftAny[o]
  <2>1. InAny(o) <=> \/ \E i \in 1 .. n - 1 : callstack[i].object = o /\ callstack[i].any
                     \/ o = p /\ Top.any
    BY <1>1 DEF InAny
  <2>2. InAny(o)' <=> \E i \in 1 .. n - 1 : callstack[i].object = o /\ callstack[i].any
    BY <1>1 DEF InAny
  <2>3. CASE o = p /\ Top.any
    <3>1. \A i \in 1 .. n - 1 : ~ (callstack[i].object = o /\ callstack[i].any)
      BY <1>1, <2>3 DEF ReportInv, AnyPaired
    <3>2. QED
      BY <1>1, <1>2, <2>1, <2>2, <2>3, <3>1 DEF Count
  <2>4. CASE ~ (o = p /\ Top.any)
    BY <1>1, <1>2, <2>1, <2>2, <2>4 DEF Count
  <2>5. QED
    BY <2>3, <2>4
<1>4. \A i, j \in 1 .. n - 1 :
        callstack'[i].object = callstack'[j].object
          /\ callstack'[i].any /\ callstack'[j].any => i = j
  BY <1>1 DEF ReportInv, AnyPaired
<1>5. ASSUME NEW o \in Object
      PROVE  /\ enteredAny'[o] \in {0, 1}
             /\ enteredAny'[o] = 1 => o \in visited'
             /\ o \in visited' \ designs' => enteredAny'[o] = 1
             /\ InAny(o)' => enteredAny'[o] = 1 /\ leftAny'[o] = 0
             /\ ~ InAny(o)' => leftAny'[o] = enteredAny'[o]
  BY <1>1, <1>3 DEF ReportInv, AnyPaired
<1>6. QED
  BY <1>1, <1>4, <1>5 DEF AnyPaired

-----------------------------------------------------------------------------
(***************************************************************************)
(* The calls of enterX and leaveX.                                         *)
(***************************************************************************)

\* The sets that are counted are finite.
LEMMA FiniteCounts ==
  ASSUME IInv
  PROVE  /\ Len(callstack) \in Nat
         /\ \A o : IsFiniteSet(Followed(o)) /\ IsFiniteSet(Activations(o))
         /\ IsFiniteSet(designs \ toListen)
<1>1. Len(callstack) \in Nat
  BY LenProperties DEF IInv, TypeOK
<1>2. IsFiniteSet(visited) /\ IsFiniteSet(Field)
  <2>1. visited \in SUBSET Object
    BY DEF IInv, TypeOK
  <2>2. QED
    BY <2>1, ObjectAssumption, FieldAssumption, FS_Subset, FS_Interval DEF Field
<1>3. \A o : IsFiniteSet(Followed(o))
  <2>1. IsFiniteSet(visited \X Field)
    BY <1>2, FS_Product
  <2>2. \A o : Followed(o) \in SUBSET (visited \X Field)
    BY DEF Followed
  <2>3. QED
    BY <2>1, <2>2, FS_Subset
<1>4. \A o : IsFiniteSet(Activations(o))
  <2>1. IsFiniteSet(1 .. Len(callstack))
    BY <1>1, FS_Interval
  <2>2. \A o : Activations(o) \in SUBSET (1 .. Len(callstack))
    BY DEF Activations
  <2>3. QED
    BY <2>1, <2>2, FS_Subset
<1>5. IsFiniteSet(designs \ toListen)
  <2>1. designs \ toListen \in SUBSET Object
    BY DEF IInv, TypeOK
  <2>2. QED
    BY <2>1, ObjectAssumption, FS_Subset
<1>6. QED
  BY <1>1, <1>3, <1>4, <1>5

\* A step that leaves the innermost activation as it is, or ends it at its
\* end, or adds one, does not change which references have been followed.
LEMMA DesignFollowed ==
  ASSUME ReportInv, NEW d \in Object, ListenDesign(d), NEW o
  PROVE  Followed(o)' = Followed(o)
<1>1. /\ Len(callstack) = 0 /\ Len(callstack') = 1
      /\ callstack'[1].object = d /\ callstack'[1].next = FirstField(d)
      /\ visited' = visited \cup {d} /\ field' = field
  BY DesignShape DEF ReportInv
<1>2. \A p \in visited, k \in Field : ~ Awaited(p, k)' /\ ~ Awaited(p, k)
  BY <1>1, FieldAssumption DEF Awaited, FirstField, Field
<1>3. d \notin visited => \A k \in Field : Awaited(d, k)'
  BY <1>1 DEF Awaited, FirstField, Field
<1>4. QED
  BY <1>1, <1>2, <1>3 DEF Followed

\* Following a reference adds it to those followed to its target, and to no others.
LEMMA FollowFollowed ==
  ASSUME ReportInv, Follow, NEW o
  PROVE  LET r == <<Top.object, Top.next>>
         IN  /\ r \notin Followed(o)
             /\ Followed(o)' = IF o = field[Top.object][Top.next]
                                 THEN Followed(o) \cup {r} ELSE Followed(o)
<1> DEFINE n == Len(callstack)
           p == Top.object
           k == Top.next
           t == field[p][k]
<1>1. /\ n \in Nat \ {0} /\ callstack[n] = Top
      /\ p \in visited /\ k \in Field /\ t \in Object
      /\ Len(callstack') = n + 1
      /\ \A i \in 1 .. n - 1 : callstack'[i] = callstack[i]
      /\ callstack'[n].object = p /\ callstack'[n].next = k + 1
      /\ callstack'[n + 1].object = t /\ callstack'[n + 1].next = FirstField(t)
      /\ visited' = visited \cup {t} /\ field' = field
  BY FollowShape DEF ReportInv
<1>2. \A i \in 1 .. n - 1 : callstack[i].object # p
  <2>1. callstack[n].next # NumFields + 1 /\ callstack[n].object = p
    BY <1>1, FieldAssumption DEF Field
  <2>2. QED
    BY <1>1, <2>1 DEF ReportInv, OnlyTopRevisits
<1> HIDE DEF n, p, k, t
<1>3. ASSUME NEW q \in visited, NEW j \in Field
      PROVE  Awaited(q, j)' <=> Awaited(q, j) /\ <<q, j>> # <<p, k>>
  <2>1. Awaited(q, j) <=> \/ \E i \in 1 .. n - 1 : callstack[i].object = q /\ callstack[i].next <= j
                          \/ q = p /\ k <= j
    BY <1>1 DEF Awaited, n, p, k
  <2>2. Awaited(q, j)' <=> \/ \E i \in 1 .. n - 1 : callstack[i].object = q /\ callstack[i].next <= j
                           \/ q = p /\ k + 1 <= j
                           \/ q = t /\ FirstField(t) <= j
    BY <1>1 DEF Awaited
  <2>3. ~ (q = t /\ FirstField(t) <= j)
    BY FieldAssumption DEF FirstField, Field
  <2>4. CASE q = p
    <3>1. k + 1 <= j <=> k <= j /\ j # k
      BY <1>1 DEF Field
    <3>2. QED
      BY <1>2, <2>1, <2>2, <2>3, <2>4, <3>1
  <2>5. CASE q # p
    BY <2>1, <2>2, <2>3, <2>5
  <2>6. QED
    BY <2>4, <2>5
<1>4. Awaited(p, k)
  BY <1>1 DEF Awaited, n, p, k, Field
<1>5. ASSUME NEW q, q = t, q \notin visited
      PROVE  \A j \in Field : Awaited(q, j)'
  <2>1. \A j \in Field : callstack'[n + 1].next <= j
    BY <1>1, <1>5 DEF FirstField, Field
  <2>2. n + 1 \in 1 .. Len(callstack')
    BY <1>1
  <2>3. QED
    BY <1>1, <1>5, <2>1, <2>2 DEF Awaited
<1>6. <<p, k>> \notin Followed(o)
  BY <1>4 DEF Followed
<1>7. ASSUME NEW r
      PROVE  r \in Followed(o)' <=> r \in Followed(o) \/ (r = <<p, k>> /\ o = t)
  <2>1. r \in Followed(o)' <=> /\ r \in (visited \cup {t}) \X Field
                               /\ field[r[1]][r[2]] = o /\ ~ Awaited(r[1], r[2])'
    BY <1>1 DEF Followed
  <2>2. r \in Followed(o) <=> /\ r \in visited \X Field
                              /\ field[r[1]][r[2]] = o /\ ~ Awaited(r[1], r[2])
    BY DEF Followed
  <2>3. CASE r \in visited \X Field
    <3>1. r = <<r[1], r[2]>> /\ r[1] \in visited /\ r[2] \in Field
      BY <2>3
    <3>2. Awaited(r[1], r[2])' <=> Awaited(r[1], r[2]) /\ r # <<p, k>>
      BY <1>3, <3>1
    <3>3. r = <<p, k>> => field[r[1]][r[2]] = t
      BY DEF t
    <3>4. QED
      BY <2>1, <2>2, <2>3, <3>2, <3>3
  <2>4. CASE r \notin visited \X Field
    <3>1. r # <<p, k>>
      BY <1>1, <2>4
    <3>2. r \in (visited \cup {t}) \X Field =>
            t \notin visited /\ r[1] = t /\ r[2] \in Field
      BY <2>4
    <3>3. QED
      BY <1>5, <2>1, <2>2, <2>4, <3>1, <3>2
  <2>5. QED
    BY <2>3, <2>4
<1>8. QED
  BY <1>6, <1>7 DEF t, p, k

\* Skipping a null reference adds none.
LEMMA SkipNullFollowed ==
  ASSUME ReportInv, SkipNull, NEW o, o # Null
  PROVE  Followed(o)' = Followed(o)
<1> DEFINE n == Len(callstack)
           p == Top.object
           k == Top.next
<1>1. /\ n \in Nat \ {0} /\ callstack[n] = Top
      /\ p \in visited /\ k \in Field /\ field[p][k] = Null
      /\ Len(callstack') = n
      /\ \A i \in 1 .. n - 1 : callstack'[i] = callstack[i]
      /\ callstack'[n].object = p /\ callstack'[n].next = k + 1
      /\ visited' = visited /\ field' = field
  BY SkipNullShape DEF ReportInv
<1> HIDE DEF n, p, k
<1>2. ASSUME NEW q \in visited, NEW j \in Field, field[q][j] = o
      PROVE  Awaited(q, j)' <=> Awaited(q, j)
  <2>1. Awaited(q, j) <=> \/ \E i \in 1 .. n - 1 : callstack[i].object = q /\ callstack[i].next <= j
                          \/ q = p /\ k <= j
    BY <1>1 DEF Awaited, n, p, k
  <2>2. Awaited(q, j)' <=> \/ \E i \in 1 .. n - 1 : callstack[i].object = q /\ callstack[i].next <= j
                           \/ q = p /\ k + 1 <= j
    BY <1>1 DEF Awaited
  <2>3. q = p => j # k
    BY <1>1, <1>2
  <2>4. QED
    BY <1>1, <2>1, <2>2, <2>3 DEF Field
<1>3. QED
  BY <1>1, <1>2 DEF Followed

\* Neither does leaving an object.
LEMMA LeaveFollowed ==
  ASSUME ReportInv, Leave, NEW o
  PROVE  Followed(o)' = Followed(o)
<1> DEFINE n == Len(callstack)
<1>1. /\ n \in Nat \ {0} /\ callstack[n] = Top /\ Top.next = NumFields + 1
      /\ Len(callstack') = n - 1
      /\ \A i \in 1 .. n - 1 : callstack'[i] = callstack[i]
      /\ visited' = visited /\ field' = field
  BY LeaveShape DEF ReportInv
<1>2. ASSUME NEW q \in visited, NEW j \in Field
      PROVE  Awaited(q, j)' <=> Awaited(q, j)
  <2>1. Awaited(q, j) <=> \E i \in 1 .. n - 1 : callstack[i].object = q /\ callstack[i].next <= j
    BY <1>1, FieldAssumption DEF Awaited, Field
  <2>2. Awaited(q, j)' <=> \E i \in 1 .. n - 1 : callstack[i].object = q /\ callstack[i].next <= j
    BY <1>1 DEF Awaited
  <2>3. QED
    BY <2>1, <2>2
<1>3. QED
  BY <1>1, <1>2 DEF Followed

\* A design is taken off the list when the call of enterX for it is made.
LEMMA DesignCounts ==
  ASSUME ReportInv, NEW d \in Object, ListenDesign(d)
  PROVE  CallsCounted'
<1>1. /\ Len(callstack) = 0 /\ Len(callstack') = 1 /\ callstack'[1].object = d
      /\ d \in toListen /\ toListen' = toListen \ {d} /\ designs' = designs
      /\ entered' = Count(entered, d) /\ left' = left
  BY DesignShape DEF ReportInv
<1>2. entered \in [Object -> Nat] /\ left \in [Object -> Nat] /\ d \in designs
  BY <1>1 DEF ReportInv, IInv, TypeOK
<1>3. SUFFICES ASSUME NEW o \in Object
               PROVE  /\ entered'[o] = Cardinality(Followed(o)')
                           + Cardinality((designs' \ toListen') \cap {o})
                      /\ entered'[o] = left'[o] + Cardinality(Activations(o)')
  BY DEF CallsCounted
<1>4. Followed(o)' = Followed(o)
  BY DesignFollowed
<1>5. /\ entered[o] = Cardinality(Followed(o)) + Cardinality((designs \ toListen) \cap {o})
      /\ entered[o] = left[o] + Cardinality(Activations(o))
      /\ Cardinality(Followed(o)) \in Nat
  BY FiniteCounts, FS_CardinalityType DEF ReportInv, CallsCounted
<1>6. Activations(o) = {} /\ Activations(o)' = IF o = d THEN {1} ELSE {}
  BY <1>1 DEF Activations
<1>7. Cardinality({}) = 0 /\ Cardinality({1}) = 1 /\ Cardinality({d}) = 1
  BY FS_EmptySet, FS_Singleton
<1>8. CASE o = d
  <2>1. /\ (designs \ toListen) \cap {o} = {}
        /\ (designs' \ toListen') \cap {o} = {d}
    BY <1>1, <1>2, <1>8
  <2>2. entered'[o] = entered[o] + 1 /\ left'[o] = left[o]
    BY <1>1, <1>2, <1>8 DEF Count
  <2>3. QED
    BY <1>2, <1>4, <1>5, <1>6, <1>7, <1>8, <2>1, <2>2
<1>9. CASE o # d
  <2>1. (designs' \ toListen') \cap {o} = (designs \ toListen) \cap {o}
    BY <1>1, <1>9
  <2>2. entered'[o] = entered[o] /\ left'[o] = left[o]
    BY <1>1, <1>2, <1>9 DEF Count
  <2>3. QED
    BY <1>4, <1>5, <1>6, <1>9, <2>1, <2>2
<1>10. QED
  BY <1>8, <1>9

\* A reference is followed when the call of enterX for it is made.
LEMMA FollowCounts ==
  ASSUME ReportInv, Follow
  PROVE  CallsCounted'
<1> DEFINE n == Len(callstack)
           r == <<Top.object, Top.next>>
           t == field[Top.object][Top.next]
<1>1. /\ n \in Nat \ {0} /\ callstack[n] = Top /\ t \in Object
      /\ Len(callstack') = n + 1
      /\ \A i \in 1 .. n - 1 : callstack'[i] = callstack[i]
      /\ callstack'[n].object = Top.object /\ callstack'[n + 1].object = t
      /\ toListen' = toListen /\ designs' = designs
      /\ entered' = Count(entered, t) /\ left' = left
  BY FollowShape DEF ReportInv
<1>2. entered \in [Object -> Nat] /\ left \in [Object -> Nat]
  BY DEF ReportInv, IInv, TypeOK
<1>3. SUFFICES ASSUME NEW o \in Object
               PROVE  /\ entered'[o] = Cardinality(Followed(o)')
                           + Cardinality((designs \ toListen) \cap {o})
                      /\ entered'[o] = left[o] + Cardinality(Activations(o)')
  BY <1>1 DEF CallsCounted
<1>4. /\ entered[o] = Cardinality(Followed(o)) + Cardinality((designs \ toListen) \cap {o})
      /\ entered[o] = left[o] + Cardinality(Activations(o))
      /\ IsFiniteSet(Followed(o)) /\ IsFiniteSet(Activations(o))
      /\ IsFiniteSet((designs \ toListen) \cap {o})
  BY FiniteCounts, FS_Intersection DEF ReportInv, CallsCounted
<1>5. r \notin Followed(o) /\ Followed(o)' = IF o = t THEN Followed(o) \cup {r} ELSE Followed(o)
  BY FollowFollowed
<1>6. /\ n + 1 \notin Activations(o)
      /\ Activations(o)' = IF o = t THEN Activations(o) \cup {n + 1} ELSE Activations(o)
  <2>1. \A i \in 1 .. n : callstack'[i].object = callstack[i].object
    BY <1>1
  <2>2. 1 .. n + 1 = (1 .. n) \cup {n + 1} /\ n + 1 \notin 1 .. n
    BY <1>1
  <2> HIDE DEF n, t
  <2>3. Activations(o)' = {i \in (1 .. n) \cup {n + 1} : callstack'[i].object = o}
    BY <1>1, <2>2 DEF Activations
  <2>4. Activations(o) = {i \in 1 .. n : callstack[i].object = o}
    BY DEF Activations, n
  <2>5. QED
    BY <1>1, <2>1, <2>2, <2>3, <2>4
<1> HIDE DEF n, t, r
<1>7. /\ Cardinality(Followed(o)) \in Nat /\ Cardinality(Activations(o)) \in Nat
      /\ Cardinality((designs \ toListen) \cap {o}) \in Nat
  BY <1>4, FS_CardinalityType
<1>8. CASE o = t
  <2>1. Cardinality(Followed(o)') = Cardinality(Followed(o)) + 1
    BY <1>4, <1>5, <1>8, FS_AddElement
  <2>2. Cardinality(Activations(o)') = Cardinality(Activations(o)) + 1
    BY <1>4, <1>6, <1>8, FS_AddElement
  <2>3. entered'[o] = entered[o] + 1 /\ left[o] \in Nat
    BY <1>1, <1>2, <1>8 DEF Count
  <2>4. QED
    BY <1>4, <1>7, <2>1, <2>2, <2>3
<1>9. CASE o # t
  <2>1. entered'[o] = entered[o]
    BY <1>1, <1>2, <1>9 DEF Count
  <2>2. QED
    BY <1>4, <1>5, <1>6, <1>9, <2>1
<1>10. QED
  BY <1>8, <1>9

\* Skipping a null reference keeps the counts right.
LEMMA SkipNullCounts ==
  ASSUME ReportInv, SkipNull
  PROVE  CallsCounted'
<1> DEFINE n == Len(callstack)
<1>1. /\ n \in Nat \ {0} /\ callstack[n] = Top
      /\ Len(callstack') = n
      /\ \A i \in 1 .. n - 1 : callstack'[i] = callstack[i]
      /\ callstack'[n].object = Top.object
      /\ toListen' = toListen /\ designs' = designs
      /\ entered' = entered /\ left' = left
  BY SkipNullShape DEF ReportInv
<1>2. ASSUME NEW o \in Object
      PROVE  Followed(o)' = Followed(o) /\ Activations(o)' = Activations(o)
  <2>1. \A i \in 1 .. n : callstack'[i].object = callstack[i].object
    BY <1>1
  <2>2. QED
    BY <1>1, <2>1, NullAssumption, SkipNullFollowed DEF Activations
<1>3. QED
  BY <1>1, <1>2 DEF ReportInv, CallsCounted

\* So does leaving an object.
LEMMA LeaveCounts ==
  ASSUME ReportInv, Leave
  PROVE  CallsCounted'
<1> DEFINE n == Len(callstack)
           p == Top.object
<1>1. /\ n \in Nat \ {0} /\ callstack[n] = Top /\ p \in visited
      /\ Len(callstack') = n - 1
      /\ \A i \in 1 .. n - 1 : callstack'[i] = callstack[i]
      /\ toListen' = toListen /\ designs' = designs
      /\ entered' = entered /\ left' = Count(left, p)
  BY LeaveShape DEF ReportInv
<1>2. left \in [Object -> Nat]
  BY DEF ReportInv, IInv, TypeOK
<1>3. SUFFICES ASSUME NEW o \in Object
               PROVE  /\ entered[o] = Cardinality(Followed(o)')
                           + Cardinality((designs \ toListen) \cap {o})
                      /\ entered[o] = left'[o] + Cardinality(Activations(o)')
  BY <1>1 DEF CallsCounted
<1>4. /\ entered[o] = Cardinality(Followed(o)) + Cardinality((designs \ toListen) \cap {o})
      /\ entered[o] = left[o] + Cardinality(Activations(o))
      /\ IsFiniteSet(Activations(o))
      /\ Followed(o)' = Followed(o)
  BY FiniteCounts, LeaveFollowed DEF ReportInv, CallsCounted
<1>5. /\ n \in Activations(o) <=> o = p
      /\ Activations(o)' = Activations(o) \ {n}
  <2>1. 1 .. n - 1 = (1 .. n) \ {n}
    BY <1>1
  <2>2. Activations(o)' = {i \in (1 .. n) \ {n} : callstack'[i].object = o}
    BY <1>1, <2>1 DEF Activations
  <2>3. \A i \in (1 .. n) \ {n} : callstack'[i] = callstack[i]
    BY <1>1, <2>1
  <2>4. QED
    BY <1>1, <2>2, <2>3 DEF Activations
<1>6. /\ Cardinality(Activations(o)) \in Nat
      /\ Cardinality(Activations(o)') =
           IF o = p THEN Cardinality(Activations(o)) - 1 ELSE Cardinality(Activations(o))
  BY <1>4, <1>5, FS_RemoveElement, FS_CardinalityType
<1>7. left'[o] = IF o = p THEN left[o] + 1 ELSE left[o]
  BY <1>1, <1>2 DEF Count
<1>8. left[o] \in Nat
  BY <1>2
<1>9. QED
  BY <1>4, <1>6, <1>7, <1>8

-----------------------------------------------------------------------------
\* The invariant of the reports holds at the start.
LEMMA InitReportInv == Init => ReportInv
<1> SUFFICES ASSUME Init PROVE ReportInv
  OBVIOUS
<1>1. IInv
  BY InitIInv
<1>2. Len(callstack) = 0 /\ visited = {} /\ designs \ toListen = {}
  BY DEF Init
<1>3. OnlyTopRevisits
  BY <1>2 DEF OnlyTopRevisits
<1>4. AnyPaired
  BY <1>2 DEF AnyPaired, InAny, Init
<1>5. CallsCounted
  <2>1. \A o \in Object : /\ Followed(o) = {} /\ Activations(o) = {}
                          /\ (designs \ toListen) \cap {o} = {}
    BY <1>2 DEF Followed, Activations
  <2>2. Cardinality({}) = 0
    BY FS_EmptySet
  <2>3. \A o \in Object : entered[o] = 0 /\ left[o] = 0
    BY DEF Init
  <2>4. QED
    BY <2>1, <2>2, <2>3 DEF CallsCounted
<1>6. QED
  BY <1>1, <1>3, <1>4, <1>5 DEF ReportInv

\* A step that changes nothing keeps it.
LEMMA StutterReports ==
  ASSUME ReportInv, UNCHANGED vars
  PROVE  OnlyTopRevisits' /\ AnyPaired' /\ CallsCounted'
<1>1. /\ field' = field /\ designs' = designs /\ toListen' = toListen
      /\ callstack' = callstack /\ visited' = visited
      /\ entered' = entered /\ left' = left
      /\ enteredAny' = enteredAny /\ leftAny' = leftAny
  BY DEF vars
<1>2. OnlyTopRevisits'
  BY <1>1 DEF ReportInv, OnlyTopRevisits
<1>3. AnyPaired'
  BY <1>1 DEF ReportInv, AnyPaired, InAny
<1>4. \A o \in Object : Followed(o)' = Followed(o) /\ Activations(o)' = Activations(o)
  BY <1>1 DEF Followed, Awaited, Activations
<1>5. CallsCounted'
  BY <1>1, <1>4 DEF ReportInv, CallsCounted
<1>6. QED
  BY <1>2, <1>3, <1>5

\* The strengthened invariant holds in every state of the traversal.
THEOREM ReportInvariance == Spec => []ReportInv
<1>1. ASSUME ReportInv, IInv', [Next]_vars
      PROVE  ReportInv'
  <2>1. CASE \E d \in Object : ListenDesign(d)
    BY <1>1, <2>1, DesignTop, DesignAny, DesignCounts DEF ReportInv
  <2>2. CASE Follow
    BY <1>1, <2>2, FollowTop, FollowPairsAny, FollowCounts DEF ReportInv
  <2>3. CASE SkipNull
    BY <1>1, <2>3, SkipNullTop, SkipNullAny, SkipNullCounts DEF ReportInv
  <2>4. CASE Leave
    BY <1>1, <2>4, LeaveTop, LeavePairsAny, LeaveCounts DEF ReportInv
  <2>5. CASE UNCHANGED vars
    BY <1>1, <2>5, StutterReports DEF ReportInv
  <2>6. QED
    BY <1>1, <2>1, <2>2, <2>3, <2>4, <2>5 DEF Next
<1>2. QED
  BY InitReportInv, <1>1, Invariance, PTL DEF Spec

\* The recursion is bounded by the number of objects, however they loop: the
\* activations but the innermost one are for different objects.
THEOREM RecursionIsBounded == Spec => []BoundedRecursion
<1>1. ASSUME ReportInv
      PROVE  BoundedRecursion
  <2> DEFINE n == Len(callstack)
             objectOf == [i \in 1 .. n - 1 |-> callstack[i].object]
  <2>1. n \in Nat /\ \A i \in 1 .. n : callstack[i].object \in Object
    BY <1>1, FiniteCounts DEF ReportInv, IInv, TypeOK
  <2>2. \A i, j \in 1 .. n - 1 : callstack[i].object = callstack[j].object => i = j
    BY <1>1, <2>1 DEF ReportInv, OnlyTopRevisits
  <2>3. objectOf \in Injection(1 .. n - 1, Object)
    <3>1. objectOf \in [1 .. n - 1 -> Object]
      BY <2>1
    <3>2. \A i, j \in 1 .. n - 1 : objectOf[i] = objectOf[j] => i = j
      BY <2>2
    <3>3. QED
      BY <3>1, <3>2 DEF Injection, IsInjective
  <2>4. Cardinality(1 .. n - 1) <= Cardinality(Object) /\ Cardinality(Object) \in Nat
    BY <2>3, ObjectAssumption, FS_Injection, FS_CardinalityType
  <2>5. n # 0 => Cardinality(1 .. n - 1) = n - 1
    BY <2>1, FS_Interval
  <2>6. n <= Cardinality(Object) + 1
    BY <2>1, <2>4, <2>5
  <2>7. QED
    BY <2>2, <2>6 DEF BoundedRecursion
<1>2. QED
  BY <1>1, ReportInvariance, PTL

\* enterAny is called once at most for an object and is paired with leaveAny;
\* in the end it was called for every visited object that is not a design.
THEOREM AnyIsPaired == Spec => []AnyOncePerObject
<1>1. ASSUME ReportInv
      PROVE  AnyOncePerObject
  <2>1. SUFFICES ASSUME NEW o \in Object
                 PROVE  /\ leftAny[o] <= enteredAny[o]
                        /\ enteredAny[o] <= Cardinality(visited \cap {o})
                        /\ Finished => leftAny[o] = enteredAny[o]
                        /\ Finished /\ o \in visited \ designs => enteredAny[o] = 1
    BY DEF AnyOncePerObject
  <2>2. visited \cap {o} = IF o \in visited THEN {o} ELSE {}
    OBVIOUS
  <2>3. Cardinality({}) = 0 /\ Cardinality({o}) = 1
    BY FS_EmptySet, FS_Singleton
  <2>4. Finished => ~ InAny(o)
    BY DEF Finished, InAny
  <2>5. /\ enteredAny[o] \in {0, 1}
        /\ enteredAny[o] = 1 => o \in visited
        /\ o \in visited \ designs => enteredAny[o] = 1
        /\ leftAny[o] = IF InAny(o) THEN 0 ELSE enteredAny[o]
    BY <1>1 DEF ReportInv, AnyPaired
  <2>6. QED
    BY <2>2, <2>3, <2>4, <2>5
<1>2. QED
  BY <1>1, ReportInvariance, PTL

\* When the traversal returns, enterX and leaveX have been called once for
\* every reference in the part that was visited, and once more for a design.
THEOREM ReportsReferences == Spec => []ReportsEveryReference
<1>1. ASSUME ReportInv
      PROVE  ReportsEveryReference
  <2>1. SUFFICES ASSUME Finished, NEW o \in Object
                 PROVE  /\ entered[o] =
                             Cardinality({r \in visited \X Field : field[r[1]][r[2]] = o})
                               + Cardinality(designs \cap {o})
                        /\ left[o] = entered[o]
    BY DEF ReportsEveryReference
  <2>2. Len(callstack) = 0 /\ designs \ toListen = designs
    BY <2>1 DEF Finished
  <2>3. Activations(o) = {}
    BY <2>2 DEF Activations
  <2>4. Followed(o) = {r \in visited \X Field : field[r[1]][r[2]] = o}
    BY <2>2 DEF Followed, Awaited
  <2>5. Cardinality({}) = 0 /\ left[o] \in Nat
    BY <1>1, FS_EmptySet DEF ReportInv, IInv, TypeOK
  <2>6. /\ entered[o] = Cardinality(Followed(o)) + Cardinality(designs \cap {o})
        /\ entered[o] = left[o] + Cardinality(Activations(o))
    BY <1>1, <2>2 DEF ReportInv, CallsCounted
  <2>7. QED
    BY <2>3, <2>4, <2>5, <2>6
<1>2. QED
  BY <1>1, ReportInvariance, PTL
=============================================================================
