-------------------------- MODULE SerializerProofs --------------------------
(***************************************************************************)
(* Proofs about the object store, for any number of objects, any types and *)
(* any set of types that the collector skips.  NoDangling is inductive     *)
(* once the addresses and types are known to be such; what the collector   *)
(* keeps is closed because the traversal reaches a closed set, and a file  *)
(* that can be read only leads to restored objects.                        *)
(***************************************************************************)
EXTENDS Serializer, CommonLemmas, FiniteSetTheorems, SequenceTheorems

\* The ids of the objects do not matter here.
HasFields(o) ==
  o = [type |-> o.type, uhdmId |-> o.uhdmId, parent |-> o.parent, refs |-> o.refs]

HeapOK(h) ==
  /\ DOMAIN h \subseteq Addr
  /\ \A a \in DOMAIN h : /\ HasFields(h[a])
                         /\ h[a].type \in Type
                         /\ h[a].parent \in Addr \cup {Null}
                         /\ h[a].refs \subseteq Addr

Pointing(h) ==
  \A a \in DOMAIN h :
    h[a].type \notin Uncollected => Targets(h[a]) \subseteq DOMAIN h

Complete(h) == \A a \in DOMAIN h : Targets(h[a]) \subseteq DOMAIN h

\* The links of the file name factories that exist.
LinksOK(fl) ==
  \A t \in Type : \A i \in DOMAIN fl.objects[t] :
    /\ fl.objects[t][i].parent.type \in Type
    /\ \A l \in fl.objects[t][i].refs : l.type \in Type

IInv ==
  /\ HeapOK(heap)
  /\ "erased" \notin mishaps => Pointing(heap)
  /\ file \notin NotSaved => LinksOK(file)

-----------------------------------------------------------------------------
\* A serializer without objects has no pointer at all.
LEMMA NoObjectsOK == HeapOK(NoObjects) /\ Pointing(NoObjects)
BY DEF HeapOK, Pointing, NoObjects

\* Nor one that dangles.
LEMMA EmptyComplete == Complete(NoObjects)
BY DEF Complete, NoObjects

\* What a collection keeps of a heap that it could traverse: if an object is
\* kept for being reached, so are those it points at.
LEMMA CollectedOK ==
  ASSUME NEW h, HeapOK(h), ~ VisitsFreed(h)
  PROVE  HeapOK(Collected(h)) /\ Pointing(Collected(h))
<1>1. /\ DOMAIN Collected(h) = DOMAIN h \cap Kept(h)
      /\ \A a \in DOMAIN Collected(h) : Collected(h)[a] = h[a]
  BY DEF Collected, Restricted
<1>2. HeapOK(Collected(h))
  BY <1>1 DEF HeapOK
<1>3. ASSUME NEW a \in DOMAIN Collected(h), h[a].type \notin Uncollected,
             NEW b \in Targets(h[a])
      PROVE  b \in DOMAIN Collected(h)
  <2>1. a \in Visited(h)
    BY <1>1, <1>3 DEF Kept
  <2>2. b \in DOMAIN h
    BY <1>3, <2>1 DEF VisitsFreed
  <2>3. IsClosed(PointsAt(h), Visited(h))
    BY ReachedIsClosed DEF Visited
  <2>4. PointsAt(h)[a] = Targets(h[a]) /\ DOMAIN PointsAt(h) = DOMAIN h
    BY <1>1, <1>3 DEF PointsAt
  <2>5. b \in Visited(h)
    BY <1>3, <2>1, <2>2, <2>3, <2>4 DEF IsClosed
  <2>6. QED
    BY <1>1, <2>2, <2>5 DEF Kept
<1>4. Pointing(Collected(h))
  BY <1>1, <1>3 DEF Pointing
<1>5. QED
  BY <1>2, <1>4

\* Save names the type of every target, a freed one's being arbitrary.
LEMMA FileOK ==
  ASSUME NEW h, NEW f, NEW n, HeapOK(h)
  PROVE  LinksOK(FileOf(h, f, n))
<1>1. \A a : LinkTo(h, f, a).type \in Type
  BY TypeAssumption DEF HeapOK, LinkTo
<1>2. NoLink.type \in Type
  BY TypeAssumption DEF NoLink
<1>3. \A a : /\ RecordOf(h, f, a).parent.type \in Type
             /\ \A l \in RecordOf(h, f, a).refs : l.type \in Type
  BY <1>1, <1>2 DEF RecordOf
<1>4. \A t \in Type :
        /\ DOMAIN FileOf(h, f, n).objects[t] = DOMAIN f[t]
        /\ \A i \in DOMAIN f[t] :
             FileOf(h, f, n).objects[t][i] = RecordOf(h, f, f[t][i])
  BY DEF FileOf
<1>5. QED
  BY <1>3, <1>4 DEF LinksOK

\* In what a readable file restores, every pointer leads to a restored object.
LEMMA RestoredOK ==
  ASSUME NEW fl, LinksOK(fl), Readable(fl), NEW at \in [Positions(fl) -> Addr]
  PROVE  HeapOK(RestoredHeap(fl, at)) /\ Complete(RestoredHeap(fl, at))
<1> DEFINE made == {at[p] : p \in Positions(fl)}
           target(l) == at[<<l.type, Minus1(l.index) + 1>>]
           restored(p) ==
             LET r == fl.objects[p[1]][p[2]] IN
             [type |-> p[1], uhdmId |-> r.uhdmId,
              parent |-> IF IsUnset(r.parent) THEN Null ELSE target(r.parent),
              refs |-> {target(l) : l \in r.refs}]
           from(a) == CHOOSE p \in Positions(fl) : at[p] = a
<1>1. RestoredHeap(fl, at) = [a \in made |-> restored(from(a))]
  BY DEF RestoredHeap
<1>2. \A t \in Type : \A i \in DOMAIN fl.objects[t] : <<t, i>> \in Positions(fl)
  BY DEF Positions
<1>3. \A p \in Positions(fl) : p[1] \in Type /\ p[2] \in DOMAIN fl.objects[p[1]]
  BY DEF Positions
<1>4. ASSUME NEW l, l.type \in Type, InRange(fl, l)
      PROVE  target(l) \in made
  BY <1>2, <1>4 DEF InRange
<1>5. ASSUME NEW p \in Positions(fl)
      PROVE  /\ restored(p).type \in Type
             /\ restored(p).parent \in made \cup {Null}
             /\ restored(p).refs \subseteq made
             /\ HasFields(restored(p))
  <2> DEFINE r == fl.objects[p[1]][p[2]]
  <2>1. /\ p[1] \in Type
        /\ r.parent.type \in Type
        /\ \A l \in r.refs : l.type \in Type
    BY <1>3 DEF LinksOK
  <2>2. /\ IsUnset(r.parent) \/ InRange(fl, r.parent)
        /\ \A l \in r.refs : InRange(fl, l)
    BY DEF Readable
  <2>3. IsUnset(r.parent) \/ target(r.parent) \in made
    BY <1>4, <2>1, <2>2
  <2>4. \A l \in r.refs : target(l) \in made
    BY <1>4, <2>1, <2>2
  <2>5. HasFields(restored(p))
    BY DEF HasFields
  <2>6. QED
    BY <2>1, <2>3, <2>4, <2>5
<1>6. \A a \in made : from(a) \in Positions(fl)
  OBVIOUS
<1>7. made \subseteq Addr
  OBVIOUS
<1> HIDE DEF made, restored, from
<1>8. \A a \in DOMAIN RestoredHeap(fl, at) :
        /\ RestoredHeap(fl, at)[a].type \in Type
        /\ RestoredHeap(fl, at)[a].parent \in made \cup {Null}
        /\ RestoredHeap(fl, at)[a].refs \subseteq made
        /\ HasFields(RestoredHeap(fl, at)[a])
  BY <1>1, <1>5, <1>6
<1>9. DOMAIN RestoredHeap(fl, at) = made
  BY <1>1
<1>10. QED
  BY <1>7, <1>8, <1>9 DEF HeapOK, Complete, Targets

-----------------------------------------------------------------------------
\* The invariant holds at the start.
LEMMA InitIInv == Init => IInv
BY NoObjectsOK DEF Init, IInv, NotSaved

\* The client's own steps, which leave the file alone.
LEMMA ClientStep ==
  ASSUME IInv,
         \/ \E t \in Type, a \in Addr : MakeObject(t, a)
         \/ \E a \in Addr, b \in Addr \cup {Null} : SetParent(a, b)
         \/ \E a, b \in Addr : AddRef(a, b)
         \/ \E a \in Addr : DropRefs(a) \/ Erase(a)
  PROVE  IInv'
<1>1. HeapOK(heap) /\ ("erased" \notin mishaps => Pointing(heap))
  BY DEF IInv
<1>2. CASE \E t \in Type, a \in Addr : MakeObject(t, a)
  <2>1. PICK t \in Type, a \in Addr : MakeObject(t, a)
    BY <1>2
  <2>2. /\ DOMAIN heap' = Live \cup {a}
        /\ HasFields(heap'[a])
        /\ heap'[a].type = t /\ heap'[a].parent = Null /\ heap'[a].refs = {}
        /\ \A b \in Live \ {a} : heap'[b] = heap[b]
        /\ file' = file /\ mishaps' = mishaps /\ a \notin Live
    BY <2>1 DEF MakeObject, Free, HasFields
  <2>3. HeapOK(heap')
    BY <1>1, <2>2 DEF HeapOK, Live
  <2>4. Pointing(heap) => Pointing(heap')
    BY <1>1, <2>2 DEF Pointing, Targets, Live
  <2>5. QED
    BY <1>1, <2>2, <2>3, <2>4 DEF IInv
<1>3. CASE \E a \in Addr, b \in Addr \cup {Null} : SetParent(a, b)
  <2>1. PICK a \in Live, b \in Live \cup {Null} :
          /\ heap' = [heap EXCEPT ![a].parent = b]
          /\ UNCHANGED <<file, mishaps>>
    BY <1>3 DEF SetParent
  <2>2. /\ DOMAIN heap' = Live
        /\ heap'[a] = [heap[a] EXCEPT !.parent = b]
        /\ \A c \in Live \ {a} : heap'[c] = heap[c]
    BY <2>1 DEF Live
  <2>3. HasFields(heap[a])
    BY <1>1, <2>1 DEF HeapOK, Live
  <2>4. /\ heap'[a].type = heap[a].type /\ heap'[a].refs = heap[a].refs
        /\ heap'[a].parent = b /\ HasFields(heap'[a])
    BY <2>2, <2>3 DEF HasFields
  <2>5. HeapOK(heap')
    BY <1>1, <2>1, <2>2, <2>4 DEF HeapOK, Live
  <2>6. Pointing(heap) => Pointing(heap')
    BY <1>1, <2>1, <2>2, <2>4 DEF Pointing, Targets, Live
  <2>7. QED
    BY <1>1, <2>1, <2>5, <2>6 DEF IInv
<1>4. CASE \E a, b \in Addr : AddRef(a, b)
  <2>1. PICK a \in Live, b \in Live :
          /\ heap' = [heap EXCEPT ![a].refs = @ \cup {b}]
          /\ UNCHANGED <<file, mishaps>>
    BY <1>4 DEF AddRef
  <2>2. /\ DOMAIN heap' = Live
        /\ heap'[a] = [heap[a] EXCEPT !.refs = @ \cup {b}]
        /\ \A c \in Live \ {a} : heap'[c] = heap[c]
    BY <2>1 DEF Live
  <2>3. HasFields(heap[a])
    BY <1>1, <2>1 DEF HeapOK, Live
  <2>4. /\ heap'[a].type = heap[a].type /\ heap'[a].parent = heap[a].parent
        /\ heap'[a].refs = heap[a].refs \cup {b} /\ HasFields(heap'[a])
    BY <2>2, <2>3 DEF HasFields
  <2>5. HeapOK(heap')
    BY <1>1, <2>1, <2>2, <2>4 DEF HeapOK, Live
  <2>6. Pointing(heap) => Pointing(heap')
    BY <1>1, <2>1, <2>2, <2>4 DEF Pointing, Targets, Live
  <2>7. QED
    BY <1>1, <2>1, <2>5, <2>6 DEF IInv
<1>5. CASE \E a \in Addr : DropRefs(a)
  <2>1. PICK a \in Live :
          heap' = [heap EXCEPT ![a].refs = {}] /\ UNCHANGED <<file, mishaps>>
    BY <1>5 DEF DropRefs
  <2>2. /\ DOMAIN heap' = Live
        /\ heap'[a] = [heap[a] EXCEPT !.refs = {}]
        /\ \A c \in Live \ {a} : heap'[c] = heap[c]
    BY <2>1 DEF Live
  <2>3. HasFields(heap[a])
    BY <1>1, <2>1 DEF HeapOK, Live
  <2>4. /\ heap'[a].type = heap[a].type /\ heap'[a].parent = heap[a].parent
        /\ heap'[a].refs = {} /\ HasFields(heap'[a])
    BY <2>2, <2>3 DEF HasFields
  <2>5. HeapOK(heap')
    BY <1>1, <2>1, <2>2, <2>4 DEF HeapOK, Live
  <2>6. Pointing(heap) => Pointing(heap')
    BY <1>1, <2>1, <2>2, <2>4 DEF Pointing, Targets, Live
  <2>7. QED
    BY <1>1, <2>1, <2>5, <2>6 DEF IInv
<1>6. CASE \E a \in Addr : Erase(a)
  <2>1. PICK a \in Live :
          /\ heap' = Restricted(heap, Live \ {a}) /\ file' = file
          /\ mishaps' = mishaps \cup (IF IsPointedAt(a) THEN {"erased"} ELSE {})
    BY <1>6 DEF Erase
  <2>2. DOMAIN heap' = Live \ {a} /\ \A b \in Live \ {a} : heap'[b] = heap[b]
    BY <2>1 DEF Restricted, Live
  <2>3. HeapOK(heap')
    BY <1>1, <2>2 DEF HeapOK, Live
  <2>4. "erased" \notin mishaps' => "erased" \notin mishaps /\ ~ IsPointedAt(a)
    BY <2>1
  <2>5. Pointing(heap) /\ ~ IsPointedAt(a) => Pointing(heap')
    BY <2>1, <2>2 DEF Pointing, IsPointedAt, Live
  <2>6. LinksOK(file)' = LinksOK(file) /\ (file \notin NotSaved => LinksOK(file))
    BY <2>1 DEF IInv
  <2>7. QED
    BY <1>1, <2>1, <2>3, <2>4, <2>5, <2>6 DEF IInv
<1>7. QED
  BY <1>2, <1>3, <1>4, <1>5, <1>6

\* A step that keeps the objects and the file.
LEMMA SameStep ==
  ASSUME IInv, heap' = heap, file' = file \/ file' \in NotSaved,
         mishaps \subseteq mishaps'
  PROVE  IInv'
BY DEF IInv

\* A step that leaves no objects.
LEMMA EmptiedStep ==
  ASSUME IInv, heap' = NoObjects, file' = file \/ file' \in NotSaved
  PROVE  IInv'
BY NoObjectsOK DEF IInv

\* GarbageCollect keeps the invariant.
LEMMA CollectStep ==
  ASSUME IInv, GarbageCollect
  PROVE  IInv'
<1>1. CASE VisitsFreed(heap)
  BY <1>1, SameStep DEF GarbageCollect, Undefined
<1>2. CASE ~ VisitsFreed(heap)
  BY <1>2, CollectedOK DEF GarbageCollect, IInv
<1>3. QED
  BY <1>1, <1>2

\* Save, which collects first, keeps it, also when it is interrupted.
LEMMA SaveStep ==
  ASSUME IInv, Save \/ SaveInterrupted
  PROVE  IInv'
<1>0. mishaps \subseteq mishaps'
  BY DEF Save, SaveInterrupted
<1>1. CASE CannotSave
  BY <1>0, <1>1, SameStep DEF Save, SaveInterrupted, Undefined
<1>2. CASE ~ CannotSave
  <2>1. HeapOK(HeapToSave) /\ ("erased" \notin mishaps => Pointing(HeapToSave))
    BY <1>2, CollectedOK DEF IInv, HeapToSave, CannotSave
  <2>2. LinksOK(FileOf(HeapToSave, FactoryToSave, objId))
    BY <2>1, FileOK
  <2>3. heap' = HeapToSave
    BY <1>2 DEF Save, SaveInterrupted
  <2>4. \/ file' = FileOf(HeapToSave, FactoryToSave, objId)
        \/ file' = file \/ file' \in NotSaved
    BY <1>2 DEF Save, SaveInterrupted, Leftovers, NotSaved
  <2>5. QED
    BY <1>0, <2>1, <2>2, <2>3, <2>4 DEF IInv
<1>3. QED
  BY <1>1, <1>2

\* Restore, of whatever file, keeps it.
LEMMA RestoreStep ==
  ASSUME IInv, NEW at \in AddressMaps, Restore(at)
  PROVE  IInv'
<1>1. CASE Readable(file)
  <2>1. file \notin NotSaved /\ LinksOK(file) /\ at \in [Positions(file) -> Addr]
    BY DEF Restore, AddressMaps, IInv
  <2>2. HeapOK(RestoredHeap(file, at)) /\ Pointing(RestoredHeap(file, at))
    BY <1>1, <2>1, RestoredOK DEF Pointing, Complete
  <2>3. heap' = RestoredHeap(file, at) /\ file' = file
    BY <1>1 DEF Restore
  <2>4. QED
    BY <2>1, <2>2, <2>3 DEF IInv
<1>2. CASE ~ Readable(file)
  BY <1>2, SameStep DEF Restore, Undefined
<1>3. QED
  BY <1>1, <1>2

\* The inductive invariant holds in every state of the store.
THEOREM Invariance == Spec => []IInv
<1>1. ASSUME IInv, [Next]_vars
      PROVE  IInv'
  <2>1. CASE \/ \E t \in Type, a \in Addr : MakeObject(t, a)
             \/ \E a \in Addr, b \in Addr \cup {Null} : SetParent(a, b)
             \/ \E a, b \in Addr : AddRef(a, b)
             \/ \E a \in Addr : DropRefs(a) \/ Erase(a)
    BY <1>1, <2>1, ClientStep
  <2>2. CASE \E b \in BOOLEAN : SetGCEnabled(b)
    BY <1>1, <2>2, SameStep DEF SetGCEnabled
  <2>3. CASE GarbageCollect
    BY <1>1, <2>3, CollectStep
  <2>4. CASE Save \/ SaveInterrupted
    BY <1>1, <2>4, SaveStep
  <2>5. CASE Purge \/ RestoreFails
    BY <1>1, <2>5, EmptiedStep DEF Purge, RestoreFails
  <2>6. CASE \E at \in AddressMaps : Restore(at)
    BY <1>1, <2>6, RestoreStep
  <2>7. CASE Restart
    BY <1>1, <2>7, EmptiedStep DEF Restart, NotSaved
  <2>8. CASE OtherVersionSaves
    BY <1>1, <2>8, SameStep DEF OtherVersionSaves, NotSaved
  <2>9. CASE RestoreMixed \/ UNCHANGED vars
    BY <1>1, <2>9, SameStep DEF RestoreMixed, Undefined, vars
  <2>10. QED
    BY <1>1, <2>1, <2>2, <2>3, <2>4, <2>5, <2>6, <2>7, <2>8, <2>9 DEF Next
<1>2. QED
  BY InitIInv, <1>1, PTL DEF Spec

\* As long as clients erase only objects that no other points at, only an object
\* of a type the collector skips can be left with a pointer to an object that was
\* deleted, through any sequence of calls, collections, saves, restores, restarts.
THEOREM NeverDangling == Spec => []NoDangling
<1>1. IInv => NoDangling
  BY DEF IInv, Pointing, NoDangling, Live
<1>2. QED
  BY Invariance, <1>1, PTL

-----------------------------------------------------------------------------
(***************************************************************************)
(* Proofs about ids, factories and files of the object store, for any      *)
(* number of objects, any types and any set of types that the collector    *)
(* skips.  The inductive invariant says of the file what the module's      *)
(* invariants say of the store, since a restore makes the one the other.   *)
(***************************************************************************)
\* The factories list the objects of their types in the order of the ids.
Listed(h, f) ==
  /\ f \in [Type -> Seq(Addr)]
  /\ \A t \in Type :
       /\ \A i \in DOMAIN f[t] : f[t][i] \in DOMAIN h /\ h[f[t][i]].type = t
       /\ \A i, j \in DOMAIN f[t] :
            i < j => h[f[t][i]].uhdmId < h[f[t][j]].uhdmId
  /\ \A a \in DOMAIN h : \E i \in DOMAIN f[h[a].type] : f[h[a].type][i] = a

\* The ids of the objects are different ones of the n given out.
Numbered(h, n) ==
  /\ n \in 0 .. MaxObjId
  /\ \A a \in DOMAIN h : h[a].uhdmId \in 1 .. n
  /\ \A a, b \in DOMAIN h : h[a].uhdmId = h[b].uhdmId => a = b

\* A store: objects, factories, and the number of ids given out.
StoreOK(h, f, n) == HeapOK(h) /\ Listed(h, f) /\ Numbered(h, n)

\* A file that Save has written.
Recorded(fl) ==
  /\ fl \in SavedFile
  /\ fl.objectId <= MaxObjId
  /\ \A p \in Positions(fl) : fl.objects[p[1]][p[2]].uhdmId \in 1 .. fl.objectId
  /\ \A p, q \in Positions(fl) :
       fl.objects[p[1]][p[2]].uhdmId = fl.objects[q[1]][q[2]].uhdmId => p = q
  /\ \A t \in Type : \A i, j \in DOMAIN fl.objects[t] :
       i < j => fl.objects[t][i].uhdmId < fl.objects[t][j].uhdmId

StoreInv ==
  /\ StoreOK(heap, factory, objId)
  /\ file \in NotSaved \/ Recorded(file)
  /\ gcEnabled \in BOOLEAN
  /\ status \in {"running", "undefined"}
  /\ mishaps \subseteq {"erased", "skipped", "mixed"}

-----------------------------------------------------------------------------
(***************************************************************************)
(* Selecting the entries of a factory.                                     *)
(***************************************************************************)

\* The entries to keep are all there, and an earlier one stays earlier.
LEMMA KeepersProperties ==
  ASSUME NEW S, NEW q \in Seq(S), NEW keep
  PROVE  LET k == Keepers(q, keep)
         IN  /\ k \in Seq(S)
             /\ \A n \in DOMAIN k : k[n] \in keep
             /\ \A m, n \in DOMAIN k : m < n =>
                  \E i, j \in DOMAIN q : i < j /\ k[m] = q[i] /\ k[n] = q[j]
             /\ \A n \in DOMAIN k : \E i \in DOMAIN q : k[n] = q[i]
             /\ \A i \in DOMAIN q : q[i] \in keep =>
                  \E n \in DOMAIN k : k[n] = q[i]
<1> DEFINE kept == {i \in DOMAIN q : q[i] \in keep}
           upTo(i) == {j \in kept : j <= i}
           position(i) == Cardinality(upTo(i))
           c == Cardinality(kept)
           nth(n) == CHOOSE i \in kept : position(i) = n
           k == Keepers(q, keep)
<1>1. k = [n \in 1 .. c |-> q[nth(n)]]
  BY DEF Keepers
<1>2. Len(q) \in Nat /\ DOMAIN q = 1 .. Len(q) /\ kept \subseteq 1 .. Len(q)
  BY LenProperties
<1>3. IsFiniteSet(kept) /\ c \in Nat
  <2>1. IsFiniteSet(1 .. Len(q)) /\ kept \in SUBSET (1 .. Len(q))
    BY <1>2, FS_Interval
  <2>2. QED
    BY <2>1, FS_Subset, FS_CardinalityType
<1>4. \A i : IsFiniteSet(upTo(i)) /\ position(i) \in Nat /\ position(i) <= c
  <2>1. \A i : upTo(i) \in SUBSET kept
    OBVIOUS
  <2>2. QED
    BY <1>3, <2>1, FS_Subset, FS_CardinalityType
<1>5. ASSUME NEW i \in kept, NEW j \in kept, i < j
      PROVE  position(i) < position(j)
  <2>1. upTo(i) \in SUBSET upTo(j) /\ j \in upTo(j) /\ j \notin upTo(i)
    BY <1>2, <1>5
  <2>2. Cardinality(upTo(i)) <= Cardinality(upTo(j))
        /\ Cardinality(upTo(i)) # Cardinality(upTo(j))
    BY <1>4, <2>1, FS_Subset
  <2> HIDE DEF upTo
  <2>3. Cardinality(upTo(i)) \in Nat /\ Cardinality(upTo(j)) \in Nat
    BY <1>4
  <2>4. QED
    BY <2>2, <2>3
<1>6. ASSUME NEW i \in kept
      PROVE  position(i) \in 1 .. c
  <2>1. i \in upTo(i)
    BY <1>2
  <2> HIDE DEF upTo
  <2>2. Cardinality(upTo(i)) # 0
    BY <1>4, <2>1, FS_EmptySet
  <2>3. Cardinality(upTo(i)) \in Nat /\ Cardinality(upTo(i)) <= c
    BY <1>4
  <2> HIDE DEF c
  <2>4. QED
    BY <1>3, <2>2, <2>3
<1>7. \A n \in 1 .. c : \E i \in kept : position(i) = n
  <2> DEFINE pos == [i \in kept |-> position(i)]
  <2>1. pos \in Injection(kept, 1 .. c)
    <3>1. pos \in [kept -> 1 .. c]
      BY <1>6
    <3>2. \A i, j \in kept : position(i) = position(j) => i = j
      <4> HIDE DEF position, kept
      <4>1. \A i, j \in kept : i \in Nat /\ j \in Nat /\ (i < j \/ j < i \/ i = j)
        BY <1>2
      <4>2. \A i \in kept : position(i) \in Nat
        BY <1>4
      <4>3. QED
        BY <1>5, <4>1, <4>2
    <3>3. QED
      BY <3>1, <3>2 DEF Injection, IsInjective
  <2>2. IsFiniteSet(1 .. c) /\ Cardinality(1 .. c) = c
    BY <1>3, FS_Interval
  <2>3. pos \in Surjection(kept, 1 .. c)
    BY <2>1, <2>2, FS_Injection
  <2>4. QED
    BY <2>3 DEF Surjection
<1> HIDE DEF kept, position, c
<1>8. \A n \in 1 .. c : nth(n) \in kept /\ position(nth(n)) = n
  BY <1>7
<1>9. ASSUME NEW m \in 1 .. c, NEW n \in 1 .. c, m < n
      PROVE  nth(m) < nth(n)
  <2>1. nth(m) \in kept /\ nth(n) \in kept
        /\ position(nth(m)) = m /\ position(nth(n)) = n
    BY <1>8
  <2>2. \A i, j \in kept : i \in Nat /\ j \in Nat
    BY <1>2
  <2>3. ~ (position(nth(n)) < position(nth(m))) /\ nth(m) # nth(n)
    BY <1>3, <1>9, <2>1
  <2> HIDE DEF nth
  <2>4. ~ (nth(n) < nth(m))
    BY <1>5, <2>1, <2>3
  <2>5. QED
    BY <2>1, <2>2, <2>3, <2>4
<1>10. \A i \in kept : \E n \in 1 .. c : nth(n) = i
  <2>1. SUFFICES ASSUME NEW i \in kept
                 PROVE  nth(position(i)) = i
    BY <1>6
  <2>2. nth(position(i)) \in kept /\ position(nth(position(i))) = position(i)
    BY <1>6, <1>8
  <2>3. position(i) \in Nat
    BY <1>6
  <2> HIDE DEF nth
  <2>4. \A j \in kept : j \in Nat
    BY <1>2
  <2>5. ~ (i < nth(position(i))) /\ ~ (nth(position(i)) < i)
    BY <1>5, <2>2, <2>3
  <2>6. QED
    BY <2>2, <2>4, <2>5
<1> HIDE DEF nth, k
<1>11. k \in Seq(S) /\ DOMAIN k = 1 .. c
  <2>1. \A n \in 1 .. c : q[nth(n)] \in S
    BY <1>2, <1>8, ElementOfSeq
  <2>2. k \in [1 .. c -> S]
    BY <1>1, <2>1
  <2>3. QED
    BY <1>3, <2>2
<1>12. \A n \in 1 .. c : k[n] = q[nth(n)]
  BY <1>1
<1>13. \A i \in kept : i \in DOMAIN q /\ q[i] \in keep
  BY DEF kept
<1>14. \A i \in DOMAIN q : q[i] \in keep => i \in kept
  BY DEF kept
<1>15. \A m, n \in DOMAIN k : m < n =>
         \E i, j \in DOMAIN q : i < j /\ k[m] = q[i] /\ k[n] = q[j]
  BY <1>8, <1>9, <1>11, <1>12, <1>13
<1>16. \A i \in DOMAIN q : q[i] \in keep => \E n \in DOMAIN k : k[n] = q[i]
  BY <1>10, <1>11, <1>12, <1>14
<1>17. \A n \in DOMAIN k : k[n] \in keep /\ \E i \in DOMAIN q : k[n] = q[i]
  BY <1>8, <1>11, <1>12, <1>13
<1>18. QED
  BY <1>11, <1>15, <1>16, <1>17 DEF k

\* Deleting objects and taking them out of their factories.
LEMMA EraseKeepsOK ==
  ASSUME NEW h, NEW f, NEW n, StoreOK(h, f, n), NEW keep
  PROVE  StoreOK(Restricted(h, keep), EraseIfNotIn(f, keep), n)
<1> DEFINE g == Restricted(h, keep)
           e == EraseIfNotIn(f, keep)
<1>1. /\ DOMAIN g = DOMAIN h \cap keep
      /\ \A a \in DOMAIN g : g[a] = h[a]
  BY DEF Restricted
<1>2. \A t \in Type : e[t] = Keepers(f[t], keep) /\ f[t] \in Seq(Addr)
  BY DEF EraseIfNotIn, StoreOK, Listed
<1>3. ASSUME NEW t \in Type
      PROVE  /\ e[t] \in Seq(Addr)
             /\ \A i \in DOMAIN e[t] : e[t][i] \in DOMAIN g /\ g[e[t][i]].type = t
             /\ \A i, j \in DOMAIN e[t] :
                  i < j => g[e[t][i]].uhdmId < g[e[t][j]].uhdmId
             /\ \A i \in DOMAIN f[t] : f[t][i] \in keep =>
                  \E j \in DOMAIN e[t] : e[t][j] = f[t][i]
  <2> DEFINE q == f[t]
             k == Keepers(q, keep)
  <2>1. q \in Seq(Addr) /\ e[t] = k
    BY <1>2
  <2> HIDE DEF e, g, q
  <2>2. /\ k \in Seq(Addr)
        /\ \A i \in DOMAIN k : k[i] \in keep
        /\ \A i, j \in DOMAIN k : i < j =>
             \E m, l \in DOMAIN q : m < l /\ k[i] = q[m] /\ k[j] = q[l]
        /\ \A i \in DOMAIN k : \E m \in DOMAIN q : k[i] = q[m]
        /\ \A i \in DOMAIN q : q[i] \in keep => \E j \in DOMAIN k : k[j] = q[i]
    BY <2>1, KeepersProperties
  <2> HIDE DEF k
  <2>3. /\ e[t] \in Seq(Addr)
        /\ \A i \in DOMAIN e[t] : e[t][i] \in keep
        /\ \A i, j \in DOMAIN e[t] : i < j =>
             \E m, l \in DOMAIN f[t] : m < l /\ e[t][i] = f[t][m] /\ e[t][j] = f[t][l]
        /\ \A i \in DOMAIN e[t] : \E m \in DOMAIN f[t] : e[t][i] = f[t][m]
        /\ \A i \in DOMAIN f[t] : f[t][i] \in keep =>
             \E j \in DOMAIN e[t] : e[t][j] = f[t][i]
    BY <2>1, <2>2 DEF q
  <2>4. /\ \A i \in DOMAIN f[t] : f[t][i] \in DOMAIN h /\ h[f[t][i]].type = t
        /\ \A i, j \in DOMAIN f[t] : i < j => h[f[t][i]].uhdmId < h[f[t][j]].uhdmId
    BY DEF StoreOK, Listed
  <2>5. \A i \in DOMAIN e[t] : e[t][i] \in DOMAIN g /\ g[e[t][i]].type = t
    BY <1>1, <2>3, <2>4
  <2>6. ASSUME NEW i \in DOMAIN e[t], NEW j \in DOMAIN e[t], i < j
        PROVE  g[e[t][i]].uhdmId < g[e[t][j]].uhdmId
    <3>1. PICK m \in DOMAIN f[t], l \in DOMAIN f[t] :
            m < l /\ e[t][i] = f[t][m] /\ e[t][j] = f[t][l]
      BY <2>3, <2>6
    <3>2. h[f[t][m]].uhdmId < h[f[t][l]].uhdmId
      BY <2>4, <3>1
    <3>3. QED
      BY <1>1, <2>5, <3>1, <3>2
  <2>7. QED
    BY <2>3, <2>5, <2>6
<1> HIDE DEF e, g
<1>4. HeapOK(g)
  BY <1>1 DEF StoreOK, HeapOK
<1>5. Numbered(g, n)
  BY <1>1 DEF StoreOK, Numbered
<1>6. Listed(g, e)
  <2>1. e \in [Type -> Seq(Addr)]
    <3>1. e = [t \in Type |-> e[t]]
      BY DEF e, EraseIfNotIn
    <3>2. QED
      BY <1>3, <3>1
  <2>2. ASSUME NEW a \in DOMAIN g
        PROVE  \E i \in DOMAIN e[g[a].type] : e[g[a].type][i] = a
    <3>1. a \in DOMAIN h /\ a \in keep /\ g[a] = h[a] /\ h[a].type \in Type
      BY <1>1 DEF StoreOK, HeapOK
    <3>2. \E i \in DOMAIN f[h[a].type] : f[h[a].type][i] = a
      BY <3>1 DEF StoreOK, Listed
    <3>3. QED
      BY <1>3, <3>1, <3>2
  <2>3. QED
    BY <1>3, <2>1, <2>2 DEF Listed
<1>7. QED
  BY <1>4, <1>5, <1>6 DEF StoreOK, e, g

\* There is nothing to list in an empty store.
LEMMA NoObjectsStore ==
  ASSUME NEW n \in 0 .. MaxObjId
  PROVE  StoreOK(NoObjects, Empty, n)
<1>1. Empty \in [Type -> Seq(Addr)] /\ \A t \in Type : DOMAIN Empty[t] = {}
  <2>1. <<>> \in Seq(Addr) /\ DOMAIN <<>> = {}
    BY EmptySeq
  <2>2. QED
    BY <2>1 DEF Empty
<1>2. DOMAIN NoObjects = {}
  BY DEF NoObjects
<1>3. QED
  BY <1>1, <1>2 DEF StoreOK, HeapOK, Listed, Numbered

-----------------------------------------------------------------------------
(***************************************************************************)
(* Factories and files.                                                    *)
(***************************************************************************)

\* A factory is not longer than there are ids, so that every position in it is
\* an index of the file other than kBadIndex.
LEMMA PositionsAreIndices ==
  ASSUME NEW h, NEW f, NEW n, StoreOK(h, f, n), NEW t \in Type
  PROVE  /\ Len(f[t]) \in Nat /\ DOMAIN f[t] = 1 .. Len(f[t])
         /\ Len(f[t]) < BadIndex
         /\ \A i, j \in DOMAIN f[t] : f[t][i] = f[t][j] => i = j
<1> DEFINE ids == [i \in 1 .. Len(f[t]) |-> h[f[t][i]].uhdmId]
<1>1. Len(f[t]) \in Nat /\ DOMAIN f[t] = 1 .. Len(f[t])
  <2>1. f[t] \in Seq(Addr)
    BY DEF StoreOK, Listed
  <2>2. QED
    BY <2>1, LenProperties
<1>2. \A i \in DOMAIN f[t] : h[f[t][i]].uhdmId \in 1 .. n
  BY DEF StoreOK, Listed, Numbered
<1>3. n \in Nat /\ n < BadIndex /\ BadIndex \in Nat
  BY NumberAssumption DEF StoreOK, Numbered
<1>4. \A i, j \in DOMAIN f[t] : i < j => h[f[t][i]].uhdmId < h[f[t][j]].uhdmId
  BY DEF StoreOK, Listed
<1>5. \A i, j \in DOMAIN f[t] : h[f[t][i]].uhdmId = h[f[t][j]].uhdmId => i = j
  <2>1. SUFFICES ASSUME NEW i \in DOMAIN f[t], NEW j \in DOMAIN f[t], i # j
                 PROVE  h[f[t][i]].uhdmId # h[f[t][j]].uhdmId
    OBVIOUS
  <2>2. i < j \/ j < i
    BY <1>1, <2>1
  <2>3. h[f[t][i]].uhdmId \in Nat /\ h[f[t][j]].uhdmId \in Nat
    BY <1>2, <1>3
  <2>4. QED
    BY <1>4, <2>2, <2>3
<1>6. ids \in Injection(1 .. Len(f[t]), 1 .. n)
  <2>1. ids \in [1 .. Len(f[t]) -> 1 .. n]
    BY <1>1, <1>2
  <2>2. \A i, j \in 1 .. Len(f[t]) : ids[i] = ids[j] => i = j
    BY <1>1, <1>5
  <2>3. QED
    BY <2>1, <2>2 DEF Injection, IsInjective
<1>7. Len(f[t]) <= n
  <2>1. \A m \in Nat : IsFiniteSet(1 .. m) /\ Cardinality(1 .. m) = m
    BY FS_Interval
  <2>2. Cardinality(1 .. Len(f[t])) <= Cardinality(1 .. n)
    BY <1>3, <1>6, <2>1, FS_Injection
  <2>3. QED
    BY <1>1, <1>3, <2>1, <2>2
<1>8. QED
  BY <1>1, <1>3, <1>5, <1>7

\* What a link of a live object refers to it by.
LEMMA LinkProperties ==
  ASSUME NEW h, NEW f, NEW n, StoreOK(h, f, n), NEW a
  PROVE  /\ LinkTo(h, f, a) \in Link
         /\ a \in DOMAIN h =>
              /\ LinkTo(h, f, a).type = h[a].type
              /\ LinkTo(h, f, a).index \in DOMAIN f[h[a].type]
              /\ f[h[a].type][LinkTo(h, f, a).index] = a
              /\ LinkTo(h, f, a).index \in 1 .. BadIndex - 1
         /\ a \notin DOMAIN h => LinkTo(h, f, a).index = BadIndex
<1>1. CASE a \in DOMAIN h
  <2> DEFINE t == h[a].type
             i == CHOOSE i \in DOMAIN f[t] : f[t][i] = a
  <2>1. t \in Type
    BY <1>1 DEF StoreOK, HeapOK
  <2>2. i \in DOMAIN f[t] /\ f[t][i] = a
    BY <1>1 DEF StoreOK, Listed
  <2>3. LinkTo(h, f, a) = [type |-> t, index |-> i]
    BY <1>1 DEF LinkTo, GetId
  <2> HIDE DEF t, i
  <2>4. i \in 1 .. BadIndex - 1 /\ BadIndex \in Nat
    BY <2>1, <2>2, PositionsAreIndices, NumberAssumption
  <2>5. i \in 0 .. BadIndex
    BY <2>4
  <2>6. LinkTo(h, f, a) \in Link
    BY <2>1, <2>3, <2>5 DEF Link
  <2>7. QED
    BY <1>1, <2>2, <2>3, <2>4, <2>6 DEF t
<1>2. CASE a \notin DOMAIN h
  <2>1. LinkTo(h, f, a) = [type |-> Design, index |-> BadIndex]
    BY <1>2 DEF LinkTo, GetId
  <2>2. QED
    BY <1>2, <2>1, TypeAssumption, NumberAssumption DEF Link
<1>3. QED
  BY <1>1, <1>2

\* A position of a file is a type and a place in its factory.
LEMMA PositionsAre ==
  ASSUME NEW fl
  PROVE  /\ \A p \in Positions(fl) :
              p = <<p[1], p[2]>> /\ p[1] \in Type /\ p[2] \in DOMAIN fl.objects[p[1]]
         /\ \A t \in Type : \A i \in DOMAIN fl.objects[t] : <<t, i>> \in Positions(fl)
BY DEF Positions

\* The record that Save writes for an object.
LEMMA RecordProperties ==
  ASSUME NEW h, NEW f, NEW n, StoreOK(h, f, n), NEW a \in DOMAIN h
  PROVE  /\ RecordOf(h, f, a) \in Record
         /\ RecordOf(h, f, a).uhdmId = h[a].uhdmId
         /\ h[a].parent = Null => RecordOf(h, f, a).parent = NoLink
         /\ h[a].parent # Null => RecordOf(h, f, a).parent = LinkTo(h, f, h[a].parent)
         /\ RecordOf(h, f, a).refs = {LinkTo(h, f, b) : b \in h[a].refs}
<1>1. NoLink \in Link
  BY TypeAssumption, NumberAssumption DEF NoLink, Link
<1>2. \A b : LinkTo(h, f, b) \in Link
  BY LinkProperties
<1>3. h[a].uhdmId \in Nat
  BY DEF StoreOK, Numbered
<1>4. QED
  BY <1>1, <1>2, <1>3 DEF RecordOf, Record

\* The file lists the records in the order of the factories.
LEMMA FileOfProperties ==
  ASSUME NEW h, NEW f, NEW n, StoreOK(h, f, n)
  PROVE  LET fl == FileOf(h, f, n)
         IN  /\ fl \in SavedFile /\ fl.objectId = n
             /\ \A t \in Type :
                  /\ DOMAIN fl.objects[t] = DOMAIN f[t]
                  /\ \A i \in DOMAIN f[t] : fl.objects[t][i] = RecordOf(h, f, f[t][i])
<1> DEFINE fl == FileOf(h, f, n)
<1>1. /\ fl = [objectId |-> fl.objectId, objects |-> fl.objects]
      /\ fl.objectId = n
      /\ fl.objects = [t \in Type |-> fl.objects[t]]
  BY DEF FileOf
<1>2. ASSUME NEW t \in Type
      PROVE  fl.objects[t] = [i \in DOMAIN f[t] |-> RecordOf(h, f, f[t][i])]
  BY DEF FileOf
<1> HIDE DEF fl
<1>3. ASSUME NEW t \in Type
      PROVE  fl.objects[t] \in Seq(Record)
  <2>1. Len(f[t]) \in Nat /\ DOMAIN f[t] = 1 .. Len(f[t])
    BY PositionsAreIndices
  <2>2. \A i \in DOMAIN f[t] : f[t][i] \in DOMAIN h
    BY DEF StoreOK, Listed
  <2>3. \A i \in 1 .. Len(f[t]) : RecordOf(h, f, f[t][i]) \in Record
    BY <2>1, <2>2, RecordProperties
  <2>4. fl.objects[t] \in [1 .. Len(f[t]) -> Record]
    BY <1>2, <2>1, <2>3
  <2>5. QED
    BY <2>1, <2>4
<1>4. fl \in SavedFile
  <2>1. n \in Nat
    BY NumberAssumption DEF StoreOK, Numbered
  <2>2. fl.objects \in [Type -> Seq(Record)]
    BY <1>1, <1>3
  <2>3. QED
    BY <1>1, <2>1, <2>2 DEF SavedFile
<1>5. QED
  BY <1>1, <1>2, <1>4 DEF fl

\* The ids of a file are those of the store it was saved from.
LEMMA FileRecorded ==
  ASSUME NEW h, NEW f, NEW n, StoreOK(h, f, n)
  PROVE  Recorded(FileOf(h, f, n))
<1> DEFINE fl == FileOf(h, f, n)
<1>1. /\ fl \in SavedFile /\ fl.objectId = n
      /\ \A t \in Type :
           /\ DOMAIN fl.objects[t] = DOMAIN f[t]
           /\ \A i \in DOMAIN f[t] : fl.objects[t][i] = RecordOf(h, f, f[t][i])
  BY FileOfProperties
<1> HIDE DEF fl
<1>2. ASSUME NEW t \in Type, NEW i \in DOMAIN f[t]
      PROVE  /\ f[t][i] \in DOMAIN h /\ h[f[t][i]].type = t
             /\ fl.objects[t][i].uhdmId = h[f[t][i]].uhdmId
  <2>1. f[t][i] \in DOMAIN h /\ h[f[t][i]].type = t
    BY DEF StoreOK, Listed
  <2>2. QED
    BY <1>1, <2>1, RecordProperties
<1>3. \A p \in Positions(fl) : p[1] \in Type /\ p[2] \in DOMAIN f[p[1]] /\ p = <<p[1], p[2]>>
  BY <1>1, PositionsAre
<1>4. fl.objectId <= MaxObjId
  BY <1>1, NumberAssumption DEF StoreOK, Numbered
<1>5. \A p \in Positions(fl) : fl.objects[p[1]][p[2]].uhdmId \in 1 .. fl.objectId
  BY <1>1, <1>2, <1>3 DEF StoreOK, Numbered
<1>6. ASSUME NEW p \in Positions(fl), NEW q \in Positions(fl),
             fl.objects[p[1]][p[2]].uhdmId = fl.objects[q[1]][q[2]].uhdmId
      PROVE  p = q
  <2>1. f[p[1]][p[2]] = f[q[1]][q[2]]
    BY <1>2, <1>3, <1>6 DEF StoreOK, Numbered
  <2>2. p[1] = q[1]
    BY <1>2, <1>3, <2>1
  <2>3. p[2] = q[2]
    BY <1>3, <2>1, <2>2, PositionsAreIndices
  <2>4. QED
    BY <1>3, <2>2, <2>3
<1>7. \A t \in Type : \A i, j \in DOMAIN fl.objects[t] :
        i < j => fl.objects[t][i].uhdmId < fl.objects[t][j].uhdmId
  BY <1>1, <1>2 DEF StoreOK, Listed
<1>8. QED
  BY <1>1, <1>4, <1>5, <1>6, <1>7 DEF Recorded, fl

\* What a restore makes of the record at a position.
RestoredObject(fl, at, p) ==
  LET r == fl.objects[p[1]][p[2]]
      target(l) == at[<<l.type, Minus1(l.index) + 1>>]
  IN  [type |-> p[1], uhdmId |-> r.uhdmId,
       parent |-> IF IsUnset(r.parent) THEN Null ELSE target(r.parent),
       refs |-> {target(l) : l \in r.refs}]

\* The objects of a restored heap, with the ids they had in the file.
LEMMA RestoredAt ==
  ASSUME NEW fl, NEW at, \A p, q \in Positions(fl) : at[p] = at[q] => p = q
  PROVE  \A p \in Positions(fl) :
           RestoredHeap(fl, at)[at[p]] = RestoredObject(fl, at, p)
<1> DEFINE made == {at[p] : p \in Positions(fl)}
           from(a) == CHOOSE p \in Positions(fl) : at[p] = a
<1>1. RestoredHeap(fl, at) = [a \in made |-> RestoredObject(fl, at, from(a))]
  BY DEF RestoredHeap, RestoredObject
<1>2. \A p \in Positions(fl) : from(at[p]) = p
  OBVIOUS
<1> HIDE DEF from
<1>3. QED
  BY <1>1, <1>2

\* Restoring a file makes a store of it.
LEMMA RestoredStore ==
  ASSUME NEW fl, Recorded(fl), Readable(fl), NEW at \in [Positions(fl) -> Addr],
         \A p, q \in Positions(fl) : at[p] = at[q] => p = q
  PROVE  StoreOK(RestoredHeap(fl, at),
                 [t \in Type |-> [i \in DOMAIN fl.objects[t] |-> at[<<t, i>>]]],
                 fl.objectId)
<1> DEFINE h == RestoredHeap(fl, at)
           f == [t \in Type |-> [i \in DOMAIN fl.objects[t] |-> at[<<t, i>>]]]
           n == fl.objectId
<1>1. /\ fl \in SavedFile
      /\ \A t \in Type : fl.objects[t] \in Seq(Record)
      /\ n \in 0 .. MaxObjId
  BY NumberAssumption DEF Recorded, SavedFile
<1>2. LinksOK(fl)
  <2>1. \A t \in Type : \A i \in DOMAIN fl.objects[t] : fl.objects[t][i] \in Record
    BY <1>1
  <2>2. QED
    BY <2>1 DEF LinksOK, Record, Link
<1>3. HeapOK(h)
  BY <1>2, RestoredOK
<1>4. /\ DOMAIN h = {at[p] : p \in Positions(fl)}
      /\ \A p \in Positions(fl) :
           h[at[p]].type = p[1] /\ h[at[p]].uhdmId = fl.objects[p[1]][p[2]].uhdmId
  <2>1. DOMAIN h = {at[p] : p \in Positions(fl)}
    BY DEF RestoredHeap
  <2>2. ASSUME NEW p \in Positions(fl)
        PROVE  h[at[p]].type = p[1] /\ h[at[p]].uhdmId = fl.objects[p[1]][p[2]].uhdmId
    <3>1. h[at[p]] = RestoredObject(fl, at, p)
      BY RestoredAt
    <3>2. /\ RestoredObject(fl, at, p).type = p[1]
          /\ RestoredObject(fl, at, p).uhdmId = fl.objects[p[1]][p[2]].uhdmId
      BY DEF RestoredObject
    <3> HIDE DEF h
    <3>3. QED
      BY <3>1, <3>2
  <2>3. QED
    BY <2>1, <2>2
<1>5. /\ \A p \in Positions(fl) :
           p = <<p[1], p[2]>> /\ p[1] \in Type /\ p[2] \in DOMAIN fl.objects[p[1]]
      /\ \A t \in Type : \A i \in DOMAIN fl.objects[t] : <<t, i>> \in Positions(fl)
  BY PositionsAre
<1>6. \A t \in Type : /\ DOMAIN f[t] = DOMAIN fl.objects[t]
                      /\ \A i \in DOMAIN f[t] : f[t][i] = at[<<t, i>>]
  OBVIOUS
<1>7. f \in [Type -> Seq(Addr)]
  <2>1. ASSUME NEW t \in Type
        PROVE  [i \in DOMAIN fl.objects[t] |-> at[<<t, i>>]] \in Seq(Addr)
    <3>1. Len(fl.objects[t]) \in Nat /\ DOMAIN fl.objects[t] = 1 .. Len(fl.objects[t])
      BY <1>1, LenProperties
    <3>2. [i \in DOMAIN fl.objects[t] |-> at[<<t, i>>]] \in [1 .. Len(fl.objects[t]) -> Addr]
      BY <1>5, <3>1
    <3>3. QED
      BY <3>1, <3>2
  <2>2. QED
    BY <2>1
<1> HIDE DEF h, f, n
<1>8. Listed(h, f)
  <2>1. ASSUME NEW t \in Type, NEW i \in DOMAIN f[t]
        PROVE  /\ f[t][i] \in DOMAIN h /\ h[f[t][i]].type = t
               /\ h[f[t][i]].uhdmId = fl.objects[t][i].uhdmId
    <3>1. <<t, i>> \in Positions(fl) /\ f[t][i] = at[<<t, i>>]
      BY <1>5, <1>6
    <3>2. QED
      BY <1>4, <3>1
  <2>2. \A t \in Type : \A i, j \in DOMAIN f[t] :
          i < j => h[f[t][i]].uhdmId < h[f[t][j]].uhdmId
    BY <1>6, <2>1 DEF Recorded
  <2>3. ASSUME NEW a \in DOMAIN h
        PROVE  \E i \in DOMAIN f[h[a].type] : f[h[a].type][i] = a
    <3>1. PICK p \in Positions(fl) : a = at[p]
      BY <1>4
    <3>2. h[a].type = p[1] /\ p[2] \in DOMAIN f[p[1]] /\ f[p[1]][p[2]] = a
      BY <1>4, <1>5, <1>6, <3>1
    <3>3. QED
      BY <3>2
  <2>4. QED
    BY <1>7, <2>1, <2>2, <2>3 DEF Listed
<1>9. Numbered(h, n)
  <2>1. \A a \in DOMAIN h : h[a].uhdmId \in 1 .. n
    BY <1>4 DEF Recorded, n
  <2>2. \A a, b \in DOMAIN h : h[a].uhdmId = h[b].uhdmId => a = b
    BY <1>4 DEF Recorded
  <2>3. QED
    BY <1>1, <2>1, <2>2 DEF Numbered
<1>10. QED
  BY <1>3, <1>8, <1>9 DEF StoreOK, h, f, n

-----------------------------------------------------------------------------
(***************************************************************************)
(* The steps of the store.                                                 *)
(***************************************************************************)

\* A new object has the largest id, and comes last in its factory.
LEMMA MakeStep ==
  ASSUME StoreInv, IInv', NEW t \in Type, NEW a \in Addr, MakeObject(t, a)
  PROVE  StoreInv'
<1> DEFINE q == factory[t]
           id == objId + 1
<1>1. /\ HeapOK(heap) /\ Listed(heap, factory) /\ Numbered(heap, objId)
      /\ objId \in Nat /\ id \in 0 .. MaxObjId /\ id \in Nat /\ id > objId
  BY NumberAssumption DEF StoreInv, StoreOK, Numbered, MakeObject
<1>2. /\ a \notin Live
      /\ DOMAIN heap' = Live \cup {a}
      /\ heap'[a].type = t /\ heap'[a].uhdmId = id
      /\ \A b \in Live : heap'[b] = heap[b]
      /\ objId' = id
  BY DEF MakeObject, Free
<1>3. /\ q \in Seq(Addr) /\ Len(q) \in Nat /\ DOMAIN q = 1 .. Len(q)
      /\ Append(q, a) \in Seq(Addr)
      /\ DOMAIN Append(q, a) = 1 .. Len(q) + 1
      /\ \A i \in DOMAIN q : Append(q, a)[i] = q[i]
      /\ Append(q, a)[Len(q) + 1] = a
  <2>1. q \in Seq(Addr)
    BY <1>1 DEF Listed
  <2> HIDE DEF q
  <2>2. QED
    BY <2>1, LenProperties, AppendProperties
<1>4. /\ factory' \in [Type -> Seq(Addr)]
      /\ factory'[t] = Append(q, a)
      /\ \A u \in Type \ {t} : factory'[u] = factory[u]
  BY <1>1, <1>3 DEF MakeObject, Listed
<1>5. \A b \in Live : heap[b].uhdmId \in 1 .. objId
  BY <1>1 DEF Numbered, Live
<1> HIDE DEF q, id
<1>6. ASSUME NEW u \in Type, NEW i \in DOMAIN factory'[u]
      PROVE  /\ factory'[u][i] \in Live \cup {a}
             /\ heap'[factory'[u][i]].type = u
             /\ \A j \in DOMAIN factory'[u] :
                  i < j => heap'[factory'[u][i]].uhdmId < heap'[factory'[u][j]].uhdmId
  <2>1. \A k \in DOMAIN factory[u] :
          factory[u][k] \in Live /\ heap[factory[u][k]].type = u
    BY <1>1 DEF Listed, Live
  <2>2. \A k, l \in DOMAIN factory[u] :
          k < l => heap[factory[u][k]].uhdmId < heap[factory[u][l]].uhdmId
    BY <1>1 DEF Listed
  <2>3. CASE u # t
    <3>1. factory'[u] = factory[u]
      BY <1>4, <2>3
    <3>2. \A k \in DOMAIN factory[u] : heap'[factory[u][k]] = heap[factory[u][k]]
      BY <1>2, <2>1
    <3>3. QED
      BY <2>1, <2>2, <3>1, <3>2
  <2>4. CASE u = t /\ i \in DOMAIN q
    <3>1. factory'[u][i] = q[i] /\ q[i] \in Live /\ heap[q[i]].type = u
      BY <1>3, <1>4, <2>1, <2>4 DEF q
    <3>2. ASSUME NEW j \in DOMAIN factory'[u], i < j
          PROVE  heap'[factory'[u][i]].uhdmId < heap'[factory'[u][j]].uhdmId
      <4>1. CASE j \in DOMAIN q
        <5>1. factory'[u][j] = q[j] /\ q[j] \in Live
          BY <1>3, <1>4, <2>1, <2>4, <4>1 DEF q
        <5>2. heap[q[i]].uhdmId < heap[q[j]].uhdmId
          BY <2>2, <2>4, <3>2, <4>1 DEF q
        <5>3. QED
          BY <1>2, <3>1, <5>1, <5>2
      <4>2. CASE j \notin DOMAIN q
        <5>1. j = Len(q) + 1 /\ factory'[u][j] = a
          BY <1>3, <1>4, <2>4, <3>2, <4>2
        <5>2. heap[q[i]].uhdmId \in 1 .. objId
          BY <1>5, <3>1
        <5>3. QED
          BY <1>1, <1>2, <3>1, <5>1, <5>2
      <4>3. QED
        BY <4>1, <4>2
    <3>3. QED
      BY <1>2, <3>1, <3>2
  <2>5. CASE u = t /\ i \notin DOMAIN q
    <3>1. i = Len(q) + 1 /\ DOMAIN factory'[u] = 1 .. Len(q) + 1
      BY <1>3, <1>4, <2>5
    <3>2. factory'[u][i] = a
      BY <1>3, <1>4, <2>5, <3>1
    <3>3. \A j \in DOMAIN factory'[u] : ~ (i < j)
      BY <1>3, <3>1
    <3>4. QED
      BY <1>2, <2>5, <3>2, <3>3
  <2>6. QED
    BY <2>3, <2>4, <2>5
<1>7. ASSUME NEW b \in DOMAIN heap'
      PROVE  \E i \in DOMAIN factory'[heap'[b].type] : factory'[heap'[b].type][i] = b
  <2>1. CASE b = a
    <3>1. Len(q) + 1 \in DOMAIN Append(q, a)
      BY <1>3
    <3>2. QED
      BY <1>2, <1>3, <1>4, <2>1, <3>1
  <2>2. CASE b # a
    <3>1. b \in Live /\ heap'[b] = heap[b] /\ heap[b].type \in Type
      BY <1>1, <1>2, <2>2 DEF HeapOK, Live
    <3>2. PICK i \in DOMAIN factory[heap[b].type] : factory[heap[b].type][i] = b
      BY <1>1, <3>1 DEF Listed, Live
    <3>3. CASE heap[b].type # t
      BY <1>4, <3>1, <3>2, <3>3
    <3>4. CASE heap[b].type = t
      <4>1. i \in DOMAIN q /\ q[i] = b
        BY <3>2, <3>4 DEF q
      <4>2. i \in DOMAIN Append(q, a) /\ Append(q, a)[i] = b
        BY <1>3, <4>1
      <4>3. QED
        BY <1>4, <3>1, <3>4, <4>2
    <3>5. QED
      BY <3>3, <3>4
  <2>3. QED
    BY <2>1, <2>2
<1>8. Listed(heap', factory')
  BY <1>2, <1>4, <1>6, <1>7 DEF Listed
<1>9. Numbered(heap', objId')
  <2>1. \A b \in DOMAIN heap' : heap'[b].uhdmId \in 1 .. id
    BY <1>1, <1>2, <1>5
  <2>2. ASSUME NEW b \in DOMAIN heap', NEW c \in DOMAIN heap',
               heap'[b].uhdmId = heap'[c].uhdmId
        PROVE  b = c
    <3>1. \A d \in Live : heap[d].uhdmId # id
      BY <1>1, <1>5
    <3>2. QED
      BY <1>1, <1>2, <2>2, <3>1 DEF Numbered, Live
  <2>3. QED
    BY <1>1, <1>2, <2>1, <2>2 DEF Numbered
<1>10. HeapOK(heap')
  BY DEF IInv
<1>11. UNCHANGED <<gcEnabled, file, status, mishaps>>
  BY DEF MakeObject
<1>12. QED
  BY <1>8, <1>9, <1>10, <1>11 DEF StoreInv, StoreOK

\* Setting references changes nothing that the factories know of.
LEMMA RelinkedStore ==
  ASSUME NEW h, NEW g, NEW f, NEW n, StoreOK(h, f, n), HeapOK(g),
         DOMAIN g = DOMAIN h,
         \A a \in DOMAIN h : g[a].type = h[a].type /\ g[a].uhdmId = h[a].uhdmId
  PROVE  StoreOK(g, f, n)
<1>1. Listed(g, f)
  BY DEF StoreOK, Listed
<1>2. Numbered(g, n)
  BY DEF StoreOK, Numbered
<1>3. QED
  BY <1>1, <1>2 DEF StoreOK

\* What clients do to pointers keeps the invariant of the store.
LEMMA RelinkStep ==
  ASSUME StoreInv, IInv',
         \/ \E a \in Addr, b \in Addr \cup {Null} : SetParent(a, b)
         \/ \E a, b \in Addr : AddRef(a, b)
         \/ \E a \in Addr : DropRefs(a)
  PROVE  StoreInv'
<1>1. PICK a \in Live :
        /\ DOMAIN heap' = Live
        /\ \/ \E b : heap'[a] = [heap[a] EXCEPT !.parent = b]
           \/ \E b : heap'[a] = [heap[a] EXCEPT !.refs = b]
        /\ \A c \in Live \ {a} : heap'[c] = heap[c]
        /\ UNCHANGED <<factory, objId, gcEnabled, file, status, mishaps>>
  <2>1. CASE \E a \in Addr, b \in Addr \cup {Null} : SetParent(a, b)
    BY <2>1 DEF SetParent, Live
  <2>2. CASE \E a, b \in Addr : AddRef(a, b)
    BY <2>2 DEF AddRef, Live
  <2>3. CASE \E a \in Addr : DropRefs(a)
    BY <2>3 DEF DropRefs, Live
  <2>4. QED
    BY <2>1, <2>2, <2>3
<1>2. HasFields(heap[a])
  BY <1>1 DEF StoreInv, StoreOK, HeapOK, Live
<1>3. heap'[a].type = heap[a].type /\ heap'[a].uhdmId = heap[a].uhdmId
  BY <1>1, <1>2 DEF HasFields
<1>4. StoreOK(heap', factory, objId)
  <2>1. StoreOK(heap, factory, objId) /\ HeapOK(heap')
    BY DEF StoreInv, IInv
  <2>2. \A c \in Live : heap'[c].type = heap[c].type /\ heap'[c].uhdmId = heap[c].uhdmId
    BY <1>1, <1>3
  <2>3. QED
    BY <1>1, <2>1, <2>2, RelinkedStore DEF Live
<1>5. QED
  BY <1>1, <1>4 DEF StoreInv

\* Erase keeps it.
LEMMA EraseStep ==
  ASSUME StoreInv, NEW a \in Addr, Erase(a)
  PROVE  StoreInv'
<1>1. StoreOK(heap', factory', objId)
  BY EraseKeepsOK DEF StoreInv, Erase
<1>2. QED
  BY <1>1 DEF StoreInv, Erase

\* The store that a collection leaves, and the one that Save writes.
LEMMA CollectedStore ==
  ASSUME StoreInv
  PROVE  /\ StoreOK(Collected(heap), EraseIfNotIn(factory, Kept(heap)), objId)
         /\ StoreOK(HeapToSave, FactoryToSave, objId)
<1>1. StoreOK(Collected(heap), EraseIfNotIn(factory, Kept(heap)), objId)
  BY EraseKeepsOK DEF StoreInv, Collected
<1>2. QED
  BY <1>1 DEF StoreInv, HeapToSave, FactoryToSave

\* So do GarbageCollect and Save, interrupted or not.
LEMMA CollectOrSaveStep ==
  ASSUME StoreInv, GarbageCollect \/ Save \/ SaveInterrupted
  PROVE  StoreInv'
<1>1. mishaps' \subseteq {"erased", "skipped", "mixed"}
  BY DEF GarbageCollect, Save, SaveInterrupted, SaveSkipped, Skipped, StoreInv
<1>2. CASE UNCHANGED <<heap, factory, objId, gcEnabled, file>> /\ status' = "undefined"
  BY <1>1, <1>2 DEF StoreInv
<1>3. CASE /\ heap' = Collected(heap)
           /\ factory' = EraseIfNotIn(factory, Kept(heap))
           /\ UNCHANGED <<objId, gcEnabled, file, status>>
  BY <1>1, <1>3, CollectedStore DEF StoreInv
<1>4. CASE /\ heap' = HeapToSave
           /\ factory' = FactoryToSave
           /\ \/ file' = FileOf(HeapToSave, FactoryToSave, objId)
              \/ file' \in Leftovers
           /\ UNCHANGED <<objId, gcEnabled, status>>
  <2>1. StoreOK(HeapToSave, FactoryToSave, objId)
    BY CollectedStore
  <2>2. file' \in NotSaved \/ Recorded(file')
    BY <1>4, <2>1, FileRecorded DEF Leftovers, NotSaved, StoreInv
  <2>3. QED
    BY <1>1, <1>4, <2>1, <2>2 DEF StoreInv
<1>5. QED
  BY <1>2, <1>3, <1>4 DEF GarbageCollect, Save, SaveInterrupted, Undefined

\* So does Restore, of whatever file.
LEMMA RestoreStoreStep ==
  ASSUME StoreInv, NEW at \in AddressMaps, Restore(at)
  PROVE  StoreInv'
<1>1. CASE ~ Readable(file)
  BY <1>1 DEF Restore, Undefined, StoreInv
<1>2. CASE Readable(file)
  <2>1. /\ Recorded(file) /\ at \in [Positions(file) -> Addr]
        /\ \A p, q \in Positions(file) : at[p] = at[q] => p = q
    BY DEF Restore, AddressMaps, StoreInv
  <2>2. StoreOK(RestoredHeap(file, at),
                [t \in Type |-> [i \in DOMAIN file.objects[t] |-> at[<<t, i>>]]],
                file.objectId)
    BY <1>2, <2>1, RestoredStore
  <2>3. QED
    BY <1>2, <2>2 DEF Restore, StoreInv
<1>3. QED
  BY <1>1, <1>2

\* Purging, a restore that fails and a new process leave an empty store.
LEMMA PurgeStep ==
  ASSUME StoreInv, Purge \/ RestoreFails \/ Restart
  PROVE  StoreInv'
<1>1. heap' = NoObjects /\ factory' = Empty /\ objId' \in 0 .. MaxObjId
  BY NumberAssumption DEF Purge, RestoreFails, Restart, StoreInv, StoreOK, Numbered
<1>2. file' = file \/ file' \in NotSaved
  BY DEF Purge, RestoreFails, Restart, NotSaved
<1>3. /\ gcEnabled' \in BOOLEAN /\ status' \in {"running", "undefined"}
      /\ mishaps' \subseteq {"erased", "skipped", "mixed"}
  BY DEF Purge, RestoreFails, Restart, StoreInv
<1>4. StoreOK(heap', factory', objId')
  BY <1>1, NoObjectsStore
<1>5. QED
  BY <1>2, <1>3, <1>4 DEF StoreInv

\* One step of the store keeps both invariants.
LEMMA StoreStep ==
  ASSUME IInv, StoreInv, [Next]_vars
  PROVE  StoreInv'
<1>1. CASE \/ \E t \in Type, a \in Addr : MakeObject(t, a)
           \/ \E a \in Addr, b \in Addr \cup {Null} : SetParent(a, b)
           \/ \E a, b \in Addr : AddRef(a, b)
           \/ \E a \in Addr : DropRefs(a) \/ Erase(a)
  <2>1. IInv'
    BY <1>1, ClientStep
  <2>2. CASE \E t \in Type, a \in Addr : MakeObject(t, a)
    BY <2>1, <2>2, MakeStep
  <2>3. CASE \E a \in Addr : Erase(a)
    BY <2>3, EraseStep
  <2>4. QED
    BY <1>1, <2>1, <2>2, <2>3, RelinkStep
<1>2. CASE \E b \in BOOLEAN : SetGCEnabled(b)
  BY <1>2 DEF SetGCEnabled, StoreInv
<1>3. CASE GarbageCollect \/ Save \/ SaveInterrupted
  BY <1>3, CollectOrSaveStep
<1>4. CASE Purge \/ RestoreFails \/ Restart
  BY <1>4, PurgeStep
<1>5. CASE \E at \in AddressMaps : Restore(at)
  BY <1>5, RestoreStoreStep
<1>6. CASE OtherVersionSaves
  BY <1>6 DEF OtherVersionSaves, StoreInv, NotSaved
<1>7. CASE RestoreMixed \/ UNCHANGED vars
  BY <1>7 DEF RestoreMixed, Undefined, vars, StoreInv
<1>8. QED
  BY <1>1, <1>2, <1>3, <1>4, <1>5, <1>6, <1>7 DEF Next

\* The inductive invariant holds in every state of the store.
THEOREM StoreInvariance == Spec => []StoreInv
<1>1. Init => StoreInv
  BY NoObjectsStore, NumberAssumption DEF Init, StoreInv, NotSaved
<1>2. IInv /\ StoreInv /\ [Next]_vars => StoreInv'
  BY StoreStep
<1>3. QED
  BY Invariance, <1>1, <1>2, PTL DEF Spec

\* Every field of the store keeps its type: objects point at addresses, also
\* freed ones, and a file is one that Save wrote or cannot be read.
THEOREM TypeCorrect == Spec => []TypeOK
<1>1. ASSUME StoreInv PROVE TypeOK
  <2>1. \A a \in Live : heap[a] \in Object
    BY <1>1 DEF StoreInv, StoreOK, HeapOK, HasFields, Numbered, Object, Live
  <2>2. Live \subseteq Addr /\ factory \in [Type -> Seq(Addr)] /\ objId \in Nat
    BY <1>1, NumberAssumption DEF StoreInv, StoreOK, HeapOK, Listed, Numbered, Live
  <2>3. file \in SavedFile \cup NotSaved
    BY <1>1 DEF StoreInv, Recorded
  <2>4. QED
    BY <1>1, <2>1, <2>2, <2>3 DEF TypeOK, StoreInv
<1>2. QED
  BY StoreInvariance, <1>1, PTL

\* No two live objects ever share a UhdmId and none has one that is still to be
\* given out, whatever was purged, collected, and restored from an older file.
THEOREM IdsAreUnique == Spec => []UniqueIds
<1>1. StoreInv => UniqueIds
  BY DEF StoreInv, StoreOK, Numbered, UniqueIds, Live
<1>2. QED
  BY StoreInvariance, <1>1, PTL

\* The factory of a type always lists the live objects of that type, each once
\* and in the order they were made, after any collection, erasure or restore.
THEOREM FactoriesAreExact == Spec => []FactoriesListHeap
<1>1. ASSUME StoreInv PROVE FactoriesListHeap
  <2>1. HeapOK(heap) /\ Listed(heap, factory)
    BY <1>1 DEF StoreInv, StoreOK
  <2>2. ASSUME NEW t \in Type
        PROVE  {factory[t][i] : i \in DOMAIN factory[t]} = {a \in Live : heap[a].type = t}
    BY <2>1 DEF Listed, Live
  <2>3. \A t \in Type : \A i, j \in DOMAIN factory[t] :
          i < j => heap[factory[t][i]].uhdmId < heap[factory[t][j]].uhdmId
    BY <2>1 DEF Listed
  <2>4. QED
    BY <2>2, <2>3 DEF FactoriesListHeap
<1>2. QED
  BY StoreInvariance, <1>1, PTL

-----------------------------------------------------------------------------
(***************************************************************************)
(* Without a mishap nothing is undefined.                                  *)
(***************************************************************************)

\* What the readers make of an index: kBadIndex of the index of no field, and
\* the position that Save wrote of every other one.
LEMMA Minus1Is ==
  /\ Minus1(0) = BadIndex
  /\ \A i \in 1 .. BadIndex : Minus1(i) = i - 1
<1>1. BadIndex \in Nat
  BY NumberAssumption
<1>2. (0 + BadIndex) % (BadIndex + 1) = BadIndex
  BY <1>1
<1>3. ASSUME NEW i \in 1 .. BadIndex
      PROVE  (i + BadIndex) % (BadIndex + 1) = i - 1
  <2>1. i + BadIndex = (BadIndex + 1) * 1 + (i - 1)
    BY <1>1
  <2>2. 0 <= i - 1 /\ i - 1 < BadIndex + 1
    BY <1>1
  <2>3. QED
    BY <1>1, <2>1, <2>2
<1>4. QED
  BY <1>2, <1>3 DEF Minus1

\* The file of a store in which every pointer leads to a live object.
LEMMA FileReadable ==
  ASSUME NEW h, NEW f, NEW n, StoreOK(h, f, n), Complete(h)
  PROVE  Readable(FileOf(h, f, n))
<1> DEFINE fl == FileOf(h, f, n)
<1>1. \A t \in Type :
        /\ DOMAIN fl.objects[t] = DOMAIN f[t]
        /\ \A i \in DOMAIN f[t] : fl.objects[t][i] = RecordOf(h, f, f[t][i])
  BY FileOfProperties
<1> HIDE DEF fl
<1>2. ASSUME NEW b \in DOMAIN h
      PROVE  InRange(fl, LinkTo(h, f, b))
  <2> DEFINE l == LinkTo(h, f, b)
  <2>1. /\ l.type = h[b].type /\ l.index \in DOMAIN f[h[b].type]
        /\ l.index \in 1 .. BadIndex - 1
    BY LinkProperties
  <2>2. h[b].type \in Type /\ BadIndex \in Nat
    BY NumberAssumption DEF StoreOK, HeapOK
  <2> HIDE DEF l
  <2>3. l.index \in 1 .. BadIndex /\ Minus1(l.index) = l.index - 1
    BY <2>1, <2>2, Minus1Is
  <2>4. Minus1(l.index) + 1 = l.index
    BY <2>1, <2>2, <2>3
  <2>5. InRange(fl, l)
    BY <1>1, <2>1, <2>2, <2>4 DEF InRange
  <2>6. QED
    BY <2>5 DEF l
<1>3. IsUnset(NoLink)
  BY Minus1Is DEF IsUnset, NoLink
<1>4. ASSUME NEW p \in Positions(fl)
      PROVE  LET r == fl.objects[p[1]][p[2]] IN
             /\ IsUnset(r.parent) \/ InRange(fl, r.parent)
             /\ \A l \in r.refs : InRange(fl, l)
  <2> DEFINE a == f[p[1]][p[2]]
  <2>1. p[1] \in Type /\ p[2] \in DOMAIN f[p[1]]
    BY <1>1, PositionsAre
  <2>2. a \in DOMAIN h /\ fl.objects[p[1]][p[2]] = RecordOf(h, f, a)
    BY <1>1, <2>1 DEF StoreOK, Listed
  <2> HIDE DEF a
  <2>3. /\ h[a].refs \subseteq DOMAIN h
        /\ h[a].parent # Null => h[a].parent \in DOMAIN h
    BY <2>2 DEF Complete, Targets
  <2>4. /\ h[a].parent = Null => RecordOf(h, f, a).parent = NoLink
        /\ h[a].parent # Null => RecordOf(h, f, a).parent = LinkTo(h, f, h[a].parent)
        /\ RecordOf(h, f, a).refs = {LinkTo(h, f, b) : b \in h[a].refs}
    BY <2>2, RecordProperties
  <2>5. QED
    BY <1>2, <1>3, <2>2, <2>3, <2>4
<1>5. QED
  BY <1>4 DEF Readable, fl

\* Before the first mishap no pointer dangles and every index in the file is in
\* range, so that neither the collector nor Save nor Restore uses a freed object
\* or reads past the end of a factory.
IsSound ==
  /\ Complete(heap)
  /\ file \notin NotSaved => Readable(file)
  /\ file # MixedFile
  /\ status = "running"

DefinedInv == mishaps = {} => IsSound

\* A collection that skips nothing, of a store in which no pointer dangles.
LEMMA CollectedComplete ==
  ASSUME NEW h, HeapOK(h), Complete(h), Skipped(h) = {}
  PROVE  ~ VisitsFreed(h) /\ Complete(Collected(h))
<1>1. ~ VisitsFreed(h)
  <2>1. Visited(h) \subseteq DOMAIN h
    BY ReachedAreNodes DEF Visited, PointsAt
  <2>2. QED
    BY <2>1 DEF VisitsFreed, Complete
<1>2. Pointing(Collected(h))
  BY <1>1, CollectedOK
<1>3. \A a \in DOMAIN Collected(h) : Collected(h)[a] = h[a]
  BY DEF Collected, Restricted
<1>4. \A a \in DOMAIN Collected(h) :
        h[a].type \in Uncollected => Targets(h[a]) \subseteq DOMAIN Collected(h)
  BY DEF Skipped
<1>5. QED
  BY <1>1, <1>2, <1>3, <1>4 DEF Pointing, Complete

\* No step but a mishap leads to an unsound state.
LEMMA DefinedStep ==
  ASSUME IInv, StoreInv, DefinedInv, [Next]_vars
  PROVE  DefinedInv'
<1> SUFFICES ASSUME mishaps' = {}
             PROVE  IsSound'
  BY DEF DefinedInv
<1>1. mishaps = {}
  BY DEF Next, vars, MakeObject, SetParent, AddRef, DropRefs, Erase, SetGCEnabled,
         GarbageCollect, Save, SaveInterrupted, Purge, Restore, RestoreFails,
         RestoreMixed, Restart, OtherVersionSaves
<1>2. IsSound
  BY <1>1 DEF DefinedInv
<1>3. HeapOK(heap) /\ StoreOK(heap, factory, objId)
  BY DEF StoreInv, StoreOK
<1>4. MixedFile \in NotSaved /\ OtherFile \in NotSaved /\ TornFile \in NotSaved
  BY DEF NotSaved
<1>5. CASE /\ UNCHANGED <<file, status>>
           /\ Complete(heap')
  BY <1>2, <1>5 DEF IsSound
<1>6. CASE \E t \in Type, a \in Addr : MakeObject(t, a)
  <2>1. PICK t \in Type, a \in Addr : MakeObject(t, a)
    BY <1>6
  <2>2. /\ DOMAIN heap' = DOMAIN heap \cup {a}
        /\ heap'[a].parent = Null /\ heap'[a].refs = {}
        /\ \A b \in DOMAIN heap : heap'[b] = heap[b]
        /\ UNCHANGED <<file, status>>
    BY <2>1 DEF MakeObject, Free, Live
  <2>3. Complete(heap')
    BY <1>2, <2>2 DEF IsSound, Complete, Targets
  <2>4. QED
    BY <1>5, <2>2, <2>3
<1>7. CASE \/ \E a \in Addr, b \in Addr \cup {Null} : SetParent(a, b)
           \/ \E a, b \in Addr : AddRef(a, b)
           \/ \E a \in Addr : DropRefs(a)
  <2>1. PICK a \in Live :
          /\ DOMAIN heap' = Live
          /\ \/ \E b \in Live \cup {Null} : heap'[a] = [heap[a] EXCEPT !.parent = b]
             \/ \E b \in Live : heap'[a] = [heap[a] EXCEPT !.refs = @ \cup {b}]
             \/ heap'[a] = [heap[a] EXCEPT !.refs = {}]
          /\ \A c \in Live \ {a} : heap'[c] = heap[c]
          /\ UNCHANGED <<file, status>>
    <3>1. CASE \E a \in Addr, b \in Addr \cup {Null} : SetParent(a, b)
      BY <3>1 DEF SetParent, Live
    <3>2. CASE \E a, b \in Addr : AddRef(a, b)
      BY <3>2 DEF AddRef, Live
    <3>3. CASE \E a \in Addr : DropRefs(a)
      BY <3>3 DEF DropRefs, Live
    <3>4. QED
      BY <1>7, <3>1, <3>2, <3>3
  <2>2. HasFields(heap[a]) /\ Targets(heap[a]) \subseteq Live
    BY <1>2, <1>3, <2>1 DEF IsSound, Complete, HeapOK, Live
  <2>3. Targets(heap'[a]) \subseteq Live
    BY <2>1, <2>2 DEF HasFields, Targets
  <2>4. Complete(heap')
    BY <1>2, <2>1, <2>3 DEF IsSound, Complete, Live
  <2>5. QED
    BY <1>5, <2>1, <2>4
<1>8. CASE \E a \in Addr : Erase(a)
  <2>1. PICK a \in Addr : Erase(a)
    BY <1>8
  <2>2. /\ DOMAIN heap' = Live \ {a} /\ \A b \in Live \ {a} : heap'[b] = heap[b]
        /\ UNCHANGED <<file, status>>
    BY <2>1 DEF Erase, Restricted, Live
  <2>3. ~ IsPointedAt(a)
    BY <2>1 DEF Erase
  <2>4. Complete(heap')
    BY <1>2, <2>2, <2>3 DEF IsSound, Complete, IsPointedAt, Live
  <2>5. QED
    BY <1>5, <2>2, <2>4
<1>9. CASE GarbageCollect
  <2>1. Skipped(heap) = {} \/ VisitsFreed(heap)
    BY <1>9 DEF GarbageCollect
  <2>2. ~ VisitsFreed(heap)
    <3>1. Visited(heap) \subseteq DOMAIN heap
      BY ReachedAreNodes DEF Visited, PointsAt
    <3>2. QED
      BY <1>2, <3>1 DEF VisitsFreed, IsSound, Complete
  <2>3. Complete(Collected(heap))
    BY <1>2, <1>3, <2>1, <2>2, CollectedComplete DEF IsSound
  <2>4. QED
    BY <1>5, <1>9, <2>2, <2>3 DEF GarbageCollect
<1>10. CASE Save \/ SaveInterrupted
  <2>1. SaveSkipped = {}
    BY <1>10 DEF Save, SaveInterrupted
  <2>2. Complete(HeapToSave) /\ ~ (gcEnabled /\ VisitsFreed(heap))
    BY <1>2, <1>3, <2>1, CollectedComplete DEF SaveSkipped, HeapToSave, IsSound
  <2>3. ~ CannotSave
    BY <2>2 DEF CannotSave, SavesFreed, Targets, Complete
  <2>4. StoreOK(HeapToSave, FactoryToSave, objId)
    BY CollectedStore
  <2>5. heap' = HeapToSave /\ status' = status
    BY <1>10, <2>3 DEF Save, SaveInterrupted
  <2>6. CASE Save
    <3>1. file' = FileOf(HeapToSave, FactoryToSave, objId)
      BY <2>3, <2>6 DEF Save
    <3>2. Readable(file')
      BY <2>2, <2>4, <3>1, FileReadable
    <3>3. file' \in SavedFile
      BY <2>4, <3>1, FileRecorded DEF Recorded
    <3>4. file' # MixedFile
      BY <1>4, <3>3, FileAssumption
    <3>5. QED
      BY <1>2, <2>2, <2>5, <3>2, <3>4 DEF IsSound
  <2>7. CASE SaveInterrupted
    <3>1. file' \in Leftovers /\ file' # MixedFile
      BY <2>7 DEF SaveInterrupted
    <3>2. file' \in {file, TornFile}
      BY <3>1 DEF Leftovers
    <3>3. QED
      BY <1>2, <1>4, <2>2, <2>5, <3>1, <3>2 DEF IsSound
  <2>8. QED
    BY <1>10, <2>6, <2>7
<1>11. CASE \E at \in AddressMaps : Restore(at)
  <2>1. PICK at \in AddressMaps : Restore(at)
    BY <1>11
  <2>2. file \notin NotSaved /\ Readable(file) /\ at \in [Positions(file) -> Addr]
    BY <1>2, <2>1 DEF Restore, AddressMaps, IsSound
  <2>3. Complete(RestoredHeap(file, at))
    BY <2>2, RestoredOK DEF IInv
  <2>4. heap' = RestoredHeap(file, at) /\ UNCHANGED <<file, status>>
    BY <2>1, <2>2 DEF Restore
  <2>5. QED
    BY <1>5, <2>3, <2>4
<1>12. CASE Purge \/ RestoreFails \/ Restart
  <2>1. heap' = NoObjects /\ UNCHANGED <<file, status>>
    BY <1>2, <1>12 DEF Purge, RestoreFails, Restart, Running, IsSound
  <2>2. QED
    BY <1>5, <2>1, EmptyComplete
<1>13. CASE OtherVersionSaves
  BY <1>2, <1>4, <1>13, FileAssumption DEF OtherVersionSaves, IsSound
<1>14. CASE RestoreMixed
  BY <1>2, <1>14 DEF RestoreMixed, IsSound
<1>15. CASE (\E b \in BOOLEAN : SetGCEnabled(b)) \/ UNCHANGED vars
  BY <1>2, <1>5, <1>15 DEF SetGCEnabled, vars, IsSound
<1>16. QED
  BY <1>6, <1>7, <1>8, <1>9, <1>10, <1>11, <1>12, <1>13, <1>14, <1>15 DEF Next

\* The program uses a freed object, reads past the end of a factory or takes a
\* mixed file for a design only after one of the three mishaps: a client has
\* erased an object that another points at, a collection has kept an object of a
\* skipped type and deleted one that it points at, or a save over an older file
\* has been interrupted.  This holds for any set of skipped types, across saves,
\* restores, failures and restarts.
THEOREM OnlyMishapsAreUndefined == Spec => []AlwaysDefined
<1>1. Init => DefinedInv
  BY EmptyComplete, FileAssumption DEF Init, DefinedInv, IsSound, NotSaved
<1>2. IInv /\ StoreInv /\ DefinedInv /\ [Next]_vars => DefinedInv'
  BY DefinedStep
<1>3. DefinedInv => AlwaysDefined
  BY DEF DefinedInv, IsSound, AlwaysDefined
<1>4. QED
  BY Invariance, StoreInvariance, <1>1, <1>2, <1>3, PTL DEF Spec

-----------------------------------------------------------------------------
(***************************************************************************)
(* The object store implements ObjectStore, for any number of objects, any *)
(* types and any set of types that the collector skips: every step maps to *)
(* a step of the graph of ids.  The mapping is looked at piece by piece,   *)
(* for a heap, for what a collection leaves of it, and for a file; the     *)
(* invariants of the other modules of proofs make its CHOOSEs unambiguous. *)
(***************************************************************************)
\* The object with the id of a, in the graph of ids of a heap.
EntryOf(h, a) == [type |-> h[a].type, parent |-> IdAt(h, h[a].parent),
                  refs |-> {IdAt(h, b) : b \in h[a].refs}]

Ids(h, S) == {h[a].uhdmId : a \in S}

-----------------------------------------------------------------------------
(***************************************************************************)
(* A heap as a graph of ids.                                               *)
(***************************************************************************)
\* The entry of an id is that of the one object with this id.
LEMMA StoreInAt ==
  ASSUME NEW h, NEW f, NEW n, StoreOK(h, f, n)
  PROVE  /\ StoreIn(h) = [i \in Ids(h, DOMAIN h) |-> StoreIn(h)[i]]
         /\ \A a \in DOMAIN h : StoreIn(h)[h[a].uhdmId] = EntryOf(h, a)
<1> DEFINE from(i) == CHOOSE a \in DOMAIN h : h[a].uhdmId = i
<1>1. StoreIn(h) = [i \in Ids(h, DOMAIN h) |-> EntryOf(h, from(i))]
  BY DEF StoreIn, EntryOf, Ids
<1>2. \A a \in DOMAIN h : from(h[a].uhdmId) = a
  BY DEF StoreOK, Numbered
<1> HIDE DEF from
<1>3. \A a \in DOMAIN h : h[a].uhdmId \in Ids(h, DOMAIN h)
  BY DEF Ids
<1>4. QED
  BY <1>1, <1>2, <1>3

\* Every object has an id of its own, which null has not.
LEMMA IdProperties ==
  ASSUME NEW h, NEW f, NEW n, StoreOK(h, f, n)
  PROVE  /\ IdAt(h, Null) = 0
         /\ \A a \in DOMAIN h : /\ a # Null /\ IdAt(h, a) = h[a].uhdmId
                                /\ h[a].uhdmId # 0 /\ h[a].uhdmId \in Nat
         /\ \A a, b \in DOMAIN h : h[a].uhdmId = h[b].uhdmId => a = b
         /\ \A S \in SUBSET DOMAIN h : \A a \in DOMAIN h :
              h[a].uhdmId \in Ids(h, S) <=> a \in S
<1>1. \A a \in DOMAIN h : a # Null
  BY AddressAssumption DEF StoreOK, HeapOK
<1>2. \A a \in DOMAIN h : h[a].uhdmId \in 1 .. n /\ n \in Nat
  BY NumberAssumption DEF StoreOK, Numbered
<1>3. \A a, b \in DOMAIN h : h[a].uhdmId = h[b].uhdmId => a = b
  BY DEF StoreOK, Numbered
<1>4. QED
  BY <1>1, <1>2, <1>3 DEF IdAt, Ids

\* The ids an object refers to are those of the objects it points at.
LEMMA TargetIds ==
  ASSUME NEW h, NEW f, NEW n, StoreOK(h, f, n), Complete(h), NEW a \in DOMAIN h
  PROVE  Abstract!TargetsOf(StoreIn(h), h[a].uhdmId) = Ids(h, Targets(h[a]))
<1> DEFINE e == EntryOf(h, a)
<1>1. StoreIn(h)[h[a].uhdmId] = e
  BY StoreInAt
<1>2. e.refs = {IdAt(h, b) : b \in h[a].refs} /\ e.parent = IdAt(h, h[a].parent)
  BY DEF EntryOf
<1> HIDE DEF e
<1>3. /\ h[a].refs \subseteq DOMAIN h
      /\ h[a].parent # Null => h[a].parent \in DOMAIN h
  BY DEF Complete, Targets
<1>4. e.refs = Ids(h, h[a].refs)
  BY <1>2, <1>3, IdProperties DEF Ids
<1>5. {e.parent} \ {0} = Ids(h, {h[a].parent} \ {Null})
  BY <1>2, <1>3, IdProperties DEF Ids
<1>6. QED
  BY <1>1, <1>4, <1>5 DEF Abstract!TargetsOf, Targets, Ids

\* The graph of the ids is that of the objects.
LEMMA GraphIds ==
  ASSUME NEW h, NEW f, NEW n, StoreOK(h, f, n), Complete(h)
  PROVE  /\ DOMAIN Abstract!GraphOf(StoreIn(h)) = Ids(h, DOMAIN h)
         /\ \A a \in DOMAIN h :
              Abstract!GraphOf(StoreIn(h))[h[a].uhdmId] = Ids(h, Targets(h[a]))
<1>1. DOMAIN StoreIn(h) = Ids(h, DOMAIN h)
  BY StoreInAt
<1>2. \A a \in DOMAIN h : h[a].uhdmId \in Ids(h, DOMAIN h)
  BY DEF Ids
<1>3. QED
  BY <1>1, <1>2, TargetIds DEF Abstract!GraphOf

\* A set of objects is closed under their pointers if its ids are.
LEMMA ClosedIds ==
  ASSUME NEW h, NEW f, NEW n, StoreOK(h, f, n), Complete(h), NEW S \in SUBSET DOMAIN h
  PROVE  Abstract!IsClosed(Abstract!GraphOf(StoreIn(h)), Ids(h, S))
           <=> \A a \in S : Targets(h[a]) \subseteq S
<1> DEFINE g == Abstract!GraphOf(StoreIn(h))
<1>1. /\ DOMAIN g = Ids(h, DOMAIN h)
      /\ \A a \in DOMAIN h : g[h[a].uhdmId] = Ids(h, Targets(h[a]))
  BY GraphIds
<1> HIDE DEF g
<1>2. \A a \in DOMAIN h : Targets(h[a]) \subseteq DOMAIN h
  BY DEF Complete
<1>3. \A a \in S : Ids(h, Targets(h[a])) \subseteq Ids(h, DOMAIN h)
  BY <1>2 DEF Ids
<1>4. Abstract!IsClosed(g, Ids(h, S))
        <=> \A a \in S : Ids(h, Targets(h[a])) \subseteq Ids(h, S)
  <2>1. \A i \in Ids(h, S) : \E a \in S : i = h[a].uhdmId
    BY DEF Ids
  <2>2. \A a \in S : h[a].uhdmId \in Ids(h, S)
    BY DEF Ids
  <2>3. \A a \in S : g[h[a].uhdmId] \cap DOMAIN g = Ids(h, Targets(h[a]))
    BY <1>1, <1>3
  <2>4. QED
    BY <2>1, <2>2, <2>3 DEF Abstract!IsClosed
<1>5. ASSUME NEW a \in S
      PROVE  Ids(h, Targets(h[a])) \subseteq Ids(h, S) <=> Targets(h[a]) \subseteq S
  <2>1. \A b \in Targets(h[a]) :
          b \in DOMAIN h /\ h[b].uhdmId \in Ids(h, Targets(h[a]))
    BY <1>2 DEF Ids
  <2>2. \A b \in Targets(h[a]) : h[b].uhdmId \in Ids(h, S) <=> b \in S
    BY <2>1, IdProperties
  <2>3. QED
    BY <2>1, <2>2 DEF Ids
<1>6. QED
  BY <1>4, <1>5 DEF g

\* What must be kept of the graph is among what the traversal visits.
LEMMA MustKeepIds ==
  ASSUME NEW h, NEW f, NEW n, StoreOK(h, f, n), Complete(h)
  PROVE  Abstract!MustKeep(StoreIn(h)) \subseteq Ids(h, Visited(h))
<1> DEFINE g == Abstract!GraphOf(StoreIn(h))
           roots == {i \in DOMAIN StoreIn(h) : StoreIn(h)[i].type = Design}
           S == Ids(h, Visited(h))
<1>1. Visited(h) \subseteq DOMAIN h /\ Designs(h) \subseteq Visited(h)
  BY ReachedAreNodes, ReachedHasRoots DEF Visited, PointsAt, Designs
<1>2. \A a \in Visited(h) : Targets(h[a]) \subseteq Visited(h)
  <2>1. IsClosed(PointsAt(h), Visited(h))
    BY ReachedIsClosed DEF Visited
  <2>2. QED
    BY <1>1, <2>1 DEF IsClosed, PointsAt, Complete
<1>3. Abstract!IsClosed(g, S)
  BY <1>1, <1>2, ClosedIds
<1>4. roots \subseteq S
  <2>1. ASSUME NEW i \in roots PROVE i \in S
    <3>1. i \in Ids(h, DOMAIN h)
      BY StoreInAt
    <3>2. PICK a \in DOMAIN h : i = h[a].uhdmId
      BY <3>1 DEF Ids
    <3>3. StoreIn(h)[i] = EntryOf(h, a) /\ StoreIn(h)[i].type = Design
      BY <2>1, <3>2, StoreInAt
    <3>4. h[a].type = Design
      BY <3>3 DEF EntryOf
    <3>5. QED
      BY <1>1, <3>2, <3>4 DEF Designs, Ids
  <2>2. QED
    BY <2>1
<1>5. S \in SUBSET DOMAIN g
  <2>1. DOMAIN g = Ids(h, DOMAIN h)
    BY GraphIds
  <2>2. Ids(h, Visited(h)) \subseteq Ids(h, DOMAIN h)
    BY <1>1 DEF Ids
  <2> HIDE DEF g
  <2>3. QED
    BY <2>1, <2>2
<1> HIDE DEF S, g, roots
<1>6. Abstract!MustKeep(StoreIn(h)) = Abstract!Reached(g, roots)
  BY DEF Abstract!MustKeep, g, roots
<1>7. QED
  BY <1>3, <1>4, <1>5, <1>6 DEF Abstract!Reached, S

\* Deleting objects nothing that stays points at.
LEMMA RestrictedIn ==
  ASSUME NEW h, NEW f, NEW n, StoreOK(h, f, n), Complete(h),
         NEW keep \in SUBSET DOMAIN h, Complete(Restricted(h, keep))
  PROVE  StoreIn(Restricted(h, keep)) = Abstract!Only(StoreIn(h), Ids(h, keep))
<1> DEFINE g == Restricted(h, keep)
<1>1. DOMAIN g = keep /\ \A a \in keep : g[a] = h[a]
  BY DEF Restricted
<1>2. StoreOK(g, EraseIfNotIn(f, keep), n)
  BY EraseKeepsOK
<1> HIDE DEF g
<1>3. Ids(g, DOMAIN g) = Ids(h, keep)
  BY <1>1 DEF Ids
<1>4. ASSUME NEW i \in Ids(h, keep)
      PROVE  StoreIn(g)[i] = StoreIn(h)[i]
  <2>1. PICK a \in keep : i = h[a].uhdmId
    BY DEF Ids
  <2>2. StoreIn(g)[i] = EntryOf(g, a) /\ StoreIn(h)[i] = EntryOf(h, a)
    BY <1>1, <1>2, <2>1, StoreInAt
  <2>3. h[a].refs \subseteq keep /\ h[a].parent \in keep \cup {Null}
    BY <1>1, <2>1 DEF Complete, Targets, g
  <2>4. \A b \in keep \cup {Null} : IdAt(g, b) = IdAt(h, b)
    BY <1>1 DEF IdAt
  <2>5. {IdAt(g, b) : b \in h[a].refs} = {IdAt(h, b) : b \in h[a].refs}
    BY <2>3, <2>4
  <2>6. EntryOf(g, a) = EntryOf(h, a)
    BY <1>1, <2>3, <2>4, <2>5 DEF EntryOf
  <2>7. QED
    BY <2>2, <2>6
<1>5. StoreIn(g) = [i \in Ids(h, keep) |-> StoreIn(g)[i]]
  BY <1>2, <1>3, StoreInAt
<1>6. QED
  BY <1>4, <1>5 DEF Abstract!Only, g

-----------------------------------------------------------------------------
(***************************************************************************)
(* A file as a graph of ids.                                               *)
(***************************************************************************)
RecordEntry(fl, p) == [type |-> p[1], parent |-> IdIn(fl, RecordAt(fl, p).parent),
                       refs |-> {IdIn(fl, l) : l \in RecordAt(fl, p).refs}]

RecordIds(fl) == {RecordAt(fl, p).uhdmId : p \in Positions(fl)}

\* What a file holds, read as a store, record by record.
LEMMA StoreInFileAt ==
  ASSUME NEW fl, Recorded(fl)
  PROVE  /\ StoreInFile(fl) = [i \in RecordIds(fl) |-> StoreInFile(fl)[i]]
         /\ \A p \in Positions(fl) :
              StoreInFile(fl)[RecordAt(fl, p).uhdmId] = RecordEntry(fl, p)
<1> DEFINE from(i) == CHOOSE p \in Positions(fl) : RecordAt(fl, p).uhdmId = i
<1>1. StoreInFile(fl) = [i \in RecordIds(fl) |-> RecordEntry(fl, from(i))]
  BY DEF StoreInFile, RecordEntry, RecordIds
<1>2. \A p \in Positions(fl) : from(RecordAt(fl, p).uhdmId) = p
  BY DEF Recorded, RecordAt
<1> HIDE DEF from
<1>3. \A p \in Positions(fl) : RecordAt(fl, p).uhdmId \in RecordIds(fl)
  BY DEF RecordIds
<1>4. QED
  BY <1>1, <1>2, <1>3

\* The graph of a file and that of a heap are the same if the objects and the
\* records correspond.
LEMMA SameStore ==
  ASSUME NEW h, NEW f, NEW n, StoreOK(h, f, n), NEW fl, Recorded(fl),
         \A a \in DOMAIN h : \E p \in Positions(fl) :
           RecordAt(fl, p).uhdmId = h[a].uhdmId,
         \A p \in Positions(fl) : \E a \in DOMAIN h :
           /\ RecordAt(fl, p).uhdmId = h[a].uhdmId
           /\ RecordEntry(fl, p) = EntryOf(h, a)
  PROVE  StoreInFile(fl) = StoreIn(h)
<1>1. RecordIds(fl) = Ids(h, DOMAIN h)
  <2>1. \A i \in RecordIds(fl) : i \in Ids(h, DOMAIN h)
    BY DEF RecordIds, Ids
  <2>2. \A i \in Ids(h, DOMAIN h) : i \in RecordIds(fl)
    BY DEF RecordIds, Ids
  <2>3. QED
    BY <2>1, <2>2
<1>2. ASSUME NEW i \in RecordIds(fl)
      PROVE  StoreInFile(fl)[i] = StoreIn(h)[i]
  <2>1. PICK p \in Positions(fl) : i = RecordAt(fl, p).uhdmId
    BY DEF RecordIds
  <2>2. PICK a \in DOMAIN h : /\ i = h[a].uhdmId
                             /\ RecordEntry(fl, p) = EntryOf(h, a)
    BY <2>1
  <2>3. QED
    BY <2>1, <2>2, StoreInAt, StoreInFileAt
<1>3. /\ StoreInFile(fl) = [i \in RecordIds(fl) |-> StoreInFile(fl)[i]]
      /\ StoreIn(h) = [i \in Ids(h, DOMAIN h) |-> StoreIn(h)[i]]
  BY StoreInAt, StoreInFileAt
<1>4. QED
  BY <1>1, <1>2, <1>3

\* What a file says of the disk.
LEMMA DiskProperties ==
  ASSUME NEW fl
  PROVE  /\ fl \in NotSaved \ {MixedFile} => DiskOf(fl) = Abstract!Nothing
         /\ DiskOf(MixedFile) = Abstract!Junk
         /\ fl \notin NotSaved /\ ~ Readable(fl) => DiskOf(fl) = Abstract!Junk
         /\ fl \notin NotSaved /\ Readable(fl) =>
              DiskOf(fl) = Abstract!Snapshot(StoreInFile(fl), fl.objectId)
<1>1. NoObjects = Abstract!NoStore
  BY DEF NoObjects, Abstract!NoStore
<1>2. QED
  BY <1>1 DEF DiskOf, NotSaved, Abstract!Nothing, Abstract!Junk, Abstract!Snapshot,
             Abstract!Disk

\* Save puts the record of an object where the object is in its factory.
LEMMA SavedAt ==
  ASSUME NEW h, NEW f, NEW n, StoreOK(h, f, n)
  PROVE  /\ \A p \in Positions(FileOf(h, f, n)) :
              /\ p[1] \in Type /\ f[p[1]][p[2]] \in DOMAIN h
              /\ h[f[p[1]][p[2]]].type = p[1]
              /\ RecordAt(FileOf(h, f, n), p) = RecordOf(h, f, f[p[1]][p[2]])
         /\ \A a \in DOMAIN h : \E p \in Positions(FileOf(h, f, n)) :
              f[p[1]][p[2]] = a
         /\ \A b \in DOMAIN h : IdIn(FileOf(h, f, n), LinkTo(h, f, b)) = h[b].uhdmId
<1> DEFINE fl == FileOf(h, f, n)
<1>1. \A t \in Type :
        /\ DOMAIN fl.objects[t] = DOMAIN f[t]
        /\ \A i \in DOMAIN f[t] : fl.objects[t][i] = RecordOf(h, f, f[t][i])
  BY FileOfProperties
<1> HIDE DEF fl
<1>2. ASSUME NEW p \in Positions(fl)
      PROVE  /\ p[1] \in Type /\ f[p[1]][p[2]] \in DOMAIN h
             /\ h[f[p[1]][p[2]]].type = p[1]
             /\ RecordAt(fl, p) = RecordOf(h, f, f[p[1]][p[2]])
  <2>1. p[1] \in Type /\ p[2] \in DOMAIN f[p[1]]
    BY <1>1, PositionsAre
  <2>2. f[p[1]][p[2]] \in DOMAIN h /\ h[f[p[1]][p[2]]].type = p[1]
    BY <2>1 DEF StoreOK, Listed
  <2>3. QED
    BY <1>1, <2>1, <2>2 DEF RecordAt
<1>3. ASSUME NEW a \in DOMAIN h
      PROVE  \E p \in Positions(fl) : f[p[1]][p[2]] = a
  <2>1. h[a].type \in Type
    BY DEF StoreOK, HeapOK
  <2>2. PICK i \in DOMAIN f[h[a].type] : f[h[a].type][i] = a
    BY DEF StoreOK, Listed
  <2>3. <<h[a].type, i>> \in Positions(fl)
    BY <1>1, <2>1, <2>2, PositionsAre
  <2>4. QED
    BY <2>2, <2>3
<1>4. ASSUME NEW b \in DOMAIN h
      PROVE  IdIn(fl, LinkTo(h, f, b)) = h[b].uhdmId
  <2> DEFINE l == LinkTo(h, f, b)
  <2>1. /\ l.type = h[b].type /\ l.index \in DOMAIN f[h[b].type]
        /\ f[h[b].type][l.index] = b
        /\ l.index \in 1 .. BadIndex - 1
    BY LinkProperties
  <2>2. h[b].type \in Type
    BY DEF StoreOK, HeapOK
  <2> HIDE DEF l
  <2>3. <<l.type, l.index>> \in Positions(fl)
    BY <1>1, <2>1, <2>2, PositionsAre
  <2>4. RecordAt(fl, <<l.type, l.index>>) = RecordOf(h, f, b)
    BY <1>2, <2>1, <2>3
  <2>5. RecordOf(h, f, b).uhdmId = h[b].uhdmId
    BY RecordProperties
  <2>6. l.index # 0
    BY <2>1, NumberAssumption
  <2>7. QED
    BY <2>4, <2>5, <2>6 DEF IdIn, l
<1>5. QED
  BY <1>2, <1>3, <1>4 DEF fl

\* The file of a store in which no pointer dangles is its graph.
LEMMA SavedIn ==
  ASSUME NEW h, NEW f, NEW n, StoreOK(h, f, n), Complete(h)
  PROVE  DiskOf(FileOf(h, f, n)) = Abstract!Snapshot(StoreIn(h), n)
<1> DEFINE fl == FileOf(h, f, n)
<1>1. fl \in SavedFile /\ fl.objectId = n /\ Recorded(fl) /\ Readable(fl)
  BY FileOfProperties, FileRecorded, FileReadable
<1>2. /\ \A p \in Positions(fl) :
           /\ f[p[1]][p[2]] \in DOMAIN h /\ h[f[p[1]][p[2]]].type = p[1]
           /\ RecordAt(fl, p) = RecordOf(h, f, f[p[1]][p[2]])
      /\ \A a \in DOMAIN h : \E p \in Positions(fl) : f[p[1]][p[2]] = a
      /\ \A b \in DOMAIN h : IdIn(fl, LinkTo(h, f, b)) = h[b].uhdmId
  BY SavedAt
<1> HIDE DEF fl
<1>3. ASSUME NEW p \in Positions(fl)
      PROVE  /\ RecordAt(fl, p).uhdmId = h[f[p[1]][p[2]]].uhdmId
             /\ RecordEntry(fl, p) = EntryOf(h, f[p[1]][p[2]])
  <2> DEFINE a == f[p[1]][p[2]]
             r == RecordOf(h, f, a)
  <2>1. a \in DOMAIN h /\ h[a].type = p[1] /\ RecordAt(fl, p) = r
    BY <1>2
  <2> HIDE DEF a
  <2>2. /\ r.uhdmId = h[a].uhdmId
        /\ h[a].parent = Null => r.parent = NoLink
        /\ h[a].parent # Null => r.parent = LinkTo(h, f, h[a].parent)
        /\ r.refs = {LinkTo(h, f, b) : b \in h[a].refs}
    BY <2>1, RecordProperties
  <2> HIDE DEF r
  <2>3. /\ h[a].refs \subseteq DOMAIN h
        /\ h[a].parent # Null => h[a].parent \in DOMAIN h
    BY <2>1 DEF Complete, Targets
  <2>4. \A b \in DOMAIN h : IdIn(fl, LinkTo(h, f, b)) = IdAt(h, b)
    BY <1>2, IdProperties
  <2>5. IdIn(fl, r.parent) = IdAt(h, h[a].parent)
    <3>1. IdIn(fl, NoLink) = 0
      BY DEF IdIn, NoLink
    <3>2. QED
      BY <2>2, <2>3, <2>4, <3>1, IdProperties
  <2>6. {IdIn(fl, l) : l \in r.refs} = {IdAt(h, b) : b \in h[a].refs}
    BY <2>2, <2>3, <2>4
  <2>7. RecordEntry(fl, p) = EntryOf(h, a)
    BY <2>1, <2>5, <2>6 DEF RecordEntry, EntryOf
  <2>8. QED
    BY <2>1, <2>2, <2>7 DEF a
<1>4. StoreInFile(fl) = StoreIn(h)
  <2>1. \A a \in DOMAIN h : \E p \in Positions(fl) :
          RecordAt(fl, p).uhdmId = h[a].uhdmId
    BY <1>2, <1>3
  <2>2. \A p \in Positions(fl) : \E a \in DOMAIN h :
          /\ RecordAt(fl, p).uhdmId = h[a].uhdmId
          /\ RecordEntry(fl, p) = EntryOf(h, a)
    BY <1>2, <1>3
  <2>3. QED
    BY <1>1, <2>1, <2>2, SameStore
<1>5. fl \notin NotSaved
  BY <1>1, FileAssumption
<1>6. QED
  BY <1>1, <1>4, <1>5, DiskProperties DEF fl

\* The file of a store in which a pointer dangles is not readable: the index of
\* a freed object is past the end of every factory.
LEMMA SavedJunk ==
  ASSUME NEW h, NEW f, NEW n, StoreOK(h, f, n), ~ Complete(h)
  PROVE  DiskOf(FileOf(h, f, n)) = Abstract!Junk
<1> DEFINE fl == FileOf(h, f, n)
<1>1. /\ fl \in SavedFile
      /\ \A t \in Type : DOMAIN fl.objects[t] = DOMAIN f[t]
  BY FileOfProperties
<1>2. /\ \A p \in Positions(fl) : RecordAt(fl, p) = RecordOf(h, f, f[p[1]][p[2]])
      /\ \A a \in DOMAIN h : \E p \in Positions(fl) : f[p[1]][p[2]] = a
  BY SavedAt
<1> HIDE DEF fl
<1>3. PICK a \in DOMAIN h : ~ (Targets(h[a]) \subseteq DOMAIN h)
  BY DEF Complete
<1>4. PICK b \in Targets(h[a]) : b \notin DOMAIN h
  BY <1>3
<1> DEFINE l == LinkTo(h, f, b)
           r == RecordOf(h, f, a)
<1>5. l.index = BadIndex /\ l.type \in Type
  BY <1>4, LinkProperties DEF Link
<1>6. \/ r.parent = l
      \/ l \in r.refs
  <2>1. b \in h[a].refs \/ (b = h[a].parent /\ b # Null)
    BY <1>4 DEF Targets
  <2>2. QED
    BY <2>1, RecordProperties
<1> HIDE DEF l, r
<1>7. BadIndex \in Nat /\ BadIndex \in 1 .. BadIndex /\ Minus1(BadIndex) = BadIndex - 1
  <2>1. BadIndex \in Nat /\ BadIndex \in 1 .. BadIndex
    BY NumberAssumption
  <2>2. QED
    BY <2>1, Minus1Is
<1>8. ~ IsUnset(l) /\ ~ InRange(fl, l)
  <2>1. Minus1(l.index) # BadIndex /\ Minus1(l.index) + 1 = BadIndex
    BY <1>5, <1>7
  <2>2. BadIndex \notin DOMAIN f[l.type]
    BY <1>5, <1>7, PositionsAreIndices
  <2>3. QED
    BY <1>1, <1>5, <2>1, <2>2 DEF IsUnset, InRange
<1>9. PICK p \in Positions(fl) : RecordAt(fl, p) = r
  BY <1>2 DEF r
<1>10. ~ Readable(fl)
  BY <1>6, <1>8, <1>9 DEF Readable, RecordAt
<1>11. QED
  BY <1>1, <1>10, FileAssumption, DiskProperties DEF fl

\* A restore gives back the graph of the file.
LEMMA RestoredIn ==
  ASSUME NEW fl, Recorded(fl), Readable(fl), NEW at \in [Positions(fl) -> Addr],
         \A p, q \in Positions(fl) : at[p] = at[q] => p = q
  PROVE  StoreIn(RestoredHeap(fl, at)) = StoreInFile(fl)
<1> DEFINE h == RestoredHeap(fl, at)
           f == [t \in Type |-> [i \in DOMAIN fl.objects[t] |-> at[<<t, i>>]]]
<1>1. StoreOK(h, f, fl.objectId)
  BY RestoredStore
<1>2. DOMAIN h = {at[p] : p \in Positions(fl)}
  BY DEF RestoredHeap
<1>3. ASSUME NEW p \in Positions(fl)
      PROVE  LET r == RecordAt(fl, p)
                 target(l) == at[<<l.type, Minus1(l.index) + 1>>]
             IN  /\ h[at[p]].type = p[1] /\ h[at[p]].uhdmId = r.uhdmId
                 /\ h[at[p]].parent = IF IsUnset(r.parent) THEN Null ELSE target(r.parent)
                 /\ h[at[p]].refs = {target(l) : l \in r.refs}
  <2> DEFINE o == RestoredObject(fl, at, p)
             r == RecordAt(fl, p)
             target(l) == at[<<l.type, Minus1(l.index) + 1>>]
  <2>1. h[at[p]] = o
    BY RestoredAt
  <2>2. /\ o.type = p[1] /\ o.uhdmId = r.uhdmId
        /\ o.parent = IF IsUnset(r.parent) THEN Null ELSE target(r.parent)
        /\ o.refs = {target(l) : l \in r.refs}
    BY DEF RestoredObject, RecordAt
  <2> HIDE DEF o
  <2>3. QED
    BY <2>1, <2>2
<1>4. \A t \in Type : DOMAIN f[t] = DOMAIN fl.objects[t]
  OBVIOUS
<1> HIDE DEF h, f
<1>5. \A p \in Positions(fl) : RecordAt(fl, p) \in Record
  <2>1. \A t \in Type : fl.objects[t] \in Seq(Record)
    BY DEF Recorded, SavedFile
  <2>2. QED
    BY <2>1, PositionsAre DEF RecordAt
<1>6. ASSUME NEW p \in Positions(fl)
      PROVE  at[p] \in DOMAIN h /\ h[at[p]].uhdmId = RecordAt(fl, p).uhdmId
  BY <1>2, <1>3
<1>7. ASSUME NEW l \in Link, InRange(fl, l)
      PROVE  /\ l.index # 0
             /\ IdAt(h, at[<<l.type, Minus1(l.index) + 1>>]) = IdIn(fl, l)
  <2>1. l.type \in Type /\ l.index \in 0 .. BadIndex /\ BadIndex \in Nat
    BY NumberAssumption DEF Link
  <2>2. l.index # 0
    <3>1. BadIndex + 1 \notin DOMAIN f[l.type]
      BY <1>1, <2>1, PositionsAreIndices
    <3>2. QED
      BY <1>4, <1>7, <2>1, <3>1, Minus1Is DEF InRange
  <2>3. Minus1(l.index) + 1 = l.index
    <3>1. l.index \in 1 .. BadIndex
      BY <2>1, <2>2
    <3>2. Minus1(l.index) = l.index - 1
      BY <3>1, Minus1Is
    <3>3. QED
      BY <2>1, <3>2
  <2>4. <<l.type, l.index>> \in Positions(fl)
    BY <1>7, <2>1, <2>3, PositionsAre DEF InRange
  <2>5. IdAt(h, at[<<l.type, l.index>>]) = RecordAt(fl, <<l.type, l.index>>).uhdmId
    BY <1>1, <1>6, <2>4, IdProperties
  <2>6. QED
    BY <2>2, <2>3, <2>5 DEF IdIn
<1>8. ASSUME NEW p \in Positions(fl)
      PROVE  RecordEntry(fl, p) = EntryOf(h, at[p])
  <2> DEFINE r == RecordAt(fl, p)
             target(l) == at[<<l.type, Minus1(l.index) + 1>>]
  <2>1. /\ h[at[p]].type = p[1]
        /\ h[at[p]].parent = IF IsUnset(r.parent) THEN Null ELSE target(r.parent)
        /\ h[at[p]].refs = {target(l) : l \in r.refs}
    BY <1>3
  <2>2. /\ r.parent \in Link /\ r.refs \subseteq Link
        /\ IsUnset(r.parent) \/ InRange(fl, r.parent)
        /\ \A l \in r.refs : InRange(fl, l)
    BY <1>5 DEF Record, Readable, RecordAt
  <2> HIDE DEF r
  <2>3. IsUnset(r.parent) => r.parent.index = 0
    <3>1. r.parent.index \in 0 .. BadIndex /\ BadIndex \in Nat
      BY <2>2, NumberAssumption DEF Link
    <3>2. ASSUME r.parent.index # 0 PROVE ~ IsUnset(r.parent)
      <4>1. r.parent.index \in 1 .. BadIndex
        BY <3>1, <3>2
      <4>2. Minus1(r.parent.index) = r.parent.index - 1
        BY <4>1, Minus1Is
      <4>3. QED
        BY <3>1, <4>2 DEF IsUnset
    <3>3. QED
      BY <3>2
  <2>4. IdAt(h, h[at[p]].parent) = IdIn(fl, r.parent)
    <3>1. CASE IsUnset(r.parent)
      BY <1>1, <2>1, <2>3, <3>1, IdProperties DEF IdIn
    <3>2. CASE ~ IsUnset(r.parent)
      BY <1>7, <2>1, <2>2, <3>2
    <3>3. QED
      BY <3>1, <3>2
  <2>5. \A l \in r.refs : IdAt(h, target(l)) = IdIn(fl, l)
    BY <1>7, <2>2
  <2> HIDE DEF target
  <2>6. {IdAt(h, b) : b \in h[at[p]].refs} = {IdIn(fl, l) : l \in r.refs}
    BY <2>1, <2>5
  <2>7. QED
    BY <2>1, <2>4, <2>6 DEF RecordEntry, EntryOf, r
<1>9. \A a \in DOMAIN h : \E p \in Positions(fl) :
        RecordAt(fl, p).uhdmId = h[a].uhdmId
  BY <1>2, <1>6
<1>10. \A p \in Positions(fl) : \E a \in DOMAIN h :
         /\ RecordAt(fl, p).uhdmId = h[a].uhdmId
         /\ RecordEntry(fl, p) = EntryOf(h, a)
  BY <1>6, <1>8
<1>11. QED
  BY <1>1, <1>9, <1>10, SameStore DEF h

-----------------------------------------------------------------------------
(***************************************************************************)
(* What a collection does to the graph.                                    *)
(***************************************************************************)

\* The objects that stay include what must be kept.  Either none of them refers
\* to a deleted one, or the promise is broken.
LEMMA CollectedIn ==
  ASSUME NEW h, NEW f, NEW n, StoreOK(h, f, n), Complete(h)
  PROVE  LET s == StoreIn(h)
             K == Ids(h, DOMAIN Collected(h))
         IN  /\ K \in SUBSET DOMAIN s
             /\ Abstract!MustKeep(s) \subseteq K
             /\ Abstract!IsClosed(Abstract!GraphOf(s), K) <=> Complete(Collected(h))
             /\ Complete(Collected(h)) => /\ StoreIn(Collected(h)) = Abstract!Only(s, K)
                                          /\ DOMAIN StoreIn(Collected(h)) = K
<1> DEFINE s == StoreIn(h)
           keep == DOMAIN Collected(h)
           K == Ids(h, keep)
<1>1. /\ keep = DOMAIN h \cap Kept(h)
      /\ \A a \in keep : Collected(h)[a] = h[a]
      /\ Collected(h) = Restricted(h, keep)
  BY DEF Collected, Restricted
<1>2. keep \in SUBSET DOMAIN h
  BY <1>1
<1> HIDE DEF keep
<1>3. K \in SUBSET DOMAIN s
  <2>1. DOMAIN s = Ids(h, DOMAIN h)
    BY StoreInAt
  <2>2. K \subseteq Ids(h, DOMAIN h)
    BY <1>2 DEF Ids
  <2>3. QED
    BY <2>1, <2>2
<1>4. Abstract!MustKeep(s) \subseteq K
  <2>1. Visited(h) \subseteq keep
    <3>1. Visited(h) \subseteq DOMAIN h
      BY ReachedAreNodes DEF Visited, PointsAt
    <3>2. QED
      BY <1>1, <3>1 DEF Kept
  <2>2. Ids(h, Visited(h)) \subseteq K
    BY <2>1 DEF Ids
  <2>3. QED
    BY <2>2, MustKeepIds
<1>5. Complete(Collected(h)) <=> \A a \in keep : Targets(h[a]) \subseteq keep
  BY <1>1 DEF Complete, keep
<1>6. Abstract!IsClosed(Abstract!GraphOf(s), K) <=> Complete(Collected(h))
  BY <1>2, <1>5, ClosedIds
<1>7. ASSUME Complete(Collected(h))
      PROVE  /\ StoreIn(Collected(h)) = Abstract!Only(s, K)
             /\ DOMAIN StoreIn(Collected(h)) = K
  <2>1. StoreIn(Collected(h)) = Abstract!Only(s, K)
    BY <1>1, <1>2, <1>7, RestrictedIn
  <2>2. QED
    BY <2>1 DEF Abstract!Only
<1>8. QED
  BY <1>3, <1>4, <1>6, <1>7 DEF keep

\* Keeping everything is a collection.
LEMMA NothingCollected ==
  ASSUME NEW h, NEW f, NEW n, StoreOK(h, f, n), Complete(h)
  PROVE  LET s == StoreIn(h)
         IN  /\ Abstract!MustKeep(s) \subseteq DOMAIN s
             /\ Abstract!IsClosed(Abstract!GraphOf(s), DOMAIN s)
             /\ s = Abstract!Only(s, DOMAIN s)
<1> DEFINE s == StoreIn(h)
<1>1. DOMAIN s = Ids(h, DOMAIN h) /\ s = [i \in DOMAIN s |-> s[i]]
  BY StoreInAt
<1>2. Ids(h, Visited(h)) \subseteq Ids(h, DOMAIN h)
  <2>1. Visited(h) \subseteq DOMAIN h
    BY ReachedAreNodes DEF Visited, PointsAt
  <2>2. QED
    BY <2>1 DEF Ids
<1>3. Abstract!IsClosed(Abstract!GraphOf(s), DOMAIN s)
  BY DEF Abstract!IsClosed, Abstract!GraphOf
<1>4. QED
  BY <1>1, <1>2, <1>3, MustKeepIds DEF Abstract!Only

-----------------------------------------------------------------------------
(***************************************************************************)
(* The steps.                                                              *)
(***************************************************************************)
Inv == IInv /\ StoreInv

\* What the mapping is of a store that is not broken.
LEMMA Mapped ==
  /\ ~ IsBroken <=> status = "running" /\ Complete(heap)
  /\ ~ IsBroken => AbstractHeap = StoreIn(heap)
BY DEF IsBroken, AbstractHeap, Complete, Live

\* What the state after a step maps to.
LEMMA MappedNext ==
  /\ ~ IsBroken' <=> status' = "running" /\ Complete(heap')
  /\ ~ IsBroken' => AbstractHeap' = StoreIn(heap')
BY DEF IsBroken, AbstractHeap, Complete, Live

\* An empty heap is an empty store.
LEMMA EmptyIn == Complete(NoObjects) /\ StoreIn(NoObjects) = Abstract!NoStore
<1>1. DOMAIN NoObjects = {}
  BY DEF NoObjects
<1>2. Complete(NoObjects)
  BY EmptyComplete
<1>3. {NoObjects[a].uhdmId : a \in DOMAIN NoObjects} = {}
  BY <1>1
<1>4. StoreIn(NoObjects) = Abstract!NoStore
  BY <1>3 DEF StoreIn, Abstract!NoStore
<1>5. QED
  BY <1>2, <1>4

\* A Make call makes an object of the store.
LEMMA MakeRefines ==
  ASSUME Inv, Inv', ~ IsBroken, NEW t \in Type, NEW a \in Addr, MakeObject(t, a)
  PROVE  Abstract!Make
<1>1. /\ StoreOK(heap, factory, objId) /\ StoreOK(heap', factory', objId')
      /\ status = "running" /\ Complete(heap) /\ AbstractHeap = StoreIn(heap)
  BY Mapped DEF Inv, StoreInv
<1>2. /\ a \notin DOMAIN heap
      /\ DOMAIN heap' = DOMAIN heap \cup {a}
      /\ heap'[a] = [type |-> t, uhdmId |-> objId + 1, parent |-> Null, refs |-> {}]
      /\ \A b \in DOMAIN heap : heap'[b] = heap[b]
      /\ objId' = objId + 1 /\ file' = file /\ status' = status
  BY DEF MakeObject, Free, Live
<1>3. Complete(heap')
  BY <1>1, <1>2 DEF Complete, Targets
<1>4. ~ IsBroken' /\ AbstractHeap' = StoreIn(heap')
  BY <1>1, <1>2, <1>3, MappedNext
<1>5. /\ StoreIn(heap') = [i \in Ids(heap', DOMAIN heap') |-> StoreIn(heap')[i]]
      /\ DOMAIN StoreIn(heap) = Ids(heap, DOMAIN heap)
  BY <1>1, StoreInAt
<1>6. Ids(heap', DOMAIN heap') = Ids(heap, DOMAIN heap) \cup {objId'}
  BY <1>2 DEF Ids
<1>7. StoreIn(heap')[objId'] = [type |-> t, parent |-> 0, refs |-> {}]
  <2>1. StoreIn(heap')[heap'[a].uhdmId] = EntryOf(heap', a)
    BY <1>1, <1>2, StoreInAt
  <2>2. EntryOf(heap', a) = [type |-> t, parent |-> 0, refs |-> {}]
    BY <1>2 DEF EntryOf, IdAt
  <2>3. QED
    BY <1>2, <2>1, <2>2
<1>8. ASSUME NEW b \in DOMAIN heap
      PROVE  /\ heap[b].uhdmId # objId'
             /\ StoreIn(heap')[heap[b].uhdmId] = StoreIn(heap)[heap[b].uhdmId]
  <2>1. heap[b].uhdmId \in 1 .. objId /\ objId \in Nat
    BY <1>1, NumberAssumption DEF StoreOK, Numbered
  <2>2. /\ StoreIn(heap')[heap[b].uhdmId] = EntryOf(heap', b)
        /\ StoreIn(heap)[heap[b].uhdmId] = EntryOf(heap, b)
    BY <1>1, <1>2, StoreInAt
  <2>3. heap[b].refs \subseteq DOMAIN heap /\ heap[b].parent \in DOMAIN heap \cup {Null}
    BY <1>1 DEF Complete, Targets
  <2>4. \A c \in DOMAIN heap \cup {Null} : IdAt(heap', c) = IdAt(heap, c)
    BY <1>2 DEF IdAt
  <2>5. EntryOf(heap', b) = EntryOf(heap, b)
    <3>1. {IdAt(heap', c) : c \in heap[b].refs} = {IdAt(heap, c) : c \in heap[b].refs}
      BY <2>3, <2>4
    <3>2. QED
      BY <1>2, <2>3, <2>4, <3>1 DEF EntryOf
  <2>6. QED
    BY <1>2, <2>1, <2>2, <2>5
<1>9. ASSUME NEW i \in Ids(heap, DOMAIN heap)
      PROVE  i # objId' /\ StoreIn(heap')[i] = StoreIn(heap)[i]
  BY <1>8 DEF Ids
<1>10. StoreIn(heap') = [i \in DOMAIN StoreIn(heap) \cup {objId'} |->
                          IF i = objId' THEN [type |-> t, parent |-> 0, refs |-> {}]
                                        ELSE StoreIn(heap)[i]]
  BY <1>5, <1>6, <1>7, <1>9
<1>11. DiskOf(file)' = DiskOf(file)
  BY <1>2
<1>12. QED
  BY <1>1, <1>2, <1>4, <1>10, <1>11 DEF Abstract!Make

\* A change of the references of one object.
LEMMA LinkRefines ==
  ASSUME Inv, Inv', ~ IsBroken, status' = status, file' = file, objId' = objId,
         NEW a \in DOMAIN heap, DOMAIN heap' = DOMAIN heap, Complete(heap'),
         \A b \in DOMAIN heap \ {a} : heap'[b] = heap[b],
         heap'[a].type = heap[a].type, heap'[a].uhdmId = heap[a].uhdmId
  PROVE  Abstract!Link
<1> DEFINE s == StoreIn(heap)
           u == StoreIn(heap')
           i == heap[a].uhdmId
<1>1. /\ StoreOK(heap, factory, objId) /\ StoreOK(heap', factory', objId')
      /\ ~ IsBroken' /\ AbstractHeap = s /\ AbstractHeap' = u
  BY Mapped, MappedNext DEF Inv, StoreInv
<1>2. \A b \in DOMAIN heap : /\ heap'[b].uhdmId = heap[b].uhdmId
                             /\ heap'[b].type = heap[b].type
  OBVIOUS
<1>3. Ids(heap', DOMAIN heap') = Ids(heap, DOMAIN heap)
  BY <1>2 DEF Ids
<1>4. /\ DOMAIN s = Ids(heap, DOMAIN heap) /\ DOMAIN u = DOMAIN s
      /\ u = [j \in DOMAIN s |-> u[j]] /\ s = [j \in DOMAIN s |-> s[j]]
      /\ \A b \in DOMAIN heap : /\ s[heap[b].uhdmId] = EntryOf(heap, b)
                                /\ u[heap'[b].uhdmId] = EntryOf(heap', b)
  BY <1>1, <1>3, StoreInAt
<1>5. \A b : b \in DOMAIN heap \cup {Null} => IdAt(heap', b) = IdAt(heap, b)
  BY <1>2 DEF IdAt
<1>6. ASSUME NEW b \in DOMAIN heap \ {a}
      PROVE  u[heap[b].uhdmId] = s[heap[b].uhdmId]
  <2>1. heap'[b] = heap[b]
    OBVIOUS
  <2>2. heap[b].refs \subseteq DOMAIN heap /\ heap[b].parent \in DOMAIN heap \cup {Null}
    BY Mapped DEF Complete, Targets
  <2>3. {IdAt(heap', c) : c \in heap[b].refs} = {IdAt(heap, c) : c \in heap[b].refs}
    BY <1>5, <2>2
  <2>4. EntryOf(heap', b) = EntryOf(heap, b)
    BY <1>5, <2>1, <2>2, <2>3 DEF EntryOf
  <2>5. QED
    BY <1>2, <1>4, <2>4
<1>7. i \in DOMAIN s /\ u[i].type = s[i].type
  <2>1. u[i] = EntryOf(heap', a) /\ s[i] = EntryOf(heap, a)
    BY <1>2, <1>4
  <2>2. i \in DOMAIN s
    BY <1>4 DEF Ids
  <2>3. QED
    BY <1>2, <2>1, <2>2 DEF EntryOf
<1>8. ASSUME NEW j \in DOMAIN s, j # i
      PROVE  u[j] = s[j]
  <2>1. PICK b \in DOMAIN heap : j = heap[b].uhdmId
    BY <1>4 DEF Ids
  <2>2. QED
    BY <1>6, <1>8, <2>1
<1>9. Abstract!TargetsOf(u, i) \subseteq DOMAIN s
  <2>1. Abstract!TargetsOf(u, heap'[a].uhdmId) = Ids(heap', Targets(heap'[a]))
    BY <1>1, TargetIds
  <2>2. Targets(heap'[a]) \subseteq DOMAIN heap'
    BY DEF Complete
  <2>3. Ids(heap', Targets(heap'[a])) \subseteq DOMAIN s
    BY <1>3, <1>4, <2>2 DEF Ids
  <2>4. QED
    BY <2>1, <2>3
<1> HIDE DEF s, u, i
<1>10. u = [s EXCEPT ![i] = u[i]]
  BY <1>4, <1>7, <1>8
<1>11. DiskOf(file)' = DiskOf(file)
  OBVIOUS
<1>12. QED
  BY <1>1, <1>4, <1>7, <1>9, <1>10, <1>11 DEF Abstract!Link

\* What clients do to designs and pointers they do to the store.
LEMMA ClientRefines ==
  ASSUME Inv, Inv', ~ IsBroken,
         \/ \E a \in Addr, b \in Addr \cup {Null} : SetParent(a, b)
         \/ \E a, b \in Addr : AddRef(a, b)
         \/ \E a \in Addr : DropRefs(a)
  PROVE  Abstract!Link
<1>1. HeapOK(heap) /\ Complete(heap)
  BY Mapped DEF Inv, IInv
<1>2. PICK a \in DOMAIN heap :
        /\ DOMAIN heap' = DOMAIN heap
        /\ heap'[a].type = heap[a].type /\ heap'[a].uhdmId = heap[a].uhdmId
        /\ Targets(heap'[a]) \subseteq DOMAIN heap
        /\ \A b \in DOMAIN heap \ {a} : heap'[b] = heap[b]
        /\ status' = status /\ file' = file /\ objId' = objId
  <2>1. CASE \E a \in Addr, b \in Addr \cup {Null} : SetParent(a, b)
    <3>1. PICK a \in DOMAIN heap, b \in DOMAIN heap \cup {Null} :
            /\ heap' = [heap EXCEPT ![a].parent = b]
            /\ status' = status /\ file' = file /\ objId' = objId
      BY <2>1 DEF SetParent, Live
    <3>2. /\ DOMAIN heap' = DOMAIN heap
          /\ heap'[a] = [heap[a] EXCEPT !.parent = b]
          /\ \A c \in DOMAIN heap \ {a} : heap'[c] = heap[c]
      BY <3>1
    <3>3. HasFields(heap[a]) /\ Targets(heap[a]) \subseteq DOMAIN heap
      BY <1>1 DEF HeapOK, Complete
    <3>4. /\ heap'[a].type = heap[a].type /\ heap'[a].uhdmId = heap[a].uhdmId
          /\ heap'[a].parent = b /\ heap'[a].refs = heap[a].refs
      BY <3>2, <3>3 DEF HasFields
    <3>5. QED
      BY <3>1, <3>2, <3>3, <3>4 DEF Targets
  <2>2. CASE \E a, b \in Addr : AddRef(a, b)
    <3>1. PICK a \in DOMAIN heap, b \in DOMAIN heap :
            /\ heap' = [heap EXCEPT ![a].refs = @ \cup {b}]
            /\ status' = status /\ file' = file /\ objId' = objId
      BY <2>2 DEF AddRef, Live
    <3>2. /\ DOMAIN heap' = DOMAIN heap
          /\ heap'[a] = [heap[a] EXCEPT !.refs = @ \cup {b}]
          /\ \A c \in DOMAIN heap \ {a} : heap'[c] = heap[c]
      BY <3>1
    <3>3. HasFields(heap[a]) /\ Targets(heap[a]) \subseteq DOMAIN heap
      BY <1>1 DEF HeapOK, Complete
    <3>4. /\ heap'[a].type = heap[a].type /\ heap'[a].uhdmId = heap[a].uhdmId
          /\ heap'[a].parent = heap[a].parent /\ heap'[a].refs = heap[a].refs \cup {b}
      BY <3>2, <3>3 DEF HasFields
    <3>5. QED
      BY <3>1, <3>2, <3>3, <3>4 DEF Targets
  <2>3. CASE \E a \in Addr : DropRefs(a)
    <3>1. PICK a \in DOMAIN heap :
            /\ heap' = [heap EXCEPT ![a].refs = {}]
            /\ status' = status /\ file' = file /\ objId' = objId
      BY <2>3 DEF DropRefs, Live
    <3>2. /\ DOMAIN heap' = DOMAIN heap
          /\ heap'[a] = [heap[a] EXCEPT !.refs = {}]
          /\ \A c \in DOMAIN heap \ {a} : heap'[c] = heap[c]
      BY <3>1
    <3>3. HasFields(heap[a]) /\ Targets(heap[a]) \subseteq DOMAIN heap
      BY <1>1 DEF HeapOK, Complete
    <3>4. /\ heap'[a].type = heap[a].type /\ heap'[a].uhdmId = heap[a].uhdmId
          /\ heap'[a].parent = heap[a].parent /\ heap'[a].refs = {}
      BY <3>2, <3>3 DEF HasFields
    <3>5. QED
      BY <3>1, <3>2, <3>3, <3>4 DEF Targets
  <2>4. QED
    BY <2>1, <2>2, <2>3
<1>3. Complete(heap')
  BY <1>1, <1>2 DEF Complete
<1>4. QED
  BY <1>2, <1>3, LinkRefines

\* Erase maps to an erasure, which breaks the store if the object is pointed at.
LEMMA EraseRefines ==
  ASSUME Inv, Inv', ~ IsBroken, NEW a \in Addr, Erase(a)
  PROVE  Abstract!Erase
<1> DEFINE s == StoreIn(heap)
           keep == DOMAIN heap \ {a}
           i == heap[a].uhdmId
<1>1. /\ StoreOK(heap, factory, objId) /\ Complete(heap) /\ status = "running"
      /\ AbstractHeap = s
  BY Mapped DEF Inv, StoreInv
<1>2. /\ a \in DOMAIN heap
      /\ heap' = Restricted(heap, keep)
      /\ status' = status /\ file' = file /\ objId' = objId
  BY DEF Erase, Live
<1>3. /\ DOMAIN heap' = keep
      /\ \A b \in keep : heap'[b] = heap[b]
  BY <1>2 DEF Restricted
<1>4. Complete(heap') <=> ~ IsPointedAt(a)
  BY <1>1, <1>3 DEF Complete, IsPointedAt, Live
<1>5. DOMAIN s = Ids(heap, DOMAIN heap)
  BY <1>1, StoreInAt
<1>6. Ids(heap, keep) = DOMAIN s \ {i} /\ i \in DOMAIN s
  <2>1. \A b \in DOMAIN heap : heap[b].uhdmId = i => b = a
    BY <1>1, <1>2, IdProperties
  <2>2. QED
    BY <1>2, <1>5, <2>1 DEF Ids
<1>7. ASSUME NEW b \in keep
      PROVE  /\ heap[b].uhdmId \in DOMAIN s \ {i}
             /\ i \in Abstract!TargetsOf(s, heap[b].uhdmId) <=> a \in Targets(heap[b])
  <2>1. Abstract!TargetsOf(s, heap[b].uhdmId) = Ids(heap, Targets(heap[b]))
    BY <1>1, TargetIds
  <2>2. Targets(heap[b]) \in SUBSET DOMAIN heap
    BY <1>1 DEF Complete
  <2>3. i \in Ids(heap, Targets(heap[b])) <=> a \in Targets(heap[b])
    BY <1>1, <1>2, <2>2, IdProperties
  <2>4. heap[b].uhdmId \in Ids(heap, keep)
    BY DEF Ids
  <2>5. QED
    BY <1>6, <2>1, <2>3, <2>4
<1>8. IsPointedAt(a) <=> \E j \in DOMAIN s \ {i} : i \in Abstract!TargetsOf(s, j)
  <2>1. \A j \in DOMAIN s \ {i} : \E b \in keep : j = heap[b].uhdmId
    BY <1>6 DEF Ids
  <2>2. IsPointedAt(a) <=> \E b \in keep : a \in Targets(heap[b])
    BY DEF IsPointedAt, Live
  <2>3. QED
    BY <1>7, <2>1, <2>2
<1>9. ~ IsPointedAt(a) => StoreIn(heap') = Abstract!Only(s, DOMAIN s \ {i})
  <2>1. keep \in SUBSET DOMAIN heap
    OBVIOUS
  <2>2. ~ IsPointedAt(a) =>
          StoreIn(Restricted(heap, keep)) = Abstract!Only(s, Ids(heap, keep))
    BY <1>1, <1>2, <1>4, <2>1, RestrictedIn
  <2>3. QED
    BY <1>2, <1>6, <2>2
<1> HIDE DEF s, i, keep
<1>10. DiskOf(file)' = DiskOf(file)
  BY <1>2
<1>11. /\ IsBroken' <=> IsPointedAt(a)
       /\ ~ IsBroken' => AbstractHeap' = StoreIn(heap')
  BY <1>1, <1>2, <1>4, MappedNext
<1>12. QED
  BY <1>1, <1>2, <1>6, <1>8, <1>9, <1>10, <1>11 DEF Abstract!Erase

\* A collection, by itself or at the start of a save, that finds nothing freed.
LEMMA CollectionRefines ==
  ASSUME Inv, ~ IsBroken,
         \/ heap' = Collected(heap) /\ status' = status
         \/ heap' = heap /\ status' = "undefined" /\ ~ Complete(Collected(heap))
         \/ heap' = heap /\ status' = status
  PROVE  Abstract!Collected
<1> DEFINE s == StoreIn(heap)
           K == Ids(heap, DOMAIN Collected(heap))
<1>1. /\ StoreOK(heap, factory, objId) /\ Complete(heap) /\ status = "running"
      /\ AbstractHeap = s
  BY Mapped DEF Inv, StoreInv
<1>2. /\ K \in SUBSET DOMAIN s
      /\ Abstract!MustKeep(s) \subseteq K
      /\ Abstract!IsClosed(Abstract!GraphOf(s), K) <=> Complete(Collected(heap))
      /\ Complete(Collected(heap)) => /\ StoreIn(Collected(heap)) = Abstract!Only(s, K)
                                      /\ DOMAIN StoreIn(Collected(heap)) = K
  BY <1>1, CollectedIn
<1>3. /\ Abstract!MustKeep(s) \subseteq DOMAIN s
      /\ Abstract!IsClosed(Abstract!GraphOf(s), DOMAIN s)
      /\ s = Abstract!Only(s, DOMAIN s)
  BY <1>1, NothingCollected
<1> HIDE DEF s, K
<1>4. CASE heap' = Collected(heap) /\ status' = status /\ Complete(Collected(heap))
  <2>1. ~ IsBroken' /\ AbstractHeap' = StoreIn(Collected(heap))
    BY <1>1, <1>4, MappedNext
  <2>2. AbstractHeap' = Abstract!Only(s, K) /\ DOMAIN AbstractHeap' = K
    BY <1>2, <1>4, <2>1
  <2>3. QED
    BY <1>1, <1>2, <1>4, <2>1, <2>2 DEF Abstract!Collected
<1>5. CASE ~ Complete(Collected(heap)) /\ (heap' = Collected(heap) \/ status' = "undefined")
  <2>1. IsBroken'
    BY <1>5, MappedNext
  <2>2. QED
    BY <1>1, <1>2, <1>5, <2>1 DEF Abstract!Collected
<1>6. CASE heap' = heap /\ status' = status
  <2>1. ~ IsBroken' /\ AbstractHeap' = s
    BY <1>1, <1>6, MappedNext DEF s
  <2>2. QED
    BY <1>1, <1>3, <2>1 DEF Abstract!Collected
<1>7. QED
  BY <1>4, <1>5, <1>6

\* GarbageCollect maps to a collection.
LEMMA CollectRefines ==
  ASSUME Inv, ~ IsBroken, GarbageCollect
  PROVE  Abstract!Collect
<1>1. ~ VisitsFreed(heap)
  <2>1. Visited(heap) \subseteq DOMAIN heap
    BY ReachedAreNodes DEF Visited, PointsAt
  <2>2. QED
    BY <2>1, Mapped DEF VisitsFreed, Complete
<1>2. /\ heap' = Collected(heap) /\ status' = status
      /\ file' = file /\ objId' = objId
  BY <1>1 DEF GarbageCollect
<1>3. Abstract!Collected
  BY <1>2, CollectionRefines
<1>4. DiskOf(file)' = DiskOf(file)
  BY <1>2
<1>5. QED
  BY <1>2, <1>3, <1>4 DEF Abstract!Collect

\* The file that Save writes of what it saves.
LEMMA SavedFileIs ==
  ASSUME Inv, Inv', Save, ~ CannotSave
  PROVE  /\ Complete(heap') => DiskOf(file)' = Abstract!Snapshot(StoreIn(heap'), objId)
         /\ ~ Complete(heap') => DiskOf(file)' = Abstract!Junk
<1>1. /\ heap' = HeapToSave
      /\ file' = FileOf(HeapToSave, FactoryToSave, objId)
  BY DEF Save
<1>2. StoreOK(HeapToSave, FactoryToSave, objId)
  BY CollectedStore DEF Inv
<1>3. DiskOf(file)' = DiskOf(FileOf(HeapToSave, FactoryToSave, objId))
  BY <1>1
<1>4. QED
  BY <1>1, <1>2, <1>3, SavedIn, SavedJunk

\* A save of a store that is not broken: if saving would dereference a pointer
\* to an object that the collection at its start has deleted, then only the
\* collection counts.
LEMMA SaveRefines ==
  ASSUME Inv, Inv', ~ IsBroken, Save
  PROVE  Abstract!Collect \/ Abstract!Save
<1>1. status = "running" /\ Complete(heap)
  BY Mapped
<1>2. ~ VisitsFreed(heap)
  <2>1. Visited(heap) \subseteq DOMAIN heap
    BY ReachedAreNodes DEF Visited, PointsAt
  <2>2. QED
    BY <1>1, <2>1 DEF VisitsFreed, Complete
<1>3. SavesFreed(HeapToSave) => gcEnabled /\ ~ Complete(Collected(heap))
  BY <1>1 DEF SavesFreed, HeapToSave, Complete, Targets
<1>4. CASE CannotSave
  <2>1. /\ heap' = heap /\ status' = "undefined" /\ file' = file /\ objId' = objId
        /\ ~ Complete(Collected(heap))
    BY <1>2, <1>3, <1>4 DEF Save, Undefined, CannotSave
  <2>2. Abstract!Collected
    BY <2>1, CollectionRefines
  <2>3. DiskOf(file)' = DiskOf(file)
    BY <2>1
  <2>4. QED
    BY <2>1, <2>2, <2>3 DEF Abstract!Collect
<1>5. CASE ~ CannotSave
  <2>1. /\ heap' = HeapToSave /\ status' = status /\ objId' = objId
    BY <1>5 DEF Save
  <2>2. Abstract!Collected
    BY <2>1, CollectionRefines DEF HeapToSave
  <2>3. ~ IsBroken' <=> Complete(heap')
    BY <1>1, <2>1, MappedNext
  <2>4. DiskOf(file)' = IF IsBroken' THEN Abstract!Junk
                        ELSE Abstract!Snapshot(AbstractHeap', objId)
    BY <1>5, <2>3, SavedFileIs, MappedNext
  <2>5. QED
    BY <2>1, <2>2, <2>4 DEF Abstract!Save
<1>6. QED
  BY <1>4, <1>5

\* So is one that is interrupted, which may leave the disk as it is, with nothing
\* that can be loaded, or with junk.
LEMMA InterruptedRefines ==
  ASSUME Inv, Inv', ~ IsBroken, SaveInterrupted
  PROVE  Abstract!SaveInterrupted
<1>1. heap' = HeapToSave /\ status' = status /\ objId' = objId /\ file' \in Leftovers
  BY DEF SaveInterrupted
<1>2. Abstract!Collected
  BY <1>1, CollectionRefines DEF HeapToSave
<1>3. TornFile \in NotSaved \ {MixedFile}
  BY FileAssumption DEF NotSaved
<1>4. DiskOf(file)' \in {DiskOf(file), Abstract!Nothing, Abstract!Junk}
  BY <1>1, <1>3, DiskProperties DEF Leftovers
<1>5. QED
  BY <1>1, <1>2, <1>4 DEF Abstract!SaveInterrupted

\* A broken store stays within what is left of the promise: what it saves is junk
\* unless the collection at the start of the save has repaired it.
LEMMA BrokenRefines ==
  ASSUME Inv, Inv', IsBroken,
         \/ \E t \in Type, a \in Addr : MakeObject(t, a)
         \/ \E a \in Addr, b \in Addr \cup {Null} : SetParent(a, b)
         \/ \E a, b \in Addr : AddRef(a, b)
         \/ \E a \in Addr : DropRefs(a) \/ Erase(a)
         \/ GarbageCollect
         \/ Save \/ SaveInterrupted
  PROVE  Abstract!Anything
<1>1. status = "running"
  BY DEF MakeObject, SetParent, AddRef, DropRefs, Erase, GarbageCollect, Save,
         SaveInterrupted, Running
<1>2. CASE Save /\ ~ CannotSave
  <2>1. heap' = HeapToSave /\ objId' = objId /\ status' = status
    BY <1>2 DEF Save
  <2>2. ~ Complete(heap') => DiskOf(file)' = Abstract!Junk
    BY <1>2, SavedFileIs
  <2>3. Complete(heap') => /\ ~ IsBroken'
                           /\ DiskOf(file)' = Abstract!Snapshot(AbstractHeap', objId')
    BY <1>1, <1>2, <2>1, SavedFileIs, MappedNext
  <2>4. QED
    BY <2>1, <2>2, <2>3 DEF Abstract!Anything
<1>3. CASE SaveInterrupted
  <2>1. objId' = objId /\ file' \in Leftovers
    BY <1>3 DEF SaveInterrupted
  <2>2. TornFile \in NotSaved \ {MixedFile}
    BY FileAssumption DEF NotSaved
  <2>3. DiskOf(file)' \in {DiskOf(file), Abstract!Nothing, Abstract!Junk}
    BY <2>1, <2>2, DiskProperties DEF Leftovers
  <2>4. QED
    BY <2>1, <2>3 DEF Abstract!Anything
<1>4. CASE ~ (Save /\ ~ CannotSave) /\ ~ SaveInterrupted
  <2>1. file' = file /\ objId' \in {objId, objId + 1}
    BY <1>4 DEF MakeObject, SetParent, AddRef, DropRefs, Erase, GarbageCollect, Save,
                Undefined
  <2>2. DiskOf(file)' = DiskOf(file)
    BY <2>1
  <2>3. QED
    BY <2>1, <2>2 DEF Abstract!Anything
<1>5. QED
  BY <1>2, <1>3, <1>4

\* Purge, and a Restore that fails, empty the store.
LEMMA ForgetRefines ==
  ASSUME Inv, Purge \/ RestoreFails
  PROVE  Abstract!Forget
<1>1. /\ heap' = NoObjects /\ status' = "running" /\ file' = file /\ objId' = objId
  BY DEF Purge, RestoreFails, Running
<1>2. ~ IsBroken' /\ AbstractHeap' = Abstract!NoStore
  BY <1>1, EmptyIn, MappedNext
<1>3. DiskOf(file)' = DiskOf(file)
  BY <1>1
<1>4. QED
  BY <1>1, <1>2, <1>3 DEF Abstract!Forget

\* Restore fills the store with what the file holds.
LEMMA LoadRefines ==
  ASSUME Inv, NEW at \in AddressMaps, Restore(at)
  PROVE  Abstract!Load
<1>1. /\ Recorded(file) /\ at \in [Positions(file) -> Addr] /\ file \notin NotSaved
      /\ \A p, q \in Positions(file) : at[p] = at[q] => p = q
      /\ status = "running" /\ file' = file
  BY DEF Restore, Running, AddressMaps, Inv, StoreInv, Undefined
<1>2. DiskOf(file)' = DiskOf(file)
  BY <1>1
<1>3. \A s, n : /\ Abstract!Junk # Abstract!Nothing
                /\ Abstract!Snapshot(s, n) # Abstract!Nothing
                /\ Abstract!Snapshot(s, n) # Abstract!Junk
                /\ Abstract!Snapshot(s, n).store = s
                /\ Abstract!Snapshot(s, n).nextId = n
  BY DEF Abstract!Junk, Abstract!Nothing, Abstract!Snapshot, Abstract!Disk
<1>4. CASE Readable(file)
  <2>1. /\ heap' = RestoredHeap(file, at) /\ objId' = file.objectId
        /\ status' = "running"
    BY <1>1, <1>4 DEF Restore
  <2>2. LinksOK(file)
    BY <1>1 DEF Inv, IInv
  <2>3. Complete(heap')
    BY <1>1, <1>4, <2>1, <2>2, RestoredOK
  <2>4. ~ IsBroken' /\ AbstractHeap' = StoreInFile(file)
    <3>1. StoreIn(heap') = StoreInFile(file)
      BY <1>1, <1>4, <2>1, RestoredIn
    <3>2. QED
      BY <2>1, <2>3, <3>1, MappedNext
  <2>5. DiskOf(file) = Abstract!Snapshot(StoreInFile(file), file.objectId)
    BY <1>1, <1>4, DiskProperties
  <2>6. QED
    BY <1>2, <1>3, <2>1, <2>4, <2>5 DEF Abstract!Load
<1>5. CASE ~ Readable(file)
  <2>1. status' = "undefined" /\ objId' = objId
    BY <1>5 DEF Restore, Undefined
  <2>2. IsBroken'
    BY <2>1, MappedNext
  <2>3. DiskOf(file) = Abstract!Junk
    BY <1>1, <1>5, DiskProperties
  <2>4. QED
    BY <1>2, <1>3, <2>2, <2>3 DEF Abstract!Load
<1>6. QED
  BY <1>4, <1>5

\* A mixed file is junk, whatever Restore makes of it.
LEMMA MixedRefines ==
  ASSUME RestoreMixed
  PROVE  Abstract!Load
<1>1. file = MixedFile /\ file' = file /\ status' = "undefined"
  BY DEF RestoreMixed, Undefined
<1>2. DiskOf(file) = Abstract!Junk /\ DiskOf(file)' = DiskOf(file)
  BY <1>1, DiskProperties
<1>3. IsBroken'
  BY <1>1, MappedNext
<1>4. Abstract!Junk # Abstract!Nothing
  BY DEF Abstract!Junk, Abstract!Nothing, Abstract!Disk
<1>5. QED
  BY <1>2, <1>3, <1>4 DEF Abstract!Load

\* A crash loses the store and keeps the disk, unless the store was broken.
LEMMA CrashRefines ==
  ASSUME Restart
  PROVE  Abstract!Crash
<1>1. /\ heap' = NoObjects /\ status' = "running" /\ objId' = 0
      /\ file' = file \/ (~ Running /\ file' = MixedFile)
  BY DEF Restart
<1>2. ~ IsBroken' /\ AbstractHeap' = Abstract!NoStore
  BY <1>1, EmptyIn, MappedNext
<1>3. ~ Running => IsBroken
  BY Mapped DEF Running
<1>4. DiskOf(file)' \in {DiskOf(file)} \cup (IF IsBroken THEN {Abstract!Junk} ELSE {})
  BY <1>1, <1>3, DiskProperties
<1>5. QED
  BY <1>1, <1>2, <1>4 DEF Abstract!Crash

\* A file of another version cannot be read.
LEMMA LoseRefines ==
  ASSUME OtherVersionSaves
  PROVE  Abstract!Lose
<1>1. file' = OtherFile /\ UNCHANGED <<heap, objId, status>>
  BY DEF OtherVersionSaves
<1>2. DiskOf(OtherFile) = Abstract!Nothing
  BY DiskProperties, FileAssumption DEF NotSaved
<1>3. DiskOf(file)' = Abstract!Nothing
  BY <1>1, <1>2
<1>4. IsBroken' = IsBroken /\ AbstractHeap' = AbstractHeap
  BY <1>1 DEF IsBroken, AbstractHeap, Live
<1>5. QED
  BY <1>1, <1>3, <1>4 DEF Abstract!Lose

\* A step that changes nothing maps to a stutter.
LEMMA Stutters ==
  ASSUME UNCHANGED <<heap, objId, file, status>>
  PROVE  UNCHANGED Abstract!vars
<1>1. IsBroken' = IsBroken /\ AbstractHeap' = AbstractHeap /\ DiskOf(file)' = DiskOf(file)
  BY DEF IsBroken, AbstractHeap, Live
<1>2. QED
  BY <1>1 DEF Abstract!vars

\* Every step maps to a step of the store or to a stutter.
LEMMA StepRefines ==
  ASSUME Inv, Inv', [Next]_vars
  PROVE  [Abstract!Next]_(Abstract!vars)
<1>1. CASE \/ \E t \in Type, a \in Addr : MakeObject(t, a)
           \/ \E a \in Addr, b \in Addr \cup {Null} : SetParent(a, b)
           \/ \E a, b \in Addr : AddRef(a, b)
           \/ \E a \in Addr : DropRefs(a) \/ Erase(a)
           \/ GarbageCollect
           \/ Save \/ SaveInterrupted
  <2>1. CASE IsBroken
    BY <1>1, <2>1, BrokenRefines DEF Abstract!Next
  <2>2. CASE ~ IsBroken
    <3>1. CASE \E t \in Type, a \in Addr : MakeObject(t, a)
      BY <2>2, <3>1, MakeRefines DEF Abstract!Next
    <3>2. CASE \/ \E a \in Addr, b \in Addr \cup {Null} : SetParent(a, b)
               \/ \E a, b \in Addr : AddRef(a, b)
               \/ \E a \in Addr : DropRefs(a)
      BY <2>2, <3>2, ClientRefines DEF Abstract!Next
    <3>3. CASE \E a \in Addr : Erase(a)
      BY <2>2, <3>3, EraseRefines DEF Abstract!Next
    <3>4. CASE GarbageCollect
      BY <2>2, <3>4, CollectRefines DEF Abstract!Next
    <3>5. CASE Save
      BY <2>2, <3>5, SaveRefines DEF Abstract!Next
    <3>6. CASE SaveInterrupted
      BY <2>2, <3>6, InterruptedRefines DEF Abstract!Next
    <3>7. QED
      BY <1>1, <3>1, <3>2, <3>3, <3>4, <3>5, <3>6
  <2>3. QED
    BY <2>1, <2>2
<1>2. CASE (\E b \in BOOLEAN : SetGCEnabled(b)) \/ UNCHANGED vars
  BY <1>2, Stutters DEF SetGCEnabled, vars
<1>3. CASE Purge \/ RestoreFails
  BY <1>3, ForgetRefines DEF Abstract!Next
<1>4. CASE \E at \in AddressMaps : Restore(at)
  BY <1>4, LoadRefines DEF Abstract!Next
<1>5. CASE Restart
  BY <1>5, CrashRefines DEF Abstract!Next
<1>6. CASE OtherVersionSaves
  BY <1>6, LoseRefines DEF Abstract!Next
<1>7. CASE RestoreMixed
  BY <1>7, MixedRefines DEF Abstract!Next
<1>8. QED
  BY <1>1, <1>2, <1>3, <1>4, <1>5, <1>6, <1>7 DEF Next

\* The store, with its addresses, factories, positions and files, does what
\* ObjectStore promises of a graph named by UhdmIds: a collection deletes only
\* ObjectStore promises of a graph named by UhdmIds: a collection deletes only
\* what no design reaches, a restore gives back the last save if it was complete
\* and nothing dangled in what it saved.
THEOREM Refines == Spec => ImplementsObjectStore
<1>1. ASSUME Init
      PROVE  Abstract!Init
  <2>1. ~ IsBroken /\ AbstractHeap = Abstract!NoStore
    BY <1>1, EmptyIn, Mapped DEF Init
  <2>2. DiskOf(file) = Abstract!Nothing
      BY <1>1, DiskProperties, FileAssumption DEF Init, NotSaved
  <2>3. QED
    BY <1>1, <2>1, <2>2 DEF Init, Abstract!Init
<1>2. IInv /\ StoreInv /\ IInv' /\ StoreInv' /\ [Next]_vars => [Abstract!Next]_(Abstract!vars)
  BY StepRefines DEF Inv
<1>3. QED
  BY Invariance, StoreInvariance, <1>1, <1>2, PTL DEF Spec, ImplementsObjectStore, Abstract!Spec
=============================================================================
