----------------------------- MODULE Serializer -----------------------------
(***************************************************************************)
(* The object store of UHDM: templates/Serializer*.cpp, FactoryT in        *)
(* templates/BaseClass.h and the code scripts/serializer.py generates for  *)
(* every class of the model.                                               *)
(*                                                                         *)
(* A Serializer owns one factory per object type.  Objects live at         *)
(* addresses and point at each other; a file names an object by its type   *)
(* and its 1-based position in the factory of that type.  The module       *)
(* models making, linking, erasing and garbage collecting objects, saving  *)
(* them and restoring them, in this process or after a restart.  Symbols   *)
(* and the values of properties are left out: they ride along unchanged.   *)
(*                                                                         *)
(* An object has two kinds of references, told apart because the generated *)
(* code treats them differently: "parent" stands for the fields saved with *)
(* the type of their target (vpiParent, class_ref, group_ref; saving one   *)
(* dereferences the target), "refs" for the obj_ref fields (saving one     *)
(* only looks the pointer up).                                             *)
(***************************************************************************)
EXTENDS Naturals, Sequences, FiniteSets, Reachability

CONSTANTS
  Addr,         \* the addresses the allocator can return
  Null,         \* nullptr
  Type,         \* UHDM_OBJECT_TYPE
  Design,       \* uhdmdesign, the type traversals start from
  Uncollected,  \* the types GarbageCollect skips: {package} in the code
  NoFile,       \* the file does not exist
  TornFile,     \* a file that ends too early, for which the reader throws
  MixedFile,    \* bytes that no one Save has written, which the reader may
                \* take for a design
  OtherFile,    \* a file that another version of UHDM has written
  BadIndex,     \* Serializer::kBadIndex, the largest uint32_t
  MaxObjId,     \* bound: the largest UhdmId given out
  MaxLinks      \* bound: references a client sets up at one time

ASSUME AddressAssumption == Null \notin Addr
ASSUME TypeAssumption == Design \in Type /\ Uncollected \subseteq Type
ASSUME NumberAssumption ==
  /\ BadIndex \in Nat /\ MaxObjId \in Nat /\ MaxLinks \in Nat
  /\ MaxObjId < BadIndex

VARIABLES
  heap,      \* the live objects: address |-> object
  factory,   \* factory[t]: the deque objects_ of the factory of type t
  objId,     \* m_objId
  gcEnabled, \* m_enableGC
  file,      \* the file Save writes and Restore reads
  status,    \* "running", or "undefined" once a freed object, an element
             \* past the end of a factory or a mixed file is used: nothing is
             \* known after that
  mishaps    \* history: what has happened that the store does not guard
             \* against, of "erased", "skipped" and "mixed"; no guard reads it

vars == <<heap, factory, objId, gcEnabled, file, status, mishaps>>

-----------------------------------------------------------------------------
Live == DOMAIN heap

Object == [type : Type, uhdmId : Nat, parent : Addr \cup {Null},
           refs : SUBSET Addr]

\* What the pointers of o lead to: the fields UhdmListener follows and Save
\* writes are the same ones.
Targets(o) == o.refs \cup ({o.parent} \ {Null})

\* A record of the file.  Index 0 means that the field was not set.
Link == [type : Type, index : 0 .. BadIndex]
NoLink == [type |-> Design, index |-> 0]
Record == [uhdmId : Nat, parent : Link, refs : SUBSET Link]
SavedFile == [objectId : Nat, objects : [Type -> Seq(Record)]]
NotSaved == {NoFile, TornFile, MixedFile, OtherFile}

ASSUME FileAssumption ==
  /\ NotSaved \cap SavedFile = {}
  /\ MixedFile \notin {NoFile, TornFile, OtherFile}

Empty == [t \in Type |-> <<>>]
NoObjects == [a \in {} |-> Null]

Restricted(h, keep) == [a \in DOMAIN h \cap keep |-> h[a]]

-----------------------------------------------------------------------------
(***************************************************************************)
(* Garbage collection.  GarbageCollect runs a UhdmListener over every      *)
(* design; the objects it visits are the least set that contains the       *)
(* designs and whatever one of its members points at (module UhdmListener  *)
(* models the traversal itself).                                           *)
(***************************************************************************)

\* Mutant of PointsAt: vpiParent is not followed.
PointsAtRefs(h) == [a \in DOMAIN h |-> h[a].refs]

PointsAt(h) == [a \in DOMAIN h |-> Targets(h[a])]
Designs(h) == {a \in DOMAIN h : h[a].type = Design}
Visited(h) == Reached(PointsAt(h), Designs(h))

\* The traversal would call UhdmType() on a freed object.
VisitsFreed(h) == \E a \in Visited(h) : ~ (Targets(h[a]) \subseteq DOMAIN h)

\* EraseIfNotIn(visited) on the factories of all types but the skipped ones.
Kept(h) == Visited(h) \cup {a \in DOMAIN h : h[a].type \in Uncollected}
Collected(h) == Restricted(h, Kept(h))

\* A collection has kept an object of a skipped type and deleted one that it
\* points at.
Skipped(h) ==
  IF \E a \in DOMAIN Collected(h) :
       /\ h[a].type \in Uncollected
       /\ ~ (Targets(h[a]) \subseteq DOMAIN Collected(h))
    THEN {"skipped"} ELSE {}

\* Mutants of EraseIfNotIn: the entries of the deleted objects are nulled, or
\* left.
EraseIfNotInNulling(f, keep) ==
  [t \in Type |-> [i \in DOMAIN f[t] |->
                     IF f[t][i] \in keep THEN f[t][i] ELSE Null]]
EraseIfNotInLeaving(f, keep) == f

\* The loop moves the entries to keep to a new deque one by one: each comes
\* after those that were before it.
Keepers(q, keep) ==
  LET kept == {i \in DOMAIN q : q[i] \in keep}
      position(i) == Cardinality({j \in kept : j <= i})
  IN  [n \in 1 .. Cardinality(kept) |-> q[CHOOSE i \in kept : position(i) = n]]

EraseIfNotIn(f, keep) == [t \in Type |-> Keepers(f[t], keep)]

-----------------------------------------------------------------------------
(***************************************************************************)
(* Saving.                                                                 *)
(***************************************************************************)

\* Mutant of GetId: positions count from 0.
GetIdFromZero(h, f, a) ==
  IF a \in DOMAIN h
    THEN (CHOOSE i \in DOMAIN f[h[a].type] : f[h[a].type][i] = a) - 1
    ELSE BadIndex

\* MapToIndex / GetId: the position of a in its factory, kBadIndex for a
\* pointer that is in no factory.
GetId(h, f, a) ==
  IF a \in DOMAIN h
    THEN CHOOSE i \in DOMAIN f[h[a].type] : f[h[a].type][i] = a
    ELSE BadIndex

\* An obj_ref field has a static type.  What that type is for a freed target
\* is lost in the model, and the restored index is out of range for any type.
LinkTo(h, f, a) ==
  [type |-> IF a \in DOMAIN h THEN h[a].type ELSE Design,
   index |-> GetId(h, f, a)]

RecordOf(h, f, a) ==
  [uhdmId |-> h[a].uhdmId,
   parent |-> IF h[a].parent = Null THEN NoLink ELSE LinkTo(h, f, h[a].parent),
   refs |-> {LinkTo(h, f, b) : b \in h[a].refs}]

\* Mutant of FileOf: m_objId is not saved.
FileOfWithoutId(h, f, n) ==
  [objectId |-> 0,
   objects |-> [t \in Type |-> [i \in DOMAIN f[t] |-> RecordOf(h, f, f[t][i])]]]

FileOf(h, f, n) ==
  [objectId |-> n,
   objects |-> [t \in Type |-> [i \in DOMAIN f[t] |-> RecordOf(h, f, f[t][i])]]]

\* The save adapters call UhdmType() on the target of such a field.
SavesFreed(h) == \E a \in DOMAIN h : h[a].parent \notin DOMAIN h \cup {Null}

-----------------------------------------------------------------------------
(***************************************************************************)
(* Restoring.                                                              *)
(***************************************************************************)
Positions(fl) == UNION {{t} \X DOMAIN fl.objects[t] : t \in Type}

\* Mutant of Minus1: nothing is subtracted.
Minus0(i) == i

\* The readers subtract 1 from the index and GetObject takes a uint32_t, so
\* that an index of 0 wraps around to kBadIndex, for which it returns nullptr.
Minus1(i) == (i + BadIndex) % (BadIndex + 1)
IsUnset(l) == Minus1(l.index) = BadIndex
InRange(fl, l) == Minus1(l.index) + 1 \in DOMAIN fl.objects[l.type]

\* Every index of the file selects an element of its factory.
Readable(fl) ==
  \A p \in Positions(fl) :
    LET r == fl.objects[p[1]][p[2]] IN
    /\ IsUnset(r.parent) \/ InRange(fl, r.parent)
    /\ \A l \in r.refs : InRange(fl, l)

\* The restored objects, with at[p] the address of the object at position p.
RestoredHeap(fl, at) ==
  LET target(l) == at[<<l.type, Minus1(l.index) + 1>>]
      restored(p) ==
        LET r == fl.objects[p[1]][p[2]] IN
        [type |-> p[1], uhdmId |-> r.uhdmId,
         parent |-> IF IsUnset(r.parent) THEN Null ELSE target(r.parent),
         refs |-> {target(l) : l \in r.refs}]
  IN  [a \in {at[p] : p \in Positions(fl)} |->
         restored(CHOOSE p \in Positions(fl) : at[p] = a)]

-----------------------------------------------------------------------------
(***************************************************************************)
(* Actions.                                                                *)
(***************************************************************************)
Init ==
  /\ heap = NoObjects
  /\ factory = Empty
  /\ objId = 0
  /\ gcEnabled = TRUE
  /\ file = NoFile
  /\ status = "running"
  /\ mishaps = {}

Running == status = "running"

\* An address can be given out when nothing lives there and nothing points
\* there.  (Using a pointer to a freed object is undefined whatever the
\* allocator has put in its place since.)
Free == Addr \ (Live \cup UNION {Targets(heap[a]) : a \in Live})

\* MakeX(): the new object takes the next UhdmId and the end of its factory.
MakeObject(t, a) ==
  /\ Running
  /\ objId < MaxObjId
  /\ a \in Free
  /\ objId' = objId + 1
  /\ heap' = [b \in Live \cup {a} |->
                IF b = a THEN [type |-> t, uhdmId |-> objId + 1,
                               parent |-> Null, refs |-> {}]
                         ELSE heap[b]]
  /\ factory' = [factory EXCEPT ![t] = Append(@, a)]
  /\ UNCHANGED <<gcEnabled, file, status, mishaps>>

\* The setters of the reference fields.
Links == UNION {{a} \X Targets(heap[a]) : a \in Live}

SetParent(a, b) ==
  /\ Running
  /\ a \in Live /\ b \in (Live \cup {Null}) \ {a}
  /\ Cardinality(Links) < MaxLinks
  /\ heap' = [heap EXCEPT ![a].parent = b]
  /\ UNCHANGED <<factory, objId, gcEnabled, file, status, mishaps>>

AddRef(a, b) ==
  /\ Running
  /\ a \in Live /\ b \in Live \ {a}
  /\ Cardinality(Links) < MaxLinks
  /\ heap' = [heap EXCEPT ![a].refs = @ \cup {b}]
  /\ UNCHANGED <<factory, objId, gcEnabled, file, status, mishaps>>

DropRefs(a) ==
  /\ Running
  /\ a \in Live
  /\ heap' = [heap EXCEPT ![a].refs = {}]
  /\ UNCHANGED <<factory, objId, gcEnabled, file, status, mishaps>>

SetGCEnabled(b) ==
  /\ Running
  /\ gcEnabled' = b
  /\ UNCHANGED <<heap, factory, objId, file, status, mishaps>>

\* Erase(p): deletes p and takes it out of its factory.  It does not look for
\* pointers to p: those that there are dangle from now on.
IsPointedAt(a) == \E b \in Live \ {a} : a \in Targets(heap[b])

Erase(a) ==
  /\ Running
  /\ a \in Live
  /\ heap' = Restricted(heap, Live \ {a})
  /\ factory' = EraseIfNotIn(factory, Live \ {a})
  /\ mishaps' = mishaps \cup (IF IsPointedAt(a) THEN {"erased"} ELSE {})
  /\ UNCHANGED <<objId, gcEnabled, file, status>>

Undefined ==
  /\ status' = "undefined"
  /\ UNCHANGED <<heap, factory, objId, gcEnabled, file>>

GarbageCollect ==
  /\ Running
  /\ gcEnabled
  /\ IF VisitsFreed(heap)
       THEN Undefined /\ UNCHANGED mishaps
       ELSE /\ heap' = Collected(heap)
            /\ factory' = EraseIfNotIn(factory, Kept(heap))
            /\ mishaps' = mishaps \cup Skipped(heap)
            /\ UNCHANGED <<objId, gcEnabled, file, status>>

\* What Save writes from, after the collection it starts with if enabled.
HeapToSave == IF gcEnabled THEN Collected(heap) ELSE heap
FactoryToSave ==
  IF gcEnabled THEN EraseIfNotIn(factory, Kept(heap)) ELSE factory
SaveSkipped == IF gcEnabled THEN Skipped(heap) ELSE {}
CannotSave == (gcEnabled /\ VisitsFreed(heap)) \/ SavesFreed(HeapToSave)

Save ==
  /\ Running
  /\ mishaps' = mishaps \cup SaveSkipped
  /\ IF CannotSave
       THEN Undefined
       ELSE /\ heap' = HeapToSave
            /\ factory' = FactoryToSave
            /\ file' = FileOf(HeapToSave, FactoryToSave, objId)
            /\ UNCHANGED <<objId, gcEnabled, status>>

\* The write at the end of Save stops half way: it throws, or the process dies
\* (Restart follows).  The file is opened without O_TRUNC, so that what an
\* older, longer file had stays behind the new bytes.
Leftovers ==
  {file, TornFile} \cup (IF file = NoFile THEN {} ELSE {MixedFile})

SaveInterrupted ==
  /\ Running
  /\ ~ CannotSave
  /\ heap' = HeapToSave
  /\ factory' = FactoryToSave
  /\ file' \in Leftovers
  /\ mishaps' = mishaps \cup SaveSkipped
                \cup (IF file' = MixedFile THEN {"mixed"} ELSE {})
  /\ UNCHANGED <<objId, gcEnabled, status>>

Purge ==
  /\ Running
  /\ heap' = NoObjects
  /\ factory' = Empty
  /\ UNCHANGED <<objId, gcEnabled, file, status, mishaps>>

\* Restore of a file of this version: purge, make the objects of every factory
\* (at addresses the allocator picks), set m_objId from the file, read the
\* fields.
Restore(at) ==
  /\ Running
  /\ file \notin NotSaved
  /\ \A p, q \in Positions(file) : at[p] = at[q] => p = q
  /\ IF Readable(file)
       THEN /\ heap' = RestoredHeap(file, at)
            /\ factory' = [t \in Type |-> [i \in DOMAIN file.objects[t] |->
                                             at[<<t, i>>]]]
            /\ objId' = file.objectId
            /\ UNCHANGED <<gcEnabled, file, status, mishaps>>
       ELSE Undefined /\ UNCHANGED mishaps

\* Restore of a file that is missing, torn or mixed (the reader throws) or of
\* another version (Restore returns early): everything was purged before the
\* file was looked at.  The symbols are the last in the file and the first to be
\* read, so that a file that ends too early is noticed before objects are made.
RestoreFails ==
  /\ Running
  /\ file \in NotSaved
  /\ heap' = NoObjects
  /\ factory' = Empty
  /\ UNCHANGED <<objId, gcEnabled, file, status, mishaps>>

\* Restore of a mixed file that the reader does not reject, as there is no
\* checksum: ids may repeat, indices may be past the ends of their factories,
\* and the reader may still throw when half the objects are there.
RestoreMixed ==
  /\ Running
  /\ file = MixedFile
  /\ Undefined /\ UNCHANGED mishaps

\* The process ends, is killed or crashes, and a new one starts: only the file
\* is left, with anything in it if the process has gone undefined.
Restart ==
  /\ heap' = NoObjects
  /\ factory' = Empty
  /\ objId' = 0
  /\ gcEnabled' = TRUE
  /\ status' = "running"
  /\ file' \in {file} \cup (IF Running THEN {} ELSE {MixedFile})
  /\ UNCHANGED mishaps

\* Another version of UHDM has written the file.
OtherVersionSaves ==
  /\ file' = OtherFile
  /\ UNCHANGED <<heap, factory, objId, gcEnabled, status, mishaps>>

AddressMaps ==
  IF file \in NotSaved THEN {} ELSE [Positions(file) -> Addr]

Next ==
  \/ \E t \in Type, a \in Addr : MakeObject(t, a)
  \/ \E a \in Addr, b \in Addr \cup {Null} : SetParent(a, b)
  \/ \E a, b \in Addr : AddRef(a, b)
  \/ \E a \in Addr : DropRefs(a) \/ Erase(a)
  \/ \E b \in BOOLEAN : SetGCEnabled(b)
  \/ GarbageCollect
  \/ Save
  \/ SaveInterrupted
  \/ Purge
  \/ \E at \in AddressMaps : Restore(at)
  \/ RestoreFails
  \/ RestoreMixed
  \/ Restart
  \/ OtherVersionSaves

Spec == Init /\ [][Next]_vars

-----------------------------------------------------------------------------
(***************************************************************************)
(* Properties.                                                             *)
(***************************************************************************)
TypeOK ==
  /\ Live \subseteq Addr
  /\ \A a \in Live : heap[a] \in Object
  /\ factory \in [Type -> Seq(Addr)]
  /\ objId \in Nat
  /\ gcEnabled \in BOOLEAN
  /\ file \in SavedFile \cup NotSaved
  /\ status \in {"running", "undefined"}
  /\ mishaps \subseteq {"erased", "skipped", "mixed"}

\* No two live objects share a UhdmId, and the next one to be made will not
\* share one either: Make, Purge, a collection, and a Restore that puts back an
\* older m_objId never lead to a repeated id.
UniqueIds ==
  /\ \A a, b \in Live : heap[a].uhdmId = heap[b].uhdmId => a = b
  /\ \A a \in Live : heap[a].uhdmId \in 1 .. objId

\* The factories list every live object exactly once, under its type, oldest
\* first: in the order of the UhdmIds, also after collections and restores.
FactoriesListHeap ==
  /\ \A t \in Type :
       LET f == factory[t] IN
       /\ {f[i] : i \in DOMAIN f} = {a \in Live : heap[a].type = t}
       /\ \A i, j \in DOMAIN f :
            i < j => heap[f[i]].uhdmId < heap[f[j]].uhdmId

\* As long as clients erase only objects that no other points at, only an object
\* of a type the collector skips can be left with a pointer to an object that
\* was deleted, through any sequence of collections, saves and restores.
NoDangling ==
  "erased" \notin mishaps =>
    \A a \in Live :
      heap[a].type \notin Uncollected => Targets(heap[a]) \subseteq Live

\* The program uses a freed object, reads past the end of a factory or takes a
\* mixed file for a design only if one of three things has happened before, in
\* this process or in one that wrote the file: a client has erased an object
\* that another points at; a collection has kept an object of a skipped type and
\* deleted one that it points at; a save over an older file has been
\* interrupted.  Nothing else that clients do to the objects they hold, that a
\* restart interrupts or that a file can contain, leads there.
AlwaysDefined == mishaps = {} => status = "running"

-----------------------------------------------------------------------------
(***************************************************************************)
(* The store implements ObjectStore: an object stands for its UhdmId, in   *)
(* memory and in the file.                                                 *)
(***************************************************************************)
IdAt(h, a) == IF a = Null THEN 0 ELSE h[a].uhdmId
StoreIn(h) ==
  [i \in {h[a].uhdmId : a \in DOMAIN h} |->
     LET a == CHOOSE a \in DOMAIN h : h[a].uhdmId = i
     IN  [type |-> h[a].type, parent |-> IdAt(h, h[a].parent),
          refs |-> {IdAt(h, b) : b \in h[a].refs}]]

RecordAt(fl, p) == fl.objects[p[1]][p[2]]
IdIn(fl, l) == IF l.index = 0 THEN 0 ELSE RecordAt(fl, <<l.type, l.index>>).uhdmId
StoreInFile(fl) ==
  [i \in {RecordAt(fl, p).uhdmId : p \in Positions(fl)} |->
     LET p == CHOOSE p \in Positions(fl) : RecordAt(fl, p).uhdmId = i
     IN  [type |-> p[1], parent |-> IdIn(fl, RecordAt(fl, p).parent),
          refs |-> {IdIn(fl, l) : l \in RecordAt(fl, p).refs}]]

IsBroken ==
  \/ status # "running"
  \/ \E a \in Live : ~ (Targets(heap[a]) \subseteq Live)

DiskOf(fl) ==
  LET disk(state, s, n) == [state |-> state, store |-> s, nextId |-> n] IN
  CASE fl \in NotSaved \ {MixedFile} -> disk("nothing", NoObjects, 0)
    [] fl = MixedFile -> disk("junk", NoObjects, 0)
    [] fl \notin NotSaved /\ ~ Readable(fl) -> disk("junk", NoObjects, 0)
    [] OTHER -> disk("saved", StoreInFile(fl), fl.objectId)

AbstractHeap == IF IsBroken THEN NoObjects ELSE StoreIn(heap)

Abstract == INSTANCE ObjectStore
  WITH store <- AbstractHeap, nextId <- objId,
       disk <- DiskOf(file), broken <- IsBroken

\* Whatever the addresses and positions, clients see a graph named by UhdmIds
\* in which collections only delete what no design reaches, and a restore, now
\* or after a restart, gives back the objects, types, references, ids and id
\* counter of the last save that was complete, until a collection or an erasure
\* has left an object that points at a deleted one, or a save was interrupted.
ImplementsObjectStore == Abstract!Spec
=============================================================================
