---------------------------- MODULE MCSerializer ----------------------------
(***************************************************************************)
(* Model checking of Serializer with a type that the collector skips, as   *)
(* in the code.                                                            *)
(***************************************************************************)
EXTENDS Serializer, TLC

\* Keepers selects the entries to keep, in their order.
ASSUME KeepersSelects ==
  \A n \in 0 .. 4 : \A q \in [1 .. n -> Addr], keep \in SUBSET Addr :
    Keepers(q, keep) = SelectSeq(q, LAMBDA a : a \in keep)

Symmetry == Permutations(Addr)

\* Bound: at most one design, which has no parent.
OneDesign ==
  \A a, b \in Live :
    heap[a].type = Design =>
      heap[a].parent = Null /\ (heap[b].type = Design => a = b)

\* Bound: of the states in which memory and the file differ, those with at
\* most MaxTotal objects in the two are explored further; of the states after a
\* mishap, those after no other one, with at most MaxSpoilt objects in the two.
CONSTANTS MaxTotal, MaxSpoilt

Total ==
  Cardinality(Live) +
  (IF file \in NotSaved THEN 0 ELSE Cardinality(Positions(file)))

Small ==
  /\ \/ file \in NotSaved
     \/ file = FileOf(heap, factory, objId)
     \/ Total <= MaxTotal
  /\ \/ mishaps = {}
     \/ Cardinality(mishaps) = 1 /\ Total <= MaxSpoilt
=============================================================================
