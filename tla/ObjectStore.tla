---------------------------- MODULE ObjectStore ----------------------------
(***************************************************************************)
(* What the object store of UHDM (module Serializer) promises to its       *)
(* clients, without addresses, factories or positions: a graph of objects  *)
(* named by their UhdmIds, collections that keep at least what the designs *)
(* reach, and a disk from which a load gives back the very graph that was  *)
(* saved.                                                                  *)
(*                                                                         *)
(* The promise lapses (broken) when an object is left that refers to a     *)
(* deleted one.  A client does that by deleting what is referred to.  A    *)
(* collection may do it, which no caller can see coming: it happens only   *)
(* if the collector keeps objects that the designs do not reach.           *)
(***************************************************************************)
EXTENDS Naturals, Reachability

CONSTANTS Type, Design

VARIABLES
  store,   \* the objects: UhdmId |-> [type, parent, refs], where parent is 0
           \* if the object has none
  nextId,  \* the last UhdmId given out
  disk,    \* what was last saved; Nothing; or Junk, which a broken store or
           \* an interrupted save has written
  broken

vars == <<store, nextId, disk, broken>>

TargetsOf(s, i) == s[i].refs \cup ({s[i].parent} \ {0})
GraphOf(s) == [i \in DOMAIN s |-> TargetsOf(s, i)]
MustKeep(s) == Reached(GraphOf(s), {i \in DOMAIN s : s[i].type = Design})

Only(s, keep) == [i \in keep |-> s[i]]
NoStore == [i \in {} |-> 0]
Disk(state, s, n) == [state |-> state, store |-> s, nextId |-> n]
Nothing == Disk("nothing", NoStore, 0)
Junk == Disk("junk", NoStore, 0)
Snapshot(s, n) == Disk("saved", s, n)

Init ==
  /\ store = NoStore
  /\ nextId = 0
  /\ disk = Nothing
  /\ broken = FALSE

Make ==
  /\ ~ broken /\ ~ broken'
  /\ nextId' = nextId + 1
  /\ UNCHANGED disk
  /\ \E t \in Type :
       store' = [i \in DOMAIN store \cup {nextId'} |->
                   IF i = nextId' THEN [type |-> t, parent |-> 0, refs |-> {}]
                                  ELSE store[i]]

\* A client changes the references of one object.
Link ==
  /\ ~ broken /\ ~ broken'
  /\ UNCHANGED <<nextId, disk>>
  /\ DOMAIN store' = DOMAIN store
  /\ \E i \in DOMAIN store :
       /\ store' = [store EXCEPT ![i] = store'[i]]
       /\ store'[i].type = store[i].type
       /\ TargetsOf(store', i) \subseteq DOMAIN store

\* A client deletes an object.
Erase ==
  /\ ~ broken
  /\ UNCHANGED <<nextId, disk>>
  /\ \E i \in DOMAIN store :
       IF \E j \in DOMAIN store \ {i} : i \in TargetsOf(store, j)
         THEN broken'
         ELSE ~ broken' /\ store' = Only(store, DOMAIN store \ {i})

\* The objects that are kept are a superset of those the designs reach.
Collected ==
  /\ ~ broken
  /\ \/ /\ ~ broken'
        /\ DOMAIN store' \subseteq DOMAIN store
        /\ MustKeep(store) \subseteq DOMAIN store'
        /\ IsClosed(GraphOf(store), DOMAIN store')
        /\ store' = Only(store, DOMAIN store')
     \/ /\ broken'
        /\ \E K \in SUBSET DOMAIN store :
             MustKeep(store) \subseteq K /\ ~ IsClosed(GraphOf(store), K)

Collect ==
  /\ UNCHANGED <<nextId, disk>>
  /\ Collected

Save ==
  /\ nextId' = nextId
  /\ Collected
  /\ disk' = IF broken' THEN Junk ELSE Snapshot(store', nextId)

\* A save that does not come to its end may have destroyed what was saved.
SaveInterrupted ==
  /\ nextId' = nextId
  /\ Collected
  /\ disk' \in {disk, Nothing, Junk}

\* Purge, or a load when there is nothing to load.
Forget ==
  /\ ~ broken'
  /\ store' = NoStore
  /\ UNCHANGED <<nextId, disk>>

Load ==
  /\ disk # Nothing
  /\ UNCHANGED disk
  /\ IF disk = Junk
       THEN broken'
       ELSE /\ ~ broken'
            /\ store' = disk.store
            /\ nextId' = disk.nextId

\* A new process starts.  The disk keeps what it had, unless the store was broken.
Crash ==
  /\ ~ broken'
  /\ store' = NoStore
  /\ nextId' = 0
  /\ disk' \in {disk} \cup (IF broken THEN {Junk} ELSE {})

\* Another version of the program has written the file.
Lose ==
  /\ disk' = Nothing
  /\ UNCHANGED <<store, nextId, broken>>

\* A broken store does what it likes, but what it saves is junk until it is
\* broken no more.
Anything ==
  /\ broken
  /\ nextId' \in {nextId, nextId + 1}
  /\ \/ disk' \in {disk, Junk, Nothing}
     \/ ~ broken' /\ disk' = Snapshot(store', nextId)

Next ==
  \/ Make \/ Link \/ Erase \/ Collect \/ Save \/ SaveInterrupted \/ Forget
  \/ Load \/ Crash \/ Lose \/ Anything

Spec == Init /\ [][Next]_vars
=============================================================================
