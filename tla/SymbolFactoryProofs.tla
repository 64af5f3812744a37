------------------------ MODULE SymbolFactoryProofs ------------------------
(***************************************************************************)
(* Proofs about the symbol tables.  The inductive invariant adds to the    *)
(* run's invariants what makes them inductive: the counter equals the      *)
(* number of strings, and the bad symbol sits at id 0.                     *)
(***************************************************************************)
EXTENDS SymbolFactory, TLAPS

\* One table is consistent: its two containers are inverse to each other and
\* the counter is the next free id.
Consistent(tab) ==
  /\ IsTable(tab)
  /\ tab.idCounter = Len(tab.id2Symbol)
  /\ \A i \in 1 .. Len(tab.id2Symbol) :
       /\ tab.id2Symbol[i] \in DOMAIN tab.symbol2Id
       /\ tab.symbol2Id[tab.id2Symbol[i]] = i - 1
  /\ \A s \in DOMAIN tab.symbol2Id :
       /\ tab.symbol2Id[s] < Len(tab.id2Symbol)
       /\ tab.id2Symbol[tab.symbol2Id[s] + 1] = s

BadIsFirst(tab) == Len(tab.id2Symbol) > 0 /\ tab.id2Symbol[1] = BadSymbol

IInv ==
  /\ TypeOK
  /\ \A f \in Factory : Consistent(table[f]) /\ BadIsFirst(table[f])
  /\ IssuedIdsResolve

-----------------------------------------------------------------------------
\* An empty table is consistent.
LEMMA EmptyConsistent == Consistent(NoSymbols)
  BY DEF Consistent, NoSymbols, IsTable

\* Adding a string to a consistent table leaves it consistent.
LEMMA AddConsistent ==
  ASSUME NEW tab, Consistent(tab), NEW s \in AnySymbol
  PROVE  Consistent(Add(tab, s))
<1>1. CASE Known(tab, s)
  BY <1>1 DEF Add
<1>2. CASE ~ Known(tab, s)
  <2> DEFINE new == Add(tab, s)
             m == tab.symbol2Id
             q == tab.id2Symbol
  <2>1. /\ new.id2Symbol = Append(q, s)
        /\ new.symbol2Id = [t \in DOMAIN m \cup {s} |->
                              IF t = s THEN tab.idCounter ELSE m[t]]
        /\ new.idCounter = tab.idCounter + 1
    BY <1>2 DEF Add
  <2>2. IsTable(new)
    BY <1>2, <2>1 DEF Add, Consistent, IsTable
  <2>3. new.idCounter = Len(new.id2Symbol)
    BY <2>1 DEF Consistent, IsTable
  <2>4. ASSUME NEW i \in 1 .. Len(new.id2Symbol)
        PROVE  /\ new.id2Symbol[i] \in DOMAIN new.symbol2Id
               /\ new.symbol2Id[new.id2Symbol[i]] = i - 1
    <3>1. CASE i = Len(q) + 1
      BY <2>1, <3>1 DEF Consistent, IsTable
    <3>2. CASE i \in 1 .. Len(q)
      <4>1. new.id2Symbol[i] = q[i] /\ q[i] \in DOMAIN m /\ q[i] # s
        BY <1>2, <2>1, <3>2 DEF Consistent, IsTable, Known
      <4>2. QED
        BY <2>1, <3>2, <4>1 DEF Consistent, IsTable
    <3>3. QED
      BY <2>1, <3>1, <3>2 DEF Consistent, IsTable
  <2>5. ASSUME NEW t \in DOMAIN new.symbol2Id
        PROVE  /\ new.symbol2Id[t] < Len(new.id2Symbol)
               /\ new.id2Symbol[new.symbol2Id[t] + 1] = t
    <3>1. CASE t = s
      BY <2>1, <3>1 DEF Consistent, IsTable
    <3>2. CASE t # s
      <4>1. t \in DOMAIN m /\ new.symbol2Id[t] = m[t] /\ m[t] \in Nat
        BY <2>1, <3>2 DEF Consistent, IsTable
      <4>2. m[t] < Len(q) /\ q[m[t] + 1] = t
        BY <4>1 DEF Consistent
      <4>3. QED
        BY <2>1, <4>1, <4>2 DEF Consistent, IsTable
    <3>3. QED
      BY <3>1, <3>2
  <2>6. QED
    BY <2>2, <2>3, <2>4, <2>5 DEF Consistent
<1>3. QED
  BY <1>1, <1>2

\* Adding a string moves no other one, and the string can be found under the
\* id that is returned for it.
LEMMA AddKeeps ==
  ASSUME NEW tab, Consistent(tab), NEW s \in AnySymbol
  PROVE  /\ Len(tab.id2Symbol) <= Len(Add(tab, s).id2Symbol)
         /\ \A i \in 1 .. Len(tab.id2Symbol) :
              Add(tab, s).id2Symbol[i] = tab.id2Symbol[i]
         /\ \A t \in DOMAIN tab.symbol2Id :
              /\ t \in DOMAIN Add(tab, s).symbol2Id
              /\ Add(tab, s).symbol2Id[t] = tab.symbol2Id[t]
         /\ s \in DOMAIN Add(tab, s).symbol2Id
  BY DEF Add, Known, Consistent, IsTable

\* The bad symbol is the first that a table registers.
LEMMA AddBadIsFirst ==
  ASSUME NEW tab, Consistent(tab), BadIsFirst(tab), NEW s \in AnySymbol
  PROVE  BadIsFirst(Add(tab, s))
  BY DEF Add, Consistent, IsTable, BadIsFirst

\* In a consistent table an id and its string determine each other.
LEMMA ConsistentLookup ==
  ASSUME NEW tab, Consistent(tab)
  PROVE  /\ \A id \in Ids(tab) : IdOf(tab, SymbolOf(tab, id)) = id
         /\ \A s \in DOMAIN tab.symbol2Id :
              /\ SymbolOf(tab, IdOf(tab, s)) = s
              /\ IdOf(tab, s) \in Nat
<1>1. ASSUME NEW id \in Ids(tab)
      PROVE  IdOf(tab, SymbolOf(tab, id)) = id
  <2>1. Len(tab.id2Symbol) \in Nat
    BY DEF Consistent, IsTable
  <2>2. id \in Nat /\ id < Len(tab.id2Symbol)
    BY <2>1 DEF Ids
  <2>3. id + 1 \in 1 .. Len(tab.id2Symbol)
    BY <2>1, <2>2
  <2>4. SymbolOf(tab, id) = tab.id2Symbol[id + 1]
    BY <2>1, <2>2 DEF SymbolOf
  <2>5. /\ SymbolOf(tab, id) \in DOMAIN tab.symbol2Id
        /\ tab.symbol2Id[SymbolOf(tab, id)] = (id + 1) - 1
    BY <2>3, <2>4 DEF Consistent
  <2>6. QED
    BY <2>2, <2>5 DEF IdOf, Known
<1>2. ASSUME NEW s \in DOMAIN tab.symbol2Id
      PROVE  /\ SymbolOf(tab, IdOf(tab, s)) = s
             /\ IdOf(tab, s) \in Nat
  <2>1. IdOf(tab, s) = tab.symbol2Id[s] /\ tab.symbol2Id[s] \in Nat
    BY DEF IdOf, Known, Consistent, IsTable
  <2>2. /\ tab.symbol2Id[s] < Len(tab.id2Symbol)
        /\ tab.id2Symbol[tab.symbol2Id[s] + 1] = s
        /\ Len(tab.id2Symbol) \in Nat
    BY DEF Consistent, IsTable
  <2>3. QED
    BY <2>1, <2>2 DEF SymbolOf
<1>3. QED
  BY <1>1, <1>2

\* A new table, and one that was purged, holds the bad symbol at id 0 only.
LEMMA FreshTable ==
  /\ Consistent(NewTable)
  /\ BadIsFirst(NewTable)
  /\ NewTable.id2Symbol = <<BadSymbol>>
<1>1. Consistent(NewTable)
  BY EmptyConsistent, AddConsistent DEF NewTable, AnySymbol
<1>2. BadIsFirst(NewTable) /\ NewTable.id2Symbol = <<BadSymbol>>
  BY DEF NewTable, NoSymbols, Add, Known, BadIsFirst
<1>3. QED
  BY <1>1, <1>2

-----------------------------------------------------------------------------
\* The string a table resolves an id to is a string.
LEMMA SymbolOfType ==
  ASSUME NEW tab, Consistent(tab), NEW id \in Nat
  PROVE  SymbolOf(tab, id) \in AnySymbol
<1>1. tab.id2Symbol \in Seq(AnySymbol) /\ Len(tab.id2Symbol) \in Nat
  BY DEF Consistent, IsTable
<1>2. CASE id >= Len(tab.id2Symbol)
  BY <1>2 DEF SymbolOf, AnySymbol
<1>3. CASE ~(id >= Len(tab.id2Symbol))
  <2>1. id + 1 \in 1 .. Len(tab.id2Symbol)
    BY <1>1, <1>3
  <2>2. QED
    BY <1>1, <1>3, <2>1 DEF SymbolOf
<1>4. QED
  BY <1>2, <1>3

\* add returns the id under which the string is then found.
LEMMA AddHands ==
  ASSUME NEW tab, Consistent(tab), NEW s \in AnySymbol
  PROVE  /\ IdOf(Add(tab, s), s) \in Nat
         /\ SymbolOf(Add(tab, s), IdOf(Add(tab, s), s)) = s
  BY AddConsistent, AddKeeps, ConsistentLookup

\* Adding a string keeps every pair that named a string of the table.
LEMMA AddKeepsPairs ==
  ASSUME NEW tab, Consistent(tab), BadIsFirst(tab), NEW t \in AnySymbol,
         NEW id \in Nat, NEW s \in AnySymbol,
         SymbolOf(tab, id) = s, IdOf(tab, s) = id
  PROVE  SymbolOf(Add(tab, t), id) = s /\ IdOf(Add(tab, t), s) = id
<1> DEFINE new == Add(tab, t)
<1>1. Consistent(new)
  BY AddConsistent
<1>2. s \in DOMAIN tab.symbol2Id
  <2>1. CASE Known(tab, s)
    BY <2>1 DEF Known
  <2>2. CASE ~ Known(tab, s)
    <3>1. id = 0
      BY <2>2 DEF IdOf, BadId
    <3>2. Len(tab.id2Symbol) \in Nat /\ Len(tab.id2Symbol) > 0
      BY DEF Consistent, IsTable, BadIsFirst
    <3>3. s = tab.id2Symbol[1]
      BY <3>1, <3>2 DEF SymbolOf
    <3>4. QED
      BY <3>2, <3>3 DEF Consistent
  <2>3. QED
    BY <2>1, <2>2
<1>3. s \in DOMAIN new.symbol2Id /\ new.symbol2Id[s] = tab.symbol2Id[s]
  BY <1>2, AddKeeps
<1>4. IdOf(new, s) = id
  BY <1>2, <1>3 DEF IdOf, Known
<1>5. QED
  BY <1>1, <1>3, <1>4, ConsistentLookup

\* A step that adds the string t to table f (or leaves it as it is) and hands
\* out a pair that names a string there preserves the invariant.
LEMMA HandStep ==
  ASSUME IInv, NEW f \in Factory, NEW t \in AnySymbol, NEW new,
         new = table[f] \/ new = Add(table[f], t),
         NEW id \in Nat, NEW s \in AnySymbol,
         SymbolOf(new, id) = s, IdOf(new, s) = id,
         table' = [table EXCEPT ![f] = new],
         Hand(f, id, s)
  PROVE  IInv'
<1> USE DEF IInv
<1>1. Consistent(new) /\ BadIsFirst(new)
  <2>1. Consistent(table[f]) /\ BadIsFirst(table[f])
    OBVIOUS
  <2>2. CASE new = table[f]
    BY <2>1, <2>2
  <2>3. CASE new = Add(table[f], t)
    <3>1. Consistent(new)
      BY <2>1, <2>3, AddConsistent
    <3>2. QED
      BY <2>1, <2>3, <3>1, AddBadIsFirst
  <2>4. QED
    BY <2>2, <2>3
<1>2. /\ table' = [g \in Factory |-> IF g = f THEN new ELSE table[g]]
      /\ issued' = [g \in Factory |-> IF g = f THEN issued[f] \cup {<<id, s>>}
                                               ELSE issued[g]]
  BY DEF TypeOK, Hand
<1>3. \A g \in Factory : Consistent(table[g])' /\ BadIsFirst(table[g])'
  BY <1>1, <1>2 DEF Consistent, IsTable, BadIsFirst
<1>4. TypeOK'
  <2>1. \A g \in Factory : IsTable(table[g])'
    BY <1>3 DEF Consistent
  <2>2. table' = [g \in Factory |-> table'[g]]
    BY <1>2
  <2>3. issued' \in [Factory -> SUBSET (Nat \X AnySymbol)]
    BY <1>2 DEF TypeOK
  <2>4. QED
    BY <2>1, <2>2, <2>3 DEF TypeOK
<1>5. IssuedIdsResolve'
  <2> SUFFICES ASSUME NEW g \in Factory, NEW p \in issued'[g]
               PROVE  /\ SymbolOf(table'[g], p[1]) = p[2]
                      /\ IdOf(table'[g], p[2]) = p[1]
    BY DEF IssuedIdsResolve
  <2>1. CASE g # f
    BY <1>2, <2>1 DEF IssuedIdsResolve
  <2>2. CASE g = f /\ p = <<id, s>>
    BY <1>2, <2>2
  <2>3. CASE g = f /\ p \in issued[f]
    <3>1. p[1] \in Nat /\ p[2] \in AnySymbol
      BY <2>3 DEF TypeOK
    <3>2. SymbolOf(table[f], p[1]) = p[2] /\ IdOf(table[f], p[2]) = p[1]
      BY <2>3 DEF IssuedIdsResolve
    <3>3. SymbolOf(new, p[1]) = p[2] /\ IdOf(new, p[2]) = p[1]
      <4>1. CASE new = table[f]
        BY <3>2, <4>1
      <4>2. CASE new = Add(table[f], t)
        BY <3>1, <3>2, <4>2, AddKeepsPairs
      <4>3. QED
        BY <4>1, <4>2
    <3>4. QED
      BY <1>2, <2>3, <3>3
  <2>4. QED
    BY <1>2, <2>1, <2>2, <2>3
<1>6. QED
  BY <1>3, <1>4, <1>5

\* Purging a table preserves the invariant: nothing it issued is held any more.
LEMMA PurgeStep ==
  ASSUME IInv, NEW f \in Factory, Purge(f)
  PROVE  IInv'
<1> USE DEF IInv
<1>1. /\ table' = [g \in Factory |-> IF g = f THEN NewTable ELSE table[g]]
      /\ issued' = [g \in Factory |-> IF g = f THEN {} ELSE issued[g]]
  BY DEF TypeOK, Purge
<1>2. \A g \in Factory : Consistent(table[g])' /\ BadIsFirst(table[g])'
  <2> SUFFICES ASSUME NEW g \in Factory
               PROVE  Consistent(table'[g]) /\ BadIsFirst(table'[g])
    BY DEF Consistent, IsTable, BadIsFirst
  <2>1. CASE g = f
    BY <1>1, <2>1, FreshTable
  <2>2. CASE g # f
    BY <1>1, <2>2
  <2>3. QED
    BY <2>1, <2>2
<1>3. \A g \in Factory : IsTable(table[g])'
  BY <1>2 DEF Consistent
<1>4. /\ table' = [g \in Factory |-> table'[g]]
      /\ issued' \in [Factory -> SUBSET (Nat \X AnySymbol)]
  BY <1>1 DEF TypeOK
<1>5. IssuedIdsResolve'
  BY <1>1 DEF IssuedIdsResolve
<1>6. QED
  BY <1>2, <1>3, <1>4, <1>5 DEF TypeOK

\* The invariant holds at the start.
LEMMA InitIInv == Init => IInv
<1> SUFFICES ASSUME Init PROVE IInv
  OBVIOUS
<1>1. \A f \in Factory : Consistent(table[f]) /\ BadIsFirst(table[f])
  BY FreshTable DEF Init
<1>2. QED
  BY <1>1 DEF Init, IInv, TypeOK, Consistent, IssuedIdsResolve

\* Every step keeps it.
LEMMA NextIInv == IInv /\ [Next]_vars => IInv'
<1> SUFFICES ASSUME IInv, [Next]_vars PROVE IInv'
  OBVIOUS
<1>1. ASSUME NEW f \in Factory, NEW s \in AnySymbol, RegisterSymbol(f, s)
      PROVE  IInv'
  BY <1>1, HandStep, AddHands DEF RegisterSymbol, IInv
<1>2. ASSUME NEW f \in Factory, NEW s \in AnySymbol, MakeSymbol(f, s)
      PROVE  IInv'
  <2>1. Consistent(table[f]) /\ BadIsFirst(table[f])
    BY DEF IInv
  <2>2. CASE IsNoSymbol(s)
    <3>1. /\ table' = [table EXCEPT ![f] = table[f]]
          /\ Hand(f, BadId, BadSymbol)
      BY <1>2, <2>2 DEF MakeSymbol, Make, MadeId
    <3>2. SymbolOf(table[f], BadId) = BadSymbol
      BY <2>1 DEF SymbolOf, BadId, BadIsFirst, Consistent, IsTable
    <3>3. 0 \in Ids(table[f])
      BY <2>1 DEF Ids, BadIsFirst, Consistent, IsTable
    <3>4. IdOf(table[f], BadSymbol) = BadId
      BY <2>1, <3>2, <3>3, ConsistentLookup DEF BadId
    <3>5. QED
      BY <3>1, <3>2, <3>4, HandStep DEF AnySymbol, BadId
  <2>3. CASE ~ IsNoSymbol(s)
    BY <1>2, <2>1, <2>3, HandStep, AddHands DEF MakeSymbol, Make, MadeId
  <2>4. QED
    BY <2>2, <2>3
<1>3. ASSUME NEW f \in Factory, NEW g \in Factory, NEW id \in 0 .. MaxId,
             CopyFrom(f, g, id)
      PROVE  IInv'
  <2>1. SymbolOf(table[g], id) \in AnySymbol
    BY MaxIdAssumption, SymbolOfType DEF IInv
  <2>2. QED
    BY <1>3, <2>1, HandStep, AddHands DEF CopyFrom, IInv
<1>4. ASSUME NEW f \in Factory, Purge(f)
      PROVE  IInv'
  BY <1>4, PurgeStep
<1>5. CASE UNCHANGED vars
  BY <1>5 DEF vars, IInv, TypeOK, Consistent, BadIsFirst, IsTable,
              IssuedIdsResolve, SymbolOf, IdOf, Known
<1>6. QED
  BY <1>1, <1>2, <1>3, <1>4, <1>5 DEF Next

-----------------------------------------------------------------------------
\* The inductive invariant holds in every reachable state.
THEOREM Invariance == Spec => []IInv
  BY InitIInv, NextIInv, PTL DEF Spec

\* Type correctness of the symbol tables.
THEOREM TypeCorrect == Spec => []TypeOK
  BY Invariance, PTL DEF IInv

\* The id and the text of a symbol determine each other in every reachable
\* table (SymbolFactory::add, get, getSymbol).
THEOREM InverseMaps == Spec => []MapsAreInverse
<1>1. IInv => MapsAreInverse
  BY ConsistentLookup DEF IInv, MapsAreInverse
<1>2. QED
  BY <1>1, Invariance, PTL

\* No id a client holds ever changes its meaning before its table is purged,
\* for any number of tables and symbols.
THEOREM StableIds == Spec => []IssuedIdsResolve
  BY Invariance, PTL DEF IInv

\* What GetSymbol answers for the id Make returned is the string that was made,
\* and the empty string for the two strings that have no id.
THEOREM MakeThenGet == Spec => []MakeRoundTrip
<1>1. ASSUME IInv PROVE MakeRoundTrip
  <2> SUFFICES ASSUME NEW f \in Factory, NEW s \in AnySymbol
               PROVE  GetSymbol(Make(table[f], s), MadeId(table[f], s)) =
                        IF s = BadSymbol THEN EmptySymbol ELSE s
    BY DEF MakeRoundTrip
  <2> DEFINE tab == table[f]
             new == Add(tab, s)
  <2>1. Consistent(tab) /\ BadIsFirst(tab)
    BY <1>1 DEF IInv
  <2>2. CASE IsNoSymbol(s)
    BY <2>2, SymbolAssumption DEF IsNoSymbol, GetSymbol, MadeId, BadId
  <2>3. CASE ~ IsNoSymbol(s)
    <3>1. SymbolOf(new, IdOf(new, s)) = s /\ Consistent(new)
      BY <2>1, AddHands, AddConsistent
    <3>2. new.id2Symbol[1] = BadSymbol /\ Len(new.id2Symbol) > 0
      BY <2>1, AddBadIsFirst DEF BadIsFirst
    <3>3. SymbolOf(new, BadId) = BadSymbol
      BY <3>1, <3>2 DEF SymbolOf, BadId, Consistent, IsTable
    <3>4. IdOf(new, s) # BadId /\ s # BadSymbol
      BY <2>3, <3>1, <3>3 DEF IsNoSymbol
    <3>5. QED
      BY <2>3, <3>1, <3>4 DEF GetSymbol, Make, MadeId
  <2>4. QED
    BY <2>2, <2>3
<1>2. QED
  BY <1>1, Invariance, PTL

\* Adding a string, or not, moves no other one.
LEMMA GrownKeeps ==
  ASSUME IInv, NEW f \in Factory, NEW t \in AnySymbol, NEW new,
         new = table[f] \/ new = Add(table[f], t)
  PROVE  /\ Len(table[f].id2Symbol) <= Len(new.id2Symbol)
         /\ \A i \in 1 .. Len(table[f].id2Symbol) :
              new.id2Symbol[i] = table[f].id2Symbol[i]
<1>1. Consistent(table[f]) /\ Len(table[f].id2Symbol) \in Nat
  BY DEF IInv, Consistent, IsTable
<1>2. QED
  BY <1>1, AddKeeps

\* What a step does to one table: nothing, an addition, or a purge.
LEMMA StepOnTable ==
  ASSUME IInv, [Next]_vars, NEW f \in Factory
  PROVE  \/ \E t \in AnySymbol : table'[f] \in {table[f], Add(table[f], t)}
         \/ table'[f] = NewTable /\ issued'[f] = {}
<1> USE DEF IInv
<1>1. ASSUME NEW g \in Factory, NEW s \in AnySymbol, RegisterSymbol(g, s)
      PROVE  table'[f] \in {table[f], Add(table[f], s)}
  BY <1>1 DEF RegisterSymbol, TypeOK
<1>2. ASSUME NEW g \in Factory, NEW s \in AnySymbol, MakeSymbol(g, s)
      PROVE  table'[f] \in {table[f], Add(table[f], s)}
  BY <1>2 DEF MakeSymbol, Make, TypeOK
<1>3. ASSUME NEW g \in Factory, NEW h \in Factory, NEW id \in 0 .. MaxId,
             CopyFrom(g, h, id)
      PROVE  \E t \in AnySymbol : table'[f] \in {table[f], Add(table[f], t)}
  <2>1. SymbolOf(table[h], id) \in AnySymbol
    BY MaxIdAssumption, SymbolOfType
  <2>2. table'[f] \in {table[f], Add(table[f], SymbolOf(table[h], id))}
    BY <1>3 DEF CopyFrom, TypeOK
  <2>3. QED
    BY <2>1, <2>2
<1>4. ASSUME NEW g \in Factory, Purge(g)
      PROVE  \/ table'[f] = table[f]
             \/ table'[f] = NewTable /\ issued'[f] = {}
  BY <1>4 DEF Purge, TypeOK
<1>5. BadSymbol \in AnySymbol
  BY DEF AnySymbol
<1>6. CASE UNCHANGED vars
  BY <1>5, <1>6 DEF vars
<1>7. QED
  BY <1>1, <1>2, <1>3, <1>4, <1>5, <1>6 DEF Next

\* No string of a table moves before the table is purged: SymbolIds taken from
\* a table can be kept while others add to it.
THEOREM OnlyAppends == Spec => AppendOnly
<1> DEFINE old(f) == table[f].id2Symbol
           Kept(f) == \/ /\ Len(old(f)) <= Len(old(f)')
                         /\ \A i \in 1 .. Len(old(f)) : old(f)'[i] = old(f)[i]
                      \/ old(f)' = <<BadSymbol>> /\ issued[f]' = {}
<1>1. ASSUME IInv, [Next]_vars, NEW f \in Factory
      PROVE  Kept(f)
  <2>1. ASSUME NEW t \in AnySymbol, table'[f] \in {table[f], Add(table[f], t)}
        PROVE  Kept(f)
    BY <1>1, <2>1, GrownKeeps
  <2>2. ASSUME table'[f] = NewTable, issued'[f] = {}
        PROVE  Kept(f)
    BY <2>2, FreshTable
  <2>3. QED
    BY <1>1, <2>1, <2>2, StepOnTable
<1>2. IInv /\ [Next]_vars => [\A f \in Factory : Kept(f)]_vars
  BY <1>1
<1>3. QED
  BY <1>2, Invariance, PTL DEF Spec, AppendOnly
=============================================================================
