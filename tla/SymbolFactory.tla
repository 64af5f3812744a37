--------------------------- MODULE SymbolFactory ---------------------------
(***************************************************************************)
(* The symbol tables of UHDM (templates/SymbolFactory.cpp): every string   *)
(* of a design is interned once and named by a SymbolId.  This module      *)
(* models tables that are not snapshots of another one (m_parent is null   *)
(* and m_idOffset is 0 for their whole life), which is what a Serializer   *)
(* owns; several of them exist at once, one per Serializer.                *)
(*                                                                         *)
(* A table is a record of the three fields of the class:                   *)
(*   id2Symbol  m_id2SymbolMap, the strings in the order they were added,  *)
(*   symbol2Id  m_symbol2IdMap, the id of each string,                     *)
(*   idCounter  m_idCounter, the next id.                                  *)
(***************************************************************************)
EXTENDS Naturals, Sequences

CONSTANTS
  Factory,    \* the symbol tables, one per Serializer
  Symbol,     \* the strings a client may intern, EmptySymbol among them
  BadSymbol,  \* "@@BAD_SYMBOL@@"
  EmptySymbol,\* ""
  MaxId       \* bound: the largest id handed out (RawSymbolId is 32 bits wide)

ASSUME SymbolAssumption ==
  /\ EmptySymbol \in Symbol
  /\ BadSymbol \notin Symbol
ASSUME MaxIdAssumption == MaxId \in Nat

AnySymbol == Symbol \cup {BadSymbol}
BadId == 0

IsTable(tab) ==
  /\ tab = [id2Symbol |-> tab.id2Symbol, symbol2Id |-> tab.symbol2Id,
            idCounter |-> tab.idCounter]
  /\ tab.id2Symbol \in Seq(AnySymbol)
  /\ DOMAIN tab.symbol2Id \subseteq AnySymbol
  /\ tab.symbol2Id \in [DOMAIN tab.symbol2Id -> Nat]
  /\ tab.idCounter \in Nat

-----------------------------------------------------------------------------
(***************************************************************************)
(* Operators on one table.                                                 *)
(***************************************************************************)

Known(tab, s) == s \in DOMAIN tab.symbol2Id

\* Mutant of Add: adds a string that is there already.
AddAgain(tab, s) ==
  [id2Symbol |-> Append(tab.id2Symbol, s),
   symbol2Id |-> [t \in DOMAIN tab.symbol2Id \cup {s} |->
                    IF t = s THEN tab.idCounter ELSE tab.symbol2Id[t]],
   idCounter |-> tab.idCounter + 1]

\* add: an existing string keeps its id, a new one takes m_idCounter.
Add(tab, s) ==
  IF Known(tab, s) THEN tab
  ELSE [id2Symbol |-> Append(tab.id2Symbol, s),
        symbol2Id |-> [t \in DOMAIN tab.symbol2Id \cup {s} |->
                         IF t = s THEN tab.idCounter ELSE tab.symbol2Id[t]],
        idCounter |-> tab.idCounter + 1]

\* getId
IdOf(tab, s) == IF Known(tab, s) THEN tab.symbol2Id[s] ELSE BadId

\* getSymbol
SymbolOf(tab, id) ==
  IF id >= Len(tab.id2Symbol) THEN BadSymbol ELSE tab.id2Symbol[id + 1]

\* Mutant of NoSymbols: the counter starts one too low.
NoSymbolsCountedFromBelow ==
  [id2Symbol |-> <<>>, symbol2Id |-> <<>>, idCounter |-> 0 - 1]

\* The constructor, and Purge, which swaps both containers with empty ones and
\* resets the counter: an empty table in which the bad symbol is registered.
NoSymbols == [id2Symbol |-> <<>>, symbol2Id |-> <<>>, idCounter |-> 0]

\* Mutant of NewTable: the bad symbol is not registered.
NewTableWithoutBadSymbol == NoSymbols

NewTable == Add(NoSymbols, BadSymbol)

\* The UHDM-specific API: the empty string and the bad symbol share BadId.
IsNoSymbol(s) == s \in {EmptySymbol, BadSymbol}
Make(tab, s) == IF IsNoSymbol(s) THEN tab ELSE Add(tab, s)
MadeId(tab, s) == IF IsNoSymbol(s) THEN BadId ELSE IdOf(Add(tab, s), s)

\* Mutant of GetSymbol: the bad id is looked up like any other.
GetSymbolOfAnyId(tab, id) == SymbolOf(tab, id)

GetSymbol(tab, id) == IF id = BadId THEN EmptySymbol ELSE SymbolOf(tab, id)
GetId(tab, s) == IF IsNoSymbol(s) THEN BadId ELSE IdOf(tab, s)

-----------------------------------------------------------------------------
VARIABLES
  table,   \* table[f] is the state of factory f
  issued   \* history: issued[f] holds the <<id, string>> pairs f has handed
           \* to its clients since it was constructed or last purged

vars == <<table, issued>>

TypeOK ==
  /\ table = [f \in Factory |-> table[f]]
  /\ \A f \in Factory : IsTable(table[f])
  /\ issued \in [Factory -> SUBSET (Nat \X AnySymbol)]

Init ==
  /\ table = [f \in Factory |-> NewTable]
  /\ issued = [f \in Factory |-> {}]

HasRoom(f) == table[f].idCounter <= MaxId

Hand(f, id, s) == issued' = [issued EXCEPT ![f] = @ \cup {<<id, s>>}]

RegisterSymbol(f, s) ==
  /\ HasRoom(f)
  /\ table' = [table EXCEPT ![f] = Add(@, s)]
  /\ Hand(f, IdOf(Add(table[f], s), s), s)

MakeSymbol(f, s) ==
  /\ HasRoom(f)
  /\ table' = [table EXCEPT ![f] = Make(@, s)]
  /\ Hand(f, MadeId(table[f], s), IF IsNoSymbol(s) THEN BadSymbol ELSE s)

\* Mutant of CopyFrom: the client gets the id of the other table.
CopyFromKeepingId(f, g, id) ==
  /\ HasRoom(f)
  /\ id # BadId
  /\ table' = [table EXCEPT ![f] = Add(@, SymbolOf(table[g], id))]
  /\ Hand(f, id, SymbolOf(table[g], id))

\* copyFrom: the id is one that g handed out, possibly before g was purged;
\* an id g does not know resolves to the bad symbol there.
\* For BadId the code returns BadId and touches nothing.
CopyFrom(f, g, id) ==
  LET s == SymbolOf(table[g], id) IN
  /\ HasRoom(f)
  /\ id # BadId
  /\ table' = [table EXCEPT ![f] = Add(@, s)]
  /\ Hand(f, IdOf(Add(table[f], s), s), s)

Purge(f) ==
  /\ table' = [table EXCEPT ![f] = NewTable]
  /\ issued' = [issued EXCEPT ![f] = {}]

Next ==
  \E f \in Factory :
    \/ \E s \in AnySymbol : RegisterSymbol(f, s) \/ MakeSymbol(f, s)
    \/ \E g \in Factory, id \in 0 .. MaxId : CopyFrom(f, g, id)
    \/ Purge(f)

Spec == Init /\ [][Next]_vars

-----------------------------------------------------------------------------
(***************************************************************************)
(* Properties.                                                             *)
(***************************************************************************)

Ids(tab) == 0 .. Len(tab.id2Symbol) - 1

\* The two containers of a table stay inverse to each other: looking up the
\* text of an id and then the id of the text is the identity, whatever
\* sequence of add, Make, copyFrom and Purge led here.
MapsAreInverse ==
  \A f \in Factory :
    /\ \A id \in Ids(table[f]) : IdOf(table[f], SymbolOf(table[f], id)) = id
    /\ \A s \in DOMAIN table[f].symbol2Id :
         SymbolOf(table[f], IdOf(table[f], s)) = s

\* An id handed to a client keeps naming the string it was handed out for,
\* however the table grows afterwards, until the table is purged.
IssuedIdsResolve ==
  \A f \in Factory : \A p \in issued[f] :
    SymbolOf(table[f], p[1]) = p[2] /\ IdOf(table[f], p[2]) = p[1]

\* The id the UHDM API uses for "no string" is never given to a real one:
\* GetSymbol(Make(s)) returns s, and the empty string for the bad symbol.
MakeRoundTrip ==
  \A f \in Factory, s \in AnySymbol :
    GetSymbol(Make(table[f], s), MadeId(table[f], s)) =
      IF s = BadSymbol THEN EmptySymbol ELSE s

\* Ids are only ever appended: between two purges no string of a table moves.
\* A step that shortens the table is a purge and leaves the bad symbol alone.
AppendOnly ==
  [][\A f \in Factory :
       LET old == table[f].id2Symbol
           new == table[f].id2Symbol'
       IN  \/ /\ Len(old) <= Len(new)
              /\ \A i \in 1 .. Len(old) : new[i] = old[i]
           \/ new = <<BadSymbol>> /\ issued[f]' = {}]_vars
=============================================================================
