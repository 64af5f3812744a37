-------------------------- MODULE MCSymbolFactory --------------------------
(***************************************************************************)
(* Model checking of SymbolFactory: two tables, four strings of which one *)
(* is the empty one.  Every order in which four strings can be added to   *)
(* two tables, with copies between them and purges, is explored.           *)
(***************************************************************************)
EXTENDS SymbolFactory, TLC

Symmetry == Permutations(Factory) \cup Permutations(Symbol \ {EmptySymbol})
=============================================================================
