--------------------------- MODULE MCUhdmListener ---------------------------
(***************************************************************************)
(* Model checking of UhdmListener over every graph of a few objects, every *)
(* set of designs among them, and every order of the references.           *)
(***************************************************************************)
EXTENDS UhdmListener
=============================================================================
