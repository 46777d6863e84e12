------------------------------ MODULE MCCrudApi ------------------------------
(***************************************************************************)
(* Instances of CrudApi for TLC: the symmetry of the runs that check       *)
(* safety alone.                                                           *)
(***************************************************************************)
EXTENDS CrudApiRefinement, TLC

(* Workers and bodies are interchangeable: nothing compares or chooses them. *)
Symmetry == Permutations(Workers) \cup Permutations(Bodies)
==============================================================================
