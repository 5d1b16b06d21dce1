--------------------------------- MODULE Null ---------------------------------
(* The value that stands for NULL and for Rust's None in the parts.         *)
EXTENDS Naturals

CONSTANT None

ASSUME NullAssumption == None \notin Nat
=============================================================================
