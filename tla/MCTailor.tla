---------------------------- MODULE MCTailor ----------------------------
(* Tailor over the executables of module Executables. *)
EXTENDS Tailor, Executables
=============================================================================
