--------------------------- MODULE MCIntfArbiter ----------------------------
(* An instance of IntfArbiter for TLC.                                     *)
EXTENDS IntfArbiter, TLC

CONSTANTS i1, i2

(* Layers, protocols and failures treat the interfaces alike.              *)
Symmetry == Permutations(Interface)

(* The lists as DESIGN_intfd_arbiter.md wants to extend them: two layers,  *)
(* the first with two protocols.                                           *)
ExtendedLayers == << <<0, 2>>, <<1>> >>
=============================================================================
