------------------------------ MODULE MCComet --------------------------------
(* Comet on small instances: the symmetries the configurations use. *)
EXTENDS Comet, TLC

(* Tokens are only compared with each other; nothing names a slot, a       *)
(* driver, a ride or a rider, except that None, the constants OnDuty and   *)
(* KnownRiders and the split into Handlers and Workers must be kept.       *)
TokenSymmetry == Permutations(Tokens)
SlotSymmetry == TokenSymmetry \cup Permutations(Handlers)
FullSymmetry == SlotSymmetry \cup Permutations(Drivers)
==============================================================================
