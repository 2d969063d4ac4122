---------------------------- MODULE MCEncPackage ----------------------------
(* Small instances of one ENC package. *)
EXTENDS EncPackage, TLC

\* Delivery identifiers are only compared with one another.
DeliverySymmetry == Permutations(Deliveries)
=============================================================================
