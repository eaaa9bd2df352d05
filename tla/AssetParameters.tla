--------------------------- MODULE AssetParameters ---------------------------
(* The storage keys the uploads of one game are given, the kind of each, and   *)
(* the kinds a card shows one image of (all but screenshots).                 *)
EXTENDS Integers, FiniteSets

CONSTANTS Keys, KindOf, Unique, MaxRows

AssetAssumption ==
    /\ IsFiniteSet(Keys)
    /\ Unique \subseteq {KindOf[k] : k \in Keys}
    /\ MaxRows \in Nat

ASSUME AssetAssumption
=============================================================================
