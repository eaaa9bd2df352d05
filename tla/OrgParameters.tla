--------------------------- MODULE OrgParameters ----------------------------
(* The parameters of OrgMembers, apart from it so that a module which puts it   *)
(* beside other components can share and check them.                         *)
EXTENDS FiniteSets

CONSTANTS Members,
          Founder     \* whom the studio's signup made the owner

ASSUME MembersAssumption == IsFiniteSet(Members) /\ Founder \in Members
=============================================================================
