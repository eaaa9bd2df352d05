--------------------------- MODULE MCTestPublishing ---------------------------
(* Small instances of TestPublishing.  MCRoles: one request does whatever the *)
(* studio can ask; the other only races it with what decides the test, the   *)
(* publish, a status change or the removal of the build.  MCFewContents: only *)
(* a test that needs a build, and whose audience can be reached, has one.     *)
EXTENDS TestPublishing

CONSTANT MCRacer

MCRoles ==
    req'[MCRacer].at = "locked" => req'[MCRacer].op.kind \in {"publish", "status", "delete"}

MCFewContents == \A b \in Builds : build'[b] # "absent" => needsBuild' /\ reach' # "zero"
=============================================================================
