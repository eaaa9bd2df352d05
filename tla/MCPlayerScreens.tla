--------------------------- MODULE MCPlayerScreens ---------------------------
(* Small instances of SessionLifecycle with the screens that show its rows.   *)
EXTENDS MCSessionLifecycle, PlayerScreens

MCPartId == [p \in MCParts |-> p[3]]
=============================================================================
