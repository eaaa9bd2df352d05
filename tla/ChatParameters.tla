--------------------------- MODULE ChatParameters ---------------------------
(* The sockets that may be open and the user of each, and what a client that   *)
(* has yet to be told something shows of it.                                  *)
CONSTANTS Clients, SocketUser, Messages, Unknown

ASSUME ChatAssumption ==
    /\ DOMAIN SocketUser = Clients
    /\ Messages \cap {"channel", "presence", Unknown} = {}
    /\ Unknown \notin {"none", "visible", "hidden", "removed", "open", "archived"}
=============================================================================
