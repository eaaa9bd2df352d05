---------------------------- MODULE RequestRaces -----------------------------
(* The rows and counters that requests race for: an account's credentials, a   *)
(* channel of the chat and a rate limit.  Credentials, Chat and RateLimit side  *)
(* by side; they share no state.                                             *)
EXTENDS Credentials, ChatParameters

CONSTANTS Handlers, MaxCount

ASSUME MaxCountAssumption == MaxCount \in Nat \ {0}

VARIABLES message, channel, gone, sockets, room, shows, handler, mixed
C == INSTANCE Chat WITH Requests <- Handlers, status <- message, req <- handler
chatVars == <<message, channel, gone, sockets, room, shows, handler, mixed>>

VARIABLES count, armed, limited, orphaned
L == INSTANCE RateLimit WITH Requests <- Handlers, req <- limited
limitVars == <<count, armed, limited, orphaned>>

RoomAgrees     == C!RoomAgrees
PresenceAgrees == C!PresenceAgrees
LimitRunsOut   == L!LimitRunsOut
=============================================================================
