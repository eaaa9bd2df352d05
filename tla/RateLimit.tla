------------------------------ MODULE RateLimit ------------------------------
(***************************************************************************)
(* One counter of the limits per user or e-mail: INCR, then EXPIRE for the   *)
(* request that created the key or found it without a TTL.  The commands     *)
(* are apart, so the key may expire, or the process die, between any two.    *)
(* The chat, the community and the auth modules each have a copy.            *)
(***************************************************************************)
EXTENDS Integers

CONSTANTS Requests, MaxCount

VARIABLES
    count,      \* value of the key, 0 when there is none
    armed,      \* the key has a TTL
    req,        \* requests in flight
    orphaned    \* history: a request died before its EXPIRE, and no INCR came since

vars == <<count, armed, req, orphaned>>

TypeOK ==
    /\ count \in 0..MaxCount
    /\ armed \in BOOLEAN
    /\ count = 0 => ~armed
    /\ req \in [Requests -> {"idle", "ttl", "expire", "decide"}]
    /\ orphaned \in BOOLEAN

Init ==
    /\ count = 0
    /\ armed = FALSE
    /\ req = [r \in Requests |-> "idle"]
    /\ orphaned = FALSE

At(r, step) == req' = [req EXCEPT ![r] = step]

(* A count of MaxCount stands for that many or more.                          *)
Incr(r) ==
    /\ req[r] = "idle"
    /\ count' = IF count < MaxCount THEN count + 1 ELSE count
    /\ At(r, IF count' = 1 THEN "expire" ELSE "ttl")
    /\ orphaned' = FALSE
    /\ UNCHANGED armed

NeverRearms == FALSE            \* mutant: EXPIRE only when the count is 1

(* TTL is -1 for a key without one, -2 when there is no key.                   *)
HasNoTtl == count > 0 /\ ~armed

ReadTtl(r) ==
    /\ req[r] = "ttl"
    /\ At(r, IF HasNoTtl THEN "expire" ELSE "decide")
    /\ UNCHANGED <<count, armed, orphaned>>

Expire(r) ==
    /\ req[r] = "expire"
    /\ armed' = (count > 0)
    /\ At(r, "decide")
    /\ UNCHANGED <<count, orphaned>>

(* The request goes on, or is answered 429 if it has seen more than the limit: *)
(* either way the key is left alone.                                         *)
Decide(r) ==
    /\ req[r] = "decide"
    /\ At(r, "idle")
    /\ UNCHANGED <<count, armed, orphaned>>

WindowEnds ==
    /\ armed
    /\ count' = 0
    /\ armed' = FALSE
    /\ UNCHANGED <<req, orphaned>>

(* A Redis command that rejects, or the death of the process.                  *)
Dies(r) ==
    /\ req[r] \in {"ttl", "expire"}
    /\ At(r, "idle")
    /\ orphaned' = TRUE
    /\ UNCHANGED <<count, armed>>

Next ==
    \/ \E r \in Requests : Incr(r) \/ ReadTtl(r) \/ Expire(r) \/ Decide(r) \/ Dies(r)
    \/ WindowEnds

Spec == Init /\ [][Next]_vars

-----------------------------------------------------------------------------
(* Properties.                                                               *)

(* No one is locked out for ever: a counter without a TTL is about to be given *)
(* one, or was left by a request that died and will be by the next request.  *)
LimitRunsOut ==
    count > 0 /\ ~armed => orphaned \/ \E r \in Requests : req[r] \in {"ttl", "expire"}
=============================================================================
