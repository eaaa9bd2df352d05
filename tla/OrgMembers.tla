------------------------------ MODULE OrgMembers ------------------------------
(***************************************************************************)
(* The memberships of one organisation under concurrent role changes,      *)
(* status changes and removals.  Each of them is a transaction that locks   *)
(* the active owners with SELECT ... FOR UPDATE, counts them, reads the     *)
(* target without a lock and writes it by id.  Under READ COMMITTED the     *)
(* FOR UPDATE statement takes the rows of its own snapshot one by one,      *)
(* waits for the holder of each, and counts a row only if it is still an    *)
(* active owner by then; the row stays locked either way.  A write and the  *)
(* commit that publishes it are one step.                                   *)
(***************************************************************************)
EXTENDS Integers, OrgParameters

CONSTANT Requests

VARIABLES
    role,      \* memberships.role_id; admin, studio and player act alike here
    status,    \* memberships.status, "none" before the INSERT
    deleted,   \* members whose row has deleted_at
    req        \* transactions in flight

vars == <<role, status, deleted, req>>

Roles == {"owner", "admin"}
Ops   == [kind : {"role"}, to : Roles]
         \cup [kind : {"status"}, to : {"active", "disabled"}]
         \cup {[kind |-> "remove", to |-> "disabled"]}
Idle  == [at |-> "idle", held |-> {}]

RequestState ==
    {Idle}
    \cup [at : {"lock"}, who : Members, op : Ops, left : SUBSET Members,
          held : SUBSET Members, owners : SUBSET Members]
    \cup [at : {"write"}, who : Members, op : Ops,
          held : SUBSET Members, owners : SUBSET Members]

TypeOK ==
    /\ role \in [Members -> Roles]
    /\ status \in [Members -> {"none", "invited", "active", "disabled"}]
    /\ deleted \in SUBSET Members
    /\ req \in [Requests -> RequestState]

ActiveOwner(m) == role[m] = "owner" /\ status[m] = "active" /\ m \notin deleted
Listed(m)      == status[m] # "none" /\ m \notin deleted
HeldByOther(r, m) == \E q \in Requests \ {r} : m \in req[q].held

Init ==
    /\ role = [m \in Members |-> IF m = Founder THEN "owner" ELSE "admin"]
    /\ status = [m \in Members |-> IF m = Founder THEN "active" ELSE "none"]
    /\ deleted = {}
    /\ req = [r \in Requests |-> Idle]

-----------------------------------------------------------------------------
(* createInvitedMember: the unique index on (organisation, user) keeps a      *)
(* second row out, even of someone who was removed.                          *)
Invite(m, as) ==
    /\ status[m] = "none"
    /\ role' = [role EXCEPT ![m] = as]
    /\ status' = [status EXCEPT ![m] = "invited"]
    /\ UNCHANGED <<deleted, req>>

(* applyPasswordReset of the auth module: whoever sets a password accepts     *)
(* every invitation still pending, with no lock on the owners.               *)
AcceptInvite(m) ==
    /\ status[m] = "invited"
    /\ m \notin deleted
    /\ \A r \in Requests : m \notin req[r].held
    /\ status' = [status EXCEPT ![m] = "active"]
    /\ UNCHANGED <<role, deleted, req>>

-----------------------------------------------------------------------------
(* lockActiveOwners: the snapshot, then one row at a time.                   *)
Begin(r, m, op) ==
    /\ req[r] = Idle
    /\ req' = [req EXCEPT ![r] =
                  [at |-> "lock", who |-> m, op |-> op, held |-> {}, owners |-> {},
                   left |-> {o \in Members : ActiveOwner(o)}]]
    /\ UNCHANGED <<role, status, deleted>>

NoForUpdate(r, m) == {}    \* mutant: the SELECT takes no lock

Locked(r, m) == req[r].held \cup {m}

LockOwner(r, m) ==
    /\ req[r].at = "lock"
    /\ m \in req[r].left
    /\ ~HeldByOther(r, m)
    /\ req' = [req EXCEPT ![r].left = @ \ {m},
                          ![r].held = Locked(r, m),
                          ![r].owners = IF ActiveOwner(m) THEN @ \cup {m} ELSE @]
    /\ UNCHANGED <<role, status, deleted>>

TakesAway(op) ==
    /\ op.kind = "role" => op.to # "owner"
    /\ op.kind = "status" => op.to # "active"

LosesAnActiveOwner(op, m) == ActiveOwner(m) /\ TakesAway(op)

IsLast(owners) == Cardinality(owners) <= 1

(* findMembershipForUpdate, which locks nothing, and the checks: a 404, 409   *)
(* or PendingInviteError rolls the transaction back.                         *)
Decide(r) ==
    /\ req[r].at = "lock"
    /\ req[r].left = {}
    /\ LET m == req[r].who IN
       IF /\ Listed(m)
          /\ ~(req[r].op.kind = "status" /\ status[m] = "invited")
          /\ ~(LosesAnActiveOwner(req[r].op, m) /\ IsLast(req[r].owners))
       THEN req' = [req EXCEPT ![r] = [at |-> "write", who |-> m, op |-> req[r].op,
                                       held |-> req[r].held, owners |-> req[r].owners]]
       ELSE req' = [req EXCEPT ![r] = Idle]
    /\ UNCHANGED <<role, status, deleted>>

(* UPDATE ... WHERE id: waits for the row, then writes whatever it holds now. *)
Write(r) ==
    /\ req[r].at = "write"
    /\ LET m == req[r].who
           op == req[r].op
       IN /\ ~HeldByOther(r, m)
          /\ role' = IF op.kind = "role" THEN [role EXCEPT ![m] = op.to] ELSE role
          /\ status' = IF op.kind = "role" THEN status ELSE [status EXCEPT ![m] = op.to]
          /\ deleted' = IF op.kind = "remove" THEN deleted \cup {m} ELSE deleted
    /\ req' = [req EXCEPT ![r] = Idle]

(* An exception, the death of the API process, or a deadlock that Postgres    *)
(* breaks: the transaction rolls back and its locks are gone.                *)
RolledBack(r) ==
    /\ req[r] # Idle
    /\ req' = [req EXCEPT ![r] = Idle]
    /\ UNCHANGED <<role, status, deleted>>

Next ==
    \/ \E m \in Members, as \in Roles : Invite(m, as)
    \/ \E m \in Members : AcceptInvite(m)
    \/ \E r \in Requests, m \in Members, op \in Ops : Begin(r, m, op)
    \/ \E r \in Requests, m \in Members : LockOwner(r, m)
    \/ \E r \in Requests : Decide(r) \/ Write(r) \/ RolledBack(r)

Spec == Init /\ [][Next]_vars

-----------------------------------------------------------------------------
(* Properties.                                                               *)

HasActiveOwner == \E m \in Members : ActiveOwner(m)

(* The owners a transaction counted are active owners until it ends: nobody   *)
(* else demotes, disables or removes one of them while the count is in use.  *)
CountIsCurrent ==
    \A r \in Requests : req[r] # Idle => \A m \in req[r].owners : ActiveOwner(m)

(* Two concurrent demotions, disablings or removals do not leave the          *)
(* organisation without an active owner: only a transaction that found every  *)
(* owner of its snapshot gone, so that it holds no owner, can do so.          *)
OwnerSurvivesCount ==
    [][HasActiveOwner /\ ~HasActiveOwner' =>
          \E r \in Requests : req[r].at = "write" /\ req[r].owners = {} /\ req'[r] = Idle]_vars

(* What makes both hold: a counted owner is locked, a lock has one holder,    *)
(* and a transaction that counted anyone spares one of those it counted.     *)
OwnersAreHeld ==
    /\ \A q, r \in Requests : q # r => req[q].held \cap req[r].held = {}
    /\ \A r \in Requests : req[r] # Idle => req[r].owners \subseteq req[r].held
    /\ \A r \in Requests :
          req[r].at = "write" /\ req[r].owners # {} /\ TakesAway(req[r].op) =>
              \E m \in req[r].owners : m # req[r].who
=============================================================================
