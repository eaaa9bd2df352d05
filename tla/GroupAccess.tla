------------------------------ MODULE GroupAccess ------------------------------
(***************************************************************************)
(* Groups of members and the permissions of one game (modules/access).  The *)
(* members of a group and the entries of a game are lists of rows replaced  *)
(* as a whole, by a DELETE and an INSERT in one transaction under READ       *)
(* COMMITTED.  A DELETE sees the rows committed before it began and waits    *)
(* for those another transaction is deleting; an INSERT waits for a subject  *)
(* another one has deleted or inserted.  Only an update that renames the     *)
(* group, and its removal, lock the group's row first.                       *)
(* Names, permissions and who is eligible only decide what is refused.       *)
(***************************************************************************)
EXTENDS Integers, FiniteSets

CONSTANTS Requests, Groups, Users

Lists == Groups \cup {"game"}
Subjects(l) == IF l = "game" THEN Groups \cup Users ELSE Users

VARIABLES
    group,    \* state of each group
    rows,     \* the subjects of each list, of org_group_members or game_access
    req,      \* requests in flight
    asked,    \* history: what the last replacement of a list asked for, or the
              \* last ones together when they overlapped
    clean     \* history: lists whose last replacement overlapped with no other

vars == <<group, rows, req, asked, clean>>

Idle == [kind |-> "none"]
Requested ==
    [kind : {"access", "members", "remove"}, list : Lists, new : SUBSET (Groups \cup Users),
     named : BOOLEAN, alone : BOOLEAN, seen : SUBSET (Groups \cup Users),
     step : {"check", "locked", "deleting", "deleted", "inserted"}]

TypeOK ==
    /\ group \in [Groups -> {"new", "alive", "removed"}]
    /\ rows \in [Lists -> SUBSET (Groups \cup Users)]
    /\ \A l \in Lists : rows[l] \subseteq Subjects(l)
    /\ req \in [Requests -> Requested \cup {Idle}]
    /\ asked \in [Lists -> SUBSET (Groups \cup Users)]
    /\ clean \in SUBSET Lists

Init ==
    /\ group = [g \in Groups |-> "new"]
    /\ rows = [l \in Lists |-> {}]
    /\ req = [r \in Requests |-> Idle]
    /\ asked = [l \in Lists |-> {}]
    /\ clean = Lists

FindGroupsByIds(ids) == {g \in ids \cap Groups : group[g] = "alive"}

-----------------------------------------------------------------------------
(* Who does what to whose list.  A removal deletes the group's entry of the    *)
(* game and asks for nothing.                                                *)
Target(q) == IF q.kind = "remove" THEN "game" ELSE q.list
Writing(r) == req[r] # Idle /\ req[r].step \in {"deleting", "deleted", "inserted"}
Replaces(r, l) == Writing(r) /\ req[r].kind # "remove" /\ req[r].list = l
Others(r) == {q \in Requests \ {r} : Writing(q) /\ Target(req[q]) = Target(req[r])}

Deleted(q)  == IF req[q].step = "deleting" THEN {} ELSE req[q].seen
Inserted(q) == IF req[q].step = "inserted" THEN req[q].new ELSE {}

Begin(r, kind, l, new, named) ==
    req' = [req EXCEPT ![r] = [kind |-> kind, list |-> l, new |-> new, named |-> named,
                               alone |-> TRUE, seen |-> {}, step |-> "check"]]
At(r, step) == req' = [req EXCEPT ![r].step = step]

-----------------------------------------------------------------------------
(* createGroup: the group and its members in one transaction.                *)
CreateGroup(g, new) ==
    /\ group[g] = "new"
    /\ group' = [group EXCEPT ![g] = "alive"]
    /\ rows' = [rows EXCEPT ![g] = new]
    /\ asked' = [asked EXCEPT ![g] = new]
    /\ UNCHANGED <<req, clean>>

(* setGameAccess: every group in the list exists as the request looks.        *)
SetGameAccess(r, new) ==
    /\ req[r] = Idle
    /\ FindGroupsByIds(new) = new \cap Groups
    /\ Begin(r, "access", "game", new, FALSE)
    /\ UNCHANGED <<group, rows, asked, clean>>

UpdateGroup(r, g, new, named) ==
    /\ req[r] = Idle
    /\ g \in FindGroupsByIds({g})
    /\ Begin(r, "members", g, new, named)
    /\ UNCHANGED <<group, rows, asked, clean>>

RemoveGroup(r, g) ==
    /\ req[r] = Idle
    /\ g \in FindGroupsByIds({g})
    /\ Begin(r, "remove", g, {}, TRUE)
    /\ UNCHANGED <<group, rows, asked, clean>>

NobodyHolds(q, g) == FALSE    \* mutant: the name is written after the members
HoldsGroup(q, g) ==
    /\ req[q] # Idle /\ req[q].list = g
    /\ req[q].named /\ req[q].step # "check"

(* The UPDATE of the group's row waits for who else updates it and looks again *)
(* at deleted_at; without a name it is a SELECT, which does neither.          *)
LocksGroup(r) ==
    /\ req[r] # Idle
    /\ req[r].step = "check"
    /\ req[r].kind # "access"
    /\ req[r].named => \A q \in Requests : ~HoldsGroup(q, req[r].list)
    /\ IF group[req[r].list] = "alive" THEN At(r, "locked") ELSE req' = [req EXCEPT ![r] = Idle]
    /\ UNCHANGED <<group, rows, asked, clean>>

SeesAsked(q) == rows[Target(q)] \cap q.new    \* mutant: an upsert, that deletes what it replaces
Sees(q) == IF q.kind = "remove" THEN rows["game"] \cap {q.list} ELSE rows[q.list]

DeleteStarts(r) ==
    /\ req[r] # Idle
    /\ req[r].step = IF req[r].kind = "access" THEN "check" ELSE "locked"
    /\ LET rivals == IF req[r].kind = "remove" THEN {}
                     ELSE {q \in Requests \ {r} : Replaces(q, req[r].list)} IN
       req' = [q \in Requests |->
                 IF q = r THEN [req[r] EXCEPT !.seen = Sees(req[r]), !.step = "deleting",
                                              !.alone = (rivals = {})]
                 ELSE IF q \in rivals THEN [req[q] EXCEPT !.alone = FALSE] ELSE req[q]]
    /\ UNCHANGED <<group, rows, asked, clean>>

DeleteEnds(r) ==
    /\ req[r] # Idle
    /\ req[r].step = "deleting"
    /\ \A q \in Others(r) : Deleted(q) \cap req[r].seen = {}
    /\ At(r, "deleted")
    /\ UNCHANGED <<group, rows, asked, clean>>

(* Each subject is once in a list: what is there and was not deleted stops the *)
(* INSERT, and the request fails (RolledBack).                               *)
Insert(r) ==
    /\ req[r] # Idle
    /\ req[r].step = "deleted"
    /\ \A q \in Others(r) : (Deleted(q) \cup Inserted(q)) \cap req[r].new = {}
    /\ req[r].new \cap rows[Target(req[r])] \subseteq req[r].seen
    /\ At(r, "inserted")
    /\ UNCHANGED <<group, rows, asked, clean>>

(* A row that is deleted and inserted again is another row: whoever saw the     *)
(* old one finds it gone.                                                    *)
Commit(r) ==
    LET q == req[r]
        l == Target(q) IN
    /\ q # Idle
    /\ q.step = "inserted"
    /\ rows' = [rows EXCEPT ![l] = (@ \ q.seen) \cup q.new]
    /\ req' = [p \in Requests |->
                 IF p = r THEN Idle
                 ELSE IF p \in Others(r) THEN [req[p] EXCEPT !.seen = @ \ q.seen] ELSE req[p]]
    /\ IF q.kind = "remove"
       THEN group' = [group EXCEPT ![q.list] = "removed"] /\ UNCHANGED <<asked, clean>>
       ELSE /\ asked' = [asked EXCEPT ![l] = IF q.alone THEN q.new ELSE @ \cup q.new]
            /\ clean' = IF q.alone THEN clean \cup {l} ELSE clean \ {l}
            /\ UNCHANGED group

(* A subject inserted by another request meanwhile, a deadlock, or the end of  *)
(* the process: the transaction leaves nothing.                              *)
RolledBack(r) ==
    /\ req[r] # Idle
    /\ req' = [req EXCEPT ![r] = Idle]
    /\ UNCHANGED <<group, rows, asked, clean>>

Next ==
    \/ \E g \in Groups, new \in SUBSET Users : CreateGroup(g, new)
    \/ \E r \in Requests :
        \/ \E new \in SUBSET Subjects("game") : SetGameAccess(r, new)
        \/ \E g \in Groups, new \in SUBSET Users, named \in BOOLEAN : UpdateGroup(r, g, new, named)
        \/ \E g \in Groups : RemoveGroup(r, g)
        \/ LocksGroup(r) \/ DeleteStarts(r) \/ DeleteEnds(r) \/ Insert(r) \/ Commit(r)
        \/ RolledBack(r)

Spec == Init /\ [][Next]_vars

-----------------------------------------------------------------------------
(* What the studio is shown: the entries of groups removed meanwhile, for which *)
(* a late replacement left rows, are passed over.                            *)
ToList(entries) == (entries \cap Users) \cup FindGroupsByIds(entries)
Shown(l, entries) == IF l = "game" THEN ToList(entries) ELSE entries

(* A list reads as the last request that replaced it asked, unless another one *)
(* was replacing it too, and then it holds nobody none of them asked for.     *)
(* Updates of a group that rename it take turns, so they do not overlap.      *)
AccessIsOneList ==
    /\ \A l \in Lists :
          /\ Shown(l, rows[l]) \subseteq Shown(l, asked[l])
          /\ l \in clean => Shown(l, rows[l]) = Shown(l, asked[l])
    /\ \A r, q \in Requests :
          (\E g \in Groups : Replaces(r, g) /\ Replaces(q, g)) /\ req[r].named /\ req[q].named => r = q
=============================================================================
