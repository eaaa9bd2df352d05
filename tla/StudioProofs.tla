--------------------------- MODULE StudioProofs ---------------------------
(* Proofs about what the requests of a studio change and its players see.      *)
(*   OrgMembers, for any number of members and requests: the types, that what a*)
(* transaction counted stays so while it is in use, and that only a transaction*)
(* that counted no owner can remove the last one (CountInv).                   *)
(*   GroupAccess, for any groups, members, games and requests: what a replaced *)
(* list reads as (AccessInv).                                                  *)
(*   PlayerFeed, for any games and lengths of a page: a scroll stands at a place*)
(* of its snapshot and has shown what lies before (FeedInv).                   *)
EXTENDS Studio, GameAssetsProofs, FiniteSetTheorems, SequenceTheorems, TLAPS

(* The inductive invariant. *)
CountInv == O!TypeOK /\ O!OwnersAreHeld /\ O!CountIsCurrent

(* Two owners counted are two members. *)
LEMMA NotLast ==
    ASSUME NEW owners \in SUBSET Members, NEW m \in owners, ~O!IsLast(owners)
    PROVE  \E o \in owners : o # m
<1> SUFFICES ASSUME \A o \in owners : o = m PROVE FALSE
  OBVIOUS
<1>1. owners = {m}
  OBVIOUS
<1>2. Cardinality(owners) = 1
  BY <1>1, FS_Singleton
<1>3. O!Cardinality(owners) = Cardinality(owners)
  BY DEF O!Cardinality, Cardinality
<1> QED
  BY <1>2, <1>3 DEF O!IsLast

(* It holds when the studio has signed up. *)
LEMMA CountInit == O!Init => CountInv
<1> SUFFICES ASSUME O!Init PROVE CountInv
  OBVIOUS
<1> USE MembersAssumption DEF O!Init, O!Idle
<1>1. O!TypeOK
  BY DEF O!TypeOK, O!RequestState, O!Roles
<1>2. O!OwnersAreHeld /\ O!CountIsCurrent
  BY DEF O!OwnersAreHeld, O!CountIsCurrent
<1> QED
  BY <1>1, <1>2 DEF CountInv

(* Every step keeps the types. *)
LEMMA MemberTypes == O!TypeOK /\ [O!Next]_(O!vars) => O!TypeOK'
<1> SUFFICES ASSUME O!TypeOK, [O!Next]_(O!vars) PROVE O!TypeOK'
  OBVIOUS
<1> USE DEF O!TypeOK
<1>1. ASSUME NEW m \in Members, NEW as \in O!Roles, O!Invite(m, as) PROVE O!TypeOK'
  BY <1>1 DEF O!Invite
<1>2. ASSUME NEW m \in Members, O!AcceptInvite(m) PROVE O!TypeOK'
  BY <1>2 DEF O!AcceptInvite
<1>3. ASSUME NEW r \in Requests, NEW m \in Members, NEW op \in O!Ops, O!Begin(r, m, op)
      PROVE  O!TypeOK'
  BY <1>3 DEF O!Begin, O!RequestState
<1>4. ASSUME NEW r \in Requests, NEW m \in Members, O!LockOwner(r, m) PROVE O!TypeOK'
  <2> DEFINE q == tx[r]
             Locking == [at : {"lock"}, who : Members, op : O!Ops, left : SUBSET Members,
                         held : SUBSET Members, owners : SUBSET Members]
  <2>1. q \in Locking
    BY <1>4 DEF O!LockOwner, O!RequestState, O!Idle
  <2> DEFINE new == IF O!ActiveOwner(m) THEN q.owners \cup {m} ELSE q.owners
  <2>2. /\ new \in SUBSET Members
        /\ tx'[r] = [at |-> "lock", who |-> q.who, op |-> q.op, left |-> q.left \ {m},
                      held |-> q.held \cup {m}, owners |-> new]
    BY <1>4, <2>1 DEF O!LockOwner, O!Locked
  <2>3. tx'[r] \in Locking
    BY <2>1, <2>2
  <2>4. tx' \in [Requests -> O!RequestState]
    BY <1>4, <2>3 DEF O!LockOwner, O!RequestState
  <2> QED
    BY <1>4, <2>4 DEF O!LockOwner
<1>5. ASSUME NEW r \in Requests, O!Decide(r) PROVE O!TypeOK'
  BY <1>5 DEF O!Decide, O!RequestState, O!Idle
<1>6. ASSUME NEW r \in Requests, O!Write(r) PROVE O!TypeOK'
  BY <1>6 DEF O!Write, O!RequestState, O!Idle, O!Ops, O!Roles
<1>7. ASSUME NEW r \in Requests, O!RolledBack(r) PROVE O!TypeOK'
  BY <1>7 DEF O!RolledBack, O!RequestState
<1>8. CASE UNCHANGED O!vars
  BY <1>8 DEF O!vars
<1> QED
  BY <1>1, <1>2, <1>3, <1>4, <1>5, <1>6, <1>7, <1>8 DEF O!Next

(* A lock keeps its single holder, and a transaction spares an owner. *)
LEMMA HeldStep == CountInv /\ [O!Next]_(O!vars) => O!OwnersAreHeld'
<1> SUFFICES ASSUME CountInv, [O!Next]_(O!vars) PROVE O!OwnersAreHeld'
  OBVIOUS
<1> USE DEF CountInv, O!OwnersAreHeld
<1>1. ASSUME NEW m \in Members, NEW as \in O!Roles, O!Invite(m, as) PROVE O!OwnersAreHeld'
  BY <1>1 DEF O!Invite
<1>2. ASSUME NEW m \in Members, O!AcceptInvite(m) PROVE O!OwnersAreHeld'
  BY <1>2 DEF O!AcceptInvite
<1>3. ASSUME NEW r \in Requests, NEW m \in Members, NEW op \in O!Ops, O!Begin(r, m, op)
      PROVE  O!OwnersAreHeld'
  BY <1>3 DEF O!Begin, O!TypeOK
<1>4. ASSUME NEW r \in Requests, NEW m \in Members, O!LockOwner(r, m) PROVE O!OwnersAreHeld'
  <2>1. /\ tx'[r].held = tx[r].held \cup {m}
        /\ tx'[r].owners \subseteq tx[r].owners \cup {m}
        /\ tx'[r].at = "lock"
        /\ \A s \in Requests \ {r} : tx'[s] = tx[s]
    BY <1>4 DEF O!LockOwner, O!Locked, O!TypeOK, O!RequestState, O!Idle
  <2>2. \A s \in Requests \ {r} : m \notin tx[s].held
    BY <1>4 DEF O!LockOwner, O!HeldByOther
  <2>3. tx[r] # O!Idle
    BY <1>4 DEF O!LockOwner, O!Idle
  <2> QED
    BY <2>1, <2>2, <2>3
<1>5. ASSUME NEW r \in Requests, O!Decide(r) PROVE O!OwnersAreHeld'
  <2> DEFINE who == tx[r].who  op == tx[r].op  owners == tx[r].owners
  <2>1. tx[r] # O!Idle /\ who \in Members /\ owners \in SUBSET Members
    BY <1>5 DEF O!Decide, O!TypeOK, O!RequestState, O!Idle
  <2>2. \A s \in Requests \ {r} : tx'[s] = tx[s]
    BY <1>5 DEF O!Decide, O!TypeOK
  <2>3. CASE tx'[r] = O!Idle
    BY <2>2, <2>3 DEF O!Idle
  <2>4. CASE tx'[r] # O!Idle
    <3>1. /\ tx'[r] = [at |-> "write", who |-> who, op |-> op, held |-> tx[r].held,
                        owners |-> owners]
          /\ ~(O!LosesAnActiveOwner(op, who) /\ O!IsLast(owners))
      BY <1>5, <2>4 DEF O!Decide, O!TypeOK
    <3>2. ASSUME owners # {}, O!TakesAway(op) PROVE \E m \in owners : m # who
      <4>1. CASE who \in owners
        <5>1. O!ActiveOwner(who)
          BY <4>1, <2>1 DEF O!CountIsCurrent
        <5>2. ~O!IsLast(owners)
          BY <3>1, <3>2, <5>1 DEF O!LosesAnActiveOwner
        <5> QED
          BY <4>1, <5>2, <2>1, NotLast
      <4>2. CASE who \notin owners
        BY <3>2, <4>2
      <4> QED
        BY <4>1, <4>2
    <3> QED
      BY <2>1, <2>2, <3>1, <3>2
  <2> QED
    BY <2>3, <2>4
<1>6. ASSUME NEW r \in Requests, O!Write(r) \/ O!RolledBack(r) PROVE O!OwnersAreHeld'
  <2>1. tx'[r] = O!Idle /\ \A s \in Requests \ {r} : tx'[s] = tx[s]
    BY <1>6 DEF O!Write, O!RolledBack, O!TypeOK
  <2> QED
    BY <2>1 DEF O!Idle
<1>7. CASE UNCHANGED O!vars
  BY <1>7 DEF O!vars
<1> QED
  BY <1>1, <1>2, <1>3, <1>4, <1>5, <1>6, <1>7 DEF O!Next

(* A write changes no owner that another transaction counted. *)
LEMMA WriteSparesCounted ==
    ASSUME CountInv, NEW r \in Requests, O!Write(r),
           NEW m \in Members, O!ActiveOwner(m), m # tx[r].who \/ ~O!TakesAway(tx[r].op)
    PROVE  O!ActiveOwner(m)'
<1>1. tx[r].who \in Members /\ tx[r].op \in O!Ops
  BY DEF O!Write, CountInv, O!TypeOK, O!RequestState, O!Idle
<1>2. CASE m # tx[r].who
  BY <1>1, <1>2 DEF O!Write, O!ActiveOwner, CountInv, O!TypeOK
<1>3. CASE ~O!TakesAway(tx[r].op)
  BY <1>1, <1>3 DEF O!Write, O!ActiveOwner, CountInv, O!TypeOK, O!TakesAway, O!Ops
<1> QED
  BY <1>2, <1>3

(* What was counted stays so. *)
LEMMA CurrentStep == CountInv /\ [O!Next]_(O!vars) => O!CountIsCurrent'
<1> SUFFICES ASSUME CountInv, [O!Next]_(O!vars) PROVE O!CountIsCurrent'
  OBVIOUS
<1> USE DEF O!CountIsCurrent
<1>t. O!TypeOK /\ \A r \in Requests : tx[r] \in O!RequestState
  BY DEF CountInv, O!TypeOK
<1>o. \A r \in Requests : tx[r] # O!Idle => tx[r].owners \subseteq Members
  BY <1>t DEF O!RequestState, O!Idle
<1>1. ASSUME NEW m \in Members, NEW as \in O!Roles, O!Invite(m, as) PROVE O!CountIsCurrent'
  <2>1. \A o \in Members : O!ActiveOwner(o) => O!ActiveOwner(o)'
    BY <1>1, <1>t DEF O!Invite, O!ActiveOwner, O!TypeOK
  <2> QED
    BY <1>1, <1>o, <2>1 DEF O!Invite, CountInv
<1>2. ASSUME NEW m \in Members, O!AcceptInvite(m) PROVE O!CountIsCurrent'
  <2>1. \A o \in Members : O!ActiveOwner(o) => O!ActiveOwner(o)'
    BY <1>2, <1>t DEF O!AcceptInvite, O!ActiveOwner, O!TypeOK
  <2> QED
    BY <1>2, <1>o, <2>1 DEF O!AcceptInvite, CountInv
<1>3. ASSUME NEW r \in Requests, NEW m \in Members, NEW op \in O!Ops, O!Begin(r, m, op)
      PROVE  O!CountIsCurrent'
  BY <1>3, <1>t DEF O!Begin, O!ActiveOwner, CountInv, O!TypeOK
<1>4. ASSUME NEW r \in Requests, NEW m \in Members, O!LockOwner(r, m) PROVE O!CountIsCurrent'
  <2>1. /\ tx'[r].owners \subseteq {o \in tx[r].owners \cup {m} :
                                        o = m => o \in tx[r].owners \/ O!ActiveOwner(o)}
        /\ \A s \in Requests \ {r} : tx'[s] = tx[s]
    BY <1>4, <1>t DEF O!LockOwner, O!TypeOK, O!RequestState, O!Idle
  <2>2. tx[r] # O!Idle
    BY <1>4 DEF O!LockOwner, O!Idle
  <2>3. \A o : O!ActiveOwner(o)' = O!ActiveOwner(o)
    BY <1>4 DEF O!LockOwner, O!ActiveOwner
  <2> QED
    BY <2>1, <2>2, <2>3 DEF CountInv
<1>5. ASSUME NEW r \in Requests, O!Decide(r) \/ O!RolledBack(r) PROVE O!CountIsCurrent'
  <2>1. \A o : O!ActiveOwner(o)' = O!ActiveOwner(o)
    BY <1>5 DEF O!Decide, O!RolledBack, O!ActiveOwner
  <2>2. /\ tx'[r] = O!Idle \/ (tx[r] # O!Idle /\ tx'[r].owners = tx[r].owners)
        /\ \A s \in Requests \ {r} : tx'[s] = tx[s]
    BY <1>5, <1>t DEF O!Decide, O!RolledBack, O!TypeOK, O!Idle
  <2> QED
    BY <2>1, <2>2 DEF CountInv
<1>6. ASSUME NEW r \in Requests, O!Write(r) PROVE O!CountIsCurrent'
  <2>1. tx'[r] = O!Idle /\ \A s \in Requests \ {r} : tx'[s] = tx[s]
    BY <1>6, <1>t DEF O!Write, O!TypeOK
  <2>2. SUFFICES ASSUME NEW s \in Requests \ {r}, tx[s] # O!Idle, NEW m \in tx[s].owners
                 PROVE  O!ActiveOwner(m)'
    BY <2>1
  <2>3. m \in Members /\ O!ActiveOwner(m) /\ m \in tx[s].held
    BY <2>2, <1>o DEF CountInv, O!OwnersAreHeld
  <2>4. m # tx[r].who
    BY <1>6, <2>3 DEF O!Write, O!HeldByOther
  <2> QED
    BY <1>6, <2>3, <2>4, WriteSparesCounted
<1>7. CASE UNCHANGED O!vars
  BY <1>7 DEF O!vars, CountInv, O!ActiveOwner
<1> QED
  BY <1>1, <1>2, <1>3, <1>4, <1>5, <1>6, <1>7 DEF O!Next

(* The inductive invariant holds, whatever the number of members and requests. *)
THEOREM CountAlwaysHolds == O!Spec => []CountInv
<1>1. CountInv /\ [O!Next]_(O!vars) => CountInv'
  BY MemberTypes, HeldStep, CurrentStep DEF CountInv
<1> QED
  BY CountInit, <1>1, PTL DEF O!Spec

(* The owners that changeMemberRole, changeMemberStatus and removeMember count *)
(* under FOR UPDATE are active owners until the transaction ends.            *)
THEOREM CountedOwnersStay == O!Spec => []O!CountIsCurrent
<1>1. CountInv => O!CountIsCurrent
  BY DEF CountInv
<1> QED
  BY <1>1, CountAlwaysHolds, PTL

(* Only a transaction that counted no owner at all can leave the organisation  *)
(* without one: whoever counted some leaves one of them.                     *)
THEOREM OwnersOutlastCounts == O!Spec => OwnerSurvivesCount
<1> DEFINE Survives ==
      O!HasActiveOwner /\ ~O!HasActiveOwner' =>
          \E r \in Requests : tx[r].at = "write" /\ tx[r].owners = {} /\ tx'[r] = O!Idle
<1>1. ASSUME CountInv, [O!Next]_(O!vars) PROVE Survives
  <2> SUFFICES ASSUME NEW o \in Members, O!ActiveOwner(o), ~O!HasActiveOwner'
               PROVE  \E r \in Requests :
                         tx[r].at = "write" /\ tx[r].owners = {} /\ tx'[r] = O!Idle
    BY DEF O!HasActiveOwner
  <2>t. O!TypeOK /\ ~O!ActiveOwner(o)'
    BY <1>1 DEF CountInv, O!HasActiveOwner
  <2>1. \E r \in Requests : O!Write(r)
    BY <1>1, <2>t DEF O!Next, O!vars, O!Invite, O!AcceptInvite, O!Begin, O!LockOwner, O!Decide, O!RolledBack,
                      O!ActiveOwner, O!TypeOK
  <2>2. PICK r \in Requests : O!Write(r)
    BY <2>1
  <2>3. tx[r].at = "write" /\ tx'[r] = O!Idle /\ tx[r] # O!Idle
    BY <2>2, <2>t DEF O!Write, O!TypeOK, O!Idle
  <2>4. ASSUME tx[r].owners # {} PROVE FALSE
    <3>1. CASE O!TakesAway(tx[r].op)
      <4>1. PICK m \in tx[r].owners : m # tx[r].who
        BY <1>1, <2>3, <2>4, <3>1 DEF CountInv, O!OwnersAreHeld
      <4>2. m \in Members /\ O!ActiveOwner(m)
        BY <1>1, <2>3, <2>t DEF CountInv, O!CountIsCurrent, O!TypeOK, O!RequestState, O!Idle
      <4> QED
        BY <1>1, <2>2, <4>1, <4>2, WriteSparesCounted DEF O!HasActiveOwner
    <3>2. CASE ~O!TakesAway(tx[r].op)
      BY <1>1, <2>2, <3>2, <2>t, WriteSparesCounted
    <3> QED
      BY <3>1, <3>2
  <2> QED
    BY <2>3, <2>4
<1>2. O!Spec => [][Survives]_(O!vars)
  BY <1>1, CountAlwaysHolds, PTL DEF O!Spec
<1> QED
  BY <1>2 DEF OwnerSurvivesCount, O!OwnerSurvivesCount

-----------------------------------------------------------------------------
(* GroupAccess, for any number of groups, members and requests.                *)

(* A group that a list or a request names has been created.                    *)
Known(S) == \A g \in S \cap Groups : group[g] # "new"

WellAsked(q) ==
    /\ q.kind = "access" => q.list = "game" /\ ~q.named /\ Known(q.new)
    /\ q.kind # "access" => q.list \in Groups /\ group[q.list] # "new"
    /\ q.kind = "remove" => q.new = {} /\ q.seen \subseteq {q.list}
    /\ q.new \subseteq G!Subjects(q.list)

AccessTypes ==
    /\ G!TypeOK
    /\ Known(lists["game"]) /\ Known(asked["game"])
    /\ \A r \in Requests : accessReq[r] # G!Idle => WellAsked(accessReq[r])

(* A group is held by one request, the replacements of a list that overlap know *)
(* of it, and one that overlaps with no other deletes all that is there.        *)
OneHolder ==
    \A r, q \in Requests, g \in Groups :
        G!HoldsGroup(r, g) /\ G!HoldsGroup(q, g) => r = q

Overlapping ==
    \A r, q \in Requests, l \in G!Lists :
        G!Replaces(r, l) /\ G!Replaces(q, l) /\ accessReq[r].alone => r = q

DeletesAll ==
    \A r \in Requests, l \in G!Lists :
        G!Replaces(r, l) /\ accessReq[r].alone => lists[l] \subseteq accessReq[r].seen

ReadsAsAsked ==
    \A l \in G!Lists :
        /\ G!Shown(l, lists[l]) \subseteq G!Shown(l, asked[l])
        /\ l \in clean => G!Shown(l, lists[l]) = G!Shown(l, asked[l])

(* The inductive invariant. *)
AccessInv == AccessTypes /\ OneHolder /\ Overlapping /\ DeletesAll /\ ReadsAsAsked

LEMMA AccessInit == G!Init => AccessInv
<1> SUFFICES ASSUME G!Init PROVE AccessInv
  OBVIOUS
<1> USE DEF G!Init
<1>1. \A r \in Requests : accessReq[r] = G!Idle
  OBVIOUS
<1>2. AccessTypes
  BY DEF AccessTypes, G!TypeOK, Known, G!Lists
<1>3. OneHolder /\ Overlapping /\ DeletesAll
  BY <1>1 DEF OneHolder, Overlapping, DeletesAll, G!HoldsGroup, G!Replaces, G!Writing
<1>4. ReadsAsAsked
  BY DEF ReadsAsAsked
<1> QED
  BY <1>2, <1>3, <1>4 DEF AccessInv

(* A request begins, goes a step on or ends, and changes no list; it does not    *)
(* start to hold its group or to delete.                                     *)
LEMMA RequestStep ==
    ASSUME AccessInv, NEW r \in Requests, UNCHANGED <<group, lists, asked, clean>>,
           accessReq' \in [Requests -> G!Requested \cup {G!Idle}],
           \A q \in Requests \ {r} : accessReq'[q] = accessReq[q],
           accessReq'[r] # G!Idle => WellAsked(accessReq'[r]),
           \A g \in Groups : G!HoldsGroup(r, g)' =>
               (\A q \in Requests \ {r} : ~G!HoldsGroup(q, g)),
           \A l \in G!Lists : G!Replaces(r, l)' =>
               G!Replaces(r, l) /\ accessReq'[r].alone = accessReq[r].alone
                                /\ accessReq'[r].seen = accessReq[r].seen
    PROVE  AccessInv'
<1>1. /\ \A q \in Requests \ {r}, g \in Groups : G!HoldsGroup(q, g)' <=> G!HoldsGroup(q, g)
      /\ \A q \in Requests \ {r}, l \in G!Lists : G!Replaces(q, l)' <=> G!Replaces(q, l)
  BY DEF G!HoldsGroup, G!Replaces, G!Writing
<1>2. \A S : Known(S)' <=> Known(S)
  BY DEF Known
<1>3. \A q \in Requests : WellAsked(accessReq'[q]) => WellAsked(accessReq[q])'
  BY DEF WellAsked, Known
<1>4. AccessTypes'
  <2>1. G!TypeOK'
    BY DEF AccessInv, AccessTypes, G!TypeOK
  <2>2. \A q \in Requests : accessReq'[q] # G!Idle => WellAsked(accessReq'[q])
    BY DEF AccessInv, AccessTypes
  <2> QED
    BY <1>3, <2>1, <2>2 DEF AccessInv, AccessTypes, Known
<1>5. OneHolder'
  BY <1>1 DEF AccessInv, OneHolder
<1>6. Overlapping'
  BY <1>1 DEF AccessInv, Overlapping
<1>7. DeletesAll'
  BY <1>1 DEF AccessInv, DeletesAll
<1>8. ReadsAsAsked'
  BY DEF AccessInv, ReadsAsAsked, G!Shown, G!ToList, G!FindGroupsByIds
<1> QED
  BY <1>4, <1>5, <1>6, <1>7, <1>8 DEF AccessInv

LEMMA InFlight ==
    ASSUME AccessInv, NEW r \in Requests, accessReq[r] # G!Idle
    PROVE  accessReq[r] \in G!Requested /\ WellAsked(accessReq[r])
BY DEF AccessInv, AccessTypes, G!TypeOK

LEMMA BeginStep ==
    ASSUME AccessInv, NEW r \in Requests, accessReq[r] = G!Idle,
           NEW kind \in {"access", "members", "remove"}, NEW l \in G!Lists,
           NEW new \in SUBSET G!Subjects(l), NEW named \in BOOLEAN,
           G!Begin(r, kind, l, new, named), UNCHANGED <<group, lists, asked, clean>>,
           kind = "access" => l = "game" /\ ~named /\ Known(new),
           kind # "access" => l \in Groups /\ group[l] # "new",
           kind = "remove" => new = {}
    PROVE  AccessInv'
<1>1. PICK q : q = [kind |-> kind, list |-> l, new |-> new, named |-> named,
                    alone |-> TRUE, seen |-> {}, step |-> "check"]
  OBVIOUS
<1>2. q \in G!Requested /\ q.step = "check" /\ WellAsked(q)
  BY <1>1 DEF G!Requested, G!Subjects, WellAsked
<1>3. /\ accessReq'[r] = q /\ \A p \in Requests \ {r} : accessReq'[p] = accessReq[p]
      /\ accessReq' \in [Requests -> G!Requested \cup {G!Idle}]
  BY <1>1, <1>2 DEF G!Begin, AccessInv, AccessTypes, G!TypeOK
<1>4. /\ \A g \in Groups : ~G!HoldsGroup(r, g)'
      /\ \A i \in G!Lists : ~G!Replaces(r, i)'
  BY <1>2, <1>3 DEF G!HoldsGroup, G!Replaces, G!Writing
<1> QED
  BY <1>2, <1>3, <1>4, RequestStep

(* Like the step after it, but for its name and what it holds.                 *)
LEMMA AtStep ==
    ASSUME AccessInv, NEW r \in Requests, accessReq[r] # G!Idle,
           NEW step \in {"locked", "deleted", "inserted"}, G!At(r, step),
           UNCHANGED <<group, lists, asked, clean>>,
           step = "locked" /\ accessReq[r].named =>
               \A q \in Requests : ~G!HoldsGroup(q, accessReq[r].list),
           step # "locked" => accessReq[r].step \in {"deleting", "deleted"}
    PROVE  AccessInv'
<1>1. accessReq[r] \in G!Requested /\ WellAsked(accessReq[r])
  BY InFlight
<1>2. PICK q : q = [accessReq[r] EXCEPT !.step = step]
  OBVIOUS
<1>3. /\ q \in G!Requested /\ q.step = step /\ q.kind = accessReq[r].kind
      /\ q.list = accessReq[r].list /\ q.new = accessReq[r].new /\ q.named = accessReq[r].named
      /\ q.alone = accessReq[r].alone /\ q.seen = accessReq[r].seen
  BY <1>1, <1>2 DEF G!Requested
<1>4. /\ accessReq'[r] = q /\ \A p \in Requests \ {r} : accessReq'[p] = accessReq[p]
      /\ accessReq' \in [Requests -> G!Requested \cup {G!Idle}]
  BY <1>2, <1>3 DEF G!At, AccessInv, AccessTypes, G!TypeOK
<1>5. WellAsked(q)
  BY <1>1, <1>3 DEF WellAsked
<1>6. ASSUME NEW g \in Groups, G!HoldsGroup(r, g)'
      PROVE  \A p \in Requests \ {r} : ~G!HoldsGroup(p, g)
  <2>1. g = accessReq[r].list /\ accessReq[r].named
    BY <1>3, <1>4, <1>6 DEF G!HoldsGroup
  <2>2. CASE step = "locked"
    BY <2>1, <2>2
  <2>3. CASE step # "locked"
    <3>1. G!HoldsGroup(r, g)
      BY <2>1, <2>3 DEF G!HoldsGroup
    <3> QED
      BY <3>1 DEF AccessInv, OneHolder
  <2> QED
    BY <2>2, <2>3
<1>7. \A l \in G!Lists : G!Replaces(r, l)' => G!Replaces(r, l)
  <2>1. accessReq'[r].step = step
    BY <1>3, <1>4
  <2> QED
    BY <1>3, <1>4, <2>1 DEF G!Replaces, G!Writing
<1> QED
  BY <1>3, <1>4, <1>5, <1>6, <1>7, RequestStep

LEMMA RolledBackStep ==
    ASSUME AccessInv, NEW r \in Requests, accessReq' = [accessReq EXCEPT ![r] = G!Idle],
           UNCHANGED <<group, lists, asked, clean>>
    PROVE  AccessInv'
<1>1. /\ accessReq'[r] = G!Idle /\ \A p \in Requests \ {r} : accessReq'[p] = accessReq[p]
      /\ accessReq' \in [Requests -> G!Requested \cup {G!Idle}]
  BY DEF AccessInv, AccessTypes, G!TypeOK
<1>2. \A g : ~G!HoldsGroup(r, g)' /\ ~G!Replaces(r, g)'
  BY <1>1 DEF G!HoldsGroup, G!Replaces, G!Writing
<1> QED
  BY <1>1, <1>2, RequestStep

(* No list or request names a group before it is created.                      *)
LEMMA CreateGroupStep ==
    ASSUME AccessInv, NEW g \in Groups, NEW new \in SUBSET Users, G!CreateGroup(g, new)
    PROVE  AccessInv'
<1>1. /\ group[g] = "new" /\ group' = [group EXCEPT ![g] = "alive"]
      /\ lists' = [lists EXCEPT ![g] = new] /\ asked' = [asked EXCEPT ![g] = new]
      /\ accessReq' = accessReq /\ clean' = clean
  BY DEF G!CreateGroup
<1>2. g \in G!Lists /\ g # "game"
  BY GroupsAssumption DEF G!Lists
<1>3. /\ group \in [Groups -> {"new", "alive", "removed"}]
      /\ lists \in [G!Lists -> SUBSET (Groups \cup Users)]
      /\ asked \in [G!Lists -> SUBSET (Groups \cup Users)]
  BY DEF AccessInv, AccessTypes, G!TypeOK
<1>4. /\ group' \in [Groups -> {"new", "alive", "removed"}]
      /\ lists' \in [G!Lists -> SUBSET (Groups \cup Users)]
      /\ asked' \in [G!Lists -> SUBSET (Groups \cup Users)]
      /\ \A l \in G!Lists \ {g} : lists'[l] = lists[l] /\ asked'[l] = asked[l]
      /\ lists'[g] = new /\ asked'[g] = new
      /\ \A h \in Groups \ {g} : group'[h] = group[h]
      /\ group'[g] = "alive"
  BY <1>1, <1>2, <1>3
<1>5. ASSUME NEW r \in Requests PROVE ~G!Replaces(r, g) /\ ~G!HoldsGroup(r, g)
  <2>1. accessReq[r] # G!Idle => WellAsked(accessReq[r])
    BY DEF AccessInv, AccessTypes
  <2> QED
    BY <1>1, <1>2, <2>1 DEF G!Replaces, G!Writing, G!HoldsGroup, WellAsked
<1>6. \A r \in Requests, l \in G!Lists : G!Replaces(r, l)' <=> G!Replaces(r, l)
  BY <1>1 DEF G!Replaces, G!Writing
<1>7. AccessTypes'
  <2>1. G!TypeOK'
    BY <1>1, <1>4 DEF AccessInv, AccessTypes, G!TypeOK, G!Subjects
  <2>3. \A r \in Requests : WellAsked(accessReq[r]) => WellAsked(accessReq[r])'
    BY <1>1, <1>4 DEF WellAsked, Known
  <2>4. lists'["game"] = lists["game"] /\ asked'["game"] = asked["game"]
    BY <1>2, <1>4 DEF G!Lists
  <2>5. Known(lists["game"])' /\ Known(asked["game"])'
    BY <1>4, <2>4 DEF Known, AccessInv, AccessTypes
  <2> QED
    BY <1>1, <2>1, <2>3, <2>5 DEF AccessInv, AccessTypes
<1>8. OneHolder'
  BY <1>1 DEF AccessInv, OneHolder, G!HoldsGroup
<1>9. Overlapping'
  BY <1>1, <1>6 DEF AccessInv, Overlapping
<1>10. DeletesAll'
  BY <1>1, <1>4, <1>5, <1>6 DEF AccessInv, DeletesAll
<1>11. ReadsAsAsked'
  <2>2. /\ G!ToList(lists["game"])' = G!ToList(lists["game"])
        /\ G!ToList(asked["game"])' = G!ToList(asked["game"])
    <3>1. lists'["game"] = lists["game"] /\ asked'["game"] = asked["game"]
      BY <1>2, <1>4 DEF G!Lists
    <3>2. g \notin lists["game"] /\ g \notin asked["game"]
      BY <1>1 DEF Known, AccessInv, AccessTypes
    <3> QED
      BY <1>4, <3>1, <3>2 DEF G!ToList, G!FindGroupsByIds
  <2> SUFFICES ASSUME NEW l \in G!Lists
               PROVE  /\ G!Shown(l, lists[l])' \subseteq G!Shown(l, asked[l])'
                      /\ l \in clean => G!Shown(l, lists[l])' = G!Shown(l, asked[l])'
    BY <1>1 DEF ReadsAsAsked
  <2>3. CASE l = "game"
    BY <2>2, <2>3 DEF AccessInv, ReadsAsAsked, G!Shown
  <2>4. CASE l # "game"
    BY <1>4, <2>4 DEF AccessInv, ReadsAsAsked, G!Shown
  <2> QED
    BY <2>3, <2>4
<1> QED
  BY <1>7, <1>8, <1>9, <1>10, <1>11 DEF AccessInv

LEMMA DeleteStartsStep ==
    ASSUME AccessInv, NEW r \in Requests, G!DeleteStarts(r)
    PROVE  AccessInv'
<1>1. /\ accessReq[r] # G!Idle /\ accessReq[r].step \in {"check", "locked"}
      /\ accessReq[r].step = "check" => accessReq[r].kind = "access"
      /\ UNCHANGED <<group, lists, asked, clean>>
  BY DEF G!DeleteStarts
<1>2. accessReq[r] \in G!Requested /\ WellAsked(accessReq[r])
  BY <1>1, InFlight
<1>3. PICK rivals : rivals = IF accessReq[r].kind = "remove" THEN {}
                             ELSE {p \in Requests \ {r} : G!Replaces(p, accessReq[r].list)}
  OBVIOUS
<1>4. PICK first \in BOOLEAN : first = (rivals = {})
  OBVIOUS
<1>5. PICK q : q = [accessReq[r] EXCEPT !.seen = G!Sees(accessReq[r]), !.step = "deleting",
                                        !.alone = first]
  OBVIOUS
<1>6. /\ accessReq'[r] = q
      /\ \A p \in Requests \ {r} :
            accessReq'[p] = IF p \in rivals THEN [accessReq[p] EXCEPT !.alone = FALSE]
                                            ELSE accessReq[p]
      /\ DOMAIN accessReq' = Requests /\ accessReq' = [p \in Requests |-> accessReq'[p]]
  BY <1>3, <1>4, <1>5 DEF G!DeleteStarts
<1>7. /\ G!Sees(accessReq[r]) \in SUBSET (Groups \cup Users)
      /\ accessReq[r].kind = "remove" => G!Sees(accessReq[r]) \subseteq {accessReq[r].list}
      /\ accessReq[r].kind # "remove" => G!Sees(accessReq[r]) = lists[accessReq[r].list]
  <2>1. "game" \in G!Lists /\ accessReq[r].list \in G!Lists
    BY <1>2 DEF G!Requested, G!Lists
  <2> QED
    BY <2>1 DEF G!Sees, AccessInv, AccessTypes, G!TypeOK
<1>8. /\ q \in G!Requested /\ q.step = "deleting" /\ q.kind = accessReq[r].kind
      /\ q.list = accessReq[r].list /\ q.new = accessReq[r].new /\ q.named = accessReq[r].named
      /\ q.alone = first /\ q.seen = G!Sees(accessReq[r])
  BY <1>2, <1>5, <1>7 DEF G!Requested
<1>9. ASSUME NEW p \in rivals
      PROVE  /\ accessReq'[p] \in G!Requested /\ accessReq'[p].alone = FALSE
             /\ accessReq'[p].step = accessReq[p].step /\ accessReq'[p].kind = accessReq[p].kind
             /\ accessReq'[p].list = accessReq[p].list /\ accessReq'[p].new = accessReq[p].new
             /\ accessReq'[p].named = accessReq[p].named /\ accessReq'[p].seen = accessReq[p].seen
             /\ accessReq'[p] # G!Idle
  <2>1. p \in Requests \ {r} /\ accessReq[p] # G!Idle
    BY <1>3 DEF G!Replaces, G!Writing
  <2>2. accessReq[p] \in G!Requested
    BY <2>1, InFlight
  <2>3. accessReq'[p] = [accessReq[p] EXCEPT !.alone = FALSE]
    BY <1>6, <2>1
  <2>4. accessReq'[p].kind # "none"
    BY <2>2, <2>3 DEF G!Requested
  <2> QED
    BY <2>2, <2>3, <2>4 DEF G!Requested, G!Idle
<1>10. \A p \in Requests \ {r} : p \notin rivals => accessReq'[p] = accessReq[p]
  BY <1>6
<1>11. WellAsked(q)
  BY <1>2, <1>7, <1>8 DEF WellAsked
<1>12. q # G!Idle /\ \A p \in rivals : p \in Requests \ {r} /\ accessReq[p] # G!Idle
  BY <1>3, <1>8 DEF G!Replaces, G!Writing, G!Requested, G!Idle
<1>13. AccessTypes'
  <2>1. accessReq' \in [Requests -> G!Requested \cup {G!Idle}]
    <3>1. \A p \in Requests : accessReq'[p] \in G!Requested \cup {G!Idle}
      BY <1>6, <1>8, <1>9, <1>10 DEF AccessInv, AccessTypes, G!TypeOK
    <3> QED
      BY <1>6, <3>1
  <2>2. G!TypeOK'
    BY <1>1, <2>1 DEF AccessInv, AccessTypes, G!TypeOK
  <2>3. ASSUME NEW p \in Requests, accessReq'[p] # G!Idle PROVE WellAsked(accessReq'[p])
    <3>1. CASE p = r
      BY <1>6, <1>11, <3>1
    <3>2. CASE p \in rivals
      <4>1. WellAsked(accessReq[p])
        BY <1>12, <3>2 DEF AccessInv, AccessTypes
      <4> QED
        BY <1>9, <3>2, <4>1 DEF WellAsked
    <3>3. CASE p # r /\ p \notin rivals
      BY <1>10, <2>3, <3>3 DEF AccessInv, AccessTypes
    <3> QED
      BY <3>1, <3>2, <3>3
  <2>4. \A p \in Requests : WellAsked(accessReq'[p]) => WellAsked(accessReq[p])'
    BY <1>1 DEF WellAsked, Known
  <2> QED
    BY <1>1, <2>2, <2>3, <2>4 DEF AccessInv, AccessTypes, Known
<1>14. \A p \in Requests \ {r}, l \in G!Lists : G!Replaces(p, l)' <=> G!Replaces(p, l)
  BY <1>9, <1>10, <1>12 DEF G!Replaces, G!Writing
<1>15. \A p \in Requests, g \in Groups : G!HoldsGroup(p, g)' => G!HoldsGroup(p, g)
  <2>1. \A g \in Groups : G!HoldsGroup(r, g)' => G!HoldsGroup(r, g)
    BY <1>1, <1>2, <1>6, <1>8 DEF G!HoldsGroup, WellAsked
  <2>2. \A p \in Requests \ {r}, g \in Groups : G!HoldsGroup(p, g)' => G!HoldsGroup(p, g)
    BY <1>9, <1>10, <1>12 DEF G!HoldsGroup
  <2> QED
    BY <2>1, <2>2
<1>16. OneHolder'
  BY <1>15 DEF AccessInv, OneHolder
<1>17. \A l \in G!Lists : G!Replaces(r, l)' =>
          accessReq[r].kind # "remove" /\ l = accessReq[r].list
  BY <1>6, <1>8 DEF G!Replaces
<1>18. ASSUME NEW p \in Requests \ {r}, NEW l \in G!Lists, G!Replaces(p, l)', G!Replaces(r, l)'
       PROVE  p \in rivals
  BY <1>3, <1>14, <1>17, <1>18
<1>19. Overlapping'
  <2> SUFFICES ASSUME NEW p \in Requests, NEW o \in Requests, NEW l \in G!Lists,
                      G!Replaces(p, l)', G!Replaces(o, l)', accessReq'[p].alone, p # o
               PROVE  FALSE
    BY DEF Overlapping
  <2>1. CASE p = r
    <3>1. o \in rivals
      BY <1>18, <2>1
    <3> QED
      BY <1>4, <1>6, <1>8, <2>1, <3>1
  <2>2. CASE o = r
    BY <1>9, <1>18, <2>2
  <2>3. CASE p # r /\ o # r
    <3>1. p \notin rivals
      BY <1>9
    <3> QED
      BY <1>10, <1>14, <2>3, <3>1 DEF AccessInv, Overlapping
  <2> QED
    BY <2>1, <2>2, <2>3
<1>20. DeletesAll'
  <2> SUFFICES ASSUME NEW p \in Requests, NEW l \in G!Lists, G!Replaces(p, l)', accessReq'[p].alone
               PROVE  lists[l] \subseteq accessReq'[p].seen
    BY <1>1 DEF DeletesAll
  <2>1. CASE p = r
    BY <1>6, <1>7, <1>8, <1>17, <2>1
  <2>2. CASE p # r
    <3>1. p \notin rivals
      BY <1>9
    <3> QED
      BY <1>10, <1>14, <2>2, <3>1 DEF AccessInv, DeletesAll
  <2> QED
    BY <2>1, <2>2
<1>21. ReadsAsAsked'
  BY <1>1 DEF AccessInv, ReadsAsAsked, G!Shown, G!ToList, G!FindGroupsByIds
<1> QED
  BY <1>13, <1>16, <1>19, <1>20, <1>21 DEF AccessInv

(* The list is what the request inserted and what it did not see, and of an       *)
(* entry that another one saw and this one deleted the other finds nothing.      *)
LEMMA CommitStep ==
    ASSUME AccessInv, NEW r \in Requests, G!Commit(r)
    PROVE  AccessInv'
<1>1. PICK q : q = accessReq[r]
  OBVIOUS
<1>2. PICK t : t = G!Target(q)
  OBVIOUS
<1>3. q # G!Idle /\ q.step = "inserted" /\ q \in G!Requested /\ WellAsked(q)
  BY <1>1, InFlight DEF G!Commit
<1>4. /\ t \in G!Lists /\ t = IF q.kind = "remove" THEN "game" ELSE q.list
  BY <1>2, <1>3 DEF G!Target, G!Requested, G!Lists
<1>5. lists' = [lists EXCEPT ![t] = (lists[t] \ q.seen) \cup q.new]
  BY <1>1, <1>2 DEF G!Commit
<1>6. PICK others : others = G!Others(r)
  OBVIOUS
<1>7. /\ DOMAIN accessReq' = Requests /\ accessReq' = [p \in Requests |-> accessReq'[p]]
      /\ accessReq'[r] = G!Idle
      /\ \A p \in Requests \ {r} :
            accessReq'[p] = IF p \in others THEN [accessReq[p] EXCEPT !.seen = @ \ q.seen]
                                            ELSE accessReq[p]
      /\ \A p \in others : p \in Requests \ {r} /\ accessReq[p] # G!Idle
  BY <1>1, <1>6 DEF G!Commit, G!Others, G!Writing
<1>8. /\ group \in [Groups -> {"new", "alive", "removed"}]
      /\ lists \in [G!Lists -> SUBSET (Groups \cup Users)]
      /\ \A l \in G!Lists : lists[l] \subseteq G!Subjects(l)
      /\ asked \in [G!Lists -> SUBSET (Groups \cup Users)]
      /\ accessReq \in [Requests -> G!Requested \cup {G!Idle}]
      /\ clean \in SUBSET G!Lists
  BY DEF AccessInv, AccessTypes, G!TypeOK
<1>9. /\ \A l \in G!Lists \ {t} : lists'[l] = lists[l]
      /\ lists'[t] = (lists[t] \ q.seen) \cup q.new
      /\ lists' \in [G!Lists -> SUBSET (Groups \cup Users)]
  BY <1>3, <1>4, <1>5, <1>8 DEF G!Requested
<1>10. \A l \in G!Lists : lists'[l] \subseteq G!Subjects(l)
  <2>1. q.new \subseteq G!Subjects(t)
    BY <1>3, <1>4 DEF WellAsked
  <2> QED
    BY <1>8, <1>9, <2>1
<1>11. ASSUME NEW p \in Requests \ {r}, accessReq[p] # G!Idle
       PROVE  /\ accessReq'[p] \in G!Requested /\ accessReq'[p] # G!Idle
              /\ accessReq'[p].step = accessReq[p].step /\ accessReq'[p].kind = accessReq[p].kind
              /\ accessReq'[p].list = accessReq[p].list /\ accessReq'[p].new = accessReq[p].new
              /\ accessReq'[p].named = accessReq[p].named
              /\ accessReq'[p].alone = accessReq[p].alone
              /\ accessReq'[p].seen = IF p \in others THEN accessReq[p].seen \ q.seen
                                                      ELSE accessReq[p].seen
  <2>1. accessReq[p] \in G!Requested
    BY <1>11, InFlight
  <2>2. CASE p \notin others
    BY <1>7, <1>11, <2>1, <2>2
  <2>3. CASE p \in others
    <3>1. accessReq'[p] = [accessReq[p] EXCEPT !.seen = accessReq[p].seen \ q.seen]
      BY <1>7, <2>3
    <3>2. accessReq'[p].kind # "none"
      BY <2>1, <3>1 DEF G!Requested
    <3> QED
      BY <2>1, <2>3, <3>1, <3>2 DEF G!Requested, G!Idle
  <2> QED
    BY <2>2, <2>3
<1>12. ASSUME NEW p \in Requests, accessReq'[p] # G!Idle
       PROVE  p # r /\ accessReq[p] # G!Idle
  BY <1>7, <1>12
<1>13. /\ group' \in [Groups -> {"new", "alive", "removed"}]
       /\ \A g \in Groups : group'[g] = "new" => group[g] = "new"
       /\ \A g \in Groups : group[g] = "new" => group'[g] = "new"
       /\ q.kind # "remove" => group' = group
       /\ q.kind = "remove" => \A g \in Groups : group'[g] = IF g = q.list THEN "removed" ELSE group[g]
       /\ q.kind = "remove" => asked' = asked /\ clean' = clean
       /\ q.kind # "remove" =>
             /\ asked' = [asked EXCEPT ![t] = IF q.alone THEN q.new ELSE asked[t] \cup q.new]
             /\ clean' = IF q.alone THEN clean \cup {t} ELSE clean \ {t}
  <2>1. CASE q.kind = "remove"
    <3>1. group' = [group EXCEPT ![q.list] = "removed"] /\ UNCHANGED <<asked, clean>>
      BY <1>1, <2>1 DEF G!Commit
    <3>2. q.list \in Groups /\ group[q.list] # "new"
      BY <1>3, <2>1 DEF WellAsked
    <3> QED
      BY <1>8, <2>1, <3>1, <3>2
  <2>2. CASE q.kind # "remove"
    <3>1. /\ group' = group
          /\ asked' = [asked EXCEPT ![t] = IF q.alone THEN q.new ELSE asked[t] \cup q.new]
          /\ clean' = IF q.alone THEN clean \cup {t} ELSE clean \ {t}
      BY <1>1, <1>2, <2>2 DEF G!Commit
    <3> QED
      BY <1>8, <2>2, <3>1
  <2> QED
    BY <2>1, <2>2
<1>14. /\ asked' \in [G!Lists -> SUBSET (Groups \cup Users)] /\ clean' \in SUBSET G!Lists
       /\ \A l \in G!Lists \ {t} : asked'[l] = asked[l]
       /\ asked'[t] = IF q.kind = "remove" THEN asked[t]
                      ELSE IF q.alone THEN q.new ELSE asked[t] \cup q.new
  <2>1. q.new \in SUBSET (Groups \cup Users)
    BY <1>3 DEF G!Requested
  <2>2. CASE q.kind = "remove"
    BY <1>8, <1>13, <2>2
  <2>3. CASE q.kind # "remove"
    <3>1. PICK new \in SUBSET (Groups \cup Users) :
              new = IF q.alone THEN q.new ELSE asked[t] \cup q.new
      BY <1>4, <1>8, <2>1
    <3>2. asked' = [asked EXCEPT ![t] = new]
      BY <1>13, <2>3, <3>1
    <3>3. clean' \in SUBSET G!Lists
      <4>1. clean' = clean \cup {t} \/ clean' = clean \ {t}
        BY <1>13, <2>3
      <4> QED
        BY <1>4, <1>8, <4>1
    <3> QED
      BY <1>4, <1>8, <2>3, <3>1, <3>2, <3>3
  <2> QED
    BY <2>2, <2>3
<1>15. \A S : Known(S) => Known(S)'
  BY <1>13 DEF Known
<1>16. AccessTypes'
  <2>1. accessReq' \in [Requests -> G!Requested \cup {G!Idle}]
    <3>1. \A p \in Requests : accessReq'[p] \in G!Requested \cup {G!Idle}
      BY <1>11, <1>12
    <3> QED
      BY <1>7, <3>1
  <2>2. G!TypeOK'
    BY <1>9, <1>10, <1>13, <1>14, <2>1 DEF G!TypeOK, G!Subjects
  <2>3. ASSUME NEW p \in Requests, accessReq'[p] # G!Idle PROVE WellAsked(accessReq[p])'
    <3>1. p \in Requests \ {r} /\ accessReq[p] # G!Idle /\ WellAsked(accessReq[p])
      BY <1>12, <2>3 DEF AccessInv, AccessTypes
    <3>2. /\ accessReq'[p].kind = accessReq[p].kind /\ accessReq'[p].list = accessReq[p].list
          /\ accessReq'[p].new = accessReq[p].new /\ accessReq'[p].named = accessReq[p].named
          /\ accessReq'[p].seen \subseteq accessReq[p].seen
      BY <1>11, <3>1
    <3>3. Known(accessReq[p].new) => Known(accessReq[p].new)'
      BY <1>13, <3>2 DEF Known
    <3>4. \A g \in Groups : group'[g] = "new" => group[g] = "new"
      BY <1>13
    <3> HIDE DEF Known
    <3> QED
      BY <3>1, <3>2, <3>3, <3>4 DEF WellAsked
  <2>4. Known(lists["game"])' /\ Known(asked["game"])'
    <3>1. t = "game" => Known(q.new)
      BY <1>3, <1>4, GroupsAssumption DEF WellAsked, Known
    <3>2. "game" \in G!Lists /\ Known(lists["game"]) /\ Known(asked["game"])
      BY DEF G!Lists, AccessInv, AccessTypes
    <3>3. CASE t = "game"
      BY <1>9, <1>13, <1>14, <3>1, <3>2, <3>3 DEF Known
    <3>4. CASE t # "game"
      BY <1>9, <1>13, <1>14, <3>2, <3>4 DEF Known
    <3> QED
      BY <3>3, <3>4
  <2> QED
    BY <2>2, <2>3, <2>4 DEF AccessTypes
<1>17. \A p \in Requests, g \in Groups : G!HoldsGroup(p, g)' => G!HoldsGroup(p, g)
  BY <1>11, <1>12 DEF G!HoldsGroup
<1>18. OneHolder'
  BY <1>17 DEF AccessInv, OneHolder
<1>19. \A p \in Requests, l \in G!Lists : G!Replaces(p, l)' =>
          /\ p # r /\ accessReq[p] # G!Idle /\ G!Replaces(p, l)
          /\ accessReq'[p].alone = accessReq[p].alone
  BY <1>11, <1>12 DEF G!Replaces, G!Writing
<1>20. Overlapping'
  BY <1>19 DEF AccessInv, Overlapping
<1>21. q.kind # "remove" => G!Replaces(r, t)
  BY <1>1, <1>3, <1>4 DEF G!Replaces, G!Writing
<1>22. DeletesAll'
  <2> SUFFICES ASSUME NEW p \in Requests, NEW l \in G!Lists, G!Replaces(p, l)', accessReq'[p].alone
               PROVE  lists'[l] \subseteq accessReq'[p].seen
    BY DEF DeletesAll
  <2>1. /\ p \in Requests \ {r} /\ accessReq[p] # G!Idle
        /\ G!Replaces(p, l) /\ accessReq[p].alone
    BY <1>19
  <2>2. lists[l] \subseteq accessReq[p].seen
    BY <2>1 DEF AccessInv, DeletesAll
  <2>3. CASE l = t
    <3>1. q.kind = "remove"
      BY <1>21, <2>1, <2>3 DEF AccessInv, Overlapping
    <3>2. lists'[t] = lists[t] \ q.seen
      BY <1>3, <1>9, <3>1 DEF WellAsked
    <3> QED
      BY <1>11, <2>1, <2>2, <2>3, <3>2
  <2>4. CASE l # t
    <3>1. p \notin others
      BY <1>1, <1>2, <1>6, <2>1, <2>4 DEF G!Others, G!Replaces, G!Target
    <3> QED
      BY <1>9, <1>11, <2>1, <2>2, <2>4, <3>1
  <2> QED
    BY <2>3, <2>4
<1>23. ReadsAsAsked'
  <2> SUFFICES ASSUME NEW l \in G!Lists
               PROVE  /\ G!Shown(l, lists[l])' \subseteq G!Shown(l, asked[l])'
                      /\ l \in clean' => G!Shown(l, lists[l])' = G!Shown(l, asked[l])'
    BY DEF ReadsAsAsked
  <2>1. /\ G!Shown(l, lists[l]) \subseteq G!Shown(l, asked[l])
        /\ l \in clean => G!Shown(l, lists[l]) = G!Shown(l, asked[l])
    BY DEF AccessInv, ReadsAsAsked
  <2>2. CASE q.kind = "remove"
    <3>1. /\ t = "game" /\ q.list \in Groups /\ q.list \notin Users
          /\ lists'[t] = lists[t] \ q.seen /\ q.seen \subseteq {q.list}
          /\ asked'[l] = asked[l] /\ clean' = clean
      BY <1>3, <1>4, <1>9, <1>13, <1>14, <2>2, GroupsAssumption DEF WellAsked
    <3>2. \A g \in Groups : group'[g] = "alive" <=> g # q.list /\ group[g] = "alive"
      BY <1>13, <2>2
    <3>3. CASE l = "game"
      <4>1. lists'[l] = lists[l] \ q.seen /\ asked'[l] = asked[l]
        BY <3>1, <3>3
      <4>2. /\ G!ToList(lists[l])' = G!ToList(lists[l]) \ {q.list}
            /\ G!ToList(asked[l])' = G!ToList(asked[l]) \ {q.list}
        BY <3>1, <3>2, <4>1 DEF G!ToList, G!FindGroupsByIds
      <4> QED
        BY <2>1, <3>1, <3>3, <4>2 DEF G!Shown
    <3>4. CASE l # "game"
      BY <1>9, <2>1, <3>1, <3>4 DEF G!Shown
    <3> QED
      BY <3>3, <3>4
  <2>3. CASE q.kind # "remove"
    <3>1. group' = group
      BY <1>13, <2>3
    <3>2. /\ G!Shown(l, lists[l])' = G!Shown(l, lists'[l])
          /\ G!Shown(l, asked[l])' = G!Shown(l, asked'[l])
      BY <3>1 DEF G!Shown, G!ToList, G!FindGroupsByIds
    <3>3. CASE l # t
      <4>1. lists'[l] = lists[l] /\ asked'[l] = asked[l] /\ (l \in clean' => l \in clean)
        BY <1>9, <1>13, <1>14, <2>3, <3>3
      <4> QED
        BY <2>1, <3>2, <4>1
    <3>4. CASE l = t /\ q.alone
      <4>1. lists[t] \subseteq q.seen
        BY <1>1, <1>4, <1>21, <2>3, <3>4 DEF AccessInv, DeletesAll
      <4>2. lists'[l] = q.new /\ asked'[l] = q.new
        BY <1>9, <1>14, <2>3, <3>4, <4>1
      <4> QED
        BY <3>2, <4>2
    <3>5. CASE l = t /\ ~q.alone
      <4>1. /\ lists'[l] \subseteq lists[l] \cup q.new
            /\ asked'[l] = asked[l] \cup q.new /\ l \notin clean'
        BY <1>9, <1>13, <1>14, <2>3, <3>5
      <4>2. \A S, T : G!Shown(l, S \cup T) = G!Shown(l, S) \cup G!Shown(l, T)
        BY DEF G!Shown, G!ToList, G!FindGroupsByIds
      <4>3. \A S, T : S \subseteq T => G!Shown(l, S) \subseteq G!Shown(l, T)
        BY DEF G!Shown, G!ToList, G!FindGroupsByIds
      <4> QED
        <5>1. G!Shown(l, lists'[l]) \subseteq G!Shown(l, lists[l]) \cup G!Shown(l, q.new)
          <6>1. PICK S, T : S = lists'[l] /\ T = lists[l] \cup q.new
            OBVIOUS
          <6>2. G!Shown(l, S) \subseteq G!Shown(l, T)
            BY <4>1, <4>3, <6>1
          <6>3. G!Shown(l, T) = G!Shown(l, lists[l]) \cup G!Shown(l, q.new)
            BY <4>2, <6>1
          <6> QED
            BY <6>1, <6>2, <6>3
        <5>2. G!Shown(l, asked'[l]) = G!Shown(l, asked[l]) \cup G!Shown(l, q.new)
          BY <4>1, <4>2
        <5> QED
          BY <2>1, <3>2, <4>1, <5>1, <5>2
    <3> QED
      BY <3>3, <3>4, <3>5
  <2> QED
    BY <2>2, <2>3
<1> QED
  BY <1>16, <1>18, <1>20, <1>22, <1>23 DEF AccessInv

LEMMA AccessNext == AccessInv /\ (G!Next \/ UNCHANGED G!vars) => AccessInv'
<1> SUFFICES ASSUME AccessInv, G!Next \/ UNCHANGED G!vars PROVE AccessInv'
  OBVIOUS
<1>1. ASSUME NEW r \in Requests, NEW new \in SUBSET G!Subjects("game"), G!SetGameAccess(r, new)
      PROVE  AccessInv'
  <2>1. /\ accessReq[r] = G!Idle /\ G!Begin(r, "access", "game", new, FALSE)
        /\ UNCHANGED <<group, lists, asked, clean>>
    BY <1>1 DEF G!SetGameAccess
  <2>2. Known(new)
    BY <1>1 DEF G!SetGameAccess, G!FindGroupsByIds, Known
  <2>3. "game" \in G!Lists
    BY DEF G!Lists
  <2> QED
    BY <2>1, <2>2, <2>3, BeginStep
<1>2. ASSUME NEW r \in Requests, NEW g \in Groups, NEW new \in SUBSET Users, NEW named \in BOOLEAN,
             G!UpdateGroup(r, g, new, named) \/ (G!RemoveGroup(r, g) /\ new = {} /\ named = TRUE)
      PROVE  AccessInv'
  <2>1. g \in G!Lists /\ g # "game" /\ new \in SUBSET G!Subjects(g)
    BY GroupsAssumption DEF G!Lists, G!Subjects
  <2>2. group[g] # "new" /\ accessReq[r] = G!Idle /\ UNCHANGED <<group, lists, asked, clean>>
    BY <1>2 DEF G!UpdateGroup, G!RemoveGroup, G!FindGroupsByIds
  <2>3. CASE G!UpdateGroup(r, g, new, named)
    <3>1. G!Begin(r, "members", g, new, named)
      BY <2>3 DEF G!UpdateGroup
    <3> QED
      BY <2>1, <2>2, <3>1, BeginStep
  <2>4. CASE G!RemoveGroup(r, g) /\ new = {} /\ named = TRUE
    <3>1. G!Begin(r, "remove", g, new, named)
      BY <2>4 DEF G!RemoveGroup
    <3> QED
      BY <2>1, <2>2, <2>4, <3>1, BeginStep
  <2> QED
    BY <1>2, <2>3, <2>4
<1>3. ASSUME NEW r \in Requests, NEW g \in Groups, G!RemoveGroup(r, g) PROVE AccessInv'
  <2>1. {} \in SUBSET Users /\ TRUE \in BOOLEAN
    OBVIOUS
  <2> QED
    BY <1>2, <1>3, <2>1
<1>4. ASSUME NEW r \in Requests, G!LocksGroup(r) PROVE AccessInv'
  <2>1. /\ accessReq[r] # G!Idle /\ UNCHANGED <<group, lists, asked, clean>>
        /\ accessReq[r].named => \A q \in Requests : ~G!HoldsGroup(q, accessReq[r].list)
        /\ G!At(r, "locked") \/ accessReq' = [accessReq EXCEPT ![r] = G!Idle]
    BY <1>4 DEF G!LocksGroup
  <2> QED
    BY <2>1, AtStep, RolledBackStep
<1>5. ASSUME NEW r \in Requests, G!DeleteEnds(r) \/ G!Insert(r) PROVE AccessInv'
  <2>1. /\ accessReq[r] # G!Idle /\ UNCHANGED <<group, lists, asked, clean>>
        /\ accessReq[r].step \in {"deleting", "deleted"}
        /\ G!At(r, "deleted") \/ G!At(r, "inserted")
    BY <1>5 DEF G!DeleteEnds, G!Insert
  <2> QED
    BY <2>1, AtStep
<1>6. ASSUME NEW r \in Requests, G!RolledBack(r) PROVE AccessInv'
  BY <1>6, RolledBackStep DEF G!RolledBack
<1>7. CASE UNCHANGED G!vars
  <2>1. UNCHANGED <<group, lists, accessReq, asked, clean>>
    BY <1>7 DEF G!vars
  <2>2. AccessTypes'
    BY <2>1 DEF AccessInv, AccessTypes, G!TypeOK, WellAsked, Known
  <2>3. OneHolder' /\ Overlapping' /\ DeletesAll'
    BY <2>1 DEF AccessInv, OneHolder, Overlapping, DeletesAll, G!HoldsGroup, G!Replaces, G!Writing
  <2>4. ReadsAsAsked'
    BY <2>1 DEF AccessInv, ReadsAsAsked, G!Shown, G!ToList, G!FindGroupsByIds
  <2> QED
    BY <2>2, <2>3, <2>4 DEF AccessInv
<1>8. CASE G!Next
  BY <1>1, <1>2, <1>3, <1>4, <1>5, <1>6, <1>8, CreateGroupStep, DeleteStartsStep, CommitStep
     DEF G!Next
<1> QED
  BY <1>7, <1>8

(* The inductive invariant holds, of any number of groups, members and requests. *)
THEOREM AccessInvAlways == G!Spec => []AccessInv
BY AccessInit, AccessNext, PTL DEF G!Spec

(* What a group or a game is shown to have is what the last request that         *)
(* replaced it asked for, and if several were at it nobody that none of them     *)
(* asked for; updates that rename a group never overlap.                       *)
THEOREM ListsReadAsAsked == G!Spec => []AccessIsOneList
<1>1. AccessInv => AccessIsOneList
  <2> SUFFICES ASSUME AccessInv PROVE G!AccessIsOneList
    BY DEF AccessIsOneList
  <2>1. ASSUME NEW r \in Requests, NEW q \in Requests, NEW g \in Groups,
               G!Replaces(r, g), G!Replaces(q, g), accessReq[r].named, accessReq[q].named
        PROVE  r = q
    <3>1. G!HoldsGroup(r, g) /\ G!HoldsGroup(q, g)
      BY <2>1 DEF G!Replaces, G!Writing, G!HoldsGroup
    <3> QED
      BY <3>1 DEF AccessInv, OneHolder
  <2> QED
    BY <2>1 DEF AccessInv, ReadsAsAsked, G!AccessIsOneList
<1> QED
  BY <1>1, AccessInvAlways, PTL

-----------------------------------------------------------------------------
(* PlayerFeed, for any number of games, a feed and pages of any length.         *)

FeedTypes ==
    /\ games \in Seq(Games) /\ F!IsInjective(games)
    /\ snapshot \in Seq(Games) /\ F!IsInjective(snapshot)
    /\ page \in Seq(Games) /\ scroll \in Seq(Games)
    /\ cursor \in Nat

(* The page ends at an offset of the snapshot, where the next one begins; some   *)
(* games of the page, its first ones, have been looked up.                      *)
Scrolled(seen) ==
    LET ends == seen + Len(page) IN
    /\ ends <= Len(snapshot) /\ (ends = 0 => Len(snapshot) = 0)
    /\ cursor = IF ends < Len(snapshot) THEN ends ELSE 0
    /\ \A k \in 1..Len(page) : page[k] = snapshot[seen + k]
    /\ F!IsInjective(scroll)
    /\ \A k \in 1..Len(scroll) : \E i \in 1..seen : scroll[k] = snapshot[i]
    /\ \A i \in 1..seen : snapshot[i] \in removed \/ \E k \in 1..Len(scroll) : scroll[k] = snapshot[i]

(* The inductive invariant. *)
FeedInv == FeedTypes /\ (steady => \E seen \in Nat : Scrolled(seen))

LEMMA FeedInit == F!Init => FeedInv
<1> SUFFICES ASSUME F!Init PROVE FeedInv
  OBVIOUS
<1> USE DEF F!Init
<1>1. FeedTypes
  BY DEF FeedTypes, F!IsInjective
<1>2. Scrolled(0)
  BY DEF Scrolled, F!IsInjective
<1> QED
  BY <1>1, <1>2 DEF FeedInv

LEMMA HasFirst ==
    ASSUME NEW S \in SUBSET Nat, S # {}
    PROVE  \E i \in S : \A j \in S : i <= j
<1> DEFINE R == OpToRel(<, Nat)
<1>1. IsWellFoundedOn(R, Nat)
  BY NatLessThanWellFounded
<1>2. \A x, y \in Nat : y < x => <<y, x>> \in R
  BY DEF OpToRel
<1> HIDE DEF R
<1>3. PICK i \in S : \A j \in S : ~(<<j, i>> \in R)
  BY <1>1, WFMin
<1>4. \A j \in S : ~(j < i)
  BY <1>2, <1>3
<1> QED
  BY <1>4

(* Of positions, as many as there are: the nth from the end.                    *)
LEMMA NthIs ==
    ASSUME NEW m \in Nat, NEW S \in SUBSET (1..m), NEW n \in 1..Cardinality(S)
    PROVE  \E i \in S : Cardinality({j \in S : j > i}) = n - 1
<1>0. IsFiniteSet(S) /\ Cardinality(S) \in Nat /\ S \subseteq Nat
  <2>1. IsFiniteSet(1..m)
    BY FS_Interval
  <2>2. IsFiniteSet(S)
    BY <2>1, FS_Subset
  <2> QED
    BY <2>2, FS_CardinalityType
<1> DEFINE After(i) == {j \in S : j > i}
           Few == {i \in S : Cardinality(After(i)) >= n - 1}
<1>1. \A i \in S : IsFiniteSet(After(i)) /\ Cardinality(After(i)) \in Nat
  BY <1>0, FS_Subset, FS_CardinalityType
<1>2. \A i \in S : Cardinality(After(i) \cup {i}) = Cardinality(After(i)) + 1
  BY <1>0, <1>1, FS_AddElement
<1>3. S # {}
  BY <1>0, FS_EmptySet
<1>4. Few # {}
  <2>1. PICK i \in S : \A j \in S : i <= j
    BY <1>0, <1>3, HasFirst
  <2>2. After(i) \cup {i} = S
    <3>1. \A j \in S : j = i \/ j > i
      <4>1. \A j \in S : j \in Nat
        BY <1>0
      <4> QED
        BY <2>1, <4>1
    <3> QED
      BY <3>1
  <2>3. Cardinality(After(i)) + 1 = Cardinality(S)
    BY <1>2, <2>2
  <2>4. Cardinality(After(i)) >= n - 1
    <3> HIDE DEF After
    <3> QED
      BY <1>0, <1>1, <2>3
  <2> QED
    BY <2>4
<1>5. PICK i \in Few : \A j \in Few : j <= i
  BY <1>4, HasLatest
<1>6. ASSUME Cardinality(After(i)) # n - 1 PROVE FALSE
  <2>1. Cardinality(After(i)) >= n
    <3>1. Cardinality(After(i)) \in Nat /\ Cardinality(After(i)) >= n - 1
      BY <1>1, <1>5
    <3> HIDE DEF After
    <3> QED
      BY <1>6, <3>1
  <2>2. After(i) # {}
    BY <2>1, FS_EmptySet
  <2>3. PICK k \in After(i) : \A j \in After(i) : k <= j
    BY <1>0, <2>2, HasFirst
  <2>4. After(k) \cup {k} = After(i)
    <3>1. k \in S /\ k > i /\ \A j \in S : j \in Nat
      BY <1>0, <2>3
    <3>2. \A j \in S : j > i <=> j > k \/ j = k
      BY <1>5, <2>3, <3>1
    <3> QED
      BY <3>1, <3>2
  <2>5. Cardinality(After(k)) + 1 = Cardinality(After(i))
    BY <1>2, <2>3, <2>4
  <2>6. Cardinality(After(k)) >= n - 1
    <3>1. Cardinality(After(k)) \in Nat
      BY <1>1, <2>3
    <3> HIDE DEF After
    <3> QED
      BY <2>1, <2>5, <3>1
  <2> QED
    BY <1>0, <1>5, <2>3, <2>6
<1> QED
  BY <1>5, <1>6

(* The ranking names no game twice, however many games there are.              *)
LEMMA Ranking ==
    ASSUME FeedTypes
    PROVE  F!ListActive \in Seq(Games) /\ F!IsInjective(F!ListActive)
<1> DEFINE shown  == {i \in DOMAIN games : F!IsShown(games[i])}
           Nth(n) == CHOOSE i \in shown : F!Cardinality({j \in shown : j > i}) = n - 1
           count  == F!Cardinality(shown)
           upTo   == IF count < FeedMaxItems THEN count ELSE FeedMaxItems
<1>1. \A S : F!Cardinality(S) = Cardinality(S)
  BY DEF F!Cardinality, Cardinality
<1>2. F!ListActive = [n \in 1..upTo |-> games[Nth(n)]]
  BY DEF F!ListActive
<1>3. /\ Len(games) \in Nat /\ shown \in SUBSET (1..Len(games))
      /\ \A i \in 1..Len(games) : games[i] \in Games
      /\ \A i, j \in 1..Len(games) : games[i] = games[j] => i = j
  BY DEF FeedTypes, F!IsInjective
<1>4. count \in Nat
  <2>1. IsFiniteSet(shown)
    BY <1>3, FS_Interval, FS_Subset
  <2> QED
    BY <1>1, <2>1, FS_CardinalityType
<1>5. upTo \in Nat /\ upTo <= count
  BY <1>4, FeedAssumption
<1> HIDE DEF shown
<1>6. ASSUME NEW n \in 1..upTo
      PROVE  Nth(n) \in shown /\ Cardinality({j \in shown : j > Nth(n)}) = n - 1
  <2>1. n \in 1..Cardinality(shown)
    BY <1>1, <1>4, <1>5
  <2>2. \E i \in shown : Cardinality({j \in shown : j > i}) = n - 1
    BY <1>3, <2>1, NthIs
  <2>3. \E i \in shown : F!Cardinality({j \in shown : j > i}) = n - 1
    BY <1>1, <2>2
  <2> QED
    BY <1>1, <2>3
<1> HIDE DEF Nth
<1>7. \A n, k \in 1..upTo : Nth(n) = Nth(k) => n = k
  <2> SUFFICES ASSUME NEW n \in 1..upTo, NEW k \in 1..upTo, Nth(n) = Nth(k) PROVE n = k
    OBVIOUS
  <2>1. n - 1 = k - 1
    BY <1>6
  <2>2. n \in Nat /\ k \in Nat
    BY <1>5
  <2> QED
    BY <2>1, <2>2
<1> HIDE DEF upTo, count
<1>8. F!ListActive \in Seq(Games)
  <2>1. \A n \in 1..upTo : games[Nth(n)] \in Games
    BY <1>3, <1>6
  <2> QED
    BY <1>2, <1>5, <2>1
<1>9. F!IsInjective(F!ListActive)
  <2>1. \A n \in 1..upTo : Nth(n) \in 1..Len(games)
    BY <1>3, <1>6
  <2> QED
    BY <1>2, <1>3, <1>7, <2>1 DEF F!IsInjective
<1> QED
  BY <1>8, <1>9

(* What a page takes from the snapshot found, or from the new ranking.          *)
LEMMA PageIs ==
    ASSUME FeedTypes, NEW offset \in Nat, NEW n \in 1..Limit, NEW seed \in BOOLEAN,
           F!Page(offset, n, seed)
    PROVE  /\ snapshot' \in Seq(Games) /\ F!IsInjective(snapshot')
           /\ seed /\ valid => snapshot' = snapshot
           /\ LET ends == IF offset + n < Len(snapshot') THEN offset + n ELSE Len(snapshot') IN
              /\ cursor' = IF offset + n < Len(snapshot') THEN offset + n ELSE 0
              /\ page' \in Seq(Games)
              /\ offset <= Len(snapshot') =>
                    /\ Len(page') = ends - offset
                    /\ \A k \in 1..Len(page') : page'[k] = snapshot'[offset + k]
<1>1. /\ snapshot' \in Seq(Games) /\ F!IsInjective(snapshot')
      /\ seed /\ valid => snapshot' = snapshot
  BY Ranking DEF F!Page, F!FindValidSnapshot, FeedTypes
<1>2. PICK ends : ends = IF offset + n < Len(snapshot') THEN offset + n ELSE Len(snapshot')
  OBVIOUS
<1>3. /\ page' = SubSeq(snapshot', offset + 1, ends)
      /\ cursor' = IF offset + n < Len(snapshot') THEN offset + n ELSE 0
  BY <1>2 DEF F!Page
<1>4. n \in Nat /\ n > 0
  BY FeedAssumption
<1>5. ends \in Nat /\ ends <= Len(snapshot') /\ Len(snapshot') \in Nat
  BY <1>1, <1>2, <1>4
<1>6. \A i \in (offset + 1)..ends : snapshot'[i] \in Games
  BY <1>1, <1>5
<1>7. /\ page' \in Seq(Games)
      /\ Len(page') = IF offset + 1 <= ends THEN ends - (offset + 1) + 1 ELSE 0
      /\ \A k \in 1..(ends - (offset + 1) + 1) : page'[k] = snapshot'[offset + 1 + k - 1]
  BY <1>3, <1>5, <1>6, SubSeqProperties
<1>8. ASSUME offset <= Len(snapshot')
      PROVE  /\ Len(page') = ends - offset
             /\ \A k \in 1..Len(page') : page'[k] = snapshot'[offset + k]
  <2>1. offset <= ends
    BY <1>2, <1>4, <1>5, <1>8
  <2>2. Len(page') = ends - offset
    BY <1>5, <1>7, <2>1
  <2>3. ASSUME NEW k \in 1..Len(page') PROVE page'[k] = snapshot'[offset + k]
    <3>1. k \in 1..(ends - (offset + 1) + 1) /\ offset + 1 + k - 1 = offset + k
      BY <1>5, <2>1, <2>2
    <3> QED
      BY <1>7, <3>1
  <2> QED
    BY <2>2, <2>3
<1> QED
  BY <1>1, <1>2, <1>3, <1>7, <1>8

LEMMA StudioActs ==
    ASSUME FeedInv, games' \in Seq(Games), F!IsInjective(games'), removed \subseteq removed',
           UNCHANGED <<snapshot, cursor, page, scroll, steady>>
    PROVE  FeedInv'
<1>1. FeedTypes'
  BY DEF FeedInv, FeedTypes, F!IsInjective
<1>2. \A seen \in Nat : Scrolled(seen) => Scrolled(seen)'
  BY DEF Scrolled, F!IsInjective
<1> QED
  BY <1>1, <1>2 DEF FeedInv

LEMMA NewGame ==
    ASSUME FeedInv, NEW g \in Games, g \notin F!ToSet(games), games' = Append(games, g)
    PROVE  games' \in Seq(Games) /\ F!IsInjective(games')
<1>1. /\ games \in Seq(Games) /\ F!IsInjective(games)
      /\ \A i \in 1..Len(games) : games[i] # g
  BY DEF FeedInv, FeedTypes, F!ToSet
<1>2. /\ games' \in Seq(Games) /\ Len(games') = Len(games) + 1 /\ games'[Len(games) + 1] = g
      /\ \A i \in 1..Len(games) : games'[i] = games[i]
  BY <1>1, AppendProperties
<1> QED
  BY <1>1, <1>2 DEF F!IsInjective

LEMMA BeginScrollStep ==
    ASSUME FeedInv, NEW n \in 1..Limit, F!BeginScroll(n)
    PROVE  FeedInv'
<1>1. F!Page(0, n, FALSE) /\ scroll' = << >> /\ UNCHANGED F!gameVars
  BY DEF F!BeginScroll
<1>2. n \in Nat /\ n > 0
  BY FeedAssumption
<1>3. /\ snapshot' \in Seq(Games) /\ F!IsInjective(snapshot') /\ page' \in Seq(Games)
      /\ cursor' = IF n < Len(snapshot') THEN n ELSE 0
      /\ Len(page') = IF n < Len(snapshot') THEN n ELSE Len(snapshot')
      /\ \A k \in 1..Len(page') : page'[k] = snapshot'[k]
  <2>1. FeedTypes /\ 0 \in Nat /\ FALSE \in BOOLEAN
    BY DEF FeedInv
  <2> HIDE DEF FeedInv
  <2>2. /\ snapshot' \in Seq(Games) /\ F!IsInjective(snapshot')
        /\ LET ends == IF 0 + n < Len(snapshot') THEN 0 + n ELSE Len(snapshot') IN
           /\ cursor' = IF 0 + n < Len(snapshot') THEN 0 + n ELSE 0
           /\ page' \in Seq(Games)
           /\ 0 <= Len(snapshot') =>
                 /\ Len(page') = ends - 0
                 /\ \A k \in 1..Len(page') : page'[k] = snapshot'[0 + k]
    BY <1>1, <2>1, PageIs
  <2>3. Len(snapshot') \in Nat /\ Len(page') \in Nat
    BY <2>2
  <2>4. Len(page') = (IF n < Len(snapshot') THEN n ELSE Len(snapshot'))
    BY <1>2, <2>2, <2>3
  <2>5. \A k \in 1..Len(page') : page'[k] = snapshot'[k]
    BY <2>2, <2>3
  <2> QED
    BY <1>2, <2>2, <2>4, <2>5
<1>4. FeedTypes'
  BY <1>1, <1>2, <1>3 DEF FeedInv, FeedTypes, F!IsInjective, F!gameVars
<1>5. Scrolled(0)'
  BY <1>1, <1>2, <1>3 DEF Scrolled, F!IsInjective
<1> QED
  BY <1>4, <1>5 DEF FeedInv

LEMMA GoOnStep ==
    ASSUME FeedInv, NEW n \in 1..Limit, F!GoOn(n)
    PROVE  FeedInv'
<1>1. /\ page = << >> /\ cursor # 0 /\ F!Page(cursor, n, TRUE)
      /\ steady' = (steady /\ valid) /\ UNCHANGED <<scroll, games, removed>>
  BY DEF F!GoOn, F!gameVars
<1>2. n \in Nat /\ n > 0 /\ cursor \in Nat
  BY FeedAssumption DEF FeedInv, FeedTypes
<1>3. PICK offset \in Nat : offset = cursor
  BY <1>2
<1>4. /\ snapshot' \in Seq(Games) /\ F!IsInjective(snapshot') /\ page' \in Seq(Games)
      /\ valid => snapshot' = snapshot
      /\ cursor' = IF offset + n < Len(snapshot') THEN offset + n ELSE 0
      /\ offset <= Len(snapshot') =>
            /\ Len(page') = IF offset + n < Len(snapshot') THEN n ELSE Len(snapshot') - offset
            /\ \A k \in 1..Len(page') : page'[k] = snapshot'[offset + k]
  <2>1. FeedTypes /\ TRUE \in BOOLEAN
    BY DEF FeedInv
  <2>2. F!Page(offset, n, TRUE)
    BY <1>1, <1>3
  <2>3. /\ snapshot' \in Seq(Games) /\ F!IsInjective(snapshot')
        /\ TRUE /\ valid => snapshot' = snapshot
        /\ LET ends == IF offset + n < Len(snapshot') THEN offset + n ELSE Len(snapshot') IN
           /\ cursor' = IF offset + n < Len(snapshot') THEN offset + n ELSE 0
           /\ page' \in Seq(Games)
           /\ offset <= Len(snapshot') =>
                 /\ Len(page') = ends - offset
                 /\ \A k \in 1..Len(page') : page'[k] = snapshot'[offset + k]
    BY <2>1, <2>2, PageIs
  <2>4. Len(snapshot') \in Nat
    BY <2>3
  <2> QED
    BY <1>2, <2>3, <2>4
<1>5. FeedTypes'
  BY <1>1, <1>2, <1>3, <1>4 DEF FeedInv, FeedTypes, F!IsInjective
<1>6. ASSUME steady' PROVE \E seen \in Nat : Scrolled(seen)'
  <2>1. steady /\ snapshot' = snapshot
    BY <1>1, <1>4, <1>6
  <2>2. PICK seen \in Nat : Scrolled(seen)
    BY <2>1 DEF FeedInv
  <2>3. seen = offset /\ offset < Len(snapshot) /\ offset # 0
    <3>1. Len(page) = 0
      BY <1>1
    <3> QED
      BY <1>1, <1>3, <2>2, <3>1 DEF Scrolled
  <2>4. /\ F!IsInjective(scroll)
        /\ \A k \in 1..Len(scroll) : \E i \in 1..seen : scroll[k] = snapshot[i]
        /\ \A i \in 1..seen : snapshot[i] \in removed \/ \E k \in 1..Len(scroll) : scroll[k] = snapshot[i]
    BY <2>2 DEF Scrolled
  <2>5. Len(snapshot) \in Nat
    BY DEF FeedInv, FeedTypes
  <2>6. /\ Len(page') = IF offset + n < Len(snapshot) THEN n ELSE Len(snapshot) - offset
        /\ \A k \in 1..Len(page') : page'[k] = snapshot[offset + k]
    BY <1>4, <2>1, <2>3, <2>5
  <2>7. /\ seen + Len(page') <= Len(snapshot) /\ seen + Len(page') # 0
        /\ cursor' = IF seen + Len(page') < Len(snapshot) THEN seen + Len(page') ELSE 0
    BY <1>2, <1>4, <2>1, <2>3, <2>5, <2>6
  <2>8. Scrolled(seen)'
    BY <1>1, <2>1, <2>3, <2>4, <2>6, <2>7 DEF Scrolled, F!IsInjective
  <2> QED
    BY <2>8
<1> QED
  BY <1>5, <1>6 DEF FeedInv

LEMMA LookUpStep ==
    ASSUME FeedInv, F!LookUp
    PROVE  FeedInv'
<1>1. /\ page # << >> /\ page' = Tail(page)
      /\ scroll' = IF Head(page) \in removed THEN scroll ELSE Append(scroll, Head(page))
      /\ UNCHANGED <<snapshot, cursor, steady, games, removed>>
  BY DEF F!LookUp, F!gameVars
<1>2. page \in Seq(Games) /\ scroll \in Seq(Games)
  BY DEF FeedInv, FeedTypes
<1>3. PICK g : g = Head(page)
  OBVIOUS
<1>4. /\ Len(page) \in Nat /\ Len(page) > 0 /\ g = page[1] /\ g \in Games
      /\ page' \in Seq(Games) /\ Len(page') = Len(page) - 1
      /\ \A k \in 1..Len(page') : page'[k] = page[k + 1]
  BY <1>1, <1>2, <1>3
<1>5. /\ scroll' \in Seq(Games)
      /\ g \in removed => scroll' = scroll
      /\ g \notin removed =>
            /\ Len(scroll') = Len(scroll) + 1 /\ scroll'[Len(scroll) + 1] = g
            /\ \A k \in 1..Len(scroll) : scroll'[k] = scroll[k]
  BY <1>1, <1>2, <1>3, <1>4, AppendProperties
<1>6. FeedTypes'
  BY <1>1, <1>4, <1>5 DEF FeedInv, FeedTypes, F!IsInjective
<1>7. ASSUME NEW seen \in Nat, Scrolled(seen) PROVE Scrolled(seen + 1)'
  <2>1. /\ seen + Len(page) <= Len(snapshot)
        /\ cursor = IF seen + Len(page) < Len(snapshot) THEN seen + Len(page) ELSE 0
        /\ \A k \in 1..Len(page) : page[k] = snapshot[seen + k]
        /\ F!IsInjective(scroll)
        /\ \A k \in 1..Len(scroll) : \E i \in 1..seen : scroll[k] = snapshot[i]
        /\ \A i \in 1..seen : snapshot[i] \in removed \/ \E k \in 1..Len(scroll) : scroll[k] = snapshot[i]
    BY <1>7 DEF Scrolled
  <2>2. seen + 1 + Len(page') = seen + Len(page)
    BY <1>4
  <2>3. g = snapshot[seen + 1] /\ seen + 1 <= Len(snapshot) /\ Len(snapshot) \in Nat
    <3>1. snapshot \in Seq(Games)
      BY DEF FeedInv, FeedTypes
    <3>2. Len(snapshot) \in Nat
      BY <3>1
    <3>3. 1 \in 1..Len(page)
      BY <1>4
    <3>4. page[1] = snapshot[seen + 1]
      BY <2>1, <3>3
    <3> QED
      BY <1>4, <2>1, <3>2, <3>4
  <2>4. \A i \in 1..seen : snapshot[i] # g
    BY <2>3 DEF FeedInv, FeedTypes, F!IsInjective
  <2>5. \A k \in 1..Len(page') : page'[k] = snapshot[seen + 1 + k]
    <3> SUFFICES ASSUME NEW k \in 1..Len(page') PROVE page'[k] = snapshot[seen + 1 + k]
      OBVIOUS
    <3>1. k + 1 \in 1..Len(page) /\ seen + (k + 1) = seen + 1 + k
      BY <1>4
    <3> QED
      BY <1>4, <2>1, <3>1
  <2>6. Len(scroll) \in Nat
    BY <1>2
  <2>7. F!IsInjective(scroll')
    <3>1. CASE g \in removed
      BY <1>5, <2>1, <3>1
    <3>2. CASE g \notin removed
      <4>1. \A k \in 1..Len(scroll) : scroll[k] # g
        BY <2>1, <2>4
      <4>2. DOMAIN scroll' = 1..Len(scroll) + 1 /\ DOMAIN scroll = 1..Len(scroll)
        BY <1>2, <1>5, <3>2
      <4> SUFFICES ASSUME NEW k \in 1..(Len(scroll) + 1), NEW i \in 1..(Len(scroll) + 1),
                          scroll'[k] = scroll'[i]
                   PROVE  k = i
        BY <4>2 DEF F!IsInjective
      <4>3. /\ k \in 1..Len(scroll) \/ k = Len(scroll) + 1
            /\ i \in 1..Len(scroll) \/ i = Len(scroll) + 1
        BY <2>6
      <4>4. \A p, o \in 1..Len(scroll) : scroll[p] = scroll[o] => p = o
        BY <2>1, <4>2 DEF F!IsInjective
      <4> QED
        BY <1>5, <3>2, <4>1, <4>3, <4>4
    <3> QED
      BY <3>1, <3>2
  <2>8. \A k \in 1..Len(scroll') : \E i \in 1..(seen + 1) : scroll'[k] = snapshot[i]
    <3>1. CASE g \in removed
      BY <1>5, <2>1, <3>1
    <3>2. CASE g \notin removed
      <4> SUFFICES ASSUME NEW k \in 1..Len(scroll')
                   PROVE  \E i \in 1..(seen + 1) : scroll'[k] = snapshot[i]
        OBVIOUS
      <4>1. k \in 1..Len(scroll) \/ k = Len(scroll) + 1
        BY <1>5, <2>6, <3>2
      <4> QED
        BY <1>5, <2>1, <2>3, <3>2, <4>1
    <3> QED
      BY <3>1, <3>2
  <2>9. \A i \in 1..(seen + 1) :
            snapshot[i] \in removed \/ \E k \in 1..Len(scroll') : scroll'[k] = snapshot[i]
    <3> SUFFICES ASSUME NEW i \in 1..(seen + 1), snapshot[i] \notin removed
                 PROVE  \E k \in 1..Len(scroll') : scroll'[k] = snapshot[i]
      OBVIOUS
    <3>1. i \in 1..seen \/ i = seen + 1
      OBVIOUS
    <3>2. CASE i = seen + 1
      <4>1. Len(scroll') \in Nat /\ Len(scroll') = Len(scroll) + 1
        BY <1>5, <2>3, <2>6, <3>2
      <4> QED
        BY <1>5, <2>3, <2>6, <3>2, <4>1
    <3>3. CASE i \in 1..seen
      <4>1. PICK k \in 1..Len(scroll) : scroll[k] = snapshot[i]
        BY <2>1, <3>3
      <4>2. k \in 1..Len(scroll') /\ scroll'[k] = scroll[k]
        BY <1>5, <2>6
      <4> QED
        BY <4>1, <4>2
    <3> QED
      BY <3>1, <3>2, <3>3
  <2>10. seen + 1 + Len(page') # 0
    BY <1>4, <2>2
  <2>11. F!IsInjective(scroll)'
    BY <2>7 DEF F!IsInjective
  <2>12. /\ snapshot' = snapshot /\ removed' = removed
         /\ cursor' = IF seen + 1 + Len(page') < Len(snapshot) THEN seen + 1 + Len(page') ELSE 0
         /\ seen + 1 + Len(page') <= Len(snapshot)
    BY <1>1, <2>1, <2>2
  <2> QED
    BY <2>5, <2>8, <2>9, <2>10, <2>11, <2>12 DEF Scrolled
<1>8. \A seen \in Nat : seen + 1 \in Nat
  OBVIOUS
<1> QED
  BY <1>1, <1>6, <1>7, <1>8 DEF FeedInv

LEMMA FeedNext == FeedInv /\ (F!Next \/ UNCHANGED F!vars) => FeedInv'
<1> SUFFICES ASSUME FeedInv, F!Next \/ UNCHANGED F!vars PROVE FeedInv'
  OBVIOUS
<1>1. games \in Seq(Games) /\ F!IsInjective(games)
  BY DEF FeedInv, FeedTypes
<1>2. ASSUME NEW g \in Games, NEW s \in Statuses, F!Create(g, s) PROVE FeedInv'
  BY <1>2, NewGame, StudioActs DEF F!Create, F!feedVars
<1>3. ASSUME NEW g \in Games, NEW s \in Statuses, F!Update(g, s) PROVE FeedInv'
  BY <1>1, <1>3, StudioActs DEF F!Update, F!feedVars
<1>4. ASSUME NEW g \in Games, F!RemoveGame(g) PROVE FeedInv'
  BY <1>1, <1>4, StudioActs DEF F!RemoveGame, F!feedVars
<1>5. CASE F!SnapshotExpires
  BY <1>1, <1>5, StudioActs DEF F!SnapshotExpires, F!gameVars
<1>6. CASE UNCHANGED F!vars
  <2>1. UNCHANGED <<games, removed, snapshot, cursor, page, scroll, steady>>
    BY <1>6 DEF F!vars
  <2> QED
    BY <1>1, <2>1, StudioActs
<1>7. CASE F!Next
  BY <1>2, <1>3, <1>4, <1>5, <1>7, BeginScrollStep, GoOnStep, LookUpStep DEF F!Next
<1> QED
  BY <1>6, <1>7

(* The inductive invariant holds, of any number of games and for pages of any     *)
(* lengths: a page that is being looked up is a stretch of the snapshot.        *)
THEOREM FeedInvAlways == F!Spec => []FeedInv
BY FeedInit, FeedNext, PTL DEF F!Spec

LEMMA ScrolledOnce ==
    ASSUME FeedInv, NEW seen \in Nat, Scrolled(seen)
    PROVE  /\ F!IsInjective(scroll \o page)
           /\ cursor = 0 /\ page = << >> => F!ToSet(snapshot) \ removed \subseteq F!ToSet(scroll)
<1>1. /\ Len(scroll) \in Nat /\ Len(page) \in Nat /\ Len(snapshot) \in Nat
      /\ scroll \in Seq(Games) /\ page \in Seq(Games)
      /\ DOMAIN scroll = 1..Len(scroll) /\ DOMAIN snapshot = 1..Len(snapshot)
      /\ \A i, j \in 1..Len(snapshot) : snapshot[i] = snapshot[j] => i = j
  BY DEF FeedInv, FeedTypes, F!IsInjective
<1>2. /\ seen + Len(page) <= Len(snapshot) /\ (seen + Len(page) = 0 => Len(snapshot) = 0)
      /\ cursor = IF seen + Len(page) < Len(snapshot) THEN seen + Len(page) ELSE 0
      /\ \A k \in 1..Len(page) : page[k] = snapshot[seen + k]
      /\ \A k, i \in 1..Len(scroll) : scroll[k] = scroll[i] => k = i
      /\ \A k \in 1..Len(scroll) : \E i \in 1..seen : scroll[k] = snapshot[i]
      /\ \A i \in 1..seen : snapshot[i] \in removed \/ \E k \in 1..Len(scroll) : scroll[k] = snapshot[i]
  BY <1>1 DEF Scrolled, F!IsInjective
<1>3. F!IsInjective(scroll \o page)
  <2>1. PICK s : s = scroll \o page
    OBVIOUS
  <2>2. /\ DOMAIN s = 1..(Len(scroll) + Len(page))
        /\ \A k \in 1..Len(scroll) : s[k] = scroll[k]
        /\ \A k \in 1..Len(page) : s[Len(scroll) + k] = page[k]
    <3>1. /\ s \in Seq(Games) /\ Len(s) = Len(scroll) + Len(page)
          /\ \A k \in 1..(Len(scroll) + Len(page)) :
                s[k] = IF k <= Len(scroll) THEN scroll[k] ELSE page[k - Len(scroll)]
      BY <1>1, <2>1, ConcatProperties
    <3>2. \A k \in 1..Len(scroll) : k \in 1..(Len(scroll) + Len(page)) /\ k <= Len(scroll)
      BY <1>1
    <3>3. \A k \in 1..Len(page) :
             /\ Len(scroll) + k \in 1..(Len(scroll) + Len(page))
             /\ ~(Len(scroll) + k <= Len(scroll)) /\ Len(scroll) + k - Len(scroll) = k
      BY <1>1
    <3>4. \A k \in 1..Len(scroll) : s[k] = scroll[k]
      BY <3>1, <3>2
    <3>5. \A k \in 1..Len(page) : s[Len(scroll) + k] = page[k]
      BY <3>1, <3>3
    <3> QED
      BY <3>1, <3>4, <3>5
  <2>3. \A k \in 1..(Len(scroll) + Len(page)) :
            \/ k \in 1..Len(scroll)
            \/ \E p \in 1..Len(page) : k = Len(scroll) + p
    <3> SUFFICES ASSUME NEW k \in 1..(Len(scroll) + Len(page)), k > Len(scroll)
                 PROVE  \E p \in 1..Len(page) : k = Len(scroll) + p
      BY <1>1
    <3>1. k - Len(scroll) \in 1..Len(page) /\ k = Len(scroll) + (k - Len(scroll))
      BY <1>1
    <3> QED
      BY <3>1
  <2>4. \A k \in 1..Len(scroll), p \in 1..Len(page) : scroll[k] # page[p]
    <3> SUFFICES ASSUME NEW k \in 1..Len(scroll), NEW p \in 1..Len(page), scroll[k] = page[p]
                 PROVE  FALSE
      OBVIOUS
    <3>1. PICK i \in 1..seen : scroll[k] = snapshot[i]
      BY <1>2
    <3>2. page[p] = snapshot[seen + p]
      BY <1>2
    <3>3. i \in 1..Len(snapshot) /\ seen + p \in 1..Len(snapshot) /\ i # seen + p
      BY <1>1, <1>2
    <3> QED
      BY <1>1, <3>1, <3>2, <3>3
  <2>5. \A o, p \in 1..Len(page) : page[o] = page[p] => o = p
    <3> SUFFICES ASSUME NEW o \in 1..Len(page), NEW p \in 1..Len(page), page[o] = page[p]
                 PROVE  o = p
      OBVIOUS
    <3>1. seen + o \in 1..Len(snapshot) /\ seen + p \in 1..Len(snapshot)
      BY <1>1, <1>2
    <3>2. snapshot[seen + o] = snapshot[seen + p]
      BY <1>2
    <3>3. seen + o = seen + p
      BY <1>1, <3>1, <3>2
    <3> QED
      BY <3>3
  <2> SUFFICES ASSUME NEW k \in DOMAIN s, NEW i \in DOMAIN s, s[k] = s[i] PROVE k = i
    BY <2>1 DEF F!IsInjective
  <2>6. CASE k \in 1..Len(scroll) /\ i \in 1..Len(scroll)
    BY <1>2, <2>2, <2>6
  <2>7. CASE k \in 1..Len(scroll) /\ i \notin 1..Len(scroll)
    BY <2>2, <2>3, <2>4, <2>7
  <2>8. CASE k \notin 1..Len(scroll) /\ i \in 1..Len(scroll)
    BY <2>2, <2>3, <2>4, <2>8
  <2>9. CASE k \notin 1..Len(scroll) /\ i \notin 1..Len(scroll)
    <3>1. PICK o \in 1..Len(page), p \in 1..Len(page) : k = Len(scroll) + o /\ i = Len(scroll) + p
      BY <2>2, <2>3, <2>9
    <3>2. s[k] = page[o] /\ s[i] = page[p]
      BY <2>2, <3>1
    <3>3. o = p
      BY <2>5, <3>2
    <3> QED
      BY <3>1, <3>3
  <2> QED
    BY <2>6, <2>7, <2>8, <2>9
<1>4. ASSUME cursor = 0, page = << >> PROVE F!ToSet(snapshot) \ removed \subseteq F!ToSet(scroll)
  <2>1. Len(page) = 0
    BY <1>4
  <2>2. seen = Len(snapshot)
    <3>1. seen + Len(page) = seen
      BY <2>1
    <3>2. /\ seen <= Len(snapshot) /\ (seen = 0 => Len(snapshot) = 0)
      BY <1>2, <3>1
    <3>3. seen < Len(snapshot) => seen = 0
      BY <1>2, <1>4, <3>1
    <3>4. Len(snapshot) \in Nat
      BY <1>1
    <3>5. CASE seen < Len(snapshot)
      BY <3>2, <3>3, <3>4, <3>5
    <3>6. CASE ~(seen < Len(snapshot))
      BY <3>2, <3>4, <3>6
    <3> QED
      BY <3>5, <3>6
  <2>3. \A i \in 1..Len(snapshot) :
            snapshot[i] \in removed \/ \E k \in 1..Len(scroll) : scroll[k] = snapshot[i]
    BY <1>2, <2>2
  <2> QED
    BY <1>1, <2>3 DEF F!ToSet
<1> QED
  BY <1>3, <1>4

(* A scroll whose seed does not lapse shows no game twice, and at its end has      *)
(* shown all of the snapshot that was not removed: for any ranking, whatever     *)
(* studios do meanwhile and however long each page is.                          *)
THEOREM ScrollsShowEachOnce == F!Spec => []FeedShowsEachOnce
<1>1. FeedInv => FeedShowsEachOnce
  BY ScrolledOnce DEF FeedInv, FeedShowsEachOnce, F!FeedShowsEachOnce
<1> QED
  BY <1>1, FeedInvAlways, PTL
=============================================================================
