----------------------------- MODULE Credentials -----------------------------
(***************************************************************************)
(* Sign-in sessions and password recovery.  A sign-in opens a family of     *)
(* refresh tokens; each refresh revokes the token presented and inserts its *)
(* successor in one transaction; a revoked token that is presented again    *)
(* revokes the family, as does a logout.  A reset link changes the          *)
(* password, accepts pending invitations and revokes the user's tokens in   *)
(* one transaction.                                                         *)
(* Under READ COMMITTED an UPDATE over several rows takes those its snapshot *)
(* shows, waits for whoever holds one, and skips it if it no longer matches. *)
(* So an uncommitted rotation is a state of its request, which holds the row *)
(* it rotates.  Expired tokens and links are refused like a request not made. *)
(***************************************************************************)
EXTENDS Integers, FiniteSets

CONSTANTS
    Users, Passwords, Requests,
    Families, Tokens, Links,   \* ids of token families, refresh tokens, reset tokens
    UserOf, FamilyOf, LinkFor, \* their owners
    FirstPassword              \* chosen at signup

ASSUME OwnersAssumption ==
    /\ UserOf \in [Families -> Users]
    /\ FamilyOf \in [Tokens -> Families]
    /\ LinkFor \in [Links -> Users]
    /\ FirstPassword \in Passwords

VARIABLES
    password,   \* users.password_hash, by the password it verifies
    member,     \* the user's membership in the organisation of the tokens; "none": no user row
    token,      \* refresh_tokens rows: live until revoked_at
    link,       \* password_reset_tokens rows: open until used_at
    req         \* requests in flight

vars == <<password, member, token, link, req>>

Owner(t)     == UserOf[FamilyOf[t]]
InFamily(f)  == {t \in Tokens : FamilyOf[t] = f}
Live(set)    == {t \in set : token[t] = "live"}
TokensOf(u)  == {t \in Tokens : Owner(t) = u}
Statuses     == {"none", "invited", "active", "disabled", "removed"}
Idle         == [at |-> "idle"]

RequestState ==
    {Idle}
    \cup [at : {"verified", "issue", "mail"}, user : Users]
    \cup [at : {"presented", "rotate", "rotating"}, tok : Tokens]
    \cup [at : {"revoke"}, fam : Families]
    \cup [at : {"revoking"}, fam : Families, left : SUBSET Tokens]
    \cup [at : {"voiding"}, user : Users, left : SUBSET Links]
    \cup [at : {"claimed"}, link : Links, pw : Passwords]
    \cup [at : {"ending"}, link : Links, pw : Passwords, left : SUBSET Tokens]

TypeOK ==
    /\ password \in [Users -> Passwords]
    /\ member \in [Users -> Statuses]
    /\ token \in [Tokens -> {"absent", "live", "revoked"}]
    /\ link \in [Links -> {"absent", "open", "used"}]
    /\ req \in [Requests -> RequestState]

Init ==
    /\ password = [u \in Users |-> FirstPassword]
    /\ member \in [Users -> {"none", "invited"}]
    /\ token = [t \in Tokens |-> "absent"]
    /\ link = [k \in Links |-> "absent"]
    /\ req = [r \in Requests |-> Idle]

(* Rows written by a transaction that has not committed. *)
TokenHeld(t) == \E r \in Requests : req[r].at = "rotating" /\ req[r].tok = t
LinkHeld(k)  == \E r \in Requests : req[r].at \in {"claimed", "ending"} /\ req[r].link = k
UserHeld(u)  == \E r \in Requests : req[r].at = "ending" /\ LinkFor[req[r].link] = u

Goes(r, state) == req' = [req EXCEPT ![r] = state]

-----------------------------------------------------------------------------
(* signupStudio, signupPlayer: user, organisation and an active membership in *)
(* one transaction, which the unique e-mail lets one request do; then a       *)
(* session, as after a login.                                                *)
SignUp(r, u) ==
    /\ req[r] = Idle
    /\ member[u] = "none"
    /\ member' = [member EXCEPT ![u] = "active"]
    /\ Goes(r, [at |-> "issue", user |-> u])
    /\ UNCHANGED <<password, token, link>>

(* login: the right password, then an active membership, then the first token *)
(* of a new family.                                                          *)
LoginVerifies(r, u) ==
    /\ req[r] = Idle
    /\ member[u] # "none"
    /\ Goes(r, [at |-> "verified", user |-> u])
    /\ UNCHANGED <<password, member, token, link>>

MayEnterInvited(u) == member[u] \in {"active", "invited"}    \* mutant: an invitation is enough

MayEnter(u) == member[u] = "active"

LoginFindsMember(r) ==
    /\ req[r].at = "verified"
    /\ MayEnter(req[r].user)
    /\ Goes(r, [req[r] EXCEPT !.at = "issue"])
    /\ UNCHANGED <<password, member, token, link>>

IssueSession(r, t) ==
    /\ req[r].at = "issue"
    /\ Owner(t) = req[r].user
    /\ \A s \in InFamily(FamilyOf[t]) : token[s] = "absent"
    /\ token' = [token EXCEPT ![t] = "live"]
    /\ Goes(r, Idle)
    /\ UNCHANGED <<password, member, link>>

-----------------------------------------------------------------------------
(* refresh: a revoked token revokes its family, a live one is rotated if its  *)
(* owner is still an active member.                                          *)
Refresh(r, t) ==
    /\ req[r] = Idle
    /\ token[t] # "absent"
    /\ Goes(r, IF token[t] = "live" THEN [at |-> "presented", tok |-> t]
                                    ELSE [at |-> "revoke", fam |-> FamilyOf[t]])
    /\ UNCHANGED <<password, member, token, link>>

RefreshFindsMember(r) ==
    /\ req[r].at = "presented"
    /\ MayEnter(Owner(req[r].tok))
    /\ Goes(r, [req[r] EXCEPT !.at = "rotate"])
    /\ UNCHANGED <<password, member, token, link>>

(* rotateRefreshToken: UPDATE ... WHERE id AND revoked_at IS NULL holds the   *)
(* row, or finds it revoked, which counts as a token presented again.        *)
UnrevokedOrNot(t) == token[t] # "absent"    \* mutant: no revoked_at IS NULL

Unrevoked(t) == token[t] = "live"

RotateClaims(r) ==
    /\ req[r].at = "rotate"
    /\ ~TokenHeld(req[r].tok)
    /\ Goes(r, IF Unrevoked(req[r].tok) THEN [req[r] EXCEPT !.at = "rotating"]
                                        ELSE [at |-> "revoke", fam |-> FamilyOf[req[r].tok]])
    /\ UNCHANGED <<password, member, token, link>>

RotateCommits(r, next) ==
    /\ req[r].at = "rotating"
    /\ FamilyOf[next] = FamilyOf[req[r].tok]
    /\ token[next] = "absent"
    /\ token' = [token EXCEPT ![req[r].tok] = "revoked", ![next] = "live"]
    /\ Goes(r, Idle)
    /\ UNCHANGED <<password, member, link>>

-----------------------------------------------------------------------------
(* logout presents a token and revokes its family.                           *)
Logout(r, t) ==
    /\ req[r] = Idle
    /\ token[t] # "absent"
    /\ Goes(r, [at |-> "revoke", fam |-> FamilyOf[t]])
    /\ UNCHANGED <<password, member, token, link>>

(* revokeFamily: its snapshot, then its writes. *)
RevokeSees(r) ==
    /\ req[r].at = "revoke"
    /\ Goes(r, [at |-> "revoking", fam |-> req[r].fam, left |-> Live(InFamily(req[r].fam))])
    /\ UNCHANGED <<password, member, token, link>>

Revoked(set) == [t \in Tokens |-> IF t \in set THEN "revoked" ELSE token[t]]

RevokeFamily(r) ==
    /\ req[r].at = "revoking"
    /\ \A t \in req[r].left : ~TokenHeld(t)
    /\ token' = Revoked(req[r].left)
    /\ Goes(r, Idle)
    /\ UNCHANGED <<password, member, link>>

-----------------------------------------------------------------------------
(* forgotPassword and triggerPasswordReset: the open links are voided, then a *)
(* new one inserted and mailed.                                              *)
ForgotPassword(r, u) ==
    /\ req[r] = Idle
    /\ member[u] # "none"
    /\ Goes(r, [at |-> "voiding", user |-> u,
                left |-> {k \in Links : LinkFor[k] = u /\ link[k] = "open"}])
    /\ UNCHANGED <<password, member, token, link>>

InvalidateUnused(r) ==
    /\ req[r].at = "voiding"
    /\ \A k \in req[r].left : ~LinkHeld(k)
    /\ link' = [k \in Links |-> IF k \in req[r].left THEN "used" ELSE link[k]]
    /\ Goes(r, [at |-> "mail", user |-> req[r].user])
    /\ UNCHANGED <<password, member, token>>

InsertLink(r, k) ==
    /\ req[r].at = "mail"
    /\ LinkFor[k] = req[r].user
    /\ link[k] = "absent"
    /\ link' = [link EXCEPT ![k] = "open"]
    /\ Goes(r, Idle)
    /\ UNCHANGED <<password, member, token>>

(* applyPasswordReset: the link is consumed if it is still open, ... *)
UsableTwice(k) == link[k] # "absent"    \* mutant: no used_at IS NULL

Usable(k) == link[k] = "open"

ResetClaims(r, k, pw) ==
    /\ req[r] = Idle
    /\ ~LinkHeld(k)
    /\ Usable(k)
    /\ Goes(r, [at |-> "claimed", link |-> k, pw |-> pw])
    /\ UNCHANGED <<password, member, token, link>>

(* ... the user's row is written, which waits for another reset of the same   *)
(* user, the invitations are accepted, the UPDATE of the tokens begins, ...  *)
ResetSeesTokens(r) ==
    /\ req[r].at = "claimed"
    /\ ~UserHeld(LinkFor[req[r].link])
    /\ Goes(r, [at |-> "ending", link |-> req[r].link, pw |-> req[r].pw,
                left |-> Live(TokensOf(LinkFor[req[r].link]))])
    /\ UNCHANGED <<password, member, token, link>>

(* ... gets every token it saw, and all of it commits.                       *)
ResetCommits(r) ==
    /\ req[r].at = "ending"
    /\ \A t \in req[r].left : ~TokenHeld(t)
    /\ token' = Revoked(req[r].left)
    /\ LET u == LinkFor[req[r].link] IN
       /\ password' = [password EXCEPT ![u] = req[r].pw]
       /\ member' = [member EXCEPT ![u] = IF @ = "invited" THEN "active" ELSE @]
    /\ link' = [link EXCEPT ![req[r].link] = "used"]
    /\ Goes(r, Idle)

-----------------------------------------------------------------------------
(* changeMemberStatus and removeMember of the orgs module. *)
MemberChanges(u, to) ==
    /\ member[u] \in {"active", "disabled"} \/ (member[u] = "invited" /\ to = "removed")
    /\ member' = [member EXCEPT ![u] = to]
    /\ UNCHANGED <<password, token, link, req>>

(* A 4xx, an exception or the death of the API process: what has not committed *)
(* is rolled back.                                                           *)
RequestEnds(r) ==
    /\ req[r] # Idle
    /\ Goes(r, Idle)
    /\ UNCHANGED <<password, member, token, link>>

RequestSteps(r) ==
    \/ \E u \in Users : LoginVerifies(r, u) \/ ForgotPassword(r, u)
    \/ \E t \in Tokens : Refresh(r, t) \/ Logout(r, t) \/ IssueSession(r, t) \/ RotateCommits(r, t)
    \/ \E k \in Links, pw \in Passwords : ResetClaims(r, k, pw)
    \/ \E k \in Links : InsertLink(r, k)
    \/ LoginFindsMember(r) \/ RefreshFindsMember(r) \/ RotateClaims(r)
    \/ RevokeSees(r) \/ RevokeFamily(r)
    \/ InvalidateUnused(r) \/ ResetSeesTokens(r) \/ ResetCommits(r)
    \/ RequestEnds(r)

Next ==
    \/ \E r \in Requests : RequestSteps(r)
    \/ \E r \in Requests, u \in Users : SignUp(r, u)
    \/ \E u \in Users, to \in {"active", "disabled", "removed"} : MemberChanges(u, to)

Spec == Init /\ [][Next]_vars

-----------------------------------------------------------------------------
(* Properties.                                                               *)

(* Two refreshes that race with the same token mint one successor: a sign-in  *)
(* never has two tokens that work.                                           *)
OneLivePerFamily ==
    \A s, t \in Tokens :
        FamilyOf[s] = FamilyOf[t] /\ token[s] = "live" /\ token[t] = "live" => s = t

(* A sign-in that has ended, by a logout, a reset or a reuse, is not brought  *)
(* back by a refresh that read its token while it was live.                  *)
Ended(f) == (\E t \in InFamily(f) : token[t] # "absent") /\ Live(InFamily(f)) = {}
EndedStays == [][\A f \in Families : Ended(f) => Ended(f)']_vars

(* A link changes a password at most once, also when it is submitted twice at *)
(* a time or voided by a later request while it is being used.               *)
LinkWorksOnce ==
    [][\A u \in Users : password'[u] # password[u] =>
          \E k \in Links : LinkFor[k] = u /\ link[k] = "open" /\ link'[k] = "used"]_vars

(* Who has not accepted the invitation has no session in the organisation,    *)
(* though signing in, accepting and refreshing read the membership apart.    *)
InvitedStaysOut ==
    \A t \in Tokens : member[Owner(t)] = "invited" => token[t] = "absent"

(* What makes these inductive: a rotation that holds its token finds it live  *)
(* when it commits, a reset its link open, each is alone with it, and what a  *)
(* request read of rows and of the membership cannot have been undone.       *)
TokenReads ==
    /\ \A r \in Requests :
          /\ req[r].at = "rotating" => token[req[r].tok] = "live"
          /\ req[r].at \in {"presented", "rotate"} => token[req[r].tok] # "absent"
          /\ req[r].at \in {"revoking", "ending"} => \A t \in req[r].left : token[t] # "absent"
          /\ req[r].at = "issue" => member[req[r].user] # "invited"
    /\ \A q, r \in Requests :
          req[q].at = "rotating" /\ req[r].at = "rotating" /\ req[q].tok = req[r].tok => q = r

LinkReads ==
    /\ \A r \in Requests : req[r].at \in {"claimed", "ending"} => link[req[r].link] = "open"
    /\ \A q, r \in Requests :
          /\ req[q].at \in {"claimed", "ending"} /\ req[r].at \in {"claimed", "ending"}
          /\ req[q].link = req[r].link
          => q = r
=============================================================================
