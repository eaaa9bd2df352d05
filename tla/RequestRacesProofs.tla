-------------------------- MODULE RequestRacesProofs --------------------------
(* Proofs about the rows and counters that requests race for.                  *)
(*   Credentials, for any number of users, sign-ins, tokens, links and requests:*)
(* the rows a rotation or a reset holds are as it left them (TokenReads,       *)
(* LinkReads), from which a sign-in has one working token, an ended one stays  *)
(* ended and a link works once.                                                *)
(*   RateLimit, for any number of attempts: a counter does not stay for ever.  *)
(*   Chat, for any messages, sockets and handlers: a round that nothing disturbed*)
(* tells what is stored, and who has not shown it yet is still to be told      *)
(* (ChatInv).                                                                  *)
EXTENDS RequestRaces, TLAPS

(* The inductive invariant. *)
HoldInv == TypeOK /\ TokenReads /\ LinkReads /\ OneLivePerFamily /\ InvitedStaysOut

(* It holds before anyone signs in. *)
LEMMA HoldInit == Init => HoldInv
<1> SUFFICES ASSUME Init PROVE HoldInv
  OBVIOUS
<1> USE OwnersAssumption DEF Init, Idle
<1>1. TypeOK
  BY DEF TypeOK, RequestState, Statuses
<1>2. TokenReads /\ LinkReads /\ OneLivePerFamily /\ InvitedStaysOut
  BY DEF TokenReads, LinkReads, OneLivePerFamily, InvitedStaysOut
<1> QED
  BY <1>1, <1>2 DEF HoldInv

(* The steps that only move the request along. *)
Reads(r) ==
    \/ \E u \in Users : LoginVerifies(r, u) \/ ForgotPassword(r, u)
    \/ \E t \in Tokens : Refresh(r, t) \/ Logout(r, t)
    \/ \E k \in Links, pw \in Passwords : ResetClaims(r, k, pw)
    \/ LoginFindsMember(r) \/ RefreshFindsMember(r) \/ RotateClaims(r)
    \/ RevokeSees(r) \/ ResetSeesTokens(r) \/ RequestEnds(r)

(* The steps that write. *)
Writes(r) ==
    \/ \E t \in Tokens : IssueSession(r, t) \/ RotateCommits(r, t)
    \/ \E k \in Links : InsertLink(r, k)
    \/ RevokeFamily(r) \/ InvalidateUnused(r) \/ ResetCommits(r)

LEMMA ReadOrWrite ==
    ASSUME NEW r \in Requests, RequestSteps(r)
    PROVE  Reads(r) \/ Writes(r)
BY DEF RequestSteps, Reads, Writes

(* A step that reads changes one request and nothing else. *)
LEMMA ReadChanges ==
    ASSUME TypeOK, NEW r \in Requests, Reads(r)
    PROVE  /\ UNCHANGED <<password, member, token, link>>
           /\ req'[r] \in RequestState
           /\ req' = [req EXCEPT ![r] = req'[r]]
<1> USE OwnersAssumption
    DEF TypeOK, RequestState, Goes, Idle, Live, InFamily, TokensOf
<1>1. ASSUME NEW u \in Users, LoginVerifies(r, u) \/ ForgotPassword(r, u)
      PROVE  req'[r] \in RequestState /\ req' = [req EXCEPT ![r] = req'[r]]
  BY <1>1 DEF LoginVerifies, ForgotPassword
<1>2. ASSUME NEW t \in Tokens, Refresh(r, t) \/ Logout(r, t)
      PROVE  req'[r] \in RequestState /\ req' = [req EXCEPT ![r] = req'[r]]
  BY <1>2 DEF Refresh, Logout
<1>3. ASSUME NEW k \in Links, NEW pw \in Passwords, ResetClaims(r, k, pw)
      PROVE  req'[r] \in RequestState /\ req' = [req EXCEPT ![r] = req'[r]]
  BY <1>3 DEF ResetClaims
<1>4. CASE LoginFindsMember(r) \/ RefreshFindsMember(r) \/ RotateClaims(r)
  BY <1>4 DEF LoginFindsMember, RefreshFindsMember, RotateClaims
<1>5. CASE RevokeSees(r) \/ ResetSeesTokens(r) \/ RequestEnds(r)
  BY <1>5 DEF RevokeSees, ResetSeesTokens, RequestEnds
<1>6. UNCHANGED <<password, member, token, link>>
  BY DEF Reads, LoginVerifies, ForgotPassword, Refresh, Logout, ResetClaims, LoginFindsMember,
         RefreshFindsMember, RotateClaims, RevokeSees, ResetSeesTokens, RequestEnds
<1> QED
  BY <1>1, <1>2, <1>3, <1>4, <1>5, <1>6 DEF Reads

(* A step that writes ends the request, or goes on to the mail of a link. *)
LEMMA WriteChanges ==
    ASSUME TypeOK, NEW r \in Requests, Writes(r)
    PROVE  /\ req'[r] = Idle \/ (req'[r].at = "mail" /\ req'[r] \in RequestState)
           /\ req' = [req EXCEPT ![r] = req'[r]]
<1> USE DEF TypeOK, Goes
<1>1. CASE InvalidateUnused(r)
  BY <1>1 DEF InvalidateUnused, RequestState, Idle
<1>2. CASE ~InvalidateUnused(r)
  BY <1>2 DEF Writes, IssueSession, RotateCommits, InsertLink, RevokeFamily, ResetCommits
<1> QED
  BY <1>1, <1>2

(* Every step keeps the types. *)
LEMMA TypeStep == TypeOK /\ [Next]_vars => TypeOK'
<1> SUFFICES ASSUME TypeOK, [Next]_vars PROVE TypeOK'
  OBVIOUS
<1>1. ASSUME NEW r \in Requests, Reads(r) PROVE TypeOK'
  BY <1>1, ReadChanges DEF TypeOK
<1>2. ASSUME NEW r \in Requests, Writes(r) PROVE TypeOK'
  <2>1. req' \in [Requests -> RequestState]
    BY <1>2, WriteChanges DEF TypeOK, RequestState
  <2>2. /\ password' \in [Users -> Passwords] /\ member' \in [Users -> Statuses]
        /\ token' \in [Tokens -> {"absent", "live", "revoked"}]
        /\ link' \in [Links -> {"absent", "open", "used"}]
    <3> USE OwnersAssumption DEF TypeOK, RequestState, Idle, Statuses
    <3>1. CASE ResetCommits(r)
      <4>1. req[r].link \in Links /\ req[r].pw \in Passwords
        BY <3>1 DEF ResetCommits
      <4> QED
        BY <3>1, <4>1 DEF ResetCommits, Revoked
    <3>2. CASE ~ResetCommits(r)
      BY <1>2, <3>2 DEF Writes, IssueSession, RotateCommits, InsertLink, RevokeFamily,
                        InvalidateUnused, Revoked
    <3> QED
      BY <3>1, <3>2
  <2> QED
    BY <2>1, <2>2 DEF TypeOK
<1>3. ASSUME NEW u \in Users, NEW to \in {"active", "disabled", "removed"}, MemberChanges(u, to)
      PROVE  TypeOK'
  BY <1>3 DEF MemberChanges, TypeOK, Statuses
<1>4. CASE UNCHANGED vars
  BY <1>4 DEF vars, TypeOK
<1>5. ASSUME NEW r \in Requests, NEW u \in Users, SignUp(r, u) PROVE TypeOK'
  BY <1>5 DEF SignUp, Goes, TypeOK, RequestState, Statuses
<1> QED
  BY <1>1, <1>2, <1>3, <1>4, <1>5, ReadOrWrite DEF Next

(* What a request read is so at that moment, and what it took was free. *)
LEMMA ReadFinds ==
    ASSUME HoldInv, NEW r \in Requests, Reads(r)
    PROVE  LET now == req'[r] IN
           /\ now.at = "rotating" => token[now.tok] = "live" /\ ~TokenHeld(now.tok)
           /\ now.at \in {"presented", "rotate"} => token[now.tok] # "absent"
           /\ now.at \in {"revoking", "ending"} => \A t \in now.left : token[t] # "absent"
           /\ now.at = "issue" => member[now.user] # "invited"
           /\ now.at = "claimed" => link[now.link] = "open" /\ ~LinkHeld(now.link)
           /\ now.at = "ending" => req[r].at = "claimed" /\ now.link = req[r].link
<1> DEFINE now == req'[r]
           Found == /\ now.at = "rotating" => token[now.tok] = "live" /\ ~TokenHeld(now.tok)
                    /\ now.at \in {"presented", "rotate"} => token[now.tok] # "absent"
                    /\ now.at \in {"revoking", "ending"} =>
                          \A t \in now.left : token[t] # "absent"
                    /\ now.at = "issue" => member[now.user] # "invited"
                    /\ now.at = "claimed" => link[now.link] = "open" /\ ~LinkHeld(now.link)
                    /\ now.at = "ending" => req[r].at = "claimed" /\ now.link = req[r].link
<1> USE OwnersAssumption DEF HoldInv, TypeOK, RequestState, Goes, Idle
<1>1. ASSUME NEW u \in Users, LoginVerifies(r, u) \/ ForgotPassword(r, u) PROVE Found
  BY <1>1 DEF LoginVerifies, ForgotPassword
<1>2. ASSUME NEW t \in Tokens, Refresh(r, t) \/ Logout(r, t) PROVE Found
  BY <1>2 DEF Refresh, Logout
<1>3. ASSUME NEW k \in Links, NEW pw \in Passwords, ResetClaims(r, k, pw) PROVE Found
  BY <1>3 DEF ResetClaims, Usable
<1>4. CASE LoginFindsMember(r)
  BY <1>4 DEF LoginFindsMember, MayEnter
<1>5. CASE RefreshFindsMember(r)
  BY <1>5 DEF RefreshFindsMember, TokenReads
<1>6. CASE RotateClaims(r)
  BY <1>6 DEF RotateClaims, Unrevoked
<1>7. CASE RevokeSees(r)
  BY <1>7 DEF RevokeSees, Live
<1>8. CASE ResetSeesTokens(r)
  BY <1>8 DEF ResetSeesTokens, Live
<1>9. CASE RequestEnds(r)
  BY <1>9 DEF RequestEnds
<1> QED
  BY <1>1, <1>2, <1>3, <1>4, <1>5, <1>6, <1>7, <1>8, <1>9 DEF Reads

(* How the refresh tokens can change in a step. *)
LEMMA TokenChanges ==
    ASSUME HoldInv, NEW r \in Requests, Writes(r)
    PROVE  \/ token' = token
           \/ /\ req[r].at \in {"revoking", "ending"}
              /\ \A t \in req[r].left : ~TokenHeld(t)
              /\ token' = Revoked(req[r].left)
           \/ \E t \in Tokens : IssueSession(r, t) \/ RotateCommits(r, t)
BY DEF Writes, InsertLink, RevokeFamily, InvalidateUnused, ResetCommits

(* No row disappears, and no one is invited again. *)
LEMMA NothingUndone ==
    ASSUME HoldInv, [Next]_vars
    PROVE  /\ \A t \in Tokens : token[t] # "absent" => token'[t] # "absent"
           /\ \A u \in Users : member[u] # "invited" => member'[u] # "invited"
<1> USE DEF HoldInv, TypeOK
<1>1. ASSUME NEW r \in Requests, Reads(r)
      PROVE  token' = token /\ member' = member
  BY <1>1, ReadChanges
<1>2. ASSUME NEW r \in Requests, Writes(r)
      PROVE  /\ \A t \in Tokens : token[t] # "absent" => token'[t] # "absent"
             /\ \A u \in Users : member[u] # "invited" => member'[u] # "invited"
  <2>1. \A t \in Tokens : token[t] # "absent" => token'[t] # "absent"
    BY <1>2, TokenChanges DEF Revoked, IssueSession, RotateCommits
  <2>2. \A u \in Users : member[u] # "invited" => member'[u] # "invited"
    BY <1>2 DEF Writes, IssueSession, RotateCommits, InsertLink, RevokeFamily, InvalidateUnused,
                ResetCommits
  <2> QED
    BY <2>1, <2>2
<1>3. ASSUME NEW u \in Users, NEW to \in {"active", "disabled", "removed"}, MemberChanges(u, to)
      PROVE  token' = token /\ \A v \in Users : member[v] # "invited" => member'[v] # "invited"
  BY <1>3 DEF MemberChanges
<1>4. ASSUME NEW r \in Requests, NEW u \in Users, SignUp(r, u)
      PROVE  token' = token /\ \A v \in Users : member[v] # "invited" => member'[v] # "invited"
  BY <1>4 DEF SignUp
<1> QED
  BY <1>1, <1>2, <1>3, <1>4, ReadOrWrite DEF Next, vars

(* A held token stays live: whoever revokes or replaces it waits for it. *)
LEMMA HeldStaysLive ==
    ASSUME HoldInv, NEW r \in Requests, Writes(r), NEW s \in Requests \ {r},
           req[s].at = "rotating"
    PROVE  token'[req[s].tok] = "live"
<1> DEFINE t == req[s].tok
<1>1. t \in Tokens /\ token[t] = "live" /\ TokenHeld(t)
  BY DEF HoldInv, TypeOK, RequestState, Idle, TokenReads, TokenHeld
<1>2. ASSUME NEW n \in Tokens, IssueSession(r, n) PROVE token'[t] = "live"
  BY <1>1, <1>2 DEF IssueSession, InFamily, HoldInv, TypeOK
<1>3. ASSUME NEW n \in Tokens, RotateCommits(r, n) PROVE token'[t] = "live"
  <2>1. req[r].at = "rotating" /\ req[r].tok # t
    BY <1>3 DEF RotateCommits, HoldInv, TokenReads
  <2> QED
    BY <1>1, <1>3, <2>1 DEF RotateCommits, HoldInv, TypeOK
<1> QED
  BY <1>1, <1>2, <1>3, TokenChanges DEF Revoked

LEMMA TokenReadsStep == HoldInv /\ [Next]_vars => TokenReads'
<1> SUFFICES ASSUME HoldInv, [Next]_vars PROVE TokenReads'
  OBVIOUS
<1>t. TypeOK /\ TokenReads
  BY DEF HoldInv
<1>1. ASSUME NEW r \in Requests, Reads(r) PROVE TokenReads'
  <2>1. \A s \in Requests \ {r} : req'[s] = req[s]
    BY <1>1, <1>t, ReadChanges DEF TypeOK
  <2> QED
    BY <1>1, <1>t, <2>1, ReadChanges, ReadFinds DEF TokenReads, TokenHeld
<1>2. ASSUME NEW r \in Requests, Writes(r) PROVE TokenReads'
  <2>1. /\ req'[r].at \in {"idle", "mail"}
        /\ \A s \in Requests \ {r} : req'[s] = req[s]
    BY <1>2, <1>t, WriteChanges DEF TypeOK, Idle
  <2>2. ASSUME NEW s \in Requests \ {r}
        PROVE  /\ req[s].at = "rotating" => token'[req[s].tok] = "live"
               /\ req[s].at \in {"presented", "rotate"} => token'[req[s].tok] # "absent"
               /\ req[s].at \in {"revoking", "ending"} =>
                     \A t \in req[s].left : token'[t] # "absent"
               /\ req[s].at = "issue" => member'[req[s].user] # "invited"
    <3>1. req[s] \in RequestState
      BY <1>t DEF TypeOK
    <3>2. req[s].at = "rotating" => token'[req[s].tok] = "live"
      BY <1>2, HeldStaysLive
    <3>3. req[s].at \in {"presented", "rotate"} => token'[req[s].tok] # "absent"
      BY <1>t, <3>1, NothingUndone DEF TokenReads, RequestState, Idle
    <3>4. req[s].at \in {"revoking", "ending"} => \A t \in req[s].left : token'[t] # "absent"
      BY <1>t, <3>1, NothingUndone DEF TokenReads, RequestState, Idle
    <3>5. req[s].at = "issue" => member'[req[s].user] # "invited"
      BY <1>t, <3>1, NothingUndone DEF TokenReads, RequestState, Idle
    <3> QED
      BY <3>2, <3>3, <3>4, <3>5
  <2> QED
    BY <1>t, <2>1, <2>2 DEF TokenReads
<1>3. ASSUME NEW u \in Users, NEW to \in {"active", "disabled", "removed"}, MemberChanges(u, to)
      PROVE  TokenReads'
  <2>1. \A s \in Requests : req[s].at = "issue" => req[s].user \in Users
    BY <1>t DEF TypeOK, RequestState, Idle
  <2> QED
    BY <1>3, <1>t, <2>1, NothingUndone DEF MemberChanges, TokenReads
<1>4. CASE UNCHANGED vars
  BY <1>4, <1>t DEF vars, TokenReads
<1>5. ASSUME NEW r \in Requests, NEW u \in Users, SignUp(r, u) PROVE TokenReads'
  <2>1. /\ req'[r] = [at |-> "issue", user |-> u]
        /\ \A s \in Requests \ {r} : req'[s] = req[s]
        /\ UNCHANGED <<token, link>>
    BY <1>5, <1>t DEF SignUp, Goes, TypeOK
  <2>2. member'[u] # "invited" /\ \A s \in Requests : req[s].at = "issue" => req[s].user \in Users
    BY <1>5, <1>t DEF SignUp, TypeOK, RequestState, Idle
  <2> QED
    BY <1>t, <2>1, <2>2, NothingUndone DEF TokenReads
<1> QED
  BY <1>1, <1>2, <1>3, <1>4, <1>5, ReadOrWrite DEF Next

LEMMA LinkReadsStep == HoldInv /\ [Next]_vars => LinkReads'
<1> SUFFICES ASSUME HoldInv, [Next]_vars PROVE LinkReads'
  OBVIOUS
<1>t. TypeOK /\ LinkReads
  BY DEF HoldInv
<1>1. ASSUME NEW r \in Requests, Reads(r) PROVE LinkReads'
  <2>1. \A s \in Requests \ {r} : req'[s] = req[s]
    BY <1>1, <1>t, ReadChanges DEF TypeOK
  <2> QED
    BY <1>1, <1>t, <2>1, ReadChanges, ReadFinds DEF LinkReads, LinkHeld
<1>2. ASSUME NEW r \in Requests, Writes(r) PROVE LinkReads'
  <2>1. /\ req'[r].at \in {"idle", "mail"}
        /\ \A s \in Requests \ {r} : req'[s] = req[s]
    BY <1>2, <1>t, WriteChanges DEF TypeOK, Idle
  <2>2. ASSUME NEW s \in Requests \ {r}, req[s].at \in {"claimed", "ending"}
        PROVE  link'[req[s].link] = "open"
    <3>1. req[s].link \in Links /\ link[req[s].link] = "open" /\ LinkHeld(req[s].link)
      BY <1>t, <2>2 DEF TypeOK, RequestState, Idle, LinkReads, LinkHeld
    <3>2. ASSUME NEW k \in Links, InsertLink(r, k) PROVE link'[req[s].link] = "open"
      BY <1>t, <3>1, <3>2 DEF InsertLink, TypeOK
    <3>3. CASE InvalidateUnused(r)
      BY <3>1, <3>3 DEF InvalidateUnused
    <3>4. CASE ResetCommits(r)
      <4>1. req[r].link # req[s].link
        BY <1>t, <2>2, <3>4 DEF ResetCommits, LinkReads
      <4> QED
        BY <1>t, <3>1, <3>4, <4>1 DEF ResetCommits, TypeOK
    <3> QED
      BY <1>2, <3>1, <3>2, <3>3, <3>4 DEF Writes, IssueSession, RotateCommits, RevokeFamily
  <2> QED
    BY <1>t, <2>1, <2>2 DEF LinkReads
<1>3. ASSUME NEW u \in Users, NEW to \in {"active", "disabled", "removed"}, MemberChanges(u, to)
      PROVE  LinkReads'
  BY <1>3, <1>t DEF MemberChanges, LinkReads
<1>4. CASE UNCHANGED vars
  BY <1>4, <1>t DEF vars, LinkReads
<1>5. ASSUME NEW r \in Requests, NEW u \in Users, SignUp(r, u) PROVE LinkReads'
  <2>1. /\ req'[r] = [at |-> "issue", user |-> u]
        /\ \A s \in Requests \ {r} : req'[s] = req[s]
        /\ UNCHANGED <<token, link>>
    BY <1>5, <1>t DEF SignUp, Goes, TypeOK
  <2> QED
    BY <1>t, <2>1 DEF LinkReads
<1> QED
  BY <1>1, <1>2, <1>3, <1>4, <1>5, ReadOrWrite DEF Next

(* A rotation replaces the only live token, a sign-in starts an empty family. *)
LEMMA OneLiveStep == HoldInv /\ [Next]_vars => OneLivePerFamily'
<1> SUFFICES ASSUME HoldInv, [Next]_vars PROVE OneLivePerFamily'
  OBVIOUS
<1> USE DEF OneLivePerFamily
<1>t. TypeOK /\ OneLivePerFamily
  BY DEF HoldInv
<1>1. CASE \A t \in Tokens : token'[t] = "live" => token[t] = "live"
  BY <1>1, <1>t
<1>2. ASSUME NEW r \in Requests, NEW n \in Tokens, IssueSession(r, n) PROVE OneLivePerFamily'
  BY <1>2, <1>t DEF IssueSession, InFamily, TypeOK
<1>3. ASSUME NEW r \in Requests, NEW n \in Tokens, RotateCommits(r, n)
      PROVE  OneLivePerFamily'
  <2>1. req[r].tok \in Tokens /\ token[req[r].tok] = "live"
    BY <1>3 DEF RotateCommits, HoldInv, TypeOK, RequestState, Idle, TokenReads
  <2> QED
    BY <1>3, <1>t, <2>1 DEF RotateCommits, TypeOK
<1>4. ASSUME NEW r \in Requests, Reads(r) PROVE token' = token
  BY <1>4, <1>t, ReadChanges
<1>5. ASSUME NEW r \in Requests, Writes(r) PROVE OneLivePerFamily'
  BY <1>5, <1>1, <1>2, <1>3, TokenChanges DEF Revoked
<1>6. ASSUME NEW u \in Users, NEW to \in {"active", "disabled", "removed"}, MemberChanges(u, to)
      PROVE  token' = token
  BY <1>6 DEF MemberChanges
<1>7. ASSUME NEW r \in Requests, NEW u \in Users, SignUp(r, u) PROVE token' = token
  BY <1>7 DEF SignUp
<1> QED
  BY <1>1, <1>4, <1>5, <1>6, <1>7, ReadOrWrite DEF Next, vars

(* Tokens appear only for someone whose membership was read active, or next   *)
(* to a token of theirs.                                                     *)
LEMMA InvitedStep == HoldInv /\ [Next]_vars => InvitedStaysOut'
<1> SUFFICES ASSUME HoldInv, [Next]_vars,
                    NEW t \in Tokens, member'[Owner(t)] = "invited", token'[t] # "absent"
             PROVE  FALSE
  BY DEF InvitedStaysOut, Owner
<1>t. TypeOK /\ TokenReads /\ InvitedStaysOut
  BY DEF HoldInv
<1>1. member[Owner(t)] = "invited" /\ token[t] = "absent"
  BY <1>t, NothingUndone, OwnersAssumption DEF Owner, InvitedStaysOut
<1>2. ASSUME NEW r \in Requests, Reads(r) PROVE token' = token
  BY <1>2, <1>t, ReadChanges
<1>3. ASSUME NEW r \in Requests, Writes(r) PROVE FALSE
  <2>1. CASE /\ req[r].at \in {"revoking", "ending"}
             /\ token' = Revoked(req[r].left)
    BY <1>1, <1>t, <2>1 DEF Revoked, TokenReads
  <2>2. ASSUME NEW n \in Tokens, IssueSession(r, n) PROVE FALSE
    BY <1>1, <1>t, <2>2 DEF IssueSession, TypeOK, TokenReads
  <2>3. ASSUME NEW n \in Tokens, RotateCommits(r, n) PROVE FALSE
    <3>1. req[r].tok \in Tokens /\ token[req[r].tok] = "live"
      BY <1>t, <2>3 DEF RotateCommits, TypeOK, RequestState, Idle, TokenReads
    <3>2. t = n /\ Owner(req[r].tok) = Owner(t)
      BY <1>1, <1>t, <2>3, <3>1 DEF RotateCommits, TypeOK, Owner
    <3> QED
      BY <1>1, <1>t, <3>1, <3>2 DEF InvitedStaysOut
  <2> QED
    BY <1>1, <1>3, <2>1, <2>2, <2>3, TokenChanges
<1>4. ASSUME NEW u \in Users, NEW to \in {"active", "disabled", "removed"}, MemberChanges(u, to)
      PROVE  token' = token
  BY <1>4 DEF MemberChanges
<1>5. ASSUME NEW r \in Requests, NEW u \in Users, SignUp(r, u) PROVE token' = token
  BY <1>5 DEF SignUp
<1> QED
  BY <1>1, <1>2, <1>3, <1>4, <1>5, ReadOrWrite DEF Next, vars

(* The inductive invariant holds, whatever the numbers. *)
THEOREM HoldAlways == Spec => []HoldInv
<1>1. HoldInv /\ [Next]_vars => HoldInv'
  BY TypeStep, TokenReadsStep, LinkReadsStep, OneLiveStep, InvitedStep DEF HoldInv
<1> QED
  BY HoldInit, <1>1, PTL DEF Spec

(* However many refreshes race with the same token, a sign-in has one token   *)
(* that works.                                                               *)
THEOREM SignInHasOneToken == Spec => []OneLivePerFamily
<1>1. HoldInv => OneLivePerFamily
  BY DEF HoldInv
<1> QED
  BY <1>1, HoldAlways, PTL

(* Whoever has not accepted the invitation has no token of the organisation. *)
THEOREM InvitedIsOut == Spec => []InvitedStaysOut
<1>1. HoldInv => InvitedStaysOut
  BY DEF HoldInv
<1> QED
  BY <1>1, HoldAlways, PTL

(* A sign-in that a logout, a reset or a reuse ended is not brought back by a *)
(* refresh in flight.                                                        *)
THEOREM EndedForever == Spec => EndedStays
<1> DEFINE Stays == \A f \in Families : Ended(f) => Ended(f)'
<1>1. ASSUME HoldInv, [Next]_vars PROVE Stays
  <2> SUFFICES ASSUME NEW f \in Families, Ended(f) PROVE Ended(f)'
    OBVIOUS
  <2>t. TypeOK
    BY <1>1 DEF HoldInv
  <2>1. \E t \in InFamily(f) : token'[t] # "absent"
    BY <1>1, NothingUndone DEF Ended, InFamily
  <2>2. ASSUME NEW t \in InFamily(f), token'[t] = "live" PROVE FALSE
    <3>1. t \in Tokens /\ FamilyOf[t] = f /\ token[t] # "live"
      BY <2>2 DEF Ended, Live, InFamily
    <3>2. ASSUME NEW r \in Requests, Reads(r) PROVE FALSE
      BY <2>2, <2>t, <3>1, <3>2, ReadChanges
    <3>3. ASSUME NEW r \in Requests, NEW n \in Tokens, IssueSession(r, n) PROVE FALSE
      BY <2>2, <2>t, <3>1, <3>3 DEF IssueSession, InFamily, Ended, TypeOK
    <3>4. ASSUME NEW r \in Requests, NEW n \in Tokens, RotateCommits(r, n) PROVE FALSE
      <4>1. req[r].tok \in Tokens /\ token[req[r].tok] = "live"
        BY <1>1, <3>4 DEF RotateCommits, HoldInv, TypeOK, RequestState, Idle, TokenReads
      <4>2. req[r].tok \in Live(InFamily(f))
        BY <2>2, <2>t, <3>1, <3>4, <4>1 DEF RotateCommits, TypeOK, Live, InFamily
      <4> QED
        BY <4>2 DEF Ended
    <3>5. ASSUME NEW r \in Requests, Writes(r) PROVE FALSE
      BY <1>1, <2>2, <3>1, <3>3, <3>4, <3>5, TokenChanges DEF Revoked
    <3>6. ASSUME NEW u \in Users, NEW to \in {"active", "disabled", "removed"}, MemberChanges(u, to)
          PROVE  FALSE
      BY <2>2, <3>1, <3>6 DEF MemberChanges
    <3>7. ASSUME NEW r \in Requests, NEW u \in Users, SignUp(r, u) PROVE FALSE
      BY <2>2, <3>1, <3>7 DEF SignUp
    <3> QED
      BY <1>1, <2>2, <3>1, <3>2, <3>5, <3>6, <3>7, ReadOrWrite DEF Next, vars
  <2> QED
    BY <2>1, <2>2 DEF Ended, Live, InFamily
<1>2. Spec => [][Stays]_vars
  BY <1>1, HoldAlways, PTL DEF Spec
<1> QED
  BY <1>2 DEF EndedStays

(* A password changes only as an open link of its user is used up. *)
THEOREM LinkOnce == Spec => LinkWorksOnce
<1> DEFINE Once == \A u \in Users : password'[u] # password[u] =>
                      \E k \in Links : LinkFor[k] = u /\ link[k] = "open" /\ link'[k] = "used"
<1>1. ASSUME HoldInv, [Next]_vars PROVE Once
  <2> SUFFICES ASSUME NEW u \in Users, password'[u] # password[u]
               PROVE  \E k \in Links : LinkFor[k] = u /\ link[k] = "open" /\ link'[k] = "used"
    OBVIOUS
  <2>t. TypeOK /\ LinkReads
    BY <1>1 DEF HoldInv
  <2>1. ASSUME NEW r \in Requests, Reads(r) PROVE FALSE
    BY <2>1, <2>t, ReadChanges
  <2>2. ASSUME NEW r \in Requests, Writes(r) PROVE ResetCommits(r)
    BY <2>2 DEF Writes, IssueSession, RotateCommits, InsertLink, RevokeFamily, InvalidateUnused
  <2>3. PICK r \in Requests : ResetCommits(r)
    BY <1>1, <2>1, <2>2, ReadOrWrite DEF Next, vars, MemberChanges, SignUp
  <2>4. req[r].link \in Links /\ link[req[r].link] = "open"
    BY <2>3, <2>t DEF ResetCommits, TypeOK, RequestState, Idle, LinkReads
  <2>5. LinkFor[req[r].link] = u /\ link'[req[r].link] = "used"
    BY <2>3, <2>4, <2>t DEF ResetCommits, TypeOK
  <2> QED
    BY <2>4, <2>5
<1>2. Spec => [][Once]_vars
  BY <1>1, HoldAlways, PTL DEF Spec
<1> QED
  BY <1>2 DEF LinkWorksOnce

-----------------------------------------------------------------------------
(* RateLimit, for any number of handlers: a counter without a TTL is inductive  *)
(* as it stands, beside its types.                                           *)
LimitInv == L!TypeOK /\ LimitRunsOut

LEMMA LimitStep == LimitInv /\ [L!Next]_(L!vars) => LimitInv'
<1> SUFFICES ASSUME LimitInv, [L!Next]_(L!vars) PROVE LimitInv'
  OBVIOUS
<1> USE MaxCountAssumption DEF LimitInv, L!TypeOK, LimitRunsOut, L!LimitRunsOut, L!At
<1>1. ASSUME NEW r \in Handlers, L!Incr(r) PROVE LimitInv'
  <2>1. count' \in 1..MaxCount
    BY <1>1 DEF L!Incr
  <2>2. limited' \in [Handlers -> {"idle", "ttl", "expire", "decide"}]
    BY <1>1 DEF L!Incr
  <2>3. limited'[r] \in {"ttl", "expire"}
    BY <1>1 DEF L!Incr
  <2>4. armed' = armed /\ orphaned' \in BOOLEAN
    BY <1>1 DEF L!Incr
  <2>5. count' \in 0..MaxCount /\ count' # 0
    BY <2>1
  <2>6. L!TypeOK'
    BY <2>2, <2>4, <2>5
  <2>7. LimitRunsOut'
    BY <2>3
  <2> QED
    BY <2>6, <2>7
<1>2. ASSUME NEW r \in Handlers, L!ReadTtl(r) PROVE LimitInv'
  <2>1. limited'[r] = IF L!HasNoTtl THEN "expire" ELSE "decide"
    BY <1>2 DEF L!ReadTtl
  <2> QED
    BY <1>2, <2>1 DEF L!ReadTtl, L!HasNoTtl
<1>3. ASSUME NEW r \in Handlers, L!Expire(r) PROVE LimitInv'
  <2>1. count' = count /\ orphaned' = orphaned
    BY <1>3 DEF L!Expire
  <2>2. armed' \in BOOLEAN /\ (armed' <=> count > 0)
    <3> DEFINE some == count > 0
    <3>1. armed' = some
      BY <1>3 DEF L!Expire
    <3>2. some \in BOOLEAN
      OBVIOUS
    <3> HIDE DEF some
    <3>3. armed' \in BOOLEAN /\ (armed' <=> some)
      BY <3>1, <3>2
    <3> QED
      BY <3>3 DEF some
  <2>3. limited' \in [Handlers -> {"idle", "ttl", "expire", "decide"}]
    BY <1>3 DEF L!Expire
  <2> QED
    BY <2>1, <2>2, <2>3
<1>4. ASSUME NEW r \in Handlers, L!Decide(r) PROVE LimitInv'
  BY <1>4 DEF L!Decide
<1>5. ASSUME NEW r \in Handlers, L!Dies(r) PROVE LimitInv'
  BY <1>5 DEF L!Dies
<1>6. CASE L!WindowEnds
  <2>1. 0 \in 0..MaxCount
    OBVIOUS
  <2>2. count' = 0 /\ limited' = limited /\ orphaned' = orphaned
    BY <1>6 DEF L!WindowEnds
  <2>3. armed' \in BOOLEAN /\ ~armed'
    BY <1>6 DEF L!WindowEnds
  <2> QED
    BY <2>1, <2>2, <2>3
<1>7. CASE UNCHANGED L!vars
  BY <1>7 DEF L!vars
<1> QED
  BY <1>1, <1>2, <1>3, <1>4, <1>5, <1>6, <1>7 DEF L!Next

(* No one is locked out for ever: a counter without a TTL is about to get one,  *)
(* or the next request will give it one.                                     *)
THEOREM LimitsRunOut == L!Spec => []LimitRunsOut
<1>1. L!Init => LimitInv
  <2> SUFFICES ASSUME L!Init PROVE LimitInv
    OBVIOUS
  <2>1. 0 \in 0..MaxCount
    BY MaxCountAssumption
  <2>2. count = 0 /\ limited \in [Handlers -> {"idle", "ttl", "expire", "decide"}]
    BY DEF L!Init
  <2>3. armed \in BOOLEAN /\ ~armed /\ orphaned \in BOOLEAN
    BY DEF L!Init
  <2> QED
    BY <2>1, <2>2, <2>3 DEF LimitInv, L!TypeOK, LimitRunsOut, L!LimitRunsOut
<1>2. LimitInv => LimitRunsOut
  BY DEF LimitInv
<1> QED
  BY <1>1, <1>2, LimitStep, PTL DEF L!Spec


-----------------------------------------------------------------------------
(* Chat, for any number of handlers, sockets and messages.                   *)
Tellable == C!Values \cup {Unknown}
Rounds == [at : {"read", "deliver"}, on : C!Items, to : SUBSET Clients, left : SUBSET Clients,
           value : Tellable, alone : BOOLEAN]
Inserts == [at : {"insert"}, on : Messages]

ChatTypes ==
    /\ C!TypeOK
    /\ shows \in [Clients -> [C!Items -> Tellable]]
    /\ handler \in [Handlers -> {C!Idle} \cup Inserts \cup Rounds]
    /\ \A r \in Handlers, m \in Messages : C!Telling(r, m) => Clients # {}

(* A round that overlapped with no other is the only one of its item, and the   *)
(* items told only by such rounds are those that are not mixed.               *)
RoundsAlone ==
    \A r \in Handlers, x \in C!Items : C!Telling(r, x) =>
        /\ handler[r].alone => \A q \in Handlers : C!Telling(q, x) => q = r
        /\ x \notin mixed => handler[r].alone

(* What such a round tells is what is there, and who does not show it yet is    *)
(* still to be told: unless others were left with something else before, whom *)
(* only a round to everyone reaches.                                         *)
Told(c, x) == shows[c][x] \in {Unknown, C!Value(x)}
RoundsTell ==
    \A r \in Handlers, x \in C!Items : C!Telling(r, x) /\ handler[r].alone =>
        /\ handler[r].at = "deliver" => handler[r].value = C!Value(x)
        /\ x \notin mixed \/ handler[r].to = Clients =>
              \A c \in room : Told(c, x) \/ c \in handler[r].left

AllTold == \A x \in C!Items : x \notin mixed /\ C!Quiet(x) => \A c \in room : Told(c, x)

(* The inductive invariant. *)
ChatInv == ChatTypes /\ RoundsAlone /\ RoundsTell /\ AllTold

LEMMA ItemsDiffer ==
    /\ "channel" \notin Messages /\ "presence" \notin Messages
    /\ C!Items = Messages \cup {"channel", "presence"}
BY ChatAssumption DEF C!Items

(* What there is to tell of each item.                                       *)
LEMMA ValueOf ==
    /\ \A m \in Messages : C!Value(m) = message[m]
    /\ C!Value("channel") = channel
    /\ C!Value("presence") = {SocketUser[c] : c \in room}
BY ItemsDiffer DEF C!Value

LEMMA ValueNext ==
    /\ \A m \in Messages : C!Value(m)' = message'[m]
    /\ C!Value("channel")' = channel'
    /\ C!Value("presence")' = {SocketUser[c] : c \in room'}
BY ItemsDiffer DEF C!Value

LEMMA Tells ==
    ASSUME ChatTypes, NEW x \in C!Items
    PROVE  C!Value(x) \in Tellable
<1>1. /\ message \in [Messages -> C!Statuses \cup {"none"}]
      /\ channel \in {"open", "archived"} /\ room \subseteq Clients
  BY DEF ChatTypes, C!TypeOK
<1>2. {SocketUser[c] : c \in room} \in SUBSET C!Members
  BY <1>1 DEF C!Members
<1> QED
  BY <1>1, <1>2, ItemsDiffer, ValueOf DEF Tellable, C!Values

LEMMA AtTheDoorShows ==
    /\ C!AtTheDoor \in [C!Items -> Tellable]
    /\ \A x \in C!Items : C!AtTheDoor[x] = Unknown \/ (x \in Messages /\ C!AtTheDoor[x] = C!Value(x))
BY ValueOf DEF C!AtTheDoor, Tellable, C!Values

LEMMA ChatInit == C!Init => ChatInv
<1> SUFFICES ASSUME C!Init PROVE ChatInv
  OBVIOUS
<1>1. \A r \in Handlers, x \in C!Items : ~C!Telling(r, x)
  BY DEF C!Init, C!Telling, C!Idle
<1>2. ChatTypes
  <2>1. C!TypeOK
    BY DEF C!Init, C!TypeOK
  <2>2. shows \in [Clients -> [C!Items -> Tellable]]
    BY AtTheDoorShows DEF C!Init
  <2>3. handler \in [Handlers -> {C!Idle} \cup Inserts \cup Rounds]
    BY DEF C!Init
  <2> QED
    BY <1>1, <2>1, <2>2, <2>3, ItemsDiffer DEF ChatTypes
<1>3. room = {}
  BY DEF C!Init
<1> QED
  BY <1>1, <1>2, <1>3 DEF ChatInv, RoundsAlone, RoundsTell, AllTold

(* The handlers after a round has started.                                   *)
LEMMA RoundStarted ==
    ASSUME ChatTypes, NEW r \in Handlers, NEW round \in Rounds, C!StartRound(r, round)
    PROVE  /\ handler' \in [Handlers -> {C!Idle} \cup Inserts \cup Rounds]
           /\ handler'[r] \in Rounds
           /\ handler'[r].on = round.on /\ handler'[r].at = round.at
           /\ handler'[r].to = round.to /\ handler'[r].left = round.left
           /\ handler'[r].value = round.value
           /\ handler'[r].alone <=> \A q \in Handlers \ {r} : ~C!Telling(q, round.on)
           /\ \A q \in Handlers \ {r} :
                 IF C!Telling(q, round.on)
                 THEN handler'[q].at = handler[q].at /\ handler'[q].on = handler[q].on /\ ~handler'[q].alone
                 ELSE handler'[q] = handler[q]
           /\ mixed' = IF \A q \in Handlers \ {r} : ~C!Telling(q, round.on) THEN mixed
                                                                         ELSE mixed \cup {round.on}
<1> DEFINE x == round.on
           others == C!Others(r, x)
<1>1. others = {} <=> \A q \in Handlers \ {r} : ~C!Telling(q, x)
  BY DEF C!Others
<1>2. \A q \in Handlers : handler'[q] =
          IF q = r THEN [round EXCEPT !.alone = (others = {})]
          ELSE IF C!Telling(q, x) THEN [handler[q] EXCEPT !.alone = FALSE]
          ELSE handler[q]
  BY DEF C!StartRound
<1>3. DOMAIN handler' = Handlers /\ handler' = [q \in Handlers |-> handler'[q]]
  BY DEF C!StartRound
<1> DEFINE first == (others = {})
<1>4. first \in BOOLEAN
  OBVIOUS
<1>5. handler'[r] = [round EXCEPT !.alone = first]
  BY <1>2
<1>6. mixed' = IF first THEN mixed ELSE mixed \cup {x}
  BY DEF C!StartRound
<1> HIDE DEF first, others
<1>7. /\ handler'[r] \in Rounds
      /\ handler'[r].on = round.on /\ handler'[r].at = round.at
      /\ handler'[r].to = round.to /\ handler'[r].left = round.left
      /\ handler'[r].value = round.value /\ handler'[r].alone = first
  BY <1>4, <1>5 DEF Rounds
<1>8. ASSUME NEW q \in Handlers \ {r}, C!Telling(q, x)
      PROVE  /\ handler'[q] \in Rounds
             /\ handler'[q].at = handler[q].at /\ handler'[q].on = handler[q].on
             /\ ~handler'[q].alone
  <2>1. handler[q] \in Rounds
    <3>1. handler[q] \in {C!Idle} \cup Inserts \cup Rounds
      BY DEF ChatTypes
    <3> QED
      BY <1>8, <3>1 DEF C!Telling, C!Idle, Inserts
  <2>2. handler'[q] = [handler[q] EXCEPT !.alone = FALSE]
    BY <1>2, <1>8
  <2> QED
    BY <2>1, <2>2 DEF Rounds
<1>9. \A q \in Handlers \ {r} : ~C!Telling(q, x) => handler'[q] = handler[q]
  BY <1>2
<1>10. handler' \in [Handlers -> {C!Idle} \cup Inserts \cup Rounds]
  <2>1. \A q \in Handlers : handler'[q] \in {C!Idle} \cup Inserts \cup Rounds
    BY <1>7, <1>8, <1>9 DEF ChatTypes
  <2> QED
    BY <1>3, <2>1
<1> QED
  BY <1>1, <1>6, <1>7, <1>8, <1>9, <1>10 DEF first


(* A handler that was telling nothing starts a round of x, in a step that       *)
(* changes nothing else there is to tell, nor what is shown but to newcomers.  *)
LEMMA RoundStarts ==
    ASSUME ChatInv, NEW r \in Handlers, NEW round \in Rounds, C!StartRound(r, round),
           \A y \in C!Items : ~C!Telling(r, y), round.left = round.to,
           room' \subseteq Clients,
           \A y \in C!Items \ {round.on} : C!Value(y)' = C!Value(y),
           C!Value(round.on)' = C!Value(round.on) \/ round.to = Clients,
           round.at = "deliver" => round.value = C!Value(round.on)',
           \A c \in room', y \in C!Items :
              \/ c \in room /\ shows'[c][y] = shows[c][y]
              \/ shows'[c][y] = Unknown
              \/ y # round.on /\ shows'[c][y] = C!Value(y)
    PROVE  RoundsAlone' /\ RoundsTell' /\ AllTold'
<1> DEFINE x == round.on
           lone == \A q \in Handlers \ {r} : ~C!Telling(q, x)
<1>1. /\ handler'[r].on = x /\ handler'[r].at = round.at /\ round.at \in {"read", "deliver"}
      /\ handler'[r].to = round.to /\ handler'[r].left = round.to
      /\ handler'[r].value = round.value
      /\ handler'[r].alone <=> lone
      /\ \A q \in Handlers \ {r} :
            IF C!Telling(q, x)
            THEN handler'[q].at = handler[q].at /\ handler'[q].on = handler[q].on /\ ~handler'[q].alone
            ELSE handler'[q] = handler[q]
      /\ mixed' = IF lone THEN mixed ELSE mixed \cup {x}
      /\ x \in C!Items
  BY RoundStarted DEF ChatInv, Rounds
<1>2. \A y \in C!Items : C!Telling(r, y)' <=> y = x
  BY <1>1 DEF C!Telling
<1>3. \A q \in Handlers \ {r}, y \in C!Items : C!Telling(q, y)' <=> C!Telling(q, y)
  BY <1>1 DEF C!Telling
<1>4. \A q \in Handlers \ {r}, y \in C!Items \ {x} : C!Telling(q, y) => handler'[q] = handler[q]
  BY <1>1 DEF C!Telling
<1>5. \A y \in C!Items \ {x} : y \in mixed' <=> y \in mixed
  BY <1>1
<1>6. lone \/ x \in mixed'
  BY <1>1
<1>7. lone => (x \in mixed' <=> x \in mixed)
  BY <1>1
<1>8. \A y \in C!Items \ {x}, c \in room' : Told(c, y)' \/ (c \in room /\ ~Told(c, y))
  BY DEF Told
<1>9. lone => C!Quiet(x)
  BY <1>1 DEF C!Quiet
<1>10. RoundsAlone'
  <2> SUFFICES ASSUME NEW q \in Handlers, NEW y \in C!Items, C!Telling(q, y)'
               PROVE  /\ handler'[q].alone => \A p \in Handlers : C!Telling(p, y)' => p = q
                      /\ y \notin mixed' => handler'[q].alone
    BY DEF RoundsAlone
  <2>1. CASE y = x
    <3>1. q # r => ~handler'[q].alone /\ ~lone
      BY <1>1, <1>3, <2>1
    <3> QED
      BY <1>1, <1>3, <1>6, <2>1, <3>1
  <2>2. CASE y # x
    BY <1>2, <1>3, <1>4, <1>5, <2>2 DEF ChatInv, RoundsAlone
  <2> QED
    BY <2>1, <2>2
<1>11. RoundsTell'
  <2> SUFFICES ASSUME NEW q \in Handlers, NEW y \in C!Items, C!Telling(q, y)', handler'[q].alone
               PROVE  /\ handler'[q].at = "deliver" => handler'[q].value = C!Value(y)'
                      /\ y \notin mixed' \/ handler'[q].to = Clients =>
                            \A c \in room' : Told(c, y)' \/ c \in handler'[q].left
    BY DEF RoundsTell
  <2>1. CASE y = x
    <3>1. q = r /\ lone
      BY <1>1, <1>3, <2>1
    <3>2. handler'[r].at = "deliver" => handler'[r].value = C!Value(x)'
      BY <1>1
    <3>3. CASE round.to = Clients
      BY <1>1, <2>1, <3>1, <3>2, <3>3
    <3>4. CASE round.to # Clients
      <4>1. C!Value(x)' = C!Value(x)
        BY <3>4
      <4>2. x \notin mixed => \A c \in room : Told(c, x)
        BY <1>1, <1>9, <3>1 DEF ChatInv, AllTold
      <4>3. x \notin mixed => \A c \in room' : Told(c, x)'
        BY <1>1, <4>1, <4>2 DEF Told
      <4> QED
        BY <1>1, <1>7, <2>1, <3>1, <3>2, <3>4, <4>3
    <3> QED
      BY <3>3, <3>4
  <2>2. CASE y # x
    <3>1. q # r /\ C!Telling(q, y) /\ handler'[q] = handler[q] /\ (y \in mixed' <=> y \in mixed)
      BY <1>2, <1>3, <1>4, <1>5, <2>2
    <3>2. C!Value(y)' = C!Value(y)
      BY <2>2
    <3>3. \A c \in room' : Told(c, y)' \/ (c \in room /\ ~Told(c, y))
      BY <1>8, <2>2
    <3>4. /\ handler[q].at = "deliver" => handler[q].value = C!Value(y)
          /\ y \notin mixed \/ handler[q].to = Clients =>
                \A c \in room : Told(c, y) \/ c \in handler[q].left
      BY <3>1 DEF ChatInv, RoundsTell
    <3> QED
      BY <3>1, <3>2, <3>3, <3>4
  <2> QED
    BY <2>1, <2>2
<1>12. AllTold'
  <2> SUFFICES ASSUME NEW y \in C!Items, y \notin mixed', C!Quiet(y)', NEW c \in room'
               PROVE  Told(c, y)'
    BY DEF AllTold
  <2>1. y # x
    BY <1>2 DEF C!Quiet
  <2>2. C!Quiet(y)
    <3>1. \A q \in Handlers : ~C!Telling(q, y)'
      BY DEF C!Quiet
    <3> QED
      BY <1>3, <3>1 DEF C!Quiet
  <2>3. y \notin mixed
    BY <1>5, <2>1
  <2> QED
    BY <1>8, <2>1, <2>2, <2>3 DEF ChatInv, AllTold
<1> QED
  BY <1>10, <1>11, <1>12

(* A step in which no round starts, goes on or ends, and what there is to tell   *)
(* and what is shown stays.                                                  *)
LEMMA NothingTold ==
    ASSUME ChatInv, room' \subseteq room, shows' = shows, mixed' = mixed,
           \A q \in Handlers, y \in C!Items : C!Telling(q, y)' <=> C!Telling(q, y),
           \A q \in Handlers, y \in C!Items : C!Telling(q, y) => handler'[q] = handler[q],
           \A y \in C!Items : C!Value(y)' = C!Value(y)
    PROVE  RoundsAlone' /\ RoundsTell' /\ AllTold'
<1>1. \A c \in room', y \in C!Items : Told(c, y)' <=> Told(c, y)
  BY DEF Told
<1>2. RoundsAlone'
  BY DEF ChatInv, RoundsAlone
<1>3. RoundsTell'
  BY <1>1 DEF ChatInv, RoundsTell
<1>4. AllTold'
  <2>1. \A y \in C!Items : C!Quiet(y)' => C!Quiet(y)
    BY DEF C!Quiet
  <2> QED
    BY <1>1, <2>1 DEF ChatInv, AllTold
<1> QED
  BY <1>2, <1>3, <1>4

(* A round goes on or ends: what it tells reaches one client, or no one.        *)
LEMMA InRound ==
    ASSUME ChatTypes, NEW r \in Handlers, handler[r].at \in {"read", "deliver"}
    PROVE  handler[r] \in Rounds /\ handler[r].on \in C!Items
           /\ \A y \in C!Items : C!Telling(r, y) <=> y = handler[r].on
<1>1. handler[r] \in {C!Idle} \cup Inserts \cup Rounds
  BY DEF ChatTypes
<1>2. handler[r] \in Rounds
  BY <1>1 DEF C!Idle, Inserts
<1> QED
  BY <1>2 DEF Rounds, C!Telling


LEMMA ReadBackStep ==
    ASSUME ChatInv, NEW r \in Handlers, C!ReadBack(r)
    PROVE  ChatInv'
<1> USE DEF C!ReadBack
<1>0. PICK x : x = handler[r].on
  OBVIOUS
<1>1. /\ handler[r] \in Rounds /\ x \in C!Items
      /\ \A y \in C!Items : C!Telling(r, y) <=> y = x
  BY <1>0, InRound DEF ChatInv
<1>2. C!Value(x) \in Tellable
  BY <1>1, Tells DEF ChatInv
<1>3. /\ handler'[r] = [handler[r] EXCEPT !.at = "deliver", !.value = C!Value(x)]
      /\ \A q \in Handlers \ {r} : handler'[q] = handler[q]
      /\ DOMAIN handler' = Handlers /\ handler' = [q \in Handlers |-> handler'[q]]
  BY <1>0 DEF ChatInv, ChatTypes
<1>4. /\ handler'[r] \in Rounds /\ handler'[r].on = x /\ handler'[r].at = "deliver"
      /\ handler'[r].value = C!Value(x) /\ handler'[r].to = handler[r].to
      /\ handler'[r].left = handler[r].left /\ handler'[r].alone = handler[r].alone
  BY <1>0, <1>1, <1>2, <1>3 DEF Rounds
<1>5. \A q \in Handlers, y \in C!Items : C!Telling(q, y)' <=> C!Telling(q, y)
  BY <1>0, <1>3, <1>4 DEF C!Telling
<1>6. \A y \in C!Items : C!Value(y)' = C!Value(y)
  BY ItemsDiffer, ValueOf, ValueNext
<1>7. ChatTypes'
  <2>1. \A q \in Handlers : handler'[q] \in {C!Idle} \cup Inserts \cup Rounds
    BY <1>3, <1>4 DEF ChatInv, ChatTypes
  <2> QED
    BY <1>3, <1>5, <2>1, ItemsDiffer DEF ChatInv, ChatTypes, C!TypeOK
<1>8. RoundsAlone'
  BY <1>3, <1>4, <1>5 DEF ChatInv, RoundsAlone
<1>9. \A c \in room, y \in C!Items : Told(c, y)' <=> Told(c, y)
  BY <1>6 DEF Told
<1>10. RoundsTell'
  <2>1. room' = room /\ mixed' = mixed
    OBVIOUS
  <2> HIDE DEF C!ReadBack
  <2> SUFFICES ASSUME NEW q \in Handlers, NEW y \in C!Items, C!Telling(q, y), handler'[q].alone
               PROVE  /\ handler'[q].at = "deliver" => handler'[q].value = C!Value(y)
                      /\ y \notin mixed \/ handler'[q].to = Clients =>
                            \A c \in room : Told(c, y) \/ c \in handler'[q].left
    BY <1>5, <1>6, <1>9, <2>1 DEF RoundsTell
  <2>2. CASE q # r
    BY <1>3, <2>2 DEF ChatInv, RoundsTell
  <2>3. CASE q = r
    <3>1. y = x
      BY <1>1, <2>3
    <3> QED
      BY <1>4, <2>3, <3>1 DEF ChatInv, RoundsTell
  <2> QED
    BY <2>2, <2>3
<1>11. AllTold'
  BY <1>5, <1>9 DEF ChatInv, AllTold, C!Quiet
<1> QED
  BY <1>7, <1>8, <1>10, <1>11 DEF ChatInv

LEMMA DeliverStep ==
    ASSUME ChatInv, NEW r \in Handlers, NEW c \in Clients, C!Deliver(r, c)
    PROVE  ChatInv'
<1> USE DEF C!Deliver
<1>0. PICK x, value : x = handler[r].on /\ value = handler[r].value
  OBVIOUS
<1>1. /\ handler[r] \in Rounds /\ x \in C!Items /\ value \in Tellable
      /\ \A y \in C!Items : C!Telling(r, y) <=> y = x
  BY <1>0, InRound DEF ChatInv, Rounds
<1>2. /\ shows' \in [Clients -> [C!Items -> Tellable]]
      /\ \A d \in Clients, y \in C!Items :
            shows'[d][y] = IF c \in room /\ d = c /\ y = x THEN value ELSE shows[d][y]
  BY <1>0, <1>1 DEF ChatInv, ChatTypes
<1>3. \A y \in C!Items : C!Value(y)' = C!Value(y)
  BY ItemsDiffer, ValueOf, ValueNext
<1>4. /\ \A q \in Handlers \ {r} : handler'[q] = handler[q]
      /\ DOMAIN handler' = Handlers /\ handler' = [q \in Handlers |-> handler'[q]]
  BY DEF ChatInv, ChatTypes
<1>5. CASE handler[r].left # {c}
  <2>1. handler'[r] = [handler[r] EXCEPT !.left = handler[r].left \ {c}] /\ mixed' = mixed
    BY <1>5 DEF ChatInv, ChatTypes
  <2>2. /\ handler'[r] \in Rounds /\ handler'[r].on = x /\ handler'[r].at = handler[r].at
        /\ handler'[r].value = value /\ handler'[r].to = handler[r].to
        /\ handler'[r].left = handler[r].left \ {c} /\ handler'[r].alone = handler[r].alone
    BY <1>0, <1>1, <2>1 DEF Rounds
  <2>3. \A q \in Handlers, y \in C!Items : C!Telling(q, y)' <=> C!Telling(q, y)
    BY <1>0, <1>4, <2>2 DEF C!Telling
  <2>4. ChatTypes'
    <3>1. \A q \in Handlers : handler'[q] \in {C!Idle} \cup Inserts \cup Rounds
      BY <1>4, <2>2 DEF ChatInv, ChatTypes
    <3>2. C!TypeOK'
      BY <1>2, <1>4, <2>1 DEF ChatInv, ChatTypes, C!TypeOK
    <3> QED
      BY <1>2, <1>4, <2>3, <3>1, <3>2, ItemsDiffer DEF ChatInv, ChatTypes
  <2>5. RoundsAlone'
    <3>1. \A q \in Handlers : handler'[q].alone = handler[q].alone
      BY <1>4, <2>2
    <3>2. mixed' = mixed
      BY <2>1
    <3> HIDE DEF C!Deliver
    <3> QED
      BY <2>3, <3>1, <3>2 DEF ChatInv, RoundsAlone
  <2>6. \A y \in C!Items : C!Telling(r, y) => y = x
    BY <1>1
  <2>7. \A d \in room, y \in C!Items :
          y # x \/ d # c => (Told(d, y)' <=> Told(d, y))
    BY <1>2, <1>3 DEF Told, ChatInv, ChatTypes, C!TypeOK
  <2>8. RoundsTell'
    <3> SUFFICES ASSUME NEW q \in Handlers, NEW y \in C!Items, C!Telling(q, y), handler'[q].alone
                 PROVE  /\ handler'[q].at = "deliver" => handler'[q].value = C!Value(y)
                        /\ y \notin mixed \/ handler'[q].to = Clients =>
                              \A d \in room : Told(d, y)' \/ d \in handler'[q].left
      BY <1>3, <2>1, <2>3 DEF RoundsTell
    <3>1. CASE y # x
      <4>1. q # r
        BY <1>1, <3>1
      <4> QED
        BY <1>4, <2>7, <3>1, <4>1 DEF ChatInv, RoundsTell
    <3>2. CASE y = x
      <4>1. handler[q].alone /\ q = r
        BY <1>1, <1>4, <2>2, <3>2 DEF ChatInv, RoundsAlone
      <4>2. /\ handler[r].at = "deliver" /\ value = C!Value(x)
            /\ x \notin mixed \/ handler[r].to = Clients =>
                  \A d \in room : Told(d, x) \/ d \in handler[r].left
        BY <1>0, <1>1, <3>2, <4>1 DEF ChatInv, RoundsTell
      <4>3. c \in room => Told(c, x)'
        BY <1>1, <1>2, <1>3, <4>2 DEF Told
      <4> QED
        BY <2>2, <2>7, <3>2, <4>1, <4>2, <4>3
    <3> QED
      BY <3>1, <3>2
  <2>9. AllTold'
    <3> SUFFICES ASSUME NEW y \in C!Items, y \notin mixed, C!Quiet(y)', NEW d \in room
                 PROVE  Told(d, y)'
      BY <2>1 DEF AllTold
    <3>1. C!Quiet(y)
      BY <2>3 DEF C!Quiet
    <3>2. y # x
      BY <1>1, <3>1 DEF C!Quiet
    <3> QED
      BY <2>7, <3>1, <3>2 DEF ChatInv, AllTold
  <2> QED
    BY <2>4, <2>5, <2>8, <2>9 DEF ChatInv
<1>6. CASE handler[r].left = {c}
  <2>1. /\ handler'[r] = C!Idle
        /\ mixed' = IF handler[r].alone /\ handler[r].to = Clients THEN mixed \ {x} ELSE mixed
    BY <1>0, <1>6 DEF ChatInv, ChatTypes
  <2>2. \A q \in Handlers, y \in C!Items : C!Telling(q, y)' <=> q # r /\ C!Telling(q, y)
    BY <1>4, <2>1 DEF C!Telling, C!Idle
  <2>3. ChatTypes'
    <3>1. \A q \in Handlers : handler'[q] \in {C!Idle} \cup Inserts \cup Rounds
      BY <1>4, <2>1 DEF ChatInv, ChatTypes
    <3>2. C!TypeOK'
      BY <1>2, <1>4, <2>1 DEF ChatInv, ChatTypes, C!TypeOK
    <3> QED
      BY <1>2, <1>4, <2>2, <3>1, <3>2, ItemsDiffer DEF ChatInv, ChatTypes
  <2>4. \A q \in Handlers, y \in C!Items : C!Telling(q, y)' /\ y = x => ~handler[r].alone
    BY <1>1, <2>2 DEF ChatInv, RoundsAlone
  <2>5. \A y \in C!Items : y # x => (y \in mixed' <=> y \in mixed)
    BY <2>1
  <2>6. \A d \in room, y \in C!Items : y # x \/ d # c => (Told(d, y)' <=> Told(d, y))
    BY <1>2, <1>3 DEF Told, ChatInv, ChatTypes, C!TypeOK
  <2>7. RoundsAlone'
    BY <1>4, <2>1, <2>2, <2>4 DEF ChatInv, RoundsAlone
  <2>8. RoundsTell'
    <3> SUFFICES ASSUME NEW q \in Handlers, NEW y \in C!Items, C!Telling(q, y)', handler'[q].alone
                 PROVE  /\ handler'[q].at = "deliver" => handler'[q].value = C!Value(y)
                        /\ y \notin mixed' \/ handler'[q].to = Clients =>
                              \A d \in room : Told(d, y)' \/ d \in handler'[q].left
      BY <1>3 DEF RoundsTell
    <3>1. q # r /\ C!Telling(q, y) /\ handler'[q] = handler[q]
      BY <1>4, <2>2
    <3>2. y # x
      BY <1>1, <3>1 DEF ChatInv, RoundsAlone
    <3> QED
      BY <2>5, <2>6, <3>1, <3>2 DEF ChatInv, RoundsTell
  <2>9. AllTold'
    <3> SUFFICES ASSUME NEW y \in C!Items, y \notin mixed', C!Quiet(y)', NEW d \in room
                 PROVE  Told(d, y)'
      BY DEF AllTold
    <3>1. CASE y # x
      <4>1. C!Quiet(y)
        BY <1>1, <2>2, <3>1 DEF C!Quiet
      <4> QED
        BY <2>5, <2>6, <3>1, <4>1 DEF ChatInv, AllTold
    <3>2. CASE y = x
      <4>1. handler[r].alone /\ (x \notin mixed \/ handler[r].to = Clients)
        BY <1>1, <2>1, <3>2 DEF ChatInv, RoundsAlone
      <4>2. /\ value = C!Value(x)
            /\ \A e \in room : Told(e, x) \/ e \in handler[r].left
        BY <1>0, <1>1, <4>1 DEF ChatInv, RoundsTell
      <4>3. c \in room => Told(c, x)'
        BY <1>1, <1>2, <1>3, <4>2 DEF Told
      <4> QED
        BY <1>6, <2>6, <3>2, <4>2, <4>3
    <3> QED
      BY <3>1, <3>2
  <2> QED
    BY <2>3, <2>7, <2>8, <2>9 DEF ChatInv
<1> QED
  BY <1>5, <1>6

LEMMA DiesStep ==
    ASSUME ChatInv, NEW r \in Handlers, C!Dies(r)
    PROVE  ChatInv'
<1> USE DEF C!Dies
<1>1. /\ handler'[r] = C!Idle /\ \A q \in Handlers \ {r} : handler'[q] = handler[q]
      /\ handler' \in [Handlers -> {C!Idle} \cup Inserts \cup Rounds]
  BY DEF ChatInv, ChatTypes
<1>2. \A q \in Handlers, y \in C!Items : C!Telling(q, y)' <=> q # r /\ C!Telling(q, y)
  BY <1>1 DEF C!Telling, C!Idle
<1>3. \A y \in C!Items : y \in mixed' <=> y \in mixed \/ C!Telling(r, y)
  OBVIOUS
<1>4. \A y \in C!Items : C!Value(y)' = C!Value(y)
  BY ItemsDiffer, ValueOf, ValueNext
<1>5. \A d \in room, y \in C!Items : Told(d, y)' <=> Told(d, y)
  BY <1>4 DEF Told
<1>6. ChatTypes'
  <2>1. C!TypeOK'
    BY <1>1 DEF ChatInv, ChatTypes, C!TypeOK
  <2> QED
    BY <1>1, <1>2, <2>1, ItemsDiffer DEF ChatInv, ChatTypes
<1>7. RoundsAlone'
  BY <1>1, <1>2, <1>3 DEF ChatInv, RoundsAlone
<1>8. RoundsTell'
  BY <1>1, <1>2, <1>3, <1>4, <1>5 DEF ChatInv, RoundsTell
<1>9. AllTold'
  <2>1. \A y \in C!Items : y \notin mixed' /\ C!Quiet(y)' => y \notin mixed /\ C!Quiet(y)
    BY <1>2, <1>3 DEF C!Quiet
  <2> QED
    BY <1>5, <2>1 DEF ChatInv, AllTold
<1> QED
  BY <1>6, <1>7, <1>8, <1>9 DEF ChatInv

(* A handler at rest, or about to insert, tells nothing yet.                  *)
LEMMA TellsNothing ==
    ASSUME NEW r \in Handlers, handler[r].at \in {"idle", "insert"}
    PROVE  \A y \in C!Items : ~C!Telling(r, y)
BY DEF C!Telling

LEMMA RoundTypes ==
    ASSUME ChatTypes, NEW r \in Handlers, NEW round \in Rounds, C!StartRound(r, round),
           round.on \in Messages => Clients # {},
           message' \in [Messages -> C!Statuses \cup {"none"}],
           channel' \in {"open", "archived"}, gone' \in BOOLEAN,
           sockets' \subseteq Clients, room' \subseteq sockets',
           shows' \in [Clients -> [C!Items -> Tellable]]
    PROVE  ChatTypes'
<1>1. /\ handler' \in [Handlers -> {C!Idle} \cup Inserts \cup Rounds]
      /\ handler'[r].on = round.on
      /\ \A q \in Handlers \ {r} : \/ handler'[q].at = handler[q].at /\ handler'[q].on = handler[q].on
                                   \/ handler'[q] = handler[q]
      /\ mixed' \in {mixed, mixed \cup {round.on}}
  BY RoundStarted
<1>2. round.on \in C!Items
  BY DEF Rounds
<1>3. C!TypeOK'
  BY <1>1, <1>2 DEF ChatTypes, C!TypeOK
<1>4. \A q \in Handlers, m \in Messages : C!Telling(q, m)' => Clients # {}
  BY <1>1 DEF C!Telling, ChatTypes
<1> QED
  BY <1>1, <1>3, <1>4 DEF ChatTypes

LEMMA SendCheckStep ==
    ASSUME ChatInv, NEW r \in Handlers, NEW m \in Messages, C!SendCheck(r, m)
    PROVE  ChatInv'
<1>1. /\ handler[r].at = "idle"
      /\ handler'[r] = [at |-> "insert", on |-> m]
      /\ \A q \in Handlers \ {r} : handler'[q] = handler[q]
      /\ handler' \in [Handlers -> {C!Idle} \cup Inserts \cup Rounds]
      /\ message' = message /\ channel' = channel /\ gone' = gone /\ sockets' = sockets
      /\ room' = room /\ shows' = shows /\ mixed' = mixed
  BY DEF ChatInv, ChatTypes, C!SendCheck, C!Idle, Inserts
<1>2. \A q \in Handlers, y \in C!Items : C!Telling(q, y)' <=> C!Telling(q, y)
  BY <1>1 DEF C!Telling
<1>3. \A q \in Handlers, y \in C!Items : C!Telling(q, y) => handler'[q] = handler[q]
  BY <1>1 DEF C!Telling
<1>4. \A y \in C!Items : C!Value(y)' = C!Value(y)
  BY <1>1, ItemsDiffer, ValueOf, ValueNext
<1>5. RoundsAlone' /\ RoundsTell' /\ AllTold'
  BY <1>1, <1>2, <1>3, <1>4, NothingTold
<1>6. ChatTypes'
  <2>1. C!TypeOK'
    BY <1>1 DEF ChatInv, ChatTypes, C!TypeOK
  <2> QED
    BY <1>1, <1>2, <2>1, ItemsDiffer DEF ChatInv, ChatTypes
<1> QED
  BY <1>5, <1>6 DEF ChatInv

(* The step after which a message is told, its INSERT or a moderation.         *)
LEMMA AnnounceStep ==
    ASSUME ChatInv, NEW r \in Handlers, handler[r].at \in {"idle", "insert"},
           NEW m \in Messages, NEW to \in C!Statuses,
           message' = [message EXCEPT ![m] = to], C!Announce(r, m),
           UNCHANGED <<channel, gone, sockets, room, shows>>
    PROVE  ChatInv'
<1>1. message \in [Messages -> C!Statuses \cup {"none"}] /\ room \subseteq Clients
  BY DEF ChatInv, ChatTypes, C!TypeOK
<1>2. message' \in [Messages -> C!Statuses \cup {"none"}]
  BY <1>1
<1>3. \A y \in C!Items \ {m} : C!Value(y)' = C!Value(y)
  BY <1>1, ItemsDiffer, ValueOf, ValueNext
<1>4. \A y \in C!Items : ~C!Telling(r, y)
  BY TellsNothing
<1>5. CASE Clients = {}
  <2>1. handler' = [handler EXCEPT ![r] = C!Idle] /\ mixed' = mixed
    BY <1>5 DEF C!Announce, C!Everyone
  <2>2. /\ handler'[r] = C!Idle /\ \A q \in Handlers \ {r} : handler'[q] = handler[q]
        /\ handler' \in [Handlers -> {C!Idle} \cup Inserts \cup Rounds]
    BY <2>1 DEF ChatInv, ChatTypes
  <2>3. \A q \in Handlers, y \in C!Items : C!Telling(q, y)' <=> C!Telling(q, y)
    BY <1>4, <2>2 DEF C!Telling, C!Idle
  <2>4. \A q \in Handlers, y \in C!Items : C!Telling(q, y) => handler'[q] = handler[q] /\ y # m
    BY <1>4, <1>5, <2>2 DEF ChatInv, ChatTypes
  <2>5. ChatTypes'
    <3>1. C!TypeOK'
      BY <1>2, <2>1, <2>2 DEF ChatInv, ChatTypes, C!TypeOK
    <3> QED
      BY <2>2, <2>3, <3>1, ItemsDiffer DEF ChatInv, ChatTypes
  <2>6. RoundsAlone'
    BY <2>1, <2>3, <2>4 DEF ChatInv, RoundsAlone
  <2>7. room' = {}
    BY <1>1, <1>5
  <2>8. RoundsTell'
    BY <1>3, <2>3, <2>4, <2>7 DEF ChatInv, RoundsTell
  <2>9. AllTold'
    BY <2>7 DEF AllTold
  <2> QED
    BY <2>5, <2>6, <2>8, <2>9 DEF ChatInv
<1>6. CASE Clients # {}
  <2>1. PICK round : round = C!ReadThenTell(m, Clients)
    OBVIOUS
  <2>2. C!StartRound(r, round)
    BY <1>6, <2>1 DEF C!Announce, C!Everyone
  <2>3. /\ round \in Rounds /\ round.on = m /\ round.at = "read"
        /\ round.to = Clients /\ round.left = Clients
    BY <2>1, ItemsDiffer DEF C!ReadThenTell, Rounds, Tellable
  <2>4. room' \subseteq Clients /\ room' = room /\ shows' = shows
    BY <1>1
  <2>5. RoundsAlone' /\ RoundsTell' /\ AllTold'
    BY <1>3, <1>4, <2>2, <2>3, <2>4, RoundStarts
  <2>6. ChatTypes'
    <3>1. /\ ChatTypes /\ channel' \in {"open", "archived"} /\ gone' \in BOOLEAN
          /\ sockets' \subseteq Clients /\ room' \subseteq sockets'
          /\ shows' \in [Clients -> [C!Items -> Tellable]]
      BY DEF ChatInv, ChatTypes, C!TypeOK
    <3> QED
      BY <1>2, <1>6, <2>2, <2>3, <3>1, RoundTypes
  <2> QED
    BY <2>5, <2>6 DEF ChatInv
<1> QED
  BY <1>5, <1>6

(* updateChannel: no client's row is told but the channel's.                   *)
LEMMA UpdateChannelStep ==
    ASSUME ChatInv, NEW r \in Handlers, NEW to \in {"open", "archived"}, C!UpdateChannel(r, to)
    PROVE  ChatInv'
<1>1. PICK round : round = C!Tell("channel", Clients, to)
  OBVIOUS
<1>2. /\ C!StartRound(r, round) /\ channel' = to /\ handler[r].at = "idle"
      /\ message' = message /\ gone' = gone /\ sockets' = sockets /\ room' = room /\ shows' = shows
  BY <1>1 DEF C!UpdateChannel, C!Idle
<1>3. /\ round \in Rounds /\ round.on = "channel" /\ round.at = "deliver" /\ round.value = to
      /\ round.to = Clients /\ round.left = Clients
  BY <1>1, ItemsDiffer DEF C!Tell, Rounds, Tellable, C!Values
<1>4. \A y \in C!Items \ {"channel"} : C!Value(y)' = C!Value(y)
  BY <1>2, ItemsDiffer, ValueOf, ValueNext
<1>5. C!Value("channel")' = to
  BY <1>2, ValueNext
<1>6. \A y \in C!Items : ~C!Telling(r, y)
  BY <1>2, TellsNothing
<1>7. room \subseteq Clients
  BY DEF ChatInv, ChatTypes, C!TypeOK
<1>8. RoundsAlone' /\ RoundsTell' /\ AllTold'
  BY <1>2, <1>3, <1>4, <1>5, <1>6, <1>7, RoundStarts
<1>9. ChatTypes'
  <2>1. /\ ChatTypes /\ message' \in [Messages -> C!Statuses \cup {"none"}] /\ gone' \in BOOLEAN
        /\ sockets' \subseteq Clients /\ room' \subseteq sockets'
        /\ shows' \in [Clients -> [C!Items -> Tellable]]
    BY <1>2 DEF ChatInv, ChatTypes, C!TypeOK
  <2> QED
    BY <1>2, <1>3, <2>1, ItemsDiffer, RoundTypes
<1> QED
  BY <1>8, <1>9 DEF ChatInv

(* The room changes, or someone asks who is in: a round of presence starts, to  *)
(* everyone if the members may have changed.                                *)
LEMMA PresenceStep ==
    ASSUME ChatInv, NEW r \in Handlers, handler[r] = C!Idle, NEW to \in SUBSET Clients,
           C!StartRound(r, C!ReadThenTell("presence", to)),
           UNCHANGED <<message, channel, gone>>,
           sockets' \subseteq Clients, room' \subseteq sockets',
           room' = room \/ to = Clients,
           shows' \in [Clients -> [C!Items -> Tellable]],
           \A c \in room' : \/ c \in room /\ shows'[c] = shows[c]
                            \/ shows'[c] = C!AtTheDoor
    PROVE  ChatInv'
<1>1. PICK round : round = C!ReadThenTell("presence", to)
  OBVIOUS
<1>2. /\ round \in Rounds /\ round.on = "presence" /\ round.at = "read"
      /\ round.to = to /\ round.left = to
  BY <1>1, ItemsDiffer DEF C!ReadThenTell, Rounds, Tellable
<1>3. C!StartRound(r, round) /\ room' \subseteq Clients
  BY <1>1
<1>4. \A y \in C!Items \ {"presence"} : C!Value(y)' = C!Value(y)
  BY ItemsDiffer, ValueOf, ValueNext
<1>5. C!Value("presence")' = C!Value("presence") \/ to = Clients
  BY ValueOf, ValueNext
<1>6. \A y \in C!Items : ~C!Telling(r, y)
  BY TellsNothing DEF C!Idle
<1>7. \A c \in room', y \in C!Items :
          \/ c \in room /\ shows'[c][y] = shows[c][y]
          \/ shows'[c][y] = Unknown
          \/ y # "presence" /\ shows'[c][y] = C!Value(y)
  <2> SUFFICES ASSUME NEW c \in room', NEW y \in C!Items, shows'[c] = C!AtTheDoor
               PROVE  \/ shows'[c][y] = Unknown
                      \/ y # "presence" /\ shows'[c][y] = C!Value(y)
    OBVIOUS
  <2> QED
    BY AtTheDoorShows, ItemsDiffer
<1>8. RoundsAlone' /\ RoundsTell' /\ AllTold'
  BY <1>2, <1>3, <1>4, <1>5, <1>6, <1>7, RoundStarts
<1>9. ChatTypes'
  <2>1. /\ ChatTypes /\ message' \in [Messages -> C!Statuses \cup {"none"}]
        /\ channel' \in {"open", "archived"} /\ gone' \in BOOLEAN
    BY DEF ChatInv, ChatTypes, C!TypeOK
  <2> QED
    BY <1>2, <1>3, <2>1, ItemsDiffer, RoundTypes
<1> QED
  BY <1>8, <1>9 DEF ChatInv

(* Steps in which no handler takes part, or none but one at rest.              *)
LEMMA SocketStep ==
    ASSUME ChatInv, UNCHANGED <<message, channel, room, shows, handler, mixed>>,
           gone' \in BOOLEAN, sockets' \subseteq Clients, room \subseteq sockets'
    PROVE  ChatInv'
<1>1. \A q \in Handlers, y \in C!Items : C!Telling(q, y)' <=> C!Telling(q, y)
  BY DEF C!Telling
<1>2. \A y \in C!Items : C!Value(y)' = C!Value(y)
  BY ItemsDiffer, ValueOf, ValueNext
<1>3. RoundsAlone' /\ RoundsTell' /\ AllTold'
  BY <1>1, <1>2, NothingTold
<1>4. ChatTypes'
  BY <1>1, ItemsDiffer DEF ChatInv, ChatTypes, C!TypeOK
<1> QED
  BY <1>3, <1>4 DEF ChatInv

LEMMA PresenceSteps ==
    ASSUME ChatInv, NEW r \in Handlers, NEW c \in Clients,
           C!Join(r, c) \/ C!Leave(r, c) \/ C!WhoIsHere(r, c) \/ C!Disconnect(r, c)
    PROVE  ChatInv'
<1>1. /\ sockets \subseteq Clients /\ room \subseteq sockets
      /\ shows \in [Clients -> [C!Items -> Tellable]] /\ gone \in BOOLEAN
  BY DEF ChatInv, ChatTypes, C!TypeOK
<1>2. CASE C!Join(r, c)
  <2>1. PICK to \in SUBSET Clients : to = IF c \in room THEN {c} ELSE Clients
    OBVIOUS
  <2>2. /\ handler[r] = C!Idle /\ UNCHANGED <<message, channel, gone, sockets>>
        /\ C!StartRound(r, C!ReadThenTell("presence", to))
        /\ room' = room \cup {c} /\ c \in sockets
        /\ shows' = IF c \in room THEN shows ELSE [shows EXCEPT ![c] = C!AtTheDoor]
    BY <1>2, <2>1 DEF C!Join
  <2>3. /\ shows' \in [Clients -> [C!Items -> Tellable]]
        /\ \A d \in room' : (d \in room /\ shows'[d] = shows[d]) \/ shows'[d] = C!AtTheDoor
    BY <1>1, <2>2, AtTheDoorShows
  <2>4. room' = room \/ to = Clients
    BY <2>1, <2>2
  <2> QED
    BY <1>1, <2>2, <2>3, <2>4, PresenceStep
<1>3. CASE C!Leave(r, c)
  BY <1>1, <1>3, PresenceStep DEF C!Leave
<1>4. CASE C!WhoIsHere(r, c)
  BY <1>1, <1>4, PresenceStep DEF C!WhoIsHere
<1>5. CASE C!Disconnect(r, c)
  <2>1. /\ handler[r] = C!Idle /\ UNCHANGED <<message, channel, gone, shows>>
        /\ sockets' = sockets \ {c} /\ room' = room \ {c}
    BY <1>5 DEF C!Disconnect
  <2>2. CASE c \in room
    <3>1. C!StartRound(r, C!ReadThenTell("presence", Clients))
      BY <1>5, <2>2 DEF C!Disconnect, C!LeavingChannels
    <3> QED
      BY <1>1, <2>1, <3>1, PresenceStep
  <2>3. CASE c \notin room
    <3>1. UNCHANGED <<handler, mixed>> /\ room' = room
      BY <1>5, <2>1, <2>3 DEF C!Disconnect, C!LeavingChannels
    <3> QED
      BY <1>1, <2>1, <2>3, <3>1, SocketStep
  <2> QED
    BY <2>2, <2>3
<1> QED
  BY <1>2, <1>3, <1>4, <1>5

LEMMA ChatNext == ChatInv /\ (C!Next \/ UNCHANGED C!vars) => ChatInv'
<1> SUFFICES ASSUME ChatInv, C!Next \/ UNCHANGED C!vars PROVE ChatInv'
  OBVIOUS
<1>1. sockets \subseteq Clients /\ room \subseteq sockets /\ gone \in BOOLEAN
  BY DEF ChatInv, ChatTypes, C!TypeOK
<1>2. ASSUME NEW r \in Handlers, C!Insert(r) PROVE ChatInv'
  <2>1. handler[r].at = "insert" /\ handler[r] \in {C!Idle} \cup Inserts \cup Rounds
    BY <1>2 DEF C!Insert, ChatInv, ChatTypes
  <2>2. handler[r].on \in Messages
    BY <2>1 DEF C!Idle, Inserts, Rounds
  <2> QED
    BY <1>2, <2>1, <2>2, AnnounceStep DEF C!Insert, C!Statuses
<1>3. ASSUME NEW r \in Handlers, NEW m \in Messages, NEW to \in C!Statuses, C!Moderate(r, m, to)
      PROVE  ChatInv'
  <2>1. handler[r].at \in {"idle", "insert"}
    BY <1>3 DEF C!Moderate, C!Idle
  <2>2. /\ message' = [message EXCEPT ![m] = to] /\ C!Announce(r, m)
        /\ UNCHANGED <<channel, gone, sockets, room, shows>>
    BY <1>3 DEF C!Moderate
  <2> QED
    BY <1>3, <2>1, <2>2, AnnounceStep
<1>4. ASSUME NEW c \in Clients, C!Connect(c) PROVE ChatInv'
  BY <1>1, <1>4, SocketStep DEF C!Connect
<1>5. CASE C!RemoveGame
  BY <1>1, <1>5, SocketStep DEF C!RemoveGame
<1>6. CASE UNCHANGED C!vars
  <2>1. UNCHANGED <<message, channel, gone, sockets, room, shows, handler, mixed>>
    BY <1>6 DEF C!vars
  <2> QED
    BY <1>1, <2>1, SocketStep
<1>7. CASE \E r \in Handlers : C!ReadBack(r) \/ C!Insert(r) \/ C!Dies(r)
  BY <1>2, <1>7, ReadBackStep, DiesStep
<1>8. CASE \E r \in Handlers, m \in Messages :
              C!SendCheck(r, m) \/ \E to \in C!Statuses : C!Moderate(r, m, to)
  BY <1>3, <1>8, SendCheckStep
<1>9. CASE \E r \in Handlers, to \in {"open", "archived"} : C!UpdateChannel(r, to)
  BY <1>9, UpdateChannelStep
<1>10. CASE \E r \in Handlers, c \in Clients :
              \/ C!Deliver(r, c) \/ C!Join(r, c) \/ C!Leave(r, c)
              \/ C!WhoIsHere(r, c) \/ C!Disconnect(r, c)
  BY <1>10, DeliverStep, PresenceSteps
<1>11. CASE \E c \in Clients : C!Connect(c)
  BY <1>4, <1>11
<1> QED
  BY <1>5, <1>6, <1>7, <1>8, <1>9, <1>10, <1>11 DEF C!Next

(* In every state of the chat the inductive invariant holds: rounds that nothing *)
(* disturbed tell what is stored, and who has not shown it yet is still to be    *)
(* told.                                                                     *)
THEOREM ChatInvAlways == C!Spec => []ChatInv
BY ChatInit, ChatNext, PTL DEF C!Spec

LEMMA ToldAgree ==
    ASSUME ChatInv, NEW items \in SUBSET C!Items
    PROVE  C!Agree(items)
BY DEF ChatInv, AllTold, Told, C!Agree

(* What a client in the room shows of a message or of the channel is what is     *)
(* stored, once every emit is delivered: unless two writes of the same thing     *)
(* overlapped, or a handler died, and nothing was written since.  For any        *)
(* number of messages, sockets and handlers at work on any replicas.            *)
THEOREM RoomShowsStored == C!Spec => []RoomAgrees
<1>1. ChatInv => RoomAgrees
  BY ToldAgree, ItemsDiffer DEF RoomAgrees, C!RoomAgrees
<1> QED
  BY <1>1, ChatInvAlways, PTL

(* Likewise of the members: whoever joined, left, asked or was dropped, and      *)
(* whatever order the replicas delivered their emits in.                       *)
THEOREM RoomShowsMembers == C!Spec => []PresenceAgrees
<1>1. ChatInv => PresenceAgrees
  BY ToldAgree, ItemsDiffer DEF PresenceAgrees, C!PresenceAgrees
<1> QED
  BY <1>1, ChatInvAlways, PTL
=============================================================================
