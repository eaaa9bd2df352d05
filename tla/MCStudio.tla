------------------------------ MODULE MCStudio ------------------------------
(* Small instances of the parts of Studio, in which its requests race each      *)
(* other and the players' pages.  They share no state, so each part moves      *)
(* while the others are where they start, and their states add up.             *)
EXTENDS Studio, TLC

(* Two covers and a screenshot.                                              *)
MCKindOf == [c1 |-> "cover", c2 |-> "cover", s1 |-> "screenshot"]

(* Either one member has an invitation pending, and then one transaction is    *)
(* in flight, or one was removed, or one of the transactions in flight gives  *)
(* anyone anything.                                                          *)
MCFewMembers ==
    LET invited == {m \in Members : status'[m] = "invited"}
        inFlight == {r \in Requests : tx'[r] # O!Idle} IN
    /\ Cardinality(invited \cup deleted') +
       Cardinality({r \in inFlight : ~O!TakesAway(tx'[r].op)}) <= 1
    /\ invited # {} => Cardinality(inFlight) <= 1

(* Covers and screenshots are not both uploaded; the URL of a cover stays open, *)
(* they are asked for in order, and only the first is ever a bad object or    *)
(* held by two requests at once.                                             *)
MCFewUploads ==
    LET Covers == {k \in Keys : KindOf[k] \in Unique} IN
    /\ \A k \in Keys \ Covers, l \in Covers : url'[k] = "new" \/ url'[l] = "new"
    /\ url'["c2"] # "new" => url'["c1"] # "new"
    /\ \A k \in Covers : url'[k] # "expired"
    /\ object'["c2"] # "bad" /\ "c2" \notin raced'

(* Games are created in order.                                                *)
MCGamesInOrder == games' = [i \in DOMAIN games' |-> i]

MCInit == Init /\ O!Init /\ G!Init /\ F!Init
MCNext ==
    \/ O!Init /\ G!Init /\ F!Init /\ Next /\ UNCHANGED <<orgVars, groupVars, feedVars>>
    \/ Init /\ G!Init /\ F!Init /\ O!Next /\ UNCHANGED <<vars, groupVars, feedVars>>
    \/ Init /\ O!Init /\ F!Init /\ G!Next /\ UNCHANGED <<vars, orgVars, feedVars>>
    \/ Init /\ O!Init /\ G!Init /\ F!Next /\ UNCHANGED <<vars, orgVars, groupVars>>
MCSpec == MCInit /\ [][MCNext]_<<vars, orgVars, groupVars, feedVars>>

MCSymmetry == Permutations(Requests) \cup Permutations(Members \ {Founder})
=============================================================================
