------------------------------- MODULE Studio --------------------------------
(* What the requests of a studio change, and what its players are shown: the    *)
(* images of a game, the members of the organisation, the groups and            *)
(* permissions of a game, and the feed.  GameAssets, OrgMembers, GroupAccess    *)
(* and PlayerFeed side by side; they share no state.                           *)
EXTENDS GameAssets, OrgParameters

CONSTANTS Groups, Users, Games, Statuses, Limit, FeedMaxItems

(* Groups and members have ids of their own, and "game" is the id of neither.   *)
ASSUME FeedAssumption == Limit \in Nat \ {0} /\ FeedMaxItems \in Nat
ASSUME GroupsAssumption == Groups \cap Users = {} /\ "game" \notin Groups

VARIABLES role, status, deleted, tx
O == INSTANCE OrgMembers WITH req <- tx
orgVars == <<role, status, deleted, tx>>

VARIABLES group, lists, accessReq, asked, clean
G == INSTANCE GroupAccess WITH rows <- lists, req <- accessReq
groupVars == <<group, lists, accessReq, asked, clean>>

VARIABLES games, gameStatus, removed, snapshot, valid, cursor, page, scroll, steady
F == INSTANCE PlayerFeed WITH status <- gameStatus
feedVars == <<games, gameStatus, removed, snapshot, valid, cursor, page, scroll, steady>>

OwnerSurvivesCount == O!OwnerSurvivesCount
AccessIsOneList    == G!AccessIsOneList
FeedShowsEachOnce  == F!FeedShowsEachOnce
=============================================================================
