------------------------------ MODULE PlayerFeed ------------------------------
(***************************************************************************)
(* The games of the studios, and the feed one player scrolls through         *)
(* (modules/games, modules/player).  The first page freezes the ranking of   *)
(* the active games in a snapshot named by a seed; the next ones take theirs *)
(* from it by offset, while studios go on creating, changing and removing    *)
(* games.  A seed that lapsed is answered with a new ranking at the same     *)
(* offset.                                                                   *)
(* A slug only decides which creations and changes are refused; the order of *)
(* created_at is that of the inserts.                                        *)
(***************************************************************************)
EXTENDS Integers, Sequences, FiniteSets, SequencesExt

CONSTANTS Games, Statuses, Limit, FeedMaxItems

VARIABLES
    games,      \* the games, in the order of created_at
    status,     \* of each game
    removed,    \* deleted_at is set
    snapshot,   \* item_ids of the player's snapshot
    valid,      \* it has not expired
    cursor,     \* offset the client has for its next page, 0 when there is none
    page,       \* games of the page being looked up, in order
    scroll,     \* history: the games shown since the client began at the top
    steady      \* history: the seed has not lapsed since

vars == <<games, status, removed, snapshot, valid, cursor, page, scroll, steady>>
gameVars == <<games, status, removed>>
feedVars == <<snapshot, valid, cursor, page, scroll, steady>>

TypeOK ==
    /\ games \in Seq(Games) /\ IsInjective(games)
    /\ status \in [Games -> Statuses]
    /\ removed \subseteq ToSet(games)
    /\ snapshot \in Seq(Games) /\ Len(snapshot) <= FeedMaxItems
    /\ valid \in BOOLEAN
    /\ cursor \in 0..FeedMaxItems
    /\ page \in Seq(Games) /\ Len(page) <= Limit
    /\ scroll \in Seq(Games)
    /\ steady \in BOOLEAN

Init ==
    /\ games = << >>
    /\ status = [g \in Games |-> "draft"]
    /\ removed = {}
    /\ snapshot = << >>
    /\ valid = FALSE
    /\ cursor = 0
    /\ page = << >>
    /\ scroll = << >>
    /\ steady = TRUE

-----------------------------------------------------------------------------
(* The studios.  A change that moves the status of a game takes it from the   *)
(* row of a game that is not removed when the UPDATE looks.                  *)
Create(g, s) ==
    /\ g \notin ToSet(games)
    /\ games' = Append(games, g)
    /\ status' = [status EXCEPT ![g] = s]
    /\ UNCHANGED <<removed, feedVars>>

Live == ToSet(games) \ removed

Update(g, s) ==
    /\ g \in Live
    /\ status' = [status EXCEPT ![g] = s]
    /\ UNCHANGED <<games, removed, feedVars>>

RemoveGame(g) ==
    /\ g \in Live
    /\ removed' = removed \cup {g}
    /\ UNCHANGED <<games, status, feedVars>>

-----------------------------------------------------------------------------
(* The feed. *)
IsShown(g) == g \in Live /\ status[g] = "active"

(* The newest game shown first, and no more of them than the feed holds.       *)
ListActive ==
    LET shown  == {i \in DOMAIN games : IsShown(games[i])}
        Nth(n) == CHOOSE i \in shown : Cardinality({j \in shown : j > i}) = n - 1
        count  == Cardinality(shown)
    IN [n \in 1..(IF count < FeedMaxItems THEN count ELSE FeedMaxItems) |-> games[Nth(n)]]

RanksAgain(seed) == FALSE    \* mutant: every page is ranked anew
FindValidSnapshot(seed) == seed /\ valid

(* The page at an offset of the snapshot found, or of a new one.              *)
Page(offset, n, seed) ==
    LET found == FindValidSnapshot(seed)
        items == IF found THEN snapshot ELSE ListActive IN
    /\ snapshot' = items
    /\ valid' = TRUE
    /\ page' = SubSeq(items, offset + 1, IF offset + n < Len(items) THEN offset + n ELSE Len(items))
    /\ cursor' = IF offset + n < Len(items) THEN offset + n ELSE 0

(* A client that begins, or begins again, has no seed; one that goes on sends   *)
(* the one it was given.                                                     *)
BeginScroll(n) ==
    /\ page = << >>
    /\ Page(0, n, FALSE)
    /\ scroll' = << >>
    /\ steady' = TRUE
    /\ UNCHANGED gameVars

GoOn(n) ==
    /\ page = << >>
    /\ cursor # 0
    /\ Page(cursor, n, TRUE)
    /\ steady' = (steady /\ valid)
    /\ UNCHANGED <<scroll, gameVars>>

(* getGameOrNull: a game removed since is skipped, and its status is not read.  *)
LookUp ==
    /\ page # << >>
    /\ scroll' = IF Head(page) \in removed THEN scroll ELSE Append(scroll, Head(page))
    /\ page' = Tail(page)
    /\ UNCHANGED <<snapshot, valid, cursor, steady, gameVars>>

SnapshotExpires ==
    /\ valid
    /\ valid' = FALSE
    /\ UNCHANGED <<snapshot, cursor, page, scroll, steady, gameVars>>

Next ==
    \/ \E g \in Games, s \in Statuses : Create(g, s) \/ Update(g, s)
    \/ \E g \in Games : RemoveGame(g)
    \/ \E n \in 1..Limit : BeginScroll(n) \/ GoOn(n)
    \/ LookUp
    \/ SnapshotExpires

Spec == Init /\ [][Next]_vars

-----------------------------------------------------------------------------
(* Whatever studios do meanwhile, a scroll whose seed does not lapse shows no   *)
(* game twice, and at its end has shown every game of the snapshot but those  *)
(* removed since (docs/BACKEND-SPEC.md:394).                                 *)
FeedShowsEachOnce ==
    steady =>
        /\ IsInjective(scroll \o page)
        /\ cursor = 0 /\ page = << >> => ToSet(snapshot) \ removed \subseteq ToSet(scroll)
=============================================================================
