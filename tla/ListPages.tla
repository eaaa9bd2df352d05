------------------------------ MODULE ListPages ------------------------------
(***************************************************************************)
(* A client reads one list of the API page by page, while rows of it are     *)
(* created, change their status, and are removed.  Every list but two shows   *)
(* the newest first; all continue below (or above) the id of the last row     *)
(* shown, so that neither what comes nor what goes moves the pages, which is   *)
(* what "stable chronological paging without offsets" asks for.               *)
(*                                                                         *)
(* A row has a status, and a request asks for the rows in some statuses:       *)
(* each list is given by the sets of statuses that can be asked for.  Filters   *)
(* by role, text, actor or date choose rows the way one by status does.         *)
(***************************************************************************)
EXTENDS Pages, Functions

CONSTANTS MaxRows, MaxLimit     \* bounds: rows of a list, length of a page

Ids == 1..MaxRows
Each(S) == {{s} : s \in S}      \* a filter by one status

-----------------------------------------------------------------------------
(* Posts and messages: whatever is moderated may be restored, removed or not.  *)
PostStatus == {"visible", "hidden", "removed"}
ListVisiblePosts    == {{"visible"}}
ListVisibleMessages == {{"visible"}}
CreatePost    == {"visible"}
CreateMessage == {"visible"}
ModeratePost    == [s \in PostStatus |-> PostStatus \ {s}]
ModerateMessage == [s \in PostStatus |-> PostStatus \ {s}]

(* Reviews, audit records and achievements stay as they are; the catalogue of   *)
(* achievements does not grow while the program runs.                       *)
ListReviews      == {{"kept"}}
ListAudit        == {{"kept"}}
ListAchievements == {{"kept"}}
CreateReview == {"kept"}
RecordAudit  == {"kept"}
Stays == [s \in {"kept"} |-> {}]

(* The sessions in the report of a test, once started. *)
ListSessions == {{"kept"}}
StartSession == {"kept"}

(* Channels, archived ones too, oldest first. *)
ListChannels == {{"open", "archived"}}
CreateChannel == {"open"}
UpdateChannel == [s \in {"open", "archived"} |-> {"open", "archived"} \ {s}]

(* Tests as their studio sees them, all, by status or as a tab, and players. *)
TestStatus == {"draft", "published", "paused", "finished"}
ListByGameInOrg == {TestStatus, {"draft", "published", "paused"}} \cup Each(TestStatus)
ListPlayerTests == {{"published", "paused"}}
CreateTest == {"draft"}
SetTestStatus ==
    [s \in TestStatus |-> CASE s = "draft"     -> {"published"}
                            [] s = "published" -> {"paused", "finished"}
                            [] s = "paused"    -> {"published", "finished"}
                            [] OTHER           -> {}]

(* Games and members are soft-deleted, and not shown then. *)
GameStatus == {"draft", "active", "archived"}
ListGames  == {GameStatus} \cup Each(GameStatus)
ListInOrg  == {GameStatus}
UpdateGame == [s \in GameStatus \cup {"deleted"} |->
                  IF s = "deleted" THEN {} ELSE (GameStatus \cup {"deleted"}) \ {s}]

MemberStatus == {"invited", "active", "disabled"}
ListMembers  == {MemberStatus} \cup Each(MemberStatus)
InviteMember == {"invited"}
ChangeMember ==
    [s \in MemberStatus \cup {"deleted"} |->
        CASE s = "invited"  -> {"active", "deleted"}       \* accepted by a reset of the password
          [] s = "active"   -> {"disabled", "deleted"}
          [] s = "disabled" -> {"active", "deleted"}
          [] OTHER          -> {}]

(* The inbox, which no code writes to yet, and what of it is unread. *)
ListNotifications == {{"unread"}, {"unread", "read"}}
MarkRead == [s \in {"unread", "read"} |-> {"read"} \ {s}]

(* A player's participations. *)
PartStatus == {"reserved", "playing", "in_review", "completed", "rejected"}
ListParticipations == {PartStatus} \cup Each(PartStatus)
Join == {"reserved"}
PlayOn ==
    [s \in PartStatus |-> CASE s = "reserved"  -> {"playing"}
                            [] s = "playing"   -> {"in_review", "rejected"}
                            [] s = "in_review" -> {"completed", "rejected"}
                            [] OTHER           -> {}]

List(asked, new, moves) == [asked |-> asked, new |-> new, moves |-> moves]
Lists ==
    [posts          |-> List(ListVisiblePosts, CreatePost, ModeratePost),
     messages       |-> List(ListVisibleMessages, CreateMessage, ModerateMessage),
     reviews        |-> List(ListReviews, CreateReview, Stays),
     audit          |-> List(ListAudit, RecordAudit, Stays),
     achievements   |-> List(ListAchievements, {}, Stays),
     channels       |-> List(ListChannels, CreateChannel, UpdateChannel),
     tests          |-> List(ListByGameInOrg, CreateTest, SetTestStatus),
     playerTests    |-> List(ListPlayerTests, CreateTest, SetTestStatus),
     games          |-> List(ListGames, GameStatus, UpdateGame),
     recentGames    |-> List(ListInOrg, GameStatus, UpdateGame),
     members        |-> List(ListMembers, InviteMember, ChangeMember),
     notifications  |-> List(ListNotifications, {}, MarkRead),
     participations |-> List(ListParticipations, Join, PlayOn),
     sessions       |-> List(ListSessions, StartSession, Stays)]
Ascending == {"channels", "achievements"}

-----------------------------------------------------------------------------
VARIABLES
    list, asked,   \* which list, and the statuses asked for: chosen once
    row,           \* the status of each id, or "none"
    cursor, walk,  \* of the client: before its first page, turning, or at the end
    seen,          \* the ids it was shown, in order
    due            \* history: rows that could be shown ever since they lay ahead of it

vars == <<list, asked, row, cursor, walk, seen, due>>

Listed(r) == {i \in Ids : r[i] \in asked}
Up == list \in Ascending
Ahead == IF walk = "end" THEN {} ELSE Beyond(Ids, cursor, Up)

Init ==
    /\ list \in DOMAIN Lists
    /\ asked \in Lists[list].asked
    /\ row \in [Ids -> DOMAIN Lists[list].moves \cup {"none"}]
    /\ cursor = NoCursor /\ walk = "before" /\ seen = <<>>
    /\ due = Listed(row)

TypeOK ==
    /\ row \in [Ids -> DOMAIN Lists[list].moves \cup {"none"}]
    /\ cursor \in Ids \cup {NoCursor} /\ walk \in {"before", "turning", "end"}
    /\ seen \in Seq(Ids) /\ due \subseteq Ids

(* The next page, of any length the client asks for: the rows are read in one  *)
(* query.                                                                    *)
TurnPage(limit) ==
    /\ walk # "end"
    /\ LET page == PageOf(Listed(row), cursor, limit, Up) IN
       /\ seen' = seen \o page.data
       /\ cursor' = page.nextCursor
       /\ walk' = IF page.nextCursor = NoCursor THEN "end" ELSE "turning"
    /\ UNCHANGED <<list, asked, row, due>>

Becomes(i, s) ==
    /\ row' = [row EXCEPT ![i] = s]
    /\ due' = (due \cup Ahead) \cap Listed(row')
    /\ UNCHANGED <<list, asked, cursor, walk, seen>>

(* primaryId makes an id before its INSERT, on any replica: a row that comes    *)
(* late, or from a clock that is behind, is older than some that are there.   *)
Create(i) == row[i] = "none" /\ \E s \in Lists[list].new : Becomes(i, s)

Change(i) == row[i] # "none" /\ \E s \in Lists[list].moves[row[i]] : Becomes(i, s)

Next ==
    \/ \E limit \in 1..MaxLimit : TurnPage(limit)
    \/ \E i \in Ids : Create(i) \/ Change(i)

Spec == Init /\ [][Next]_vars

-----------------------------------------------------------------------------
(* Whatever happens between two pages, the client sees rows in the order of    *)
(* their ids, none twice, and by the end has seen every row that lay ahead of   *)
(* it and could be shown from then on: also the rows that came meanwhile.     *)
WalkSeesEachOnce ==
    /\ \A j \in 2..Len(seen) : Comes(seen[j - 1], seen[j], Up)
    /\ walk = "end" => due \subseteq Range(seen)

(* Between two pages the client holds the last id it saw, and what it is owed   *)
(* is behind it or still ahead.                                              *)
WalkInv ==
    /\ seen \in Seq(Ids) /\ due \subseteq Listed(row)
    /\ walk = "before" => cursor = NoCursor /\ seen = <<>>
    /\ walk = "turning" => seen # <<>> /\ cursor = seen[Len(seen)]
    /\ \A j \in 2..Len(seen) : Comes(seen[j - 1], seen[j], Up)
    /\ due \subseteq Range(seen) \cup Ahead
==============================================================================
