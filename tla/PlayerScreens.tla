----------------------------- MODULE PlayerScreens -----------------------------
(***************************************************************************)
(* What a player is shown of tests and participations, as queries over the  *)
(* rows of SessionLifecycle: what can be done with a test, a participation  *)
(* and its result, the Home and the progress.  Each screen comes from       *)
(* queries of its own in one of four modules, and none of them writes.  A   *)
(* screen is taken at one moment: its queries run side by side, and what is *)
(* committed between two of them shows at the next call.                    *)
(* Rewards are counted, not added up; pages but the Home's are longer than   *)
(* any list here.                                                          *)
(***************************************************************************)
EXTENDS SessionLifecycle

CONSTANT PartId    \* participations.id, a UUIDv7: later rows have greater ids

NoPart == [none |-> TRUE]

ASSUME PartIdAssumption ==
    /\ PartId \in [Parts -> Nat]
    /\ \A p, q \in Parts : UserOf[p] = UserOf[q] /\ PartId[p] = PartId[q] => p = q
    /\ \A p \in Parts : p # NoPart

Newest(P) == IF P = {} THEN NoPart ELSE CHOOSE p \in P : \A q \in P : PartId[q] <= PartId[p]
PartsOf(u) == {p \in Parts : Present(p) /\ UserOf[p] = u}

-----------------------------------------------------------------------------
(* Tests.  "over" stands for finished and for published but expired; expired  *)
(* is the set of the latter.                                                 *)
ReasonBesidesSlots(t) ==    \* mutant: a full test is open
    IF testStatus[t] = "published" THEN "none" ELSE testStatus[t]
TestUnavailableReason(t) ==
    CASE testStatus[t] # "published"      -> testStatus[t]
      [] slotsTaken[t] >= SlotsTotal[t]   -> "full"
      [] OTHER                            -> "none"

(* An active participation wins over the test's availability; a rejected one  *)
(* counts as none.                                                           *)
TestCta(status, reason) ==
    CASE status \in {"completed", "in_review"} -> status
      [] status \in {"reserved", "playing"}    -> "continue"
      [] OTHER -> IF reason = "none" THEN "start" ELSE "unavailable"

FindLatestParticipation(u, t) == Newest({p \in PartsOf(u) : TestOf[p] = t})
StatusOf(p) == IF p = NoPart THEN "none" ELSE pStatus[p]
SpotsLeft(t) == IF slotsTaken[t] < SlotsTotal[t] THEN SlotsTotal[t] - slotsTaken[t] ELSE 0

FindOpenTests(T) == {t \in T : testStatus[t] = "published" /\ slotsTaken[t] < SlotsTotal[t]}
ListPlayerTests(T, expired) == {t \in T : testStatus[t] \in {"published", "paused"} \/ t \in expired}
GetGame(T) == [openTests |-> Cardinality(FindOpenTests(T))]

-----------------------------------------------------------------------------
(* A participation, and its result. *)
OpenSessions(p) == {s \in Sessions : PartOf[s] = p /\ sStatus[s] \in OpenForStart}
FindOpenSession(p) == IF OpenSessions(p) = {} THEN NoSession ELSE CHOOSE s \in OpenSessions(p) : TRUE

SessionStatus(s) ==
    CASE sStatus[s] \in Unfinished    -> "active"
      [] sStatus[s] = "processing"    -> "in_review"
      [] sStatus[s] = "invalidated"   -> "abandoned"
      [] sStatus[s] = "completed"     -> IF verdict[s] = "none" THEN "in_review" ELSE verdict[s]

SessionView(s) == [status |-> SessionStatus(s), invalidReason |-> verdict[s] = "invalid"]

SessionsOf(p) == {s \in Sessions : PartOf[s] = p /\ sStatus[s] # "absent"}
View(p) ==
    [status           |-> pStatus[p],
     currentSessionId |-> FindOpenSession(p),
     consentsGranted  |-> p \in consented,
     started          |-> SessionsOf(p) # {},
     completed        |-> pStatus[p] = "completed" /\ \E s \in SessionsOf(p) : sStatus[s] \in Closed]

(* The view of a page of participations, from its own batch of queries.        *)
Listed(p) ==
    LET range == [startedAt |-> SessionsOf(p) # {},
                  endedAt |-> \E s \in SessionsOf(p) : sStatus[s] \in Closed] IN
    [status           |-> pStatus[p],
     currentSessionId |-> IF OpenSessions(p) = {} THEN NoSession
                          ELSE CHOOSE s \in OpenSessions(p) : TRUE,
     consentsGranted  |-> p \in consented,
     started          |-> range.startedAt,
     completed        |-> pStatus[p] = "completed" /\ range.endedAt]

TestView(u, t) ==
    LET p == FindLatestParticipation(u, t) IN
    [cta           |-> TestCta(StatusOf(p), TestUnavailableReason(t)),
     spotsLeft     |-> SpotsLeft(t),
     participation |-> IF p = NoPart THEN NoPart ELSE View(p)]

FindOpenSessionOnly(p) == FindOpenSession(p)    \* mutant: a closed session is not looked for
FindOpenOrLastSession(p) ==
    IF OpenSessions(p) # {} THEN FindOpenSession(p)
    ELSE IF SessionsOf(p) # {} THEN CHOOSE s \in SessionsOf(p) : TRUE ELSE NoSession
SumXpForSession(s) == Cardinality({s} \cap xp)

Result(p) ==
    LET s == FindOpenOrLastSession(p)
        found == IF s = NoSession THEN "none" ELSE verdict[s] IN
    CASE found = "none"    -> [status |-> "in_review", xpEarned |-> 0]
      [] found = "invalid" -> [status |-> "rejected", xpEarned |-> 0]
      [] found = "valid"   -> [status |-> "completed", xpEarned |-> SumXpForSession(s)]

-----------------------------------------------------------------------------
(* Home and progress.  live is the set of tests whose game is not removed. *)
IsFinished(status) == status \in {"completed", "rejected", "abandoned"}
ListForUser(u, limit) ==
    {p \in PartsOf(u) : Cardinality({q \in PartsOf(u) : PartId[q] > PartId[p]}) < limit}
HomePage == 4
ValidatedRewards(u) ==
    {s \in Sessions : sStatus[s] # "absent" /\ UserOf[PartOf[s]] = u /\ verdict[s] = "valid"}
Home(u, live) ==
    LET shown == {p \in ListForUser(u, HomePage) : TestOf[p] \in live} IN
    [continuing |-> Newest({p \in shown : ~IsFinished(pStatus[p])}),
     tests      |-> shown,
     rewards    |-> Cardinality(ValidatedRewards(u))]

SumXp(u) == Cardinality({s \in xp : UserOf[PartOf[s]] = u})
SessionStats(u) ==
    {TestOf[PartOf[s]] : s \in {x \in Sessions : /\ UserOf[PartOf[x]] = u
                                                 /\ sStatus[x] = "completed"
                                                 /\ verdict[x] = "valid"}}
Progress(u) == [xp |-> SumXp(u), testsCompleted |-> Cardinality(SessionStats(u))]

-----------------------------------------------------------------------------
(* A player who completed the test and has a later participation in it got in *)
(* by a join that was checked before (CompletedTakesNoSlot).                 *)
Rejoined(u, t) ==
    \E p, q \in PartsOf(u) : /\ TestOf[p] = t /\ TestOf[q] = t
                             /\ pStatus[p] = "completed" /\ PartId[p] < PartId[q]

(* What a test's screen offers is what a request for it would do: "start" is   *)
(* shown where a join goes through, the player's age apart, and nowhere else, *)
(* "continue" and "in_review" just while a participation holds a slot, and    *)
(* the number of open tests in the game's header, computed by another query   *)
(* that player-cta.ts asks to "keep in sync", is that of the tests one could *)
(* start.                                                                    *)
OffersAreTrue(u, view) ==
    \A t \in Tests :
        LET cta == view[t].cta IN
        /\ cta \in {"continue", "in_review"} <=> HasActive(u, t)
        /\ cta = "completed" => HasCompleted(u, t)
        /\ cta = "start" => SlotIsFree(t) /\ view[t].spotsLeft > 0
        /\ ~Rejoined(u, t) =>
              (cta = "start" <=> SlotIsFree(t) /\ ~HasActive(u, t) /\ ~HasCompleted(u, t))
HeaderAgrees ==
    \A expired \in SUBSET {t \in Tests : testStatus[t] = "over"} :
        GetGame(Tests).openTests =
            Cardinality({t \in ListPlayerTests(Tests, expired) : TestUnavailableReason(t) = "none"})

(* A participation reads the same on every screen: its result agrees with its  *)
(* status, a session is open while it is played or reviewed unless the sweep  *)
(* closed it, and then it reads as abandoned.                                *)
ReadsAlike(p, view, found) ==
    /\ Listed(p) = view
    /\ Result(p).status = IF view.status \in Settled THEN view.status ELSE "in_review"
    /\ view.started <=> view.status # "reserved"
    /\ view.completed <=> view.status = "completed"
    /\ view.currentSessionId # NoSession =>
          SessionView(view.currentSessionId).status = IF view.status = "playing" THEN "active"
                                                                                ELSE "in_review"
    /\ view.status = "rejected" => SessionView(found).invalidReason
    /\ view.status = "in_review" => view.currentSessionId # NoSession
    /\ view.status = "playing" /\ view.currentSessionId = NoSession =>
          found # NoSession /\ SessionView(found).status = "abandoned"
ParticipationReadsAlike ==
    \A p \in Parts : Present(p) => ReadsAlike(p, View(p), FindOpenOrLastSession(p))

(* The Home continues what some test's screen would continue, unless that is    *)
(* further back than the participations it looks at, and rewards and progress *)
(* count what the participations say: a reward per completed participation, a *)
(* completed test and its XP once.                                           *)
HomeReadsAlike(u, view) ==
    /\ \A live \in SUBSET Tests :
          LET home == Home(u, live) IN
          /\ Cardinality(PartsOf(u)) <= HomePage =>
                (home.continuing = NoPart <=>
                    \A t \in live : view[t].cta \notin {"continue", "in_review"})
          /\ home.rewards = Cardinality({p \in PartsOf(u) : Result(p).status = "completed"})
    /\ LET progress == Progress(u) IN
       /\ progress.testsCompleted = Cardinality({t \in Tests : HasCompleted(u, t)})
       /\ progress.xp = progress.testsCompleted

(* The offers of the tests' screens, and the Home beside them.               *)
PlayerScreensAgree ==
    /\ HeaderAgrees
    /\ \A u \in Users :
          LET view == [t \in Tests |-> TestView(u, t)] IN
          OffersAreTrue(u, view) /\ HomeReadsAlike(u, view)

-----------------------------------------------------------------------------
(* What the screens rest on besides Coherent.                                *)

(* A UUIDv7 starts with the time it is made at: the row a player gets is the  *)
(* latest of that player's.  SessionLifecycle lets a row take any free id.   *)
IdsGrow ==
    \A p, q \in Parts :
        UserOf[p] = UserOf[q] /\ ~Present(p) /\ Present(p)' /\ Present(q) => PartId[q] < PartId[p]

(* A participation past its reservation has been played. *)
PlayedHasSession == \A p \in Parts : Present(p) /\ pStatus[p] # "reserved" => SessionsOf(p) # {}

(* The latest participation is the one that is active, if any is: the query   *)
(* for it asks for the latest alone.                                         *)
ActiveIsLatest ==
    \A p, q \in Parts :
        SamePlayerAndTest(p, q) /\ pStatus[p] \in Active /\ Present(q) => PartId[q] <= PartId[p]

ScreensInv == PlayedHasSession /\ ActiveIsLatest
=============================================================================
