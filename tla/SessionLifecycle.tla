--------------------------- MODULE SessionLifecycle ---------------------------
(***************************************************************************)
(* The life of a play-test: a player reserves a slot, starts a session,    *)
(* sends heartbeats, finishes (or falls silent), and the worker validates  *)
(* the session and credits XP.  Three kinds of process share the database, *)
(* Redis and the queue:                                                    *)
(*   - API requests (join, consents, start, heartbeat, finish), one action *)
(*     per awaited call that another process can observe;                  *)
(*   - runs of the session.validate job, one or more per job;              *)
(*   - the reconcile sweep.                                                *)
(* Postgres runs READ COMMITTED: a SELECT is one action, and so is the     *)
(* statement that decides a transaction together with its commit.          *)
(* A row id is pre-assigned its foreign keys by UserOf, TestOf and PartOf; *)
(* inserting a row takes any id still "absent" with the wanted keys.       *)
(***************************************************************************)
EXTENDS Integers, FiniteSets

CONSTANTS
    Users, Tests,
    Parts,          \* ids a participations row can take
    Sessions,       \* ids a sessions row can take
    UserOf, TestOf, \* participations.user_id, participations.test_id
    PartOf,         \* sessions.participation_id
    SlotsTotal,     \* tests.slots_total, fixed once the test is published
    Requests,       \* API requests that may be in flight at once
    Workers,        \* concurrent runs of session.validate
    Sweepers,       \* concurrent runs of the reconcile sweep
    NoSession,
    MaxJobRuns,     \* MAX_JOB_RUNS of ensure-enqueued.ts
    MaxFaults       \* bound: failed, stalled or killed job runs per behaviour

ASSUME RowsAssumption ==
    /\ IsFiniteSet(Parts) /\ IsFiniteSet(Sessions)
    /\ UserOf \in [Parts -> Users]
    /\ TestOf \in [Parts -> Tests]
    /\ PartOf \in [Sessions -> Parts]
    /\ SlotsTotal \in [Tests -> Nat]
    /\ NoSession \notin Sessions
ASSUME BoundsAssumption == MaxJobRuns \in Nat \ {0} /\ MaxFaults \in Nat

VARIABLES
    testStatus,  \* tests.status once published; "over": finished, or ends_at has passed
    slotsTaken,  \* tests.slots_taken
    pStatus,     \* participations.status, "absent" before the INSERT
    consented,   \* participations whose required consents are on record
    sStatus,     \* sessions.status, "absent" before the INSERT
    played,      \* sessions.duration_ms > 0
    beat,        \* the Redis heartbeat key of a session
    recFailed,   \* some recording of the session has status failed
    verdict,     \* the session_validations row
    xp,          \* sessions with a row in xp_events
    job,         \* the session.validate job in BullMQ
    fails,       \* its attemptsMade
    locks,       \* workers whose run holds the BullMQ lock of its job
    req, run, sweep, faults

dbVars    == <<testStatus, slotsTaken, pStatus, consented, sStatus, played, recFailed, verdict,
               xp>>
queueVars == <<job, fails, locks>>
vars      == <<testStatus, slotsTaken, pStatus, consented, sStatus, played, beat, recFailed,
               verdict, xp, job, fails, locks, req, run, sweep, faults>>

-----------------------------------------------------------------------------
(* Statuses.  Values the code lists but nothing in src/ writes (participation *)
(* tutorial, downloading, ready, form_pending, abandoned; session paused,     *)
(* finishing; test expired) are left out of the sets.                         *)
Active     == {"reserved", "playing", "in_review"}
Settled    == {"completed", "rejected"}
StartableTwice == {"reserved", "playing"}    \* mutant: the claim does not exclude a second start
Startable  == {"reserved"}
Unfinished == {"starting", "recording"}
OpenForStart == Unfinished \cup {"processing"}
Closed     == {"processing", "completed", "invalidated"}

KeyGone  == {"unset", "expired"}    \* what EXISTS = 0 stands for
Present(p) == pStatus[p] # "absent"
Rows(t)    == {p \in Parts : Present(p) /\ TestOf[p] = t}
SamePlayerAndTest(p, q) == UserOf[p] = UserOf[q] /\ TestOf[p] = TestOf[q]
HasActive(u, t) ==
    \E p \in Parts : UserOf[p] = u /\ TestOf[p] = t /\ pStatus[p] \in Active
HasCompleted(u, t) ==
    \E p \in Parts : UserOf[p] = u /\ TestOf[p] = t /\ pStatus[p] = "completed"
XpOf(u, t) == {s \in xp : UserOf[PartOf[s]] = u /\ TestOf[PartOf[s]] = t}

Idle     == [at |-> "idle"]
SweepIdle == [at |-> "idle", todo |-> {}, cur |-> NoSession]

RequestState ==
    {Idle}
    \cup [at : {"reserve"}, user : Users, test : Tests]
    \cup [at : {"claim"}, part : Parts]
    \cup [at : {"firstBeat"}, sess : Sessions]
    \cup [at : {"touch"}, sess : Sessions, starting : BOOLEAN]
    \cup [at : {"markRecording", "delBeat", "enqueue"}, sess : Sessions]
RunState ==
    {Idle}
    \cup [at : {"judge", "done"}, sess : Sessions]
    \cup [at : {"begin"}, sess : Sessions, valid : BOOLEAN]
    \cup [at : {"commit"}, sess : Sessions, valid : BOOLEAN, rewarded : BOOLEAN]
SweepState ==
    [at : {"idle", "visit", "reensure"}, todo : SUBSET Sessions, cur : {NoSession}]
    \cup [at : {"close", "ensure"}, todo : SUBSET Sessions, cur : Sessions]

TypeOK ==
    /\ testStatus \in [Tests -> {"published", "paused", "over"}]
    /\ slotsTaken \in [Tests -> Nat]
    /\ pStatus \in [Parts -> {"absent"} \cup Active \cup Settled]
    /\ consented \in SUBSET Parts
    /\ sStatus \in [Sessions -> {"absent"} \cup Unfinished \cup Closed]
    /\ played \in [Sessions -> BOOLEAN]
    /\ beat \in [Sessions -> {"live"} \cup KeyGone]
    /\ recFailed \in [Sessions -> BOOLEAN]
    /\ verdict \in [Sessions -> {"none", "valid", "invalid"}]
    /\ xp \in SUBSET Sessions
    /\ job \in [Sessions -> {"none", "waiting", "active", "completed", "failed"}]
    /\ fails \in [Sessions -> 0..MaxJobRuns]
    /\ locks \in SUBSET Workers
    /\ req \in [Requests -> RequestState]
    /\ run \in [Workers -> RunState]
    /\ sweep \in [Sweepers -> SweepState]
    /\ faults \in Nat

Init ==
    /\ testStatus = [t \in Tests |-> "published"]
    /\ slotsTaken = [t \in Tests |-> 0]
    /\ pStatus = [p \in Parts |-> "absent"]
    /\ consented = {}
    /\ sStatus = [s \in Sessions |-> "absent"]
    /\ played = [s \in Sessions |-> FALSE]
    /\ beat = [s \in Sessions |-> "unset"]
    /\ recFailed = [s \in Sessions |-> FALSE]
    /\ verdict = [s \in Sessions |-> "none"]
    /\ xp = {}
    /\ job = [s \in Sessions |-> "none"]
    /\ fails = [s \in Sessions |-> 0]
    /\ locks = {}
    /\ req = [r \in Requests |-> Idle]
    /\ run = [w \in Workers |-> Idle]
    /\ sweep = [w \in Sweepers |-> SweepIdle]
    /\ faults = 0

-----------------------------------------------------------------------------
(* The job queue, as ensureJobEnqueued leaves it: a job that is missing is   *)
(* added, a failed one is retried until it has failed MaxJobRuns times, any  *)
(* other is left alone.                                                      *)
EnsuredJob(s) ==
    IF job[s] = "none" \/ (job[s] = "failed" /\ fails[s] < MaxJobRuns)
    THEN [job EXCEPT ![s] = "waiting"]
    ELSE job

-----------------------------------------------------------------------------
(* The studio and the clock.                                                 *)

(* PATCH /tests/:id/status between published and paused, and to finished;    *)
(* ends_at passing has the same effect on joins and starts as finished.      *)
SetTestStatus(t, status) ==
    /\ testStatus[t] \in {"published", "paused"} \ {status}
    /\ testStatus' = [testStatus EXCEPT ![t] = status]
    /\ UNCHANGED <<slotsTaken, pStatus, consented, sStatus, played, beat, recFailed, verdict, xp,
                   queueVars, req, run, sweep, faults>>

(* The heartbeat key's 60 s run out without a SET renewing it. *)
BeatExpires(s) ==
    /\ beat[s] = "live"
    /\ beat' = [beat EXCEPT ![s] = "expired"]
    /\ UNCHANGED <<dbVars, queueVars, req, run, sweep, faults>>

-----------------------------------------------------------------------------
(* API requests.  A request that answers 4xx before it wrote anything is the *)
(* step that is not taken, or the step back to Idle.                         *)

(* An exception or the death of the API process: what was written stays. *)
RequestDies(r) ==
    /\ req[r] # Idle
    /\ req' = [req EXCEPT ![r] = Idle]
    /\ UNCHANGED <<dbVars, beat, queueVars, run, sweep, faults>>

(* join: the reads before the transaction.  The test's state is read again   *)
(* by the UPDATE below; that the player has not completed the test is not.   *)
JoinCheck(r, u, t) ==
    /\ req[r] = Idle
    /\ testStatus[t] = "published"
    /\ ~HasCompleted(u, t)
    /\ req' = [req EXCEPT ![r] = [at |-> "reserve", user |-> u, test |-> t]]
    /\ UNCHANGED <<dbVars, beat, queueVars, run, sweep, faults>>

SlotIsFreeOffByOne(t) ==    \* mutant: <= for <
    testStatus[t] = "published" /\ slotsTaken[t] <= SlotsTotal[t]

SlotIsFree(t) ==
    /\ testStatus[t] = "published"
    /\ slotsTaken[t] < SlotsTotal[t]

(* reserveParticipation: the compare-and-set on slots_taken and the INSERT   *)
(* commit together; a clash on the partial unique index undoes both.         *)
JoinReserve(r, p) ==
    /\ req[r].at = "reserve"
    /\ UserOf[p] = req[r].user
    /\ TestOf[p] = req[r].test
    /\ ~Present(p)
    /\ SlotIsFree(TestOf[p])
    /\ ~HasActive(UserOf[p], TestOf[p])
    /\ slotsTaken' = [slotsTaken EXCEPT ![TestOf[p]] = @ + 1]
    /\ pStatus' = [pStatus EXCEPT ![p] = "reserved"]
    /\ req' = [req EXCEPT ![r] = Idle]
    /\ UNCHANGED <<testStatus, consented, sStatus, played, beat, recFailed, verdict, xp,
                   queueVars, run, sweep, faults>>

(* consents: every required kind granted, or 422 and no write. *)
Consent(p) ==
    /\ Present(p)
    /\ consented' = consented \cup {p}
    /\ UNCHANGED <<testStatus, slotsTaken, pStatus, sStatus, played, beat, recFailed, verdict, xp,
                   queueVars, req, run, sweep, faults>>

(* start: the reads, up to the transaction's SELECT of an open session.  The  *)
(* validated build and the player's age, which start also requires, are left *)
(* out: no one here revokes them.                                            *)
StartCheck(r, p) ==
    /\ req[r] = Idle
    /\ Present(p)
    /\ testStatus[TestOf[p]] \in {"published", "paused"}
    /\ p \in consented
    /\ ~\E s \in Sessions : PartOf[s] = p /\ sStatus[s] \in OpenForStart
    /\ req' = [req EXCEPT ![r] = [at |-> "claim", part |-> p]]
    /\ UNCHANGED <<dbVars, beat, queueVars, run, sweep, faults>>

(* startSession: the participation is claimed by compare-and-set, the session *)
(* inserted, and the transaction commits.                                     *)
StartClaim(r, s) ==
    /\ req[r].at = "claim"
    /\ PartOf[s] = req[r].part
    /\ sStatus[s] = "absent"
    /\ pStatus[PartOf[s]] \in Startable
    /\ pStatus' = [pStatus EXCEPT ![PartOf[s]] = "playing"]
    /\ sStatus' = [sStatus EXCEPT ![s] = "starting"]
    /\ req' = [req EXCEPT ![r] = [at |-> "firstBeat", sess |-> s]]
    /\ UNCHANGED <<testStatus, slotsTaken, consented, played, beat, recFailed, verdict, xp,
                   queueVars, run, sweep, faults>>

StartBeat(r) ==
    /\ req[r].at = "firstBeat"
    /\ beat' = [beat EXCEPT ![req[r].sess] = "live"]
    /\ req' = [req EXCEPT ![r] = Idle]
    /\ UNCHANGED <<dbVars, queueVars, run, sweep, faults>>

(* heartbeat: read the session, SET the key, and the first one marks it      *)
(* recording, only if it is still starting.                                  *)
BeatCheck(r, s) ==
    /\ req[r] = Idle
    /\ sStatus[s] \in Unfinished
    /\ req' = [req EXCEPT ![r] =
                  [at |-> "touch", sess |-> s, starting |-> sStatus[s] = "starting"]]
    /\ UNCHANGED <<dbVars, beat, queueVars, run, sweep, faults>>

BeatTouch(r) ==
    /\ req[r].at = "touch"
    /\ beat' = [beat EXCEPT ![req[r].sess] = "live"]
    /\ req' = [req EXCEPT ![r] = IF req[r].starting
                                 THEN [at |-> "markRecording", sess |-> req[r].sess]
                                 ELSE Idle]
    /\ UNCHANGED <<dbVars, queueVars, run, sweep, faults>>

MarksAnyStatus(r, s) ==    \* mutant: UPDATE ... WHERE id = ? alone
    s = req[r].sess

MarksRecording(r, s) == s = req[r].sess /\ sStatus[s] = "starting"

MarkRecording(r) ==
    /\ req[r].at = "markRecording"
    /\ sStatus' = [s \in Sessions |-> IF MarksRecording(r, s) THEN "recording" ELSE sStatus[s]]
    /\ req' = [req EXCEPT ![r] = Idle]
    /\ UNCHANGED <<testStatus, slotsTaken, pStatus, consented, played, beat, recFailed, verdict,
                   xp, queueVars, run, sweep, faults>>

(* finish: the compare-and-set on the status closes the session; then the    *)
(* key is deleted and the validation enqueued.  A tMs of zero, or a clock     *)
(* that ran backwards, leaves a zero duration.                               *)
CanFinishAgain(s) ==    \* mutant: no condition on the status
    sStatus[s] # "absent"

CanFinish(s) == sStatus[s] \in Unfinished

Finish(r, s, positive) ==
    /\ req[r] = Idle
    /\ CanFinish(s)
    /\ sStatus' = [sStatus EXCEPT ![s] = "processing"]
    /\ played' = [played EXCEPT ![s] = positive]
    /\ pStatus' = [pStatus EXCEPT ![PartOf[s]] = "in_review"]
    /\ req' = [req EXCEPT ![r] = [at |-> "delBeat", sess |-> s]]
    /\ UNCHANGED <<testStatus, slotsTaken, consented, beat, recFailed, verdict, xp,
                   queueVars, run, sweep, faults>>

FinishDelBeat(r) ==
    /\ req[r].at = "delBeat"
    /\ beat' = [beat EXCEPT ![req[r].sess] = "unset"]
    /\ req' = [req EXCEPT ![r] = [at |-> "enqueue", sess |-> req[r].sess]]
    /\ UNCHANGED <<dbVars, queueVars, run, sweep, faults>>

FinishEnqueue(r) ==
    /\ req[r].at = "enqueue"
    /\ job' = EnsuredJob(req[r].sess)
    /\ req' = [req EXCEPT ![r] = Idle]
    /\ UNCHANGED <<dbVars, beat, fails, locks, run, sweep, faults>>

(* A recording of the session fails, in the upload's completion, in the       *)
(* transcode job or in the sweep: before or after the session was judged.     *)
RecordingFails(s) ==
    /\ sStatus[s] # "absent"
    /\ ~recFailed[s]
    /\ recFailed' = [recFailed EXCEPT ![s] = TRUE]
    /\ UNCHANGED <<testStatus, slotsTaken, pStatus, consented, sStatus, played, beat, verdict, xp,
                   queueVars, req, run, sweep, faults>>

-----------------------------------------------------------------------------
(* processSessionValidate.  A run whose job stalled goes on without the lock, *)
(* and its end no longer moves the job.                                       *)
RunTakes(w, s) ==
    /\ run[w] = Idle
    /\ job[s] = "waiting"
    /\ job' = [job EXCEPT ![s] = "active"]
    /\ locks' = locks \cup {w}
    /\ run' = [run EXCEPT ![w] = [at |-> "judge", sess |-> s]]
    /\ UNCHANGED <<dbVars, beat, fails, req, sweep, faults>>

SessionIsValid(s) ==
    /\ sStatus[s] # "invalidated"
    /\ played[s]
    /\ ~recFailed[s]

(* The reads before the transaction. *)
RunJudges(w) ==
    LET s == run[w].sess IN
    /\ run[w].at = "judge"
    /\ run' = [run EXCEPT ![w] =
                  IF verdict[s] # "none"
                  THEN [at |-> "done", sess |-> s]
                  ELSE [at |-> "begin", sess |-> s, valid |-> SessionIsValid(s)]]
    /\ UNCHANGED <<dbVars, beat, queueVars, req, sweep, faults>>

(* Inside the transaction, creditSessionXp's SELECT of an earlier reward. *)
RewardedForSession(s) ==    \* mutant: looks for this session's reward only
    s \in xp

AlreadyRewarded(s) == XpOf(UserOf[PartOf[s]], TestOf[PartOf[s]]) # {}

RunReadsReward(w) ==
    LET s == run[w].sess IN
    /\ run[w].at = "begin"
    /\ run' = [run EXCEPT ![w] =
                  [at |-> "commit", sess |-> s, valid |-> run[w].valid,
                   rewarded |-> AlreadyRewarded(s)]]
    /\ UNCHANGED <<dbVars, beat, queueVars, req, sweep, faults>>

(* The verdict row is the gate: INSERT ... ON CONFLICT DO NOTHING waits for a *)
(* concurrent insert of the same session, and a loser writes nothing.         *)
GateOpen(s) == verdict[s] = "none"

RunCommits(w) ==
    LET s == run[w].sess
        valid == run[w].valid IN
    /\ run[w].at = "commit"
    /\ run' = [run EXCEPT ![w] = [at |-> "done", sess |-> s]]
    /\ \/ /\ GateOpen(s)
          /\ verdict' = [verdict EXCEPT ![s] = IF valid THEN "valid" ELSE "invalid"]
          /\ sStatus' = [sStatus EXCEPT ![s] = IF valid THEN "completed" ELSE "invalidated"]
          /\ pStatus' = [pStatus EXCEPT ![PartOf[s]] = IF valid THEN "completed" ELSE "rejected"]
          /\ xp' = IF valid /\ ~run[w].rewarded THEN xp \cup {s} ELSE xp
       \/ /\ ~GateOpen(s)
          /\ UNCHANGED <<verdict, sStatus, pStatus, xp>>
    /\ UNCHANGED <<testStatus, slotsTaken, consented, played, beat, recFailed, queueVars, req,
                   sweep, faults>>

RunEnds(w) ==
    /\ run[w].at = "done"
    /\ job' = IF w \in locks THEN [job EXCEPT ![run[w].sess] = "completed"] ELSE job
    /\ locks' = locks \ {w}
    /\ run' = [run EXCEPT ![w] = Idle]
    /\ UNCHANGED <<dbVars, beat, fails, req, sweep, faults>>

(* A query or a cache invalidation throws, before or after the commit. *)
RunFails(w) ==
    /\ run[w] # Idle
    /\ faults < MaxFaults
    /\ faults' = faults + 1
    /\ IF w \in locks
       THEN /\ job' = [job EXCEPT ![run[w].sess] = "failed"]
            /\ fails' = [fails EXCEPT ![run[w].sess] = @ + 1]
       ELSE UNCHANGED <<job, fails>>
    /\ locks' = locks \ {w}
    /\ run' = [run EXCEPT ![w] = Idle]
    /\ UNCHANGED <<dbVars, beat, req, sweep>>

(* The lock of an active job lapses (a dead worker, a blocked event loop):    *)
(* BullMQ puts the job back, whether or not its run goes on.                  *)
JobStalls(w) ==
    /\ w \in locks
    /\ faults < MaxFaults
    /\ faults' = faults + 1
    /\ job' = [job EXCEPT ![run[w].sess] = "waiting"]
    /\ locks' = locks \ {w}
    /\ UNCHANGED <<dbVars, beat, fails, req, run, sweep>>

(* A run that lost its lock may be one whose process is gone. *)
RunVanishes(w) ==
    /\ run[w] # Idle
    /\ w \notin locks
    /\ run' = [run EXCEPT ![w] = Idle]
    /\ UNCHANGED <<dbVars, beat, queueVars, req, sweep, faults>>

-----------------------------------------------------------------------------
(* The reconcile sweep: sessions still open whose key is gone are closed and  *)
(* their validation ensured; then every closed session without a verdict has  *)
(* its validation ensured again.                                              *)
OnlyRecording == {s \in Sessions : sStatus[s] = "recording"}    \* mutant: starting forgotten

SweepCandidates == {s \in Sessions : sStatus[s] \in Unfinished}

SweepSelectsOpen(w) ==
    /\ sweep[w] = SweepIdle
    /\ sweep' = [sweep EXCEPT ![w] =
                    [at |-> "visit", todo |-> SweepCandidates, cur |-> NoSession]]
    /\ UNCHANGED <<dbVars, beat, queueVars, req, run, faults>>

SweepLooksAtBeat(w, s) ==
    /\ sweep[w].at = "visit"
    /\ s \in sweep[w].todo
    /\ sweep' = [sweep EXCEPT ![w] =
                    IF beat[s] = "live"
                    THEN [at |-> "visit", todo |-> @.todo \ {s}, cur |-> NoSession]
                    ELSE [at |-> "close", todo |-> @.todo \ {s}, cur |-> s]]
    /\ UNCHANGED <<dbVars, beat, queueVars, req, run, faults>>

TimesOutAnyStatus(w, s) ==    \* mutant: UPDATE ... WHERE id = ? alone
    s = sweep[w].cur

TimesOut(w, s) == s = sweep[w].cur /\ sStatus[s] \in Unfinished

SweepCloses(w) ==
    /\ sweep[w].at = "close"
    /\ sStatus' = [s \in Sessions |-> IF TimesOut(w, s) THEN "invalidated" ELSE sStatus[s]]
    /\ sweep' = [sweep EXCEPT ![w] = [at |-> "ensure", todo |-> @.todo, cur |-> @.cur]]
    /\ UNCHANGED <<testStatus, slotsTaken, pStatus, consented, played, beat, recFailed, verdict,
                   xp, queueVars, req, run, faults>>

SweepEnsures(w) ==
    /\ sweep[w].at = "ensure"
    /\ job' = EnsuredJob(sweep[w].cur)
    /\ sweep' = [sweep EXCEPT ![w] = [at |-> "visit", todo |-> @.todo, cur |-> NoSession]]
    /\ UNCHANGED <<dbVars, beat, fails, locks, req, run, faults>>

UnvalidatedFinished ==    \* mutant: sessions the sweep closed are forgotten
    {s \in Sessions : sStatus[s] = "processing" /\ verdict[s] = "none"}

Unvalidated ==
    {s \in Sessions : sStatus[s] \in {"processing", "invalidated"} /\ verdict[s] = "none"}

SweepSelectsUnvalidated(w) ==
    /\ sweep[w].at = "visit"
    /\ sweep[w].todo = {}
    /\ sweep' = [sweep EXCEPT ![w] =
                    [at |-> "reensure", todo |-> Unvalidated, cur |-> NoSession]]
    /\ UNCHANGED <<dbVars, beat, queueVars, req, run, faults>>

SweepReensures(w, s) ==
    /\ sweep[w].at = "reensure"
    /\ s \in sweep[w].todo
    /\ job' = EnsuredJob(s)
    /\ sweep' = [sweep EXCEPT ![w] =
                    [at |-> "reensure", todo |-> @.todo \ {s}, cur |-> NoSession]]
    /\ UNCHANGED <<dbVars, beat, fails, locks, req, run, faults>>

SweepEnds(w) ==
    /\ sweep[w].at = "reensure"
    /\ sweep[w].todo = {}
    /\ sweep' = [sweep EXCEPT ![w] = SweepIdle]
    /\ UNCHANGED <<dbVars, beat, queueVars, req, run, faults>>

(* Any awaited call throws and the whole sweep stops; the next one starts over. *)
SweepFails(w) ==
    /\ sweep[w] # SweepIdle
    /\ faults < MaxFaults
    /\ faults' = faults + 1
    /\ sweep' = [sweep EXCEPT ![w] = SweepIdle]
    /\ UNCHANGED <<dbVars, beat, queueVars, req, run>>

-----------------------------------------------------------------------------
RequestStep(r) ==
    \/ \E u \in Users, t \in Tests : JoinCheck(r, u, t)
    \/ \E p \in Parts : JoinReserve(r, p) \/ StartCheck(r, p)
    \/ \E s \in Sessions : StartClaim(r, s) \/ BeatCheck(r, s)
    \/ \E s \in Sessions, positive \in BOOLEAN : Finish(r, s, positive)
    \/ StartBeat(r) \/ BeatTouch(r) \/ MarkRecording(r)
    \/ FinishDelBeat(r) \/ FinishEnqueue(r)
    \/ RequestDies(r)

RunStep(w) ==
    \/ \E s \in Sessions : RunTakes(w, s)
    \/ RunJudges(w) \/ RunReadsReward(w) \/ RunCommits(w) \/ RunEnds(w)

SweepStep(w) ==
    \/ SweepSelectsOpen(w) \/ SweepCloses(w) \/ SweepEnsures(w)
    \/ SweepSelectsUnvalidated(w) \/ SweepEnds(w)
    \/ \E s \in Sessions : SweepLooksAtBeat(w, s) \/ SweepReensures(w, s)

FaultStep ==
    \/ \E w \in Workers : RunFails(w) \/ JobStalls(w) \/ RunVanishes(w)
    \/ \E w \in Sweepers : SweepFails(w)

EnvironmentStep ==
    \/ \E t \in Tests, status \in {"published", "paused", "over"} : SetTestStatus(t, status)
    \/ \E p \in Parts : Consent(p)
    \/ \E s \in Sessions : BeatExpires(s) \/ RecordingFails(s)

Next ==
    \/ \E r \in Requests : RequestStep(r)
    \/ \E w \in Workers : RunStep(w)
    \/ \E w \in Sweepers : SweepStep(w)
    \/ FaultStep
    \/ EnvironmentStep

Spec == Init /\ [][Next]_vars

(* The worker keeps consuming its queue and BullMQ's scheduler keeps firing   *)
(* the sweep; nothing is assumed of players, studios or API requests.         *)
Fairness ==
    /\ WF_vars(\E w \in Workers : RunStep(w))
    /\ \A w \in Sweepers : WF_vars(SweepStep(w))
FairSpec == Spec /\ Fairness
-----------------------------------------------------------------------------
(* Properties.                                                               *)

(* slots_taken counts the participation rows of the test and never passes    *)
(* slots_total, whatever joins race: the CAS and the INSERT of               *)
(* reserveParticipation land or roll back together.                          *)
SlotsCountRows ==
    \A t \in Tests : /\ slotsTaken[t] = Cardinality(Rows(t))
                     /\ slotsTaken[t] <= SlotsTotal[t]

(* A player holds at most one unsettled participation per test.  The partial *)
(* unique index guards the INSERT; finishSession's and the worker's UPDATEs  *)
(* by id must not bring a second one back to life.                           *)
OneActiveParticipation ==
    \A p, q \in Parts :
        SamePlayerAndTest(p, q) /\ pStatus[p] \in Active /\ pStatus[q] \in Active => p = q

(* Two starts that both saw no open session still insert a single one: a     *)
(* participation is played once.                                             *)
OneSessionPerParticipation ==
    \A r, s \in Sessions :
        sStatus[r] # "absent" /\ sStatus[s] # "absent" /\ PartOf[r] = PartOf[s] => r = s

(* The rows that request handlers, sweep and worker write in separate        *)
(* transactions tell the same story about a session.                         *)
StatusesAgree ==
    \A s \in Sessions :
        /\ sStatus[s] = "completed" <=> verdict[s] = "valid"
        /\ verdict[s] = "invalid" => sStatus[s] = "invalidated"
        /\ sStatus[s] \in Unfinished => pStatus[PartOf[s]] = "playing"
        /\ sStatus[s] = "processing" => pStatus[PartOf[s]] = "in_review"
        /\ sStatus[s] # "absent" /\ verdict[s] # "none" =>
              pStatus[PartOf[s]] = IF verdict[s] = "valid" THEN "completed" ELSE "rejected"
        /\ s \in xp => verdict[s] = "valid"

(* A player who completed a test is credited for it, exactly once however    *)
(* often the job is redelivered and even if the player got in a second time, *)
(* and nobody else is.                                                       *)
RewardedExactlyOnce ==
    \A u \in Users, t \in Tests :
        /\ HasCompleted(u, t) <=> XpOf(u, t) # {}
        /\ \A r, s \in XpOf(u, t) : r = s

(* A settled participation keeps its outcome: no late finish, no second run  *)
(* of the job that saw other recordings, changes it.  A closed session never  *)
(* reopens and a judged one keeps its status: a heartbeat that read the      *)
(* session open must not write over what finish, the sweep or the worker     *)
(* wrote meanwhile.                                                          *)
SettledStay == \A p \in Parts : pStatus[p] \in Settled => pStatus'[p] = pStatus[p]
ClosedStay ==
    \A s \in Sessions : /\ sStatus[s] \in Closed => sStatus'[s] \in Closed
                        /\ verdict[s] # "none" => sStatus'[s] = sStatus[s]
OutcomesStay == [][SettledStay /\ ClosedStay]_vars

(* A closed session gets its verdict, though the enqueue after finish may    *)
(* have been lost, unless its job failed MaxJobRuns times: an exhausted      *)
(* validation is left alone by the sweep, and its session has no verdict.    *)
ClosedIsValidated ==
    \A s \in Sessions :
        sStatus[s] \in Closed ~> verdict[s] # "none" \/ fails[s] = MaxJobRuns

(* A session whose player fell silent for good does not stay open.           *)
SilentCloses ==
    \A s \in Sessions : <>[](beat[s] # "live") => []<>(sStatus[s] \notin Unfinished)

-----------------------------------------------------------------------------
(* The ledger this implements.                                               *)
LedgerOutcome ==
    [p \in Parts |->
        CASE pStatus[p] = "absent"    -> "none"
          [] pStatus[p] \in Active    -> "open"
          [] pStatus[p] = "completed" -> "accepted"
          [] pStatus[p] = "rejected"  -> "rejected"]

Ledger == INSTANCE PlaytestLedger WITH
    seats <- slotsTaken,
    outcome <- LedgerOutcome,
    rewarded <- {<<UserOf[PartOf[s]], TestOf[PartOf[s]]>> : s \in xp}

(* Requests, job runs and sweeps together do nothing a player or a studio    *)
(* could tell from PlaytestLedger: every step reserves, accepts or rejects   *)
(* one participation, or changes nothing of the ledger.                      *)
ImplementsLedger == Ledger!Spec

-----------------------------------------------------------------------------
(* What makes the invariants above inductive.                                *)

(* Where a session stands fixes what its verdict and participation can be.   *)
StatusTable ==
    \A s \in Sessions :
        LET part == pStatus[PartOf[s]] IN
        /\ sStatus[s] = "absent" => verdict[s] = "none"
        /\ sStatus[s] \in Unfinished => verdict[s] = "none" /\ part = "playing"
        /\ sStatus[s] = "processing" => verdict[s] = "none" /\ part = "in_review"
        /\ sStatus[s] = "completed" => verdict[s] = "valid" /\ part = "completed"
        /\ sStatus[s] = "invalidated" =>
              \/ verdict[s] = "none" /\ part = "playing"
              \/ verdict[s] = "invalid" /\ part = "rejected"

(* Nobody judges, enqueues or re-ensures a session that is still being       *)
(* played, and no one holds the id of a session that is not there.           *)
OnlyClosedAreJudged ==
    /\ \A s \in Sessions : job[s] # "none" => sStatus[s] \in Closed
    /\ \A w \in Workers : run[w].at # "idle" => sStatus[run[w].sess] \in Closed
    /\ \A r \in Requests :
          req[r].at \in {"delBeat", "enqueue"} => sStatus[req[r].sess] \in Closed
    /\ \A w \in Sweepers :
          /\ sweep[w].at = "close" => sStatus[sweep[w].cur] # "absent"
          /\ sweep[w].at = "ensure" => sStatus[sweep[w].cur] \in Closed
          /\ \A s \in sweep[w].todo :
                IF sweep[w].at = "reensure" THEN sStatus[s] \in Closed ELSE sStatus[s] # "absent"

(* What a run read about earlier rewards is still so when it commits a       *)
(* verdict, though other runs commit theirs in between.                      *)
RewardReadIsCurrent ==
    \A w \in Workers :
        run[w].at = "commit" /\ verdict[run[w].sess] = "none" =>
            run[w].rewarded = AlreadyRewarded(run[w].sess)

Coherent ==
    /\ StatusTable
    /\ OnlyClosedAreJudged
    /\ RewardReadIsCurrent
    /\ OneActiveParticipation
    /\ OneSessionPerParticipation
    /\ RewardedExactlyOnce
    /\ \A s \in xp : verdict[s] = "valid"

-----------------------------------------------------------------------------
(* What comments of the source say and the code does not do.                 *)

(* A player who completed the test does not take another slot of it.         *)
CompletedTakesNoSlot ==
    [][\A p \in Parts :
        ~Present(p) /\ Present(p)' => ~HasCompleted(UserOf[p], TestOf[p])]_vars
=============================================================================
