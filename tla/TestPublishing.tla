---------------------------- MODULE TestPublishing ----------------------------
(***************************************************************************)
(* How a studio's draft becomes a published test.  Every wizard step, the  *)
(* publish and the status changes run in withRowLock: BEGIN takes one of   *)
(* the pool's connections, SELECT ... FOR UPDATE the row of the test, and  *)
(* the callback reads the build through a second connection.  Around it,   *)
(* without that lock, build.validate runs, the sweep and the error path of *)
(* confirmBuild write the status of the build.                             *)
(* One test.  An id of Builds is the one a signed upload URL carries, so a *)
(* client that confirms the same upload again brings the same id.  Left    *)
(* out: current_step, gamepad_supported and the audience's filters, which  *)
(* no guard reads; the validation steps shown to the studio; publish keys, *)
(* which clash only between tests.                                         *)
(***************************************************************************)
EXTENDS Integers, FiniteSets

CONSTANTS
    Requests,          \* API requests on the test that may be in flight at once
    Builds,            \* build ids carried by signed upload URLs
    Workers,           \* concurrent runs of build.validate
    Quantities,        \* tester counts a studio asks for
    PoolSize,          \* connections of the API's pool
    MalwareScanBypass, \* BUILD_MALWARE_SCAN_BYPASS: without it every build fails
    NoOne, NoBuild,
    MaxJobRuns,        \* MAX_JOB_RUNS of ensure-enqueued.ts
    MaxFaults          \* bound: failed, stalled or killed runs, unanswered storage

ASSUME PublishingAssumption ==
    /\ IsFiniteSet(Requests) /\ Quantities \subseteq Nat \ {0}
    /\ NoOne \notin Requests /\ NoBuild \notin Builds
    /\ PoolSize \in Nat \ {0} /\ MaxJobRuns \in Nat \ {0} /\ MaxFaults \in Nat
    /\ MalwareScanBypass \in BOOLEAN

VARIABLES
    status,     \* tests.status
    needsBuild, \* requiresBuild of the test's model
    form,       \* the form has questions
    reach,      \* estimated_reach > 0; "none" without an audience row
    slots,      \* tests.slots_total
    build,      \* builds.status, "absent" without a row
    object,     \* what storage holds under the build's key
    lock,       \* who holds the row lock of the test
    late,       \* enqueues that timed out and may still land
    job, fails, \* the build.validate job of a build, its attemptsMade
    locks,      \* workers whose run holds the BullMQ lock of its job
    req, run, sweep, faults

content   == <<needsBuild, form, reach, slots>>
queueVars == <<job, fails, locks>>
vars      == <<status, content, build, object, lock, late, queueVars, req, run, sweep, faults>>

-----------------------------------------------------------------------------
Idle == [at |-> "idle"]

Statuses == {"draft", "published", "paused", "finished"}
StatusTransitions ==
    [s \in Statuses |-> CASE s = "published" -> {"paused", "finished"}
                          [] s = "paused"    -> {"published", "finished"}
                          [] OTHER           -> {}]

(* What a request asks of the test. *)
Ops ==
    [kind : {"model"}, needs : BOOLEAN]
    \cup [kind : {"form"}, filled : BOOLEAN]
    \cup [kind : {"audience"}, quantity : Quantities, reach : {"some", "zero"}]
    \cup [kind : {"confirm"}, build : Builds]
    \cup [kind : {"delete", "publish"}]
    \cup [kind : {"status"}, to : Statuses \ {"draft"}]

RequestState ==
    {Idle}
    \cup [at : {"begun"}]
    \cup [at : {"locked"}, op : Ops, seen : Statuses]
    \cup [at : {"insert"}, build : Builds, replaces : SUBSET Builds]
    \cup [at : {"publish"}]
    \cup [at : {"enqueue", "markFailed", "remove"}, build : Builds]
RunState ==
    {Idle}
    \cup [at : {"inspect", "done"}, build : Builds]
    \cup [at : {"settle"}, build : Builds, outcome : {"validated", "failed"}]

TypeOK ==
    /\ status \in Statuses
    /\ needsBuild \in BOOLEAN
    /\ form \in BOOLEAN
    /\ reach \in {"none", "zero", "some"}
    /\ slots \in Nat
    /\ build \in [Builds -> {"absent", "processing", "validated", "failed"}]
    /\ object \in [Builds -> {"none", "good", "bad", "wrongSize"}]
    /\ lock \in Requests \cup {NoOne}
    /\ late \in SUBSET Builds
    /\ job \in [Builds -> {"none", "waiting", "active", "completed", "failed"}]
    /\ fails \in [Builds -> 0..MaxJobRuns]
    /\ locks \in SUBSET Workers
    /\ req \in [Requests -> RequestState]
    /\ run \in [Workers -> RunState]
    /\ sweep \in [at : {"idle"}, build : {NoBuild}] \cup [at : {"ensure", "settle"}, build : Builds]
    /\ faults \in Nat

Init ==
    /\ status = "draft"
    /\ needsBuild \in BOOLEAN
    /\ form = FALSE
    /\ reach = "none"
    /\ slots = 0
    /\ build = [b \in Builds |-> "absent"]
    /\ object = [b \in Builds |-> "none"]
    /\ lock = NoOne
    /\ late = {}
    /\ job = [b \in Builds |-> "none"]
    /\ fails = [b \in Builds |-> 0]
    /\ locks = {}
    /\ req = [r \in Requests |-> Idle]
    /\ run = [w \in Workers |-> Idle]
    /\ sweep = [at |-> "idle", build |-> NoBuild]
    /\ faults = 0

EnsuredJob(b) ==
    IF job[b] = "none" \/ (job[b] = "failed" /\ fails[b] < MaxJobRuns)
    THEN [job EXCEPT ![b] = "waiting"]
    ELSE job

-----------------------------------------------------------------------------
(* withRowLock.                                                              *)
InTransaction == {r \in Requests : req[r].at \in {"begun", "locked", "insert", "publish"}}
PoolHasFree   == Cardinality(InTransaction) < PoolSize

NoForUpdate == TRUE    \* mutant: a plain SELECT

LockIsFree == lock = NoOne

Begin(r) ==
    /\ req[r] = Idle
    /\ PoolHasFree
    /\ req' = [req EXCEPT ![r] = [at |-> "begun"]]
    /\ UNCHANGED <<status, content, build, object, lock, late, queueVars, run, sweep, faults>>

(* Which operation waited for the lock shows only now. *)
LockRow(r, op) ==
    /\ req[r].at = "begun"
    /\ LockIsFree
    /\ lock' = r
    /\ req' = [req EXCEPT ![r] = [at |-> "locked", op |-> op, seen |-> status]]
    /\ UNCHANGED <<status, content, build, object, late, queueVars, run, sweep, faults>>

(* What holds when the callback of kind k runs on a draft. *)
InDraft(r, k) == req[r].at = "locked" /\ req[r].op.kind = k /\ req[r].seen = "draft"

Unlock(r) == lock' = IF lock = r THEN NoOne ELSE lock
Commits(r) == Unlock(r) /\ req' = [req EXCEPT ![r] = Idle]

(* A 4xx, an exception or the death of the process: the transaction, if one   *)
(* is open, rolls back; what was committed stays.                            *)
RequestEnds(r) ==
    /\ req[r] # Idle
    /\ Commits(r)
    /\ UNCHANGED <<status, content, build, object, late, queueVars, run, sweep, faults>>

SetModel(r) ==
    /\ InDraft(r, "model")
    /\ needsBuild' = req[r].op.needs
    /\ Commits(r)
    /\ UNCHANGED <<status, form, reach, slots, build, object, late, queueVars, run, sweep, faults>>

PutForm(r) ==
    /\ InDraft(r, "form")
    /\ form' = req[r].op.filled
    /\ Commits(r)
    /\ UNCHANGED <<status, needsBuild, reach, slots, build, object, late, queueVars, run, sweep,
                   faults>>

SetAudience(r) ==
    /\ InDraft(r, "audience")
    /\ reach' = req[r].op.reach
    /\ slots' = req[r].op.quantity
    /\ Commits(r)
    /\ UNCHANGED <<status, needsBuild, form, build, object, late, queueVars, run, sweep, faults>>

(* The client PUTs a file under the key of a URL signed while drafting. *)
Upload(b, file) ==
    /\ status = "draft"
    /\ object[b] = "none"
    /\ object' = [object EXCEPT ![b] = file]
    /\ UNCHANGED <<status, content, build, lock, late, queueVars, req, run, sweep, faults>>

(* confirmBuild: the latest build is read on another connection; only a       *)
(* failed one is replaced, in the transaction that inserts the new one.      *)
Replaceable == \A b \in Builds : build[b] \in {"absent", "failed"}

ConfirmReads(r) ==
    LET b == req[r].op.build IN
    /\ InDraft(r, "confirm")
    /\ PoolHasFree
    /\ Replaceable
    /\ object[b] \in {"good", "bad"}
    /\ req' = [req EXCEPT ![r] = [at |-> "insert", build |-> b,
                                  replaces |-> {x \in Builds : build[x] # "absent"}]]
    /\ UNCHANGED <<status, content, build, object, lock, late, queueVars, run, sweep, faults>>

(* An object of a size that was never signed is removed with the 422. *)
ConfirmRemoves(r) ==
    LET b == req[r].op.build IN
    /\ InDraft(r, "confirm")
    /\ PoolHasFree
    /\ Replaceable
    /\ object[b] = "wrongSize"
    /\ object' = [object EXCEPT ![b] = "none"]
    /\ Commits(r)
    /\ UNCHANGED <<status, content, build, late, queueVars, run, sweep, faults>>

(* builds_test_id_unique refuses a second row. *)
ConfirmInserts(r) ==
    LET b == req[r].build IN
    /\ req[r].at = "insert"
    /\ \A x \in Builds \ req[r].replaces : build[x] = "absent"
    /\ build' = [x \in Builds |-> IF x = b THEN "processing" ELSE "absent"]
    /\ Unlock(r)
    /\ req' = [req EXCEPT ![r] = [at |-> "enqueue", build |-> b]]
    /\ UNCHANGED <<status, content, object, late, queueVars, run, sweep, faults>>

ConfirmEnqueues(r) ==
    /\ req[r].at = "enqueue"
    /\ job' = EnsuredJob(req[r].build)
    /\ req' = [req EXCEPT ![r] = Idle]
    /\ UNCHANGED <<status, content, build, object, lock, late, fails, locks, run, sweep, faults>>

(* The 5 s of withTimeout run out; the promise it raced goes on. *)
EnqueueTimesOut(r) ==
    /\ req[r].at = "enqueue"
    /\ late' = late \cup {req[r].build}
    /\ req' = [req EXCEPT ![r] = [at |-> "markFailed", build |-> req[r].build]]
    /\ UNCHANGED <<status, content, build, object, lock, queueVars, run, sweep, faults>>

LateEnqueue(b) ==
    /\ b \in late
    /\ late' = late \ {b}
    /\ job' \in {EnsuredJob(b), job}
    /\ UNCHANGED <<status, content, build, object, lock, fails, locks, req, run, sweep, faults>>

(* markBuildFailed: UPDATE builds SET status = 'failed' WHERE id = ?. *)
Written(b, outcome) == IF build[b] = "absent" THEN build ELSE [build EXCEPT ![b] = outcome]

MarkBuildFailed(r) ==
    /\ req[r].at = "markFailed"
    /\ PoolHasFree
    /\ build' = Written(req[r].build, "failed")
    /\ req' = [req EXCEPT ![r] = Idle]
    /\ UNCHANGED <<status, content, object, lock, late, queueVars, run, sweep, faults>>

(* deleteBuild: the row in the transaction, the object after it. *)
DeleteBuild(r, b) ==
    /\ InDraft(r, "delete")
    /\ PoolHasFree
    /\ build[b] # "absent"
    /\ build' = [build EXCEPT ![b] = "absent"]
    /\ Unlock(r)
    /\ req' = [req EXCEPT ![r] = [at |-> "remove", build |-> b]]
    /\ UNCHANGED <<status, content, object, late, queueVars, run, sweep, faults>>

RemoveObject(r) ==
    /\ req[r].at = "remove"
    /\ object' = [object EXCEPT ![req[r].build] = "none"]
    /\ req' = [req EXCEPT ![r] = Idle]
    /\ UNCHANGED <<status, content, build, lock, late, queueVars, run, sweep, faults>>

(* publish: pendingValidationsFor reads form, build and audience on other     *)
(* connections.                                                              *)
NothingPending ==
    /\ form
    /\ needsBuild => \E b \in Builds : build[b] = "validated"
    /\ reach = "some"

PublishReads(r) ==
    /\ InDraft(r, "publish")
    /\ PoolHasFree
    /\ NothingPending
    /\ req' = [req EXCEPT ![r] = [at |-> "publish"]]
    /\ UNCHANGED <<status, content, build, object, lock, late, queueVars, run, sweep, faults>>

PublishCommits(r) ==
    /\ req[r].at = "publish"
    /\ status' = "published"
    /\ Commits(r)
    /\ UNCHANGED <<content, build, object, late, queueVars, run, sweep, faults>>

(* What the callback answers 4xx to, or the published test it hands back as   *)
(* it is; confirm, delete and publish need their reads to know.              *)
Refused(r) ==
    /\ req[r].at = "locked"
    /\ LET op == req[r].op IN
          \/ op.kind = "status" /\ op.to \notin StatusTransitions[req[r].seen]
          \/ op.kind # "status" /\ req[r].seen # "draft"
          \/ /\ PoolHasFree
             /\ \/ op.kind = "confirm" /\ (~Replaceable \/ object[op.build] = "none")
                \/ op.kind = "delete" /\ \A b \in Builds : build[b] = "absent"
                \/ op.kind = "publish" /\ ~NothingPending

SetStatus(r) ==
    /\ req[r].at = "locked"
    /\ req[r].op.kind = "status"
    /\ req[r].op.to \in StatusTransitions[req[r].seen]
    /\ status' = req[r].op.to
    /\ Commits(r)
    /\ UNCHANGED <<content, build, object, late, queueVars, run, sweep, faults>>

-----------------------------------------------------------------------------
(* processBuildValidate.                                                     *)
RunTakes(w, b) ==
    /\ run[w] = Idle
    /\ job[b] = "waiting"
    /\ job' = [job EXCEPT ![b] = "active"]
    /\ locks' = locks \cup {w}
    /\ run' = [run EXCEPT ![w] = [at |-> "inspect", build |-> b]]
    /\ UNCHANGED <<status, content, build, object, lock, late, fails, req, sweep, faults>>

(* stat answers null for a missing object and for any storage error alike. *)
RunInspects(w) ==
    LET b == run[w].build
        outcome == IF object[b] = "good" /\ MalwareScanBypass THEN "validated" ELSE "failed" IN
    /\ run[w].at = "inspect"
    /\ build[b] # "absent"
    /\ \/ /\ run' = [run EXCEPT ![w] = [at |-> "settle", build |-> b, outcome |-> outcome]]
          /\ UNCHANGED faults
       \/ /\ faults < MaxFaults
          /\ faults' = faults + 1
          /\ run' = [run EXCEPT ![w] = [at |-> "settle", build |-> b, outcome |-> "failed"]]
    /\ UNCHANGED <<status, content, build, object, lock, late, queueVars, req, sweep>>

RunSettles(w) ==
    /\ run[w].at = "settle"
    /\ build' = Written(run[w].build, run[w].outcome)
    /\ run' = [run EXCEPT ![w] = [at |-> "done", build |-> run[w].build]]
    /\ UNCHANGED <<status, content, object, lock, late, queueVars, req, sweep, faults>>

RunEnds(w) ==
    /\ run[w].at = "done"
    /\ job' = IF w \in locks THEN [job EXCEPT ![run[w].build] = "completed"] ELSE job
    /\ locks' = locks \ {w}
    /\ run' = [run EXCEPT ![w] = Idle]
    /\ UNCHANGED <<status, content, build, object, lock, late, fails, req, sweep, faults>>

(* A run that throws fails its job and counts the attempt. *)
Throws(w) ==
    /\ IF w \in locks
       THEN /\ job' = [job EXCEPT ![run[w].build] = "failed"]
            /\ fails' = [fails EXCEPT ![run[w].build] = @ + 1]
       ELSE UNCHANGED <<job, fails>>
    /\ locks' = locks \ {w}
    /\ run' = [run EXCEPT ![w] = Idle]
    /\ UNCHANGED <<status, content, build, object, lock, late, req, sweep>>

RunFindsNoBuild(w) ==
    /\ run[w].at = "inspect"
    /\ build[run[w].build] = "absent"
    /\ Throws(w)
    /\ UNCHANGED faults

RunFails(w) ==
    /\ run[w] # Idle
    /\ faults < MaxFaults
    /\ faults' = faults + 1
    /\ Throws(w)

JobStalls(w) ==
    /\ w \in locks
    /\ faults < MaxFaults
    /\ faults' = faults + 1
    /\ job' = [job EXCEPT ![run[w].build] = "waiting"]
    /\ locks' = locks \ {w}
    /\ UNCHANGED <<status, content, build, object, lock, late, fails, req, run, sweep>>

RunVanishes(w) ==
    /\ run[w] # Idle
    /\ w \notin locks
    /\ run' = [run EXCEPT ![w] = Idle]
    /\ UNCHANGED <<status, content, build, object, lock, late, queueVars, req, sweep, faults>>

-----------------------------------------------------------------------------
(* The builds of the sweep; a test has one at most.  The 15 minutes of grace  *)
(* are left out: any build still processing may be old enough.               *)
SweepIdle == [at |-> "idle", build |-> NoBuild]

SweepSelects(b) ==
    /\ sweep = SweepIdle
    /\ build[b] = "processing"
    /\ sweep' = [at |-> "ensure", build |-> b]
    /\ UNCHANGED <<status, content, build, object, lock, late, queueVars, req, run, faults>>

NeverExhausted(b) == FALSE    \* mutant: the outcome is ignored, as for sessions

Exhausted(b) == job[b] = "failed" /\ fails[b] >= MaxJobRuns

SweepEnsures ==
    /\ sweep.at = "ensure"
    /\ job' = EnsuredJob(sweep.build)
    /\ sweep' = IF Exhausted(sweep.build) THEN [sweep EXCEPT !.at = "settle"] ELSE SweepIdle
    /\ UNCHANGED <<status, content, build, object, lock, late, fails, locks, req, run, faults>>

SweepSettles ==
    /\ sweep.at = "settle"
    /\ build' = IF build[sweep.build] = "processing"
                THEN [build EXCEPT ![sweep.build] = "failed"] ELSE build
    /\ sweep' = SweepIdle
    /\ UNCHANGED <<status, content, object, lock, late, queueVars, req, run, faults>>

SweepFails ==
    /\ sweep # SweepIdle
    /\ faults < MaxFaults
    /\ faults' = faults + 1
    /\ sweep' = SweepIdle
    /\ UNCHANGED <<status, content, build, object, lock, late, queueVars, req, run>>

-----------------------------------------------------------------------------
(* A request that has begun goes on by itself. *)
RequestGoesOn(r) ==
    \/ \E op \in Ops : LockRow(r, op)
    \/ SetModel(r) \/ PutForm(r) \/ SetAudience(r) \/ SetStatus(r)
    \/ ConfirmReads(r) \/ ConfirmRemoves(r) \/ ConfirmInserts(r)
    \/ ConfirmEnqueues(r) \/ EnqueueTimesOut(r) \/ MarkBuildFailed(r)
    \/ (\E b \in Builds : DeleteBuild(r, b)) \/ RemoveObject(r)
    \/ PublishReads(r) \/ PublishCommits(r)
    \/ Refused(r) /\ RequestEnds(r)

RunStep(w) ==
    \/ \E b \in Builds : RunTakes(w, b)
    \/ RunInspects(w) \/ RunFindsNoBuild(w) \/ RunSettles(w) \/ RunEnds(w)

SweepStep == (\E b \in Builds : SweepSelects(b)) \/ SweepEnsures \/ SweepSettles

Next ==
    \/ \E r \in Requests : Begin(r)
    \/ \E r \in Requests : RequestGoesOn(r) \/ RequestEnds(r)
    \/ \E b \in Builds, file \in {"good", "bad", "wrongSize"} : Upload(b, file)
    \/ \E b \in Builds : LateEnqueue(b)
    \/ \E w \in Workers : RunStep(w) \/ RunFails(w) \/ JobStalls(w) \/ RunVanishes(w)
    \/ SweepStep \/ SweepFails

Spec == Init /\ [][Next]_vars

(* The worker consumes its queue and the scheduler fires the sweep; nothing   *)
(* is assumed of clients and API requests.                                   *)
Fairness ==
    /\ WF_vars(\E w \in Workers : RunStep(w))
    /\ WF_vars(SweepStep)
FairSpec == Spec /\ Fairness

(* Every call a request awaits returns: connections and row locks are handed  *)
(* out in the order they were asked for.                                     *)
AwaitsReturn == Spec /\ \A r \in Requests : SF_vars(RequestGoesOn(r))

-----------------------------------------------------------------------------
(* Properties.                                                               *)

(* A test that left draft has a form, an audience with reach, slots to give  *)
(* and, where its model needs one, a build: whatever wizard edits raced the  *)
(* publish, none of them committed between its checks and its commit.        *)
PublishedIsComplete ==
    status # "draft" =>
        /\ form
        /\ reach = "some"
        /\ slots > 0
        /\ needsBuild => \E b \in Builds : build[b] # "absent"

(* After the publish no wizard edit lands: the content of the test, and which *)
(* build it has, are frozen (CON-01 of withRowLock).                         *)
ContentFrozen ==
    [][status # "draft" =>
          /\ status' # "draft"
          /\ UNCHANGED content
          /\ \A b \in Builds : build[b] = "absent" <=> build'[b] = "absent"]_vars

(* A finished test is not resumed by a pause that raced the finish. *)
FinishedStays == [][status = "finished" => status' = "finished"]_vars

(* What was decided stays decided: the two together.                          *)
PublishedIsFinal == ContentFrozen /\ FinishedStays

(* A processing build settles or is removed, though its enqueue was lost or   *)
(* its job failed every run, unless a completed job stands in its way.       *)
ProcessingSettlesOrRan ==
    \A b \in Builds : build[b] = "processing" ~> build[b] # "processing" \/ job[b] = "completed"

-----------------------------------------------------------------------------
(* What comments of the source say and the code does not do.                 *)

(* Requests on the same test wait "until this transaction commits or rolls   *)
(* back", which it does.                                                     *)
LockIsReleased == \A r \in Requests : lock = r ~> lock # r
=============================================================================
