------------------------- MODULE TestPublishingProofs -------------------------
(* Proofs about TestPublishing, for any number of requests, builds, workers,  *)
(* connections and faults:                                                   *)
(*   TypeInv       the types, with what the queue's locks and the retry      *)
(*                 counter need to keep them;                                *)
(*   LockProtects  what a transaction read under the row lock still holds    *)
(*                 when it commits, from which the content of a published    *)
(*                 test is complete and frozen.                              *)
EXTENDS TestPublishing, TLAPS

(* A job that may still run has not used up its runs. *)
RetriesLeft ==
    \A b \in Builds : job[b] \in {"none", "waiting", "active"} => fails[b] < MaxJobRuns

(* A lock belongs to a run of an active job, and a job has one lock. *)
LockHolds ==
    \A w \in locks : run[w].at # "idle" /\ job[run[w].build] = "active"
OneLock ==
    \A v, w \in locks : run[v].build = run[w].build => v = w

TypeInv == TypeOK /\ RetriesLeft /\ LockHolds /\ OneLock

(* The types hold for a new draft. *)
LEMMA TypeInit == Init => TypeInv
<1> SUFFICES ASSUME Init PROVE TypeInv
  OBVIOUS
<1> USE PublishingAssumption DEF Init
<1>1. needsBuild \in BOOLEAN /\ form \in BOOLEAN
  OBVIOUS
<1>2. req \in [Requests -> RequestState] /\ run \in [Workers -> RunState]
  BY DEF Idle, RequestState, RunState
<1>3. TypeOK
  BY <1>1, <1>2 DEF TypeOK, Statuses
<1>4. RetriesLeft /\ LockHolds /\ OneLock
  BY DEF RetriesLeft, LockHolds, OneLock
<1> QED
  BY <1>3, <1>4 DEF TypeInv

(* An audience asks for some testers. *)
LEMMA AudienceOp ==
    ASSUME TypeOK, NEW r \in Requests, InDraft(r, "audience")
    PROVE  req[r].op.quantity \in Nat \ {0} /\ req[r].op.reach \in {"some", "zero"}
<1>1. req[r].op \in Ops /\ req[r].op.kind = "audience"
  BY DEF TypeOK, InDraft, RequestState, Idle
<1> QED
  BY <1>1, PublishingAssumption DEF Ops

(* A request keeps the types. *)
LEMMA TypeRequest ==
    ASSUME TypeInv, NEW r \in Requests, Begin(r) \/ RequestGoesOn(r) \/ RequestEnds(r)
    PROVE  TypeInv'
<1> USE PublishingAssumption
    DEF TypeInv, TypeOK, RetriesLeft, LockHolds, OneLock, Idle, Statuses, RequestState, Ops,
        Commits, Unlock, InDraft, queueVars, content
<1>1. CASE Begin(r)
  BY <1>1 DEF Begin
<1>2. CASE \E op \in Ops : LockRow(r, op)
  <2>1. PICK op \in Ops : LockRow(r, op)
    BY <1>2
  <2>2. req' \in [Requests -> RequestState]
    BY <2>1 DEF LockRow
  <2> QED
    BY <2>1, <2>2 DEF LockRow
<1>3. CASE RequestEnds(r)
  BY <1>3 DEF RequestEnds
<1>4. CASE SetModel(r)
  BY <1>4 DEF SetModel
<1>5. CASE PutForm(r)
  BY <1>5 DEF PutForm
<1>6. CASE SetAudience(r)
  <2>1. req[r].op.quantity \in Nat \ {0} /\ req[r].op.reach \in {"some", "zero"}
    BY <1>6, AudienceOp DEF SetAudience
  <2> QED
    BY <1>6, <2>1 DEF SetAudience
<1>7. CASE SetStatus(r)
  BY <1>7 DEF SetStatus
<1>8. CASE ConfirmReads(r)
  BY <1>8 DEF ConfirmReads
<1>9. CASE ConfirmRemoves(r)
  BY <1>9 DEF ConfirmRemoves
<1>10. CASE ConfirmInserts(r)
  BY <1>10 DEF ConfirmInserts
<1>11. CASE ConfirmEnqueues(r)
  BY <1>11 DEF ConfirmEnqueues, EnsuredJob
<1>12. CASE EnqueueTimesOut(r)
  BY <1>12 DEF EnqueueTimesOut
<1>13. CASE MarkBuildFailed(r)
  BY <1>13 DEF MarkBuildFailed, Written
<1>14. CASE \E b \in Builds : DeleteBuild(r, b)
  BY <1>14 DEF DeleteBuild
<1>15. CASE RemoveObject(r)
  BY <1>15 DEF RemoveObject
<1>16. CASE PublishReads(r)
  BY <1>16 DEF PublishReads
<1>17. CASE PublishCommits(r)
  BY <1>17 DEF PublishCommits
<1> QED
  BY <1>1, <1>2, <1>3, <1>4, <1>5, <1>6, <1>7, <1>8, <1>9, <1>10, <1>11, <1>12, <1>13, <1>14,
     <1>15, <1>16, <1>17 DEF RequestGoesOn

(* So do uploads and enqueues that land late. *)
LEMMA TypeEnvironment ==
    ASSUME TypeInv, NEW b \in Builds,
           LateEnqueue(b) \/ \E file \in {"good", "bad", "wrongSize"} : Upload(b, file)
    PROVE  TypeInv'
<1> USE PublishingAssumption
    DEF TypeInv, TypeOK, RetriesLeft, LockHolds, OneLock, queueVars, content
<1>1. CASE LateEnqueue(b) /\ job' = job
  BY <1>1 DEF LateEnqueue
<1>2. CASE LateEnqueue(b) /\ job' = EnsuredJob(b)
  BY <1>2 DEF LateEnqueue, EnsuredJob
<1>3. CASE \E file \in {"good", "bad", "wrongSize"} : Upload(b, file)
  BY <1>3 DEF Upload
<1> QED
  BY <1>1, <1>2, <1>3 DEF LateEnqueue

(* Only the run holding the lock counts a failure, of a job below MaxJobRuns. *)
LEMMA TypeThrows ==
    ASSUME TypeInv, NEW w \in Workers, run[w] # Idle, Throws(w), faults' \in Nat
    PROVE  TypeInv'
<1> USE PublishingAssumption
    DEF TypeInv, TypeOK, RetriesLeft, LockHolds, OneLock, Idle, RunState, Throws, content
<1>1. w \in locks => /\ run[w].build \in Builds
                     /\ job[run[w].build] = "active"
                     /\ fails[run[w].build] < MaxJobRuns
  OBVIOUS
<1>2. TypeOK'
  BY <1>1
<1>3. RetriesLeft'
  BY <1>1
<1>4. LockHolds' /\ OneLock'
  BY <1>1
<1> QED
  BY <1>2, <1>3, <1>4

(* Runs of build.validate keep the types. *)
LEMMA TypeRun ==
    ASSUME TypeInv, NEW w \in Workers,
           RunStep(w) \/ RunFails(w) \/ JobStalls(w) \/ RunVanishes(w)
    PROVE  TypeInv'
<1> USE PublishingAssumption
    DEF TypeInv, TypeOK, RetriesLeft, LockHolds, OneLock, Idle, RunState, queueVars, content
<1>1. CASE \E b \in Builds : RunTakes(w, b)
  BY <1>1 DEF RunTakes
<1>2. CASE RunInspects(w)
  BY <1>2 DEF RunInspects
<1>3. CASE RunFindsNoBuild(w)
  BY <1>3, TypeThrows DEF RunFindsNoBuild
<1>4. CASE RunSettles(w)
  BY <1>4 DEF RunSettles, Written
<1>5. CASE RunEnds(w)
  BY <1>5 DEF RunEnds
<1>6. CASE RunFails(w)
  BY <1>6, TypeThrows DEF RunFails
<1>7. CASE JobStalls(w)
  BY <1>7 DEF JobStalls
<1>8. CASE RunVanishes(w)
  BY <1>8 DEF RunVanishes
<1> QED
  BY <1>1, <1>2, <1>3, <1>4, <1>5, <1>6, <1>7, <1>8 DEF RunStep

(* So does the sweep, which revives a failed job only below MaxJobRuns. *)
LEMMA TypeSweep ==
    ASSUME TypeInv, SweepStep \/ SweepFails
    PROVE  TypeInv'
<1> USE PublishingAssumption
    DEF TypeInv, TypeOK, RetriesLeft, LockHolds, OneLock, SweepIdle, queueVars, content
<1>1. CASE \E b \in Builds : SweepSelects(b)
  BY <1>1 DEF SweepSelects
<1>2. CASE SweepEnsures
  BY <1>2 DEF SweepEnsures, EnsuredJob
<1>3. CASE SweepSettles
  BY <1>3 DEF SweepSettles
<1>4. CASE SweepFails
  BY <1>4 DEF SweepFails
<1> QED
  BY <1>1, <1>2, <1>3, <1>4 DEF SweepStep

(* And so does a step that changes nothing: TypeInv is inductive. *)
LEMMA TypeStep == TypeInv /\ [Next]_vars => TypeInv'
<1>1. TypeInv /\ UNCHANGED vars => TypeInv'
  BY DEF TypeInv, TypeOK, RetriesLeft, LockHolds, OneLock, vars, queueVars, content
<1> QED
  BY <1>1, TypeRequest, TypeEnvironment, TypeRun, TypeSweep DEF Next

(* Every variable keeps its type: in particular no job of build.validate runs *)
(* again after it failed MaxJobRuns times.                                   *)
THEOREM PublishingTypes == Spec => []TypeOK
<1>1. TypeInv => TypeOK
  BY DEF TypeInv
<1> QED
  BY TypeInit, TypeStep, <1>1, PTL DEF Spec

-----------------------------------------------------------------------------
HasBuild == \E b \in Builds : build[b] # "absent"

(* A transaction past its SELECT ... FOR UPDATE is alone, and what it read is *)
(* still so.                                                                 *)
Alone == \A r \in Requests : req[r].at \in {"locked", "insert", "publish"} => lock = r
ReadsHold ==
    \A r \in Requests :
        /\ req[r].at = "locked" => req[r].seen = status
        /\ req[r].at \in {"insert", "publish"} => status = "draft"
        /\ req[r].at = "publish" => form /\ reach = "some" /\ (needsBuild => HasBuild)
SlotsSet == reach # "none" => slots > 0

LockProtects == TypeOK /\ Alone /\ ReadsHold /\ SlotsSet /\ PublishedIsComplete

(* Nothing is locked in a new draft. *)
LEMMA LockInit == Init => LockProtects
BY TypeInit DEF Init, TypeInv, LockProtects, Alone, ReadsHold, SlotsSet, PublishedIsComplete, Idle

(* The row lock keeps what one request read from the commits of the others.   *)
LEMMA LockRequest ==
    ASSUME LockProtects, TypeOK', NEW r \in Requests,
           Begin(r) \/ RequestGoesOn(r) \/ RequestEnds(r)
    PROVE  LockProtects'
<1> USE PublishingAssumption
    DEF LockProtects, TypeOK, Alone, ReadsHold, SlotsSet, PublishedIsComplete, HasBuild,
        Idle, Statuses, Commits, Unlock, InDraft, queueVars, content
<1>1. CASE Begin(r)
  BY <1>1 DEF Begin
<1>2. CASE \E op \in Ops : LockRow(r, op)
  BY <1>2 DEF LockRow, LockIsFree
<1>3. CASE RequestEnds(r)
  BY <1>3 DEF RequestEnds
<1>4. CASE SetModel(r)
  BY <1>4 DEF SetModel
<1>5. CASE PutForm(r)
  BY <1>5 DEF PutForm
<1>6. CASE SetAudience(r)
  <2>1. req[r].op.quantity \in Nat \ {0}
    BY <1>6, AudienceOp DEF SetAudience
  <2> QED
    BY <1>6, <2>1 DEF SetAudience
<1>7. CASE SetStatus(r)
  <2>1. status # "draft" /\ status' # "draft"
    BY <1>7 DEF SetStatus, StatusTransitions
  <2> QED
    BY <1>7, <2>1 DEF SetStatus
<1>8. CASE ConfirmReads(r)
  BY <1>8 DEF ConfirmReads
<1>9. CASE ConfirmRemoves(r)
  BY <1>9 DEF ConfirmRemoves
<1>10. CASE ConfirmInserts(r)
  BY <1>10 DEF ConfirmInserts, RequestState
<1>11. CASE ConfirmEnqueues(r)
  BY <1>11 DEF ConfirmEnqueues
<1>12. CASE EnqueueTimesOut(r)
  BY <1>12 DEF EnqueueTimesOut
<1>13. CASE MarkBuildFailed(r)
  BY <1>13 DEF MarkBuildFailed, Written
<1>14. CASE \E b \in Builds : DeleteBuild(r, b)
  BY <1>14 DEF DeleteBuild
<1>15. CASE RemoveObject(r)
  BY <1>15 DEF RemoveObject
<1>16. CASE PublishReads(r)
  BY <1>16 DEF PublishReads, NothingPending
<1>17. CASE PublishCommits(r)
  BY <1>17 DEF PublishCommits
<1> QED
  BY <1>1, <1>2, <1>3, <1>4, <1>5, <1>6, <1>7, <1>8, <1>9, <1>10, <1>11, <1>12, <1>13, <1>14,
     <1>15, <1>16, <1>17 DEF RequestGoesOn

(* What runs outside the lock moves the status of a build and never its row. *)
RowsStay == \A b \in Builds : build[b] = "absent" <=> build'[b] = "absent"
OutsideTheLock ==
    \/ \E b \in Builds, file \in {"good", "bad", "wrongSize"} : Upload(b, file)
    \/ \E b \in Builds : LateEnqueue(b)
    \/ \E w \in Workers : RunStep(w) \/ RunFails(w) \/ JobStalls(w) \/ RunVanishes(w)
    \/ SweepStep \/ SweepFails

(* None of it touches the row of the test, its lock or a request. *)
LEMMA OutsideKeepsRows ==
    ASSUME TypeOK, OutsideTheLock
    PROVE  RowsStay /\ UNCHANGED <<status, content, lock, req>>
<1> USE PublishingAssumption DEF TypeOK, RowsStay, content, queueVars
<1>1. CASE \E b \in Builds, file \in {"good", "bad", "wrongSize"} : Upload(b, file)
  BY <1>1 DEF Upload
<1>2. CASE \E b \in Builds : LateEnqueue(b)
  BY <1>2 DEF LateEnqueue
<1>3. ASSUME NEW w \in Workers, RunStep(w) \/ RunFails(w) \/ JobStalls(w) \/ RunVanishes(w)
      PROVE  RowsStay /\ UNCHANGED <<status, content, lock, req>>
  <2>1. CASE RunSettles(w)
    <3>1. run[w].outcome \in {"validated", "failed"}
      BY <2>1 DEF RunSettles, RunState, Idle
    <3> QED
      BY <2>1, <3>1 DEF RunSettles, Written
  <2>2. CASE ~RunSettles(w)
    BY <1>3, <2>2 DEF RunStep, RunTakes, RunInspects, RunFindsNoBuild, RunEnds, RunFails,
       JobStalls, RunVanishes, Throws
  <2> QED
    BY <2>1, <2>2
<1>4. CASE SweepStep \/ SweepFails
  BY <1>4 DEF SweepStep, SweepFails, SweepSelects, SweepEnsures, SweepSettles
<1> QED
  BY <1>1, <1>2, <1>3, <1>4 DEF OutsideTheLock

(* LockProtects is inductive. *)
LEMMA LockStep == LockProtects /\ TypeOK' /\ [Next]_vars => LockProtects'
<1> SUFFICES ASSUME LockProtects, TypeOK', [Next]_vars
             PROVE  LockProtects'
  OBVIOUS
<1>1. CASE OutsideTheLock
  BY <1>1, OutsideKeepsRows
  DEF LockProtects, Alone, ReadsHold, SlotsSet, PublishedIsComplete, HasBuild, RowsStay, content
<1>2. CASE UNCHANGED vars
  BY <1>2
  DEF LockProtects, Alone, ReadsHold, SlotsSet, PublishedIsComplete, HasBuild, vars, content
<1> QED
  BY <1>1, <1>2, LockRequest DEF Next, OutsideTheLock

(* A published test is complete, whatever wizard edits raced its publish. *)
THEOREM PublishedComplete == Spec => []PublishedIsComplete
<1>1. LockProtects => PublishedIsComplete
  BY DEF LockProtects
<1> QED
  BY LockInit, LockStep, PublishingTypes, <1>1, PTL DEF Spec

(* Once published, neither the content of a test nor the row of its build     *)
(* changes.                                                                  *)
THEOREM PublishedFrozen == Spec => ContentFrozen
<1> DEFINE Frozen == status # "draft" =>
                        /\ status' # "draft"
                        /\ UNCHANGED content
                        /\ RowsStay
<1>1. ASSUME LockProtects, NEW r \in Requests, Begin(r) \/ RequestGoesOn(r) \/ RequestEnds(r)
      PROVE  Frozen
  <2> USE DEF RowsStay, content
  <2>1. CASE MarkBuildFailed(r)
    BY <1>1, <2>1 DEF MarkBuildFailed, Written, LockProtects, TypeOK
  <2>2. CASE SetStatus(r)
    BY <1>1, <2>2
    DEF SetStatus, StatusTransitions, Statuses, LockProtects, TypeOK, ReadsHold
  <2>3. CASE ConfirmInserts(r) \/ PublishCommits(r)
    BY <1>1, <2>3 DEF ConfirmInserts, PublishCommits, LockProtects, ReadsHold
  <2>4. CASE \/ SetModel(r) \/ PutForm(r) \/ SetAudience(r)
             \/ \E b \in Builds : DeleteBuild(r, b)
    BY <1>1, <2>4
    DEF SetModel, PutForm, SetAudience, DeleteBuild, InDraft, LockProtects, ReadsHold
  <2>5. CASE \/ Begin(r) \/ RequestEnds(r) \/ \E op \in Ops : LockRow(r, op)
             \/ ConfirmReads(r) \/ ConfirmRemoves(r) \/ ConfirmEnqueues(r) \/ EnqueueTimesOut(r)
             \/ RemoveObject(r) \/ PublishReads(r)
    BY <2>5 DEF Begin, RequestEnds, LockRow, ConfirmReads, ConfirmRemoves, ConfirmEnqueues,
       EnqueueTimesOut, RemoveObject, PublishReads
  <2> QED
    BY <1>1, <2>1, <2>2, <2>3, <2>4, <2>5 DEF RequestGoesOn
<1>2. LockProtects /\ [Next]_vars => [Frozen]_vars
  BY <1>1, OutsideKeepsRows DEF Next, OutsideTheLock, LockProtects, vars, content
<1>3. Frozen => (status # "draft" => /\ status' # "draft"
                                     /\ UNCHANGED content
                                     /\ \A b \in Builds : build[b] = "absent" <=> build'[b] = "absent")
  BY DEF RowsStay
<1> QED
  BY LockInit, LockStep, PublishingTypes, <1>2, <1>3, PTL DEF Spec, ContentFrozen

(* A finished test stays finished. *)
THEOREM FinishedForever == Spec => FinishedStays
<1>1. LockProtects /\ [Next]_vars => [status = "finished" => status' = "finished"]_vars
  <2>1. ASSUME LockProtects, NEW r \in Requests,
               Begin(r) \/ RequestGoesOn(r) \/ RequestEnds(r), status = "finished"
        PROVE  status' = "finished"
    BY <2>1
    DEF RequestGoesOn, Begin, RequestEnds, LockRow, SetModel, PutForm, SetAudience, SetStatus,
        ConfirmReads, ConfirmRemoves, ConfirmInserts, ConfirmEnqueues, EnqueueTimesOut,
        MarkBuildFailed, DeleteBuild, RemoveObject, PublishReads, PublishCommits,
        StatusTransitions, Statuses, LockProtects, ReadsHold
  <2> QED
    BY <2>1, OutsideKeepsRows DEF Next, OutsideTheLock, LockProtects, vars
<1> QED
  BY LockInit, LockStep, PublishingTypes, <1>1, PTL DEF Spec, FinishedStays

(* No interleaving of wizard edits, publishes and status changes undoes a        *)
(* publish or a finish.                                                      *)
THEOREM PublishedFinal == Spec => PublishedIsFinal
BY PublishedFrozen, FinishedForever DEF PublishedIsFinal
=============================================================================
