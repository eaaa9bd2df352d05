------------------------ MODULE SessionLifecycleProofs ------------------------
(* Proofs about SessionLifecycle, for every set of players, tests, rows,     *)
(* requests, workers and sweepers, and every number of faults:               *)
(*   TypeInv    the types, with what the retry counter and the locks of the  *)
(*              queue need to keep them;                                     *)
(*   Coherent   the inductive invariant that relates the rows (stated in     *)
(*              SessionLifecycle), from which the safety properties follow;  *)
(*   the action properties, the slot count and the refinement of             *)
(*   PlaytestLedger, each from Coherent;                                     *)
(*   ScreensInv what PlayerScreens needs besides, inductive where ids grow    *)
(*              with time, and from it that the screens agree.               *)
EXTENDS PlayerScreens, FiniteSetTheorems, WellFoundedInduction, TLAPS

(* A job that may still run has not used up its runs. *)
RetriesLeft ==
    \A s \in Sessions : job[s] \in {"none", "waiting", "active"} => fails[s] < MaxJobRuns

(* A lock belongs to a run of an active job ...  *)
LockHolds ==
    \A w \in locks : run[w].at # "idle" /\ job[run[w].sess] = "active"

(* ... and a job has one lock. *)
OneLock ==
    \A v, w \in locks : run[v].sess = run[w].sess => v = w

TypeInv == TypeOK /\ RetriesLeft /\ LockHolds /\ OneLock

USE DEF Active, Settled, Startable, Unfinished, Closed, KeyGone

(* The types hold before anything was written. *)
LEMMA TypeInit == Init => TypeInv
BY BoundsAssumption
DEF Init, TypeInv, TypeOK, RetriesLeft, LockHolds, OneLock, Idle, SweepIdle,
    RequestState, RunState, SweepState

(* A request writes values of the right types and no attempt count. *)
LEMMA TypeRequest ==
    ASSUME TypeInv, NEW r \in Requests, RequestStep(r)
    PROVE  TypeInv'
<1> USE RowsAssumption, BoundsAssumption
    DEF TypeInv, TypeOK, RetriesLeft, LockHolds, OneLock, Idle, RequestState, dbVars, queueVars
<1>1. CASE \E u \in Users, t \in Tests : JoinCheck(r, u, t)
  BY <1>1 DEF JoinCheck
<1>2. CASE \E p \in Parts : JoinReserve(r, p)
  BY <1>2 DEF JoinReserve
<1>3. CASE \E p \in Parts : StartCheck(r, p)
  BY <1>3 DEF StartCheck
<1>4. CASE \E s \in Sessions : StartClaim(r, s)
  BY <1>4 DEF StartClaim
<1>5. CASE \E s \in Sessions : BeatCheck(r, s)
  BY <1>5 DEF BeatCheck
<1>6. CASE \E s \in Sessions, positive \in BOOLEAN : Finish(r, s, positive)
  BY <1>6 DEF Finish
<1>7. CASE StartBeat(r)
  BY <1>7 DEF StartBeat
<1>8. CASE BeatTouch(r)
  BY <1>8 DEF BeatTouch
<1>9. CASE MarkRecording(r)
  BY <1>9 DEF MarkRecording
<1>10. CASE FinishDelBeat(r)
  BY <1>10 DEF FinishDelBeat
<1>11. CASE FinishEnqueue(r)
  BY <1>11 DEF FinishEnqueue, EnsuredJob
<1>12. CASE RequestDies(r)
  BY <1>12 DEF RequestDies
<1> QED
  BY <1>1, <1>2, <1>3, <1>4, <1>5, <1>6, <1>7, <1>8, <1>9, <1>10, <1>11, <1>12 DEF RequestStep

(* A run that goes on with its session, and writes nothing. *)
LEMMA TypeMoves ==
    ASSUME TypeInv, NEW w \in Workers, run[w] # Idle,
           NEW next \in RunState, next.at # "idle", next.sess = run[w].sess,
           run' = [run EXCEPT ![w] = next],
           UNCHANGED <<testStatus, slotsTaken, pStatus, consented, sStatus, played, beat, recFailed,
                       verdict, xp, job, fails, locks, req, sweep, faults>>
    PROVE  TypeInv'
<1>1. run' \in [Workers -> RunState]
  BY DEF TypeInv, TypeOK
<1>2. TypeOK'
  BY <1>1 DEF TypeInv, TypeOK
<1>3. \A v \in Workers :
         run[v].at # "idle" => run'[v].at # "idle" /\ run'[v].sess = run[v].sess
  BY DEF TypeInv, TypeOK
<1>4. RetriesLeft' /\ LockHolds' /\ OneLock'
  BY <1>3 DEF TypeInv, TypeOK, RetriesLeft, LockHolds, OneLock
<1> QED
  BY <1>2, <1>4 DEF TypeInv

(* The commit of a verdict. *)
LEMMA TypeCommit ==
    ASSUME TypeInv, NEW w \in Workers, RunCommits(w)
    PROVE  TypeInv'
<1> DEFINE s == run[w].sess
           done == [at |-> "done", sess |-> s]
<1>1. s \in Sessions /\ run[w] # Idle /\ PartOf[s] \in Parts
  BY RowsAssumption DEF TypeInv, TypeOK, RunCommits, RunState, Idle
<1>2. done \in RunState /\ done.sess = s /\ done # Idle /\ done.at # "idle"
  BY <1>1 DEF RunState, Idle
<1> HIDE DEF s, done
<1>3. /\ run' = [run EXCEPT ![w] = done]
      /\ UNCHANGED <<testStatus, slotsTaken, consented, played, beat, recFailed, job, fails,
                     locks, req, sweep, faults>>
  BY DEF RunCommits, queueVars, s, done
<1>4. /\ verdict' = verdict \/ \E v \in {"valid", "invalid"} : verdict' = [verdict EXCEPT ![s] = v]
      /\ \/ sStatus' = sStatus
         \/ \E v \in {"completed", "invalidated"} : sStatus' = [sStatus EXCEPT ![s] = v]
      /\ \/ pStatus' = pStatus
         \/ \E v \in {"completed", "rejected"} : pStatus' = [pStatus EXCEPT ![PartOf[s]] = v]
      /\ xp' \in {xp, xp \cup {s}}
  BY DEF RunCommits, s
<1>5. verdict' \in [Sessions -> {"none", "valid", "invalid"}]
  BY <1>1, <1>4 DEF TypeInv, TypeOK
<1>6. sStatus' \in [Sessions -> {"absent"} \cup Unfinished \cup Closed]
  BY <1>1, <1>4 DEF TypeInv, TypeOK
<1>7. pStatus' \in [Parts -> {"absent"} \cup Active \cup Settled]
  BY <1>1, <1>4 DEF TypeInv, TypeOK
<1>8. run' \in [Workers -> RunState] /\ xp' \in SUBSET Sessions
  BY <1>1, <1>2, <1>3, <1>4 DEF TypeInv, TypeOK
<1>9. TypeOK'
  BY <1>3, <1>5, <1>6, <1>7, <1>8 DEF TypeInv, TypeOK
<1>10. /\ \A v \in Workers : run'[v].sess = run[v].sess \/ run[v] = Idle
       /\ \A v \in Workers : run[v].at # "idle" => run'[v].at # "idle" /\ run'[v].sess = run[v].sess
  BY <1>2, <1>3 DEF TypeInv, TypeOK, s
<1>11. RetriesLeft' /\ LockHolds' /\ OneLock'
  BY <1>3, <1>10 DEF TypeInv, TypeOK, RetriesLeft, LockHolds, OneLock
<1> QED
  BY <1>9, <1>11 DEF TypeInv

(* A run takes a lock only of a waiting job, so a job never has two. *)
LEMMA TypeRun ==
    ASSUME TypeInv, NEW w \in Workers, RunStep(w)
    PROVE  TypeInv'
<1> USE RowsAssumption, BoundsAssumption
    DEF TypeInv, TypeOK, RetriesLeft, LockHolds, OneLock, Idle, RunState, dbVars, queueVars
<1>1. CASE \E s \in Sessions : RunTakes(w, s)
  BY <1>1 DEF RunTakes
<1>2. CASE RunJudges(w)
  BY <1>2 DEF RunJudges, SessionIsValid
<1>3. CASE RunReadsReward(w)
  <2>1. run[w] \in [at : {"begin"}, sess : Sessions, valid : BOOLEAN]
    BY <1>3 DEF RunReadsReward
  <2>2. AlreadyRewarded(run[w].sess) \in BOOLEAN
    BY DEF AlreadyRewarded
  <2>3. [at |-> "commit", sess |-> run[w].sess, valid |-> run[w].valid,
         rewarded |-> AlreadyRewarded(run[w].sess)]
           \in [at : {"commit"}, sess : Sessions, valid : BOOLEAN, rewarded : BOOLEAN]
    BY <2>1, <2>2
  <2> QED
    BY <1>3, <2>1, <2>3, TypeMoves DEF RunReadsReward
<1>4. CASE RunCommits(w)
  BY <1>4, TypeCommit
<1>5. CASE RunEnds(w)
  BY <1>5 DEF RunEnds
<1> QED
  BY <1>1, <1>2, <1>3, <1>4, <1>5 DEF RunStep

(* The sweep revives a failed job only below MaxJobRuns. *)
LEMMA TypeSweep ==
    ASSUME TypeInv, NEW w \in Sweepers, SweepStep(w)
    PROVE  TypeInv'
<1> USE RowsAssumption, BoundsAssumption
    DEF TypeInv, TypeOK, RetriesLeft, LockHolds, OneLock, SweepIdle, SweepState,
        dbVars, queueVars
<1>1. CASE SweepSelectsOpen(w)
  BY <1>1 DEF SweepSelectsOpen, SweepCandidates
<1>2. CASE SweepCloses(w)
  BY <1>2 DEF SweepCloses
<1>3. CASE SweepEnsures(w)
  BY <1>3 DEF SweepEnsures, EnsuredJob
<1>4. CASE SweepSelectsUnvalidated(w)
  BY <1>4 DEF SweepSelectsUnvalidated, Unvalidated
<1>5. CASE SweepEnds(w)
  BY <1>5 DEF SweepEnds
<1>6. CASE \E s \in Sessions : SweepLooksAtBeat(w, s)
  BY <1>6 DEF SweepLooksAtBeat
<1>7. CASE \E s \in Sessions : SweepReensures(w, s)
  BY <1>7 DEF SweepReensures, EnsuredJob
<1> QED
  BY <1>1, <1>2, <1>3, <1>4, <1>5, <1>6, <1>7 DEF SweepStep

(* Only the run holding the lock counts a failure, of a job below MaxJobRuns. *)
LEMMA TypeFault ==
    ASSUME TypeInv, FaultStep
    PROVE  TypeInv'
<1> USE RowsAssumption, BoundsAssumption
    DEF TypeInv, TypeOK, RetriesLeft, LockHolds, OneLock, Idle, SweepIdle, RunState,
        SweepState, dbVars, queueVars
<1>1. ASSUME NEW w \in Workers, RunFails(w)
      PROVE  TypeInv'
  <2>1. w \in locks => /\ run[w].sess \in Sessions
                       /\ job[run[w].sess] = "active"
                       /\ fails[run[w].sess] < MaxJobRuns
    BY <1>1 DEF RunFails
  <2>2. TypeOK'
    BY <1>1, <2>1 DEF RunFails
  <2>3. RetriesLeft'
    BY <1>1, <2>1 DEF RunFails
  <2>4. LockHolds' /\ OneLock'
    BY <1>1, <2>1 DEF RunFails
  <2> QED
    BY <2>2, <2>3, <2>4
<1>2. CASE \E w \in Workers : JobStalls(w)
  BY <1>2 DEF JobStalls
<1>3. CASE \E w \in Workers : RunVanishes(w)
  BY <1>3 DEF RunVanishes
<1>4. CASE \E w \in Sweepers : SweepFails(w)
  BY <1>4 DEF SweepFails
<1> QED
  BY <1>1, <1>2, <1>3, <1>4 DEF FaultStep

(* The studio, the clock and failing recordings keep the types. *)
LEMMA TypeEnvironment ==
    ASSUME TypeInv, EnvironmentStep
    PROVE  TypeInv'
<1> USE RowsAssumption, BoundsAssumption
    DEF TypeInv, TypeOK, RetriesLeft, LockHolds, OneLock, dbVars, queueVars
<1>1. CASE \E t \in Tests, status \in {"published", "paused", "over"} : SetTestStatus(t, status)
  BY <1>1 DEF SetTestStatus
<1>2. CASE \E p \in Parts : Consent(p)
  BY <1>2 DEF Consent
<1>3. CASE \E s \in Sessions : BeatExpires(s)
  BY <1>3 DEF BeatExpires
<1>4. CASE \E s \in Sessions : RecordingFails(s)
  BY <1>4 DEF RecordingFails
<1> QED
  BY <1>1, <1>2, <1>3, <1>4 DEF EnvironmentStep

(* So does a step that changes nothing. *)
LEMMA TypeStutter ==
    ASSUME TypeInv, UNCHANGED vars
    PROVE  TypeInv'
BY DEF TypeInv, TypeOK, RetriesLeft, LockHolds, OneLock, vars

(* TypeInv is inductive. *)
LEMMA TypeStep == TypeInv /\ [Next]_vars => TypeInv'
BY TypeRequest, TypeRun, TypeSweep, TypeFault, TypeEnvironment, TypeStutter DEF Next

(* Every variable keeps its type; in particular no job of session.validate   *)
(* ever runs again after it failed MaxJobRuns times.                         *)
THEOREM TypeCorrect == Spec => []TypeOK
<1>1. TypeInv => TypeOK
  BY DEF TypeInv
<1> QED
  BY TypeInit, TypeStep, <1>1, PTL DEF Spec

-----------------------------------------------------------------------------
(* There is nothing to agree about at first. *)
LEMMA CoherentInit == Init => Coherent
BY RowsAssumption DEF Init, Coherent, StatusTable, OnlyClosedAreJudged, RewardReadIsCurrent,
   OneActiveParticipation, OneSessionPerParticipation, RewardedExactlyOnce, HasCompleted, XpOf,
   Idle, SweepIdle

(* A step that writes no row keeps what Coherent says of rows. *)
LEMMA RowsUntouched ==
    ASSUME Coherent, UNCHANGED <<pStatus, sStatus, verdict, xp>>,
           OnlyClosedAreJudged', RewardReadIsCurrent'
    PROVE  Coherent'
BY DEF Coherent, StatusTable, OneActiveParticipation, OneSessionPerParticipation,
       RewardedExactlyOnce, HasCompleted, XpOf

(* Rewards stay in order while no participation completes. *)
LEMMA RewardsUntouched ==
    ASSUME RewardedExactlyOnce, UNCHANGED xp,
           \A p \in Parts : pStatus'[p] = "completed" <=> pStatus[p] = "completed"
    PROVE  RewardedExactlyOnce'
<1>1. ASSUME NEW u \in Users, NEW t \in Tests
      PROVE  /\ HasCompleted(u, t)' <=> HasCompleted(u, t)
             /\ XpOf(u, t)' = XpOf(u, t)
  BY DEF HasCompleted, XpOf
<1> QED
  BY <1>1 DEF RewardedExactlyOnce

(* What a run read stays current while no verdict is written. *)
LEMMA ReadsUntouched ==
    ASSUME RewardReadIsCurrent, UNCHANGED <<run, verdict, xp>>
    PROVE  RewardReadIsCurrent'
BY DEF RewardReadIsCurrent, AlreadyRewarded, XpOf

(* Where a request, a run or the sweep has a session, it is one. *)
LEMMA TypedSessions ==
    ASSUME TypeOK
    PROVE  /\ \A w \in Workers : run[w].at # "idle" => run[w].sess \in Sessions
           /\ \A r \in Requests : req[r].at \in {"delBeat", "enqueue"} => req[r].sess \in Sessions
           /\ \A w \in Sweepers :
                 /\ sweep[w].at \in {"close", "ensure"} => sweep[w].cur \in Sessions
                 /\ sweep[w].todo \subseteq Sessions
<1>1. ASSUME NEW w \in Workers, run[w].at # "idle" PROVE run[w].sess \in Sessions
  <2>1. run[w] \in RunState
    BY DEF TypeOK
  <2> QED
    BY <1>1, <2>1 DEF RunState, Idle
<1>2. ASSUME NEW r \in Requests, req[r].at \in {"delBeat", "enqueue"} PROVE req[r].sess \in Sessions
  <2>1. req[r] \in RequestState
    BY DEF TypeOK
  <2> QED
    BY <1>2, <2>1 DEF RequestState, Idle
<1>3. ASSUME NEW w \in Sweepers
      PROVE  /\ sweep[w].at \in {"close", "ensure"} => sweep[w].cur \in Sessions
             /\ sweep[w].todo \subseteq Sessions
  <2>1. sweep[w] \in SweepState
    BY DEF TypeOK
  <2> QED
    BY <2>1 DEF SweepState
<1> QED
  BY <1>1, <1>2, <1>3

(* join, start, heartbeat and finish keep Coherent. *)
LEMMA CoherentRequest ==
    ASSUME TypeOK, TypeOK', Coherent, NEW r \in Requests, RequestStep(r)
    PROVE  Coherent'
<1> USE RowsAssumption DEF Idle, dbVars, queueVars
<1> DEFINE Quiet == UNCHANGED <<pStatus, sStatus, verdict, xp>>
<1>1. CASE Quiet
  <2>1. /\ UNCHANGED <<run, sweep>>
        /\ \A s \in Sessions : job'[s] # "none" => sStatus[s] \in Closed
        /\ \A q \in Requests :
              req'[q].at \in {"delBeat", "enqueue"} => sStatus[req'[q].sess] \in Closed
    <3> USE <1>1 DEF Coherent, OnlyClosedAreJudged, TypeOK, RequestState
    <3>1. CASE \E u \in Users, t \in Tests : JoinCheck(r, u, t)
      BY <3>1 DEF JoinCheck
    <3>2. CASE \E p \in Parts : JoinReserve(r, p)
      BY <3>2 DEF JoinReserve
    <3>3. CASE \E p \in Parts : StartCheck(r, p)
      BY <3>3 DEF StartCheck
    <3>4. CASE \E s \in Sessions : StartClaim(r, s)
      BY <3>4 DEF StartClaim
    <3>5. CASE \E s \in Sessions : BeatCheck(r, s)
      BY <3>5 DEF BeatCheck
    <3>6. CASE \E s \in Sessions, positive \in BOOLEAN : Finish(r, s, positive)
      BY <3>6 DEF Finish, CanFinish
    <3>7. CASE StartBeat(r)
      BY <3>7 DEF StartBeat
    <3>8. CASE BeatTouch(r)
      BY <3>8 DEF BeatTouch
    <3>9. CASE MarkRecording(r)
      BY <3>9 DEF MarkRecording
    <3>10. CASE FinishDelBeat(r)
      BY <3>10 DEF FinishDelBeat
    <3>11. CASE FinishEnqueue(r)
      BY <3>11 DEF FinishEnqueue, EnsuredJob
    <3>12. CASE RequestDies(r)
      BY <3>12 DEF RequestDies
    <3> QED
      BY <3>1, <3>2, <3>3, <3>4, <3>5, <3>6, <3>7, <3>8, <3>9, <3>10, <3>11, <3>12
      DEF RequestStep
  <2>2. OnlyClosedAreJudged' /\ RewardReadIsCurrent'
    BY <1>1, <2>1 DEF Coherent, OnlyClosedAreJudged, RewardReadIsCurrent, AlreadyRewarded, XpOf
  <2> QED
    BY <1>1, <2>2, RowsUntouched
<1>2. CASE \E p \in Parts : JoinReserve(r, p)
  <2>1. PICK p \in Parts : JoinReserve(r, p)
    BY <1>2
  <2>2. /\ ~Present(p) /\ ~HasActive(UserOf[p], TestOf[p])
        /\ pStatus' = [pStatus EXCEPT ![p] = "reserved"]
        /\ req' = [req EXCEPT ![r] = Idle]
        /\ UNCHANGED <<sStatus, verdict, xp, job, run, sweep>>
    BY <2>1 DEF JoinReserve
  <2> USE <2>2 DEF Coherent
  <2>3. StatusTable'
    BY DEF StatusTable, TypeOK, Present
  <2>4. OnlyClosedAreJudged' /\ RewardReadIsCurrent'
    BY DEF OnlyClosedAreJudged, RewardReadIsCurrent, AlreadyRewarded, XpOf, TypeOK
  <2>5. OneActiveParticipation'
    <3> SUFFICES ASSUME NEW q1 \in Parts, NEW q2 \in Parts, SamePlayerAndTest(q1, q2),
                        pStatus'[q1] \in Active, pStatus'[q2] \in Active
                 PROVE  q1 = q2
      BY DEF OneActiveParticipation, SamePlayerAndTest
    <3>1. \A q \in Parts : q # p => pStatus'[q] = pStatus[q]
      OBVIOUS
    <3>2. \A q \in Parts : SamePlayerAndTest(p, q) /\ q # p => pStatus'[q] \notin Active
      BY <3>1 DEF SamePlayerAndTest, HasActive
    <3>3. CASE q1 = p \/ q2 = p
      BY <3>2, <3>3 DEF SamePlayerAndTest
    <3>4. CASE q1 # p /\ q2 # p
      BY <3>1, <3>4 DEF OneActiveParticipation
    <3> QED
      BY <3>3, <3>4
  <2>6. OneSessionPerParticipation'
    BY DEF OneSessionPerParticipation
  <2>7. RewardedExactlyOnce'
    <3>1. \A q \in Parts : pStatus'[q] = "completed" <=> pStatus[q] = "completed"
      BY DEF TypeOK, Present
    <3> QED
      BY <3>1, RewardsUntouched
  <2> QED
    BY <2>3, <2>4, <2>5, <2>6, <2>7
<1>3. CASE \E s \in Sessions : StartClaim(r, s)
  <2>1. PICK s \in Sessions : StartClaim(r, s)
    BY <1>3
  <2>2. /\ sStatus[s] = "absent" /\ pStatus[PartOf[s]] = "reserved"
        /\ pStatus' = [pStatus EXCEPT ![PartOf[s]] = "playing"]
        /\ sStatus' = [sStatus EXCEPT ![s] = "starting"]
        /\ req' = [req EXCEPT ![r] = [at |-> "firstBeat", sess |-> s]]
        /\ UNCHANGED <<verdict, xp, job, run, sweep>>
    BY <2>1 DEF StartClaim
  <2> USE <2>2 DEF Coherent
  <2>3. StatusTable'
    BY DEF StatusTable, TypeOK
  <2>4. OnlyClosedAreJudged'
    BY DEF OnlyClosedAreJudged, TypeOK, RunState, SweepState
  <2>5. OneActiveParticipation'
    BY DEF OneActiveParticipation, SamePlayerAndTest, TypeOK
  <2>6. OneSessionPerParticipation'
    <3>1. \A q \in Sessions : PartOf[q] = PartOf[s] => sStatus[q] = "absent"
      BY DEF StatusTable, TypeOK
    <3> QED
      BY <3>1 DEF OneSessionPerParticipation, TypeOK
  <2>7. RewardedExactlyOnce' /\ RewardReadIsCurrent'
    <3>1. \A q \in Parts : pStatus'[q] = "completed" <=> pStatus[q] = "completed"
      BY DEF TypeOK
    <3> QED
      BY <3>1, RewardsUntouched, ReadsUntouched
  <2> QED
    BY <2>3, <2>4, <2>5, <2>6, <2>7
<1>4. CASE \E s \in Sessions, positive \in BOOLEAN : Finish(r, s, positive)
  <2>1. PICK s \in Sessions, positive \in BOOLEAN : Finish(r, s, positive)
    BY <1>4
  <2>2. /\ sStatus[s] \in Unfinished /\ pStatus[PartOf[s]] = "playing" /\ verdict[s] = "none"
        /\ pStatus' = [pStatus EXCEPT ![PartOf[s]] = "in_review"]
        /\ sStatus' = [sStatus EXCEPT ![s] = "processing"]
        /\ req' = [req EXCEPT ![r] = [at |-> "delBeat", sess |-> s]]
        /\ UNCHANGED <<verdict, xp, job, run, sweep>>
    BY <2>1 DEF Finish, CanFinish, Coherent, StatusTable
  <2> USE <2>2 DEF Coherent
  <2>3. StatusTable'
    BY DEF StatusTable, OneSessionPerParticipation, TypeOK
  <2>4. OnlyClosedAreJudged'
    BY DEF OnlyClosedAreJudged, TypeOK, RunState, SweepState
  <2>5. OneActiveParticipation' /\ OneSessionPerParticipation'
    BY DEF OneActiveParticipation, OneSessionPerParticipation, SamePlayerAndTest, TypeOK
  <2>6. RewardedExactlyOnce' /\ RewardReadIsCurrent'
    <3>1. \A q \in Parts : pStatus'[q] = "completed" <=> pStatus[q] = "completed"
      BY DEF TypeOK
    <3> QED
      BY <3>1, RewardsUntouched, ReadsUntouched
  <2> QED
    BY <2>3, <2>4, <2>5, <2>6
<1>5. CASE MarkRecording(r)
  <2>1. /\ sStatus' = [s \in Sessions |->
                          IF s = req[r].sess /\ sStatus[s] = "starting" THEN "recording"
                                                                        ELSE sStatus[s]]
        /\ req' = [req EXCEPT ![r] = Idle]
        /\ UNCHANGED <<pStatus, verdict, xp, job, run, sweep>>
    BY <1>5 DEF MarkRecording, MarksRecording
  <2> USE <2>1 DEF Coherent
  <2>2. StatusTable' /\ OneSessionPerParticipation'
    BY DEF StatusTable, OneSessionPerParticipation, TypeOK
  <2>3. OnlyClosedAreJudged'
    <3>1. \A s \in Sessions :
             /\ sStatus[s] \in Closed => sStatus'[s] \in Closed
             /\ sStatus[s] # "absent" => sStatus'[s] # "absent"
      OBVIOUS
    <3>2. \A q \in Requests : req'[q] = req[q] \/ req'[q].at = "idle"
      BY DEF TypeOK
    <3>3. /\ \A w \in Workers : run[w].at # "idle" => run[w].sess \in Sessions
          /\ \A q \in Requests : req[q].at \in {"delBeat", "enqueue"} => req[q].sess \in Sessions
          /\ \A w \in Sweepers :
                /\ sweep[w].at \in {"close", "ensure"} => sweep[w].cur \in Sessions
                /\ sweep[w].todo \subseteq Sessions
      BY TypedSessions
    <3>4. UNCHANGED <<job, run, sweep>>
      OBVIOUS
    <3> QED
      BY <3>1, <3>2, <3>3, <3>4 DEF OnlyClosedAreJudged
  <2>4. RewardReadIsCurrent' /\ OneActiveParticipation' /\ RewardedExactlyOnce'
    BY RewardsUntouched, ReadsUntouched DEF OneActiveParticipation
  <2> QED
    BY <2>2, <2>3, <2>4
<1> QED
  BY <1>1, <1>2, <1>3, <1>4, <1>5
  DEF RequestStep, JoinCheck, StartCheck, BeatCheck, StartBeat, BeatTouch, FinishDelBeat,
      FinishEnqueue, RequestDies

(* So does every step of a job run; the commit is the one that matters. *)
LEMMA CoherentRun ==
    ASSUME TypeOK, TypeOK', Coherent, NEW w \in Workers, RunStep(w)
    PROVE  Coherent'
<1> USE RowsAssumption DEF Idle, dbVars, queueVars
<1>1. CASE \E s \in Sessions : RunTakes(w, s)
  <2>1. OnlyClosedAreJudged'
    BY <1>1 DEF RunTakes, Coherent, OnlyClosedAreJudged, TypeOK
  <2>2. RewardReadIsCurrent'
    BY <1>1 DEF RunTakes, Coherent, RewardReadIsCurrent, AlreadyRewarded, XpOf, TypeOK
  <2> QED
    BY <1>1, <2>1, <2>2, RowsUntouched DEF RunTakes
<1>2. CASE RunJudges(w) \/ RunReadsReward(w)
  <2>1. OnlyClosedAreJudged'
    <3>1. CASE RunJudges(w)
      BY <3>1 DEF RunJudges, Coherent, OnlyClosedAreJudged, TypeOK, RunState
    <3>2. CASE RunReadsReward(w)
      BY <3>2 DEF RunReadsReward, Coherent, OnlyClosedAreJudged, TypeOK, RunState
    <3> QED
      BY <1>2, <3>1, <3>2
  <2>2. RewardReadIsCurrent'
    <3>1. CASE RunJudges(w)
      BY <3>1 DEF RunJudges, Coherent, RewardReadIsCurrent, AlreadyRewarded, XpOf, TypeOK
    <3>2. ASSUME RunReadsReward(w), NEW v \in Workers,
                 run'[v].at = "commit", verdict'[run'[v].sess] = "none"
          PROVE  run'[v].rewarded = AlreadyRewarded(run[v].sess)'
      <4>1. CASE v = w
        BY <3>2, <4>1 DEF RunReadsReward, AlreadyRewarded, XpOf, TypeOK
      <4>2. CASE v # w
        BY <3>2, <4>2 DEF RunReadsReward, Coherent, RewardReadIsCurrent, AlreadyRewarded, XpOf, TypeOK
      <4> QED
        BY <4>1, <4>2
    <3> QED
      BY <1>2, <3>1, <3>2 DEF RewardReadIsCurrent
  <2> QED
    BY <1>2, <2>1, <2>2, RowsUntouched DEF RunJudges, RunReadsReward
<1>3. CASE RunEnds(w)
  <2>1. OnlyClosedAreJudged'
    BY <1>3 DEF RunEnds, Coherent, OnlyClosedAreJudged, TypeOK, RunState
  <2>2. RewardReadIsCurrent'
    BY <1>3 DEF RunEnds, Coherent, RewardReadIsCurrent, AlreadyRewarded, XpOf, TypeOK
  <2> QED
    BY <1>3, <2>1, <2>2, RowsUntouched DEF RunEnds
<1>4. CASE RunCommits(w) /\ ~GateOpen(run[w].sess)
  <2>1. OnlyClosedAreJudged'
    BY <1>4 DEF RunCommits, Coherent, OnlyClosedAreJudged, TypeOK, RunState
  <2>2. RewardReadIsCurrent'
    BY <1>4 DEF RunCommits, Coherent, RewardReadIsCurrent, AlreadyRewarded, XpOf, TypeOK
  <2> QED
    BY <1>4, <2>1, <2>2, RowsUntouched DEF RunCommits
<1>5. CASE RunCommits(w) /\ GateOpen(run[w].sess)
  <2>0. PICK s \in Sessions, ok \in BOOLEAN : s = run[w].sess /\ ok = run[w].valid
    BY <1>5 DEF RunCommits, TypeOK, RunState
  <2> DEFINE p == PartOf[s]
  <2>1. /\ p \in Parts
        /\ run[w].at = "commit" /\ verdict[s] = "none"
        /\ run[w].rewarded = AlreadyRewarded(s)
        /\ sStatus[s] \in {"processing", "invalidated"}
        /\ pStatus[p] \in {"playing", "in_review"}
    BY <1>5, <2>0 DEF RunCommits, GateOpen, Coherent, RewardReadIsCurrent, OnlyClosedAreJudged,
                      StatusTable, TypeOK, RunState
  <2>2. /\ verdict' = [verdict EXCEPT ![s] = IF ok THEN "valid" ELSE "invalid"]
        /\ sStatus' = [sStatus EXCEPT ![s] = IF ok THEN "completed" ELSE "invalidated"]
        /\ pStatus' = [pStatus EXCEPT ![p] = IF ok THEN "completed" ELSE "rejected"]
        /\ xp' = IF ok /\ ~AlreadyRewarded(s) THEN xp \cup {s} ELSE xp
        /\ run' = [run EXCEPT ![w] = [at |-> "done", sess |-> s]]
        /\ UNCHANGED <<job, req, sweep>>
    BY <1>5, <2>0, <2>1 DEF RunCommits
  <2>3. \A q \in Sessions : PartOf[q] = p /\ sStatus[q] # "absent" => q = s
    BY <2>1 DEF Coherent, OneSessionPerParticipation, TypeOK
  <2> HIDE DEF p
  <2>4. StatusTable'
    BY <2>1, <2>2, <2>3 DEF Coherent, StatusTable, TypeOK, p
  <2>5. OnlyClosedAreJudged'
    BY <2>1, <2>2 DEF Coherent, OnlyClosedAreJudged, TypeOK, RunState, SweepState
  <2>6. OneActiveParticipation'
    BY <2>1, <2>2 DEF Coherent, OneActiveParticipation, SamePlayerAndTest, TypeOK
  <2>7. OneSessionPerParticipation'
    BY <2>1, <2>2 DEF Coherent, OneSessionPerParticipation, TypeOK
  <2>8. \A q \in xp' : verdict'[q] = "valid"
    BY <2>1, <2>2 DEF Coherent, TypeOK
  <2>9. RewardedExactlyOnce'
    <3> DEFINE u == UserOf[p]
               t == TestOf[p]
    <3>1. /\ u \in Users /\ t \in Tests
          /\ AlreadyRewarded(s) <=> XpOf(u, t) # {}
          /\ s \notin xp /\ pStatus[p] # "completed"
      BY <2>1 DEF AlreadyRewarded, Coherent, p
    <3>2. ASSUME NEW v \in Users, NEW k \in Tests, ~(v = u /\ k = t)
          PROVE  HasCompleted(v, k)' = HasCompleted(v, k) /\ XpOf(v, k)' = XpOf(v, k)
      <4>1. HasCompleted(v, k)' <=> HasCompleted(v, k)
        BY <2>1, <2>2, <3>2 DEF HasCompleted, TypeOK
      <4>2. XpOf(v, k)' = XpOf(v, k)
        BY <2>1, <2>2, <3>2 DEF XpOf, TypeOK, p
      <4> QED
        BY <4>1, <4>2 DEF HasCompleted
    <3>3. /\ HasCompleted(u, t)' <=> ok \/ HasCompleted(u, t)
          /\ XpOf(u, t)' = IF ok /\ XpOf(u, t) = {} THEN {s} ELSE XpOf(u, t)
      <4>1. HasCompleted(u, t)' <=> ok \/ HasCompleted(u, t)
        BY <2>1, <2>2, <3>1 DEF HasCompleted, TypeOK
      <4>2. CASE ok /\ XpOf(u, t) = {}
        BY <2>1, <2>2, <3>1, <4>1, <4>2 DEF XpOf, TypeOK, p
      <4>3. CASE ~(ok /\ XpOf(u, t) = {})
        BY <2>1, <2>2, <3>1, <4>1, <4>3 DEF XpOf, TypeOK, p
      <4> QED
        BY <4>2, <4>3
    <3> HIDE DEF u, t
    <3> SUFFICES ASSUME NEW v \in Users, NEW k \in Tests
                 PROVE  /\ HasCompleted(v, k)' <=> XpOf(v, k)' # {}
                        /\ \A q1, q2 \in XpOf(v, k)' : q1 = q2
      BY DEF RewardedExactlyOnce
    <3>4. /\ HasCompleted(v, k) <=> XpOf(v, k) # {}
          /\ \A q1, q2 \in XpOf(v, k) : q1 = q2
      BY DEF Coherent, RewardedExactlyOnce
    <3>5. CASE v = u /\ k = t
      BY <3>3, <3>4, <3>5
    <3>6. CASE ~(v = u /\ k = t)
      BY <3>2, <3>4, <3>6
    <3> QED
      BY <3>5, <3>6
  <2>10. RewardReadIsCurrent'
    <3>1. ASSUME NEW v \in Workers, run'[v].at = "commit", verdict'[run'[v].sess] = "none"
          PROVE  /\ run'[v] = run[v] /\ verdict[run[v].sess] = "none"
                 /\ XpOf(UserOf[PartOf[run[v].sess]], TestOf[PartOf[run[v].sess]])'
                      = XpOf(UserOf[PartOf[run[v].sess]], TestOf[PartOf[run[v].sess]])
      <4>1. run'[v] = run[v]
        BY <2>2, <3>1 DEF TypeOK
      <4>2. PICK q \in Sessions : q = run[v].sess
        BY <3>1, <4>1 DEF TypeOK, RunState
      <4>3. q # s /\ verdict[q] = "none" /\ sStatus[q] \in Closed
        BY <2>1, <2>2, <3>1, <4>1, <4>2 DEF TypeOK, Coherent, OnlyClosedAreJudged
      <4>4. PartOf[q] # p /\ pStatus[PartOf[q]] \in Active
        BY <2>3, <4>3 DEF Coherent, StatusTable
      <4>5. ~SamePlayerAndTest(PartOf[q], p)
        BY <2>1, <4>4 DEF Coherent, OneActiveParticipation
      <4>6. XpOf(UserOf[PartOf[q]], TestOf[PartOf[q]])' = XpOf(UserOf[PartOf[q]], TestOf[PartOf[q]])
        BY <2>2, <4>5 DEF XpOf, SamePlayerAndTest, p
      <4> QED
        BY <3>1, <4>1, <4>2, <4>3, <4>6 DEF XpOf
    <3> QED
      BY <3>1 DEF Coherent, RewardReadIsCurrent, AlreadyRewarded, XpOf
  <2> QED
    BY <2>4, <2>5, <2>6, <2>7, <2>8, <2>9, <2>10 DEF Coherent
<1> QED
  BY <1>1, <1>2, <1>3, <1>4, <1>5 DEF RunStep

(* So does the sweep: it closes only what is open, which no one judges. *)
LEMMA CoherentSweep ==
    ASSUME TypeOK, TypeOK', Coherent, NEW w \in Sweepers, SweepStep(w)
    PROVE  Coherent'
<1> USE RowsAssumption DEF SweepIdle, dbVars, queueVars
<1>1. CASE ~SweepCloses(w)
  <2>1. UNCHANGED <<pStatus, sStatus, verdict, xp, run, req>>
    BY <1>1 DEF SweepStep, SweepSelectsOpen, SweepEnsures, SweepSelectsUnvalidated, SweepEnds,
                SweepLooksAtBeat, SweepReensures
  <2>2. OnlyClosedAreJudged'
    <3> USE DEF Coherent, OnlyClosedAreJudged, TypeOK, SweepState
    <3>1. CASE SweepSelectsOpen(w)
      BY <3>1 DEF SweepSelectsOpen, SweepCandidates
    <3>2. CASE SweepEnsures(w)
      BY <3>2 DEF SweepEnsures, EnsuredJob
    <3>3. CASE SweepSelectsUnvalidated(w)
      BY <3>3 DEF SweepSelectsUnvalidated, Unvalidated
    <3>4. CASE SweepEnds(w)
      BY <3>4 DEF SweepEnds
    <3>5. CASE \E s \in Sessions : SweepLooksAtBeat(w, s)
      BY <3>5 DEF SweepLooksAtBeat
    <3>6. CASE \E s \in Sessions : SweepReensures(w, s)
      BY <3>6 DEF SweepReensures, EnsuredJob
    <3> QED
      BY <1>1, <3>1, <3>2, <3>3, <3>4, <3>5, <3>6 DEF SweepStep
  <2> QED
    BY <2>1, <2>2, RowsUntouched, ReadsUntouched DEF Coherent
<1>2. CASE SweepCloses(w)
  <2>1. PICK s \in Sessions : s = sweep[w].cur
    BY <1>2 DEF SweepCloses, TypeOK, SweepState
  <2> DEFINE fate == IF sStatus[s] \in Unfinished THEN "invalidated" ELSE sStatus[s]
  <2>a. sStatus' = [q \in Sessions |-> IF q = s /\ sStatus[q] \in Unfinished THEN "invalidated"
                                                                           ELSE sStatus[q]]
    BY <1>2, <2>1 DEF SweepCloses, TimesOut
  <2>b. sStatus' = [sStatus EXCEPT ![s] = fate]
    BY <2>a DEF TypeOK
  <2>2. /\ sStatus' = [sStatus EXCEPT ![s] = fate]
        /\ sweep[w].at = "close" /\ sStatus[s] # "absent"
        /\ sweep' = [sweep EXCEPT ![w] = [at |-> "ensure", todo |-> @.todo, cur |-> s]]
        /\ UNCHANGED <<pStatus, verdict, xp, job, req, run>>
    BY <1>2, <2>1, <2>b DEF SweepCloses, Coherent, OnlyClosedAreJudged
  <2>3. StatusTable'
    BY <2>2 DEF Coherent, StatusTable, TypeOK
  <2>4. OnlyClosedAreJudged'
    BY <2>2 DEF Coherent, OnlyClosedAreJudged, TypeOK, RunState, RequestState, SweepState
  <2>5. OneActiveParticipation' /\ OneSessionPerParticipation'
    BY <2>2 DEF Coherent, OneActiveParticipation, OneSessionPerParticipation, TypeOK
  <2>6. RewardReadIsCurrent' /\ RewardedExactlyOnce'
    BY <2>2, RewardsUntouched, ReadsUntouched DEF Coherent
  <2> QED
    BY <2>2, <2>3, <2>4, <2>5, <2>6 DEF Coherent
<1> QED
  BY <1>1, <1>2

(* Failed, stalled and killed runs and sweeps write no row. *)
LEMMA CoherentFault ==
    ASSUME TypeInv, TypeOK', Coherent, FaultStep
    PROVE  Coherent'
<1> USE RowsAssumption DEF TypeInv, Idle, SweepIdle, dbVars, queueVars
<1>1. UNCHANGED <<pStatus, sStatus, verdict, xp, req>>
  BY DEF FaultStep, RunFails, JobStalls, RunVanishes, SweepFails
<1>2. OnlyClosedAreJudged'
  <2> USE DEF Coherent, OnlyClosedAreJudged, TypeOK, RunState
  <2>1. ASSUME NEW w \in Workers, RunFails(w)
        PROVE  OnlyClosedAreJudged'
    <3>1. PICK s \in Sessions : s = run[w].sess /\ sStatus[s] \in Closed
      BY <2>1 DEF RunFails
    <3> QED
      BY <1>1, <2>1, <3>1 DEF RunFails
  <2>2. ASSUME NEW w \in Workers, JobStalls(w)
        PROVE  OnlyClosedAreJudged'
    <3>1. PICK s \in Sessions : s = run[w].sess /\ sStatus[s] \in Closed
      BY <2>2 DEF JobStalls, LockHolds
    <3> QED
      BY <1>1, <2>2, <3>1 DEF JobStalls
  <2>3. CASE \E w \in Workers : RunVanishes(w)
    BY <2>3 DEF RunVanishes
  <2>4. CASE \E w \in Sweepers : SweepFails(w)
    BY <2>4 DEF SweepFails
  <2> QED
    BY <2>1, <2>2, <2>3, <2>4 DEF FaultStep
<1>3. \A w \in Workers : run'[w] = run[w] \/ run'[w] = Idle
  BY DEF FaultStep, RunFails, JobStalls, RunVanishes, SweepFails, TypeOK
<1>4. RewardReadIsCurrent'
  BY <1>1, <1>3 DEF Coherent, RewardReadIsCurrent, AlreadyRewarded, XpOf
<1> QED
  BY <1>1, <1>2, <1>4, RowsUntouched

(* Neither does the environment. *)
LEMMA CoherentEnvironment ==
    ASSUME TypeOK, TypeOK', Coherent, EnvironmentStep
    PROVE  Coherent'
<1>1. UNCHANGED <<pStatus, sStatus, verdict, xp, job, req, run, sweep>>
  BY DEF EnvironmentStep, SetTestStatus, Consent, BeatExpires, RecordingFails, dbVars, queueVars
<1>2. OnlyClosedAreJudged' /\ RewardReadIsCurrent'
  BY <1>1, ReadsUntouched DEF Coherent, OnlyClosedAreJudged
<1> QED
  BY <1>1, <1>2, RowsUntouched

(* Coherent is inductive, given the types. *)
LEMMA CoherentStep == TypeInv /\ TypeInv' /\ Coherent /\ [Next]_vars => Coherent'
<1> SUFFICES ASSUME TypeInv, TypeOK, TypeOK', Coherent, [Next]_vars
             PROVE  Coherent'
  BY DEF TypeInv
<1>1. CASE UNCHANGED vars
  BY <1>1, RowsUntouched, ReadsUntouched DEF vars, Coherent, OnlyClosedAreJudged
<1> QED
  BY <1>1, CoherentRequest, CoherentRun, CoherentSweep, CoherentFault, CoherentEnvironment DEF Next

(* The rows written by requests, runs and sweeps in separate transactions    *)
(* never contradict each other.                                              *)
THEOREM AlwaysCoherent == Spec => [](TypeOK /\ Coherent)
<1>1. TypeInv => TypeOK
  BY DEF TypeInv
<1> QED
  BY TypeInit, TypeStep, CoherentInit, CoherentStep, <1>1, PTL DEF Spec

(* At any moment a player holds at most one unsettled participation in a     *)
(* test, and a participation has at most one session.                        *)
THEOREM OneAtATime == Spec => [](OneActiveParticipation /\ OneSessionPerParticipation)
<1>1. TypeOK /\ Coherent => OneActiveParticipation /\ OneSessionPerParticipation
  BY DEF Coherent
<1> QED
  BY <1>1, AlwaysCoherent, PTL

(* The XP of a test goes, exactly once, to each player who completed it,     *)
(* whatever jobs are redelivered, stalled or run twice.                      *)
THEOREM RewardCorrect == Spec => []RewardedExactlyOnce
<1>1. TypeOK /\ Coherent => RewardedExactlyOnce
  BY DEF Coherent
<1> QED
  BY <1>1, AlwaysCoherent, PTL

(* A session's status, its participation's status, its verdict and its XP    *)
(* tell one story.                                                           *)
THEOREM StatusesCorrect == Spec => []StatusesAgree
<1>1. TypeOK /\ Coherent => StatusesAgree
  BY DEF Coherent, StatusTable, StatusesAgree, TypeOK
<1> QED
  BY <1>1, AlwaysCoherent, PTL
-----------------------------------------------------------------------------
(* What a committing run finds when its verdict is the first.                *)
LEMMA FirstVerdict ==
    ASSUME TypeOK, Coherent, NEW w \in Workers, RunCommits(w), GateOpen(run[w].sess)
    PROVE  /\ run[w].sess \in Sessions
           /\ sStatus[run[w].sess] \in {"processing", "invalidated"}
           /\ pStatus[PartOf[run[w].sess]] \in {"playing", "in_review"}
BY DEF RunCommits, GateOpen, Coherent, OnlyClosedAreJudged, StatusTable, TypeOK, RunState, Idle

(* The four steps that write a participation, a slot or a reward. *)
LEMMA WhoWritesTheLedger ==
    ASSUME [Next]_vars, ~UNCHANGED <<pStatus, slotsTaken, xp>>
    PROVE  \/ \E r \in Requests, p \in Parts : JoinReserve(r, p)
           \/ \E r \in Requests, s \in Sessions : StartClaim(r, s)
           \/ \E r \in Requests, s \in Sessions, positive \in BOOLEAN : Finish(r, s, positive)
           \/ \E w \in Workers : RunCommits(w) /\ GateOpen(run[w].sess)
<1> USE DEF dbVars, queueVars
<1>1. CASE \E r \in Requests : RequestStep(r)
  BY <1>1 DEF RequestStep, JoinCheck, StartCheck, BeatCheck, StartBeat, BeatTouch, MarkRecording,
              FinishDelBeat, FinishEnqueue, RequestDies
<1>2. CASE \E w \in Workers : RunStep(w)
  BY <1>2 DEF RunStep, RunTakes, RunJudges, RunReadsReward, RunCommits, RunEnds
<1>3. CASE \E w \in Sweepers : SweepStep(w)
  BY <1>3 DEF SweepStep, SweepSelectsOpen, SweepCloses, SweepEnsures, SweepSelectsUnvalidated,
              SweepEnds, SweepLooksAtBeat, SweepReensures
<1>4. CASE FaultStep \/ EnvironmentStep
  BY <1>4 DEF FaultStep, RunFails, JobStalls, RunVanishes, SweepFails, EnvironmentStep,
              SetTestStatus, Consent, BeatExpires, RecordingFails
<1> QED
  BY <1>1, <1>2, <1>3, <1>4 DEF Next, vars

(* A completed or rejected participation stays so.                           *)
THEOREM SettledForever == Spec => [][SettledStay]_vars
<1>1. TypeOK /\ Coherent /\ [Next]_vars
        => [SettledStay]_vars
  <2> SUFFICES ASSUME TypeOK, Coherent, [Next]_vars, ~UNCHANGED <<pStatus, slotsTaken, xp>>,
                      NEW p \in Parts, pStatus[p] \in Settled
               PROVE  pStatus'[p] = pStatus[p]
    BY DEF SettledStay, vars
  <2> USE RowsAssumption DEF TypeOK
  <2>1. ASSUME NEW r \in Requests, NEW q \in Parts, JoinReserve(r, q)
        PROVE  pStatus'[p] = pStatus[p]
    BY <2>1 DEF JoinReserve, Present
  <2>2. ASSUME NEW r \in Requests, NEW s \in Sessions, StartClaim(r, s)
        PROVE  pStatus'[p] = pStatus[p]
    BY <2>2 DEF StartClaim
  <2>3. ASSUME NEW r \in Requests, NEW s \in Sessions, NEW positive \in BOOLEAN,
               Finish(r, s, positive)
        PROVE  pStatus'[p] = pStatus[p]
    BY <2>3 DEF Finish, CanFinish, Coherent, StatusTable
  <2>4. ASSUME NEW w \in Workers, RunCommits(w), GateOpen(run[w].sess)
        PROVE  pStatus'[p] = pStatus[p]
    <3>1. PICK v : pStatus' = [pStatus EXCEPT ![PartOf[run[w].sess]] = v]
      BY <2>4 DEF RunCommits
    <3>2. pStatus[PartOf[run[w].sess]] \in {"playing", "in_review"}
      BY <2>4, FirstVerdict
    <3>3. p # PartOf[run[w].sess]
      BY <3>2
    <3> QED
      BY <3>1, <3>3
  <2> QED
    BY <2>1, <2>2, <2>3, <2>4, WhoWritesTheLedger
<1> QED
  BY <1>1, AlwaysCoherent, PTL DEF Spec

(* A session once closed stays closed, and a judged one keeps its status.    *)
THEOREM ClosedForever == Spec => [][ClosedStay]_vars
<1>1. TypeOK /\ Coherent /\ [Next]_vars
        => [ClosedStay]_vars
  <2> SUFFICES ASSUME TypeOK, Coherent, Next, NEW s \in Sessions
               PROVE  /\ sStatus[s] \in Closed => sStatus'[s] \in Closed
                      /\ verdict[s] # "none" => sStatus'[s] = sStatus[s]
    BY DEF ClosedStay
  <2> USE RowsAssumption DEF TypeOK, Coherent, StatusTable, dbVars, queueVars
  <2>1. CASE \E r \in Requests : RequestStep(r)
    BY <2>1 DEF RequestStep, JoinCheck, JoinReserve, StartCheck, StartClaim, BeatCheck, StartBeat,
                BeatTouch, MarkRecording, MarksRecording, Finish, CanFinish, FinishDelBeat,
                FinishEnqueue, RequestDies
  <2>2. ASSUME NEW w \in Workers, RunStep(w), ~RunCommits(w) \/ ~GateOpen(run[w].sess)
        PROVE  sStatus'[s] = sStatus[s]
    BY <2>2 DEF RunStep, RunTakes, RunJudges, RunReadsReward, RunCommits, RunEnds
  <2>3. ASSUME NEW w \in Workers, RunCommits(w), GateOpen(run[w].sess)
        PROVE  /\ sStatus[s] \in Closed => sStatus'[s] \in Closed
               /\ verdict[s] # "none" => sStatus'[s] = sStatus[s]
    BY <2>3 DEF RunCommits, GateOpen
  <2>4. CASE \E w \in Sweepers : SweepStep(w)
    BY <2>4 DEF SweepStep, SweepSelectsOpen, SweepCloses, TimesOut, SweepEnsures,
                SweepSelectsUnvalidated, SweepEnds, SweepLooksAtBeat, SweepReensures
  <2>5. CASE FaultStep \/ EnvironmentStep
    BY <2>5 DEF FaultStep, RunFails, JobStalls, RunVanishes, SweepFails, EnvironmentStep,
                SetTestStatus, Consent, BeatExpires, RecordingFails
  <2> QED
    BY <2>1, <2>2, <2>3, <2>4, <2>5 DEF Next
<1> QED
  BY <1>1, AlwaysCoherent, PTL DEF Spec

(* What was decided of a participation and of its session stays decided.      *)
THEOREM OutcomesForever == Spec => OutcomesStay
<1>1. [SettledStay]_vars /\ [ClosedStay]_vars => [SettledStay /\ ClosedStay]_vars
  OBVIOUS
<1> QED
  BY <1>1, SettledForever, ClosedForever, PTL DEF OutcomesStay

-----------------------------------------------------------------------------
(* A test has finitely many participation rows. *)
LEMMA RowsFinite ==
    ASSUME NEW t \in Tests
    PROVE  IsFiniteSet(Rows(t))
BY RowsAssumption, FS_Subset DEF Rows

(* No row, no slot. *)
LEMMA SlotsInit == Init => SlotsCountRows
<1> SUFFICES ASSUME Init, NEW t \in Tests
             PROVE  slotsTaken[t] = Cardinality(Rows(t)) /\ slotsTaken[t] <= SlotsTotal[t]
  BY DEF SlotsCountRows
<1>1. Rows(t) = {}
  BY DEF Init, Rows, Present
<1>2. slotsTaken[t] = 0 /\ SlotsTotal[t] \in Nat
  BY RowsAssumption DEF Init
<1> QED
  BY <1>1, <1>2, FS_EmptySet

(* A slot is taken exactly when a row appears, and rows never disappear. *)
LEMMA SlotsStep == TypeOK /\ Coherent /\ SlotsCountRows /\ [Next]_vars => SlotsCountRows'
<1> SUFFICES ASSUME TypeOK, Coherent, SlotsCountRows, [Next]_vars
             PROVE  SlotsCountRows'
  OBVIOUS
<1> USE RowsAssumption
<1>1. CASE \E r \in Requests, p \in Parts : JoinReserve(r, p)
  <2>1. PICK r \in Requests, p \in Parts : JoinReserve(r, p)
    BY <1>1
  <2> DEFINE k == TestOf[p]
  <2>2. /\ p \notin Rows(k) /\ slotsTaken[k] < SlotsTotal[k] /\ k \in Tests
        /\ pStatus' = [pStatus EXCEPT ![p] = "reserved"]
        /\ slotsTaken' = [slotsTaken EXCEPT ![k] = @ + 1]
    BY <2>1 DEF JoinReserve, SlotIsFree, Rows
  <2>3. ASSUME NEW t \in Tests
        PROVE  /\ slotsTaken'[t] = Cardinality(Rows(t)')
               /\ slotsTaken'[t] <= SlotsTotal[t]
    <3>1. slotsTaken[t] = Cardinality(Rows(t)) /\ slotsTaken[t] <= SlotsTotal[t]
      BY DEF SlotsCountRows
    <3>2. CASE t = k
      <4>1. Rows(t)' = Rows(t) \cup {p}
        BY <2>2, <3>2 DEF Rows, Present, TypeOK
      <4>2. Cardinality(Rows(t) \cup {p}) = Cardinality(Rows(t)) + 1
        BY <2>2, <3>2, RowsFinite, FS_AddElement
      <4> QED
        BY <2>2, <3>1, <3>2, <4>1, <4>2 DEF TypeOK
    <3>3. CASE t # k
      <4>1. Rows(t)' = Rows(t)
        BY <2>2, <3>3 DEF Rows, Present, TypeOK
      <4> QED
        BY <2>2, <3>1, <3>3, <4>1 DEF TypeOK
    <3> QED
      BY <3>2, <3>3
  <2> QED
    BY <2>3 DEF SlotsCountRows
<1>2. CASE ~\E r \in Requests, p \in Parts : JoinReserve(r, p)
  <2>1. UNCHANGED slotsTaken
    BY <1>2, WhoWritesTheLedger DEF StartClaim, Finish, RunCommits
  <2>2. \A p \in Parts : Present(p)' <=> Present(p)
    <3> USE DEF TypeOK, Present
    <3>1. CASE UNCHANGED <<pStatus, slotsTaken, xp>>
      BY <3>1
    <3>2. ASSUME NEW r \in Requests, NEW s \in Sessions, StartClaim(r, s)
          PROVE  \A p \in Parts : Present(p)' <=> Present(p)
      BY <3>2 DEF StartClaim
    <3>3. ASSUME NEW r \in Requests, NEW s \in Sessions, NEW positive \in BOOLEAN,
                 Finish(r, s, positive)
          PROVE  \A p \in Parts : Present(p)' <=> Present(p)
      BY <3>3 DEF Finish, CanFinish, Coherent, StatusTable
    <3>4. ASSUME NEW w \in Workers, RunCommits(w), GateOpen(run[w].sess)
          PROVE  \A p \in Parts : Present(p)' <=> Present(p)
      <4>1. PICK q \in Parts : /\ Present(q)
                               /\ \E v \in Settled : pStatus' = [pStatus EXCEPT ![q] = v]
        BY <3>4, FirstVerdict DEF RunCommits
      <4> QED
        BY <4>1
    <3> QED
      BY <1>2, <3>1, <3>2, <3>3, <3>4, WhoWritesTheLedger
  <2>3. \A t \in Tests : Rows(t)' = Rows(t)
    BY <2>2 DEF Rows
  <2> QED
    BY <2>1, <2>3 DEF SlotsCountRows
<1> QED
  BY <1>1, <1>2

(* slots_taken is the number of participation rows and never exceeds         *)
(* slots_total, for any number of concurrent joins.                          *)
THEOREM SlotsCorrect == Spec => []SlotsCountRows
BY SlotsInit, SlotsStep, AlwaysCoherent, PTL DEF Spec
-----------------------------------------------------------------------------
(* The initial state is the empty ledger. *)
LEMMA LedgerInit == TypeOK /\ Init => Ledger!Init
<1> SUFFICES ASSUME TypeOK, Init
             PROVE  Ledger!Init
  OBVIOUS
<1>1. LedgerOutcome = [p \in Parts |-> "none"]
  BY DEF Init, LedgerOutcome
<1> QED
  BY <1>1 DEF Init, Ledger!Init

(* A write to one participation, seen in the ledger. *)
LEMMA LedgerWrite ==
    ASSUME TypeOK, NEW p \in Parts, NEW v \in Active \cup Settled,
           pStatus' = [pStatus EXCEPT ![p] = v]
    PROVE  LedgerOutcome' =
             [LedgerOutcome EXCEPT ![p] = CASE v \in Active -> "open"
                                            [] v = "completed" -> "accepted"
                                            [] v = "rejected" -> "rejected"]
BY DEF TypeOK, LedgerOutcome

(* What is written as it was changes nothing. *)
LEMMA LedgerKept ==
    ASSUME NEW p \in Parts, NEW old, LedgerOutcome[p] = old,
           LedgerOutcome' = [LedgerOutcome EXCEPT ![p] = old]
    PROVE  LedgerOutcome' = LedgerOutcome
<1>1. \E f : LedgerOutcome = [q \in Parts |-> f[q]]
  <2> DEFINE K(q) == CASE pStatus[q] = "absent"    -> "none"
                       [] pStatus[q] \in Active    -> "open"
                       [] pStatus[q] = "completed" -> "accepted"
                       [] pStatus[q] = "rejected"  -> "rejected"
             g == [q \in Parts |-> K(q)]
  <2>1. LedgerOutcome = g
    BY DEF LedgerOutcome
  <2> HIDE DEF K
  <2>2. g = [q \in Parts |-> g[q]]
    OBVIOUS
  <2> HIDE DEF g
  <2> QED
    BY <2>1, <2>2
<1> QED
  BY <1>1

(* Every step is a step of the ledger or leaves it alone. *)
LEMMA LedgerStep ==
    TypeOK /\ Coherent /\ [Next]_vars
        => [Ledger!Next]_<<slotsTaken, LedgerOutcome,
                           {<<UserOf[PartOf[s]], TestOf[PartOf[s]]>> : s \in xp}>>
<1> SUFFICES ASSUME TypeOK, Coherent, [Next]_vars
             PROVE  [Ledger!Next]_<<slotsTaken, LedgerOutcome,
                                    {<<UserOf[PartOf[s]], TestOf[PartOf[s]]>> : s \in xp}>>
  OBVIOUS
<1> USE RowsAssumption
<1> DEFINE Paid == {<<UserOf[PartOf[s]], TestOf[PartOf[s]]>> : s \in xp}
<1>1. CASE UNCHANGED <<pStatus, slotsTaken, xp>>
  BY <1>1 DEF LedgerOutcome
<1>2. ASSUME NEW r \in Requests, NEW p \in Parts, JoinReserve(r, p)
      PROVE  Ledger!Reserve(p)
  <2>1. LedgerOutcome' = [LedgerOutcome EXCEPT ![p] = "open"]
    BY <1>2, LedgerWrite DEF JoinReserve
  <2>2. /\ LedgerOutcome[p] = "none"
        /\ \A q \in Parts :
              UserOf[q] = UserOf[p] /\ TestOf[q] = TestOf[p] => LedgerOutcome[q] # "open"
    BY <1>2 DEF JoinReserve, Present, HasActive, LedgerOutcome, TypeOK
  <2> QED
    BY <1>2, <2>1, <2>2 DEF JoinReserve, SlotIsFree, Ledger!Reserve
<1>3. ASSUME NEW r \in Requests, NEW s \in Sessions, StartClaim(r, s)
      PROVE  UNCHANGED <<slotsTaken, LedgerOutcome, Paid>>
  <2>1. LedgerOutcome' = [LedgerOutcome EXCEPT ![PartOf[s]] = "open"]
    BY <1>3, LedgerWrite DEF StartClaim
  <2>2. LedgerOutcome[PartOf[s]] = "open"
    BY <1>3 DEF StartClaim, LedgerOutcome
  <2> QED
    BY <1>3, <2>1, <2>2 DEF StartClaim, LedgerOutcome
<1>4. ASSUME NEW r \in Requests, NEW s \in Sessions, NEW positive \in BOOLEAN,
             Finish(r, s, positive)
      PROVE  UNCHANGED <<slotsTaken, LedgerOutcome, Paid>>
  <2>1. LedgerOutcome' = [LedgerOutcome EXCEPT ![PartOf[s]] = "open"]
    BY <1>4, LedgerWrite DEF Finish
  <2>2. LedgerOutcome[PartOf[s]] = "open"
    BY <1>4 DEF Finish, CanFinish, Coherent, StatusTable, LedgerOutcome
  <2> QED
    <3>1. PartOf[s] \in Parts
      OBVIOUS
    <3>2. LedgerOutcome' = LedgerOutcome
      BY <2>1, <2>2, <3>1, LedgerKept
    <3>3. UNCHANGED <<slotsTaken, xp>>
      BY <1>4 DEF Finish
    <3> QED
      BY <3>2, <3>3
<1>5. ASSUME NEW w \in Workers, RunCommits(w), GateOpen(run[w].sess)
      PROVE  \E p \in Parts : Ledger!Accept(p) \/ Ledger!Reject(p)
  <2>1. PICK s \in Sessions, ok \in BOOLEAN : s = run[w].sess /\ ok = run[w].valid
    BY <1>5 DEF RunCommits, TypeOK, RunState, Idle
  <2>2. /\ pStatus[PartOf[s]] \in Active
        /\ pStatus' = [pStatus EXCEPT ![PartOf[s]] = IF ok THEN "completed" ELSE "rejected"]
        /\ xp' = IF ok /\ ~AlreadyRewarded(s) THEN xp \cup {s} ELSE xp
        /\ UNCHANGED slotsTaken
    BY <1>5, <2>1, FirstVerdict DEF RunCommits, GateOpen, Coherent, RewardReadIsCurrent
  <2>3. LedgerOutcome[PartOf[s]] = "open"
    BY <2>2 DEF LedgerOutcome
  <2>4. CASE ok
    <3>1. LedgerOutcome' = [LedgerOutcome EXCEPT ![PartOf[s]] = "accepted"]
      BY <2>2, <2>4, LedgerWrite
    <3>2. Paid' = Paid \cup {<<UserOf[PartOf[s]], TestOf[PartOf[s]]>>}
      BY <2>2, <2>4 DEF AlreadyRewarded, XpOf
    <3>3. Ledger!Accept(PartOf[s])
      BY <2>2, <2>3, <3>1, <3>2 DEF Ledger!Accept
    <3> QED
      BY <3>3
  <2>5. CASE ~ok
    <3>1. LedgerOutcome' = [LedgerOutcome EXCEPT ![PartOf[s]] = "rejected"]
      BY <2>2, <2>5, LedgerWrite
    <3>2. Ledger!Reject(PartOf[s])
      BY <2>2, <2>3, <2>5, <3>1 DEF Ledger!Reject
    <3> QED
      BY <3>2
  <2> QED
    BY <2>4, <2>5
<1> QED
  BY <1>1, <1>2, <1>3, <1>4, <1>5, WhoWritesTheLedger DEF Ledger!Next

(* SessionLifecycle implements PlaytestLedger.                               *)
THEOREM LedgerImplemented == Spec => ImplementsLedger
<1> QED
  BY LedgerInit, LedgerStep, AlwaysCoherent, PTL DEF Spec, ImplementsLedger, Ledger!Spec

-----------------------------------------------------------------------------
(* The screens.  A participation becomes active only by being reserved, as    *)
(* the latest of its player, and is played only with a session.              *)

LEMMA ScreensInit == Init => ScreensInv
BY DEF Init, ScreensInv, PlayedHasSession, ActiveIsLatest, Present

(* Who writes a participation: a reservation, or a step on its session.        *)
LEMMA WhoWritesParts ==
    ASSUME TypeOK, Coherent, [Next]_vars
    PROVE  \/ /\ pStatus' = pStatus
              /\ \A s \in Sessions : sStatus[s] # "absent" => sStatus'[s] # "absent"
           \/ \E r \in Requests, p \in Parts : JoinReserve(r, p)
           \/ \E s \in Sessions :
                 /\ pStatus[PartOf[s]] \in Active
                 /\ \E v \in (Active \cup Settled) \ {"reserved"} :
                       pStatus' = [pStatus EXCEPT ![PartOf[s]] = v]
                 /\ sStatus'[s] # "absent"
                 /\ \A x \in Sessions : sStatus[x] # "absent" => sStatus'[x] # "absent"
<1> USE RowsAssumption DEF dbVars, queueVars
<1>1. ASSUME NEW r \in Requests, RequestStep(r)
      PROVE  \/ UNCHANGED <<pStatus, sStatus>>
             \/ UNCHANGED pStatus /\ MarkRecording(r)
             \/ \E p \in Parts : JoinReserve(r, p)
             \/ \E s \in Sessions : StartClaim(r, s)
             \/ \E s \in Sessions, positive \in BOOLEAN : Finish(r, s, positive)
  BY <1>1 DEF RequestStep, JoinCheck, StartCheck, BeatCheck, StartBeat, BeatTouch, MarkRecording,
              FinishDelBeat, FinishEnqueue, RequestDies
<1>2. ASSUME NEW w \in Workers, RunStep(w)
      PROVE  UNCHANGED <<pStatus, sStatus>> \/ (RunCommits(w) /\ GateOpen(run[w].sess))
  BY <1>2 DEF RunStep, RunTakes, RunJudges, RunReadsReward, RunCommits, RunEnds
<1>3. ASSUME NEW w \in Sweepers, SweepStep(w)
      PROVE  UNCHANGED pStatus /\ (UNCHANGED sStatus \/ SweepCloses(w))
  BY <1>3 DEF SweepStep, SweepSelectsOpen, SweepCloses, SweepEnsures, SweepSelectsUnvalidated,
              SweepEnds, SweepLooksAtBeat, SweepReensures
<1>4. FaultStep \/ EnvironmentStep => UNCHANGED <<pStatus, sStatus>>
  BY DEF FaultStep, RunFails, JobStalls, RunVanishes, SweepFails, EnvironmentStep,
         SetTestStatus, Consent, BeatExpires, RecordingFails
<1>5. ASSUME NEW r \in Requests, MarkRecording(r)
      PROVE  \A s \in Sessions : sStatus[s] # "absent" => sStatus'[s] # "absent"
  BY <1>5 DEF MarkRecording
<1>6. ASSUME NEW w \in Sweepers, SweepCloses(w)
      PROVE  \A s \in Sessions : sStatus[s] # "absent" => sStatus'[s] # "absent"
  BY <1>6 DEF SweepCloses
<1>7. ASSUME NEW s \in Sessions, NEW v \in (Active \cup Settled) \ {"reserved"},
             NEW k \in Unfinished \cup Closed,
             pStatus[PartOf[s]] \in Active,
             pStatus' = [pStatus EXCEPT ![PartOf[s]] = v], sStatus' = [sStatus EXCEPT ![s] = k]
      PROVE  \E x \in Sessions :
                 /\ pStatus[PartOf[x]] \in Active
                 /\ \E y \in (Active \cup Settled) \ {"reserved"} :
                       pStatus' = [pStatus EXCEPT ![PartOf[x]] = y]
                 /\ sStatus'[x] # "absent"
                 /\ \A z \in Sessions : sStatus[z] # "absent" => sStatus'[z] # "absent"
  <2>1. DOMAIN sStatus = Sessions
    BY DEF TypeOK
  <2>2. k # "absent"
    BY <1>7
  <2>3. sStatus'[s] # "absent" /\ \A z \in Sessions : sStatus[z] # "absent" => sStatus'[z] # "absent"
    BY <1>7, <2>1, <2>2
  <2> QED
    BY <1>7, <2>3
<1>8. ASSUME NEW r \in Requests, NEW s \in Sessions, StartClaim(r, s)
      PROVE  /\ pStatus[PartOf[s]] \in Active
             /\ pStatus' = [pStatus EXCEPT ![PartOf[s]] = "playing"]
             /\ sStatus' = [sStatus EXCEPT ![s] = "starting"]
  BY <1>8 DEF StartClaim
<1>9. ASSUME NEW r \in Requests, NEW s \in Sessions, NEW positive \in BOOLEAN,
             Finish(r, s, positive)
      PROVE  /\ pStatus[PartOf[s]] \in Active
             /\ pStatus' = [pStatus EXCEPT ![PartOf[s]] = "in_review"]
             /\ sStatus' = [sStatus EXCEPT ![s] = "processing"]
  BY <1>9 DEF Finish, CanFinish, Coherent, StatusTable
<1>10. ASSUME NEW w \in Workers, RunCommits(w), GateOpen(run[w].sess)
       PROVE  \E s \in Sessions, ok \in BOOLEAN :
                 /\ pStatus[PartOf[s]] \in Active
                 /\ pStatus' = [pStatus EXCEPT ![PartOf[s]] =
                                   IF ok THEN "completed" ELSE "rejected"]
                 /\ sStatus' = [sStatus EXCEPT ![s] = IF ok THEN "completed" ELSE "invalidated"]
  <2>1. PICK s \in Sessions, ok \in BOOLEAN : s = run[w].sess /\ ok = run[w].valid
    BY <1>10 DEF RunCommits, TypeOK, RunState, Idle
  <2> QED
    BY <1>10, <2>1, FirstVerdict DEF RunCommits
<1>11. CASE UNCHANGED vars
  BY <1>11 DEF vars
<1>12. CASE \E r \in Requests : RequestStep(r)
  BY <1>12, <1>1, <1>5, <1>7, <1>8, <1>9
<1>13. CASE \E w \in Workers : RunStep(w)
  <2>1. PICK w \in Workers : RunStep(w)
    BY <1>13
  <2>2. CASE RunCommits(w) /\ GateOpen(run[w].sess)
    <3>1. PICK s \in Sessions, ok \in BOOLEAN :
                 /\ pStatus[PartOf[s]] \in Active
                 /\ pStatus' = [pStatus EXCEPT ![PartOf[s]] =
                                   IF ok THEN "completed" ELSE "rejected"]
                 /\ sStatus' = [sStatus EXCEPT ![s] = IF ok THEN "completed" ELSE "invalidated"]
      BY <1>10, <2>2
    <3> QED
      BY <3>1, <1>7
  <2> QED
    BY <2>1, <2>2, <1>2
<1> QED
  BY <1>11, <1>12, <1>13, <1>3, <1>4, <1>6 DEF Next

(* ScreensInv is inductive while ids grow. *)
LEMMA ScreensStep ==
    TypeOK /\ Coherent /\ ScreensInv /\ [Next]_vars /\ [IdsGrow]_vars => ScreensInv'
<1> SUFFICES ASSUME TypeOK, Coherent, ScreensInv, [Next]_vars, [IdsGrow]_vars
             PROVE  ScreensInv'
  OBVIOUS
<1> USE RowsAssumption, PartIdAssumption
<1>1. CASE pStatus' = pStatus /\ \A s \in Sessions : sStatus[s] # "absent" => sStatus'[s] # "absent"
  BY <1>1 DEF ScreensInv, PlayedHasSession, ActiveIsLatest, Present, SessionsOf, SamePlayerAndTest
<1>2. ASSUME NEW r \in Requests, NEW p \in Parts, JoinReserve(r, p)
      PROVE  ScreensInv'
  <2>1. /\ ~Present(p) /\ ~HasActive(UserOf[p], TestOf[p])
        /\ pStatus' = [pStatus EXCEPT ![p] = "reserved"]
        /\ UNCHANGED sStatus
    BY <1>2 DEF JoinReserve
  <2>2. \A q \in Parts : q # p /\ UserOf[p] = UserOf[q] /\ Present(q) => PartId[q] < PartId[p]
    <3>1. vars' # vars
      BY <2>1 DEF vars, TypeOK, Present
    <3>2. Present(p)'
      BY <2>1 DEF Present, TypeOK
    <3> QED
      BY <2>1, <3>1, <3>2 DEF IdsGrow
  <2>3. PlayedHasSession'
    BY <2>1 DEF ScreensInv, PlayedHasSession, SessionsOf, Present, TypeOK
  <2>4. \A x \in Parts : x # p /\ pStatus'[x] \in Active => ~SamePlayerAndTest(x, p)
    BY <2>1 DEF HasActive, SamePlayerAndTest, TypeOK
  <2>5. ActiveIsLatest'
    <3> SUFFICES ASSUME NEW x \in Parts, NEW q \in Parts, SamePlayerAndTest(x, q),
                        pStatus'[x] \in Active, Present(q)'
                 PROVE  PartId[q] <= PartId[x]
      BY DEF ActiveIsLatest, SamePlayerAndTest
    <3>1. CASE x = p
      BY <3>1, <2>1, <2>2 DEF SamePlayerAndTest, Present, TypeOK
    <3>2. CASE x # p
      BY <3>2, <2>1, <2>4 DEF ScreensInv, ActiveIsLatest, Present, TypeOK, SamePlayerAndTest
    <3> QED
      BY <3>1, <3>2
  <2> QED
    BY <2>3, <2>5 DEF ScreensInv
<1>3. ASSUME NEW s \in Sessions, NEW v \in (Active \cup Settled) \ {"reserved"},
             pStatus[PartOf[s]] \in Active,
             pStatus' = [pStatus EXCEPT ![PartOf[s]] = v],
             sStatus'[s] # "absent",
             \A x \in Sessions : sStatus[x] # "absent" => sStatus'[x] # "absent"
      PROVE  ScreensInv'
  <2>1. PlayedHasSession'
    BY <1>3 DEF ScreensInv, PlayedHasSession, SessionsOf, Present, TypeOK
  <2>2. ActiveIsLatest'
    BY <1>3 DEF ScreensInv, ActiveIsLatest, Present, TypeOK, SamePlayerAndTest
  <2> QED
    BY <2>1, <2>2 DEF ScreensInv
<1> QED
  BY <1>1, <1>2, <1>3, WhoWritesParts

(* A participation's session, found by any of the screens' queries.            *)
LEMMA SessionFound ==
    ASSUME TypeOK, Coherent, NEW s \in Sessions, sStatus[s] # "absent"
    PROVE  /\ SessionsOf(PartOf[s]) = {s}
           /\ OpenSessions(PartOf[s]) = IF sStatus[s] \in OpenForStart THEN {s} ELSE {}
           /\ FindOpenSession(PartOf[s]) = IF sStatus[s] \in OpenForStart THEN s ELSE NoSession
           /\ FindOpenOrLastSession(PartOf[s]) = s
<1>1. SessionsOf(PartOf[s]) = {s}
  BY DEF SessionsOf, Coherent, OneSessionPerParticipation
<1>2. OpenSessions(PartOf[s]) = IF sStatus[s] \in OpenForStart THEN {s} ELSE {}
  BY DEF OpenSessions, OpenForStart, Coherent, OneSessionPerParticipation
<1>3. FindOpenSession(PartOf[s]) = IF sStatus[s] \in OpenForStart THEN s ELSE NoSession
  BY <1>2 DEF FindOpenSession
<1>4. FindOpenOrLastSession(PartOf[s]) = s
  BY <1>1, <1>2, <1>3 DEF FindOpenOrLastSession
<1> QED
  BY <1>1, <1>2, <1>3, <1>4

LEMMA NoSessionFound ==
    ASSUME NEW p \in Parts, SessionsOf(p) = {}
    PROVE  /\ OpenSessions(p) = {}
           /\ FindOpenSession(p) = NoSession
           /\ FindOpenOrLastSession(p) = NoSession
<1>1. OpenSessions(p) = {}
  BY DEF OpenSessions, OpenForStart, SessionsOf
<1> QED
  BY <1>1 DEF FindOpenSession, FindOpenOrLastSession

(* Where the session of a participation stands, beside the participation.       *)
Stands(s, status) ==
    \/ sStatus[s] \in Unfinished /\ status = "playing" /\ verdict[s] = "none"
    \/ sStatus[s] = "processing" /\ status = "in_review" /\ verdict[s] = "none"
    \/ sStatus[s] = "completed" /\ status = "completed" /\ verdict[s] = "valid"
    \/ sStatus[s] = "invalidated" /\ status = "playing" /\ verdict[s] = "none"
    \/ sStatus[s] = "invalidated" /\ status = "rejected" /\ verdict[s] = "invalid"

(* A participation is played, reviewed or settled with its one session.        *)
LEMMA SessionOfPart ==
    ASSUME TypeOK, Coherent, ScreensInv, NEW p \in Parts, Present(p)
    PROVE  \/ pStatus[p] = "reserved" /\ SessionsOf(p) = {}
           \/ \E s \in Sessions : PartOf[s] = p /\ sStatus[s] # "absent" /\ Stands(s, pStatus[p])
<1>1. ASSUME NEW s \in Sessions, sStatus[s] # "absent"
      PROVE  Stands(s, pStatus[PartOf[s]])
  <2>1. sStatus[s] \in Unfinished \cup Closed
    BY <1>1 DEF TypeOK
  <2> QED
    BY <2>1 DEF Stands, Coherent, StatusTable
<1>2. CASE \E s \in Sessions : PartOf[s] = p /\ sStatus[s] # "absent"
  BY <1>1, <1>2
<1>3. CASE ~\E s \in Sessions : PartOf[s] = p /\ sStatus[s] # "absent"
  BY <1>3 DEF ScreensInv, PlayedHasSession, SessionsOf
<1> QED
  BY <1>2, <1>3

LEMMA AlikeWhereItStands ==
    ASSUME TypeOK, Coherent, ScreensInv, NEW p \in Parts, Present(p)
    PROVE  ReadsAlike(p, View(p), FindOpenOrLastSession(p))
<1> USE RowsAssumption
<1>1. Listed(p) = View(p)
  BY DEF Listed, View, FindOpenSession
<1>2. /\ View(p).status = pStatus[p]
      /\ View(p).currentSessionId = FindOpenSession(p)
      /\ View(p).started <=> SessionsOf(p) # {}
      /\ View(p).completed <=> pStatus[p] = "completed" /\ \E s \in SessionsOf(p) : sStatus[s] \in Closed
  BY DEF View
<1>3. CASE pStatus[p] = "reserved" /\ SessionsOf(p) = {}
  <2>1. Result(p).status = "in_review"
    BY <1>3, NoSessionFound DEF Result
  <2> QED
    BY <1>1, <1>2, <1>3, <2>1, NoSessionFound DEF ReadsAlike
<1>4. ASSUME NEW s \in Sessions, PartOf[s] = p, sStatus[s] # "absent", Stands(s, pStatus[p])
      PROVE  ReadsAlike(p, View(p), FindOpenOrLastSession(p))
  <2>1. /\ SessionsOf(p) = {s}
        /\ FindOpenSession(p) = IF sStatus[s] \in OpenForStart THEN s ELSE NoSession
        /\ FindOpenOrLastSession(p) = s
    BY <1>4, SessionFound
  <2>2. s # NoSession
    OBVIOUS
  <2>3. /\ verdict[s] = "none" => Result(p).status = "in_review"
        /\ verdict[s] = "invalid" => Result(p).status = "rejected"
        /\ verdict[s] = "valid" => Result(p).status = "completed"
    <3>1. CASE verdict[s] = "none"
      BY <2>1, <2>2, <3>1 DEF Result
    <3>2. CASE verdict[s] = "invalid"
      BY <2>1, <2>2, <3>2 DEF Result
    <3>3. CASE verdict[s] = "valid"
      BY <2>1, <2>2, <3>3 DEF Result
    <3>4. verdict[s] \in {"none", "invalid", "valid"}
      BY DEF TypeOK
    <3> QED
      BY <3>1, <3>2, <3>3, <3>4
  <2>4. /\ SessionView(s).status = SessionStatus(s)
        /\ SessionView(s).invalidReason <=> verdict[s] = "invalid"
    BY DEF SessionView
  <2>5. /\ View(p).started
        /\ View(p).completed <=> pStatus[p] = "completed" /\ sStatus[s] \in Closed
        /\ View(p).currentSessionId = IF sStatus[s] \in OpenForStart THEN s ELSE NoSession
    BY <1>2, <2>1
  <2>6. CASE sStatus[s] \in Unfinished /\ pStatus[p] = "playing" /\ verdict[s] = "none"
    BY <1>1, <1>2, <2>1, <2>2, <2>3, <2>4, <2>5, <2>6 DEF SessionStatus, OpenForStart, ReadsAlike
  <2>7. CASE sStatus[s] = "processing" /\ pStatus[p] = "in_review" /\ verdict[s] = "none"
    BY <1>1, <1>2, <2>1, <2>2, <2>3, <2>4, <2>5, <2>7 DEF SessionStatus, OpenForStart, ReadsAlike
  <2>8. CASE sStatus[s] = "completed" /\ pStatus[p] = "completed" /\ verdict[s] = "valid"
    BY <1>1, <1>2, <2>1, <2>2, <2>3, <2>4, <2>5, <2>8 DEF SessionStatus, OpenForStart, ReadsAlike
  <2>9. CASE sStatus[s] = "invalidated" /\ pStatus[p] = "playing" /\ verdict[s] = "none"
    BY <1>1, <1>2, <2>1, <2>2, <2>3, <2>4, <2>5, <2>9 DEF SessionStatus, OpenForStart, ReadsAlike
  <2>10. CASE sStatus[s] = "invalidated" /\ pStatus[p] = "rejected" /\ verdict[s] = "invalid"
    BY <1>1, <1>2, <2>1, <2>2, <2>3, <2>4, <2>5, <2>10 DEF SessionStatus, OpenForStart, ReadsAlike
  <2> QED
    BY <1>4, <2>6, <2>7, <2>8, <2>9, <2>10 DEF Stands
<1> QED
  BY <1>3, <1>4, SessionOfPart

(* Where ids grow with time, every query for a participation, its session and   *)
(* its result reads it alike.                                                 *)
THEOREM PartsReadAlike == Spec /\ [][IdsGrow]_vars => []ParticipationReadsAlike
<1>1. TypeOK /\ Coherent /\ ScreensInv => ParticipationReadsAlike
  BY AlikeWhereItStands DEF ParticipationReadsAlike
<1> QED
  BY <1>1, AlwaysCoherent, ScreensInit, ScreensStep, PTL DEF Spec

(* Among finitely many participations, one is the newest.                       *)
LEMMA NewestIs ==
    ASSUME NEW P \in SUBSET Parts, P # {}
    PROVE  Newest(P) \in P /\ \A q \in P : PartId[q] <= PartId[Newest(P)]
<1> USE RowsAssumption, PartIdAssumption
<1> DEFINE Later(p) == {q \in P : PartId[q] > PartId[p]}
           Counts == {Cardinality(Later(p)) : p \in P}
           R == OpToRel(<, Nat)
<1>1. \A p \in P : IsFiniteSet(Later(p)) /\ Cardinality(Later(p)) \in Nat
  <2>1. IsFiniteSet(P)
    BY FS_Subset
  <2> QED
    BY <2>1, FS_Subset, FS_CardinalityType
<1> HIDE DEF Later
<1>2. Counts \subseteq Nat /\ Counts # {}
  BY <1>1
<1> HIDE DEF Counts
<1>3. PICK n \in Counts : \A m \in Counts : ~(m < n)
  <2>0. IsWellFoundedOn(R, Nat)
    BY NatLessThanWellFounded
  <2>1. \A x, y \in Nat : y < x => <<y, x>> \in R
    BY DEF OpToRel
  <2> HIDE DEF R
  <2>2. PICK n \in Counts : \A m \in Counts : ~(<<m, n>> \in R)
    BY <1>2, <2>0, WFMin
  <2>3. \A m \in Counts : m \in Nat /\ n \in Nat /\ ~(m < n)
    BY <1>2, <2>1, <2>2
  <2> QED
    BY <2>3
<1>4. PICK p \in P : n = Cardinality(Later(p))
  BY DEF Counts
<1>5. ASSUME NEW q \in Later(p)
      PROVE  FALSE
  <2>1. Later(q) \subseteq Later(p) /\ Later(q) # Later(p) /\ q \in P
    BY <1>5 DEF Later
  <2>2. Cardinality(Later(q)) <= n /\ Cardinality(Later(q)) # n
    BY <1>1, <1>4, <2>1, FS_Subset
  <2>3. Cardinality(Later(q)) \in Counts
    BY <2>1 DEF Counts
  <2>4. Cardinality(Later(q)) \in Nat /\ n \in Nat
    BY <1>1, <1>4, <2>1
  <2> QED
    BY <1>3, <2>2, <2>3, <2>4
<1>6. \A q \in P : PartId[q] <= PartId[p]
  BY <1>5 DEF Later
<1> QED
  BY <1>6 DEF Newest

LEMMA NewestFound ==
    ASSUME NEW P \in SUBSET Parts
    PROVE  Newest(P) = NoPart <=> P = {}
BY NewestIs, PartIdAssumption DEF Newest

(* A test without a reason against it is one with a free slot.                 *)
LEMMA ReasonIs ==
    ASSUME TypeOK, NEW t \in Tests
    PROVE  /\ TestUnavailableReason(t) = "none" <=> SlotIsFree(t)
           /\ SlotIsFree(t) => SpotsLeft(t) > 0
<1> USE RowsAssumption
<1>1. testStatus[t] \in {"published", "paused", "over"}
  BY DEF TypeOK
<1>2. slotsTaken[t] \in Nat /\ SlotsTotal[t] \in Nat
  BY DEF TypeOK
<1>3. TestUnavailableReason(t) = "none" <=> SlotIsFree(t)
  BY <1>1, <1>2 DEF TestUnavailableReason, SlotIsFree
<1>4. SlotIsFree(t) => SpotsLeft(t) > 0
  BY <1>2 DEF SlotIsFree, SpotsLeft
<1> QED
  BY <1>3, <1>4

(* The latest participation decides whether one is active.                      *)
LEMMA LatestDecides ==
    ASSUME TypeOK, ScreensInv, NEW u \in Users, NEW t \in Tests
    PROVE  LET p == FindLatestParticipation(u, t) IN
           \/ /\ p = NoPart
              /\ \A q \in PartsOf(u) : TestOf[q] # t
           \/ /\ p \in PartsOf(u) /\ p # NoPart /\ TestOf[p] = t
              /\ \A q \in PartsOf(u) : TestOf[q] = t /\ q # p => PartId[q] < PartId[p]
              /\ HasActive(u, t) <=> pStatus[p] \in Active
<1> USE RowsAssumption, PartIdAssumption
<1> DEFINE P == {q \in PartsOf(u) : TestOf[q] = t}
<1>1. P \in SUBSET Parts /\ FindLatestParticipation(u, t) = Newest(P)
  BY DEF PartsOf, FindLatestParticipation
<1>2. CASE P = {}
  BY <1>1, <1>2, NewestFound
<1>3. CASE P # {}
  <2>1. PICK p \in P : p = Newest(P) /\ \A q \in P : PartId[q] <= PartId[p]
    BY <1>1, <1>3, NewestIs
  <2>2. p \in Parts /\ UserOf[p] = u /\ TestOf[p] = t /\ Present(p) /\ p # NoPart
    BY <2>1 DEF PartsOf
  <2>3. \A q \in PartsOf(u) : TestOf[q] = t /\ q # p => PartId[q] < PartId[p]
    BY <2>1, <2>2 DEF PartsOf
  <2>4. HasActive(u, t) <=> pStatus[p] \in Active
    <3>1. ASSUME NEW q \in Parts, UserOf[q] = u, TestOf[q] = t, pStatus[q] \in Active
          PROVE  q = p
      <4>1. q \in P
        BY <3>1 DEF PartsOf, Present
      <4>2. PartId[p] <= PartId[q]
        BY <2>2, <3>1 DEF ScreensInv, ActiveIsLatest, SamePlayerAndTest
      <4> QED
        BY <2>1, <2>2, <3>1, <4>1, <4>2
    <3> QED
      BY <2>2, <3>1 DEF HasActive
  <2> HIDE DEF P
  <2> QED
    BY <1>1, <2>1, <2>2, <2>3, <2>4 DEF PartsOf
<1> QED
  BY <1>2, <1>3

(* What a test's screen offers, beside what a join of it would check.           *)
LEMMA OfferIs ==
    ASSUME TypeOK, ScreensInv, NEW u \in Users, NEW t \in Tests
    PROVE  LET cta == TestView(u, t).cta IN
        /\ cta \in {"continue", "in_review"} <=> HasActive(u, t)
        /\ cta = "completed" => HasCompleted(u, t)
        /\ cta = "start" => SlotIsFree(t) /\ TestView(u, t).spotsLeft > 0
        /\ ~Rejoined(u, t) =>
              (cta = "start" <=> SlotIsFree(t) /\ ~HasActive(u, t) /\ ~HasCompleted(u, t))
<1> USE RowsAssumption, PartIdAssumption
<1>0. PICK p : p = FindLatestParticipation(u, t)
  OBVIOUS
<1>1. /\ TestView(u, t).cta = TestCta(StatusOf(p), TestUnavailableReason(t))
      /\ TestView(u, t).spotsLeft = SpotsLeft(t)
  BY <1>0 DEF TestView
<1>2. CASE p = NoPart /\ \A q \in PartsOf(u) : TestOf[q] # t
  <2>1. ~HasActive(u, t) /\ ~HasCompleted(u, t)
    BY <1>2 DEF HasActive, HasCompleted, PartsOf, Present
  <2>2. TestView(u, t).cta = IF TestUnavailableReason(t) = "none" THEN "start" ELSE "unavailable"
    BY <1>1, <1>2 DEF StatusOf, TestCta
  <2> QED
    BY <1>1, <2>1, <2>2, ReasonIs
<1>3. CASE /\ p \in PartsOf(u) /\ p # NoPart /\ TestOf[p] = t
           /\ \A q \in PartsOf(u) : TestOf[q] = t /\ q # p => PartId[q] < PartId[p]
           /\ HasActive(u, t) <=> pStatus[p] \in Active
  <2>1. p \in Parts /\ UserOf[p] = u /\ TestOf[p] = t /\ pStatus[p] \in Active \cup Settled
    BY <1>3 DEF PartsOf, Present, TypeOK
  <2>2. TestView(u, t).cta = CASE pStatus[p] \in {"completed", "in_review"} -> pStatus[p]
                               [] pStatus[p] \in {"reserved", "playing"} -> "continue"
                               [] OTHER -> IF TestUnavailableReason(t) = "none" THEN "start"
                                                                            ELSE "unavailable"
    BY <1>1, <1>3 DEF StatusOf, TestCta
  <2>3. pStatus[p] = "completed" => HasCompleted(u, t)
    BY <2>1 DEF HasCompleted
  <2>4. HasCompleted(u, t) /\ pStatus[p] # "completed" => Rejoined(u, t)
    <3> SUFFICES ASSUME NEW q \in Parts, UserOf[q] = u, TestOf[q] = t, pStatus[q] = "completed",
                        pStatus[p] # "completed"
                 PROVE  Rejoined(u, t)
      BY DEF HasCompleted
    <3>1. q \in PartsOf(u)
      BY DEF PartsOf, Present
    <3> QED
      BY <1>3, <3>1 DEF Rejoined
  <2>5. TestView(u, t).cta = "start" <=> SlotIsFree(t) /\ pStatus[p] = "rejected"
    BY <2>1, <2>2, ReasonIs
  <2>6. TestView(u, t).cta \in {"continue", "in_review"} <=> pStatus[p] \in Active
    BY <2>1, <2>2
  <2>7. TestView(u, t).cta = "completed" => pStatus[p] = "completed"
    BY <2>1, <2>2
  <2> QED
    BY <1>1, <1>3, <2>1, <2>3, <2>4, <2>5, <2>6, <2>7, ReasonIs
<1> QED
  BY <1>0, <1>2, <1>3, LatestDecides

(* The header counts the tests that are listed without a reason not to start.    *)
LEMMA HeaderCounts == TypeOK => HeaderAgrees
<1> SUFFICES ASSUME TypeOK, NEW expired \in SUBSET {t \in Tests : testStatus[t] = "over"}
             PROVE  GetGame(Tests).openTests =
            Cardinality({t \in ListPlayerTests(Tests, expired) : TestUnavailableReason(t) = "none"})
  BY DEF HeaderAgrees
<1>1. FindOpenTests(Tests) = {t \in ListPlayerTests(Tests, expired) : TestUnavailableReason(t) = "none"}
  BY ReasonIs DEF FindOpenTests, ListPlayerTests, SlotIsFree
<1> QED
  BY <1>1 DEF GetGame

-----------------------------------------------------------------------------
(* Sets whose members correspond one to one are of one size.                   *)
LEMMA SameCount ==
    ASSUME NEW S, NEW T, IsFiniteSet(S), NEW f \in [S -> T],
           \A x, y \in S : f[x] = f[y] => x = y, \A y \in T : \E x \in S : f[x] = y
    PROVE  Cardinality(T) = Cardinality(S)
<1>1. f \in Bijection(S, T)
  BY DEF Bijection, Injection, IsInjective, Surjection
<1> QED
  BY <1>1, FS_Bijection DEF ExistsBijection

(* What the Home continues.  *)
LEMMA HomeContinues ==
    ASSUME TypeOK, NEW u \in Users, NEW live \in SUBSET Tests, Cardinality(PartsOf(u)) <= HomePage
    PROVE  Home(u, live).continuing = NoPart <=> \A t \in live : ~HasActive(u, t)
<1> USE RowsAssumption, PartIdAssumption
<1>1. IsFiniteSet(PartsOf(u)) /\ Cardinality(PartsOf(u)) \in Nat
  BY FS_Subset, FS_CardinalityType DEF PartsOf
<1>2. ListForUser(u, HomePage) = PartsOf(u)
  <2> SUFFICES ASSUME NEW p \in PartsOf(u)
               PROVE  Cardinality({q \in PartsOf(u) : PartId[q] > PartId[p]}) < HomePage
    BY DEF ListForUser
  <2>1. PICK S : S = {q \in PartsOf(u) : PartId[q] > PartId[p]}
    OBVIOUS
  <2>2. p \notin S
    BY <2>1 DEF PartsOf
  <2>3. S \subseteq PartsOf(u) /\ S # PartsOf(u)
    BY <2>1, <2>2
  <2>4. Cardinality(S) \in Nat /\ Cardinality(S) <= Cardinality(PartsOf(u))
          /\ Cardinality(S) # Cardinality(PartsOf(u))
    BY <1>1, <2>3, FS_Subset, FS_CardinalityType
  <2> QED
    BY <1>1, <2>1, <2>4 DEF HomePage
<1>3. PICK P : P = {p \in PartsOf(u) : TestOf[p] \in live /\ ~IsFinished(pStatus[p])}
  OBVIOUS
<1>4. Home(u, live).continuing = Newest(P)
  <2>1. P = {p \in {q \in ListForUser(u, HomePage) : TestOf[q] \in live} : ~IsFinished(pStatus[p])}
    BY <1>2, <1>3
  <2> QED
    BY <2>1 DEF Home
<1>5. P = {} <=> \A t \in live : ~HasActive(u, t)
  BY <1>3 DEF PartsOf, Present, IsFinished, HasActive, TypeOK
<1> QED
  BY <1>3, <1>4, <1>5, NewestFound DEF PartsOf

(* One reward for each completed participation. *)
LEMMA RewardsCounted ==
    ASSUME TypeOK, Coherent, ScreensInv, NEW u \in Users
    PROVE  Cardinality(ValidatedRewards(u)) =
             Cardinality({p \in PartsOf(u) : Result(p).status = "completed"})
<1> USE RowsAssumption
<1> DEFINE S == ValidatedRewards(u)
           T == {p \in PartsOf(u) : Result(p).status = "completed"}
           f == [s \in S |-> PartOf[s]]
<1>1. IsFiniteSet(S)
  BY FS_Subset DEF ValidatedRewards
<1>2. ASSUME NEW p \in PartsOf(u)
      PROVE  Result(p).status = "completed" <=> pStatus[p] = "completed"
  <2>1. p \in Parts /\ Present(p)
    BY DEF PartsOf
  <2>2. Result(p).status = IF View(p).status \in Settled THEN View(p).status ELSE "in_review"
    BY <2>1, AlikeWhereItStands DEF ReadsAlike
  <2>3. View(p).status = pStatus[p]
    BY DEF View
  <2> QED
    BY <2>2, <2>3
<1>3. ASSUME NEW s \in S
      PROVE  PartOf[s] \in T /\ s \in Sessions /\ sStatus[s] # "absent"
  <2>1. s \in Sessions /\ sStatus[s] # "absent" /\ UserOf[PartOf[s]] = u /\ verdict[s] = "valid"
    BY <1>3 DEF ValidatedRewards
  <2>2. pStatus[PartOf[s]] = "completed"
    BY <2>1 DEF Coherent, StatusTable, TypeOK
  <2>3. PartOf[s] \in PartsOf(u)
    BY <2>1, <2>2 DEF PartsOf, Present
  <2> QED
    BY <2>1, <2>2, <2>3, <1>2
<1>4. \A x, y \in S : f[x] = f[y] => x = y
  BY <1>3 DEF Coherent, OneSessionPerParticipation
<1>5. ASSUME NEW p \in T
      PROVE  \E s \in S : f[s] = p
  <2>1. p \in Parts /\ Present(p) /\ UserOf[p] = u /\ pStatus[p] = "completed"
    BY <1>2, <1>5 DEF PartsOf
  <2>2. PICK s \in Sessions : PartOf[s] = p /\ sStatus[s] # "absent" /\ Stands(s, pStatus[p])
    BY <2>1, SessionOfPart
  <2>3. s \in S
    BY <2>1, <2>2 DEF ValidatedRewards, Stands
  <2> QED
    BY <2>2, <2>3
<1>6. f \in [S -> T]
  BY <1>3
<1> HIDE DEF S, T, f
<1>7. Cardinality(T) = Cardinality(S)
  BY <1>1, <1>4, <1>5, <1>6, SameCount
<1> QED
  BY <1>7 DEF S, T

(* The XP, once for each completed test. *)
LEMMA ProgressCounted ==
    ASSUME TypeOK, Coherent, NEW u \in Users
    PROVE  /\ Progress(u).testsCompleted = Cardinality({t \in Tests : HasCompleted(u, t)})
           /\ Progress(u).xp = Progress(u).testsCompleted
<1> USE RowsAssumption
<1> DEFINE S == {s \in xp : UserOf[PartOf[s]] = u}
           T == {t \in Tests : HasCompleted(u, t)}
           f == [s \in S |-> TestOf[PartOf[s]]]
<1>0. xp \subseteq Sessions
  BY DEF TypeOK
<1>1. IsFiniteSet(S)
  BY <1>0, FS_Subset
<1>2. ASSUME NEW s \in S
      PROVE  s \in Sessions /\ TestOf[PartOf[s]] \in T /\ s \in XpOf(u, TestOf[PartOf[s]])
  <2>1. s \in Sessions /\ s \in XpOf(u, TestOf[PartOf[s]])
    BY <1>0 DEF XpOf
  <2> QED
    BY <2>1 DEF Coherent, RewardedExactlyOnce
<1>3. \A x, y \in S : f[x] = f[y] => x = y
  BY <1>2 DEF Coherent, RewardedExactlyOnce
<1>4. ASSUME NEW t \in T
      PROVE  \E s \in S : f[s] = t
  <2>1. PICK s \in XpOf(u, t) : TRUE
    BY <1>4 DEF Coherent, RewardedExactlyOnce
  <2> QED
    BY <2>1 DEF XpOf
<1>5. SessionStats(u) = T
  <2>1. ASSUME NEW t \in T
        PROVE  t \in SessionStats(u)
    <3>1. PICK s \in S : f[s] = t
      BY <1>4
    <3>2. verdict[s] = "valid" /\ sStatus[s] = "completed"
      BY <1>2 DEF Coherent, StatusTable, TypeOK
    <3> QED
      BY <1>2, <3>1, <3>2 DEF SessionStats
  <2>2. ASSUME NEW s \in Sessions, UserOf[PartOf[s]] = u, sStatus[s] = "completed"
        PROVE  TestOf[PartOf[s]] \in T
    BY <2>2 DEF Coherent, StatusTable, HasCompleted
  <2> QED
    BY <2>1, <2>2 DEF SessionStats
<1>6. f \in [S -> T]
  BY <1>2
<1>7. Progress(u).xp = Cardinality(S) /\ Progress(u).testsCompleted = Cardinality(T)
  BY <1>5 DEF Progress, SumXp
<1> HIDE DEF S, T, f
<1>8. Cardinality(T) = Cardinality(S)
  BY <1>1, <1>3, <1>4, <1>6, SameCount
<1> QED
  BY <1>7, <1>8 DEF T

(* Where ids grow with time, what tests offer is what joins do, and Home and    *)
(* progress count the rows.                                                    *)
THEOREM ScreensAgree == Spec /\ [][IdsGrow]_vars => []PlayerScreensAgree
<1>1. ASSUME TypeOK, Coherent, ScreensInv
      PROVE  PlayerScreensAgree
  <2>1. HeaderAgrees
    BY <1>1, HeaderCounts
  <2>2. ASSUME NEW u \in Users, NEW view, view = [t \in Tests |-> TestView(u, t)]
        PROVE  OffersAreTrue(u, view) /\ HomeReadsAlike(u, view)
    <3>1. \A t \in Tests : view[t] = TestView(u, t)
      BY <2>2
    <3>2. OffersAreTrue(u, view)
      BY <1>1, <3>1, OfferIs DEF OffersAreTrue
    <3>3. ASSUME NEW live \in SUBSET Tests, Cardinality(PartsOf(u)) <= HomePage
          PROVE  Home(u, live).continuing = NoPart <=>
                    \A t \in live : view[t].cta \notin {"continue", "in_review"}
      <4>1. \A t \in live : view[t].cta \in {"continue", "in_review"} <=> HasActive(u, t)
        BY <3>2 DEF OffersAreTrue
      <4> QED
        BY <1>1, <3>3, <4>1, HomeContinues
    <3>4. \A live \in SUBSET Tests : Home(u, live).rewards =
             Cardinality({p \in PartsOf(u) : Result(p).status = "completed"})
      BY <1>1, RewardsCounted DEF Home
    <3>5. HomeReadsAlike(u, view)
      BY <1>1, <3>3, <3>4, ProgressCounted DEF HomeReadsAlike
    <3> QED
      BY <3>2, <3>5
  <2> QED
    BY <2>1, <2>2 DEF PlayerScreensAgree
<1>2. TypeOK /\ Coherent /\ ScreensInv => PlayerScreensAgree
  BY <1>1
<1> QED
  BY <1>2, AlwaysCoherent, ScreensInit, ScreensStep, PTL DEF Spec
=============================================================================
