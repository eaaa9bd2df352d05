------------------------- MODULE MediaPipelineProofs -------------------------
(* Proofs about MediaPipeline, for any number of uploads, rows, requests,      *)
(* workers and faults:                                                       *)
(*   TypeInv  the types, with what the queue's locks and the retry counter    *)
(*            need to keep them;                                             *)
(*   Held     what a request, a run, a job or the sweep relies on is still    *)
(*            so when it is used, from which objects and rows go together    *)
(*            and a playable recording fails for a cause only.               *)
EXTENDS MediaPipeline, TLAPS

(* A job that may still run has not used up its runs. *)
RetriesLeft ==
    \A j \in Jobs : job[j] \in {"none", "waiting", "active"} => fails[j] < MaxJobRuns

(* A lock belongs to a run of an active job, and a job has one lock. *)
LockHolds == \A w \in locks : run[w].at # "idle" /\ job[run[w].job] = "active"
OneLock   == \A v, w \in locks : run[v].job = run[w].job => v = w

TypeInv == TypeOK /\ RetriesLeft /\ LockHolds /\ OneLock

(* The two jobs of a row are jobs, and every job is of a row. *)
LEMMA JobsOfRows ==
    /\ \A i \in Recs : <<i, "transcode">> \in Jobs /\ <<i, "audio">> \in Jobs
    /\ \A j \in Jobs : j[1] \in Recs /\ <<j[1], "audio">> \in Jobs
BY DEF Jobs

(* The types hold before the first upload. *)
LEMMA TypeInit == Init => TypeInv
<1> SUFFICES ASSUME Init PROVE TypeInv
  OBVIOUS
<1> USE RunsAssumption DEF Init
<1>1. /\ req \in [Requests -> RequestState] /\ run \in [Workers -> RunState]
      /\ sweep \in SweepState
  BY DEF Idle, SweepIdle, RequestState, RunState, SweepState
<1>2. TypeOK
  BY <1>1 DEF TypeOK, Kinds
<1>3. RetriesLeft /\ LockHolds /\ OneLock
  BY DEF RetriesLeft, LockHolds, OneLock
<1> QED
  BY <1>2, <1>3 DEF TypeInv

(* What is ensured is waiting, below its bound of runs, or as it was. *)
LEMMA Ensured ==
    ASSUME TypeInv, NEW j \in Jobs, job' = EnsuredJob(j), UNCHANGED <<fails, locks, run>>
    PROVE  /\ job' \in [Jobs -> {"none", "waiting", "active", "completed", "failed"}]
           /\ RetriesLeft' /\ LockHolds' /\ OneLock'
           /\ \A i \in Jobs : job'[i] = job[i] \/ (i = j /\ job'[i] = "waiting")
<1> USE DEF TypeInv, TypeOK, RetriesLeft, LockHolds, OneLock, EnsuredJob
<1>1. CASE job' = job
  BY <1>1
<1>2. CASE /\ job' = [job EXCEPT ![j] = "waiting"]
           /\ job[j] = "none" \/ (job[j] = "failed" /\ fails[j] < MaxJobRuns)
  BY <1>2
<1> QED
  BY <1>1, <1>2

(* A request keeps the types. *)
LEMMA TypeRequest ==
    ASSUME TypeInv, NEW r \in Requests, RequestStep(r)
    PROVE  TypeInv'
<1>a. /\ req[r].at \in OnKey =>
             /\ req[r] \in [at : OnKey, key : Keys, multi : BOOLEAN]
             /\ req[r].key \in Keys
      /\ req[r].at \in {"delTicket", "markFailed"} => req[r].rec \in Recs
      /\ req[r].at = "enqueue" => req[r].job \in Jobs /\ req[r].retry \in BOOLEAN
  BY DEF TypeInv, TypeOK, RequestState, Idle, OnKey
<1>b. /\ Idle \in RequestState
      /\ \A at \in OnKey : req[r].at \in OnKey => [req[r] EXCEPT !.at = at] \in RequestState
      /\ \A i \in Recs : ToEnqueue(i) \in RequestState
  <2>1. \A i \in Recs : ToEnqueue(i) \in RequestState
    BY JobsOfRows DEF ToEnqueue, RequestState
  <2>2. \A at \in OnKey : req[r].at \in OnKey => [req[r] EXCEPT !.at = at] \in RequestState
    BY <1>a DEF RequestState
  <2> QED
    BY <2>1, <2>2 DEF Idle, RequestState
<1>c. SUFFICES /\ req' \in [Requests -> RequestState]
               /\ UNCHANGED <<consent, file, audio, locks, fails, run, sweep, faults>>
               /\ upload' \in [Keys -> {"none", "open", "completed", "aborted"}]
               /\ ticket' \in SUBSET Keys /\ stored' \in SUBSET Keys
               /\ rec' \in [Recs -> {"absent", "processing", "ready", "failed"}]
               /\ late' \in SUBSET Jobs
               /\ cut' \in SUBSET Keys /\ refused' \in SUBSET Keys
               /\ unqueued' \in SUBSET Recs /\ misread' \in SUBSET Recs
               /\ job' = job \/ \E j \in Jobs : job' = EnsuredJob(j)
  <2>1. CASE job' = job
    BY <1>c, <2>1 DEF TypeInv, TypeOK, RetriesLeft, LockHolds, OneLock
  <2>2. CASE \E j \in Jobs : job' = EnsuredJob(j)
    BY <1>c, <2>2, Ensured DEF TypeInv, TypeOK
  <2> QED
    BY <1>c, <2>1, <2>2
<1>d. \A i \in Recs : [at |-> "enqueue", job |-> <<i, "transcode">>, retry |-> TRUE] \in RequestState
  BY JobsOfRows DEF RequestState
<1> USE <1>a, <1>b DEF TypeInv, TypeOK, To, Ends, OnKey, store, queueVars, history
<1>1. CASE \E k \in Keys, multi \in BOOLEAN : Complete(r, k, multi)
  BY <1>1 DEF Complete, RequestState
<1>2. CASE \E i \in Recs : CompleteAgain(r, i)
  <2>1. PICK i \in Recs : CompleteAgain(r, i)
    BY <1>2
  <2> QED
    BY <1>d, <2>1 DEF CompleteAgain
<1>3. CASE CheckConsent(r)
  BY <1>3 DEF CheckConsent
<1>4. CASE Discard(r)
  BY <1>4 DEF Discard, Aborted
<1>5. CASE LoadTicket(r)
  BY <1>5 DEF LoadTicket
<1>6. CASE CompleteMultipart(r)
  BY <1>6 DEF CompleteMultipart
<1>7. CASE Abort(r)
  BY <1>7 DEF Abort, Aborted
<1>8. CASE Stat(r)
  BY <1>8 DEF Stat
<1>9. CASE Drop(r)
  BY <1>9 DEF Drop, Dropped
<1>10. CASE \E i \in Recs : Insert(r, i)
  <2>1. PICK i \in Recs : Insert(r, i)
    BY <1>10
  <2>2. [at |-> "delTicket", rec |-> i] \in RequestState
    BY DEF RequestState
  <2> QED
    BY <2>1, <2>2 DEF Insert
<1>11. CASE DelTicket(r)
  BY <1>11 DEF DelTicket
<1>12. CASE Enqueue(r)
  <2>1. req[r].at = "enqueue" => [req[r] EXCEPT !.job = <<req[r].job[1], "audio">>] \in RequestState
    BY JobsOfRows DEF RequestState, Idle
  <2> QED
    BY <1>12, <2>1 DEF Enqueue
<1>13. CASE EnqueueThrows(r)
  <2>1. req[r].at = "enqueue" =>
           /\ req[r].job[1] \in Recs
           /\ [at |-> "markFailed", rec |-> req[r].job[1]] \in RequestState
    BY JobsOfRows DEF RequestState
  <2> QED
    BY <1>13, <2>1 DEF EnqueueThrows
<1>14. CASE MarkFailed(r)
  BY <1>14 DEF MarkFailed
<1>15. CASE RequestDies(r)
  BY <1>15 DEF RequestDies
<1> QED
  BY <1>1, <1>2, <1>3, <1>4, <1>5, <1>6, <1>7, <1>8, <1>9, <1>10, <1>11, <1>12,
     <1>13, <1>14, <1>15 DEF RequestStep

(* So do the player, the client's uploads, and enqueues that land late. *)
LEMMA TypeEnvironment ==
    ASSUME TypeInv,
           \/ ChangeConsent
           \/ \E k \in Keys : TicketExpires(k) \/ \E f \in Files : StartUpload(k, f)
           \/ \E j \in Jobs : LateEnqueue(j)
    PROVE  TypeInv'
<1> USE RecordingsAssumption DEF TypeInv, TypeOK, store, queueVars, history
<1>1. CASE ChangeConsent
  BY <1>1 DEF ChangeConsent, RetriesLeft, LockHolds, OneLock
<1>2. CASE \E k \in Keys : TicketExpires(k) \/ \E f \in Files : StartUpload(k, f)
  BY <1>2 DEF TicketExpires, StartUpload, RetriesLeft, LockHolds, OneLock
<1>3. CASE \E j \in Jobs : LateEnqueue(j)
  BY <1>3, Ensured DEF LateEnqueue
<1> QED
  BY <1>1, <1>2, <1>3

(* Only the run holding the lock counts a failure, of a job below MaxJobRuns. *)
LEMMA TypeThrows ==
    ASSUME TypeInv, NEW w \in Workers, run[w] # Idle, Throws(w), faults' \in Nat
    PROVE  TypeInv'
<1> USE RunsAssumption
    DEF TypeInv, TypeOK, RetriesLeft, LockHolds, OneLock, Idle, RunState, Throws, store, history
<1>1. w \in locks => /\ run[w].job \in Jobs
                     /\ job[run[w].job] = "active"
                     /\ fails[run[w].job] < MaxJobRuns
  OBVIOUS
<1>2. TypeOK'
  BY <1>1
<1>3. RetriesLeft'
  BY <1>1
<1>4. LockHolds' /\ OneLock'
  BY <1>1
<1> QED
  BY <1>2, <1>3, <1>4

(* Runs of the two jobs keep the types. *)
LEMMA TypeRun ==
    ASSUME TypeInv, NEW w \in Workers,
           RunStep(w) \/ RunFails(w) \/ JobStalls(w) \/ RunVanishes(w)
    PROVE  TypeInv'
<1> USE RunsAssumption
    DEF TypeInv, TypeOK, RetriesLeft, LockHolds, OneLock, Idle, RunState, store, queueVars, history
<1>1. CASE \E j \in Jobs : RunTakes(w, j)
  BY <1>1 DEF RunTakes
<1>2. CASE TranscodeInspects(w)
  <2>1. run[w] \in [at : {"read", "extract", "done"}, job : Jobs]
    BY <1>2 DEF TranscodeInspects
  <2>2. misread' \in SUBSET Recs
    <3>1. run[w].job[1] \in Recs
      BY <2>1, JobsOfRows
    <3>2. misread' = misread \/ misread' = misread \cup {run[w].job[1]}
      BY <1>2 DEF TranscodeInspects
    <3> QED
      BY <3>1, <3>2
  <2> QED
    BY <1>2, <2>1, <2>2 DEF TranscodeInspects
<1>3. CASE TranscodeSettles(w)
  <2>0. run[w] \in [at : {"settle"}, job : Jobs, outcome : {"ready", "failed"}]
    BY <1>3 DEF TranscodeSettles
  <2>1. /\ run[w].job \in Jobs /\ run[w].job[1] \in Recs
        /\ run[w].outcome \in {"ready", "failed"}
    BY <2>0, JobsOfRows
  <2>2. rec' \in [Recs -> {"absent", "processing", "ready", "failed"}]
    BY <1>3, <2>1 DEF TranscodeSettles
  <2> QED
    BY <1>3, <2>1, <2>2 DEF TranscodeSettles
<1>4. CASE AudioReads(w)
  BY <1>4 DEF AudioReads
<1>5. CASE AudioExtracts(w)
  BY <1>5, JobsOfRows, RecordingsAssumption DEF AudioExtracts
<1>6. CASE AudioThrows(w)
  BY <1>6, TypeThrows DEF AudioThrows
<1>7. CASE RunEnds(w)
  BY <1>7 DEF RunEnds
<1>8. CASE RunFails(w)
  BY <1>8, TypeThrows DEF RunFails
<1>9. CASE JobStalls(w)
  BY <1>9 DEF JobStalls
<1>10. CASE RunVanishes(w)
  BY <1>10 DEF RunVanishes
<1>11. CASE TranscodeThrows(w)
  BY <1>11, TypeThrows DEF TranscodeThrows
<1> QED
  BY <1>1, <1>2, <1>3, <1>4, <1>5, <1>6, <1>7, <1>8, <1>9, <1>10, <1>11 DEF RunStep

(* So does the sweep, which revives a failed job only below MaxJobRuns. *)
LEMMA TypeSweep ==
    ASSUME TypeInv, SweepStep \/ SweepFails
    PROVE  TypeInv'
<1>1. SweepIdle \in SweepState
  BY DEF SweepIdle, SweepState
<1>2. sweep.at # "idle" /\ SweepGoesOn => sweep' \in SweepState
  <2>1. sweep.todo \in SUBSET Recs
    BY DEF TypeInv, TypeOK, SweepState
  <2>2. [sweep EXCEPT !.at = "visit", !.cur = NoRec] \in SweepState
    BY DEF TypeInv, TypeOK, SweepState
  <2> QED
    BY <1>1, <2>1, <2>2 DEF SweepGoesOn
<1> USE <1>1 DEF TypeInv, TypeOK, store, queueVars, history
<1>3. CASE SweepSelects
  BY <1>3 DEF SweepSelects, SweepState, RetriesLeft, LockHolds, OneLock
<1>4. CASE \E i \in Recs : SweepEnsures(i)
  <2>1. PICK i \in Recs : SweepEnsures(i)
    BY <1>4
  <2>2. sweep' \in SweepState
    BY <2>1 DEF SweepEnsures, SweepState
  <2> QED
    BY <2>1, <2>2, JobsOfRows, Ensured DEF SweepEnsures
<1>5. CASE SweepSettles
  BY <1>5, <1>2 DEF SweepSettles, SweepState, RetriesLeft, LockHolds, OneLock
<1>6. CASE SweepEnsuresAudio
  <2>1. sweep.at = "audio" => sweep.cur \in Recs
    BY DEF SweepState
  <2> QED
    BY <1>6, <1>2, <2>1, JobsOfRows, Ensured DEF SweepEnsuresAudio
<1>7. CASE SweepFails
  BY <1>7 DEF SweepFails, RetriesLeft, LockHolds, OneLock
<1> QED
  BY <1>3, <1>4, <1>5, <1>6, <1>7 DEF SweepStep

(* And so does a step that changes nothing: TypeInv is inductive. *)
LEMMA TypeStep == TypeInv /\ [Next]_vars => TypeInv'
<1>1. TypeInv /\ UNCHANGED vars => TypeInv'
  BY DEF TypeInv, TypeOK, RetriesLeft, LockHolds, OneLock, vars, store, queueVars, history
<1> QED
  BY <1>1, TypeRequest, TypeEnvironment, TypeRun, TypeSweep DEF Next

(* Every variable keeps its type: in particular no job of a recording runs     *)
(* again after it failed MaxJobRuns times.                                   *)
THEOREM MediaTypes == Spec => []TypeOK
<1>1. TypeInv => TypeOK
  BY DEF TypeInv
<1> QED
  BY TypeInit, TypeStep, <1>1, PTL DEF Spec

-----------------------------------------------------------------------------
(* A row is of an upload that began, of a file that was not too large; and     *)
(* its object is there, unless a complete of it was refused.                 *)
RowsHold ==
    \A i \in Recs : rec[i] # "absent" =>
        /\ upload[KeyOf[i]] # "none"
        /\ file[KeyOf[i]] # "huge"
        /\ KeyOf[i] \in stored \cup refused

(* What a request goes on from is still so. *)
RequestsHold ==
    \A r \in Requests :
        /\ req[r].at \in OnKey => upload[req[r].key] # "none"
        /\ req[r].at = "discard" => req[r].key \in refused
        /\ req[r].at = "drop" => file[req[r].key] = "huge"
        /\ req[r].at = "insert" =>
               file[req[r].key] # "huge" /\ req[r].key \in stored \cup refused
        /\ req[r].at \in {"delTicket", "markFailed"} => rec[req[r].rec] # "absent"
        /\ req[r].at = "markFailed" => req[r].rec \in unqueued
        /\ req[r].at = "enqueue" => rec[req[r].job[1]] # "absent"

(* Jobs, runs and the sweep are about rows that exist. *)
QueueHolds ==
    /\ \A j \in Jobs : job[j] # "none" \/ j \in late => rec[j[1]] # "absent"
    /\ \A w \in Workers : run[w].at # "idle" => rec[run[w].job[1]] # "absent"
    /\ \A i \in sweep.todo : rec[i] # "absent"
    /\ sweep.at \in {"settle", "audio"} => rec[sweep.cur] # "absent"

(* Why a run is about to fail a playable recording, or the sweep any. *)
CausesHold ==
    /\ \A w \in Workers :
          run[w].at = "settle" /\ run[w].outcome = "failed"
             /\ file[KeyOf[run[w].job[1]]] \in Playable =>
                run[w].job[1] \in misread \/ KeyOf[run[w].job[1]] \in refused
    /\ sweep.at = "settle" => GivenUp(sweep.cur)

Held == RowsHold /\ RequestsHold /\ QueueHolds /\ CausesHold /\ NoOrphan /\ FailsForCause

(* Before the first upload there is nothing to hold. *)
LEMMA HeldInit == Init => Held
BY DEF Init, Held, RowsHold, RequestsHold, QueueHolds, CausesHold, NoOrphan, FailsForCause,
       Idle, SweepIdle, OnKey

(* A request of the given stage has the fields of that stage. *)
LEMMA Fields ==
    ASSUME TypeOK, NEW r \in Requests
    PROVE  /\ req[r].at \in OnKey => req[r].key \in Keys /\ req[r].multi \in BOOLEAN
           /\ req[r].at \in {"delTicket", "markFailed"} => req[r].rec \in Recs
           /\ req[r].at = "enqueue" =>
                 /\ req[r].job \in Jobs /\ req[r].job[1] \in Recs
                 /\ req[r].retry \in BOOLEAN
<1>1. /\ req[r].at \in OnKey => req[r] \in [at : OnKey, key : Keys, multi : BOOLEAN]
      /\ req[r].at = "enqueue" => req[r] \in [at : {"enqueue"}, job : Jobs, retry : BOOLEAN]
      /\ req[r].at \in {"delTicket", "markFailed"} =>
            req[r] \in [at : {"delTicket", "markFailed"}, rec : Recs]
  BY DEF TypeOK, RequestState, Idle, OnKey
<1> QED
  BY <1>1, JobsOfRows

(* A run is of a job, and of a row. *)
LEMMA RunFields ==
    ASSUME TypeOK, NEW w \in Workers
    PROVE  /\ run[w].at # "idle" => run[w].job \in Jobs /\ run[w].job[1] \in Recs
           /\ run[w].at = "settle" => run[w].outcome \in {"ready", "failed"}
           /\ run[w].at = "idle" => run[w] = Idle
<1>1. /\ run[w].at \in {"idle", "read", "extract", "done", "settle"}
      /\ run[w].at \in {"read", "extract", "done"} =>
            run[w] \in [at : {"read", "extract", "done"}, job : Jobs]
      /\ run[w].at = "settle" =>
            run[w] \in [at : {"settle"}, job : Jobs, outcome : {"ready", "failed"}]
      /\ run[w].at = "idle" => run[w] = Idle
  BY DEF TypeOK, RunState, Idle
<1> QED
  BY <1>1, JobsOfRows

(* A request that goes on keeps its key. *)
LEMMA Moves ==
    ASSUME TypeOK, NEW r \in Requests, NEW at, req[r].at \in OnKey, To(r, at)
    PROVE  req'[r].at = at /\ req'[r].key = req[r].key /\ req'[r].multi = req[r].multi
<1>1. req[r] \in [at : OnKey, key : Keys, multi : BOOLEAN]
  BY DEF TypeOK, RequestState, Idle, OnKey
<1>2. req'[r] = [req[r] EXCEPT !.at = at]
  BY DEF To, TypeOK
<1> QED
  BY <1>1, <1>2

(* What no step undoes: uploads and rows stay, objects too unless a complete   *)
(* was refused or they were too large.                                       *)
Lasting ==
    /\ \A k \in Keys : upload[k] # "none" => upload'[k] # "none" /\ file'[k] = file[k]
    /\ refused \subseteq refused' /\ unqueued \subseteq unqueued' /\ cut \subseteq cut'
    /\ \A i \in Recs : rec[i] # "absent" => rec'[i] # "absent"
    /\ \A k \in stored : k \in stored' \/ k \in refused \/ file[k] = "huge"

(* Requests undo none of that. *)
LEMMA LastingRequest ==
    ASSUME TypeInv, Held, NEW r \in Requests, RequestStep(r)
    PROVE  Lasting
<1> USE Fields DEF TypeInv, TypeOK, Held, RequestsHold, Lasting, store, history
<1>1. CASE \E k \in Keys, multi \in BOOLEAN : Complete(r, k, multi)
  BY <1>1 DEF Complete
<1>2. CASE \E i \in Recs : CompleteAgain(r, i)
  BY <1>2 DEF CompleteAgain
<1>3. CASE CheckConsent(r)
  BY <1>3 DEF CheckConsent
<1>4. CASE Discard(r)
  BY <1>4 DEF Discard, Aborted
<1>5. CASE LoadTicket(r)
  BY <1>5 DEF LoadTicket
<1>6. CASE CompleteMultipart(r)
  BY <1>6 DEF CompleteMultipart
<1>7. CASE Abort(r)
  BY <1>7 DEF Abort, Aborted
<1>8. CASE Stat(r)
  BY <1>8 DEF Stat
<1>9. CASE Drop(r)
  BY <1>9 DEF Drop, Dropped
<1>10. CASE \E i \in Recs : Insert(r, i)
  BY <1>10 DEF Insert
<1>11. CASE DelTicket(r)
  BY <1>11 DEF DelTicket
<1>12. CASE Enqueue(r)
  BY <1>12 DEF Enqueue
<1>13. CASE EnqueueThrows(r)
  BY <1>13 DEF EnqueueThrows
<1>14. CASE MarkFailed(r)
  BY <1>14 DEF MarkFailed
<1>15. CASE RequestDies(r)
  BY <1>15 DEF RequestDies
<1> QED
  BY <1>1, <1>2, <1>3, <1>4, <1>5, <1>6, <1>7, <1>8, <1>9, <1>10, <1>11, <1>12, <1>13, <1>14,
     <1>15 DEF RequestStep

(* A request keeps what the others rely on. *)
LEMMA HeldRequest ==
    ASSUME TypeInv, Held, NEW r \in Requests, RequestStep(r)
    PROVE  RowsHold' /\ RequestsHold'
<1>a. Lasting
  BY LastingRequest
<1>b. \A q \in Requests \ {r} : req'[q] = req[q]
  BY DEF RequestStep, Complete, CompleteAgain, CheckConsent, Discard, LoadTicket,
         CompleteMultipart, Abort, Stat, Drop, Insert, DelTicket, Enqueue, EnqueueThrows,
         MarkFailed, RequestDies, To, Ends, TypeInv, TypeOK
<1>c. \A i \in Recs : rec[i] = "absent" /\ rec'[i] # "absent" => Insert(r, i)
  BY Fields DEF RequestStep, Complete, CompleteAgain, CheckConsent, Discard, LoadTicket,
         CompleteMultipart, Abort, Stat, Drop, Insert, DelTicket, Enqueue, EnqueueThrows,
         MarkFailed, RequestDies, TypeInv, TypeOK, Held, RequestsHold
<1>1. RowsHold'
  <2> SUFFICES ASSUME NEW i \in Recs, rec'[i] # "absent"
               PROVE  /\ upload'[KeyOf[i]] # "none"
                      /\ file'[KeyOf[i]] # "huge"
                      /\ KeyOf[i] \in stored' \cup refused'
    BY RecordingsAssumption DEF RowsHold
  <2>1. KeyOf[i] \in Keys
    BY RecordingsAssumption
  <2>2. /\ upload[KeyOf[i]] # "none"
        /\ file[KeyOf[i]] # "huge"
        /\ KeyOf[i] \in stored \cup refused
    <3>1. CASE rec[i] # "absent"
      BY <3>1 DEF Held, RowsHold
    <3>2. CASE Insert(r, i)
      BY <3>2 DEF Held, RequestsHold, Insert, OnKey
    <3> QED
      BY <1>c, <3>1, <3>2
  <2> QED
    BY <1>a, <2>1, <2>2 DEF Lasting
<1>2. RequestsHold'
  <2> DEFINE Holds(q) ==
        /\ req[q].at \in OnKey => upload[req[q].key] # "none"
        /\ req[q].at = "discard" => req[q].key \in refused
        /\ req[q].at = "drop" => file[req[q].key] = "huge"
        /\ req[q].at = "insert" =>
               file[req[q].key] # "huge" /\ req[q].key \in stored \cup refused
        /\ req[q].at \in {"delTicket", "markFailed"} => rec[req[q].rec] # "absent"
        /\ req[q].at = "markFailed" => req[q].rec \in unqueued
        /\ req[q].at = "enqueue" => rec[req[q].job[1]] # "absent"
  <2>1. Holds(r)
    BY DEF Held, RequestsHold
  <2>2. ASSUME NEW q \in Requests, req'[q] = req[q] PROVE Holds(q)'
    <3>1. Holds(q)
      BY DEF Held, RequestsHold
    <3>2. CASE req[q].at \in OnKey
      BY <2>2, <3>1, <3>2, <1>a, Fields DEF TypeInv, Lasting, OnKey
    <3>3. CASE req[q].at \notin OnKey
      BY <2>2, <3>1, <3>3, <1>a, Fields DEF TypeInv, Lasting, OnKey
    <3> QED
      BY <3>2, <3>3
  <2>3. Holds(r)'
    <3> USE <2>1, Fields DEF TypeInv, TypeOK, OnKey, Idle, Ends, store, history
    <3>1. CASE \E k \in Keys, multi \in BOOLEAN : Complete(r, k, multi)
      BY <3>1 DEF Complete
    <3>2. CASE \E i \in Recs : CompleteAgain(r, i)
      BY <3>2 DEF CompleteAgain
    <3>3. CASE CheckConsent(r)
      <4>1. CASE consent
        <5>1. To(r, "ticket") \/ To(r, "stat")
          BY <3>3, <4>1 DEF CheckConsent
        <5>2. req'[r].at \in {"ticket", "stat"} /\ req'[r].key = req[r].key
          BY <3>3, <5>1, Moves DEF CheckConsent
        <5> QED
          BY <3>3, <5>2 DEF CheckConsent
      <4>2. CASE ~consent
        <5>1. To(r, "discard") /\ refused' = refused \cup {req[r].key}
          BY <3>3, <4>2 DEF CheckConsent
        <5>2. req'[r].at = "discard" /\ req'[r].key = req[r].key
          BY <3>3, <5>1, Moves DEF CheckConsent
        <5> QED
          BY <3>3, <5>1, <5>2 DEF CheckConsent
      <4> QED
        BY <4>1, <4>2
    <3>4. CASE Discard(r)
      BY <3>4 DEF Discard
    <3>5. CASE LoadTicket(r)
      <4>1. (req'[r].at = "complete" /\ req'[r].key = req[r].key) \/ req'[r] = Idle
        BY <3>5, Moves DEF LoadTicket
      <4> QED
        BY <3>5, <4>1 DEF LoadTicket
    <3>6. CASE CompleteMultipart(r)
      <4>1. req'[r].at \in {"stat", "abort"} /\ req'[r].key = req[r].key
        BY <3>6, Moves DEF CompleteMultipart
      <4>2. upload'[req[r].key] # "none"
        BY <3>6 DEF CompleteMultipart
      <4> QED
        BY <4>1, <4>2
    <3>7. CASE Abort(r)
      BY <3>7 DEF Abort
    <3>8. CASE Stat(r)
      <4>1. CASE Ends(r)
        BY <3>8, <4>1
      <4>2. CASE /\ req[r].key \in stored
                 /\ To(r, IF file[req[r].key] = "huge" THEN "drop" ELSE "insert")
        <5>1. /\ req'[r].at = IF file[req[r].key] = "huge" THEN "drop" ELSE "insert"
              /\ req'[r].key = req[r].key
          BY <3>8, <4>2, Moves DEF Stat
        <5> QED
          BY <3>8, <4>2, <5>1 DEF Stat
      <4> QED
        BY <3>8, <4>1, <4>2 DEF Stat, Found
    <3>9. CASE Drop(r)
      BY <3>9 DEF Drop
    <3>10. CASE \E i \in Recs : Insert(r, i)
      BY <3>10 DEF Insert, ToEnqueue
    <3>11. CASE DelTicket(r)
      BY <3>11 DEF DelTicket, ToEnqueue
    <3>12. CASE Enqueue(r)
      <4>1. CASE req'[r] = Idle
        BY <4>1
      <4>2. CASE req'[r] = [req[r] EXCEPT !.job = <<req[r].job[1], "audio">>]
        <5>1. req[r] \in [at : {"enqueue"}, job : Jobs, retry : BOOLEAN]
          BY <3>12 DEF Enqueue, RequestState
        <5>2. req'[r].at = "enqueue" /\ req'[r].job[1] = req[r].job[1]
          BY <4>2, <5>1
        <5> QED
          BY <3>12, <5>2 DEF Enqueue
      <4> QED
        BY <3>12, <4>1, <4>2 DEF Enqueue
    <3>13. CASE EnqueueThrows(r)
      BY <3>13 DEF EnqueueThrows
    <3>14. CASE MarkFailed(r)
      BY <3>14 DEF MarkFailed
    <3>15. CASE RequestDies(r)
      BY <3>15 DEF RequestDies
    <3> QED
      BY <3>1, <3>2, <3>3, <3>4, <3>5, <3>6, <3>7, <3>8, <3>9, <3>10, <3>11, <3>12, <3>13,
         <3>14, <3>15 DEF RequestStep
  <2> QED
    BY <1>b, <2>2, <2>3 DEF RequestsHold
<1> QED
  BY <1>1, <1>2

(* An ensured job is of a row that exists, if the row it was ensured for does. *)
LEMMA EnsuredHolds ==
    ASSUME TypeInv, NEW j \in Jobs, job' = EnsuredJob(j), rec[j[1]] # "absent", Lasting,
           \A i \in Jobs : job[i] # "none" => rec[i[1]] # "absent"
    PROVE  \A i \in Jobs : job'[i] # "none" => rec'[i[1]] # "absent"
<1>1. \A i \in Jobs : i # j => job'[i] = job[i]
  BY DEF TypeInv, TypeOK, EnsuredJob
<1> QED
  BY <1>1, JobsOfRows DEF Lasting

(* A request enqueues for rows that exist, and fails a row for a cause. *)
LEMMA CausedRequest ==
    ASSUME TypeInv, Held, NEW r \in Requests, RequestStep(r)
    PROVE  QueueHolds' /\ CausesHold' /\ FailsForCause'
<1>a. Lasting
  BY LastingRequest
<1>b. UNCHANGED <<fails, run, sweep, misread>>
  BY DEF RequestStep, Complete, CompleteAgain, CheckConsent, Discard, LoadTicket,
         CompleteMultipart, Abort, Stat, Drop, Insert, DelTicket, Enqueue, EnqueueThrows,
         MarkFailed, RequestDies, queueVars, history
<1>c. \/ job' = job
      \/ req[r].at = "enqueue" /\ job' = EnsuredJob(req[r].job)
  BY DEF RequestStep, Complete, CompleteAgain, CheckConsent, Discard, LoadTicket,
         CompleteMultipart, Abort, Stat, Drop, Insert, DelTicket, Enqueue, EnqueueThrows,
         MarkFailed, RequestDies, queueVars
<1>d. late' = late \/ (req[r].at = "enqueue" /\ late' \subseteq late \cup {req[r].job})
  BY DEF RequestStep, Complete, CompleteAgain, CheckConsent, Discard, LoadTicket,
         CompleteMultipart, Abort, Stat, Drop, Insert, DelTicket, Enqueue, EnqueueThrows,
         MarkFailed, RequestDies
<1>e. \A i \in Recs : rec'[i] = "failed" => rec[i] = "failed" \/ i \in unqueued
  BY Fields DEF RequestStep, Complete, CompleteAgain, CheckConsent, Discard, LoadTicket,
         CompleteMultipart, Abort, Stat, Drop, Insert, DelTicket, Enqueue, EnqueueThrows,
         MarkFailed, RequestDies, TypeInv, TypeOK, Held, RequestsHold
<1>f. req[r].at = "enqueue" => req[r].job \in Jobs /\ rec[req[r].job[1]] # "absent"
  BY Fields DEF TypeInv, Held, RequestsHold
<1>g. \A w \in Workers : run[w].at # "idle" => run[w].job \in Jobs /\ run[w].job[1] \in Recs
  BY RunFields DEF TypeInv
<1>1. QueueHolds'
  <2>1. \A j \in Jobs : job'[j] # "none" => rec'[j[1]] # "absent"
    BY <1>a, <1>c, <1>f, EnsuredHolds, JobsOfRows DEF Held, QueueHolds, Lasting
  <2>2. \A j \in Jobs : j \in late' => rec'[j[1]] # "absent"
    BY <1>a, <1>d, <1>f, JobsOfRows DEF Held, QueueHolds, Lasting
  <2>3. \A w \in Workers : run'[w].at # "idle" => rec'[run'[w].job[1]] # "absent"
    BY <1>a, <1>b, <1>g DEF Held, QueueHolds, Lasting
  <2>4. /\ \A i \in sweep'.todo : rec'[i] # "absent"
        /\ sweep'.at \in {"settle", "audio"} => rec'[sweep'.cur] # "absent"
    BY <1>a, <1>b DEF Held, QueueHolds, Lasting, TypeInv, TypeOK, SweepState
  <2> QED
    BY <2>1, <2>2, <2>3, <2>4 DEF QueueHolds
<1>2. CausesHold'
  <2>1. ASSUME NEW w \in Workers, run[w].at = "settle"
        PROVE  file'[KeyOf[run[w].job[1]]] = file[KeyOf[run[w].job[1]]]
    BY <2>1, <1>a, <1>g, RecordingsAssumption DEF Lasting, Held, QueueHolds, RowsHold
  <2> QED
    BY <1>a, <1>b, <2>1 DEF Held, CausesHold, Lasting, GivenUp
<1>3. FailsForCause'
  <2> SUFFICES ASSUME NEW i \in Recs, rec'[i] = "failed", file'[KeyOf[i]] \in Playable
               PROVE  i \in misread \/ GivenUp(i) \/ i \in unqueued' \/ KeyOf[i] \in refused'
    BY <1>b, RecordingsAssumption DEF FailsForCause, GivenUp
  <2>1. CASE rec[i] = "failed"
    <3>1. KeyOf[i] \in Keys /\ upload[KeyOf[i]] # "none"
      BY <2>1, RecordingsAssumption DEF Held, RowsHold
    <3>2. file[KeyOf[i]] \in Playable
      BY <3>1, <1>a DEF Lasting
    <3> QED
      BY <2>1, <3>2, <1>a DEF Held, FailsForCause, Lasting
  <2>2. CASE i \in unqueued
    BY <2>2, <1>a DEF Lasting
  <2> QED
    BY <1>e, <2>1, <2>2
<1> QED
  BY <1>1, <1>2, <1>3

(* A request that completed an object comes to its INSERT, or is cut short. *)
LEMMA OrphanRequest ==
    ASSUME TypeInv, Held, NEW r \in Requests, RequestStep(r)
    PROVE  NoOrphan'
<1>a. Lasting
  BY LastingRequest
<1>b. \A q \in Requests \ {r} : req'[q] = req[q]
  BY DEF RequestStep, Complete, CompleteAgain, CheckConsent, Discard, LoadTicket,
         CompleteMultipart, Abort, Stat, Drop, Insert, DelTicket, Enqueue, EnqueueThrows,
         MarkFailed, RequestDies, To, Ends, TypeInv, TypeOK
<1> DEFINE Coming(q, k) == req[q].at \in {"stat", "drop", "insert"} /\ req[q].key = k
<1> SUFFICES ASSUME NEW k \in stored'
             PROVE  RowsOf(k)' # {} \/ InHand(k)' \/ k \in cut'
  BY DEF NoOrphan
<1>1. CASE k \notin stored
  <2>1. /\ CompleteMultipart(r) /\ k = req[r].key
        /\ To(r, "stat") \/ k \in cut'
    BY <1>1 DEF RequestStep, Complete, CompleteAgain, CheckConsent, Discard, LoadTicket,
         CompleteMultipart, Abort, Stat, Drop, Dropped, Insert, DelTicket, Enqueue, EnqueueThrows,
         MarkFailed, RequestDies, store
  <2>2. To(r, "stat") => Coming(r, k)'
    BY <2>1, Moves DEF CompleteMultipart, OnKey, TypeInv
  <2> QED
    BY <2>1, <2>2 DEF InHand
<1>2. CASE k \in stored /\ RowsOf(k) # {}
  BY <1>2, <1>a DEF RowsOf, Lasting
<1>3. CASE k \in cut
  BY <1>3, <1>a DEF Lasting
<1>4. CASE \E q \in Requests \ {r} : Coming(q, k)
  BY <1>4, <1>b DEF InHand
<1>5. CASE k \in stored /\ Coming(r, k)
  <2>1. CASE Stat(r)
    <3>1. CASE Ends(r)
      BY <1>5, <2>1, <3>1 DEF Stat, To, Ends, Idle, TypeInv, TypeOK
    <3>2. CASE To(r, IF file[k] = "huge" THEN "drop" ELSE "insert")
      BY <1>5, <3>2, Moves DEF InHand, OnKey, TypeInv
    <3> QED
      BY <1>5, <2>1, <3>1, <3>2 DEF Stat
  <2>2. CASE Drop(r)
    BY <1>5, <2>2 DEF Drop, Dropped
  <2>3. CASE \E i \in Recs : Insert(r, i)
    BY <1>5, <2>3 DEF Insert, RowsOf, TypeInv, TypeOK
  <2>4. CASE RequestDies(r)
    BY <1>5, <2>4 DEF RequestDies
  <2> QED
    BY <1>5, <2>1, <2>2, <2>3, <2>4 DEF RequestStep, Complete, CompleteAgain, CheckConsent, Discard,
         LoadTicket, CompleteMultipart, Abort, DelTicket, Enqueue, EnqueueThrows, MarkFailed, Idle
<1> QED
  BY <1>1, <1>2, <1>3, <1>4, <1>5 DEF Held, NoOrphan, InHand

(* So do the player, the client's uploads, and enqueues that land late. *)
LEMMA HeldEnvironment ==
    ASSUME TypeInv, Held,
           \/ ChangeConsent
           \/ \E k \in Keys : TicketExpires(k) \/ \E f \in Files : StartUpload(k, f)
           \/ \E j \in Jobs : LateEnqueue(j)
    PROVE  Held'
<1> USE DEF Held, RowsHold, RequestsHold, QueueHolds, CausesHold, NoOrphan, FailsForCause,
            GivenUp, InHand, RowsOf, store, queueVars, history
<1>1. CASE ChangeConsent
  BY <1>1 DEF ChangeConsent
<1>2. CASE \E k \in Keys : TicketExpires(k)
  BY <1>2 DEF TicketExpires
<1>3. CASE \E k \in Keys, f \in Files : StartUpload(k, f)
  <2>1. PICK k \in Keys, f \in Files : StartUpload(k, f)
    BY <1>3
  <2>2. /\ \A h \in Keys : upload[h] # "none" => upload'[h] # "none" /\ file'[h] = file[h]
        /\ UNCHANGED <<stored, rec, job, fails, late, req, run, sweep, history>>
    BY <2>1 DEF StartUpload, TypeInv, TypeOK
  <2>3. RowsHold'
    BY <2>2, RecordingsAssumption
  <2>4. RequestsHold'
    <3>1. ASSUME NEW r \in Requests, req[r].at \in OnKey
          PROVE  req[r].key \in Keys /\ upload[req[r].key] # "none"
      BY <3>1, Fields DEF TypeInv
    <3> QED
      BY <2>2, <3>1 DEF OnKey
  <2>5. CausesHold'
    <3>1. ASSUME NEW w \in Workers, run[w].at = "settle"
          PROVE  file'[KeyOf[run[w].job[1]]] = file[KeyOf[run[w].job[1]]]
      BY <3>1, <2>2, RunFields, RecordingsAssumption DEF TypeInv
    <3> QED
      BY <2>2, <3>1
  <2>6. FailsForCause'
    BY <2>2, RecordingsAssumption
  <2> QED
    BY <2>2, <2>3, <2>4, <2>5, <2>6
<1>4. CASE \E j \in Jobs : LateEnqueue(j)
  <2>1. PICK j \in Jobs : LateEnqueue(j)
    BY <1>4
  <2>2. \A i \in Jobs : job'[i] # "none" => rec[i[1]] # "absent"
    BY <2>1 DEF LateEnqueue, EnsuredJob, TypeInv, TypeOK
  <2> QED
    BY <2>1, <2>2 DEF LateEnqueue
<1> QED
  BY <1>1, <1>2, <1>3, <1>4

(* Runs touch neither objects of recordings nor requests: what is left of Held *)
(* is whose row they settle, and why.                                        *)
LEMMA HeldRun ==
    ASSUME TypeInv, Held, NEW w \in Workers,
           RunStep(w) \/ RunFails(w) \/ JobStalls(w) \/ RunVanishes(w)
    PROVE  Held'
<1>a. /\ UNCHANGED <<upload, file, stored, late, req, sweep, cut, refused, unqueued>>
      /\ misread \subseteq misread'
  BY DEF RunStep, RunTakes, TranscodeInspects, TranscodeSettles, AudioReads, AudioExtracts,
         AudioThrows, TranscodeThrows, RunEnds, Throws, RunFails, JobStalls, RunVanishes, store, history,
         queueVars, TypeInv, TypeOK
<1>b. rec' = rec \/ TranscodeSettles(w)
  BY DEF RunStep, RunTakes, TranscodeInspects, AudioReads, AudioExtracts,
         AudioThrows, TranscodeThrows, RunEnds, Throws, RunFails, JobStalls, RunVanishes
<1>c. \A v \in Workers \ {w} : run'[v] = run[v]
  BY DEF RunStep, RunTakes, TranscodeInspects, TranscodeSettles, AudioReads, AudioExtracts,
         AudioThrows, TranscodeThrows, RunEnds, Throws, RunFails, JobStalls, RunVanishes, TypeInv, TypeOK
<1>d. /\ run[w].at # "idle" =>
            run[w].job \in Jobs /\ run[w].job[1] \in Recs /\ rec[run[w].job[1]] # "absent"
      /\ run[w].at = "idle" => run[w] = Idle
  BY RunFields DEF TypeInv, Held, QueueHolds
<1>e. \A i \in Recs : rec'[i] = "absent" <=> rec[i] = "absent"
  BY <1>b, <1>d, RunFields DEF TranscodeSettles, TypeInv, TypeOK
(* What a run becomes. *)
<1>f. \/ run'[w] = run[w]
      \/ run'[w] = Idle
      \/ /\ run'[w].at = "read" /\ run'[w].job \in Jobs
         /\ job[run'[w].job] = "waiting"
      \/ /\ run[w].at # "idle" /\ run'[w].job = run[w].job
         /\ \/ run'[w].at = "done"
            \/ run'[w].at = "extract" /\ run[w].job[2] = "audio"
            \/ run'[w].at = "settle" /\ TranscodeInspects(w)
  <2> USE <1>d DEF TypeInv, TypeOK, Idle
  <2>1. CASE \E j \in Jobs : RunTakes(w, j)
    BY <2>1 DEF RunTakes
  <2>2. CASE TranscodeInspects(w)
    BY <2>2 DEF TranscodeInspects
  <2>3. CASE TranscodeSettles(w)
    BY <2>3 DEF TranscodeSettles
  <2>4. CASE AudioReads(w)
    <3>1. run[w] \in [at : {"read", "extract", "done"}, job : Jobs]
      BY <2>4 DEF AudioReads, RunState
    <3> QED
      BY <2>4, <3>1 DEF AudioReads
  <2>5. CASE AudioExtracts(w)
    <3>1. run[w] \in [at : {"read", "extract", "done"}, job : Jobs]
      BY <2>5 DEF AudioExtracts, RunState
    <3> QED
      BY <2>5, <3>1 DEF AudioExtracts
  <2>6. CASE AudioThrows(w) \/ TranscodeThrows(w) \/ RunFails(w) \/ RunEnds(w) \/ RunVanishes(w)
    BY <2>6 DEF AudioThrows, TranscodeThrows, RunFails, Throws, RunEnds, RunVanishes
  <2>7. CASE JobStalls(w)
    BY <2>7 DEF JobStalls
  <2> QED
    BY <2>1, <2>2, <2>3, <2>4, <2>5, <2>6, <2>7 DEF RunStep
(* Runs that failed stay counted. *)
<1>g. \A i \in Recs : GivenUp(i) => GivenUp(i)'
  <2>1. fails' = fails \/ fails' = [fails EXCEPT ![run[w].job] = @ + 1]
    BY DEF RunStep, RunTakes, TranscodeInspects, TranscodeSettles, AudioReads, AudioExtracts,
         AudioThrows, TranscodeThrows, RunEnds, Throws, RunFails, JobStalls, RunVanishes, queueVars
  <2>2. ASSUME NEW i \in Recs
        PROVE  <<i, "transcode">> \in Jobs /\ fails[<<i, "transcode">>] \in Nat
    <3>1. <<i, "transcode">> \in Jobs
      BY DEF Jobs
    <3>2. fails \in [Jobs -> 0..MaxJobRuns]
      BY DEF TypeInv, TypeOK
    <3>3. fails[<<i, "transcode">>] \in 0..MaxJobRuns
      BY <3>1, <3>2
    <3> QED
      BY <3>1, <3>3
  <2>3. ASSUME NEW i \in Recs
        PROVE  LET j == <<i, "transcode">> IN fails'[j] = fails[j] \/ fails'[j] = fails[j] + 1
    <3> DEFINE j == <<i, "transcode">>
    <3>1. fails \in [Jobs -> 0..MaxJobRuns] /\ j \in Jobs
      BY <2>2 DEF TypeInv, TypeOK
    <3> HIDE DEF j
    <3>2. fails'[j] = fails[j] \/ fails'[j] = fails[j] + 1
      BY <2>1, <3>1
    <3> QED
      BY <3>2 DEF j
  <2> QED
    BY <2>2, <2>3, RunsAssumption DEF GivenUp
<1>1. RowsHold' /\ RequestsHold' /\ NoOrphan'
  <2>1. RowsHold'
    BY <1>a, <1>e DEF Held, RowsHold
  <2>2. RequestsHold'
    BY <1>a, <1>e, Fields DEF Held, RequestsHold, TypeInv
  <2>3. \A k : RowsOf(k)' = RowsOf(k)
    BY <1>e DEF RowsOf
  <2> QED
    BY <1>a, <2>1, <2>2, <2>3 DEF Held, NoOrphan, InHand, history
<1>2. QueueHolds'
  <2>1. \A j \in Jobs : job'[j] # "none" => job[j] # "none" \/ (run[w].at # "idle" /\ j = run[w].job)
    BY <1>d DEF RunStep, RunTakes, TranscodeInspects, TranscodeSettles, AudioReads, AudioExtracts,
         AudioThrows, TranscodeThrows, RunEnds, Throws, RunFails, JobStalls, RunVanishes, queueVars, TypeInv, TypeOK,
         LockHolds, Idle
  <2>2. run'[w].at # "idle" =>
          \/ run[w].at # "idle" /\ run'[w].job = run[w].job
          \/ run'[w].job \in Jobs /\ job[run'[w].job] # "none"
    <3>1. CASE run'[w] = run[w] \/ run'[w] = Idle
      BY <3>1 DEF Idle
    <3>2. CASE run'[w].job \in Jobs /\ job[run'[w].job] = "waiting"
      BY <3>2
    <3> QED
      BY <1>f, <3>1, <3>2
  <2>3. \A i \in sweep.todo : i \in Recs
    BY DEF TypeInv, TypeOK, SweepState
  <2>4. sweep.at \in {"settle", "audio"} => sweep.cur \in Recs
    BY DEF TypeInv, TypeOK, SweepState
  <2>5. \A v \in Workers : run'[v].at # "idle" => rec'[run'[v].job[1]] # "absent"
    <3>1. ASSUME NEW v \in Workers \ {w} PROVE run'[v].at # "idle" => rec'[run'[v].job[1]] # "absent"
      BY <1>c, <1>e, RunFields DEF Held, QueueHolds, TypeInv
    <3>2. run'[w].at # "idle" => rec'[run'[w].job[1]] # "absent"
      BY <1>d, <1>e, <2>2, JobsOfRows DEF Held, QueueHolds
    <3> QED
      BY <3>1, <3>2
  <2>6. \A j \in Jobs : job'[j] # "none" \/ j \in late => rec'[j[1]] # "absent"
    BY <1>d, <1>e, <2>1, JobsOfRows DEF Held, QueueHolds
  <2> QED
    BY <1>a, <1>e, <2>3, <2>4, <2>5, <2>6 DEF Held, QueueHolds
<1>3. CausesHold'
  <2>1. ASSUME TranscodeInspects(w), run'[w].outcome = "failed",
               file[KeyOf[run[w].job[1]]] \in Playable
        PROVE  run[w].job[1] \in misread' \/ KeyOf[run[w].job[1]] \in refused
    <3>1. CASE misread' = misread \cup {run[w].job[1]}
      BY <3>1
    <3>2. CASE misread' = misread /\ faults' = faults
      <4>1. run'[w].outcome =
               IF KeyOf[run[w].job[1]] \in stored /\ file[KeyOf[run[w].job[1]]] \in Playable
               THEN "ready" ELSE "failed"
        BY <2>1, <3>2 DEF TranscodeInspects, TypeInv, TypeOK
      <4>2. run[w].at # "idle"
        BY <2>1 DEF TranscodeInspects
      <4> QED
        BY <2>1, <4>1, <4>2, <1>d DEF Held, RowsHold
    <3> QED
      BY <2>1, <3>1, <3>2 DEF TranscodeInspects
  <2>2. \A v \in Workers :
          run'[v].at = "settle" /\ run'[v].outcome = "failed"
             /\ file[KeyOf[run'[v].job[1]]] \in Playable =>
                run'[v].job[1] \in misread' \/ KeyOf[run'[v].job[1]] \in refused
    <3>1. ASSUME NEW v \in Workers, run'[v] = run[v],
                 run[v].at = "settle", run[v].outcome = "failed",
                 file[KeyOf[run[v].job[1]]] \in Playable
          PROVE  run[v].job[1] \in misread' \/ KeyOf[run[v].job[1]] \in refused
      BY <3>1, <1>a DEF Held, CausesHold
    <3> QED
      BY <3>1, <2>1, <1>c, <1>f DEF Idle
  <2>3. sweep.at = "settle" => GivenUp(sweep.cur)'
    <3>1. sweep.at = "settle" => sweep.cur \in Recs
      BY DEF TypeInv, TypeOK, SweepState
    <3> QED
      BY <1>a, <1>g, <3>1 DEF Held, CausesHold
  <2> QED
    BY <1>a, <2>2, <2>3 DEF CausesHold
<1>4. FailsForCause'
  <2> SUFFICES ASSUME NEW i \in Recs, rec'[i] = "failed", file[KeyOf[i]] \in Playable
               PROVE  i \in misread' \/ GivenUp(i)' \/ i \in unqueued \/ KeyOf[i] \in refused
    BY <1>a DEF FailsForCause, GivenUp
  <2>1. CASE rec[i] = "failed"
    BY <1>a, <1>g, <2>1 DEF Held, FailsForCause
  <2>2. CASE rec[i] # "failed"
    <3>1. run[w].at = "settle" /\ run[w].outcome = "failed" /\ run[w].job[1] = i
      BY <1>b, <2>2, RunFields DEF TranscodeSettles, TypeInv, TypeOK
    <3> QED
      BY <1>a, <3>1 DEF Held, CausesHold
  <2> QED
    BY <2>1, <2>2
<1> QED
  BY <1>1, <1>2, <1>3, <1>4 DEF Held

(* The sweep fails a row only where its job has failed every run it may have.  *)
LEMMA HeldSweep ==
    ASSUME TypeInv, Held, SweepStep \/ SweepFails
    PROVE  Held'
<1>a. UNCHANGED <<upload, file, stored, late, req, run, fails, history>>
  BY DEF SweepStep, SweepSelects, SweepEnsures, SweepSettles, SweepEnsuresAudio, SweepFails,
         store, queueVars
<1>b. /\ sweep.todo \subseteq Recs
      /\ sweep.at \in {"settle", "audio"} => sweep.cur \in Recs
  BY DEF TypeInv, TypeOK, SweepState
<1>c. rec' = rec \/ (SweepSettles /\ rec' = [rec EXCEPT ![sweep.cur] = "failed"]
                                /\ rec[sweep.cur] = "processing")
  BY DEF SweepStep, SweepSelects, SweepEnsures, SweepSettles, SweepEnsuresAudio, SweepFails
<1>d. \A i \in Recs : rec'[i] = "absent" <=> rec[i] = "absent"
  BY <1>c, <1>b DEF SweepSettles, TypeInv, TypeOK
<1>e. SweepGoesOn => sweep'.at \in {"idle", "visit"} /\ sweep'.todo \subseteq sweep.todo
  BY DEF SweepGoesOn, SweepIdle, TypeInv, TypeOK, SweepState
<1>1. RowsHold' /\ RequestsHold' /\ NoOrphan'
  <2>1. RowsHold'
    BY <1>a, <1>d DEF Held, RowsHold, history
  <2>2. RequestsHold'
    BY <1>a, <1>d, Fields DEF Held, RequestsHold, history, TypeInv
  <2>3. \A k : RowsOf(k)' = RowsOf(k)
    BY <1>d DEF RowsOf
  <2> QED
    BY <1>a, <2>1, <2>2, <2>3 DEF Held, NoOrphan, InHand, history
<1>2. QueueHolds'
  <2>1. \A j \in Jobs : job'[j] # "none" => rec[j[1]] # "absent"
    <3>1. CASE job' = job
      BY <3>1 DEF Held, QueueHolds
    <3>2. CASE \E i \in Recs : SweepEnsures(i)
      <4>1. PICK i \in Recs : SweepEnsures(i)
        BY <3>2
      <4>2. rec[i] # "absent"
        BY <4>1 DEF SweepEnsures, Held, QueueHolds
      <4>3. \A j \in Jobs : job'[j] = job[j] \/ j = <<i, "transcode">>
        BY <4>1, JobsOfRows DEF SweepEnsures, EnsuredJob, TypeInv, TypeOK
      <4> QED
        BY <4>2, <4>3 DEF Held, QueueHolds
    <3>3. CASE SweepEnsuresAudio
      <4>1. rec[sweep.cur] # "absent"
        BY <3>3 DEF SweepEnsuresAudio, Held, QueueHolds
      <4>2. \A j \in Jobs : job'[j] = job[j] \/ j = <<sweep.cur, "audio">>
        BY <3>3, <1>b, JobsOfRows DEF SweepEnsuresAudio, EnsuredJob, TypeInv, TypeOK
      <4> QED
        BY <4>1, <4>2 DEF Held, QueueHolds
    <3> QED
      BY <3>1, <3>2, <3>3 DEF SweepStep, SweepSelects, SweepSettles, SweepFails, queueVars
  <2>2. /\ \A i \in sweep'.todo : rec[i] # "absent"
        /\ sweep'.at \in {"settle", "audio"} => sweep'.cur \in Recs /\ rec[sweep'.cur] # "absent"
    <3> USE DEF Held, QueueHolds
    <3>1. CASE SweepSelects
      BY <3>1 DEF SweepSelects
    <3>2. CASE \E i \in Recs : SweepEnsures(i)
      BY <3>2 DEF SweepEnsures
    <3>3. CASE SweepSettles \/ SweepEnsuresAudio
      BY <3>3, <1>e DEF SweepSettles, SweepEnsuresAudio
    <3>4. CASE SweepFails
      BY <3>4 DEF SweepFails, SweepIdle
    <3> QED
      BY <3>1, <3>2, <3>3, <3>4 DEF SweepStep
  <2>3. sweep'.todo \subseteq Recs
    BY TypeSweep DEF TypeInv, TypeOK, SweepState
  <2>4. \A j \in Jobs : job'[j] # "none" \/ j \in late => rec'[j[1]] # "absent"
    BY <1>d, <2>1, JobsOfRows DEF Held, QueueHolds
  <2>5. \A w \in Workers : run[w].at # "idle" => rec'[run[w].job[1]] # "absent"
    BY <1>d, RunFields DEF Held, QueueHolds, TypeInv
  <2> QED
    BY <1>a, <1>d, <2>2, <2>3, <2>4, <2>5 DEF QueueHolds
<1>3. CausesHold'
  <2>1. sweep'.at = "settle" => GivenUp(sweep'.cur)
    <3>1. CASE \E i \in Recs : SweepEnsures(i)
      BY <3>1 DEF SweepEnsures, Exhausted, GivenUp
    <3> QED
      BY <3>1, <1>e DEF SweepStep, SweepSelects, SweepSettles, SweepEnsuresAudio, SweepFails,
                        SweepIdle
  <2> QED
    BY <1>a, <2>1 DEF Held, CausesHold, GivenUp, history
<1>4. FailsForCause'
  <2> SUFFICES ASSUME NEW i \in Recs, rec'[i] = "failed", file[KeyOf[i]] \in Playable
               PROVE  i \in misread \/ GivenUp(i) \/ i \in unqueued \/ KeyOf[i] \in refused
    BY <1>a DEF FailsForCause, GivenUp, history
  <2>1. CASE rec[i] = "failed"
    BY <2>1 DEF Held, FailsForCause
  <2>2. CASE SweepSettles /\ rec[i] # "failed"
    <3>1. sweep.at = "settle" /\ sweep.cur = i
      BY <1>b, <2>2 DEF SweepSettles, TypeInv, TypeOK
    <3> QED
      BY <3>1 DEF Held, CausesHold
  <2> QED
    BY <1>c, <2>1, <2>2
<1> QED
  BY <1>1, <1>2, <1>3, <1>4 DEF Held

(* With the types, Held is inductive. *)
LEMMA HeldStep == TypeInv /\ Held /\ [Next]_vars => Held'
<1>1. TypeInv /\ Held /\ UNCHANGED vars => Held'
  BY DEF Held, RowsHold, RequestsHold, QueueHolds, CausesHold, NoOrphan, FailsForCause, GivenUp, InHand,
         RowsOf, vars, store, queueVars, history
<1>2. ASSUME TypeInv, Held, NEW r \in Requests, RequestStep(r) PROVE Held'
  BY <1>2, HeldRequest, CausedRequest, OrphanRequest DEF Held
<1> QED
  BY <1>1, <1>2, HeldEnvironment, HeldRun, HeldSweep DEF Next

LEMMA AlwaysHeld == Spec => []Held
BY TypeInit, TypeStep, HeldInit, HeldStep, PTL DEF Spec

(* An object of a recording whose complete got past it has its row, or a        *)
(* request on its way there, or one that was cut short on it.                *)
THEOREM ObjectsHaveRows == Spec => []NoOrphan
<1>1. Held => NoOrphan
  BY DEF Held
<1> QED
  BY AlwaysHeld, <1>1, PTL

(* No complete, of the same upload or another, takes away the object of a row:  *)
(* only a complete that consent refused does.                                *)
THEOREM RowsHaveObjects == Spec => []RowKeepsObject
<1>1. Held => RowKeepsObject
  BY DEF Held, RowsHold, RowKeepsObject
<1> QED
  BY AlwaysHeld, <1>1, PTL

(* Objects and rows go together, both ways.                                  *)
THEOREM ObjectsGoWithRows == Spec => []ObjectsMatchRows
<1>1. Held => ObjectsMatchRows
  BY DEF Held, RowsHold, RowKeepsObject, ObjectsMatchRows
<1> QED
  BY AlwaysHeld, <1>1, PTL

(* A playable recording ends failed only if its job had failed every run, or    *)
(* the store, the first enqueue or the consent failed it: no interleaving of  *)
(* retries, late enqueues, stalled or failed runs and the sweep does.         *)
THEOREM FailsForCauseOnly == Spec => []FailsForCause
<1>1. Held => FailsForCause
  BY DEF Held
<1> QED
  BY AlwaysHeld, <1>1, PTL
=============================================================================
