----------------------------- MODULE MediaPipeline -----------------------------
(***************************************************************************)
(* The recordings of one session: an upload in parts straight to the object *)
(* store, its completion by the API (which inserts the row and enqueues two *)
(* jobs), the jobs media.transcode and media.extract-audio, and the         *)
(* recording pass of the reconcile sweep.  The store, Redis, the database   *)
(* and the queue commit apart; requests, runs and the sweep interleave      *)
(* between any two of their calls, and a client may complete the same       *)
(* upload twice at once.                                                    *)
(* All recordings are of one kind, so one consent covers them.              *)
(***************************************************************************)
EXTENDS Integers, FiniteSets

CONSTANTS Keys,       \* storage keys, each with its multipart upload
          Recs,       \* ids a session_recordings row can take
          KeyOf,      \* session_recordings.storage_key
          Files,      \* what clients upload, see Kinds
          Requests,   \* completes that may be in flight at once
          Workers,    \* runs of a job at once
          NoRec,
          MaxJobRuns, \* MAX_JOB_RUNS of ensure-enqueued.ts
          MaxFaults   \* bound: failed or stalled runs, and reads of the store that failed them

(* A video with sound or without, sound alone, no media at all, or too large. *)
Kinds    == {"video", "silent", "sound", "junk", "huge"}
Playable == {"video", "silent"}
Heard    == {"video", "sound"}

ASSUME RecordingsAssumption ==
    KeyOf \in [Recs -> Keys] /\ NoRec \notin Recs /\ Files \subseteq Kinds
ASSUME RunsAssumption == MaxJobRuns \in Nat \ {0} /\ MaxFaults \in Nat

VARIABLES
    consent,    \* the consent to this kind of recording
    upload,     \* the multipart upload of a key
    ticket,     \* keys whose upload session is in Redis
    file,       \* what was uploaded
    stored,     \* keys that are objects in the bucket
    audio,      \* keys whose extracted sound is in the bucket
    rec,        \* session_recordings.status, "absent" before the INSERT
    job, fails, \* the two jobs of a row in BullMQ, and their attemptsMade
    locks,      \* workers whose run holds the lock of its job
    late,       \* enqueues whose timeout ran out and whose promise goes on
    req, run, sweep, faults,
    cut,        \* history: keys a request completed without coming to its INSERT
    refused,    \* history: keys with a complete refused for lack of consent
    unqueued,   \* history: rows whose first enqueue threw
    misread     \* history: rows with a transcode whose stat of the store failed

store     == <<upload, file, stored, audio>>
queueVars == <<job, fails, locks>>
history   == <<cut, refused, unqueued, misread>>
vars      == <<consent, store, ticket, rec, queueVars, late, req, run, sweep, faults, history>>

Jobs == Recs \X {"transcode", "audio"}

Idle      == [at |-> "idle"]
SweepIdle == [at |-> "idle", todo |-> {}, cur |-> NoRec]

OnKey == {"consent", "ticket", "complete", "abort", "discard", "stat", "drop", "insert"}

RequestState ==
    {Idle}
    \cup [at : OnKey, key : Keys, multi : BOOLEAN]
    \cup [at : {"delTicket", "markFailed"}, rec : Recs]
    \cup [at : {"enqueue"}, job : Jobs, retry : BOOLEAN]
RunState ==
    {Idle}
    \cup [at : {"read", "extract", "done"}, job : Jobs]
    \cup [at : {"settle"}, job : Jobs, outcome : {"ready", "failed"}]
SweepState ==
    [at : {"idle", "visit"}, todo : SUBSET Recs, cur : {NoRec}]
    \cup [at : {"settle", "audio"}, todo : SUBSET Recs, cur : Recs]

TypeOK ==
    /\ consent \in BOOLEAN
    /\ upload \in [Keys -> {"none", "open", "completed", "aborted"}]
    /\ ticket \in SUBSET Keys
    /\ file \in [Keys -> Kinds]
    /\ stored \in SUBSET Keys
    /\ audio \in SUBSET Keys
    /\ rec \in [Recs -> {"absent", "processing", "ready", "failed"}]
    /\ job \in [Jobs -> {"none", "waiting", "active", "completed", "failed"}]
    /\ fails \in [Jobs -> 0..MaxJobRuns]
    /\ locks \in SUBSET Workers
    /\ late \in SUBSET Jobs
    /\ req \in [Requests -> RequestState]
    /\ run \in [Workers -> RunState]
    /\ sweep \in SweepState
    /\ faults \in Nat
    /\ cut \in SUBSET Keys /\ refused \in SUBSET Keys /\ unqueued \in SUBSET Recs
    /\ misread \in SUBSET Recs

Init ==
    /\ consent \in BOOLEAN
    /\ upload = [k \in Keys |-> "none"]
    /\ file = [k \in Keys |-> "junk"]
    /\ ticket = {} /\ stored = {} /\ audio = {}
    /\ rec = [i \in Recs |-> "absent"]
    /\ job = [j \in Jobs |-> "none"]
    /\ fails = [j \in Jobs |-> 0]
    /\ locks = {} /\ late = {}
    /\ req = [r \in Requests |-> Idle]
    /\ run = [w \in Workers |-> Idle]
    /\ sweep = SweepIdle
    /\ faults = 0
    /\ cut = {} /\ refused = {} /\ unqueued = {} /\ misread = {}

-----------------------------------------------------------------------------
(* ensureJobEnqueued. *)
EnsuredJob(j) ==
    IF job[j] = "none" \/ (job[j] = "failed" /\ fails[j] < MaxJobRuns)
    THEN [job EXCEPT ![j] = "waiting"]
    ELSE job

-----------------------------------------------------------------------------
(* The player changes the consent (an upsert of consents). *)
ChangeConsent ==
    /\ consent' = ~consent
    /\ UNCHANGED <<store, ticket, rec, queueVars, late, req, run, sweep, faults, history>>

(* createUploadUrl, and the client's uploads to the URLs it was given.  The   *)
(* consent read before is not a step of its own: complete reads it again.    *)
StartUpload(k, f) ==
    /\ consent
    /\ upload[k] = "none"
    /\ upload' = [upload EXCEPT ![k] = "open"]
    /\ file' = [file EXCEPT ![k] = f]
    /\ ticket' = ticket \cup {k}
    /\ UNCHANGED <<consent, stored, audio, rec, queueVars, late, req, run, sweep, faults, history>>

TicketExpires(k) ==
    /\ k \in ticket
    /\ ticket' = ticket \ {k}
    /\ UNCHANGED <<consent, store, rec, queueVars, late, req, run, sweep, faults, history>>

-----------------------------------------------------------------------------
(* completeUpload, with the upload id and the parts or with neither. *)
RowsOf(k) == {i \in Recs : KeyOf[i] = k /\ rec[i] # "absent"}

Complete(r, k, multi) ==
    /\ req[r] = Idle
    /\ upload[k] # "none"
    /\ RowsOf(k) = {}
    /\ req' = [req EXCEPT ![r] = [at |-> "consent", key |-> k, multi |-> multi]]
    /\ UNCHANGED <<consent, store, ticket, rec, queueVars, late, run, sweep, faults, history>>

(* A retry finds the row; if it is still processing its jobs are re-ensured. *)
CompleteAgain(r, i) ==
    /\ req[r] = Idle
    /\ rec[i] = "processing"
    /\ req' = [req EXCEPT ![r] = [at |-> "enqueue", job |-> <<i, "transcode">>, retry |-> TRUE]]
    /\ UNCHANGED <<consent, store, ticket, rec, queueVars, late, run, sweep, faults, history>>

(* The request goes on as far as its next call. *)
To(r, at) == req' = [req EXCEPT ![r].at = at]
Ends(r)   == req' = [req EXCEPT ![r] = Idle]

CheckConsent(r) ==
    /\ req[r].at = "consent"
    /\ IF consent
       THEN To(r, IF req[r].multi THEN "ticket" ELSE "stat") /\ UNCHANGED refused
       ELSE To(r, "discard") /\ refused' = refused \cup {req[r].key}
    /\ UNCHANGED <<consent, store, ticket, rec, queueVars, late, run, sweep, faults,
                   cut, unqueued, misread>>

(* The store aborts an upload that is still open, and nothing else; a call    *)
(* that failed is swallowed.                                                 *)
Aborted(k) == IF upload[k] = "open" THEN [upload EXCEPT ![k] = "aborted"] ELSE upload

Discard(r) ==
    /\ req[r].at = "discard"
    /\ IF req[r].multi
       THEN upload' \in {Aborted(req[r].key), upload} /\ UNCHANGED stored
       ELSE stored' \in {stored \ {req[r].key}, stored} /\ UNCHANGED upload
    /\ Ends(r)
    /\ UNCHANGED <<consent, file, audio, ticket, rec, queueVars, late, run, sweep, faults, history>>

LoadTicket(r) ==
    /\ req[r].at = "ticket"
    /\ IF req[r].key \in ticket THEN To(r, "complete") ELSE Ends(r)
    /\ UNCHANGED <<consent, store, ticket, rec, queueVars, late, run, sweep, faults, history>>

(* The store joins the parts of an open upload.  It may take a second call    *)
(* for the first or refuse it, and the answer of one that worked may be lost. *)
CompleteMultipart(r) ==
    LET k == req[r].key IN
    /\ req[r].at = "complete"
    /\ \/ /\ upload[k] = "open"
          /\ upload' = [upload EXCEPT ![k] = "completed"]
          /\ stored' = stored \cup {k}
          /\ \/ To(r, "stat") /\ UNCHANGED cut
             \/ To(r, "abort") /\ cut' = cut \cup {k}
       \/ /\ upload[k] = "completed"
          /\ To(r, "stat")
          /\ UNCHANGED <<upload, stored, cut>>
       \/ To(r, "abort") /\ UNCHANGED <<upload, stored, cut>>
    /\ UNCHANGED <<consent, file, audio, ticket, rec, queueVars, late, run, sweep, faults,
                   refused, unqueued, misread>>

AbortRemoves(r) ==    \* mutant: the object is removed where the upload was to be aborted
    /\ req[r].at = "abort"
    /\ stored' = stored \ {req[r].key}
    /\ Ends(r)
    /\ UNCHANGED <<consent, upload, file, audio, ticket, rec, queueVars, late, run, sweep, faults,
                   history>>

Abort(r) ==
    /\ req[r].at = "abort"
    /\ upload' \in {Aborted(req[r].key), upload}
    /\ Ends(r)
    /\ UNCHANGED <<consent, file, stored, audio, ticket, rec, queueVars, late, run, sweep, faults,
                   history>>

(* stat answers null for a missing object and for any error of the store. *)
Found(k) == k \in stored

Stat(r) ==
    LET k == req[r].key IN
    /\ req[r].at = "stat"
    /\ \/ /\ Found(k)
          /\ To(r, IF file[k] = "huge" THEN "drop" ELSE "insert")
          /\ UNCHANGED cut
       \/ /\ Ends(r)
          /\ cut' = IF k \in stored THEN cut \cup {k} ELSE cut
    /\ UNCHANGED <<consent, store, ticket, rec, queueVars, late, run, sweep, faults,
                   refused, unqueued, misread>>

Undropped(k) == stored    \* mutant: the oversized object is left behind

Dropped(k) == stored \ {k}

Drop(r) ==
    LET k == req[r].key IN
    /\ req[r].at = "drop"
    /\ \/ stored' = Dropped(k) /\ UNCHANGED cut
       \/ cut' = cut \cup {k} /\ UNCHANGED stored
    /\ Ends(r)
    /\ UNCHANGED <<consent, upload, file, audio, ticket, rec, queueVars, late, run, sweep, faults,
                   refused, unqueued, misread>>

ToEnqueue(i) == [at |-> "enqueue", job |-> <<i, "transcode">>, retry |-> FALSE]

Insert(r, i) ==
    /\ req[r].at = "insert"
    /\ rec[i] = "absent" /\ KeyOf[i] = req[r].key
    /\ rec' = [rec EXCEPT ![i] = "processing"]
    /\ req' = [req EXCEPT ![r] = IF req[r].multi THEN [at |-> "delTicket", rec |-> i]
                                 ELSE ToEnqueue(i)]
    /\ UNCHANGED <<consent, store, ticket, queueVars, late, run, sweep, faults, history>>

DelTicket(r) ==
    /\ req[r].at = "delTicket"
    /\ ticket' = ticket \ {KeyOf[req[r].rec]}
    /\ req' = [req EXCEPT ![r] = ToEnqueue(req[r].rec)]
    /\ UNCHANGED <<consent, store, rec, queueVars, late, run, sweep, faults, history>>

(* ensureRecordingJobsEnqueued: the transcode, then the audio. *)
Enqueue(r) ==
    LET i == req[r].job[1] IN
    /\ req[r].at = "enqueue"
    /\ job' = EnsuredJob(req[r].job)
    /\ IF req[r].job[2] = "transcode"
       THEN req' = [req EXCEPT ![r].job = <<i, "audio">>]
       ELSE Ends(r)
    /\ UNCHANGED <<consent, store, ticket, rec, fails, locks, late, run, sweep, faults, history>>

(* It throws, at once or after 5 s, when the promise it raced may go on.  The *)
(* request that inserted the row marks it failed, a retry lets it be.        *)
EnqueueThrows(r) ==
    LET i == req[r].job[1] IN
    /\ req[r].at = "enqueue"
    /\ late' \in {late, late \cup {req[r].job}}
    /\ IF req[r].retry THEN Ends(r) /\ UNCHANGED unqueued
       ELSE /\ req' = [req EXCEPT ![r] = [at |-> "markFailed", rec |-> i]]
            /\ unqueued' = unqueued \cup {i}
    /\ UNCHANGED <<consent, store, ticket, rec, queueVars, run, sweep, faults, cut, refused, misread>>

LateEnqueue(j) ==
    /\ j \in late
    /\ late' = late \ {j}
    /\ job' = EnsuredJob(j)
    /\ UNCHANGED <<consent, store, ticket, rec, fails, locks, req, run, sweep, faults, history>>

(* UPDATE session_recordings SET status = 'failed' WHERE id = ?. *)
MarkFailed(r) ==
    /\ req[r].at = "markFailed"
    /\ rec' = [rec EXCEPT ![req[r].rec] = "failed"]
    /\ Ends(r)
    /\ UNCHANGED <<consent, store, ticket, queueVars, late, run, sweep, faults, history>>

(* The API process dies, or a call that nothing catches throws. *)
RequestDies(r) ==
    /\ req[r] # Idle
    /\ Ends(r)
    /\ cut' = IF req[r].at \in {"stat", "drop", "insert"} THEN cut \cup {req[r].key} ELSE cut
    /\ UNCHANGED <<consent, store, ticket, rec, queueVars, late, run, sweep, faults,
                   refused, unqueued, misread>>

-----------------------------------------------------------------------------
(* Runs of the two jobs. *)
RunTakes(w, j) ==
    /\ run[w] = Idle
    /\ job[j] = "waiting"
    /\ job' = [job EXCEPT ![j] = "active"]
    /\ locks' = locks \cup {w}
    /\ run' = [run EXCEPT ![w] = [at |-> "read", job |-> j]]
    /\ UNCHANGED <<consent, store, ticket, rec, fails, late, req, sweep, faults, history>>

(* processMediaTranscode: stat, download and probe.  An error of stat is      *)
(* taken for a missing object.                                               *)
TranscodeInspects(w) ==
    LET j == run[w].job
        k == KeyOf[j[1]]
        found == IF k \in stored /\ file[k] \in Playable THEN "ready" ELSE "failed"
        Settle(outcome) ==
            run' = [run EXCEPT ![w] = [at |-> "settle", job |-> j, outcome |-> outcome]] IN
    /\ run[w].at = "read" /\ run[w].job[2] = "transcode"
    /\ \/ Settle(found) /\ UNCHANGED <<faults, misread>>
       \/ /\ faults < MaxFaults
          /\ faults' = faults + 1
          /\ Settle("failed")
          /\ misread' = misread \cup {j[1]}
    /\ UNCHANGED <<consent, store, ticket, rec, queueVars, late, req, sweep, cut, refused, unqueued>>

(* The UPDATE at its end, by id alone. *)
TranscodeSettles(w) ==
    /\ run[w].at = "settle"
    /\ rec' = [rec EXCEPT ![run[w].job[1]] = run[w].outcome]
    /\ run' = [run EXCEPT ![w] = [at |-> "done", job |-> run[w].job]]
    /\ UNCHANGED <<consent, store, ticket, queueVars, late, req, sweep, faults, history>>

(* processMediaExtractAudio: nothing to do for a recording that failed. *)
AudioReads(w) ==
    LET j == run[w].job IN
    /\ run[w].at = "read" /\ j[2] = "audio"
    /\ run' = [run EXCEPT ![w].at = IF rec[j[1]] = "failed" THEN "done" ELSE "extract"]
    /\ UNCHANGED <<consent, store, ticket, rec, queueVars, late, req, sweep, faults, history>>

AudioExtracts(w) ==
    LET k == KeyOf[run[w].job[1]] IN
    /\ run[w].at = "extract"
    /\ k \in stored /\ file[k] # "junk"
    /\ audio' = IF file[k] \in Heard THEN audio \cup {k} ELSE audio
    /\ run' = [run EXCEPT ![w].at = "done"]
    /\ UNCHANGED <<consent, upload, file, stored, ticket, rec, queueVars, late, req, sweep, faults,
                   history>>

RunEnds(w) ==
    /\ run[w].at = "done"
    /\ job' = IF w \in locks THEN [job EXCEPT ![run[w].job] = "completed"] ELSE job
    /\ locks' = locks \ {w}
    /\ run' = [run EXCEPT ![w] = Idle]
    /\ UNCHANGED <<consent, store, ticket, rec, fails, late, req, sweep, faults, history>>

(* A run that throws fails its job and counts the attempt. *)
Throws(w) ==
    /\ IF w \in locks
       THEN /\ job' = [job EXCEPT ![run[w].job] = "failed"]
            /\ fails' = [fails EXCEPT ![run[w].job] = @ + 1]
       ELSE UNCHANGED <<job, fails>>
    /\ locks' = locks \ {w}
    /\ run' = [run EXCEPT ![w] = Idle]
    /\ UNCHANGED <<consent, store, ticket, rec, late, req, sweep, history>>

(* No object to extract from, or not media. *)
AudioThrows(w) ==
    LET k == KeyOf[run[w].job[1]] IN
    /\ run[w].at = "extract"
    /\ k \notin stored \/ file[k] = "junk"
    /\ Throws(w)
    /\ UNCHANGED faults

(* The object was removed between the stat of a transcode and its download. *)
TranscodeThrows(w) ==
    /\ run[w].at = "read" /\ run[w].job[2] = "transcode"
    /\ KeyOf[run[w].job[1]] \notin stored
    /\ Throws(w)
    /\ UNCHANGED faults

RunFails(w) ==
    /\ run[w] # Idle
    /\ faults < MaxFaults
    /\ faults' = faults + 1
    /\ Throws(w)

(* The lock lapses: the job is put back while its run may go on. *)
JobStalls(w) ==
    /\ w \in locks
    /\ faults < MaxFaults
    /\ faults' = faults + 1
    /\ job' = [job EXCEPT ![run[w].job] = "waiting"]
    /\ locks' = locks \ {w}
    /\ UNCHANGED <<consent, store, ticket, rec, fails, late, req, run, sweep, history>>

RunVanishes(w) ==
    /\ run[w] # Idle
    /\ w \notin locks
    /\ run' = [run EXCEPT ![w] = Idle]
    /\ UNCHANGED <<consent, store, ticket, rec, queueVars, late, req, sweep, faults, history>>

-----------------------------------------------------------------------------
(* The recordings of the sweep, one after the other; any may be old enough. *)
SweepSelects ==
    /\ sweep = SweepIdle
    /\ \E i \in Recs : rec[i] = "processing"
    /\ sweep' = [at |-> "visit", todo |-> {i \in Recs : rec[i] = "processing"}, cur |-> NoRec]
    /\ UNCHANGED <<consent, store, ticket, rec, queueVars, late, req, run, faults, history>>

NeverExhausted(j) == FALSE              \* mutant: the outcome is ignored
OnceFailed(j) == job[j] = "failed"      \* mutant: a failed job is given up at once

Exhausted(j) == job[j] = "failed" /\ fails[j] >= MaxJobRuns

SweepEnsures(i) ==
    LET j == <<i, "transcode">> IN
    /\ sweep.at = "visit"
    /\ i \in sweep.todo
    /\ job' = EnsuredJob(j)
    /\ sweep' = [at |-> IF Exhausted(j) THEN "settle" ELSE "audio",
                 todo |-> sweep.todo \ {i}, cur |-> i]
    /\ UNCHANGED <<consent, store, ticket, rec, fails, locks, late, req, run, faults, history>>

SweepGoesOn == sweep' = IF sweep.todo = {} THEN SweepIdle
                        ELSE [sweep EXCEPT !.at = "visit", !.cur = NoRec]

SweepSettles ==
    /\ sweep.at = "settle"
    /\ rec' = IF rec[sweep.cur] = "processing" THEN [rec EXCEPT ![sweep.cur] = "failed"] ELSE rec
    /\ SweepGoesOn
    /\ UNCHANGED <<consent, store, ticket, queueVars, late, req, run, faults, history>>

SweepEnsuresAudio ==
    /\ sweep.at = "audio"
    /\ job' = EnsuredJob(<<sweep.cur, "audio">>)
    /\ SweepGoesOn
    /\ UNCHANGED <<consent, store, ticket, rec, fails, locks, late, req, run, faults, history>>

SweepFails ==
    /\ sweep # SweepIdle
    /\ faults < MaxFaults
    /\ faults' = faults + 1
    /\ sweep' = SweepIdle
    /\ UNCHANGED <<consent, store, ticket, rec, queueVars, late, req, run, history>>

-----------------------------------------------------------------------------
RequestStep(r) ==
    \/ \E k \in Keys, multi \in BOOLEAN : Complete(r, k, multi)
    \/ \E i \in Recs : CompleteAgain(r, i) \/ Insert(r, i)
    \/ CheckConsent(r) \/ Discard(r) \/ LoadTicket(r) \/ CompleteMultipart(r) \/ Abort(r)
    \/ Stat(r) \/ Drop(r) \/ DelTicket(r) \/ Enqueue(r) \/ EnqueueThrows(r) \/ MarkFailed(r)
    \/ RequestDies(r)

RunStep(w) ==
    \/ \E j \in Jobs : RunTakes(w, j)
    \/ TranscodeInspects(w) \/ TranscodeSettles(w) \/ TranscodeThrows(w)
    \/ AudioReads(w) \/ AudioExtracts(w) \/ AudioThrows(w) \/ RunEnds(w)

SweepStep ==
    SweepSelects \/ (\E i \in Recs : SweepEnsures(i)) \/ SweepSettles \/ SweepEnsuresAudio

Next ==
    \/ ChangeConsent
    \/ \E k \in Keys : TicketExpires(k) \/ \E f \in Files : StartUpload(k, f)
    \/ \E r \in Requests : RequestStep(r)
    \/ \E j \in Jobs : LateEnqueue(j)
    \/ \E w \in Workers : RunStep(w) \/ RunFails(w) \/ JobStalls(w) \/ RunVanishes(w)
    \/ SweepStep \/ SweepFails

Spec == Init /\ [][Next]_vars

(* The worker consumes its queue and the scheduler fires the sweep; nothing   *)
(* is assumed of clients and API requests.                                   *)
Fairness == WF_vars(\E w \in Workers : RunStep(w)) /\ WF_vars(SweepStep)
FairSpec == Spec /\ Fairness

-----------------------------------------------------------------------------
(* Properties.                                                               *)

(* A recording settles, though its enqueue was lost, its job failed every     *)
(* run, or runs of it overlapped.                                            *)
RecordingSettles == \A i \in Recs : rec[i] = "processing" ~> rec[i] \in {"ready", "failed"}

(* No object stays in the bucket without a row to purge it by, when two       *)
(* completes race each other and a consent that is withdrawn meanwhile: it   *)
(* takes a request that was cut short between the store and the INSERT.      *)
InHand(k) == \E r \in Requests : req[r].at \in {"stat", "drop", "insert"} /\ req[r].key = k

NoOrphan == \A k \in stored : RowsOf(k) # {} \/ InHand(k) \/ k \in cut

(* Whatever a complete that failed cleans up, the object of a recording that  *)
(* another complete of the same upload inserted stays, unless one of them    *)
(* was refused for lack of consent.                                          *)
RowKeepsObject == \A i \in Recs : rec[i] # "absent" => KeyOf[i] \in stored \cup refused

(* Completes that race leave the bucket and the table in step, both ways.      *)
ObjectsMatchRows == NoOrphan /\ RowKeepsObject

(* A playable recording, and with it its session, is not failed while its job *)
(* has runs left: not for runs that stalled, failed or overlapped, for having *)
(* been completed again, enqueued late or swept while it ran, nor for the     *)
(* enqueue of a client's retry.  It takes every run the job may have, a stat  *)
(* that got no answer, the first enqueue, or a refused consent.              *)
GivenUp(i) == fails[<<i, "transcode">>] >= MaxJobRuns

FailsForCause ==
    \A i \in Recs :
        rec[i] = "failed" /\ file[KeyOf[i]] \in Playable =>
            i \in misread \/ GivenUp(i) \/ i \in unqueued \/ KeyOf[i] \in refused
=============================================================================
