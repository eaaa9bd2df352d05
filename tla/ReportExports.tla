---------------------------- MODULE ReportExports ----------------------------
(***************************************************************************)
(* The export of a report: a request inserts a row in processing and queues *)
(* report.export for it; a worker renders the file, uploads it and settles   *)
(* the row.  The insert and the enqueue share no transaction, an enqueue     *)
(* that timed out may still land, and BullMQ may deliver a job twice.  Each  *)
(* request inserts a row of its own, so a row has one request and one job.   *)
(***************************************************************************)
EXTENDS Naturals

CONSTANTS Exports,     \* ids of test_report_exports rows
          Workers,
          MaxFaults    \* bound: runs that fail, stall or die

VARIABLES
    exp,      \* status of the row
    req,      \* the request that inserts it
    object,   \* rows whose file is in the storage
    job, locks,
    late,     \* enqueues that timed out and may still land
    run,
    dropped,  \* history: rows whose request died, or whose job cannot settle them
    faults

vars == <<exp, req, object, job, locks, late, run, dropped, faults>>

Idle == [at |-> "idle"]

TypeOK ==
    /\ exp \in [Exports -> {"absent", "processing", "ready", "failed"}]
    /\ req \in [Exports -> {"none", "enqueue", "mark", "done", "dead"}]
    /\ object \in SUBSET Exports
    /\ job \in [Exports -> {"none", "waiting", "active", "completed", "failed"}]
    /\ locks \in SUBSET Workers
    /\ late \in SUBSET Exports
    /\ run \in [Workers -> {Idle} \cup [at : {"look", "upload", "settle", "catch", "done", "throw"},
                                        e : Exports]]
    /\ dropped \in SUBSET Exports
    /\ faults \in 0..MaxFaults

Init ==
    /\ exp = [e \in Exports |-> "absent"]
    /\ req = [e \in Exports |-> "none"]
    /\ object = {}
    /\ job = [e \in Exports |-> "none"]
    /\ locks = {}
    /\ late = {}
    /\ run = [w \in Workers |-> Idle]
    /\ dropped = {}
    /\ faults = 0

-----------------------------------------------------------------------------
(* requestExport: INSERT, ensureEnqueued, and markExportFailed if that threw. *)
Request(e) ==
    /\ exp[e] = "absent"
    /\ exp' = [exp EXCEPT ![e] = "processing"]
    /\ req' = [req EXCEPT ![e] = "enqueue"]
    /\ UNCHANGED <<object, job, locks, late, run, dropped, faults>>

(* A new id has no job yet. *)
Enqueue(e) ==
    /\ req[e] = "enqueue"
    /\ job' = [job EXCEPT ![e] = "waiting"]
    /\ req' = [req EXCEPT ![e] = "done"]
    /\ UNCHANGED <<exp, object, locks, late, run, dropped, faults>>

(* Redis refuses, or the 5 s of withTimeout run out and the add goes on. *)
EnqueueThrows(e) ==
    /\ req[e] = "enqueue"
    /\ req' = [req EXCEPT ![e] = "mark"]
    /\ late' \in {late, late \cup {e}}
    /\ UNCHANGED <<exp, object, job, locks, run, dropped, faults>>

LateEnqueue(e) ==
    /\ e \in late
    /\ late' = late \ {e}
    /\ job' \in {[job EXCEPT ![e] = "waiting"], job}
    /\ UNCHANGED <<exp, req, object, locks, run, dropped, faults>>

(* By id alone: also when the job that landed late has made the file. *)
MarkFailed(e) ==
    /\ req[e] = "mark"
    /\ exp' = [exp EXCEPT ![e] = "failed"]
    /\ req' = [req EXCEPT ![e] = "done"]
    /\ UNCHANGED <<object, job, locks, late, run, dropped, faults>>

RequestDies(e) ==
    /\ req[e] \in {"enqueue", "mark"}
    /\ req' = [req EXCEPT ![e] = "dead"]
    /\ dropped' = dropped \cup {e}
    /\ UNCHANGED <<exp, object, job, locks, late, run, faults>>

-----------------------------------------------------------------------------
(* processReportExport.                                                      *)
RunTakes(w, e) ==
    /\ run[w] = Idle
    /\ job[e] = "waiting"
    /\ job' = [job EXCEPT ![e] = "active"]
    /\ locks' = locks \cup {w}
    /\ run' = [run EXCEPT ![w] = [at |-> "look", e |-> e]]
    /\ UNCHANGED <<exp, req, object, late, dropped, faults>>

To(w, step) == run' = [run EXCEPT ![w].at = step]

(* An export that is settled is left alone. *)
RunLooks(w) ==
    /\ run[w].at = "look"
    /\ To(w, IF exp[run[w].e] = "processing" THEN "upload" ELSE "done")
    /\ UNCHANGED <<exp, req, object, job, locks, late, dropped, faults>>

RunUploads(w) ==
    /\ run[w].at = "upload"
    /\ object' = object \cup {run[w].e}
    /\ To(w, "settle")
    /\ UNCHANGED <<exp, req, job, locks, late, dropped, faults>>

(* Both UPDATEs have WHERE status = 'processing'. *)
SettledAnyStatus(e, outcome) == [exp EXCEPT ![e] = outcome]    \* mutant: WHERE id only
Settled(e, outcome) ==
    IF exp[e] = "processing" THEN [exp EXCEPT ![e] = outcome] ELSE exp

RunSettles(w) ==
    /\ run[w].at = "settle"
    /\ exp' = Settled(run[w].e, "ready")
    /\ To(w, "done")
    /\ UNCHANGED <<req, object, job, locks, late, dropped, faults>>

(* A query, the rendering or the upload throws. *)
CaughtNever(w) == "throw"    \* mutant: no catch
Caught(w) == IF run[w].at = "look" THEN "throw" ELSE "catch"
RunThrows(w) ==
    /\ faults < MaxFaults
    /\ faults' = faults + 1
    /\ run[w].at \in {"look", "upload", "settle"}
    /\ To(w, Caught(w))
    /\ dropped' = IF run[w].at = "look" THEN dropped \cup {run[w].e} ELSE dropped
    /\ UNCHANGED <<exp, req, object, job, locks, late>>

RunMarksFailed(w) ==
    /\ run[w].at = "catch"
    /\ exp' = Settled(run[w].e, "failed")
    /\ To(w, "throw")
    /\ UNCHANGED <<req, object, job, locks, late, dropped, faults>>

(* The UPDATE of the catch throws too. *)
CatchThrows(w) ==
    /\ faults < MaxFaults
    /\ faults' = faults + 1
    /\ run[w].at = "catch"
    /\ To(w, "throw")
    /\ dropped' = dropped \cup {run[w].e}
    /\ UNCHANGED <<exp, req, object, job, locks, late>>

(* What BullMQ makes of it: only the holder of the lock moves the job, and     *)
(* nothing retries a failed one.                                             *)
RunEnds(w) ==
    /\ run[w].at \in {"done", "throw"}
    /\ job' = IF w \in locks
              THEN [job EXCEPT ![run[w].e] = IF run[w].at = "done" THEN "completed" ELSE "failed"]
              ELSE job
    /\ locks' = locks \ {w}
    /\ run' = [run EXCEPT ![w] = Idle]
    /\ UNCHANGED <<exp, req, object, late, dropped, faults>>

(* The lock of a run lapsed, whether it goes on or its process died: the job   *)
(* is delivered again, or failed when it stalled before.                     *)
JobStalls(w) ==
    /\ faults < MaxFaults
    /\ faults' = faults + 1
    /\ w \in locks
    /\ locks' = locks \ {w}
    /\ \/ /\ job' = [job EXCEPT ![run[w].e] = "waiting"]
          /\ UNCHANGED dropped
       \/ /\ job' = [job EXCEPT ![run[w].e] = "failed"]
          /\ dropped' = dropped \cup {run[w].e}
    /\ run' \in {run, [run EXCEPT ![w] = Idle]}
    /\ UNCHANGED <<exp, req, object, late>>

-----------------------------------------------------------------------------
Next ==
    \/ \E e \in Exports :
          \/ Request(e) \/ Enqueue(e) \/ EnqueueThrows(e) \/ LateEnqueue(e)
          \/ MarkFailed(e) \/ RequestDies(e)
          \/ \E w \in Workers : RunTakes(w, e)
    \/ \E w \in Workers :
          \/ RunLooks(w) \/ RunUploads(w) \/ RunSettles(w) \/ RunThrows(w)
          \/ RunMarksFailed(w) \/ CatchThrows(w) \/ RunEnds(w) \/ JobStalls(w)

Spec == Init /\ [][Next]_vars

-----------------------------------------------------------------------------
(* A settled export is settled for good: a redelivered or late run neither     *)
(* revives a failed one nor fails a ready one ("BullMQ can redeliver a job,   *)
(* so an export that is already ready/failed is left alone").  Only the       *)
(* request whose enqueue timed out may overrule the worker.                  *)
SettlesOnce ==
    [][\A e \in Exports :
          exp[e] \in {"ready", "failed"} /\ exp'[e] # exp[e] =>
              exp'[e] = "failed" /\ req[e] = "mark" /\ req'[e] = "done"]_vars

(* A ready export has its file, and one still in processing has a request or   *)
(* a job that will settle it, unless its request died or its job was lost:    *)
(* what is left of "never left processing forever", since no sweep looks at   *)
(* exports.                                                                  *)
Attended(e) ==
    \/ req[e] \in {"enqueue", "mark"} \/ job[e] = "waiting" \/ e \in dropped
    \/ \E w \in Workers : run[w] # Idle /\ run[w].e = e /\ run[w].at # "throw"
ExportsComeOut ==
    \A e \in Exports :
        /\ exp[e] = "ready" => e \in object
        /\ exp[e] = "processing" => Attended(e)
=============================================================================
