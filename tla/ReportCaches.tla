----------------------------- MODULE ReportCaches -----------------------------
(***************************************************************************)
(* The two caches a studio reads through, and what is written under them.   *)
(* "report" is the table test_report_snapshots: a block is served from its  *)
(* row while the row is younger than a TTL, and is computed and upserted    *)
(* otherwise.  "kpi" is the dashboard's key in Redis, which expires by       *)
(* itself.  A write that feeds a cache commits first and drops the entry     *)
(* afterwards, in a call of its own that may fail without failing the write; *)
(* a reader computes first and stores afterwards.                            *)
(* The rating of a session by the studio, which writes the same verdict as  *)
(* the job session.validate, is modelled row by row; the other writes only  *)
(* by the caches they feed.  One test, one organisation, one report block.  *)
(***************************************************************************)
EXTENDS Integers, Sequences

CONSTANTS Sessions,   \* sessions of the test that ended
          Writers,    \* requests and job runs that write, at once
          Readers,    \* GET requests for a report or a dashboard, at once
          NoSession,
          Ttl,        \* REPORT_SNAPSHOT_TTL_SECONDS, DASHBOARD_KPI_CACHE_TTL_SECONDS
          FillTime,   \* bound: from the first query of a block to its store
          MaxClock    \* bound: time

Caches == {"report", "kpi"}

ASSUME TimeAssumption ==
    /\ Ttl \in [Caches -> Nat \ {0}]
    /\ FillTime \in Nat /\ MaxClock \in Nat
ASSUME NoSessionAssumption == NoSession \notin Sessions

VARIABLES
    clock,
    verdict,  \* the row of session_validations
    mark,     \* session_ratings.marked_invalid
    holder,   \* who has the row of session_ratings locked
    entry,    \* the snapshot row, the Redis key
    writer, reader,
    excused   \* history: caches that missed a drop, or were filled by an overtaken reader

rows == <<verdict, mark, holder>>
vars == <<clock, rows, entry, writer, reader, excused>>

Idle  == [at |-> "idle"]
Empty == [ready |-> FALSE]    \* absent, or stored as failed

(* What a payload shows is true still, or was until a write at that time. *)
Still == -1
Truth == Nat \cup {Still}
Entry == {Empty} \cup [ready : {TRUE}, at : Nat, true : Truth]

WriterState ==
    {Idle}
    \cup [at : {"judge"}, s : Sessions]
    \cup [at : {"check", "write"}, s : Sessions, mark : {"marked", "kept"}]
    \cup [at : {"drop"}, todo : {<<"kpi">>, <<"report">>, <<"kpi", "report">>}]
ReaderState ==
    {Idle} \cup [at : {"compute"}, c : Caches]
           \cup [at : {"store"}, c : Caches, since : Nat, true : Truth]

TypeOK ==
    /\ clock \in Nat
    /\ verdict \in [Sessions -> {"none", "valid", "invalid", "studio"}]
    /\ mark \in [Sessions -> {"none", "kept", "marked"}]
    /\ holder \in [Sessions -> Writers \cup {NoSession}]
    /\ entry \in [Caches -> Entry]
    /\ writer \in [Writers -> WriterState]
    /\ reader \in [Readers -> ReaderState]
    /\ excused \in SUBSET Caches

Init ==
    /\ clock = 0
    /\ verdict = [s \in Sessions |-> "none"]
    /\ mark = [s \in Sessions |-> "none"]
    /\ holder = [s \in Sessions |-> NoSession]
    /\ entry = [c \in Caches |-> Empty]
    /\ writer = [w \in Writers |-> Idle]
    /\ reader = [d \in Readers |-> Idle]
    /\ excused = {}

-----------------------------------------------------------------------------
(* Time passes, but no reader is held up between compute and store for more  *)
(* than FillTime.                                                            *)
Tick ==
    /\ clock < MaxClock
    /\ \A d \in Readers : reader[d].at = "store" => clock < reader[d].since + FillTime
    /\ clock' = clock + 1
    /\ UNCHANGED <<rows, entry, writer, reader, excused>>

-----------------------------------------------------------------------------
(* Writers.  A commit that feeds the caches in S leaves what they hold, and    *)
(* what a reader is about to store there, true until now only.               *)
Outdated(p) == IF p.true = Still THEN [p EXCEPT !.true = clock] ELSE p
Entries(S) == [c \in Caches |-> IF c \in S /\ entry[c].ready THEN Outdated(entry[c]) ELSE entry[c]]
Fills(S) == [d \in Readers |-> IF reader[d].at = "store" /\ reader[d].c \in S
                               THEN Outdated(reader[d]) ELSE reader[d]]
Feeds(S) == entry' = Entries(S) /\ reader' = Fills(S)

Drops(w, todo) == writer' = [writer EXCEPT ![w] = [at |-> "drop", todo |-> todo]]

(* join of a test: both caches count participations. *)
JoinTodoKpiOnly == <<"kpi">>    \* mutant: join forgets the report
JoinTodo == <<"kpi", "report">>
Join(w) ==
    /\ writer[w] = Idle
    /\ Feeds(Caches)
    /\ Drops(w, JoinTodo)
    /\ UNCHANGED <<clock, rows, excused>>

(* start, finish and submitFormResponse of a session. *)
SessionWrite(w) ==
    /\ writer[w] = Idle
    /\ Feeds({"report"})
    /\ Drops(w, <<"report">>)
    /\ UNCHANGED <<clock, rows, excused>>

(* A game created or removed, a test created, published or moved on. *)
StudioWrite(w) ==
    /\ writer[w] = Idle
    /\ Feeds({"kpi"})
    /\ Drops(w, <<"kpi">>)
    /\ UNCHANGED <<clock, rows, excused>>

(* What nobody drops a cache for: a profile edited, a session the sweep      *)
(* closed, telemetry; a review of a game.                                    *)
SilentWrite(c) ==
    /\ Feeds({c})
    /\ excused' = excused \cup {c}
    /\ UNCHANGED <<clock, rows, writer>>

(* session.validate: a run that finds no verdict judges, and its INSERT of    *)
(* the verdict decides whether it changes anything.                          *)
RunTakes(w, s) ==
    /\ writer[w] = Idle
    /\ verdict[s] = "none"
    /\ writer' = [writer EXCEPT ![w] = [at |-> "judge", s |-> s]]
    /\ UNCHANGED <<clock, rows, entry, reader, excused>>

RunCommits(w, v) ==
    /\ writer[w].at = "judge"
    /\ LET s == writer[w].s IN
       IF verdict[s] = "none"
       THEN /\ Feeds(Caches)
            /\ verdict' = [verdict EXCEPT ![s] = v]
            /\ Drops(w, <<"kpi", "report">>)
       ELSE /\ writer' = [writer EXCEPT ![w] = Idle]
            /\ UNCHANGED <<verdict, entry, reader>>
    /\ UNCHANGED <<clock, mark, holder, excused>>

-----------------------------------------------------------------------------
(* rateSession, one transaction.  Its upsert of the rating locks the row until *)
(* the end, so two ratings of a session follow each other; the job's INSERT   *)
(* of the verdict does not wait for it.                                      *)
RateUpserts(w, s, m) ==
    /\ writer[w] = Idle
    /\ holder[s] = NoSession
    /\ holder' = [holder EXCEPT ![s] = w]
    /\ writer' = [writer EXCEPT ![w] = [at |-> IF m = "marked" THEN "check" ELSE "write",
                                        s |-> s, mark |-> m]]
    /\ UNCHANGED <<clock, verdict, mark, entry, reader, excused>>

(* Only a validated session can be marked: otherwise 409, and a rollback. *)
MarkableAlways(s) == TRUE    \* mutant: a session is marked before the job judged it
Markable(s) == verdict[s] # "none"
RateChecks(w) ==
    /\ writer[w].at = "check"
    /\ LET s == writer[w].s IN
       IF Markable(s)
       THEN /\ writer' = [writer EXCEPT ![w].at = "write"]
            /\ UNCHANGED holder
       ELSE /\ writer' = [writer EXCEPT ![w] = Idle]
            /\ holder' = [holder EXCEPT ![s] = NoSession]
    /\ UNCHANGED <<clock, verdict, mark, entry, reader, excused>>

(* The verdict after the UPDATE: marking overrides a valid one only, and      *)
(* un-marking takes back only what marking wrote.                            *)
RatedAnyReason(v, m) ==    \* mutant: un-marking does not look at the reason
    CASE m = "marked" /\ v = "valid"              -> "studio"
      [] m = "kept" /\ v \in {"studio", "invalid"} -> "valid"
      [] OTHER                                    -> v
Rated(v, m) ==
    CASE m = "marked" /\ v = "valid" -> "studio"
      [] m = "kept" /\ v = "studio"  -> "valid"
      [] OTHER                       -> v

(* The UPDATE, the DELETE of the snapshots and the COMMIT; the dashboard's    *)
(* key is dropped after it.                                                  *)
RateCommits(w) ==
    /\ writer[w].at = "write"
    /\ LET s == writer[w].s IN
       /\ verdict' = [verdict EXCEPT ![s] = Rated(@, writer[w].mark)]
       /\ mark' = [mark EXCEPT ![s] = writer[w].mark]
       /\ holder' = [holder EXCEPT ![s] = NoSession]
    /\ entry' = [Entries(Caches) EXCEPT !["report"] = Empty]
    /\ reader' = Fills(Caches)
    /\ excused' = excused \ {"report"}
    /\ Drops(w, <<"kpi">>)
    /\ UNCHANGED clock

-----------------------------------------------------------------------------
(* The entries a committed write still has to drop.  A failed drop is only    *)
(* logged; the writer goes on to the next.                                   *)
Left(w) == IF writer[w].at = "drop" THEN {writer[w].todo[i] : i \in DOMAIN writer[w].todo} ELSE {}
Next1(w) == IF Len(writer[w].todo) = 1 THEN Idle
            ELSE [writer[w] EXCEPT !.todo = Tail(@)]

Drop(w) ==
    /\ writer[w].at = "drop"
    /\ LET c == Head(writer[w].todo) IN
       /\ entry' = [entry EXCEPT ![c] = Empty]
       /\ excused' = excused \ {c}
    /\ writer' = [writer EXCEPT ![w] = Next1(w)]
    /\ UNCHANGED <<clock, rows, reader>>

DropFails(w) ==
    /\ writer[w].at = "drop"
    /\ excused' = excused \cup {Head(writer[w].todo)}
    /\ writer' = [writer EXCEPT ![w] = Next1(w)]
    /\ UNCHANGED <<clock, rows, entry, reader>>

(* An exception, or the death of the process.  A run that dies after its       *)
(* commit is not made up for: the retry finds the verdict and returns.       *)
WriterDies(w) ==
    /\ writer[w] # Idle
    /\ excused' = excused \cup Left(w)
    /\ holder' = [s \in Sessions |-> IF holder[s] = w THEN NoSession ELSE holder[s]]
    /\ writer' = [writer EXCEPT ![w] = Idle]
    /\ UNCHANGED <<clock, verdict, mark, entry, reader>>

-----------------------------------------------------------------------------
(* Readers. *)
FreshAnyAge(c) == entry[c].ready    \* mutant: the age of a snapshot is not looked at
Fresh(c) == entry[c].ready /\ clock - entry[c].at < Ttl[c]

(* A fresh entry is served and nothing changes, so only the miss is a step;   *)
(* Redis failing to answer is a miss too.                                    *)
Miss(d, c) ==
    /\ reader[d] = Idle
    /\ ~Fresh(c) \/ c = "kpi"
    /\ reader' = [reader EXCEPT ![d] = [at |-> "compute", c |-> c]]
    /\ UNCHANGED <<clock, rows, entry, writer, excused>>

(* The first query: a payload is no newer than the oldest of its queries. *)
Compute(d) ==
    /\ reader[d].at = "compute"
    /\ reader' = [reader EXCEPT ![d] = [at |-> "store", c |-> reader[d].c,
                                        since |-> clock, true |-> Still]]
    /\ UNCHANGED <<clock, rows, entry, writer, excused>>

Stored(d) == [ready |-> TRUE, at |-> clock, true |-> reader[d].true]

Store(d) ==
    /\ reader[d].at = "store"
    /\ LET c == reader[d].c IN
       /\ entry' = [entry EXCEPT ![c] = Stored(d)]
       /\ excused' = IF reader[d].true = Still THEN excused \ {c} ELSE excused \cup {c}
    /\ reader' = [reader EXCEPT ![d] = Idle]
    /\ UNCHANGED <<clock, rows, writer>>

(* A query or the upsert failed: the block is stored as failed, which no       *)
(* reader is served and which is computed again like an absent one.          *)
FillFails(d) ==
    /\ reader[d] # Idle /\ reader[d].c = "report"
    /\ entry' = [entry EXCEPT !["report"] = Empty]
    /\ excused' = excused \ {"report"}
    /\ reader' = [reader EXCEPT ![d] = Idle]
    /\ UNCHANGED <<clock, rows, writer>>

(* Nothing was stored: a block without a source is unavailable and not        *)
(* cached, a KPI could not be computed, Redis or the second upsert failed,    *)
(* or the reader died.                                                       *)
ReaderLeaves(d) ==
    /\ reader[d] # Idle
    /\ reader' = [reader EXCEPT ![d] = Idle]
    /\ UNCHANGED <<clock, rows, entry, writer, excused>>

-----------------------------------------------------------------------------
Next ==
    \/ Tick
    \/ \E w \in Writers :
          \/ Join(w) \/ SessionWrite(w) \/ StudioWrite(w)
          \/ \E s \in Sessions :
                RunTakes(w, s) \/ \E m \in {"marked", "kept"} : RateUpserts(w, s, m)
          \/ \E v \in {"valid", "invalid"} : RunCommits(w, v)
          \/ RateChecks(w) \/ RateCommits(w)
          \/ Drop(w) \/ DropFails(w) \/ WriterDies(w)
    \/ \E c \in Caches : SilentWrite(c)
    \/ \E d \in Readers :
          \/ \E c \in Caches : Miss(d, c)
          \/ Compute(d) \/ Store(d) \/ FillFails(d) \/ ReaderLeaves(d)

Spec == Init /\ [][Next]_vars

-----------------------------------------------------------------------------
(* What a cache can serve was true at some moment of the last TTL and FillTime, *)
(* however many deletes failed, writers died or fills were overtaken: the     *)
(* promise of report-snapshot-cache.ts and dashboard-kpi-cache.ts that "the   *)
(* TTL still bounds staleness".  An entry is stamped when it is stored, not   *)
(* when it was computed, hence the second term.                              *)
StalenessBounded ==
    \A c \in Caches :
        Fresh(c) => entry[c].true = Still \/ entry[c].true >= clock - (Ttl[c] + FillTime)

(* An entry behind the tables has one of three causes: a write whose drop is  *)
(* still to come, one that was never dropped for (it failed, its process died, *)
(* or nobody drops for it), or a fill that was overtaken by a write.  Every   *)
(* writer thus drops every cache it feeds, and drops it after its commit.    *)
Pending(c) == \E w \in Writers : c \in Left(w)
StaleForCause ==
    \A c \in Caches :
        entry[c].ready /\ entry[c].true # Still => c \in excused \/ Pending(c)

(* A session marked invalid by the studio does not count as valid, and only   *)
(* one so marked carries the studio's reason, whichever of the job and the    *)
(* ratings wrote last (rateSession "keeps session_validations in step").     *)
RatingAgrees ==
    \A s \in Sessions :
        /\ mark[s] = "marked" => verdict[s] \in {"invalid", "studio"}
        /\ verdict[s] = "studio" => mark[s] = "marked"

(* A session the worker rejected stays rejected: "un-marking can never turn   *)
(* it valid", and a verdict once given is never taken away.                  *)
RejectionStays ==
    [][\A s \in Sessions :
          /\ verdict[s] = "invalid" => verdict'[s] = "invalid"
          /\ verdict[s] # "none" => verdict'[s] # "none"]_vars
=============================================================================
