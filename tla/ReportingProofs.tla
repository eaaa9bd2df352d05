---------------------------- MODULE ReportingProofs ----------------------------
(* Proofs about what a studio reads, for any number of sessions, writers,       *)
(* readers, tests, players, answers and rows.                                *)
(*   ReportCaches: for any TTLs and any time a fill may take, how old what a   *)
(* cache serves can be, why it is behind the tables when it is, and that the   *)
(* studio's ratings and the worker's verdicts agree whichever came last.       *)
(*   ListPages: a client that pages through a list misses and repeats nothing. *)
(*   ReportMetrics: the blocks of a report, the cards of games and the Home     *)
(* add up.  Total is a fold; SumIs and CountedByLabel say what it comes to,    *)
(* by a smallest set that would be a counterexample.                         *)
EXTENDS Reporting, FiniteSetTheorems, WellFoundedInduction, TLAPS

(* A payload is stamped when it is stored; it was computed at most FillTime     *)
(* before that, and nothing is stamped in the future.                        *)
EntriesAreDated ==
    \A c \in Caches : entry[c].ready =>
        /\ entry[c].at <= clock
        /\ entry[c].true = Still \/ entry[c].true >= entry[c].at - FillTime
FillsAreDated ==
    \A d \in Readers : reader[d].at = "store" =>
        /\ reader[d].since <= clock /\ clock <= reader[d].since + FillTime
        /\ reader[d].true = Still \/ reader[d].true >= reader[d].since

(* Who is about to mark a session found it judged, and it stays so. *)
MarkedWereJudged ==
    \A w \in Writers :
        writer[w].at = "write" /\ writer[w].mark = "marked" => verdict[writer[w].s] # "none"

DatesInv == TypeOK /\ EntriesAreDated /\ FillsAreDated
CauseInv == TypeOK /\ StaleForCause
RatingInv == TypeOK /\ MarkedWereJudged /\ RatingAgrees

(* Only an entry that was stored is ready. *)
LEMMA Stocked ==
    ASSUME TypeOK, NEW c \in Caches, entry[c].ready
    PROVE  entry[c] \in [ready : {TRUE}, at : Nat, true : Truth]
<1>1. entry[c] \in {Empty} \cup [ready : {TRUE}, at : Nat, true : Truth]
  BY DEF TypeOK, Entry
<1>2. ~Empty.ready
  BY DEF Empty
<1>3. entry[c] # Empty
  BY <1>2, Zenon
<1> QED
  BY <1>1, <1>3

(* What a writer and a reader carry along, by where they are. *)
LEMMA Carried ==
    ASSUME TypeOK
    PROVE  /\ \A w \in Writers :
                 /\ writer[w].at = "judge" => writer[w].s \in Sessions
                 /\ writer[w].at \in {"check", "write"} =>
                       writer[w].s \in Sessions /\ writer[w].mark \in {"marked", "kept"}
                 /\ writer[w].at = "drop" =>
                       writer[w].todo \in {<<"kpi">>, <<"report">>, <<"kpi", "report">>}
           /\ \A d \in Readers :
                 /\ reader[d].at \in {"compute", "store"} => reader[d].c \in Caches
                 /\ reader[d].at = "store" => reader[d].since \in Nat /\ reader[d].true \in Truth
                 /\ reader[d] # Idle => reader[d].at \in {"compute", "store"}
           /\ \A c \in Caches : entry[c].ready => entry[c].at \in Nat /\ entry[c].true \in Truth
<1>1. ASSUME NEW w \in Writers
      PROVE  /\ writer[w].at = "judge" => writer[w].s \in Sessions
             /\ writer[w].at \in {"check", "write"} =>
                   writer[w].s \in Sessions /\ writer[w].mark \in {"marked", "kept"}
             /\ writer[w].at = "drop" =>
                   writer[w].todo \in {<<"kpi">>, <<"report">>, <<"kpi", "report">>}
  <2>1. writer[w] \in WriterState
    BY <1>1 DEF TypeOK
  <2> QED
    BY <2>1 DEF WriterState, Idle
<1>2. ASSUME NEW d \in Readers
      PROVE  /\ reader[d].at \in {"compute", "store"} => reader[d].c \in Caches
             /\ reader[d].at = "store" => reader[d].since \in Nat /\ reader[d].true \in Truth
             /\ reader[d] # Idle => reader[d].at \in {"compute", "store"}
  <2>1. reader[d] \in ReaderState
    BY <1>2 DEF TypeOK
  <2> QED
    BY <2>1 DEF ReaderState, Idle
<1>3. ASSUME NEW c \in Caches, entry[c].ready
      PROVE  entry[c].at \in Nat /\ entry[c].true \in Truth
  <2>1. entry[c] \in [ready : {TRUE}, at : Nat, true : Truth]
    BY <1>3, Stocked
  <2> QED
    BY <2>1
<1> QED
  BY <1>1, <1>2, <1>3

(* A commit leaves the entries and the fills it overtakes true until now. *)
LEMMA FedTypes ==
    ASSUME TypeOK, NEW S
    PROVE  /\ Entries(S) \in [Caches -> Entry]
           /\ Fills(S) \in [Readers -> ReaderState]
<1>1. ASSUME NEW c \in Caches
      PROVE  (IF c \in S /\ entry[c].ready THEN Outdated(entry[c]) ELSE entry[c]) \in Entry
  <2>1. entry[c] \in Entry /\ clock \in Nat
    BY <1>1 DEF TypeOK
  <2>2. CASE entry[c].ready
    <3>1. entry[c] \in [ready : {TRUE}, at : Nat, true : Truth]
      BY <1>1, <2>2, Stocked
    <3>2. [entry[c] EXCEPT !.true = clock] \in [ready : {TRUE}, at : Nat, true : Truth]
      BY <2>1, <3>1 DEF Truth
    <3> QED
      BY <2>1, <3>1, <3>2 DEF Outdated, Entry
  <2>3. CASE ~entry[c].ready
    BY <2>1, <2>3
  <2> QED
    BY <2>2, <2>3
<1>2. ASSUME NEW d \in Readers
      PROVE  (IF reader[d].at = "store" /\ reader[d].c \in S
              THEN Outdated(reader[d]) ELSE reader[d]) \in ReaderState
  <2>1. reader[d] \in ReaderState /\ clock \in Nat
    BY <1>2 DEF TypeOK
  <2>2. CASE reader[d].at = "store"
    <3>1. reader[d] \in [at : {"store"}, c : Caches, since : Nat, true : Truth]
      BY <2>1, <2>2 DEF ReaderState, Idle
    <3>2. [reader[d] EXCEPT !.true = clock]
             \in [at : {"store"}, c : Caches, since : Nat, true : Truth]
      BY <2>1, <3>1 DEF Truth
    <3> QED
      BY <2>1, <3>1, <3>2 DEF Outdated, ReaderState
  <2>3. CASE reader[d].at # "store"
    BY <2>1, <2>3
  <2> QED
    BY <2>2, <2>3
<1> QED
  BY <1>1, <1>2 DEF Entries, Fills

(* The next entry to drop, and what is left after it. *)
LEMMA DropsOne ==
    ASSUME TypeOK, NEW w \in Writers, writer[w].at = "drop"
    PROVE  /\ Head(writer[w].todo) \in Caches
           /\ Next1(w) \in WriterState
           /\ Next1(w).at \in {"idle", "drop"}
           /\ Left(w) \subseteq Caches
           /\ \/ Next1(w) = Idle /\ Left(w) = {Head(writer[w].todo)}
              \/ /\ Next1(w) = [writer[w] EXCEPT !.todo = <<"report">>]
                 /\ Left(w) = {"kpi", "report"} /\ Head(writer[w].todo) = "kpi"
<1> DEFINE todo == writer[w].todo
<1>1. todo \in {<<"kpi">>, <<"report">>, <<"kpi", "report">>}
  BY Carried
<1>2. writer[w] \in [at : {"drop"}, todo : {<<"kpi">>, <<"report">>, <<"kpi", "report">>}]
  BY DEF TypeOK, WriterState, Idle
<1>3. Left(w) = {todo[i] : i \in DOMAIN todo}
  BY DEF Left
<1>4. CASE Len(todo) = 1
  <2>1. todo = <<Head(todo)>> /\ Head(todo) \in Caches
    BY <1>1, <1>4 DEF Caches
  <2>2. Left(w) = {Head(todo)}
    BY <1>3, <2>1
  <2>3. Next1(w) = Idle
    BY <1>4 DEF Next1
  <2> QED
    BY <2>1, <2>2, <2>3 DEF WriterState, Idle
<1>5. CASE Len(todo) # 1
  <2>1. todo = <<"kpi", "report">>
    BY <1>1, <1>5
  <2>2. Head(todo) = "kpi" /\ Tail(todo) = <<"report">>
    BY <2>1
  <2>3. Left(w) = {"kpi", "report"}
    <3>1. DOMAIN todo = {1, 2}
      BY <2>1
    <3> QED
      BY <1>3, <2>1, <3>1
  <2>4. Next1(w) = [writer[w] EXCEPT !.todo = <<"report">>]
    BY <1>5, <2>2 DEF Next1
  <2>5. Next1(w) \in [at : {"drop"}, todo : {<<"kpi">>, <<"report">>, <<"kpi", "report">>}]
    BY <1>2, <2>4
  <2> QED
    BY <2>2, <2>3, <2>4, <2>5 DEF WriterState, Caches
<1> QED
  BY <1>4, <1>5
(* Every step keeps the types. *)
LEMMA TypeInit == Init => TypeOK
<1> SUFFICES ASSUME Init PROVE TypeOK
  OBVIOUS
<1> QED
  BY DEF Init, TypeOK, Entry, WriterState, ReaderState

LEMMA TypeStep == TypeOK /\ [Next]_vars => TypeOK'
<1> SUFFICES ASSUME TypeOK, [Next]_vars PROVE TypeOK'
  OBVIOUS
<1> USE DEF rows
<1>1. CASE Tick
  BY <1>1 DEF Tick, TypeOK
<1>2. ASSUME NEW w \in Writers, Join(w) PROVE TypeOK'
  BY <1>2, FedTypes DEF Join, Feeds, Drops, JoinTodo, TypeOK, WriterState
<1>3. ASSUME NEW w \in Writers, SessionWrite(w) PROVE TypeOK'
  BY <1>3, FedTypes DEF SessionWrite, Feeds, Drops, TypeOK, WriterState
<1>4. ASSUME NEW w \in Writers, StudioWrite(w) PROVE TypeOK'
  BY <1>4, FedTypes DEF StudioWrite, Feeds, Drops, TypeOK, WriterState
<1>5. ASSUME NEW c \in Caches, SilentWrite(c) PROVE TypeOK'
  BY <1>5, FedTypes DEF SilentWrite, Feeds, TypeOK
<1>6. ASSUME NEW w \in Writers, NEW s \in Sessions, RunTakes(w, s) PROVE TypeOK'
  BY <1>6 DEF RunTakes, TypeOK, WriterState
<1>7. ASSUME NEW w \in Writers, NEW v \in {"valid", "invalid"}, RunCommits(w, v) PROVE TypeOK'
  <2>1. writer[w].s \in Sessions
    BY <1>7, Carried DEF RunCommits
  <2>2. CASE verdict[writer[w].s] = "none"
    <3>1. writer' \in [Writers -> WriterState]
      BY <1>7, <2>2 DEF RunCommits, Drops, TypeOK, WriterState
    <3> QED
      BY <1>7, <2>1, <2>2, <3>1, FedTypes DEF RunCommits, Feeds, TypeOK
  <2>3. CASE verdict[writer[w].s] # "none"
    BY <1>7, <2>3 DEF RunCommits, TypeOK, WriterState
  <2> QED
    BY <2>2, <2>3
<1>8. ASSUME NEW w \in Writers, NEW s \in Sessions, NEW m \in {"marked", "kept"}, RateUpserts(w, s, m)
      PROVE  TypeOK'
  BY <1>8 DEF RateUpserts, TypeOK, WriterState
<1>9. ASSUME NEW w \in Writers, RateChecks(w) PROVE TypeOK'
  <2>1. writer[w] \in [at : {"check", "write"}, s : Sessions, mark : {"marked", "kept"}]
    BY <1>9 DEF RateChecks, TypeOK, WriterState, Idle
  <2>2. [writer[w] EXCEPT !.at = "write"]
           \in [at : {"check", "write"}, s : Sessions, mark : {"marked", "kept"}]
    BY <2>1
  <2>3. writer' = [writer EXCEPT ![w].at = "write"] \/ writer' = [writer EXCEPT ![w] = Idle]
    BY <1>9 DEF RateChecks
  <2>4. writer' \in [Writers -> WriterState]
    BY <2>2, <2>3 DEF TypeOK, WriterState
  <2>5. holder' \in [Sessions -> Writers \cup {NoSession}]
    BY <1>9 DEF RateChecks, TypeOK
  <2> QED
    BY <1>9, <2>4, <2>5 DEF RateChecks, TypeOK
<1>10. ASSUME NEW w \in Writers, RateCommits(w) PROVE TypeOK'
  <2>1. writer[w].s \in Sessions /\ writer[w].mark \in {"marked", "kept"}
    BY <1>10, Carried DEF RateCommits
  <2>2. verdict' \in [Sessions -> {"none", "valid", "invalid", "studio"}]
    BY <1>10, <2>1 DEF RateCommits, Rated, TypeOK
  <2>3. entry' \in [Caches -> Entry]
    BY <1>10, FedTypes DEF RateCommits, Entry
  <2>4. writer' \in [Writers -> WriterState]
    BY <1>10 DEF RateCommits, Drops, TypeOK, WriterState
  <2> QED
    BY <1>10, <2>1, <2>2, <2>3, <2>4, FedTypes DEF RateCommits, TypeOK
<1>11. ASSUME NEW w \in Writers, Drop(w) \/ DropFails(w) PROVE TypeOK'
  <2>1. Head(writer[w].todo) \in Caches /\ Next1(w) \in WriterState
    BY <1>11, DropsOne DEF Drop, DropFails
  <2> QED
    BY <1>11, <2>1 DEF Drop, DropFails, TypeOK, Entry
<1>12. ASSUME NEW w \in Writers, WriterDies(w) PROVE TypeOK'
  <2>1. Left(w) \subseteq Caches
    BY DropsOne DEF Left
  <2>2. holder' \in [Sessions -> Writers \cup {NoSession}]
    BY <1>12 DEF WriterDies, TypeOK
  <2>3. writer' \in [Writers -> WriterState]
    BY <1>12 DEF WriterDies, TypeOK, WriterState
  <2> QED
    BY <1>12, <2>1, <2>2, <2>3 DEF WriterDies, TypeOK
<1>13. ASSUME NEW d \in Readers, NEW c \in Caches, Miss(d, c) PROVE TypeOK'
  BY <1>13 DEF Miss, TypeOK, ReaderState
<1>14. ASSUME NEW d \in Readers, Compute(d) PROVE TypeOK'
  BY <1>14, Carried DEF Compute, TypeOK, ReaderState, Truth
<1>15. ASSUME NEW d \in Readers, Store(d) PROVE TypeOK'
  <2>1. reader[d].c \in Caches /\ reader[d].true \in Truth
    BY <1>15, Carried DEF Store
  <2>2. Stored(d) \in Entry
    BY <2>1 DEF Stored, Entry, TypeOK
  <2> QED
    BY <1>15, <2>1, <2>2 DEF Store, TypeOK, ReaderState
<1>16. ASSUME NEW d \in Readers, FillFails(d) \/ ReaderLeaves(d) PROVE TypeOK'
  <2>1. /\ entry' = entry \/ entry' = [entry EXCEPT !["report"] = Empty]
        /\ excused' = excused \/ excused' = excused \ {"report"}
        /\ reader' = [reader EXCEPT ![d] = Idle]
        /\ UNCHANGED <<clock, verdict, mark, holder, writer>>
    BY <1>16 DEF FillFails, ReaderLeaves
  <2>2. entry' \in [Caches -> Entry]
    BY <2>1 DEF TypeOK, Entry
  <2>3. reader' \in [Readers -> ReaderState]
    BY <2>1 DEF TypeOK, ReaderState
  <2> QED
    BY <2>1, <2>2, <2>3 DEF TypeOK
<1>17. CASE UNCHANGED vars
  BY <1>17 DEF vars, TypeOK
<1> QED
  BY <1>1, <1>2, <1>3, <1>4, <1>5, <1>6, <1>7, <1>8, <1>9, <1>10, <1>11, <1>12, <1>13,
     <1>14, <1>15, <1>16, <1>17 DEF Next
-----------------------------------------------------------------------------
(* What a commit does to the dates: what was true until a time before it is so  *)
(* still, and the rest was true until now.                                   *)
LEMMA FedDates ==
    ASSUME TypeOK, NEW S
    PROVE  /\ \A c \in Caches :
                 /\ Entries(S)[c].ready <=> entry[c].ready
                 /\ entry[c].ready =>
                       /\ Entries(S)[c].at = entry[c].at
                       /\ Entries(S)[c].true = IF c \in S /\ entry[c].true = Still
                                               THEN clock ELSE entry[c].true
           /\ \A d \in Readers :
                 /\ Fills(S)[d].at = reader[d].at
                 /\ reader[d].at = "store" =>
                       /\ Fills(S)[d].since = reader[d].since
                       /\ Fills(S)[d].true \in {clock, reader[d].true}
<1>1. ASSUME NEW c \in Caches
      PROVE  /\ Entries(S)[c].ready <=> entry[c].ready
             /\ entry[c].ready =>
                   /\ Entries(S)[c].at = entry[c].at
                   /\ Entries(S)[c].true = IF c \in S /\ entry[c].true = Still
                                           THEN clock ELSE entry[c].true
  <2>1. Entries(S)[c] = IF c \in S /\ entry[c].ready THEN Outdated(entry[c]) ELSE entry[c]
    BY DEF Entries
  <2>2. CASE ~entry[c].ready
    BY <2>1, <2>2, Zenon
  <2>3. CASE entry[c].ready
    <3>1. entry[c] \in [ready : {TRUE}, at : Nat, true : Truth]
      BY <2>3, Stocked
    <3>2. Entries(S)[c] = IF c \in S THEN Outdated(entry[c]) ELSE entry[c]
      BY <2>1, <2>3
    <3>3. /\ Entries(S)[c].ready = TRUE
          /\ Entries(S)[c].at = entry[c].at
          /\ Entries(S)[c].true = IF c \in S /\ entry[c].true = Still
                                  THEN clock ELSE entry[c].true
      BY <3>1, <3>2 DEF Outdated
    <3> QED
      BY <2>3, <3>3, Zenon
  <2> QED
    BY <2>2, <2>3
<1>2. ASSUME NEW d \in Readers
      PROVE  /\ Fills(S)[d].at = reader[d].at
             /\ reader[d].at = "store" =>
                   /\ Fills(S)[d].since = reader[d].since
                   /\ Fills(S)[d].true \in {clock, reader[d].true}
  <2>1. Fills(S)[d] = IF reader[d].at = "store" /\ reader[d].c \in S
                      THEN Outdated(reader[d]) ELSE reader[d]
    BY DEF Fills
  <2>2. CASE reader[d].at = "store"
    <3>1. reader[d] \in [at : {"store"}, c : Caches, since : Nat, true : Truth]
      BY <2>2 DEF TypeOK, ReaderState, Idle
    <3> QED
      BY <2>1, <3>1 DEF Outdated
  <2>3. CASE reader[d].at # "store"
    BY <2>1, <2>3
  <2> QED
    BY <2>2, <2>3
<1> QED
  BY <1>1, <1>2

(* A commit keeps everything dated. *)
LEMMA FedStaysDated ==
    ASSUME DatesInv, NEW S, clock' = clock, reader' = Fills(S),
           \A c \in Caches : entry'[c] = Empty \/ entry'[c] = Entries(S)[c]
    PROVE  EntriesAreDated' /\ FillsAreDated'
<1> USE DEF DatesInv
<1>0. clock \in Nat /\ FillTime \in Nat
  BY TimeAssumption DEF TypeOK
<1>1. ASSUME NEW c \in Caches, entry'[c].ready
      PROVE  /\ entry'[c].at <= clock'
             /\ entry'[c].true = Still \/ entry'[c].true >= entry'[c].at - FillTime
  <2>1. ~Empty.ready
    BY DEF Empty
  <2>2. entry'[c] # Empty
    BY <1>1, <2>1, Zenon
  <2>3. entry'[c] = Entries(S)[c]
    BY <2>2
  <2>4. entry[c].ready
    BY <1>1, <2>3, FedDates, Zenon
  <2>5. entry[c].at \in Nat /\ entry[c].true \in Truth
    BY <2>4, Carried
  <2>6. entry[c].at <= clock /\ (entry[c].true = Still \/ entry[c].true >= entry[c].at - FillTime)
    BY <2>4 DEF EntriesAreDated
  <2>7. /\ entry'[c].at = entry[c].at
        /\ entry'[c].true = clock \/ entry'[c].true = entry[c].true
    BY <2>3, <2>4, FedDates
  <2> QED
    BY <1>0, <2>5, <2>6, <2>7
<1>2. ASSUME NEW d \in Readers, reader'[d].at = "store"
      PROVE  /\ reader'[d].since <= clock' /\ clock' <= reader'[d].since + FillTime
             /\ reader'[d].true = Still \/ reader'[d].true >= reader'[d].since
  <2>1. reader[d].at = "store"
    BY <1>2, FedDates
  <2>2. reader[d].since \in Nat /\ reader[d].true \in Truth
    BY <2>1, Carried
  <2>3. reader'[d].since = reader[d].since /\ reader'[d].true \in {clock, reader[d].true}
    BY <2>1, FedDates
  <2> QED
    BY <1>0, <2>1, <2>2, <2>3 DEF FillsAreDated
<1> QED
  BY <1>1, <1>2 DEF EntriesAreDated, FillsAreDated

(* A drop, and a step that touches neither time nor caches. *)
LEMMA DroppedStaysDated ==
    ASSUME DatesInv, clock' = clock,
           \A c \in Caches : entry'[c] = Empty \/ entry'[c] = entry[c],
           \A d \in Readers : reader'[d] = reader[d] \/ reader'[d].at # "store"
    PROVE  EntriesAreDated' /\ FillsAreDated'
<1>1. ~Empty.ready
  BY DEF Empty
<1>2. \A c \in Caches : entry'[c].ready => entry'[c] = entry[c]
  BY <1>1, Zenon
<1>3. EntriesAreDated'
  BY <1>2, Zenon DEF DatesInv, EntriesAreDated
<1>4. FillsAreDated'
  BY DEF DatesInv, FillsAreDated
<1> QED
  BY <1>3, <1>4

(* What a cache can serve is dated, after any step. *)
LEMMA DatesStep == DatesInv /\ [Next]_vars => DatesInv'
<1> SUFFICES ASSUME DatesInv, [Next]_vars PROVE EntriesAreDated' /\ FillsAreDated'
  BY TypeStep DEF DatesInv
<1>0. TypeOK /\ clock \in Nat /\ FillTime \in Nat
  BY TimeAssumption DEF DatesInv, TypeOK
<1> USE DEF rows
<1>1. CASE Tick
  <2>1. clock' = clock + 1 /\ entry' = entry /\ reader' = reader
    BY <1>1 DEF Tick
  <2>2. EntriesAreDated'
    <3>1. ASSUME NEW c \in Caches, entry[c].ready
          PROVE  entry[c].at \in Nat /\ entry[c].at <= clock
      BY <3>1, <1>0, Carried DEF DatesInv, EntriesAreDated
    <3>2. \A c \in Caches : entry[c].ready => entry[c].at <= clock + 1
      BY <3>1, <1>0
    <3> QED
      BY <2>1, <3>2, Zenon DEF DatesInv, EntriesAreDated
  <2>3. FillsAreDated'
    <3> SUFFICES ASSUME NEW d \in Readers, reader[d].at = "store"
                 PROVE  /\ reader[d].since <= clock + 1
                        /\ clock + 1 <= reader[d].since + FillTime
                        /\ reader[d].true = Still \/ reader[d].true >= reader[d].since
      BY <2>1 DEF FillsAreDated
    <3>1. reader[d].since \in Nat
      BY <1>0, Carried
    <3>2. clock < reader[d].since + FillTime
      BY <1>1 DEF Tick
    <3> QED
      BY <1>0, <3>1, <3>2 DEF DatesInv, FillsAreDated
  <2> QED
    BY <2>2, <2>3
<1>2. ASSUME NEW w \in Writers, Join(w) \/ SessionWrite(w) \/ StudioWrite(w)
      PROVE  EntriesAreDated' /\ FillsAreDated'
  <2>1. PICK S \in SUBSET Caches : Feeds(S)
    BY <1>2 DEF Join, SessionWrite, StudioWrite, Caches
  <2>2. clock' = clock
    BY <1>2 DEF Join, SessionWrite, StudioWrite
  <2> QED
    BY <2>1, <2>2, FedStaysDated DEF Feeds
<1>3. ASSUME NEW c \in Caches, SilentWrite(c) PROVE EntriesAreDated' /\ FillsAreDated'
  BY <1>3, FedStaysDated DEF SilentWrite, Feeds
<1>4. ASSUME NEW w \in Writers, NEW v \in {"valid", "invalid"}, RunCommits(w, v)
      PROVE  EntriesAreDated' /\ FillsAreDated'
  <2>1. CASE Feeds(Caches)
    BY <1>4, <2>1, FedStaysDated DEF RunCommits, Feeds
  <2>2. CASE entry' = entry /\ reader' = reader
    BY <1>4, <2>2, DroppedStaysDated DEF RunCommits
  <2> QED
    BY <1>4, <2>1, <2>2 DEF RunCommits
<1>5. ASSUME NEW w \in Writers, RateCommits(w) PROVE EntriesAreDated' /\ FillsAreDated'
  <2>1. \A c \in Caches : entry'[c] = Empty \/ entry'[c] = Entries(Caches)[c]
    BY <1>5 DEF RateCommits, Entries
  <2> QED
    BY <1>5, <2>1, FedStaysDated DEF RateCommits
<1>6. ASSUME NEW w \in Writers, Drop(w) PROVE EntriesAreDated' /\ FillsAreDated'
  <2>1. entry' = [entry EXCEPT ![Head(writer[w].todo)] = Empty] /\ UNCHANGED <<clock, reader>>
    BY <1>6 DEF Drop
  <2> QED
    BY <1>0, <2>1, DroppedStaysDated DEF TypeOK
<1>7. CASE UNCHANGED <<clock, entry, reader>>
  BY <1>7, DroppedStaysDated
<1>8. ASSUME NEW d \in Readers, NEW c \in Caches, Miss(d, c) PROVE EntriesAreDated' /\ FillsAreDated'
  BY <1>0, <1>8, DroppedStaysDated DEF Miss, TypeOK
<1>9. ASSUME NEW d \in Readers, Compute(d) PROVE EntriesAreDated' /\ FillsAreDated'
  <2>1. reader' = [reader EXCEPT ![d] = [at |-> "store", c |-> reader[d].c,
                                         since |-> clock, true |-> Still]]
    BY <1>9 DEF Compute
  <2>2. clock' = clock /\ entry' = entry
    BY <1>9 DEF Compute
  <2>3. EntriesAreDated'
    BY <2>2, Zenon DEF DatesInv, EntriesAreDated
  <2>4. FillsAreDated'
    BY <1>0, <2>1, <2>2 DEF DatesInv, FillsAreDated, TypeOK
  <2> QED
    BY <2>3, <2>4
<1>10. ASSUME NEW d \in Readers, Store(d) PROVE EntriesAreDated' /\ FillsAreDated'
  <2>1. /\ reader[d].at = "store" /\ clock' = clock
        /\ reader' = [reader EXCEPT ![d] = Idle]
        /\ entry' = [entry EXCEPT ![reader[d].c] = Stored(d)]
    BY <1>10 DEF Store
  <2>2. reader[d].since \in Nat /\ reader[d].true \in Truth
    BY <1>0, <2>1, Carried
  <2>3. /\ Stored(d).at = clock /\ Stored(d).true = reader[d].true
    BY DEF Stored
  <2>4. Stored(d).true = Still \/ Stored(d).true >= clock - FillTime
    BY <1>0, <2>1, <2>2, <2>3 DEF DatesInv, FillsAreDated, Truth, Still
  <2>5. ASSUME NEW c \in Caches, entry'[c].ready
        PROVE  /\ entry'[c].at <= clock
               /\ entry'[c].true = Still \/ entry'[c].true >= entry'[c].at - FillTime
    <3>1. CASE c = reader[d].c
      <4>1. entry'[c] = Stored(d)
        BY <1>0, <2>1, <3>1 DEF TypeOK
      <4> QED
        BY <1>0, <2>3, <2>4, <4>1
    <3>2. CASE c # reader[d].c
      <4>1. entry'[c] = entry[c]
        BY <1>0, <2>1, <3>2 DEF TypeOK
      <4> QED
        BY <2>5, <4>1, Zenon DEF DatesInv, EntriesAreDated
    <3> QED
      BY <3>1, <3>2
  <2>6. FillsAreDated'
    BY <1>0, <2>1 DEF DatesInv, FillsAreDated, TypeOK, Idle
  <2> QED
    BY <2>1, <2>5, <2>6 DEF EntriesAreDated
<1>11. ASSUME NEW d \in Readers, FillFails(d) \/ ReaderLeaves(d)
       PROVE  EntriesAreDated' /\ FillsAreDated'
  <2>1. /\ clock' = clock
        /\ reader' = [reader EXCEPT ![d] = Idle]
        /\ entry' = entry \/ entry' = [entry EXCEPT !["report"] = Empty]
    BY <1>11 DEF FillFails, ReaderLeaves
  <2> QED
    BY <1>0, <2>1, DroppedStaysDated DEF TypeOK, Idle
<1> QED
  BY <1>1, <1>2, <1>3, <1>4, <1>5, <1>6, <1>7, <1>8, <1>9, <1>10, <1>11
     DEF Next, RunTakes, RateUpserts, RateChecks, DropFails, WriterDies, vars
-----------------------------------------------------------------------------
(* An entry behind the tables that is still there after a step, and was before *)
(* it, has the cause it had.                                                 *)
LEMMA CauseStays ==
    ASSUME StaleForCause, NEW C \in SUBSET Caches,
           \A c \in C : entry'[c] = entry[c],
           \A c \in C : c \in excused => c \in excused',
           \A c \in C, w \in Writers : c \in Left(w) => c \in excused' \/ \E u \in Writers : c \in Left(u)'
    PROVE  \A c \in C : entry'[c].ready /\ entry'[c].true # Still => c \in excused' \/ Pending(c)'
<1> SUFFICES ASSUME NEW c \in C, entry'[c].ready /\ entry'[c].true # Still
             PROVE  c \in excused' \/ Pending(c)'
  BY Zenon
<1>1. c \in excused \/ Pending(c)
  BY Zenon DEF StaleForCause
<1> QED
  BY <1>1, Zenon DEF Pending

(* A writer that goes on to drop C leaves nobody else with less to do. *)
LEMMA DropsMore ==
    ASSUME TypeOK, NEW w \in Writers, writer[w].at # "drop", NEW q,
           writer' = [writer EXCEPT ![w] = q]
    PROVE  \A c \in Caches, u \in Writers : c \in Left(u) => c \in Left(u)'
<1> SUFFICES ASSUME NEW u \in Writers, Left(u) # {} PROVE Left(u)' = Left(u)
  OBVIOUS
<1>1. u # w
  BY DEF Left
<1>2. writer'[u] = writer[u]
  BY <1>1 DEF TypeOK
<1> QED
  BY <1>2 DEF Left

(* Who has a list to drop will drop each cache on it. *)
LEMMA ToDrop ==
    ASSUME TypeOK, NEW w \in Writers, NEW todo \in {<<"kpi">>, <<"report">>, <<"kpi", "report">>},
           Drops(w, todo)
    PROVE  Left(w)' = {todo[i] : i \in DOMAIN todo}
<1>1. writer'[w] = [at |-> "drop", todo |-> todo]
  BY DEF Drops, TypeOK
<1> QED
  BY <1>1 DEF Left

(* A commit that feeds the caches in S and goes on to drop them. *)
LEMMA FedAndDropped ==
    ASSUME CauseInv, NEW w \in Writers, writer[w].at # "drop", NEW S \in SUBSET Caches,
           NEW todo \in {<<"kpi">>, <<"report">>, <<"kpi", "report">>}, Drops(w, todo),
           \A c \in S : entry'[c] = Empty \/ c \in {todo[i] : i \in DOMAIN todo},
           \A c \in Caches \ S : entry'[c] = entry[c] /\ (c \in excused => c \in excused')
    PROVE  StaleForCause'
<1>1. ~Empty.ready
  BY DEF Empty
<1>2. \A c \in S : entry'[c] = Empty \/ Pending(c)'
  BY ToDrop DEF CauseInv, Pending
<1>3. \A c \in S : entry'[c].ready => Pending(c)'
  BY <1>1, <1>2, Zenon
<1>4. \A c \in Caches, u \in Writers : c \in Left(u) => c \in Left(u)'
  BY DropsMore DEF CauseInv, Drops
<1>5. \A c \in Caches \ S :
         entry'[c].ready /\ entry'[c].true # Still => c \in excused' \/ Pending(c)'
  <2> DEFINE C == Caches \ S
  <2>1. /\ \A c \in C : entry'[c] = entry[c]
        /\ \A c \in C : c \in excused => c \in excused'
        /\ \A c \in C, u \in Writers :
              c \in Left(u) => c \in excused' \/ \E v \in Writers : c \in Left(v)'
    BY <1>4
  <2> HIDE DEF C
  <2>2. C \in SUBSET Caches
    BY DEF C
  <2>3. \A c \in C : entry'[c].ready /\ entry'[c].true # Still => c \in excused' \/ Pending(c)'
    BY <2>1, <2>2, CauseStays DEF CauseInv
  <2> QED
    BY <2>3, Zenon DEF C
<1> QED
  BY <1>3, <1>5, Zenon DEF StaleForCause

(* A step of a writer that has nothing to drop, or of nobody. *)
LEMMA CauseUntouched ==
    ASSUME CauseInv, entry' = entry, excused' = excused,
           \/ writer' = writer
           \/ \E w \in Writers, q \in WriterState :
                 writer[w].at # "drop" /\ writer' = [writer EXCEPT ![w] = q]
    PROVE  StaleForCause'
<1>1. \A c \in Caches, u \in Writers : c \in Left(u) => c \in Left(u)'
  <2>1. CASE writer' = writer
    BY <2>1 DEF Left
  <2>2. CASE \E w \in Writers, q \in WriterState :
               writer[w].at # "drop" /\ writer' = [writer EXCEPT ![w] = q]
    BY <2>2, DropsMore DEF CauseInv
  <2> QED
    BY <2>1, <2>2
<1>2. \A c \in Caches :
         entry'[c].ready /\ entry'[c].true # Still => c \in excused' \/ Pending(c)'
  BY <1>1, CauseStays DEF CauseInv
<1> QED
  BY <1>2, Zenon DEF StaleForCause

(* An entry taken away, or renewed. *)
LEMMA CauseOfOne ==
    ASSUME CauseInv, NEW k \in Caches,
           \A c \in Caches \ {k} : entry'[c] = entry[c] /\ (c \in excused => c \in excused'),
           entry'[k] = Empty \/ entry'[k].true = Still \/ k \in excused',
           \A c \in Caches \ {k}, w \in Writers :
              c \in Left(w) => c \in excused' \/ \E u \in Writers : c \in Left(u)'
    PROVE  StaleForCause'
<1>1. ~Empty.ready
  BY DEF Empty
<1>2. entry'[k].ready /\ entry'[k].true # Still => k \in excused' \/ Pending(k)'
  BY <1>1, Zenon
<1>3. \A c \in Caches \ {k} :
         entry'[c].ready /\ entry'[c].true # Still => c \in excused' \/ Pending(c)'
  <2> DEFINE C == Caches \ {k}
  <2>1. /\ \A c \in C : entry'[c] = entry[c]
        /\ \A c \in C : c \in excused => c \in excused'
        /\ \A c \in C, w \in Writers :
              c \in Left(w) => c \in excused' \/ \E u \in Writers : c \in Left(u)'
    OBVIOUS
  <2> HIDE DEF C
  <2>2. C \in SUBSET Caches
    BY DEF C
  <2>3. \A c \in C : entry'[c].ready /\ entry'[c].true # Still => c \in excused' \/ Pending(c)'
    BY <2>1, <2>2, CauseStays DEF CauseInv
  <2> QED
    BY <2>3, Zenon DEF C
<1> QED
  BY <1>2, <1>3, Zenon DEF StaleForCause

(* What is behind the tables is so for a cause, after any step. *)
LEMMA CauseStep == CauseInv /\ [Next]_vars => CauseInv'
<1> SUFFICES ASSUME CauseInv, [Next]_vars PROVE StaleForCause'
  BY TypeStep DEF CauseInv
<1>0. TypeOK
  BY DEF CauseInv
<1> USE DEF rows
<1>a. \A S \in SUBSET Caches : \A c \in Caches \ S : Entries(S)[c] = entry[c]
  BY DEF Entries
<1>1. ASSUME NEW w \in Writers, Join(w) PROVE StaleForCause'
  <2>1. Drops(w, <<"kpi", "report">>) /\ writer[w].at # "drop"
    BY <1>1 DEF Join, JoinTodo, Idle
  <2>2. \A c \in Caches : c \in {<<"kpi", "report">>[i] : i \in DOMAIN <<"kpi", "report">>}
    BY DEF Caches
  <2> QED
    BY <2>1, <2>2, FedAndDropped
<1>2. ASSUME NEW w \in Writers, SessionWrite(w) PROVE StaleForCause'
  <2>1. /\ Drops(w, <<"report">>) /\ writer[w].at # "drop"
        /\ entry' = Entries({"report"}) /\ excused' = excused
    BY <1>2 DEF SessionWrite, Feeds, Idle
  <2>2. {"report"} \in SUBSET Caches
    BY DEF Caches
  <2>3. \A c \in Caches \ {"report"} : entry'[c] = entry[c] /\ (c \in excused => c \in excused')
    BY <1>a, <2>1, <2>2
  <2>4. \A c \in {"report"} : c \in {<<"report">>[i] : i \in DOMAIN <<"report">>}
    OBVIOUS
  <2> QED
    BY <2>1, <2>2, <2>3, <2>4, FedAndDropped
<1>3. ASSUME NEW w \in Writers, StudioWrite(w) PROVE StaleForCause'
  <2>1. /\ Drops(w, <<"kpi">>) /\ writer[w].at # "drop"
        /\ entry' = Entries({"kpi"}) /\ excused' = excused
    BY <1>3 DEF StudioWrite, Feeds, Idle
  <2>2. {"kpi"} \in SUBSET Caches
    BY DEF Caches
  <2>3. \A c \in Caches \ {"kpi"} : entry'[c] = entry[c] /\ (c \in excused => c \in excused')
    BY <1>a, <2>1, <2>2
  <2>4. \A c \in {"kpi"} : c \in {<<"kpi">>[i] : i \in DOMAIN <<"kpi">>}
    OBVIOUS
  <2> QED
    BY <2>1, <2>2, <2>3, <2>4, FedAndDropped
<1>4. ASSUME NEW k \in Caches, SilentWrite(k) PROVE StaleForCause'
  <2>1. entry' = Entries({k}) /\ excused' = excused \cup {k} /\ writer' = writer
    BY <1>4 DEF SilentWrite, Feeds
  <2>2. \A c \in Caches \ {k} : entry'[c] = entry[c]
    BY <1>a, <2>1
  <2>3. \A w \in Writers : Left(w)' = Left(w)
    BY <2>1 DEF Left
  <2> QED
    BY <2>1, <2>2, <2>3, CauseOfOne
<1>5. ASSUME NEW w \in Writers, NEW s \in Sessions, RunTakes(w, s) PROVE StaleForCause'
  <2> DEFINE q == [at |-> "judge", s |-> s]
  <2>1. q \in WriterState
    BY DEF WriterState
  <2>2. writer[w].at # "drop"
    BY <1>5 DEF RunTakes, Idle
  <2>3. writer' = [writer EXCEPT ![w] = q] /\ entry' = entry /\ excused' = excused
    BY <1>5 DEF RunTakes
  <2> HIDE DEF q
  <2> QED
    BY <2>1, <2>2, <2>3, CauseUntouched
<1>6. ASSUME NEW w \in Writers, NEW v \in {"valid", "invalid"}, RunCommits(w, v)
      PROVE  StaleForCause'
  <2>1. CASE Drops(w, <<"kpi", "report">>)
    <3>1. writer[w].at # "drop"
      BY <1>6 DEF RunCommits
    <3>2. \A c \in Caches : c \in {<<"kpi", "report">>[i] : i \in DOMAIN <<"kpi", "report">>}
      BY DEF Caches
    <3> QED
      BY <2>1, <3>1, <3>2, FedAndDropped
  <2>2. CASE writer' = [writer EXCEPT ![w] = Idle] /\ entry' = entry
    <3>1. Idle \in WriterState
      BY DEF WriterState
    <3> QED
      BY <1>6, <2>2, <3>1, CauseUntouched DEF RunCommits
  <2> QED
    BY <1>6, <2>1, <2>2 DEF RunCommits
<1>7. ASSUME NEW w \in Writers, NEW s \in Sessions, NEW m \in {"marked", "kept"}, RateUpserts(w, s, m)
      PROVE  StaleForCause'
  <2> DEFINE q == [at |-> IF m = "marked" THEN "check" ELSE "write", s |-> s, mark |-> m]
  <2>1. q \in WriterState
    BY DEF WriterState
  <2>2. writer[w].at # "drop"
    BY <1>7 DEF RateUpserts, Idle
  <2>3. writer' = [writer EXCEPT ![w] = q] /\ entry' = entry /\ excused' = excused
    BY <1>7 DEF RateUpserts
  <2> HIDE DEF q
  <2> QED
    BY <2>1, <2>2, <2>3, CauseUntouched
<1>8. ASSUME NEW w \in Writers, RateChecks(w) PROVE StaleForCause'
  <2>1. writer[w] \in [at : {"check", "write"}, s : Sessions, mark : {"marked", "kept"}]
    BY <1>0, <1>8 DEF RateChecks, TypeOK, WriterState, Idle
  <2>2. [writer[w] EXCEPT !.at = "write"] \in WriterState /\ Idle \in WriterState
    BY <2>1 DEF WriterState
  <2>3. \/ writer' = [writer EXCEPT ![w] = [writer[w] EXCEPT !.at = "write"]]
        \/ writer' = [writer EXCEPT ![w] = Idle]
    BY <1>8 DEF RateChecks
  <2>4. writer[w].at # "drop" /\ entry' = entry /\ excused' = excused
    BY <1>8 DEF RateChecks
  <2> QED
    BY <2>2, <2>3, <2>4, CauseUntouched
<1>9. ASSUME NEW w \in Writers, RateCommits(w) PROVE StaleForCause'
  <2>1. Drops(w, <<"kpi">>) /\ writer[w].at # "drop" /\ entry'["report"] = Empty
    BY <1>9 DEF RateCommits, Entries, Caches
  <2>2. \A c \in Caches : entry'[c] = Empty \/ c \in {<<"kpi">>[i] : i \in DOMAIN <<"kpi">>}
    BY <2>1 DEF Caches
  <2> QED
    BY <2>1, <2>2, FedAndDropped
<1>10. ASSUME NEW w \in Writers, Drop(w) \/ DropFails(w) PROVE StaleForCause'
  <2> DEFINE k == Head(writer[w].todo)
  <2>1. /\ writer[w].at = "drop"
        /\ writer' = [writer EXCEPT ![w] = Next1(w)]
        /\ \/ entry' = [entry EXCEPT ![k] = Empty]
           \/ entry' = entry /\ k \in excused'
        /\ \A c \in Caches \ {k} : c \in excused => c \in excused'
    BY <1>10 DEF Drop, DropFails
  <2>2. k \in Caches
    BY <1>0, <2>1, DropsOne
  <2>3. /\ \A c \in Caches \ {k} : entry'[c] = entry[c]
        /\ entry'[k] = Empty \/ k \in excused'
    BY <1>0, <2>1, <2>2 DEF TypeOK
  <2>4. ASSUME NEW c \in Caches \ {k}, NEW u \in Writers, c \in Left(u) PROVE c \in Left(u)'
    <3>1. CASE u # w
      BY <1>0, <2>1, <2>4, <3>1 DEF Left, TypeOK
    <3>2. CASE u = w
      <4>1. /\ Next1(w) = [writer[w] EXCEPT !.todo = <<"report">>]
            /\ c = "report"
        BY <1>0, <2>1, <2>4, <3>2, DropsOne
      <4>2. writer'[w] = [writer[w] EXCEPT !.todo = <<"report">>]
        BY <1>0, <2>1, <4>1 DEF TypeOK
      <4>3. writer[w] \in [at : {"drop"}, todo : {<<"kpi">>, <<"report">>, <<"kpi", "report">>}]
        BY <1>0, <2>1 DEF TypeOK, WriterState, Idle
      <4>4. writer'[w].at = "drop" /\ writer'[w].todo = <<"report">>
        BY <4>2, <4>3
      <4>5. Left(w)' = {<<"report">>[i] : i \in DOMAIN <<"report">>}
        BY <4>4 DEF Left
      <4> QED
        BY <3>2, <4>1, <4>5
    <3> QED
      BY <3>1, <3>2
  <2> HIDE DEF k
  <2> QED
    BY <2>1, <2>2, <2>3, <2>4, CauseOfOne
<1>11. ASSUME NEW w \in Writers, WriterDies(w) PROVE StaleForCause'
  <2>1. /\ entry' = entry /\ excused' = excused \cup Left(w)
        /\ writer' = [writer EXCEPT ![w] = Idle]
    BY <1>11 DEF WriterDies
  <2>2. \A c \in Caches, u \in Writers :
           c \in Left(u) => c \in excused' \/ \E v \in Writers : c \in Left(v)'
    <3> SUFFICES ASSUME NEW c \in Caches, NEW u \in Writers, c \in Left(u), u # w
                 PROVE  c \in Left(u)'
      BY <2>1
    <3> QED
      BY <1>0, <2>1 DEF Left, TypeOK
  <2>3. /\ \A c \in Caches : entry'[c] = entry[c]
        /\ \A c \in Caches : c \in excused => c \in excused'
    BY <2>1
  <2>4. \A c \in Caches :
           entry'[c].ready /\ entry'[c].true # Still => c \in excused' \/ Pending(c)'
    BY <2>2, <2>3, CauseStays DEF CauseInv
  <2> QED
    BY <2>4, Zenon DEF StaleForCause
<1>12. ASSUME NEW d \in Readers, Store(d) PROVE StaleForCause'
  <2> DEFINE k == reader[d].c
  <2>1. /\ reader[d].at = "store" /\ writer' = writer
        /\ entry' = [entry EXCEPT ![k] = Stored(d)]
        /\ \/ reader[d].true = Still /\ excused' = excused \ {k}
           \/ excused' = excused \cup {k}
    BY <1>12 DEF Store
  <2>2. k \in Caches
    BY <1>0, <2>1, Carried
  <2>3. entry'[k].true = reader[d].true
    BY <1>0, <2>1, <2>2 DEF TypeOK, Stored
  <2>4. \A w \in Writers : Left(w)' = Left(w)
    BY <2>1 DEF Left
  <2>5. \A c \in Caches \ {k} : entry'[c] = entry[c] /\ (c \in excused => c \in excused')
    BY <1>0, <2>1 DEF TypeOK
  <2> HIDE DEF k
  <2> QED
    BY <2>1, <2>2, <2>3, <2>4, <2>5, CauseOfOne
<1>13. ASSUME NEW d \in Readers, FillFails(d) PROVE StaleForCause'
  <2>1. /\ entry' = [entry EXCEPT !["report"] = Empty]
        /\ excused' = excused \ {"report"} /\ writer' = writer
    BY <1>13 DEF FillFails
  <2>2. "report" \in Caches
    BY DEF Caches
  <2>3. \A w \in Writers : Left(w)' = Left(w)
    BY <2>1 DEF Left
  <2>4. /\ entry'["report"] = Empty
        /\ \A c \in Caches \ {"report"} : entry'[c] = entry[c] /\ (c \in excused => c \in excused')
    BY <1>0, <2>1, <2>2 DEF TypeOK
  <2> QED
    BY <2>2, <2>3, <2>4, CauseOfOne
<1>14. CASE UNCHANGED <<entry, excused, writer>>
  BY <1>14, CauseUntouched
<1> QED
  BY <1>1, <1>2, <1>3, <1>4, <1>5, <1>6, <1>7, <1>8, <1>9, <1>10, <1>11, <1>12, <1>13, <1>14
     DEF Next, Tick, Miss, Compute, ReaderLeaves, vars

-----------------------------------------------------------------------------
(* Ratings and verdicts agree after any step. *)
LEMMA RatingStep == RatingInv /\ [Next]_vars => RatingInv'
<1> SUFFICES ASSUME RatingInv, [Next]_vars PROVE MarkedWereJudged' /\ RatingAgrees'
  BY TypeStep DEF RatingInv
<1>0. TypeOK /\ MarkedWereJudged /\ RatingAgrees
  BY DEF RatingInv
<1> USE DEF rows
<1>a. ASSUME verdict' = verdict, mark' = mark,
             NEW w \in Writers, NEW q, writer' = [writer EXCEPT ![w] = q],
             q.at = "write" /\ q.mark = "marked" => verdict[q.s] # "none"
      PROVE  MarkedWereJudged' /\ RatingAgrees'
  BY <1>0, <1>a DEF TypeOK, MarkedWereJudged, RatingAgrees
<1>1. ASSUME NEW w \in Writers, Join(w) \/ SessionWrite(w) \/ StudioWrite(w)
      PROVE  MarkedWereJudged' /\ RatingAgrees'
  <2>1. PICK todo : writer' = [writer EXCEPT ![w] = [at |-> "drop", todo |-> todo]]
    BY <1>1 DEF Join, SessionWrite, StudioWrite, Drops
  <2>2. verdict' = verdict /\ mark' = mark
    BY <1>1 DEF Join, SessionWrite, StudioWrite
  <2> QED
    BY <1>a, <2>1, <2>2
<1>2. ASSUME NEW w \in Writers, NEW s \in Sessions, RunTakes(w, s)
      PROVE  MarkedWereJudged' /\ RatingAgrees'
  BY <1>2, <1>a DEF RunTakes
<1>3. ASSUME NEW w \in Writers, NEW v \in {"valid", "invalid"}, RunCommits(w, v)
      PROVE  MarkedWereJudged' /\ RatingAgrees'
  <2> DEFINE s == writer[w].s
  <2>1. s \in Sessions
    BY <1>0, <1>3, Carried DEF RunCommits
  <2>2. CASE verdict[s] = "none"
    <3>1. PICK todo : writer' = [writer EXCEPT ![w] = [at |-> "drop", todo |-> todo]]
      BY <1>3, <2>2 DEF RunCommits, Drops
    <3>2. verdict' = [verdict EXCEPT ![s] = v] /\ mark' = mark
      BY <1>3, <2>2 DEF RunCommits
    <3>3. MarkedWereJudged'
      BY <1>0, <2>1, <3>1, <3>2 DEF TypeOK, MarkedWereJudged
    <3>4. mark[s] # "marked"
      BY <1>0, <2>1, <2>2 DEF RatingAgrees
    <3>5. RatingAgrees'
      BY <1>0, <2>1, <3>2, <3>4 DEF TypeOK, RatingAgrees
    <3> QED
      BY <3>3, <3>5
  <2>3. CASE verdict[s] # "none"
    <3>1. writer' = [writer EXCEPT ![w] = Idle] /\ verdict' = verdict /\ mark' = mark
      BY <1>3, <2>3 DEF RunCommits
    <3> QED
      BY <1>a, <3>1 DEF Idle
  <2> QED
    BY <2>2, <2>3
<1>4. ASSUME NEW w \in Writers, NEW s \in Sessions, NEW m \in {"marked", "kept"}, RateUpserts(w, s, m)
      PROVE  MarkedWereJudged' /\ RatingAgrees'
  <2> DEFINE q == [at |-> IF m = "marked" THEN "check" ELSE "write", s |-> s, mark |-> m]
  <2>1. writer' = [writer EXCEPT ![w] = q] /\ verdict' = verdict /\ mark' = mark
    BY <1>4 DEF RateUpserts
  <2>2. ~(q.at = "write" /\ q.mark = "marked")
    OBVIOUS
  <2> HIDE DEF q
  <2> QED
    BY <1>a, <2>1, <2>2
<1>5. ASSUME NEW w \in Writers, RateChecks(w) PROVE MarkedWereJudged' /\ RatingAgrees'
  <2>0. verdict' = verdict /\ mark' = mark
    BY <1>5 DEF RateChecks
  <2>1. CASE Markable(writer[w].s)
    <3> DEFINE q == [writer[w] EXCEPT !.at = "write"]
    <3>1. writer' = [writer EXCEPT ![w] = q]
      BY <1>5, <2>1 DEF RateChecks
    <3>2. writer[w] \in [at : {"check", "write"}, s : Sessions, mark : {"marked", "kept"}]
      BY <1>0, <1>5 DEF RateChecks, TypeOK, WriterState, Idle
    <3>3. verdict[q.s] # "none"
      BY <2>1, <3>2 DEF Markable
    <3> HIDE DEF q
    <3> QED
      BY <1>a, <2>0, <3>1, <3>3
  <2>2. CASE ~Markable(writer[w].s)
    BY <1>5, <1>a, <2>0, <2>2 DEF RateChecks, Idle
  <2> QED
    BY <2>1, <2>2
<1>6. ASSUME NEW w \in Writers, RateCommits(w) PROVE MarkedWereJudged' /\ RatingAgrees'
  <2> DEFINE s == writer[w].s
             m == writer[w].mark
  <2>1. s \in Sessions /\ m \in {"marked", "kept"}
    BY <1>0, <1>6, Carried DEF RateCommits
  <2>2. /\ verdict' = [verdict EXCEPT ![s] = Rated(@, m)]
        /\ mark' = [mark EXCEPT ![s] = m]
        /\ writer[w].at = "write"
    BY <1>6 DEF RateCommits
  <2>3. PICK todo : writer' = [writer EXCEPT ![w] = [at |-> "drop", todo |-> todo]]
    BY <1>6 DEF RateCommits, Drops
  <2>4. m = "marked" => verdict[s] # "none"
    BY <1>0, <2>2 DEF MarkedWereJudged
  <2>5. verdict[s] \in {"none", "valid", "invalid", "studio"}
    BY <1>0, <2>1 DEF TypeOK
  <2>6. /\ verdict[s] # "none" => Rated(verdict[s], m) # "none"
        /\ m = "marked" => Rated(verdict[s], m) \in {"invalid", "studio"}
        /\ m = "kept" => Rated(verdict[s], m) # "studio"
    BY <2>1, <2>4, <2>5 DEF Rated
  <2> HIDE DEF s, m
  <2>7. /\ verdict'[s] = Rated(verdict[s], m) /\ mark'[s] = m
        /\ \A t \in Sessions \ {s} : verdict'[t] = verdict[t] /\ mark'[t] = mark[t]
    BY <1>0, <2>1, <2>2 DEF TypeOK
  <2>8. MarkedWereJudged'
    <3> SUFFICES ASSUME NEW u \in Writers, writer'[u].at = "write", writer'[u].mark = "marked"
                 PROVE  verdict'[writer'[u].s] # "none"
      BY DEF MarkedWereJudged
    <3>1. writer'[u] = writer[u]
      BY <1>0, <2>3 DEF TypeOK
    <3>2. writer[u].s \in Sessions /\ verdict[writer[u].s] # "none"
      BY <1>0, <3>1, Carried DEF MarkedWereJudged
    <3> QED
      BY <2>6, <2>7, <3>1, <3>2
  <2>9. RatingAgrees'
    BY <1>0, <2>1, <2>6, <2>7 DEF RatingAgrees
  <2> QED
    BY <2>8, <2>9
<1>7. ASSUME NEW w \in Writers, Drop(w) \/ DropFails(w) PROVE MarkedWereJudged' /\ RatingAgrees'
  <2>1. /\ writer' = [writer EXCEPT ![w] = Next1(w)]
        /\ verdict' = verdict /\ mark' = mark /\ writer[w].at = "drop"
    BY <1>7 DEF Drop, DropFails
  <2>2. Next1(w).at # "write"
    BY <1>0, <2>1, DropsOne
  <2> QED
    BY <1>a, <2>1, <2>2
<1>8. ASSUME NEW w \in Writers, WriterDies(w) PROVE MarkedWereJudged' /\ RatingAgrees'
  BY <1>8, <1>a DEF WriterDies, Idle
<1>9. CASE UNCHANGED <<verdict, mark, writer>>
  BY <1>0, <1>9 DEF MarkedWereJudged, RatingAgrees
<1> QED
  BY <1>1, <1>2, <1>3, <1>4, <1>5, <1>6, <1>7, <1>8, <1>9
     DEF Next, Tick, SilentWrite, Miss, Compute, Store, FillFails, ReaderLeaves, vars

(* No step takes a verdict away, or turns one of the worker's. *)
LEMMA VerdictStep ==
    TypeOK /\ [Next]_vars =>
        \A s \in Sessions :
           /\ verdict[s] = "invalid" => verdict'[s] = "invalid"
           /\ verdict[s] # "none" => verdict'[s] # "none"
<1> SUFFICES ASSUME TypeOK, [Next]_vars, NEW s \in Sessions
             PROVE  /\ verdict[s] = "invalid" => verdict'[s] = "invalid"
                    /\ verdict[s] # "none" => verdict'[s] # "none"
  OBVIOUS
<1> USE DEF rows
<1>1. ASSUME NEW w \in Writers, NEW v \in {"valid", "invalid"}, RunCommits(w, v)
      PROVE  verdict[s] # "none" => verdict'[s] = verdict[s]
  BY <1>1 DEF RunCommits, TypeOK
<1>2. ASSUME NEW w \in Writers, RateCommits(w)
      PROVE  /\ verdict[s] = "invalid" => verdict'[s] = "invalid"
             /\ verdict[s] # "none" => verdict'[s] # "none"
  <2>1. verdict'[s] = verdict[s] \/ verdict'[s] = Rated(verdict[s], writer[w].mark)
    BY <1>2 DEF RateCommits, TypeOK
  <2> QED
    BY <2>1 DEF Rated, TypeOK
<1>3. CASE verdict' = verdict
  BY <1>3
<1> QED
  BY <1>1, <1>2, <1>3
     DEF Next, Tick, Join, SessionWrite, StudioWrite, SilentWrite, RunTakes, RateUpserts,
         RateChecks, Drop, DropFails, WriterDies, Miss, Compute, Store, FillFails,
         ReaderLeaves, vars

-----------------------------------------------------------------------------
(* The rows, caches, writers and readers keep their types. *)
THEOREM CacheTypes == Spec => []TypeOK
<1> QED
  BY TypeInit, TypeStep, PTL DEF Spec

(* What a cache serves was true within the last TTL and the time a fill takes,  *)
(* whatever failed, died or was overtaken.                                   *)
THEOREM ServedIsRecent == Spec => []StalenessBounded
<1>1. Init => DatesInv
  <2> SUFFICES ASSUME Init PROVE EntriesAreDated /\ FillsAreDated
    BY TypeInit DEF DatesInv
  <2>1. ~Empty.ready
    BY DEF Empty
  <2>2. \A c \in Caches : entry[c] = Empty
    BY DEF Init
  <2>3. EntriesAreDated
    BY <2>1, <2>2, Zenon DEF EntriesAreDated
  <2>4. FillsAreDated
    BY DEF Init, FillsAreDated, Idle
  <2> QED
    BY <2>3, <2>4
<1>2. DatesInv => StalenessBounded
  <2> SUFFICES ASSUME DatesInv, NEW c \in Caches, Fresh(c), entry[c].true # Still
               PROVE  entry[c].true >= clock - (Ttl[c] + FillTime)
    BY DEF StalenessBounded
  <2>1. entry[c].ready /\ clock - entry[c].at < Ttl[c]
    BY DEF Fresh
  <2>2. entry[c].at \in Nat /\ entry[c].true \in Truth
    BY <2>1, Carried DEF DatesInv
  <2>3. entry[c].true >= entry[c].at - FillTime
    BY <2>1 DEF DatesInv, EntriesAreDated
  <2>4. clock \in Nat /\ FillTime \in Nat /\ Ttl[c] \in Nat
    BY TimeAssumption DEF DatesInv, TypeOK
  <2> QED
    BY <2>1, <2>2, <2>3, <2>4 DEF Truth
<1> QED
  BY <1>1, <1>2, DatesStep, PTL DEF Spec

(* A cache is behind the tables only while its writer has still to drop it, or   *)
(* because nobody could or would, or a reader was overtaken.                 *)
THEOREM BehindForCause == Spec => []StaleForCause
<1>1. Init => CauseInv
  <2> SUFFICES ASSUME Init PROVE StaleForCause
    BY TypeInit DEF CauseInv
  <2>1. ~Empty.ready
    BY DEF Empty
  <2>2. \A c \in Caches : entry[c] = Empty
    BY DEF Init
  <2> QED
    BY <2>1, <2>2, Zenon DEF StaleForCause
<1>2. CauseInv => StaleForCause
  BY DEF CauseInv
<1> QED
  BY <1>1, <1>2, CauseStep, PTL DEF Spec

(* A session the studio marked counts as invalid, and only one so marked bears   *)
(* the studio's reason, however ratings and the job interleave.              *)
THEOREM MarksAndVerdictsAgree == Spec => []RatingAgrees
<1>1. Init => RatingInv
  <2> SUFFICES ASSUME Init PROVE MarkedWereJudged /\ RatingAgrees
    BY TypeInit DEF RatingInv
  <2> QED
    BY DEF Init, MarkedWereJudged, RatingAgrees, Idle
<1>2. RatingInv => RatingAgrees
  BY DEF RatingInv
<1> QED
  BY <1>1, <1>2, RatingStep, PTL DEF Spec

(* A session the worker rejected stays rejected, and no verdict is taken away. *)
THEOREM RejectedForGood == Spec => RejectionStays
<1>1. TypeOK /\ [Next]_vars =>
         [\A s \in Sessions :
             /\ verdict[s] = "invalid" => verdict'[s] = "invalid"
             /\ verdict[s] # "none" => verdict'[s] # "none"]_vars
  BY VerdictStep
<1> QED
  BY <1>1, TypeInit, TypeStep, PTL DEF Spec, RejectionStays

-----------------------------------------------------------------------------
(* A page of a list: the row that has n - 1 rows before it, in either order.    *)
LEMMA ComesInOrder ==
    ASSUME NEW i \in Int, NEW j \in Int, NEW k \in Int, NEW up
    PROVE  /\ ~P!Comes(i, i, up)
           /\ P!Comes(i, j, up) /\ P!Comes(j, k, up) => P!Comes(i, k, up)
           /\ i = j \/ P!Comes(i, j, up) \/ P!Comes(j, i, up)
BY DEF P!Comes

LEMMA SameCounts == \A S : P!Cardinality(S) = Cardinality(S)
BY DEF P!Cardinality, Cardinality

Before(S, i, up) == {j \in S : P!Comes(j, i, up)}

LEMMA BeforeIsFinite ==
    ASSUME NEW S \in SUBSET Int, IsFiniteSet(S), NEW i \in S, NEW up
    PROVE  /\ IsFiniteSet(Before(S, i, up)) /\ Cardinality(Before(S, i, up)) \in Nat
           /\ Cardinality(Before(S, i, up)) < Cardinality(S)
           /\ Cardinality(S) \in Nat
<1>1. Before(S, i, up) \subseteq S /\ i \notin Before(S, i, up)
  BY ComesInOrder DEF Before
<1>2. Before(S, i, up) # S
  BY <1>1
<1>3. IsFiniteSet(Before(S, i, up))
  BY <1>1, FS_Subset
<1>4. Cardinality(Before(S, i, up)) # Cardinality(S) /\ Cardinality(Before(S, i, up)) <= Cardinality(S)
  BY <1>1, <1>2, FS_Subset
<1>5. Cardinality(Before(S, i, up)) \in Nat /\ Cardinality(S) \in Nat
  BY <1>3, FS_CardinalityType
<1> QED
  BY <1>3, <1>4, <1>5

LEMMA FewerBefore ==
    ASSUME NEW S \in SUBSET Int, IsFiniteSet(S), NEW i \in S, NEW k \in S, NEW up
    PROVE  P!Comes(i, k, up) <=> Cardinality(Before(S, i, up)) < Cardinality(Before(S, k, up))
<1>1. ASSUME NEW a \in S, NEW b \in S, P!Comes(a, b, up)
      PROVE  Cardinality(Before(S, a, up)) < Cardinality(Before(S, b, up))
  <2>1. Before(S, a, up) \subseteq Before(S, b, up) /\ a \in Before(S, b, up) /\ a \notin Before(S, a, up)
    BY <1>1, ComesInOrder DEF Before
  <2>2. Before(S, a, up) # Before(S, b, up) /\ IsFiniteSet(Before(S, b, up))
    BY <2>1, BeforeIsFinite
  <2>3. /\ Cardinality(Before(S, a, up)) <= Cardinality(Before(S, b, up))
        /\ Cardinality(Before(S, a, up)) # Cardinality(Before(S, b, up))
    BY <2>1, <2>2, FS_Subset
  <2>4. Cardinality(Before(S, a, up)) \in Nat /\ Cardinality(Before(S, b, up)) \in Nat
    BY BeforeIsFinite
  <2> QED
    BY <2>3, <2>4
<1>2. i = k \/ P!Comes(i, k, up) \/ P!Comes(k, i, up)
  BY ComesInOrder
<1>3. Cardinality(Before(S, i, up)) \in Nat /\ Cardinality(Before(S, k, up)) \in Nat
  BY BeforeIsFinite
<1>4. CASE P!Comes(i, k, up)
  BY <1>1, <1>4
<1>5. CASE P!Comes(k, i, up)
  <2>1. Cardinality(Before(S, k, up)) < Cardinality(Before(S, i, up))
    BY <1>1, <1>5
  <2>2. ~P!Comes(i, k, up)
    BY <1>5, ComesInOrder
  <2> QED
    BY <1>3, <2>1, <2>2
<1>6. CASE i = k
  <2>1. ~P!Comes(i, k, up)
    BY <1>6, ComesInOrder
  <2> QED
    BY <1>3, <1>6, <2>1
<1> QED
  BY <1>2, <1>4, <1>5, <1>6

(* A finite set of numbers that is not empty has a first and a last one.            *)
LEMMA Ends ==
    ASSUME NEW S \in SUBSET Int, IsFiniteSet(S), S # {}, NEW up
    PROVE  /\ \E i \in S : \A j \in S : ~P!Comes(j, i, up)
           /\ \E i \in S : \A j \in S : ~P!Comes(i, j, up)
<1> DEFINE Less == OpToRel(<, Nat)
<1>1. IsWellFoundedOn(Less, Nat)
  BY NatLessThanWellFounded
<1>2. \A x, y \in Nat : y < x => <<y, x>> \in Less
  BY DEF OpToRel
<1> HIDE DEF Less
<1> DEFINE Rank(i) == Cardinality(Before(S, i, up))
           Ranks == {Rank(i) : i \in S}
           Above == {Cardinality(S) - Rank(i) : i \in S}
<1>3. \A i \in S : Rank(i) \in Nat /\ Rank(i) < Cardinality(S) /\ Cardinality(S) \in Nat
  BY BeforeIsFinite
<1>4. Ranks \subseteq Nat /\ Ranks # {}
  BY <1>3
<1>5. Above \subseteq Nat /\ Above # {}
  <2> HIDE DEF Rank
  <2>1. \A i \in S : Cardinality(S) - Rank(i) \in Nat
    BY <1>3
  <2> QED
    BY <2>1
<1>6. \A i, j \in S : P!Comes(j, i, up) <=> Rank(j) < Rank(i)
  BY FewerBefore
<1> HIDE DEF Rank
<1>7. \E i \in S : \A j \in S : ~P!Comes(j, i, up)
  <2>1. PICK r \in Ranks : \A x \in Ranks : ~(<<x, r>> \in Less)
    BY <1>1, <1>4, WFMin
  <2>2. PICK i \in S : r = Rank(i)
    BY <2>1
  <2>3. \A j \in S : ~(Rank(j) < Rank(i))
    BY <1>2, <1>3, <2>1, <2>2
  <2> QED
    BY <1>6, <2>3
<1>8. \E i \in S : \A j \in S : ~P!Comes(i, j, up)
  <2>1. PICK r \in Above : \A x \in Above : ~(<<x, r>> \in Less)
    BY <1>1, <1>5, WFMin
  <2>2. PICK i \in S : r = Cardinality(S) - Rank(i)
    BY <2>1
  <2>3. \A j \in S : ~(Cardinality(S) - Rank(j) < Cardinality(S) - Rank(i))
    BY <1>2, <1>5, <2>1, <2>2
  <2>4. \A j \in S : ~(Rank(i) < Rank(j))
    BY <1>3, <2>3
  <2> QED
    BY <1>6, <2>4
<1> QED
  BY <1>7, <1>8

LEMMA NthIs ==
    ASSUME NEW S \in SUBSET Nat, IsFiniteSet(S), NEW up, NEW n \in 1..Cardinality(S)
    PROVE  P!Nth(S, n, up) \in S /\ Cardinality(Before(S, P!Nth(S, n, up), up)) = n - 1
<1> DEFINE Rank(i) == Cardinality(Before(S, i, up))
           Few == {i \in S : Rank(i) >= n - 1}
<1>1. /\ Cardinality(S) \in Nat
      /\ \A i \in S : Rank(i) \in Nat /\ IsFiniteSet(Before(S, i, up)) /\ Rank(i) < Cardinality(S)
  BY FS_CardinalityType, BeforeIsFinite
<1>2. \A i \in S : Cardinality(Before(S, i, up) \cup {i}) = Rank(i) + 1
  <2>1. \A i \in S : i \notin Before(S, i, up)
    BY ComesInOrder DEF Before
  <2> QED
    BY <1>1, <2>1, FS_AddElement
<1>3. Few # {} /\ IsFiniteSet(Few) /\ Few \in SUBSET Nat
  <2>1. S # {}
    BY <1>1, FS_EmptySet
  <2>2. PICK i \in S : \A j \in S : ~P!Comes(i, j, up)
    BY <2>1, Ends
  <2>3. Before(S, i, up) \cup {i} = S
    <3>1. \A j \in S : j = i \/ P!Comes(j, i, up)
      BY <2>2, ComesInOrder
    <3> QED
      BY <3>1 DEF Before
  <2>4. Rank(i) + 1 = Cardinality(S)
    BY <1>2, <2>3
  <2> HIDE DEF Rank
  <2>5. Rank(i) >= n - 1
    BY <1>1, <2>4
  <2> QED
    BY <2>5, FS_Subset
<1>4. PICK i \in Few : \A j \in Few : ~P!Comes(j, i, up)
  <2>1. Few \in SUBSET Int
    BY <1>3
  <2> HIDE DEF Few
  <2> QED
    BY <1>3, <2>1, Ends
<1>5. Rank(i) = n - 1
  <2> SUFFICES ASSUME Rank(i) # n - 1 PROVE FALSE
    OBVIOUS
  <2>1. Rank(i) > n - 1 /\ i \in S
    <3> HIDE DEF Rank
    <3> QED
      BY <1>1, <1>4
  <2>2. Before(S, i, up) # {} /\ Before(S, i, up) \in SUBSET Nat /\ IsFiniteSet(Before(S, i, up))
    <3>1. n - 1 >= 0 /\ Cardinality({}) = 0
      BY FS_EmptySet
    <3>2. Before(S, i, up) \subseteq S
      BY DEF Before
    <3>3. Rank(i) # 0
      <4> HIDE DEF Rank
      <4> QED
        BY <1>1, <2>1, <3>1
    <3> QED
      BY <1>1, <2>1, <3>1, <3>2, <3>3
  <2>3. PICK k \in Before(S, i, up) : \A j \in Before(S, i, up) : ~P!Comes(k, j, up)
    BY <2>2, Ends
  <2>4. k \in S /\ P!Comes(k, i, up)
    BY <2>3 DEF Before
  <2>5. Before(S, k, up) \cup {k} = Before(S, i, up)
    <3>1. ASSUME NEW j \in S
          PROVE  P!Comes(j, i, up) <=> j = k \/ P!Comes(j, k, up)
      <4>1. P!Comes(j, k, up) => P!Comes(j, i, up)
        BY <2>1, <2>4, ComesInOrder
      <4>2. j = k \/ P!Comes(j, k, up) \/ P!Comes(k, j, up)
        BY <2>4, ComesInOrder
      <4>3. P!Comes(j, i, up) => ~P!Comes(k, j, up)
        BY <2>3 DEF Before
      <4> QED
        BY <2>4, <4>1, <4>2, <4>3
    <3> QED
      BY <2>4, <3>1 DEF Before
  <2>6. Rank(k) + 1 = Rank(i)
    BY <1>2, <2>4, <2>5
  <2>7. k \in Few
    <3> HIDE DEF Rank
    <3> QED
      BY <1>1, <2>1, <2>4, <2>6
  <2> QED
    BY <1>4, <2>4, <2>7
<1>6. P!Nth(S, n, up) = CHOOSE x \in S : Rank(x) = n - 1
  BY SameCounts DEF P!Nth, Before
<1> QED
  BY <1>4, <1>5, <1>6

(* The rows of a page: in order, and all there are, or all up to the last one.  *)
LEMMA SelectIs ==
    ASSUME NEW S \in SUBSET Nat, IsFiniteSet(S), NEW up, NEW limit \in Nat,
           NEW fetched, fetched = P!Select(S, limit, up)
    PROVE  /\ fetched \in Seq(S)
           /\ Len(fetched) = (IF limit < Cardinality(S) THEN limit ELSE Cardinality(S))
           /\ \A m, n \in 1..Len(fetched) : m < n => P!Comes(fetched[m], fetched[n], up)
           /\ \A i \in S, n \in 1..Len(fetched) :
                 \/ \E m \in 1..n : i = fetched[m]
                 \/ P!Comes(fetched[n], i, up)
           /\ Cardinality(S) <= limit => \A i \in S : \E m \in 1..Len(fetched) : i = fetched[m]
<1> DEFINE N == IF limit < Cardinality(S) THEN limit ELSE Cardinality(S)
           Rank(i) == Cardinality(Before(S, i, up))
<1>1. Cardinality(S) \in Nat
  BY FS_CardinalityType
<1>2. N \in 0..Cardinality(S) /\ N \in Nat
  BY <1>1
<1>3. fetched = [n \in 1..N |-> P!Nth(S, n, up)]
  BY SameCounts DEF P!Select
<1>4. \A n \in 1..Cardinality(S) : P!Nth(S, n, up) \in S /\ Rank(P!Nth(S, n, up)) = n - 1
  BY NthIs
<1>5. /\ fetched \in Seq(S) /\ Len(fetched) = N
      /\ \A n \in 1..N : fetched[n] \in S /\ Rank(fetched[n]) = n - 1
  <2> HIDE DEF Rank, N
  <2>1. \A n \in 1..N : fetched[n] = P!Nth(S, n, up) /\ n \in 1..Cardinality(S)
    BY <1>1, <1>2, <1>3
  <2>2. fetched \in [1..N -> S]
    BY <1>3, <1>4, <2>1
  <2>3. fetched \in Seq(S) /\ Len(fetched) = N
    BY <1>2, <2>2
  <2> QED
    BY <1>4, <2>1, <2>3
<1>6. \A i, k \in S : P!Comes(i, k, up) <=> Rank(i) < Rank(k)
  BY FewerBefore
<1>7. \A i \in S : Rank(i) \in Nat /\ Rank(i) < Cardinality(S)
  BY BeforeIsFinite
<1>8. \A i, k \in S : i = k \/ P!Comes(i, k, up) \/ P!Comes(k, i, up)
  BY ComesInOrder
<1> HIDE DEF Rank, N
<1>9. ASSUME NEW i \in S, Rank(i) < N
      PROVE  Rank(i) + 1 \in 1..N /\ i = fetched[Rank(i) + 1]
  <2>1. Rank(i) + 1 \in 1..N
    BY <1>2, <1>7, <1>9
  <2>2. fetched[Rank(i) + 1] \in S /\ Rank(fetched[Rank(i) + 1]) = Rank(i)
    BY <1>5, <1>7, <2>1
  <2>3. PICK k \in S : k = fetched[Rank(i) + 1] /\ Rank(k) = Rank(i)
    BY <2>2
  <2>4. ~(Rank(i) < Rank(k)) /\ ~(Rank(k) < Rank(i))
    BY <1>7, <2>3
  <2>5. i = k
    BY <1>6, <1>8, <2>4
  <2> QED
    BY <2>1, <2>3, <2>5
<1>10. ASSUME NEW i \in S, NEW n \in 1..N
       PROVE  (\E m \in 1..n : i = fetched[m]) \/ P!Comes(fetched[n], i, up)
  <2>1. CASE Rank(i) < n
    <3>1. Rank(i) + 1 \in 1..n /\ Rank(i) < N
      BY <1>2, <1>7, <2>1
    <3> QED
      BY <1>9, <3>1
  <2>2. CASE Rank(i) >= n
    <3>1. fetched[n] \in S /\ Rank(fetched[n]) < Rank(i)
      BY <1>2, <1>5, <1>7, <2>2
    <3> QED
      BY <1>6, <3>1
  <2> QED
    BY <1>2, <1>7, <2>1, <2>2
<1>11. ASSUME Cardinality(S) <= limit, NEW i \in S
       PROVE  \E m \in 1..N : i = fetched[m]
  <2>1. Rank(i) < N
    BY <1>1, <1>7, <1>11 DEF N
  <2> QED
    BY <1>9, <2>1
<1>12. ASSUME NEW m \in 1..N, NEW n \in 1..N, m < n
       PROVE  P!Comes(fetched[m], fetched[n], up)
  <2>1. fetched[m] \in S /\ fetched[n] \in S /\ Rank(fetched[m]) < Rank(fetched[n])
    BY <1>2, <1>5, <1>12
  <2> QED
    BY <1>6, <2>1
<1> QED
  BY <1>5, <1>10, <1>11, <1>12 DEF N

(* A page shows rows of the list, in order and none twice; if it names no next   *)
(* page, all of them, and if it does, all but those beyond its cursor.          *)
LEMMA PageIs ==
    ASSUME NEW S \in SUBSET (Nat \ {0}), IsFiniteSet(S), NEW c \in Nat, NEW up,
           NEW limit \in Nat \ {0}
    PROVE  LET page == P!PageOf(S, c, limit, up)
               shown == P!Beyond(S, c, up) IN
           /\ page.data \in Seq(shown)
           /\ \A m, n \in 1..Len(page.data) : m < n => P!Comes(page.data[m], page.data[n], up)
           /\ page.nextCursor = P!NoCursor =>
                 \A i \in shown : \E m \in 1..Len(page.data) : i = page.data[m]
           /\ page.nextCursor # P!NoCursor =>
                 /\ page.data # <<>> /\ page.nextCursor = page.data[Len(page.data)]
                 /\ \A i \in shown : \/ \E m \in 1..Len(page.data) : i = page.data[m]
                                    \/ P!Comes(page.nextCursor, i, up)
<1> DEFINE page == P!PageOf(S, c, limit, up)
           shown == P!Beyond(S, c, up)
           fetched == P!Select(shown, limit + 1, up)
<1>1. shown \in SUBSET Nat /\ IsFiniteSet(shown) /\ 0 \notin shown
  <2>1. shown \subseteq S
    BY DEF P!Beyond
  <2> QED
    BY <2>1, FS_Subset
<1>2. Cardinality(shown) \in Nat
  BY <1>1, FS_CardinalityType
<1>3. /\ fetched \in Seq(shown)
      /\ Len(fetched) = (IF limit + 1 < Cardinality(shown) THEN limit + 1 ELSE Cardinality(shown))
      /\ \A m, n \in 1..Len(fetched) : m < n => P!Comes(fetched[m], fetched[n], up)
      /\ \A i \in shown, n \in 1..Len(fetched) :
            \/ \E m \in 1..n : i = fetched[m]
            \/ P!Comes(fetched[n], i, up)
      /\ Cardinality(shown) <= limit + 1 => \A i \in shown : \E m \in 1..Len(fetched) : i = fetched[m]
  <2> HIDE DEF shown
  <2>1. limit + 1 \in Nat
    OBVIOUS
  <2> QED
    BY <1>1, <2>1, SelectIs
<1>4. page = IF Len(fetched) > limit
             THEN [data |-> SubSeq(fetched, 1, limit), nextCursor |-> fetched[limit]]
             ELSE [data |-> fetched, nextCursor |-> P!NoCursor]
  BY DEF P!PageOf, P!BuildPage
<1> HIDE DEF page, shown, fetched
<1>5. CASE Len(fetched) > limit
  <2>1. limit \in 1..Len(fetched) /\ Len(fetched) \in Nat /\ fetched[limit] \in shown
    BY <1>3, <1>5
  <2>2. /\ SubSeq(fetched, 1, limit) \in Seq(shown) /\ Len(SubSeq(fetched, 1, limit)) = limit
        /\ \A m \in 1..limit : SubSeq(fetched, 1, limit)[m] = fetched[m] /\ m \in 1..Len(fetched)
    BY <1>3, <2>1
  <2>3. page.data = SubSeq(fetched, 1, limit) /\ page.nextCursor = fetched[limit]
    BY <1>4, <1>5
  <2>4. page.nextCursor # P!NoCursor /\ page.data # <<>>
    BY <1>1, <2>1, <2>2, <2>3 DEF P!NoCursor
  <2>5. \A m, n \in 1..Len(page.data) : m < n => P!Comes(page.data[m], page.data[n], up)
    BY <1>3, <2>2, <2>3
  <2>6. \A i \in shown : \/ \E m \in 1..Len(page.data) : i = page.data[m]
                        \/ P!Comes(page.nextCursor, i, up)
    BY <1>3, <2>1, <2>2, <2>3
  <2> QED
    BY <2>2, <2>3, <2>4, <2>5, <2>6 DEF page, shown
<1>6. CASE ~(Len(fetched) > limit)
  <2>1. page.data = fetched /\ page.nextCursor = P!NoCursor
    BY <1>4, <1>6
  <2>2. Cardinality(shown) <= limit + 1
    BY <1>2, <1>3, <1>6
  <2> QED
    BY <1>3, <2>1, <2>2 DEF page, shown
<1> QED
  BY <1>5, <1>6

-----------------------------------------------------------------------------
(* What a client that reads page by page holds. *)
WalkTypes == cursor \in Nat /\ walk \in {"before", "turning", "end"}

LEMMA ListedIsFinite ==
    ASSUME NEW r
    PROVE  P!Listed(r) \in SUBSET (Nat \ {0}) /\ IsFiniteSet(P!Listed(r))
<1>1. IsFiniteSet(P!Ids) /\ P!Ids \subseteq Nat \ {0} /\ 0 \notin P!Ids
  BY PagesAssumption, FS_Interval DEF P!Ids
<1>2. P!Listed(r) \subseteq P!Ids
  BY DEF P!Listed
<1> QED
  BY <1>1, <1>2, FS_Subset

LEMMA WalkInit == P!Init => WalkTypes /\ P!WalkInv
<1> SUFFICES ASSUME P!Init PROVE WalkTypes /\ P!WalkInv
  OBVIOUS
<1>1. P!Ahead = P!Ids
  BY DEF P!Init, P!Ahead, P!Beyond
<1>2. due \subseteq P!Ids
  BY DEF P!Init, P!Listed
<1>3. WalkTypes
  BY DEF P!Init, WalkTypes, P!NoCursor
<1>4. seen = <<>> /\ due = P!Listed(row) /\ walk = "before" /\ cursor = P!NoCursor
  BY DEF P!Init
<1> QED
  BY <1>1, <1>2, <1>3, <1>4 DEF P!WalkInv

(* Where a walk stands, the rows of a page follow what it has seen. *)
LEMMA WalkTurns ==
    ASSUME WalkTypes, P!WalkInv, NEW limit \in 1..MaxLimit, P!TurnPage(limit)
    PROVE  WalkTypes' /\ P!WalkInv'
<1> DEFINE S == P!Listed(row)
           page == P!PageOf(S, cursor, limit, P!Up)
           ahead == P!Beyond(S, cursor, P!Up)
<1>1. /\ walk # "end"
      /\ seen' = seen \o page.data /\ cursor' = page.nextCursor
      /\ walk' = (IF page.nextCursor = P!NoCursor THEN "end" ELSE "turning")
      /\ list' = list /\ asked' = asked /\ row' = row /\ due' = due
  BY DEF P!TurnPage
<1>2. limit \in Nat \ {0} /\ cursor \in Nat
  BY PagesAssumption DEF WalkTypes
<1>3. /\ page.data \in Seq(ahead)
      /\ \A m, n \in 1..Len(page.data) : m < n => P!Comes(page.data[m], page.data[n], P!Up)
      /\ page.nextCursor = P!NoCursor =>
            \A i \in ahead : \E m \in 1..Len(page.data) : i = page.data[m]
      /\ page.nextCursor # P!NoCursor =>
            /\ page.data # <<>> /\ page.nextCursor = page.data[Len(page.data)]
            /\ \A i \in ahead : \/ \E m \in 1..Len(page.data) : i = page.data[m]
                               \/ P!Comes(page.nextCursor, i, P!Up)
  <2> HIDE DEF S
  <2>1. S \in SUBSET (Nat \ {0}) /\ IsFiniteSet(S)
    BY ListedIsFinite DEF S
  <2> QED
    BY <1>2, <2>1, PageIs
<1>4. S \subseteq Nat \ {0} /\ ahead \subseteq S /\ S \subseteq P!Ids
  BY ListedIsFinite DEF P!Beyond, P!Listed
<1>5. P!Up' = P!Up /\ P!Listed(row)' = S
  BY <1>1 DEF P!Up, P!Listed
<1>6. /\ seen \in Seq(P!Ids) /\ due \subseteq S
      /\ walk = "before" => cursor = P!NoCursor /\ seen = <<>>
      /\ walk = "turning" => seen # <<>> /\ cursor = seen[Len(seen)]
      /\ \A j \in 2..Len(seen) : P!Comes(seen[j - 1], seen[j], P!Up)
      /\ due \subseteq P!Range(seen) \cup P!Ahead
  BY DEF P!WalkInv
<1>7. P!Ahead = P!Beyond(P!Ids, cursor, P!Up)
  BY <1>1 DEF P!Ahead
<1> HIDE DEF S, page, ahead
<1> DEFINE data == page.data
<1>8. /\ data \in Seq(P!Ids) /\ data \in Seq(ahead)
      /\ Len(seen) \in Nat /\ Len(data) \in Nat
      /\ seen' \in Seq(P!Ids) /\ Len(seen') = Len(seen) + Len(data)
      /\ \A j \in 1..Len(seen) : seen'[j] = seen[j]
      /\ \A j \in 1..Len(data) : seen'[Len(seen) + j] = data[j]
  <2>1. data \in Seq(ahead) /\ seen' = seen \o data
    BY <1>1, <1>3
  <2>2. data \in Seq(P!Ids)
    <3>1. ahead \subseteq P!Ids
      BY <1>4
    <3> HIDE DEF data
    <3> QED
      BY <2>1, <3>1
  <2> HIDE DEF data
  <2> QED
    BY <1>6, <2>1, <2>2
<1> HIDE DEF data
<1>9. WalkTypes'
  <2>1. page.nextCursor \in Nat
    <3>1. CASE page.nextCursor = P!NoCursor
      BY <3>1 DEF P!NoCursor
    <3>2. CASE page.nextCursor # P!NoCursor
      <4>1. page.nextCursor = data[Len(data)] /\ data # <<>>
        BY <1>3, <3>2 DEF data
      <4>2. Len(data) \in 1..Len(data)
        BY <1>8, <4>1
      <4>3. data[Len(data)] \in ahead
        BY <1>8, <4>2
      <4> QED
        BY <1>4, <4>1, <4>3
    <3> QED
      BY <3>1, <3>2
  <2> QED
    BY <1>1, <2>1 DEF WalkTypes
<1>10. \A j \in 2..Len(seen') : P!Comes(seen'[j - 1], seen'[j], P!Up)
  <2> SUFFICES ASSUME NEW j \in 2..Len(seen')
               PROVE  P!Comes(seen'[j - 1], seen'[j], P!Up)
    OBVIOUS
  <2>1. CASE j <= Len(seen)
    <3>1. j \in 2..Len(seen) /\ j \in 1..Len(seen) /\ j - 1 \in 1..Len(seen)
      BY <1>8, <2>1
    <3> QED
      BY <1>6, <1>8, <3>1
  <2>2. CASE j > Len(seen) + 1
    <3>1. PICK k \in 2..Len(data) : j = Len(seen) + k
      <4>1. j - Len(seen) \in 2..Len(data) /\ j = Len(seen) + (j - Len(seen))
        BY <1>8, <2>2
      <4> QED
        BY <4>1
    <3>2. k \in 1..Len(data) /\ k - 1 \in 1..Len(data) /\ k - 1 < k /\ j - 1 = Len(seen) + (k - 1)
      BY <1>8, <3>1
    <3>3. P!Comes(data[k - 1], data[k], P!Up)
      BY <1>3, <3>2 DEF data
    <3> QED
      BY <1>8, <3>1, <3>2, <3>3
  <2>3. CASE j = Len(seen) + 1
    <3>1. Len(seen) # 0 /\ 1 \in 1..Len(data) /\ j - 1 = Len(seen) /\ Len(seen) \in 1..Len(seen)
      BY <1>8, <2>3
    <3>2. walk = "turning"
      BY <1>1, <1>6, <3>1 DEF WalkTypes
    <3>3. cursor = seen[Len(seen)] /\ seen[Len(seen)] \in P!Ids
      BY <1>6, <3>1, <3>2
    <3>4. cursor # P!NoCursor
      BY <3>3 DEF P!Ids, P!NoCursor
    <3>5. data[1] \in ahead
      BY <1>8, <3>1
    <3>6. P!Comes(cursor, data[1], P!Up)
      BY <3>4, <3>5 DEF ahead, P!Beyond, P!Comes
    <3> QED
      BY <1>8, <2>3, <3>1, <3>3, <3>6
  <2> QED
    BY <1>8, <2>1, <2>2, <2>3
<1>11. due \subseteq P!Range(seen') \cup P!Ahead'
  <2> SUFFICES ASSUME NEW i \in due PROVE i \in P!Range(seen') \/ i \in P!Ahead'
    OBVIOUS
  <2>1. CASE i \in P!Range(seen)
    <3>1. PICK j \in 1..Len(seen) : i = seen[j]
      BY <1>6, <2>1 DEF P!Range
    <3>2. j \in DOMAIN seen' /\ seen'[j] = i
      BY <1>8, <3>1
    <3> QED
      BY <3>2 DEF P!Range
  <2>2. CASE i \in P!Ahead
    <3>1. i \in ahead
      BY <1>6, <1>7, <2>2 DEF ahead, P!Beyond
    <3>2. CASE \E m \in 1..Len(data) : i = data[m]
      <4>1. PICK m \in 1..Len(data) : i = data[m]
        BY <3>2
      <4>2. Len(seen) + m \in DOMAIN seen' /\ seen'[Len(seen) + m] = i
        BY <1>8, <4>1
      <4> QED
        BY <4>2 DEF P!Range
    <3>3. CASE ~ \E m \in 1..Len(data) : i = data[m]
      <4>1. page.nextCursor # P!NoCursor /\ P!Comes(page.nextCursor, i, P!Up)
        BY <1>3, <3>1, <3>3 DEF data
      <4>2. walk' = "turning" /\ cursor' = page.nextCursor
        BY <1>1, <4>1
      <4>3. i \in P!Ids
        BY <1>4, <3>1
      <4>4. P!Ahead' = P!Beyond(P!Ids, cursor', P!Up)
        BY <1>5, <4>2 DEF P!Ahead
      <4> QED
        BY <4>1, <4>2, <4>3, <4>4 DEF P!Beyond, P!Comes
    <3> QED
      BY <3>2, <3>3
  <2> QED
    BY <1>6, <2>1, <2>2
<1>12. walk' = "turning" => seen' # <<>> /\ cursor' = seen'[Len(seen')]
  <2> SUFFICES ASSUME walk' = "turning"
               PROVE  seen' # <<>> /\ cursor' = seen'[Len(seen')]
    OBVIOUS
  <2>1. page.nextCursor # P!NoCursor
    BY <1>1
  <2>2. data # <<>> /\ page.nextCursor = data[Len(data)]
    BY <1>3, <2>1 DEF data
  <2>3. Len(data) \in 1..Len(data) /\ Len(seen') # 0
    BY <1>8, <2>2
  <2> QED
    BY <1>1, <1>8, <2>2, <2>3
<1>13. walk' # "before"
  BY <1>1
<1> QED
  BY <1>1, <1>5, <1>6, <1>8, <1>9, <1>10, <1>11, <1>12, <1>13 DEF P!WalkInv

LEMMA WalkStep ==
    ASSUME WalkTypes, P!WalkInv, [P!Next]_(P!vars)
    PROVE  WalkTypes' /\ P!WalkInv'
<1>1. ASSUME NEW limit \in 1..MaxLimit, P!TurnPage(limit)
      PROVE  WalkTypes' /\ P!WalkInv'
  BY <1>1, WalkTurns
<1>2. ASSUME NEW i \in P!Ids, NEW s, P!Becomes(i, s)
      PROVE  WalkTypes' /\ P!WalkInv'
  <2>1. /\ list' = list /\ asked' = asked /\ cursor' = cursor /\ walk' = walk /\ seen' = seen
        /\ due' = (due \cup P!Ahead) \cap P!Listed(row)'
    BY <1>2 DEF P!Becomes, P!Listed
  <2>2. P!Ahead' = P!Ahead /\ P!Up' = P!Up
    BY <2>1 DEF P!Ahead, P!Up
  <2> QED
    BY <2>1, <2>2 DEF P!WalkInv, WalkTypes
<1>3. CASE UNCHANGED P!vars
  <2>1. /\ list' = list /\ asked' = asked /\ cursor' = cursor /\ walk' = walk /\ seen' = seen
        /\ due' = due /\ P!Listed(row)' = P!Listed(row)
    BY <1>3 DEF P!vars, P!Listed
  <2>2. P!Ahead' = P!Ahead /\ P!Up' = P!Up
    BY <2>1 DEF P!Ahead, P!Up
  <2> QED
    BY <2>1, <2>2 DEF P!WalkInv, WalkTypes
<1> QED
  BY <1>1, <1>2, <1>3 DEF P!Next, P!Create, P!Change

(* In every list of the API, of any number of rows, read in pages of any length   *)
(* while rows come, change and go: the client sees them in the order of their   *)
(* ids, none twice, and by the end every row that lay ahead of it and could be  *)
(* shown from then on.                                                         *)
THEOREM PagesMissNothing == P!Spec => []WalkSeesEachOnce
<1>1. P!Spec => [](WalkTypes /\ P!WalkInv)
  <2>1. (WalkTypes /\ P!WalkInv) /\ [P!Next]_(P!vars) => (WalkTypes /\ P!WalkInv)'
    BY WalkStep
  <2> QED
    BY <2>1, WalkInit, PTL DEF P!Spec
<1>2. P!WalkInv => WalkSeesEachOnce
  BY DEF P!WalkInv, WalkSeesEachOnce, P!WalkSeesEachOnce, P!Ahead
<1> QED
  BY <1>1, <1>2, PTL

-----------------------------------------------------------------------------
(* Sums.  Total folds over a finite domain in an order that CHOOSE picks; any    *)
(* function of sets that takes one element after another away equals it.        *)
LEMMA Unfold ==
    ASSUME NEW f
    PROVE  \E iter :
              /\ R!Total(f) = iter[DOMAIN f]
              /\ iter = CHOOSE g : g = [s \in SUBSET DOMAIN f |->
                                           IF s = {} THEN 0
                                           ELSE f[CHOOSE x \in s : TRUE] + g[s \ {CHOOSE x \in s : TRUE}]]
BY DEF R!Total, R!FoldFunction, R!FoldFunctionOnSet, R!MapThenFoldSet

LEMMA SumIs ==
    ASSUME NEW S, IsFiniteSet(S), NEW f, DOMAIN f = S, NEW h, h[{}] = 0,
           \A s \in SUBSET S : \A x \in s : h[s] = f[x] + h[s \ {x}]
    PROVE  R!Total(f) = h[S]
<1> DEFINE One(s) == CHOOSE x \in s : TRUE
           Step(g) == [s \in SUBSET S |-> IF s = {} THEN 0 ELSE f[One(s)] + g[s \ {One(s)}]]
<1>1. PICK iter : R!Total(f) = iter[S] /\ iter = CHOOSE g : g = Step(g)
  BY Unfold
<1>2. \A s : s # {} => One(s) \in s
  OBVIOUS
<1> HIDE DEF One
<1>3. iter = Step(iter)
  <2> DEFINE g == [s \in SUBSET S |-> h[s]]
  <2>1. g = Step(g)
    <3>1. ASSUME NEW s \in SUBSET S
          PROVE  g[s] = IF s = {} THEN 0 ELSE f[One(s)] + g[s \ {One(s)}]
      <4>1. CASE s = {}
        BY <4>1
      <4>2. CASE s # {}
        <5>1. One(s) \in s /\ s \ {One(s)} \in SUBSET S
          BY <1>2, <4>2
        <5> QED
          BY <4>2, <5>1
      <4> QED
        BY <4>1, <4>2
    <3> HIDE DEF g
    <3>2. g = [s \in SUBSET S |-> g[s]]
      BY DEF g
    <3> QED
      BY <3>1, <3>2
  <2> HIDE DEF g, Step
  <2> QED
    BY <1>1, <2>1
<1> DEFINE Off == {s \in SUBSET S : iter[s] # h[s]}
           Sizes == {Cardinality(s) : s \in Off}
           W == OpToRel(<, Nat)
<1>4. IsWellFoundedOn(W, Nat)
  BY NatLessThanWellFounded
<1>5. \A x, y \in Nat : y < x => <<y, x>> \in W
  BY DEF OpToRel
<1> HIDE DEF W
<1>6. \A s \in SUBSET S : IsFiniteSet(s) /\ Cardinality(s) \in Nat
  BY FS_Subset, FS_CardinalityType
<1>7. Off = {}
  <2> SUFFICES ASSUME Off # {} PROVE FALSE
    OBVIOUS
  <2>1. Sizes \subseteq Nat /\ Sizes # {}
    BY <1>6
  <2>2. PICK n \in Sizes : \A m \in Sizes : ~(<<m, n>> \in W)
    BY <1>4, <2>1, WFMin
  <2>3. PICK s \in Off : n = Cardinality(s)
    BY <2>2
  <2>4. s \in SUBSET S /\ s # {}
    <3>1. iter[{}] = 0
      BY <1>3
    <3> QED
      BY <2>3, <3>1
  <2>5. One(s) \in s /\ s \ {One(s)} \in SUBSET S
    BY <1>2, <2>4
  <2>6. Cardinality(s \ {One(s)}) = Cardinality(s) - 1
    BY <1>6, <2>4, <2>5, FS_RemoveElement
  <2>7. Cardinality(s \ {One(s)}) < n /\ n \in Nat /\ Cardinality(s \ {One(s)}) \in Nat
    BY <1>6, <2>3, <2>4, <2>5, <2>6
  <2>8. s \ {One(s)} \notin Off
    BY <1>5, <2>2, <2>7
  <2>9. iter[s \ {One(s)}] = h[s \ {One(s)}]
    BY <2>5, <2>8
  <2>10. iter[s] = f[One(s)] + iter[s \ {One(s)}]
    BY <1>3, <2>4
  <2> QED
    BY <2>3, <2>4, <2>5, <2>9, <2>10
<1> QED
  BY <1>1, <1>7

(* Things counted by a label that each of them has are counted once. *)
LEMMA CountedByLabel ==
    ASSUME NEW A, IsFiniteSet(A), NEW S, IsFiniteSet(S), NEW label, \A a \in A : label[a] \in S,
           NEW f, DOMAIN f = S, \A x \in S : f[x] = Cardinality({a \in A : label[a] = x})
    PROVE  R!Total(f) = Cardinality(A)
<1> DEFINE In(s) == {a \in A : label[a] \in s}
           h == [s \in SUBSET S |-> Cardinality(In(s))]
<1>1. h[{}] = 0
  <2>1. In({}) = {}
    OBVIOUS
  <2> QED
    BY <2>1, FS_EmptySet
<1>2. ASSUME NEW s \in SUBSET S, NEW x \in s
      PROVE  h[s] = f[x] + h[s \ {x}]
  <2> DEFINE X == {a \in A : label[a] = x}
             Y == In(s \ {x})
  <2>1. In(s) = X \cup Y /\ X \cap Y = {} /\ X \subseteq A /\ Y \subseteq A
    OBVIOUS
  <2> HIDE DEF X, Y
  <2>2. IsFiniteSet(X) /\ IsFiniteSet(Y)
    BY <2>1, FS_Subset
  <2>3. Cardinality(X \cup Y) = Cardinality(X) + Cardinality(Y)
    <3>1. Cardinality(X) \in Nat /\ Cardinality(Y) \in Nat /\ Cardinality(X \cap Y) = 0
      BY <2>1, <2>2, FS_CardinalityType, FS_EmptySet
    <3>2. Cardinality(X \cup Y) = Cardinality(X) + Cardinality(Y) - Cardinality(X \cap Y)
      BY <2>2, FS_Union
    <3> QED
      BY <3>1, <3>2
  <2>4. h[s] = Cardinality(X \cup Y) /\ h[s \ {x}] = Cardinality(Y)
    BY <2>1 DEF Y
  <2>5. f[x] = Cardinality(X)
    BY DEF X
  <2> QED
    BY <2>3, <2>4, <2>5
<1>3. h[S] = Cardinality(A)
  <2>1. In(S) = A
    OBVIOUS
  <2> QED
    BY <2>1
<1> HIDE DEF h
<1> QED
  BY <1>1, <1>2, <1>3, SumIs

LEMMA SameSizes == \A S : R!Cardinality(S) = Cardinality(S) /\ R!IsFiniteSet(S) = IsFiniteSet(S)
BY DEF R!Cardinality, Cardinality, R!IsFiniteSet, IsFiniteSet

LEMMA ImageIsFinite ==
    ASSUME NEW S, IsFiniteSet(S), NEW label
    PROVE  IsFiniteSet({label[a] : a \in S})
<1> DEFINE T == {label[a] : a \in S}
           g == [a \in S |-> label[a]]
<1>1. g \in Surjection(S, T)
  <2>1. g \in [S -> T]
    OBVIOUS
  <2>2. \A t \in T : \E a \in S : g[a] = t
    OBVIOUS
  <2> QED
    BY <2>1, <2>2 DEF Surjection
<1> QED
  BY <1>1, FS_Surjection

LEMMA DataIs ==
    /\ IsFiniteSet(Users) /\ IsFiniteSet(Games) /\ IsFiniteSet(Tests) /\ IsFiniteSet(Parts)
    /\ IsFiniteSet(Questions)
    /\ UserOf \in [Parts -> Users] /\ TestOf \in [Parts -> Tests] /\ GameOf \in [Tests -> Games]
    /\ Days \subseteq Int /\ StartDay \in [Tests -> Int] /\ NoDay \in Int /\ SinceDay \in Int
    /\ \A u \in Users : Profile[u].archetype \in R!Archetypes /\ Profile[u].tier \in R!Tiers \cup {"all"}
    /\ "all" \notin R!Tiers
    /\ QuestionsOf \in [Tests -> SUBSET Questions] /\ MaxRating \in Nat
    /\ \A q \in Questions : R!Rating(q) =>
          /\ QuestionOf[q].min \in {R!Null} \cup (0..MaxRating)
          /\ QuestionOf[q].max \in {R!Null} \cup (0..MaxRating)
BY MetricsAssumption, SameSizes DEF R!DataFits

(* The tables have a row, or none, for every participation. *)
RowTypes ==
    /\ DOMAIN session = Parts /\ DOMAIN day = Parts /\ DOMAIN judged = Parts /\ DOMAIN response = Parts
    /\ session = [p \in Parts |-> session[p]] /\ day = [p \in Parts |-> day[p]]
    /\ judged = [p \in Parts |-> judged[p]] /\ response = [p \in Parts |-> response[p]]

NumbersInv == RowTypes /\ R!RowsInv

LEMMA NumbersInit == R!Init => NumbersInv
<1> SUFFICES ASSUME R!Init PROVE NumbersInv
  OBVIOUS
<1>1. RowTypes
  BY DEF R!Init, RowTypes
<1>2. ~R!NoResponse.sent
  BY DEF R!NoResponse
<1> QED
  BY <1>1, <1>2 DEF R!Init, R!RowsInv, NumbersInv

(* What checkFormAnswers lets through answers questions of the form, within their   *)
(* scale.                                                                      *)
LEMMA CheckedFits ==
    ASSUME NEW t, NEW raw, NEW q \in DOMAIN R!CheckFormAnswers(t, raw).answers
    PROVE  /\ q \in QuestionsOf[t]
           /\ LET v == R!CheckFormAnswers(t, raw).answers[q] IN
              R!Rating(q) => v.kind = "number" /\ v.n \in R!ScaleOf(q)
<1> DEFINE first    == {i \in DOMAIN raw : \A j \in 1..(i - 1) : raw[j].q # raw[i].q}
           own      == {i \in first : raw[i].q \in QuestionsOf[t]}
           given    == {i \in own : ~R!Blank(raw[i].value)}
           accepted == {i \in given : R!Fits(raw[i].q, raw[i].value)}
           Kept(v) == IF v.kind = "option" THEN [kind |-> "list", ids |-> <<v.id>>] ELSE v
           pick == CHOOSE i \in accepted : raw[i].q = q
<1>1. R!CheckFormAnswers(t, raw).answers =
         [x \in {raw[i].q : i \in accepted} |->
             Kept(raw[CHOOSE i \in accepted : raw[i].q = x].value)]
  BY DEF R!CheckFormAnswers
<1>2. \E i \in accepted : raw[i].q = q
  <2> HIDE DEF accepted
  <2> QED
    BY <1>1
<1>3. pick \in accepted /\ raw[pick].q = q
  <2> HIDE DEF accepted
  <2> QED
    BY <1>2
<1>4. R!CheckFormAnswers(t, raw).answers[q] = Kept(raw[pick].value)
  <2> HIDE DEF accepted, Kept
  <2> QED
    BY <1>1
<1>5. q \in QuestionsOf[t] /\ R!Fits(q, raw[pick].value)
  <2> HIDE DEF pick
  <2> QED
    BY <1>3
<1> HIDE DEF pick
<1>6. ASSUME R!Rating(q)
      PROVE  raw[pick].value.kind = "number" /\ raw[pick].value.n \in R!ScaleOf(q)
  BY <1>5, <1>6 DEF R!Fits, R!Rating
<1> QED
  BY <1>4, <1>5, <1>6

LEMMA NumbersStep ==
    ASSUME NumbersInv, [R!Next]_(R!vars)
    PROVE  NumbersInv'
<1> USE DEF NumbersInv
<1>1. ASSUME NEW p \in Parts, R!Join(p)
      PROVE  NumbersInv'
  BY <1>1 DEF R!Join, RowTypes, R!RowsInv, R!Value
<1>2. ASSUME NEW p \in Parts, NEW d \in Days, R!Start(p, d)
      PROVE  NumbersInv'
  BY <1>2 DEF R!Start, RowTypes, R!RowsInv, R!Value
<1>3. ASSUME NEW p \in Parts, NEW s \in {"processing", "invalidated"}, R!Ends(p, s)
      PROVE  NumbersInv'
  BY <1>3 DEF R!Ends, RowTypes, R!RowsInv, R!Value
<1>4. ASSUME NEW p \in Parts, NEW v \in {"valid", "invalid"}, R!Judge(p, v)
      PROVE  NumbersInv'
  BY <1>4 DEF R!Judge, RowTypes, R!RowsInv, R!Value
<1>5. ASSUME NEW p \in Parts, R!Rate(p, "valid", "studio") \/ R!Rate(p, "studio", "valid")
      PROVE  NumbersInv'
  BY <1>5 DEF R!Rate, RowTypes, R!RowsInv, R!Value
<1>6. ASSUME NEW p \in Parts, NEW raw \in Forms, R!Submit(p, raw)
      PROVE  NumbersInv'
  <2> DEFINE new == R!CheckFormAnswers(TestOf[p], raw).answers
  <2>1. /\ response' = [response EXCEPT ![p] = [sent |-> TRUE, answers |-> new]]
        /\ joined' = joined /\ session' = session /\ day' = day /\ judged' = judged
        /\ legacy' = legacy /\ gone' = gone
    BY <1>6 DEF R!Submit
  <2>2. \A q \in DOMAIN new :
           /\ q \in QuestionsOf[TestOf[p]]
           /\ R!Rating(q) => new[q].kind = "number" /\ new[q].n \in R!ScaleOf(q)
    BY CheckedFits
  <2> HIDE DEF new
  <2>3. RowTypes'
    BY <2>1 DEF RowTypes
  <2>4. response'[p] = [sent |-> TRUE, answers |-> new]
        /\ \A o \in Parts \ {p} : response'[o] = response[o]
    BY <2>1 DEF RowTypes
  <2>5. ASSUME NEW o \in Parts, response'[o].sent, o \notin legacy, NEW q \in DOMAIN response'[o].answers
        PROVE  /\ q \in QuestionsOf[TestOf[o]]
               /\ R!Rating(q) => /\ response'[o].answers[q].kind = "number"
                                 /\ response'[o].answers[q].n \in R!ScaleOf(q)
    <3>1. CASE o = p
      BY <2>2, <2>4, <2>5, <3>1
    <3>2. CASE o # p
      BY <2>4, <2>5, <3>2 DEF R!RowsInv, R!Value
    <3> QED
      BY <3>1, <3>2
  <2> QED
    BY <2>1, <2>3, <2>5 DEF R!RowsInv, R!Value
<1>7. ASSUME NEW p \in Parts, NEW raw \in Forms, R!SubmitUnchecked(p, raw)
      PROVE  NumbersInv'
  <2>1. PICK new : response' = [response EXCEPT ![p] = new]
    BY <1>7 DEF R!SubmitUnchecked
  <2>2. /\ joined' = joined /\ session' = session /\ day' = day /\ judged' = judged
        /\ legacy' = legacy \cup {p} /\ gone' = gone
    BY <1>7 DEF R!SubmitUnchecked
  <2>3. RowTypes'
    BY <2>1, <2>2 DEF RowTypes
  <2>4. \A o \in Parts \ {p} : response'[o] = response[o]
    BY <2>1 DEF RowTypes
  <2> QED
    BY <2>2, <2>3, <2>4 DEF R!RowsInv, R!Value
<1>8. ASSUME NEW g \in Games, R!RemoveGame(g)
      PROVE  NumbersInv'
  BY <1>8 DEF R!RemoveGame, RowTypes, R!RowsInv, R!Value
<1>9. ASSUME NEW u, NEW g, NEW r, R!CreateReview(u, g, r)
      PROVE  NumbersInv'
  BY <1>9 DEF R!CreateReview, RowTypes, R!RowsInv, R!Value
<1>10. CASE UNCHANGED R!vars
  BY <1>10 DEF R!vars, RowTypes, R!RowsInv, R!Value
<1> QED
  BY <1>1, <1>2, <1>3, <1>4, <1>5, <1>6, <1>7, <1>8, <1>9, <1>10 DEF R!Next

(* What the queries count is finite, and is of some test. *)
LEMMA RowsAreFinite ==
    ASSUME NumbersInv, NEW T
    PROVE  /\ R!SessionsOf(T) \subseteq R!PartsOf(T) /\ R!PartsOf(T) \subseteq joined
           /\ joined \subseteq Parts
           /\ R!Valid(T) \subseteq R!Completed(T) /\ R!Completed(T) \subseteq R!SessionsOf(T)
           /\ IsFiniteSet(R!PartsOf(T)) /\ IsFiniteSet(R!SessionsOf(T))
           /\ IsFiniteSet(R!Valid(T)) /\ IsFiniteSet(R!Completed(T))
           /\ Cardinality(R!Valid(T)) <= Cardinality(R!Completed(T))
<1>1. /\ R!SessionsOf(T) \subseteq R!PartsOf(T) /\ R!PartsOf(T) \subseteq joined
      /\ joined \subseteq Parts
      /\ R!Completed(T) \subseteq R!SessionsOf(T) /\ R!Valid(T) \subseteq R!SessionsOf(T)
  BY DEF NumbersInv, R!RowsInv, R!SessionsOf, R!PartsOf, R!Completed, R!Valid
<1>2. R!Valid(T) \subseteq R!Completed(T)
  BY <1>1 DEF NumbersInv, R!RowsInv, R!Completed, R!Valid
<1>3. /\ IsFiniteSet(R!PartsOf(T)) /\ IsFiniteSet(R!SessionsOf(T))
      /\ IsFiniteSet(R!Valid(T)) /\ IsFiniteSet(R!Completed(T))
  BY <1>1, DataIs, FS_Subset
<1> QED
  BY <1>1, <1>2, <1>3, FS_Subset

(* A count over some tests is the counts of each of them together, and a count   *)
(* over the tests of some games those of each of the games.                    *)
LEMMA TestByTest ==
    ASSUME NumbersInv, NEW T \in SUBSET Tests, NEW f, DOMAIN f = T
    PROVE  /\ (\A t \in T : f[t] = R!Cardinality(R!Valid({t})))
                 => R!Total(f) = R!Cardinality(R!Valid(T))
           /\ (\A t \in T : f[t] = R!Cardinality(R!Completed({t})))
                 => R!Total(f) = R!Cardinality(R!Completed(T))
           /\ (\A t \in T : f[t] = R!Cardinality(R!PartsOf({t})))
                 => R!Total(f) = R!Cardinality(R!PartsOf(T))
<1>0. IsFiniteSet(T)
  BY DataIs, FS_Subset
<1>1. \A p \in R!PartsOf(T) : TestOf[p] \in T
  BY DEF R!PartsOf
<1>2. /\ R!Valid(T) \subseteq R!PartsOf(T) /\ R!Completed(T) \subseteq R!PartsOf(T)
      /\ IsFiniteSet(R!PartsOf(T)) /\ IsFiniteSet(R!Valid(T)) /\ IsFiniteSet(R!Completed(T))
  BY RowsAreFinite
<1>3. \A t \in T : R!PartsOf({t}) = {p \in R!PartsOf(T) : TestOf[p] = t}
  BY DEF R!PartsOf
<1>4. \A t \in T : R!Valid({t}) = {p \in R!Valid(T) : TestOf[p] = t}
  BY DEF R!PartsOf, R!SessionsOf, R!Valid
<1>5. \A t \in T : R!Completed({t}) = {p \in R!Completed(T) : TestOf[p] = t}
  BY DEF R!PartsOf, R!SessionsOf, R!Completed
<1>6. ASSUME \A t \in T : f[t] = R!Cardinality(R!Valid({t}))
      PROVE  R!Total(f) = R!Cardinality(R!Valid(T))
  <2>1. \A t \in T : f[t] = Cardinality({p \in R!Valid(T) : TestOf[p] = t})
    BY <1>4, <1>6, SameSizes
  <2>2. \A p \in R!Valid(T) : TestOf[p] \in T
    BY <1>1, <1>2
  <2> QED
    BY <1>0, <1>2, <2>1, <2>2, CountedByLabel, SameSizes
<1>7. ASSUME \A t \in T : f[t] = R!Cardinality(R!Completed({t}))
      PROVE  R!Total(f) = R!Cardinality(R!Completed(T))
  <2>1. \A t \in T : f[t] = Cardinality({p \in R!Completed(T) : TestOf[p] = t})
    BY <1>5, <1>7, SameSizes
  <2>2. \A p \in R!Completed(T) : TestOf[p] \in T
    BY <1>1, <1>2
  <2> QED
    BY <1>0, <1>2, <2>1, <2>2, CountedByLabel, SameSizes
<1>8. ASSUME \A t \in T : f[t] = R!Cardinality(R!PartsOf({t}))
      PROVE  R!Total(f) = R!Cardinality(R!PartsOf(T))
  <2>1. \A t \in T : f[t] = Cardinality({p \in R!PartsOf(T) : TestOf[p] = t})
    BY <1>3, <1>8, SameSizes
  <2> QED
    BY <1>0, <1>1, <1>2, <2>1, CountedByLabel, SameSizes
<1> QED
  BY <1>6, <1>7, <1>8

(* What the Home shows and the cards of the games that are left do not is what   *)
(* the tests of removed games hold.                                            *)
LEMMA GameByGame ==
    ASSUME NumbersInv, NEW f, DOMAIN f = R!Live
    PROVE  /\ (\A g \in R!Live : f[g] = R!Cardinality(R!Valid(R!TestsOf({g}))))
                 => R!Cardinality(R!Valid(Tests)) - R!Cardinality(R!Valid(R!TestsOf(gone)))
                       = R!Total(f)
           /\ (\A g \in R!Live : f[g] = R!Cardinality(R!TestsOf({g})))
                 => R!Cardinality(Tests) - R!Cardinality(R!TestsOf(gone)) = R!Total(f)
<1>0. /\ R!Live \subseteq Games /\ R!Live \cap gone = {} /\ R!Live \cup gone = Games
      /\ IsFiniteSet(R!Live)
  BY DataIs, FS_Subset DEF R!Live, NumbersInv, R!RowsInv
<1> DEFINE left == R!TestsOf(R!Live)
           lost == R!TestsOf(gone)
<1>1. left \cup lost = Tests /\ left \cap lost = {}
  BY <1>0, DataIs DEF R!TestsOf
<1>2. IsFiniteSet(left) /\ IsFiniteSet(lost)
  BY <1>1, DataIs, FS_Subset
<1>3. ASSUME NEW A, NEW B, A \cap B = {}, IsFiniteSet(A), IsFiniteSet(B)
      PROVE  Cardinality(A \cup B) - Cardinality(B) = Cardinality(A)
  <2>1. Cardinality(A \cup B) = Cardinality(A) + Cardinality(B) - Cardinality(A \cap B)
    BY <1>3, FS_Union
  <2>2. Cardinality(A) \in Nat /\ Cardinality(B) \in Nat /\ Cardinality(A \cap B) = 0
    BY <1>3, FS_CardinalityType, FS_EmptySet
  <2> QED
    BY <2>1, <2>2
<1>4. /\ R!Valid(Tests) = R!Valid(left) \cup R!Valid(lost)
      /\ R!Valid(left) \cap R!Valid(lost) = {}
      /\ IsFiniteSet(R!Valid(left)) /\ IsFiniteSet(R!Valid(lost))
  <2>1. R!Valid(Tests) = R!Valid(left) \cup R!Valid(lost)
    <3> HIDE DEF left, lost
    <3> QED
      BY <1>1 DEF R!Valid, R!SessionsOf, R!PartsOf
  <2>2. R!Valid(left) \cap R!Valid(lost) = {}
    <3> HIDE DEF left, lost
    <3> QED
      BY <1>1 DEF R!Valid, R!SessionsOf, R!PartsOf
  <2> QED
    BY <2>1, <2>2, RowsAreFinite
<1>5. ASSUME \A g \in R!Live : f[g] = R!Cardinality(R!Valid(R!TestsOf({g})))
      PROVE  R!Total(f) = R!Cardinality(R!Valid(left))
  <2> DEFINE label == [p \in Parts |-> GameOf[TestOf[p]]]
  <2>1. \A p \in R!Valid(left) : p \in Parts /\ TestOf[p] \in left
    BY RowsAreFinite DEF R!Valid, R!SessionsOf, R!PartsOf
  <2>2. \A p \in R!Valid(left) : label[p] = GameOf[TestOf[p]] /\ label[p] \in R!Live
    BY <2>1 DEF R!TestsOf
  <2>3. \A g \in R!Live : R!Valid(R!TestsOf({g})) = {p \in R!Valid(left) : label[p] = g}
    <3> SUFFICES ASSUME NEW g \in R!Live, NEW p
                 PROVE  p \in R!Valid(R!TestsOf({g})) <=> p \in R!Valid(left) /\ label[p] = g
      OBVIOUS
    <3>1. p \in R!Valid(R!TestsOf({g})) <=> p \in R!Valid(left) /\ GameOf[TestOf[p]] = g
      BY DEF R!Valid, R!SessionsOf, R!PartsOf, R!TestsOf
    <3> HIDE DEF label
    <3> QED
      BY <2>2, <3>1
  <2> HIDE DEF label, left
  <2>4. \A g \in R!Live : f[g] = Cardinality({p \in R!Valid(left) : label[p] = g})
    BY <1>5, <2>3, SameSizes
  <2> QED
    BY <1>0, <1>4, <2>2, <2>4, CountedByLabel, SameSizes
<1>6. ASSUME \A g \in R!Live : f[g] = R!Cardinality(R!TestsOf({g}))
      PROVE  R!Total(f) = R!Cardinality(left)
  <2>1. \A t \in left : GameOf[t] \in R!Live
    BY DEF R!TestsOf
  <2>2. \A g \in R!Live : R!TestsOf({g}) = {t \in left : GameOf[t] = g}
    BY DEF R!TestsOf
  <2> HIDE DEF left
  <2>3. \A g \in R!Live : f[g] = Cardinality({t \in left : GameOf[t] = g})
    BY <1>6, <2>2, SameSizes
  <2> QED
    BY <1>0, <1>2, <2>1, <2>3, CountedByLabel, SameSizes
<1> HIDE DEF left, lost
<1>7. Cardinality(R!Valid(Tests)) - Cardinality(R!Valid(lost)) = Cardinality(R!Valid(left))
  BY <1>3, <1>4
<1>8. Cardinality(Tests) - Cardinality(lost) = Cardinality(left)
  BY <1>1, <1>2, <1>3
<1> QED
  BY <1>5, <1>6, <1>7, <1>8, SameSizes DEF lost

LEMMA DaysHoldValid ==
    ASSUME NumbersInv
    PROVE  R!Total(R!ValidSessionsPerDay) <= R!Cardinality(R!Valid(Tests))
<1> DEFINE V == R!Valid(Tests)
           A == {p \in V : day[p] >= SinceDay}
           S == {day[p] : p \in A}
           f == R!ValidSessionsPerDay
<1>1. IsFiniteSet(V) /\ IsFiniteSet(A) /\ Cardinality(A) <= Cardinality(V)
  BY RowsAreFinite, FS_Subset
<1>2. IsFiniteSet(S)
  <2> HIDE DEF A
  <2> QED
    BY <1>1, ImageIsFinite
<1>3. f = [d \in S |-> R!Cardinality({p \in V : day[p] = d})]
  BY DEF R!ValidSessionsPerDay
<1>4. \A d \in S : {p \in V : day[p] = d} = {p \in A : day[p] = d}
  OBVIOUS
<1>5. DOMAIN f = S /\ \A d \in S : f[d] = Cardinality({p \in A : day[p] = d})
  <2> HIDE DEF S, f, A, V
  <2> QED
    BY <1>3, <1>4, SameSizes
<1>6. \A p \in A : day[p] \in S
  OBVIOUS
<1> HIDE DEF S, f, A, V
<1>7. R!Total(f) = Cardinality(A)
  BY <1>1, <1>2, <1>5, <1>6, CountedByLabel
<1> QED
  BY <1>1, <1>7, SameSizes DEF f, V

LEMMA HomeAddsUp == NumbersInv => HomeAgrees
<1> SUFFICES ASSUME NumbersInv PROVE HomeAgrees
  OBVIOUS
<1> DEFINE home == R!KpiCounts
           report == [t \in Tests |-> R!Overview(t)]
           card == [g \in R!Live |-> R!MetricsByGameId(g)]
<1>1. /\ home.sessionsValid = R!Cardinality(R!Valid(Tests))
      /\ home.sessionsCompleted = R!Cardinality(R!Completed(Tests))
      /\ home.participationsTotal = R!Cardinality(R!PartsOf(Tests))
      /\ home.testsTotal = R!Cardinality(Tests)
      /\ home.averageRating = R!RatingOf(R!Live)
  BY DEF R!KpiCounts, R!RatedGames
<1>2. \A t \in Tests : /\ report[t].validSessions = R!Cardinality(R!Valid({t}))
                       /\ report[t].completedSessions = R!Cardinality(R!Completed({t}))
                       /\ report[t].totalParticipations = R!Cardinality(R!PartsOf({t}))
  BY DEF R!Overview
<1>3. \A g \in R!Live : /\ card[g].sessionsValid = R!Cardinality(R!Valid(R!TestsOf({g})))
                        /\ card[g].testsTotal = R!Cardinality(R!TestsOf({g}))
                        /\ card[g].playersTotal = R!Cardinality(R!UsersOf(R!PartsOf(R!TestsOf({g}))))
                        /\ card[g].averageRating = R!RatingOf({g})
  BY DEF R!MetricsByGameId
<1> HIDE DEF home, report, card
<1>4. /\ home.sessionsValid = R!Total([t \in Tests |-> report[t].validSessions])
      /\ home.sessionsCompleted = R!Total([t \in Tests |-> report[t].completedSessions])
      /\ home.participationsTotal = R!Total([t \in Tests |-> report[t].totalParticipations])
  <2>1. home.sessionsValid = R!Total([t \in Tests |-> report[t].validSessions])
    <3> DEFINE f == [t \in Tests |-> report[t].validSessions]
    <3>1. DOMAIN f = Tests /\ \A t \in Tests : f[t] = R!Cardinality(R!Valid({t}))
      BY <1>2
    <3> HIDE DEF f
    <3>2. R!Total(f) = R!Cardinality(R!Valid(Tests))
      BY <3>1, TestByTest
    <3> QED
      BY <1>1, <3>2 DEF f
  <2>2. home.sessionsCompleted = R!Total([t \in Tests |-> report[t].completedSessions])
    <3> DEFINE f == [t \in Tests |-> report[t].completedSessions]
    <3>1. DOMAIN f = Tests /\ \A t \in Tests : f[t] = R!Cardinality(R!Completed({t}))
      BY <1>2
    <3> HIDE DEF f
    <3>2. R!Total(f) = R!Cardinality(R!Completed(Tests))
      BY <3>1, TestByTest
    <3> QED
      BY <1>1, <3>2 DEF f
  <2>3. home.participationsTotal = R!Total([t \in Tests |-> report[t].totalParticipations])
    <3> DEFINE f == [t \in Tests |-> report[t].totalParticipations]
    <3>1. DOMAIN f = Tests /\ \A t \in Tests : f[t] = R!Cardinality(R!PartsOf({t}))
      BY <1>2
    <3> HIDE DEF f
    <3>2. R!Total(f) = R!Cardinality(R!PartsOf(Tests))
      BY <3>1, TestByTest
    <3> QED
      BY <1>1, <3>2 DEF f
  <2> QED
    BY <2>1, <2>2, <2>3
<1>5. R!Total(R!ValidSessionsPerDay) <= home.sessionsValid
  BY <1>1, DaysHoldValid
<1>6. /\ home.sessionsValid - R!Cardinality(R!Valid(R!TestsOf(gone)))
           = R!Total([g \in R!Live |-> card[g].sessionsValid])
      /\ home.testsTotal - R!Cardinality(R!TestsOf(gone))
           = R!Total([g \in R!Live |-> card[g].testsTotal])
  <2> DEFINE f == [g \in R!Live |-> card[g].sessionsValid]
             h == [g \in R!Live |-> card[g].testsTotal]
  <2>1. DOMAIN f = R!Live /\ \A g \in R!Live : f[g] = R!Cardinality(R!Valid(R!TestsOf({g})))
    BY <1>3
  <2>2. DOMAIN h = R!Live /\ \A g \in R!Live : h[g] = R!Cardinality(R!TestsOf({g}))
    BY <1>3
  <2> HIDE DEF f, h
  <2>3. R!Cardinality(R!Valid(Tests)) - R!Cardinality(R!Valid(R!TestsOf(gone))) = R!Total(f)
    BY <2>1, GameByGame
  <2>4. R!Cardinality(Tests) - R!Cardinality(R!TestsOf(gone)) = R!Total(h)
    BY <2>2, GameByGame
  <2> QED
    BY <1>1, <2>3, <2>4 DEF f, h
<1>7. home.averageRating = UNION {card[g].averageRating : g \in R!Live}
  <2>1. \A a : a \in R!RatingOf(R!Live) <=> \E g \in R!Live : a \in R!RatingOf({g})
    <3>1. ASSUME NEW a, a \in R!RatingOf(R!Live)
          PROVE  \E g \in R!Live : a \in R!RatingOf({g})
      <4>1. PICK u \in Users, g \in R!Live : a = <<u, g>>
        BY <3>1 DEF R!RatingOf
      <4>2. a \in Users \X {g} /\ review[a[1]][a[2]] # R!Null
        BY <3>1, <4>1 DEF R!RatingOf
      <4> QED
        BY <4>2 DEF R!RatingOf
    <3>2. ASSUME NEW a, NEW g \in R!Live, a \in R!RatingOf({g})
          PROVE  a \in R!RatingOf(R!Live)
      BY <3>2 DEF R!RatingOf
    <3> QED
      BY <3>1, <3>2
  <2>2. {card[g].averageRating : g \in R!Live} = {R!RatingOf({g}) : g \in R!Live}
    BY <1>3
  <2>3. R!RatingOf(R!Live) = UNION {R!RatingOf({g}) : g \in R!Live}
    BY <2>1
  <2> QED
    BY <1>1, <2>2, <2>3
<1>8. ASSUME NEW g \in R!Live
      PROVE  LET benchmark == R!GameBenchmark(g) IN
             /\ benchmark.playersTotal = card[g].playersTotal
             /\ benchmark.averageRating = card[g].averageRating
             /\ benchmark.sessionsCompleted >= card[g].sessionsValid
             /\ benchmark.sessionsCompleted
                   = R!Total([t \in R!TestsOf({g}) |-> report[t].completedSessions])
  <2> DEFINE T == R!TestsOf({g})
             benchmark == R!GameBenchmark(g)
             f == [t \in T |-> report[t].completedSessions]
  <2>1. /\ benchmark.playersTotal = R!Cardinality(R!UsersOf(R!PartsOf(T)))
        /\ benchmark.averageRating = R!RatingOf({g})
        /\ benchmark.sessionsCompleted = R!Cardinality(R!Completed(T))
    BY DEF R!GameBenchmark
  <2>2. Cardinality(R!Valid(T)) <= Cardinality(R!Completed(T))
        /\ Cardinality(R!Valid(T)) \in Nat /\ Cardinality(R!Completed(T)) \in Nat
    BY RowsAreFinite, FS_CardinalityType
  <2>3. T \in SUBSET Tests
    BY DEF R!TestsOf
  <2>4. DOMAIN f = T /\ \A t \in T : f[t] = R!Cardinality(R!Completed({t}))
    BY <1>2, <2>3
  <2> HIDE DEF f, benchmark
  <2>5. R!Total(f) = R!Cardinality(R!Completed(T))
    <3> HIDE DEF T
    <3> QED
      BY <2>3, <2>4, TestByTest
  <2>6. benchmark.sessionsCompleted >= card[g].sessionsValid
    BY <1>3, <2>1, <2>2, SameSizes
  <2> QED
    BY <1>3, <2>1, <2>5, <2>6 DEF f, benchmark
<1> QED
  BY <1>4, <1>5, <1>6, <1>7, <1>8 DEF home, report, card, HomeAgrees, R!HomeAgrees

LEMMA Extremes ==
    ASSUME NEW S \in SUBSET Int, IsFiniteSet(S), S # {}
    PROVE  /\ R!Max(S) \in S /\ \A y \in S : R!Max(S) >= y
           /\ R!Min(S) \in S /\ \A y \in S : R!Min(S) <= y
<1>1. PICK i \in S : \A j \in S : ~P!Comes(j, i, TRUE)
  BY Ends
<1>2. PICK k \in S : \A j \in S : ~P!Comes(k, j, TRUE)
  BY Ends
<1>3. \A j \in S : i <= j /\ k >= j
  <2>1. ASSUME NEW j \in S PROVE i <= j /\ k >= j
    <3>1. ~(j < i) /\ ~(k < j)
      BY <1>1, <1>2 DEF P!Comes
    <3> QED
      BY <3>1
  <2> QED
    BY <2>1
<1>4. R!Max(S) \in S /\ \A y \in S : R!Max(S) >= y
  <2>1. \E x \in S : \A y \in S : x >= y
    BY <1>3
  <2> QED
    BY <2>1 DEF R!Max
<1>5. R!Min(S) \in S /\ \A y \in S : R!Min(S) <= y
  <2>1. \E x \in S : \A y \in S : x <= y
    BY <1>3
  <2> QED
    BY <2>1 DEF R!Min
<1> QED
  BY <1>4, <1>5

LEMMA AtLeastOne ==
    ASSUME NEW a \in Int
    PROVE  R!Max({1, a}) \in Int /\ R!Max({1, a}) >= 1
<1>1. {1, a} \in SUBSET Int /\ {1, a} # {} /\ IsFiniteSet({1, a})
  <2>1. IsFiniteSet({1} \cup {a})
    BY FS_Singleton, FS_AddElement
  <2>2. {1, a} = {1} \cup {a}
    OBVIOUS
  <2> QED
    BY <2>1, <2>2
<1>2. R!Max({1, a}) \in {1, a} /\ \A y \in {1, a} : R!Max({1, a}) >= y
  BY <1>1, Extremes
<1> QED
  BY <1>2

LEMMA NothingToAdd ==
    ASSUME NEW f, DOMAIN f = {}
    PROVE  R!Total(f) = 0
<1>1. \A a \in {} : f[a] \in {}
  OBVIOUS
<1>2. \A x \in {} : f[x] = Cardinality({a \in {} : f[a] = x})
  OBVIOUS
<1> QED
  BY <1>1, <1>2, FS_EmptySet, CountedByLabel

(* The weeks and the days of a report hold the sessions it counts. *)
LEMMA WeeksHoldSessions ==
    ASSUME NumbersInv, NEW t \in Tests
    PROVE  R!WeeksAddUp(t)
<1> DEFINE S == R!SessionsOf({t})
           D == {day[p] : p \in S}
           start == StartDay[t]
           points == [d \in D |-> R!Cardinality({p \in S : day[p] = d})]
           base == IF start = NoDay THEN R!Min(D) ELSE start
           Week(d) == R!Max({1, (d - base) \div 7 + 1})
           W == {Week(d) : d \in D}
           weeks == [w \in 1..R!Max(W) |->
                       [startDay |-> base + (w - 1) * 7,
                        sessions |-> R!Total([d \in {x \in D : Week(x) = w} |-> points[d]])]]
           e == R!Evolution(t)
<1>1. IsFiniteSet(S) /\ S \subseteq Parts /\ \A p \in S : day[p] \in Int
  <2>1. IsFiniteSet(S) /\ S \subseteq Parts
    BY RowsAreFinite
  <2>2. \A p \in S : day[p] \in Int
    BY <2>1, DataIs DEF R!SessionsOf, NumbersInv, R!RowsInv
  <2> QED
    BY <2>1, <2>2
<1>2. IsFiniteSet(D) /\ D \in SUBSET Int
  <2> HIDE DEF S
  <2> QED
    BY <1>1, ImageIsFinite
<1>3. e.points = points /\ e.weeks = (IF D = {} THEN <<>> ELSE weeks)
  <2>1. e.points = points /\ e.weeks = R!GroupEvolutionByWeek(points, start)
    BY DEF R!Evolution
  <2>2. DOMAIN points = D
    OBVIOUS
  <2>3. R!GroupEvolutionByWeek(points, start) = IF D = {} THEN <<>> ELSE weeks
    <3> HIDE DEF points, D
    <3> QED
      BY <2>2 DEF R!GroupEvolutionByWeek
  <2> QED
    BY <2>1, <2>3
<1>4. R!CountSessions(t) = Cardinality(S)
  BY SameSizes DEF R!CountSessions
<1> HIDE DEF S, e
<1>5. \A d \in D : points[d] = Cardinality({p \in S : day[p] = d})
  BY SameSizes
<1>6. \A p \in S : day[p] \in D
  OBVIOUS
<1>7. DOMAIN points = D
  OBVIOUS
<1>8. R!Total(points) = Cardinality(S)
  <2> HIDE DEF points, D
  <2>1. IsFiniteSet(S) /\ IsFiniteSet(D)
    BY <1>1, <1>2
  <2> QED
    BY <1>5, <1>6, <1>7, <2>1, CountedByLabel
<1>9. CASE D = {}
  <2>1. S = {}
    BY <1>6, <1>9
  <2>2. Cardinality(S) = 0
    BY <2>1, FS_EmptySet
  <2>3. e.weeks = <<>> /\ e.points = points
    BY <1>3, <1>9
  <2> HIDE DEF points, D
  <2>4. DOMAIN e.weeks = {} /\ Len(e.weeks) = 0
    BY <2>3
  <2>5. R!Total([w \in DOMAIN e.weeks |-> e.weeks[w].sessions]) = 0
    <3> DEFINE f == [w \in DOMAIN e.weeks |-> e.weeks[w].sessions]
    <3>1. DOMAIN f = {}
      BY <2>4
    <3> HIDE DEF f
    <3>2. R!Total(f) = 0
      BY <3>1, NothingToAdd
    <3> QED
      BY <3>2 DEF f
  <2> QED
    BY <1>4, <1>8, <2>2, <2>3, <2>4, <2>5 DEF R!WeeksAddUp, e
<1>10. CASE D # {}
  <2>1. base \in Int
    <3>1. start \in Int
      BY DataIs
    <3>2. R!Min(D) \in Int
      <4> HIDE DEF D
      <4> QED
        BY <1>2, <1>10, Extremes
    <3> HIDE DEF D, start
    <3> QED
      BY <3>1, <3>2
  <2> HIDE DEF base
  <2>2. \A d \in D : Week(d) \in Int /\ Week(d) >= 1
    <3> HIDE DEF D
    <3>1. ASSUME NEW d \in D
          PROVE  Week(d) \in Int /\ Week(d) >= 1
      <4>1. (d - base) \div 7 + 1 \in Int
        BY <1>2, <2>1
      <4> QED
        BY <4>1, AtLeastOne
    <3> QED
      BY <3>1
  <2> HIDE DEF Week
  <2>3. W \in SUBSET Int /\ W # {} /\ IsFiniteSet(W)
    <3> DEFINE label == [d \in D |-> Week(d)]
    <3>1. W = {label[d] : d \in D}
      OBVIOUS
    <3>2. W \in SUBSET Int /\ W # {}
      BY <1>10, <2>2
    <3> HIDE DEF label, W, D
    <3> QED
      BY <1>2, <3>1, <3>2, ImageIsFinite
  <2> DEFINE M == R!Max(W)
  <2>4. M \in W /\ (\A y \in W : M >= y) /\ M \in Nat /\ M >= 1
    <3>1. M \in W /\ \A y \in W : M >= y
      <4> HIDE DEF W
      <4> QED
        BY <2>3, Extremes
    <3>2. \A y \in W : y \in Int /\ y >= 1
      BY <2>2
    <3> HIDE DEF M, W
    <3> QED
      BY <3>1, <3>2
  <2>5. \A d \in D : Week(d) \in 1..M
    <3>1. \A d \in D : Week(d) \in W
      OBVIOUS
    <3> HIDE DEF M, W, D
    <3> QED
      BY <2>2, <2>4, <3>1
  <2>6. e.weeks = weeks /\ e.points = points
    BY <1>3, <1>10
  <2>7. DOMAIN weeks = 1..M
    OBVIOUS
  <2> DEFINE label == [p \in S |-> Week(day[p])]
             Held(w) == {p \in S : label[p] = w}
  <2>8. \A w \in 1..M : weeks[w].startDay = base + (w - 1) * 7
                        /\ weeks[w].sessions = R!Total([d \in {x \in D : Week(x) = w} |-> points[d]])
    <3> HIDE DEF W, D, points
    <3> QED
      OBVIOUS
  <2> HIDE DEF weeks
  <2>9. ASSUME NEW w \in 1..M
        PROVE  weeks[w].sessions = Cardinality(Held(w))
    <3> DEFINE X == {x \in D : Week(x) = w}
               f == [d \in X |-> points[d]]
    <3>1. IsFiniteSet(X) /\ IsFiniteSet(Held(w)) /\ X \subseteq D
      <4> HIDE DEF D, label
      <4> QED
        BY <1>1, <1>2, FS_Subset
    <3>2. \A p \in Held(w) : day[p] \in X
      BY <1>6
    <3>3. \A d \in X : {p \in S : day[p] = d} = {p \in Held(w) : day[p] = d}
      OBVIOUS
    <3>4. DOMAIN f = X
      OBVIOUS
    <3>5. \A d \in X : f[d] = Cardinality({p \in Held(w) : day[p] = d})
      <4> HIDE DEF X, D, points, label
      <4>1. \A d \in X : f[d] = points[d]
        OBVIOUS
      <4> HIDE DEF f
      <4> QED
        BY <1>5, <3>1, <3>3, <4>1
    <3>6. weeks[w].sessions = R!Total(f)
      BY <2>8
    <3> HIDE DEF X, f, Held, points, D
    <3>7. R!Total(f) = Cardinality(Held(w))
      BY <3>1, <3>2, <3>4, <3>5, CountedByLabel
    <3> QED
      BY <3>6, <3>7
  <2>10. R!Total([w \in DOMAIN weeks |-> weeks[w].sessions]) = Cardinality(S)
    <3> DEFINE f == [w \in DOMAIN weeks |-> weeks[w].sessions]
    <3>1. DOMAIN f = 1..M /\ \A w \in 1..M : f[w] = Cardinality({p \in S : label[p] = w})
      <4> HIDE DEF M, label
      <4> QED
        BY <2>7, <2>9
    <3>2. \A p \in S : label[p] \in 1..M
      BY <1>6, <2>5
    <3>3. IsFiniteSet(1..M)
      <4> HIDE DEF M
      <4> QED
        BY <2>4, FS_Interval
    <3> HIDE DEF f, M, label
    <3>4. IsFiniteSet(S)
      BY <1>1
    <3>5. R!Total(f) = Cardinality(S)
      <4>1. PICK X : X = 1..M
        OBVIOUS
      <4>2. /\ DOMAIN f = X /\ IsFiniteSet(X) /\ \A p \in S : label[p] \in X
            /\ \A x \in X : f[x] = Cardinality({p \in S : label[p] = x})
        BY <3>1, <3>2, <3>3, <4>1
      <4> QED
        BY <3>4, <4>2, CountedByLabel
    <3> QED
      BY <3>5 DEF f
  <2>11. Len(weeks) = M
    <3> HIDE DEF M
    <3>1. weeks = [w \in 1..M |-> weeks[w]]
      BY DEF weeks, M
    <3>2. weeks \in Seq({weeks[w] : w \in 1..M})
      BY <2>4, <3>1
    <3> QED
      BY <2>4, <2>7, <3>2
  <2>12. weeks[M].sessions > 0
    <3>1. PICK d \in D : M = Week(d)
      BY <2>4
    <3>2. PICK p \in S : day[p] = d
      OBVIOUS
    <3>3. p \in Held(M)
      BY <3>1, <3>2
    <3>4. IsFiniteSet(Held(M)) /\ Held(M) # {}
      BY <1>1, <3>3, FS_Subset
    <3> HIDE DEF Held, M
    <3>5. Cardinality(Held(M)) \in Nat /\ Cardinality(Held(M)) # 0
      BY <3>4, FS_CardinalityType, FS_EmptySet
    <3>6. M \in 1..M
      BY <2>4
    <3> QED
      BY <2>9, <3>5, <3>6
  <2>13. ASSUME NEW w \in 1..M
         PROVE  /\ w > 1 => weeks[w].startDay = weeks[w - 1].startDay + 7
                /\ w = Len(weeks) /\ w > 1 => weeks[w].sessions > 0
    <3> HIDE DEF M, Week, D, points
    <3>1. ASSUME w > 1
          PROVE  weeks[w].startDay = weeks[w - 1].startDay + 7
      <4>1. w - 1 \in 1..M
        BY <2>4, <3>1
      <4>2. weeks[w].startDay = base + (w - 1) * 7 /\ weeks[w - 1].startDay = base + ((w - 1) - 1) * 7
        BY <2>8, <4>1
      <4> QED
        BY <2>1, <2>4, <4>2
    <3> QED
      BY <2>11, <2>12, <3>1
  <2> HIDE DEF M, points
  <2>14. /\ R!Total(e.points) = R!CountSessions(t)
         /\ R!Total([w \in DOMAIN e.weeks |-> e.weeks[w].sessions]) = R!CountSessions(t)
         /\ \A w \in DOMAIN e.weeks :
               /\ w > 1 => e.weeks[w].startDay = e.weeks[w - 1].startDay + 7
               /\ w = Len(e.weeks) /\ w > 1 => e.weeks[w].sessions > 0
    BY <1>4, <1>8, <2>6, <2>7, <2>10, <2>13
  <2> QED
    BY <2>14 DEF R!WeeksAddUp, e
<1> QED
  BY <1>9, <1>10

(* The profile charts of a report hold its testers. *)
LEMMA ProfilesHoldTesters ==
    ASSUME NumbersInv, NEW t \in Tests
    PROVE  R!ProfilesAddUp(t)
<1> DEFINE U == R!UsersOf(R!PartsOf({t}))
           Key(u) == <<Profile[u].archetype, Profile[u].tier>>
           K == {Key(u) : u \in U}
           tally == [r \in K |-> R!Cardinality({u \in U : Key(u) = r})]
           Tally(Q) == R!Total([r \in Q |-> tally[r]])
           B == {Profile[u].bracket : u \in U}
           profile == R!TesterProfile(t)
<1>1. IsFiniteSet(U) /\ U \subseteq Users
  <2>1. IsFiniteSet(R!PartsOf({t})) /\ R!PartsOf({t}) \subseteq Parts
    BY RowsAreFinite
  <2>2. U = {UserOf[p] : p \in R!PartsOf({t})}
    BY DEF R!UsersOf
  <2>3. U \subseteq Users
    BY <2>1, <2>2, DataIs
  <2> HIDE DEF U
  <2> QED
    BY <2>1, <2>2, <2>3, ImageIsFinite
<1>2. R!Overview(t).testersCount = Cardinality(U)
  BY SameSizes DEF R!Overview
<1>3. /\ profile.ageBrackets = [b \in B |-> R!Cardinality({u \in U : Profile[u].bracket = b})]
      /\ profile.archetypes = [k \in R!Archetypes |-> Tally({r \in K : r[1] = k})]
      /\ profile.playerTiers = [k \in R!Tiers |-> Tally({r \in K : r[2] = k})]
  <2>1. DOMAIN tally = K
    OBVIOUS
  <2> QED
    BY <2>1 DEF R!TesterProfile
<1> HIDE DEF U, profile
<1>4. IsFiniteSet(R!Archetypes) /\ IsFiniteSet(R!Tiers)
  <2>1. \A a, b, c, d, e : IsFiniteSet({a, b, c, d, e})
    <3> SUFFICES ASSUME NEW a, NEW b, NEW c, NEW d, NEW e PROVE IsFiniteSet({a, b, c, d, e})
      OBVIOUS
    <3>1. IsFiniteSet({a} \cup {b})
      BY FS_Singleton, FS_AddElement
    <3>2. IsFiniteSet(({a} \cup {b}) \cup {c})
      BY <3>1, FS_AddElement
    <3>3. IsFiniteSet((({a} \cup {b}) \cup {c}) \cup {d})
      BY <3>2, FS_AddElement
    <3>4. IsFiniteSet(((({a} \cup {b}) \cup {c}) \cup {d}) \cup {e})
      BY <3>3, FS_AddElement
    <3>5. {a, b, c, d, e} = ((({a} \cup {b}) \cup {c}) \cup {d}) \cup {e}
      OBVIOUS
    <3> QED
      BY <3>4, <3>5
  <2> QED
    BY <2>1 DEF R!Archetypes, R!Tiers
<1>5. ASSUME NEW Q \in SUBSET K
      PROVE  Tally(Q) = Cardinality({u \in U : Key(u) \in Q})
  <2> DEFINE A == {u \in U : Key(u) \in Q}
             f == [r \in Q |-> tally[r]]
             label == [u \in U |-> Key(u)]
  <2>1. IsFiniteSet(A)
    <3>1. A \subseteq U
      OBVIOUS
    <3> HIDE DEF A
    <3> QED
      BY <1>1, <3>1, FS_Subset
  <2>2. IsFiniteSet(Q)
    <3>1. K = {label[u] : u \in U}
      OBVIOUS
    <3>2. IsFiniteSet(K)
      <4> HIDE DEF K, label
      <4> QED
        BY <1>1, <3>1, ImageIsFinite
    <3> HIDE DEF K
    <3> QED
      BY <3>2, FS_Subset
  <2>3. \A r \in Q : {u \in U : Key(u) = r} = {u \in A : label[u] = r}
    OBVIOUS
  <2>4. \A u \in A : label[u] \in Q
    OBVIOUS
  <2>5. DOMAIN f = Q /\ \A r \in Q : f[r] = tally[r] /\ tally[r] = R!Cardinality({u \in U : Key(u) = r})
    <3> HIDE DEF Key
    <3> QED
      OBVIOUS
  <2> HIDE DEF f, tally, A, label, Key
  <2>6. \A r \in Q : f[r] = Cardinality({u \in A : label[u] = r})
    BY <2>3, <2>5, SameSizes
  <2>7. R!Total(f) = Cardinality(A)
    BY <2>1, <2>2, <2>4, <2>5, <2>6, CountedByLabel
  <2> QED
    BY <2>7 DEF f, A
<1>6. \A k : {u \in U : Key(u) \in {r \in K : r[1] = k}} = {u \in U : Profile[u].archetype = k}
  OBVIOUS
<1>7. \A k : {u \in U : Key(u) \in {r \in K : r[2] = k}} = {u \in U : Profile[u].tier = k}
  OBVIOUS
<1>8. \A k : /\ Tally({r \in K : r[1] = k}) = Cardinality({u \in U : Profile[u].archetype = k})
             /\ Tally({r \in K : r[2] = k}) = Cardinality({u \in U : Profile[u].tier = k})
  <2> SUFFICES ASSUME NEW k
               PROVE  /\ Tally({r \in K : r[1] = k}) = Cardinality({u \in U : Profile[u].archetype = k})
                      /\ Tally({r \in K : r[2] = k}) = Cardinality({u \in U : Profile[u].tier = k})
    OBVIOUS
  <2>1. {r \in K : r[1] = k} \in SUBSET K /\ {r \in K : r[2] = k} \in SUBSET K
    OBVIOUS
  <2> HIDE DEF K, Key, Tally
  <2> QED
    BY <1>5, <1>6, <1>7, <2>1
<1> HIDE DEF Tally, K, Key
<1>9. R!Total(profile.ageBrackets) = Cardinality(U)
  <2> DEFINE label == [u \in U |-> Profile[u].bracket]
             f == profile.ageBrackets
  <2>1. B = {label[u] : u \in U} /\ \A u \in U : label[u] \in B
    OBVIOUS
  <2>2. \A b \in B : {u \in U : Profile[u].bracket = b} = {u \in U : label[u] = b}
    OBVIOUS
  <2> HIDE DEF B, label
  <2>3. IsFiniteSet(B)
    BY <1>1, <2>1, ImageIsFinite
  <2>4. DOMAIN f = B /\ \A b \in B : f[b] = Cardinality({u \in U : label[u] = b})
    BY <1>3, <2>2, SameSizes
  <2> HIDE DEF f
  <2>5. IsFiniteSet(U)
    BY <1>1
  <2>6. R!Total(f) = Cardinality(U)
    BY <2>1, <2>3, <2>4, <2>5, CountedByLabel
  <2> QED
    BY <2>6 DEF f
<1>10. R!Total(profile.archetypes) = Cardinality(U)
  <2> DEFINE label == [u \in U |-> Profile[u].archetype]
             f == profile.archetypes
  <2>1. \A u \in U : label[u] \in R!Archetypes
    BY <1>1, DataIs
  <2>2. \A k : {u \in U : Profile[u].archetype = k} = {u \in U : label[u] = k}
    OBVIOUS
  <2> HIDE DEF label
  <2>3. DOMAIN f = R!Archetypes /\ \A k \in R!Archetypes : f[k] = Cardinality({u \in U : label[u] = k})
    <3>1. DOMAIN f = R!Archetypes
      BY <1>3
    <3>2. ASSUME NEW k \in R!Archetypes
          PROVE  f[k] = Cardinality({u \in U : label[u] = k})
      <4>1. f[k] = Tally({r \in K : r[1] = k})
        BY <1>3
      <4>2. Tally({r \in K : r[1] = k}) = Cardinality({u \in U : Profile[u].archetype = k})
        BY <1>8
      <4>3. {u \in U : Profile[u].archetype = k} = {u \in U : label[u] = k}
        BY <2>2
      <4> HIDE DEF f
      <4> QED
        BY <4>1, <4>2, <4>3
    <3> QED
      BY <3>1, <3>2
  <2> HIDE DEF f
  <2>4. IsFiniteSet(U) /\ IsFiniteSet(R!Archetypes)
    BY <1>1, <1>4
  <2>5. R!Total(f) = Cardinality(U)
    <3>1. PICK X : X = R!Archetypes
      OBVIOUS
    <3> QED
      BY <2>1, <2>3, <2>4, <3>1, CountedByLabel
  <2> QED
    BY <2>5 DEF f
<1>11. R!Total(profile.playerTiers) = R!Cardinality({u \in U : Profile[u].tier # "all"})
  <2> DEFINE A == {u \in U : Profile[u].tier # "all"}
             label == [u \in U |-> Profile[u].tier]
             f == profile.playerTiers
  <2>1. \A u \in A : label[u] \in R!Tiers
    BY <1>1, DataIs
  <2>2. \A k \in R!Tiers : {u \in U : Profile[u].tier = k} = {u \in A : label[u] = k}
    BY DataIs
  <2>3. IsFiniteSet(A)
    BY <1>1, FS_Subset
  <2> HIDE DEF label, A
  <2>4. DOMAIN f = R!Tiers /\ \A k \in R!Tiers : f[k] = Cardinality({u \in A : label[u] = k})
    <3>1. DOMAIN f = R!Tiers
      BY <1>3
    <3>2. ASSUME NEW k \in R!Tiers
          PROVE  f[k] = Cardinality({u \in A : label[u] = k})
      <4>1. f[k] = Tally({r \in K : r[2] = k})
        BY <1>3
      <4>2. Tally({r \in K : r[2] = k}) = Cardinality({u \in U : Profile[u].tier = k})
        BY <1>8
      <4>3. {u \in U : Profile[u].tier = k} = {u \in A : label[u] = k}
        BY <2>2
      <4> HIDE DEF f
      <4> QED
        BY <4>1, <4>2, <4>3
    <3> QED
      BY <3>1, <3>2
  <2> HIDE DEF f
  <2>5. R!Total(f) = Cardinality(A)
    <3>1. PICK X : X = R!Tiers
      OBVIOUS
    <3> QED
      BY <1>4, <2>1, <2>3, <2>4, <3>1, CountedByLabel
  <2> QED
    BY <2>5, SameSizes DEF f, A
<1> QED
  BY <1>2, <1>9, <1>10, <1>11 DEF R!ProfilesAddUp, profile, U

(* A question's summary counts the sessions whose evaluation shows an answer. *)
LEMMA QuestionsHoldAnswers ==
    ASSUME NumbersInv, NEW t \in Tests
    PROVE  R!QuestionsAddUp(t)
<1>1. ASSUME NEW q \in QuestionsOf[t]
      PROVE  R!Evaluations(t).questions[q].responsesCount =
                R!Cardinality({p \in R!SessionsOf({t}) : q \in DOMAIN R!SessionEvaluation(p)})
  <2>1. R!Evaluations(t).questions[q].responsesCount = R!Cardinality(R!AnswersTo(t, q))
    <3>1. R!Evaluations(t).questions[q] = R!QuestionSummary(t, q)
      BY DEF R!Evaluations
    <3>2. R!QuestionSummary(t, q).responsesCount = R!Cardinality(R!AnswersTo(t, q))
      BY DEF R!QuestionSummary
    <3> QED
      BY <3>1, <3>2
  <2>2. \A p : q \in DOMAIN R!SessionEvaluation(p) <=>
                  response[p].sent /\ q \in DOMAIN response[p].answers
    BY DEF R!SessionEvaluation
  <2>3. R!AnswersTo(t, q) = {p \in R!SessionsOf({t}) : q \in DOMAIN R!SessionEvaluation(p)}
    BY <2>2 DEF R!AnswersTo
  <2> QED
    BY <2>1, <2>3
<1> QED
  BY <1>1 DEF R!QuestionsAddUp

(* What the distribution of a rating question lays out: answers in the widest    *)
(* scale, at the values of the question's own; all of them, and all that were   *)
(* given, when each was checked against it.                                    *)
LEMMA DistributionHolds ==
    ASSUME NumbersInv, NEW t \in Tests, NEW q \in Questions, R!Rating(q)
    PROVE  \E shown :
              /\ R!Total(R!Distribution(t, q))
                    = Cardinality({p \in R!InScale(t, q) : R!Value(p, q).n \in shown})
              /\ (\A p \in R!AnswersTo(t, q) :
                      R!Value(p, q).kind = "number" /\ R!Value(p, q).n \in R!ScaleOf(q)) =>
                    \A p \in R!InScale(t, q) : R!Value(p, q).n \in shown
<1> DEFINE rated == R!InScale(t, q)
           met == {R!Value(p, q).n : p \in rated}
           own == QuestionOf[q]
           ends == [min |-> own.min # R!Null \/ met # {}, max |-> own.max # R!Null \/ met # {}]
           lo == IF own.min # R!Null THEN own.min ELSE R!Min(met)
           hi == IF own.max # R!Null THEN own.max ELSE R!Max(met)
           shown == IF ends.min /\ ends.max /\ hi - lo <= MaxRating THEN lo..hi ELSE met
           f == R!Distribution(t, q)
<1>1. /\ IsFiniteSet(rated) /\ rated \subseteq R!AnswersTo(t, q)
      /\ \A p \in rated : R!Value(p, q).n \in 0..MaxRating
  <2>1. rated \subseteq R!AnswersTo(t, q) /\ rated \subseteq R!SessionsOf({t})
    BY DEF R!InScale, R!Numbers, R!AnswersTo
  <2>2. \A p \in rated : R!Value(p, q).n \in 0..MaxRating
    BY DEF R!InScale, R!RatingInScale
  <2> QED
    BY <2>1, <2>2, RowsAreFinite, FS_Subset
<1>2. f = [n \in shown |-> R!Cardinality({p \in rated : R!Value(p, q).n = n})]
  BY DEF R!Distribution
<1> HIDE DEF rated, f
<1>3. /\ IsFiniteSet(met) /\ met \in SUBSET Int
      /\ met # {} => /\ R!Max(met) \in Int /\ \A n \in met : n <= R!Max(met)
                     /\ R!Min(met) \in Int /\ \A n \in met : R!Min(met) <= n
  <2>1. met \in SUBSET Int
    BY <1>1, DataIs
  <2>2. IsFiniteSet(met)
    <3> DEFINE label == [p \in rated |-> R!Value(p, q).n]
    <3>1. met = {label[p] : p \in rated}
      OBVIOUS
    <3> HIDE DEF label, met
    <3> QED
      BY <1>1, <3>1, ImageIsFinite
  <2>3. ASSUME met # {}
        PROVE  /\ R!Max(met) \in Int /\ \A n \in met : n <= R!Max(met)
               /\ R!Min(met) \in Int /\ \A n \in met : R!Min(met) <= n
    <3> HIDE DEF met
    <3>1. /\ R!Max(met) \in met /\ \A y \in met : R!Max(met) >= y
          /\ R!Min(met) \in met /\ \A y \in met : R!Min(met) <= y
      BY <2>1, <2>2, <2>3, Extremes
    <3> QED
      BY <2>1, <3>1
  <2> QED
    BY <2>1, <2>2, <2>3
<1>4. \A p \in rated : R!Value(p, q).n \in met
  OBVIOUS
<1>5. /\ own.min # R!Null => own.min \in 0..MaxRating
      /\ own.max # R!Null => own.max \in 0..MaxRating
  BY DataIs
<1> HIDE DEF met, own
<1>6. ends.min /\ ends.max => lo \in Int /\ hi \in Int
  <2>1. \A n \in 0..MaxRating : n \in Int
    BY DataIs
  <2>2. /\ ends.min <=> own.min # R!Null \/ met # {}
        /\ ends.max <=> own.max # R!Null \/ met # {}
    OBVIOUS
  <2>3. own.min # R!Null \/ met # {} => lo \in Int
    BY <1>3, <1>5, <2>1
  <2>4. own.max # R!Null \/ met # {} => hi \in Int
    BY <1>3, <1>5, <2>1
  <2> HIDE DEF ends, lo, hi
  <2> QED
    BY <2>2, <2>3, <2>4
<1>7. IsFiniteSet(shown)
  <2>1. CASE ends.min /\ ends.max /\ hi - lo <= MaxRating
    <3>1. IsFiniteSet(lo..hi)
      BY <1>6, <2>1, FS_Interval
    <3> QED
      BY <2>1, <3>1
  <2>2. CASE ~(ends.min /\ ends.max /\ hi - lo <= MaxRating)
    <3>1. shown = met
      BY <2>2
    <3> QED
      BY <1>3, <3>1
  <2> QED
    BY <2>1, <2>2
<1>8. ASSUME \A p \in R!AnswersTo(t, q) :
                 R!Value(p, q).kind = "number" /\ R!Value(p, q).n \in R!ScaleOf(q),
             NEW p \in rated
      PROVE  R!Value(p, q).n \in shown
  <2> DEFINE n == R!Value(p, q).n
  <2>1. n \in R!ScaleOf(q) /\ n \in 0..MaxRating /\ n \in met
    BY <1>1, <1>4, <1>8
  <2>2. (own.min # R!Null => own.min <= n) /\ (own.max # R!Null => n <= own.max)
    BY <2>1 DEF R!ScaleOf, own
  <2>3. n \in Int
    BY <2>1, DataIs
  <2> HIDE DEF n
  <2>4. lo <= n /\ n <= hi
    BY <1>3, <2>1, <2>2
  <2>5. ends.min /\ ends.max
    BY <2>1
  <2>6. n \in lo..hi
    BY <1>6, <2>3, <2>4, <2>5
  <2>7. n \in shown
    BY <2>1, <2>6
  <2> QED
    BY <2>7 DEF n
<1> HIDE DEF shown
<1>9. R!Total(f) = Cardinality({p \in rated : R!Value(p, q).n \in shown})
  <2> DEFINE A == {p \in rated : R!Value(p, q).n \in shown}
             label == [p \in rated |-> R!Value(p, q).n]
  <2>1. IsFiniteSet(A) /\ A \subseteq rated
    BY <1>1, FS_Subset
  <2>2. \A p \in A : label[p] \in shown
    OBVIOUS
  <2>3. \A n \in shown : {p \in rated : R!Value(p, q).n = n} = {p \in A : label[p] = n}
    OBVIOUS
  <2> HIDE DEF A, label
  <2>4. DOMAIN f = shown /\ \A n \in shown : f[n] = Cardinality({p \in A : label[p] = n})
    BY <1>2, <2>3, SameSizes
  <2>5. R!Total(f) = Cardinality(A)
    BY <1>7, <2>1, <2>2, <2>4, CountedByLabel
  <2> QED
    BY <2>5 DEF A
<1> QED
  BY <1>8, <1>9 DEF f, rated

(* The rating questions together hold what the distribution of the report does. *)
LEMMA RatingsHold ==
    ASSUME NumbersInv, NEW t \in Tests
    PROVE  R!RatingsAddUp(t)
<1> DEFINE ev == R!Evaluations(t)
           Q == {q \in Questions : R!Rating(q)}
           rating == {q \in QuestionsOf[t] : R!Rating(q)}
           rated == UNION {R!InScale(t, q) \X {q} : q \in Q}
           laid == [q \in rating |-> R!Total(ev.questions[q].distribution)]
           counts == [q \in rating |-> ev.questions[q].responsesCount]
           N(a) == R!Value(a[1], a[2]).n
<1>1. /\ IsFiniteSet(Q) /\ rating \subseteq Q /\ IsFiniteSet(rating) /\ Q \subseteq Questions
      /\ \A q \in rating : q \in Questions /\ R!Rating(q)
  <2>1. rating \subseteq Q
    BY DataIs
  <2>2. IsFiniteSet(Q)
    BY DataIs, FS_Subset
  <2> HIDE DEF Q
  <2>3. IsFiniteSet(rating)
    BY <2>1, <2>2, FS_Subset
  <2> QED
    BY <2>1, <2>2, <2>3 DEF Q
<1>2. \A q \in rating : /\ ev.questions[q].distribution = R!Distribution(t, q)
                        /\ ev.questions[q].responsesCount = R!Cardinality(R!AnswersTo(t, q))
  BY DEF R!Evaluations, R!QuestionSummary
<1>3. \A q : R!InScale(t, q) \subseteq R!AnswersTo(t, q) /\ R!AnswersTo(t, q) \subseteq R!SessionsOf({t})
  BY DEF R!InScale, R!Numbers, R!AnswersTo
<1>4. \A q : IsFiniteSet(R!InScale(t, q)) /\ IsFiniteSet(R!AnswersTo(t, q))
  BY <1>3, RowsAreFinite, FS_Subset
<1>5. \A a : a \in rated <=> a = <<a[1], a[2]>> /\ a[2] \in Q /\ a[1] \in R!InScale(t, a[2])
  OBVIOUS
<1>6. IsFiniteSet(rated)
  <2> DEFINE label == [q \in Q |-> R!InScale(t, q) \X {q}]
             parts == {label[q] : q \in Q}
  <2>1. rated = UNION parts
    OBVIOUS
  <2>2. \A q \in Q : IsFiniteSet(label[q])
    BY <1>4, FS_Product, FS_Singleton
  <2>3. \A T \in parts : IsFiniteSet(T)
    BY <2>2
  <2>4. IsFiniteSet(parts)
    <3> HIDE DEF label, Q
    <3> QED
      BY <1>1, ImageIsFinite
  <2> HIDE DEF parts
  <2> QED
    BY <2>1, <2>3, <2>4, FS_UNION
<1> HIDE DEF ev, rated
<1>7. R!Total(R!RatingDistribution(t)) = Cardinality(rated)
  <2> DEFINE f == R!RatingDistribution(t)
             label == [a \in rated |-> N(a)]
  <2>1. f = [n \in 0..MaxRating |-> R!Cardinality({a \in rated : N(a) = n})]
    BY DEF R!RatingDistribution, rated
  <2>2. \A a \in rated : label[a] \in 0..MaxRating
    BY <1>5 DEF R!InScale, R!RatingInScale
  <2>3. \A n : {a \in rated : N(a) = n} = {a \in rated : label[a] = n}
    OBVIOUS
  <2>4. IsFiniteSet(0..MaxRating)
    BY DataIs, FS_Interval
  <2> HIDE DEF f, label, N
  <2>5. DOMAIN f = 0..MaxRating /\ \A n \in 0..MaxRating : f[n] = Cardinality({a \in rated : label[a] = n})
    BY <2>1, <2>3, SameSizes
  <2>6. PICK X : X = 0..MaxRating
    OBVIOUS
  <2>7. DOMAIN f = X /\ \A n \in X : f[n] = Cardinality({a \in rated : label[a] = n})
    BY <2>5, <2>6
  <2>8. IsFiniteSet(X) /\ \A a \in rated : label[a] \in X
    BY <2>2, <2>4, <2>6
  <2>9. R!Total(f) = Cardinality(rated)
    BY <1>6, <2>7, <2>8, CountedByLabel
  <2> QED
    BY <2>9 DEF f
(* Rows of a question among some of the rated, counted question by question. *)
<1>8. ASSUME NEW A \in SUBSET rated, \A a \in A : a[2] \in rating,
             NEW f, DOMAIN f = rating,
             \A q \in rating : f[q] = Cardinality({p \in R!InScale(t, q) : <<p, q>> \in A})
      PROVE  R!Total(f) = Cardinality(A)
  <2> DEFINE label == [a \in A |-> a[2]]
  <2>1. ASSUME NEW q \in rating
        PROVE  f[q] = Cardinality({a \in A : label[a] = q})
    <3> DEFINE Those == {p \in R!InScale(t, q) : <<p, q>> \in A}
    <3>1. {a \in A : label[a] = q} = Those \X {q}
      <4>1. \A a \in A : a = <<a[1], a[2]>> /\ a[1] \in R!InScale(t, a[2])
        BY <1>5
      <4> HIDE DEF rating
      <4> QED
        BY <4>1
    <3>2. IsFiniteSet(Those)
      BY <1>4, FS_Subset
    <3>3. f[q] = Cardinality(Those)
      BY <1>8
    <3> HIDE DEF Those
    <3>4. Cardinality(Those \X {q}) = Cardinality(Those)
      <4>1. IsFiniteSet({q}) /\ Cardinality({q}) = 1
        BY FS_Singleton
      <4>2. Cardinality(Those \X {q}) = Cardinality(Those) * Cardinality({q})
        BY <3>2, <4>1, FS_Product
      <4>3. Cardinality(Those) \in Nat
        BY <3>2, FS_CardinalityType
      <4> QED
        BY <4>1, <4>2, <4>3
    <3> HIDE DEF label
    <3> QED
      BY <3>1, <3>3, <3>4
  <2>2. \A a \in A : label[a] \in rating
    BY <1>8
  <2>3. IsFiniteSet(A)
    BY <1>6, FS_Subset
  <2> HIDE DEF label, rating
  <2> QED
    BY <1>1, <1>8, <2>1, <2>2, <2>3, CountedByLabel
<1>9. \A q \in rating : \E shown :
         /\ laid[q] = Cardinality({p \in R!InScale(t, q) : R!Value(p, q).n \in shown})
         /\ (\A p \in R!AnswersTo(t, q) :
                 R!Value(p, q).kind = "number" /\ R!Value(p, q).n \in R!ScaleOf(q)) =>
               \A p \in R!InScale(t, q) : R!Value(p, q).n \in shown
  <2> SUFFICES ASSUME NEW q \in rating
               PROVE  \E shown :
                  /\ laid[q] = Cardinality({p \in R!InScale(t, q) : R!Value(p, q).n \in shown})
                  /\ (\A p \in R!AnswersTo(t, q) :
                          R!Value(p, q).kind = "number" /\ R!Value(p, q).n \in R!ScaleOf(q)) =>
                        \A p \in R!InScale(t, q) : R!Value(p, q).n \in shown
    OBVIOUS
  <2>1. laid[q] = R!Total(R!Distribution(t, q))
    BY <1>2
  <2>2. q \in Questions /\ R!Rating(q)
    BY <1>1
  <2> HIDE DEF laid, rating
  <2> QED
    BY <2>1, <2>2, DistributionHolds
<1> DEFINE Fit(q, s) ==
              /\ laid[q] = Cardinality({p \in R!InScale(t, q) : R!Value(p, q).n \in s})
              /\ (\A p \in R!AnswersTo(t, q) :
                      R!Value(p, q).kind = "number" /\ R!Value(p, q).n \in R!ScaleOf(q)) =>
                    \A p \in R!InScale(t, q) : R!Value(p, q).n \in s
           at == [q \in rating |-> CHOOSE s : Fit(q, s)]
           A == {a \in rated : a[2] \in rating /\ N(a) \in at[a[2]]}
<1>10. \A q \in rating : Fit(q, at[q])
  <2>1. \A q \in rating : \E s : Fit(q, s)
    BY <1>9
  <2> HIDE DEF Fit, rating
  <2> QED
    BY <2>1
<1> HIDE DEF at
<1>11. R!Total(laid) = Cardinality(A)
  <2>1. \A q \in rating : {p \in R!InScale(t, q) : R!Value(p, q).n \in at[q]}
                            = {p \in R!InScale(t, q) : <<p, q>> \in A}
    <3> SUFFICES ASSUME NEW q \in rating, NEW p \in R!InScale(t, q)
                 PROVE  R!Value(p, q).n \in at[q] <=> <<p, q>> \in A
      OBVIOUS
    <3>1. <<p, q>> \in rated /\ <<p, q>>[1] = p /\ <<p, q>>[2] = q
      BY <1>1, <1>5
    <3> QED
      BY <3>1
  <2>2. \A q \in rating : laid[q] = Cardinality({p \in R!InScale(t, q) : <<p, q>> \in A})
    BY <1>10, <2>1
  <2>3. DOMAIN laid = rating
    OBVIOUS
  <2>4. A \in SUBSET rated /\ \A a \in A : a[2] \in rating
    OBVIOUS
  <2> HIDE DEF laid, A, rating
  <2> QED
    BY <1>8, <2>2, <2>3, <2>4
<1>12. R!Total(laid) <= R!Total(R!RatingDistribution(t))
  <2>1. A \in SUBSET rated
    OBVIOUS
  <2>2. Cardinality(A) <= Cardinality(rated)
    BY <1>6, <2>1, FS_Subset
  <2> QED
    BY <1>7, <1>11, <2>2
<1>13. ASSUME legacy \cap R!PartsOf({t}) = {}
       PROVE  /\ R!Total(laid) = R!Total(R!RatingDistribution(t))
              /\ R!Total(laid) = R!Total(counts)
              /\ R!Total(laid) = R!Cardinality(R!AverageRating(t))
  <2>1. ASSUME NEW q, NEW p \in R!AnswersTo(t, q)
        PROVE  /\ q \in QuestionsOf[t]
               /\ R!Rating(q) => R!Value(p, q).kind = "number" /\ R!Value(p, q).n \in R!ScaleOf(q)
    <3>1. /\ p \in R!PartsOf({t}) /\ p \in Parts /\ TestOf[p] = t
          /\ response[p].sent /\ q \in DOMAIN response[p].answers
      <4>1. p \in R!SessionsOf({t}) /\ response[p].sent /\ q \in DOMAIN response[p].answers
        BY DEF R!AnswersTo
      <4>2. p \in R!PartsOf({t}) /\ p \in Parts
        BY <4>1, RowsAreFinite
      <4>3. TestOf[p] = t
        BY <4>2 DEF R!PartsOf
      <4> QED
        BY <4>1, <4>2, <4>3
    <3>2. p \notin legacy
      BY <1>13, <3>1
    <3> QED
      BY <3>1, <3>2 DEF NumbersInv, R!RowsInv
  <2>2. ASSUME NEW q \in Questions, R!Rating(q)
        PROVE  R!AnswersTo(t, q) = R!InScale(t, q) /\ R!Numbers(t, q) = R!InScale(t, q)
    <3>1. R!ScaleOf(q) \subseteq 0..MaxRating
      BY <2>2, DataIs DEF R!ScaleOf
    <3>2. \A p \in R!AnswersTo(t, q) : R!Value(p, q).kind = "number" /\ R!Value(p, q).n \in 0..MaxRating
      BY <2>1, <2>2, <3>1
    <3> QED
      BY <3>2 DEF R!InScale, R!Numbers, R!RatingInScale
  <2>3. \A a \in rated : a[2] \in rating
    BY <1>3, <1>5, <2>1
  <2>4. A = rated
    <3> SUFFICES ASSUME NEW a \in rated PROVE N(a) \in at[a[2]]
      BY <2>3
    <3>1. a[2] \in rating /\ a[1] \in R!InScale(t, a[2]) /\ R!Rating(a[2])
      BY <1>5, <2>3
    <3>2. \A p \in R!AnswersTo(t, a[2]) :
             R!Value(p, a[2]).kind = "number" /\ R!Value(p, a[2]).n \in R!ScaleOf(a[2])
      BY <2>1, <3>1
    <3>3. Fit(a[2], at[a[2]])
      BY <1>10, <3>1
    <3> QED
      BY <3>1, <3>2, <3>3
  <2>5. R!Total(counts) = Cardinality(rated)
    <3>1. \A q \in rating : {p \in R!InScale(t, q) : <<p, q>> \in rated} = R!AnswersTo(t, q)
      <4> SUFFICES ASSUME NEW q \in rating
                   PROVE  {p \in R!InScale(t, q) : <<p, q>> \in rated} = R!AnswersTo(t, q)
        OBVIOUS
      <4>1. \A p \in R!InScale(t, q) : <<p, q>> \in rated
        BY <1>1, <1>5
      <4>2. R!AnswersTo(t, q) = R!InScale(t, q)
        BY <1>1, <2>2
      <4> QED
        BY <4>1, <4>2
    <3>2. \A q \in rating : counts[q] = Cardinality(R!AnswersTo(t, q))
      BY <1>2, SameSizes
    <3>3. DOMAIN counts = rating
      OBVIOUS
    <3> HIDE DEF counts, rating
    <3>4. \A q \in rating : counts[q] = Cardinality({p \in R!InScale(t, q) : <<p, q>> \in rated})
      BY <3>1, <3>2
    <3> QED
      BY <1>8, <2>3, <3>3, <3>4
  <2>6. R!AverageRating(t) = rated
    <3>1. \A q \in Q : R!Numbers(t, q) \X {q} = R!InScale(t, q) \X {q}
      BY <2>2
    <3>2. R!AverageRating(t) = UNION {R!Numbers(t, q) \X {q} : q \in Q}
      BY DEF R!AverageRating
    <3> HIDE DEF Q
    <3> QED
      BY <3>1, <3>2 DEF rated
  <2> QED
    BY <1>7, <1>11, <2>4, <2>5, <2>6, SameSizes
<1> HIDE DEF laid, counts
<1> QED
  BY <1>12, <1>13 DEF R!RatingsAddUp, laid, counts, ev

(* However many tests, players, answers and reviews there are, and in whatever    *)
(* order play, validation and forms leave their rows: the blocks of every report *)
(* tell one story.                                                             *)
THEOREM BlocksTellOneStory == R!Spec => []BlocksAddUp
<1>1. NumbersInv /\ [R!Next]_(R!vars) => NumbersInv'
  BY NumbersStep
<1>2. NumbersInv => BlocksAddUp
  BY WeeksHoldSessions, ProfilesHoldTesters, QuestionsHoldAnswers, RatingsHold
     DEF BlocksAddUp, R!BlocksAddUp
<1> QED
  BY <1>1, <1>2, NumbersInit, PTL DEF R!Spec

(* And the Home never disagrees with the game and report screens. *)
THEOREM HomeNeverDisagrees == R!Spec => []HomeAgrees
<1>1. NumbersInv /\ [R!Next]_(R!vars) => NumbersInv'
  BY NumbersStep
<1> QED
  BY <1>1, HomeAddsUp, NumbersInit, PTL DEF R!Spec
===============================================================================
