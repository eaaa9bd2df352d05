----------------------------- MODULE Migrations ------------------------------
(***************************************************************************)
(* Several replicas boot at once and each runs the migrations its image has:  *)
(* those Drizzle generated, in one transaction, and then the files of          *)
(* drizzle/manual, one transaction each.  One advisory lock, which belongs to  *)
(* a database session, is to keep them apart; Drizzle's journal has no other   *)
(* protection, the manual files have the primary key of __manual_migrations.   *)
(* Images differ: one is older, or has a file that was edited after it had     *)
(* been applied, or that was checked out with other line endings.              *)
(***************************************************************************)
EXTENDS Integers, FiniteSets, Sequences

CONSTANTS
    Runners, Nobody,
    Images,     \* what a runner is deployed with: [gen : Nat, files : name -> text]
    MaxGen      \* bound: generated migrations

Names == UNION {DOMAIN image.files : image \in Images}   \* 1.., in the order of the file names
Texts == UNION {{image.files[f] : f \in DOMAIN image.files} : image \in Images}

VARIABLES
    image,      \* of each runner
    lock,       \* the runner whose session holds the advisory lock
    journal,    \* how many generated migrations the database says it has
    stored,     \* __manual_migrations: the checksum of each name
    at, saw,    \* of each runner: where it is, and what it read of the journal
    next,       \* ... and the manual file it is at
    ranGen,     \* history: how often each generated migration was applied
    ran,        \* ... and which SQL each manual file was applied with
    lapsed,     \* ... whether a runner went on without the lock
    unchecked   \* ... names applied before checksums were tracked

vars == <<image, lock, journal, stored, at, saw, next, ranGen, ran, lapsed, unchecked>>
tables == <<journal, stored, ranGen, ran, unchecked>>

(* A text is its SQL and its line endings; a checksum is that of a text.       *)
None == [sql |-> "no row", eol |-> "-"]
Untracked == [sql |-> "null", eol |-> "-"]
Canonical(text) == [text EXCEPT !.eol = "lf"]
Accepted(text) == {Canonical(text), text, [text EXCEPT !.eol = "crlf"]}

Active == {"lock", "generated", "migrate", "look", "apply"}

Init ==
    /\ image \in [Runners -> Images]
    /\ lock = Nobody
    /\ stored \in [Names -> {None}] \cup {[f \in Names |-> IF f = 1 THEN old ELSE None] :
                                            old \in {Untracked} \cup Texts}
    /\ journal = IF stored[1] = None THEN 0 ELSE 1
    /\ at = [r \in Runners |-> "lock"]
    /\ saw = [r \in Runners |-> 0]
    /\ next = [r \in Runners |-> 1]
    /\ ranGen = [g \in 1..MaxGen |-> IF g <= journal THEN 1 ELSE 0]
    /\ unchecked = {f \in Names : stored[f] = Untracked}
    /\ ran = [f \in Names |-> IF stored[f] \in {None, Untracked} THEN <<>> ELSE <<stored[f].sql>>]
    /\ lapsed = FALSE

TypeOK ==
    /\ image \in [Runners -> Images]
    /\ lock \in Runners \cup {Nobody}
    /\ journal \in 0..MaxGen
    /\ at \in [Runners -> Active \cup {"done", "failed"}]
    /\ lapsed \in BOOLEAN /\ unchecked \subseteq Names

-----------------------------------------------------------------------------
Goes(r, where) == at' = [at EXCEPT ![r] = where]

(* finally: the lock is released by the session that has it, by any other for    *)
(* nothing.                                                                  *)
Release(r) == lock' = IF lock = r THEN Nobody ELSE lock
Ends(r, how) == Goes(r, how) /\ Release(r)

NoLock == TRUE                 \* mutant: pg_try_advisory_lock does not say no
LockIsFree == lock = Nobody

Acquire(r) ==
    /\ at[r] = "lock" /\ LockIsFree
    /\ lock' = r
    /\ Goes(r, "generated")
    /\ UNCHANGED <<image, saw, next, lapsed, tables>>

TimesOut(r) ==
    /\ at[r] = "lock" /\ ~LockIsFree
    /\ Ends(r, "failed")
    /\ UNCHANGED <<image, saw, next, lapsed, tables>>

(* The files of the image that are still to come: none, and it is up to date. *)
Left(r) == {f \in DOMAIN image[r].files : f >= next[r]}
First(S) == CHOOSE f \in S : \A g \in S : f <= g

(* Drizzle reads its journal apart from the transaction that applies the rest.  *)
ReadJournal(r) ==
    /\ at[r] = "generated"
    /\ saw' = [saw EXCEPT ![r] = journal]
    /\ Goes(r, "migrate")
    /\ UNCHANGED <<image, lock, next, lapsed, tables>>

Migrate(r) ==
    /\ at[r] = "migrate"
    /\ LET new == (saw[r] + 1)..image[r].gen IN
       /\ ranGen' = [g \in 1..MaxGen |-> ranGen[g] + IF g \in new THEN 1 ELSE 0]
       /\ journal' = IF new = {} \/ image[r].gen < journal THEN journal ELSE image[r].gen
    /\ Goes(r, "look")
    /\ UNCHANGED <<image, lock, stored, saw, next, ran, lapsed, unchecked>>

(* One iteration over the manual files: what __manual_migrations has of it.     *)
Look(r) ==
    /\ at[r] = "look"
    /\ Left(r) # {}
    /\ LET f == First(Left(r))
           text == image[r].files[f] IN
       \/ /\ stored[f] = None
          /\ next' = [next EXCEPT ![r] = f]
          /\ Goes(r, "apply")
          /\ UNCHANGED <<lock, stored>>
       \/ /\ stored[f] \in Accepted(text) \cup {Untracked}
          /\ stored' = [stored EXCEPT ![f] = Canonical(text)]
          /\ next' = [next EXCEPT ![r] = f + 1]
          /\ UNCHANGED <<at, lock>>
       \/ /\ stored[f] \notin Accepted(text) \cup {None, Untracked}
          /\ Ends(r, "failed")
          /\ UNCHANGED <<stored, next>>
    /\ UNCHANGED <<image, journal, saw, ranGen, ran, lapsed, unchecked>>

(* The file and its row in one transaction, which the primary key undoes.       *)
Apply(r) ==
    /\ at[r] = "apply"
    /\ LET f == next[r]
           text == image[r].files[f] IN
       IF stored[f] = None
       THEN /\ stored' = [stored EXCEPT ![f] = Canonical(text)]
            /\ ran' = [ran EXCEPT ![f] = Append(@, text.sql)]
            /\ next' = [next EXCEPT ![r] = f + 1]
            /\ Goes(r, "look")
            /\ UNCHANGED lock
       ELSE /\ Ends(r, "failed")
            /\ UNCHANGED <<stored, ran, next>>
    /\ UNCHANGED <<image, journal, saw, ranGen, lapsed, unchecked>>

Finish(r) ==
    /\ at[r] = "look" /\ Left(r) = {}
    /\ Ends(r, "done")
    /\ UNCHANGED <<image, saw, next, lapsed, tables>>

(* The end of the process, or an error of a statement: its transaction is        *)
(* undone, its session and the lock go.                                      *)
Dies(r) ==
    /\ at[r] \in Active
    /\ Ends(r, "failed")
    /\ UNCHANGED <<image, saw, next, lapsed, tables>>

(* The connection is lost between two statements: the client opens another for   *)
(* the next one, and the lock went with the session.                         *)
Reconnects(r) ==
    /\ lock = r
    /\ lock' = Nobody
    /\ lapsed' = TRUE
    /\ UNCHANGED <<image, at, saw, next, tables>>

Next == \E r \in Runners :
    \/ Acquire(r) \/ TimesOut(r)
    \/ ReadJournal(r) \/ Migrate(r)
    \/ Look(r) \/ Apply(r) \/ Finish(r)
    \/ Dies(r) \/ Reconnects(r)

Spec == Init /\ [][Next]_vars

-----------------------------------------------------------------------------
(* However many replicas boot at once, die and boot again, no manual file is    *)
(* applied twice, even by runners that lost the lock, and no generated one is  *)
(* while the lock lasts.  A runner that reports the database up to date is      *)
(* right: each migration of its image is there, with the SQL its image has,     *)
(* except for names that were applied when checksums were not yet kept.        *)
MigratedOnce ==
    /\ \A f \in Names : Len(ran[f]) <= 1
    /\ lapsed \/ \A g \in 1..MaxGen : ranGen[g] <= 1
    /\ \A r \in Runners : at[r] = "done" =>
          /\ \A g \in 1..image[r].gen : ranGen[g] >= 1
          /\ \A f \in DOMAIN image[r].files :
                f \in unchecked \/ ran[f] = <<image[r].files[f].sql>>
==============================================================================
