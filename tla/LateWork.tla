------------------------------ MODULE LateWork -------------------------------
(* The work that comes late or twice: the retries of a request, the jobs of an *)
(* export, the boots of replicas.  Idempotency, ReportExports and Migrations   *)
(* side by side; they share no state.                                        *)
EXTENDS Idempotency

CONSTANTS Exports, Workers, MaxFaults
VARIABLES exp, export, object, job, locks, late, run, dropped, faults
E == INSTANCE ReportExports WITH req <- export
exportVars == <<exp, export, object, job, locks, late, run, dropped, faults>>

CONSTANTS Runners, Images, MaxGen
VARIABLES image, lock, journal, stored, at, saw, next, ranGen, ran, lapsed, unchecked
M == INSTANCE Migrations
bootVars == <<image, lock, journal, stored, at, saw, next, ranGen, ran, lapsed, unchecked>>

ASSUME FaultsAssumption == MaxFaults \in Nat

(* Generated migrations and manual files are numbered from 1, and a file is its *)
(* SQL and its line endings.                                                 *)
ASSUME MigrationsAssumption ==
    /\ MaxGen \in Nat \ {0}
    /\ Nobody \notin Runners
    /\ \A i \in Images : i.gen \in 0..MaxGen /\ DOMAIN i.files \subseteq Nat \ {0}
    /\ \A text \in M!Texts :
          /\ text = [sql |-> text.sql, eol |-> text.eol]
          /\ text.eol \in {"lf", "crlf"}

SettlesOnce    == E!SettlesOnce
ExportsComeOut == E!ExportsComeOut
MigratedOnce   == M!MigratedOnce
=============================================================================
