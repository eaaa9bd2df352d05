---------------------------- MODULE PlaytestLedger ----------------------------
(* What the play-test promises studios and players, with no sessions, jobs,   *)
(* keys or sweeps: a seat is given once and never taken back, a player holds *)
(* one open participation per test, each participation is settled once, and  *)
(* a test rewards a player at the first accepted participation.              *)
EXTENDS Naturals

CONSTANTS Users, Tests, Parts, UserOf, TestOf, SlotsTotal
VARIABLES
    seats,     \* seats given, per test
    outcome,   \* of each participation
    rewarded   \* who was rewarded for which test

Init ==
    /\ seats = [t \in Tests |-> 0]
    /\ outcome = [p \in Parts |-> "none"]
    /\ rewarded = {}

Reserve(p) ==
    /\ outcome[p] = "none"
    /\ seats[TestOf[p]] < SlotsTotal[TestOf[p]]
    /\ \A q \in Parts :
          UserOf[q] = UserOf[p] /\ TestOf[q] = TestOf[p] => outcome[q] # "open"
    /\ outcome' = [outcome EXCEPT ![p] = "open"]
    /\ seats' = [seats EXCEPT ![TestOf[p]] = @ + 1]
    /\ UNCHANGED rewarded

Accept(p) ==
    /\ outcome[p] = "open"
    /\ outcome' = [outcome EXCEPT ![p] = "accepted"]
    /\ rewarded' = rewarded \cup {<<UserOf[p], TestOf[p]>>}
    /\ UNCHANGED seats

Reject(p) ==
    /\ outcome[p] = "open"
    /\ outcome' = [outcome EXCEPT ![p] = "rejected"]
    /\ UNCHANGED <<seats, rewarded>>

Next == \E p \in Parts : Reserve(p) \/ Accept(p) \/ Reject(p)

Spec == Init /\ [][Next]_<<seats, outcome, rewarded>>
=============================================================================
