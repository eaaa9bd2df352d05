------------------------------ MODULE Reporting ------------------------------
(* What a studio reads: ReportCaches, the numbers that the caches hold          *)
(* (ReportMetrics) and the lists beside them (ListPages), side by side.         *)
(* They share no state here: an entry of a cache knows only whether what it   *)
(* holds is still true.                                                      *)
EXTENDS ReportCaches

CONSTANTS Users, Games, Tests, UserOf, TestOf, GameOf, Parts, Published, StartDay, NoDay,
          Days, SinceDay, Profile, Questions, QuestionsOf, QuestionOf, Forms, MaxRating
VARIABLES joined, session, day, judged, response, legacy, review, gone
R == INSTANCE ReportMetrics WITH verdict <- judged, deleted <- gone
metricVars == <<joined, session, day, judged, response, legacy, review, gone>>

CONSTANTS MaxRows, MaxLimit
VARIABLES list, asked, row, cursor, walk, seen, due
P == INSTANCE ListPages
pageVars == <<list, asked, row, cursor, walk, seen, due>>

ASSUME MetricsAssumption == R!DataFits
ASSUME PagesAssumption == MaxRows \in Nat /\ MaxLimit \in Nat

BlocksAddUp      == R!BlocksAddUp
HomeAgrees       == R!HomeAgrees
WalkSeesEachOnce == P!WalkSeesEachOnce
==============================================================================
