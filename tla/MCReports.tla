------------------------------ MODULE MCReports ------------------------------
(* Small instances of Reporting: of ReportCaches with the smallest TTLs, so      *)
(* that time runs past them, of ReportMetrics, and of ListPages, each of whose *)
(* lists is read.                                                            *)
(* They share no state: each moves while the others are where they start, so  *)
(* their states add up.  One user is in two tests, another in one of them,    *)
(* which has a form with a rating over its own scale, one without a scale,    *)
(* and a choice.                                                             *)
EXTENDS Reporting, TLC

MCTtl == [c \in Caches |-> 1]
MCSymmetry == Permutations(Writers)

(* One of the two caches is filled or being filled at a time.                *)
MCFewFills ==
    \E c \in Caches : entry'[c] = Empty /\ \A d \in Readers : reader'[d] # Idle => reader'[d].c # c

(* A session is judged and rated before time passes: neither looks at the      *)
(* clock, and what they do to a cache other writes do as well.               *)
MCJudgedAtFirst ==
    clock' > 0 => /\ \A s \in Sessions : verdict'[s] = "none" /\ mark'[s] = "none"
                  /\ \A w \in Writers : writer'[w].at \in {"idle", "drop"}

MCNull == -1
MCNoDay == -100
MCDays == {-1, 15}
MCUserOf == <<"u1", "u1", "u2">>
MCTestOf == <<"t1", "t2", "t1">>
MCGameOf == [t \in Tests |-> IF t = "t2" THEN "g2" ELSE "g1"]
MCStartDay == [t \in Tests |-> IF t = "t1" THEN 0 ELSE MCNoDay]
MCProfile ==
    [u1 |-> [bracket |-> "18-24", archetype |-> "killer", tier |-> "all"],
     u2 |-> [bracket |-> "unknown", archetype |-> "unknown", tier |-> "unknown"]]
MCQuestionsOf == [t \in Tests |-> IF t = "t1" THEN Questions ELSE {}]
MCQuestion(type, min, max, required, options) ==
    [type |-> type, min |-> min, max |-> max, required |-> required, options |-> options]
MCQuestionOf ==
    [scale |-> MCQuestion("scale", 1, 2, TRUE, {}),
     nps   |-> MCQuestion("nps", MCNull, MCNull, FALSE, {}),
     pick  |-> MCQuestion("multiple_choice", MCNull, MCNull, FALSE, {"a", "b"})]
Number(q, n) == [q |-> q, value |-> [kind |-> "number", n |-> n]]
List(q, ids) == [q |-> q, value |-> [kind |-> "list", ids |-> ids]]
MCForms ==
    {<<>>,                                                  \* the required one is missing
     <<Number("scale", 1), Number("nps", 0), List("pick", <<"a", "b">>)>>,
     <<Number("scale", 2), List("pick", <<>>)>>,            \* a blank one
     <<Number("scale", 0)>>,                                \* outside its own scale
     <<Number("scale", 2), Number("nps", 9)>>,              \* outside any scale
     <<Number("scale", 1), Number("scale", 2)>>,            \* twice
     <<Number("scale", 1), List("pick", <<"a", "a">>)>>}    \* an option twice

(* One play is on either of two days, the others on one; the second test has   *)
(* no form and is played while the first has no answers; games are reviewed   *)
(* and removed only while the second player is away.                         *)
MCFewRows ==
    /\ day'[2] \in {day[2], 15} /\ day'[3] \in {day[3], 15}
    /\ 2 \in joined' => \A p \in Parts : ~response'[p].sent
    /\ 3 \in joined' => gone' = {} /\ \A u \in Users, g \in Games : review'[u][g] = R!Null
    /\ \A u \in Users, g \in Games : review'[u][g] \in {R!Null, 2, 5}

(* One of the many states in which a walk may start: an empty list of posts.   *)
MCNoRows ==
    /\ P!Init /\ list = "posts"
    /\ \A i \in P!Ids : row[i] = "none"

MCInit == Init /\ R!Init /\ P!Init
MCNext ==
    \/ MCNoRows /\ R!Init /\ Next /\ UNCHANGED <<metricVars, pageVars>>
    \/ MCNoRows /\ Init /\ R!Next /\ UNCHANGED <<vars, pageVars>>
    \/ Init /\ R!Init /\ P!Next /\ UNCHANGED <<vars, metricVars>>
MCSpec == MCInit /\ [][MCNext]_<<vars, metricVars, pageVars>>
==============================================================================
