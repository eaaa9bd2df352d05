----------------------------- MODULE MCRetries ------------------------------
(* Small instances of the three components of LateWork.  They share no state,  *)
(* so each moves while the others are where they start, and their states add  *)
(* up.                                                                       *)
EXTENDS LateWork, TLC

MCText(sql, eol) == [sql |-> sql, eol |-> eol]
MCImage(gen, files) == [gen |-> gen, files |-> files]
MCImages ==
    {MCImage(1, <<MCText("a", "lf")>>),                          \* an old one
     MCImage(2, <<MCText("a", "crlf"), MCText("b", "lf")>>),
     MCImage(2, <<MCText("edited", "lf"), MCText("b", "lf")>>),
     MCImage(1, [f \in {2} |-> MCText("b", "lf")])}              \* of another branch

(* Where each of the three really stops.                                     *)
MCAnswered == \A r \in Retries : req[r] = "over"
MCExported ==
    /\ \A e \in Exports : export[e] \in {"done", "dead"} /\ job[e] # "waiting"
    /\ late = {} /\ \A w \in Workers : run[w] = E!Idle
MCBooted == \A r \in Runners : at[r] \in {"done", "failed"}

(* One of the states in which replicas may boot: an empty database.           *)
MCBare ==
    /\ M!Init /\ journal = 0
    /\ \A r \in Runners : image[r] = MCImage(1, <<MCText("a", "lf")>>)

MCInit == Init /\ E!Init /\ M!Init
MCNext ==
    \/ MCBare /\ E!Init /\ Next /\ UNCHANGED <<exportVars, bootVars>>
    \/ MCBare /\ Init /\ E!Next /\ UNCHANGED <<vars, bootVars>>
    \/ Init /\ E!Init /\ M!Next /\ UNCHANGED <<vars, exportVars>>
    \/ (MCAnswered \/ MCExported \/ MCBooted) /\ UNCHANGED <<vars, exportVars, bootVars>>
MCSpec == MCInit /\ [][MCNext]_<<vars, exportVars, bootVars>>

MCSymmetry ==
    Permutations(Retries) \cup Permutations(Exports) \cup Permutations(Workers)
        \cup Permutations(Runners)
=============================================================================
