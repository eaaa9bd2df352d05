----------------------------- MODULE MCRequests -----------------------------
(* Small instances of RequestRaces: one user with MCFamilies sign-ins of up to *)
(* MCChain tokens each, and MCLinks reset links.  Ids are taken in order.    *)
(* The components share no state, so each moves while the others are where    *)
(* they start, and their states add up.                                      *)
EXTENDS RequestRaces, TLC

CONSTANTS MCFamilies, MCChain, MCLinks

MCFamilySet == 1..MCFamilies
MCTokens    == MCFamilySet \X (1..MCChain)
MCLinkSet   == 1..MCLinks
MCUserOf    == [f \in MCFamilySet |-> CHOOSE u \in Users : TRUE]
MCFamilyOf  == [t \in MCTokens |-> t[1]]
MCLinkFor   == [k \in MCLinkSet |-> CHOOSE u \in Users : TRUE]

MCIdsInOrder ==
    /\ \A t \in Tokens :
          /\ token'[t] # "absent" /\ t[2] > 1 => token[<<t[1], t[2] - 1>>] # "absent"
          /\ token'[t] # "absent" /\ t[1] > 1 => token[<<t[1] - 1, 1>>] # "absent"
    /\ \A k \in Links : link'[k] # "absent" /\ k > 1 => link[k - 1] # "absent"

MCSocketUser == [t1 |-> "u1", t2 |-> "u2"]

(* A message and the channel are not both written, rounds of presence overlap  *)
(* only while neither is, and the game goes while no handler is in flight.    *)
MCSent == \E m \in Messages : message[m] # "none"
MCChannelWritten ==
    \/ channel # "open" \/ "channel" \in mixed \/ ~C!Quiet("channel")
    \/ \E c \in Clients : shows[c]["channel"] # Unknown
MCFewRounds ==
    /\ ~(MCSent' /\ MCChannelWritten')
    /\ (MCSent \/ MCChannelWritten)' =>
          /\ "presence" \notin mixed'
          /\ \A r \in Handlers : C!Telling(r, "presence")' =>
                \A q \in Handlers \ {r} : handler'[q] = C!Idle
    /\ gone' # gone => \A r \in Handlers : handler[r] = C!Idle

MCInit   == Init /\ C!Init /\ L!Init
MCAtRest == Init /\ \A u \in Users : member[u] = "none"
MCNext ==
    \/ C!Init /\ L!Init /\ Next /\ UNCHANGED <<chatVars, limitVars>>
    \/ MCAtRest /\ L!Init /\ C!Next /\ UNCHANGED <<vars, limitVars>>
    \/ MCAtRest /\ C!Init /\ L!Next /\ UNCHANGED <<vars, chatVars>>
MCSpec == MCInit /\ [][MCNext]_<<vars, chatVars, limitVars>>

MCSymmetry == Permutations(Requests) \cup Permutations(Handlers)
=============================================================================
