------------------------- MODULE MCSessionLifecycle -------------------------
(* Small instances of SessionLifecycle.  MCEager names the players with two   *)
(* participation rows in each test, the others have one; MCPlaying the players *)
(* who go on to play, with MCStarts session rows per participation; the      *)
(* others only compete for slots.  Ids are numbered per owner.               *)
EXTENDS SessionLifecycle, TLC

CONSTANTS MCEager,   \* players with two participation rows per test; the others have one
          MCPlaying, MCStarts

MCParts    == {p \in Users \X Tests \X (1..2) : p[3] = 1 \/ p[1] \in MCEager}
MCSessions == {p \in MCParts : p[1] \in MCPlaying} \X (1..MCStarts)
MCUserOf   == [p \in MCParts |-> p[1]]
MCTestOf   == [p \in MCParts |-> p[2]]
MCPartOf   == [s \in MCSessions |-> s[1]]
MCTwoSlots == [t \in Tests |-> 2]

Symmetry == Permutations(Requests) \cup Permutations(Workers)

(* A session's recordings are read by the run that judges it, and the consents *)
(* of a participation until it is played: what changes before or after that  *)
(* is noise, and cut.                                                        *)
MCNoNoise ==
    /\ \A s \in Sessions : recFailed'[s] # recFailed[s] =>
          verdict[s] = "none" /\ \E w \in Workers : run[w].at = "judge" /\ run[w].sess = s
    /\ \A p \in Parts : p \in consented' \ consented => pStatus[p] = "reserved"

(* Ids are interchangeable: the rows of an owner are inserted in their order. *)
MCIdsInOrder ==
    /\ \A p \in Parts : Present(p)' /\ p[3] = 2 => Present([p EXCEPT ![3] = 1])
    /\ \A s \in Sessions :
          sStatus'[s] # "absent" /\ s[2] = 2 => sStatus[[s EXCEPT ![2] = 1]] # "absent"

MCReduction == MCNoNoise /\ MCIdsInOrder
=============================================================================
