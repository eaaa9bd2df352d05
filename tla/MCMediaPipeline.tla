--------------------------- MODULE MCMediaPipeline ---------------------------
(* Small instances of MediaPipeline: every storage key has ids for MCRows      *)
(* rows, which are taken in their order.  MCRaces leaves a run to what decides *)
(* whether objects and rows go together: completes that race each other, the *)
(* consent, and the transcode of the first row.                              *)
EXTENDS MediaPipeline, TLC

CONSTANT MCRows

MCRecs  == Keys \X (1..MCRows)
MCKeyOf == [i \in MCRecs |-> i[1]]

Symmetry == Permutations(Requests)

MCIdsInOrder ==
    \A k \in Keys : rec'[<<k, 2>>] # "absent" => rec[<<k, 1>>] # "absent"

MCRaces ==
    /\ MCIdsInOrder
    /\ late' = {} /\ sweep' = SweepIdle
    /\ \A w \in Workers : run'[w] # Idle => run'[w].job[1][2] = 1 /\ run'[w].job[2] = "transcode"

(* What happens before the row is inserted is left to MCRaces; one late        *)
(* enqueue, of the transcode; an audio run, which writes nothing the others   *)
(* read, has the worker for itself.                                          *)
MCSettles ==
    /\ consent' # consent => \A k \in Keys : upload[k] = "none"
    /\ \A k \in ticket \ ticket' : RowsOf(k) # {}
    /\ cut' = cut
    /\ \A j \in late' : j[2] = "transcode"
    /\ \A v, w \in Workers :
          run'[v] # Idle /\ run'[w] # Idle /\ run'[v].job[2] = "audio" => v = w
=============================================================================
