----------------------------- MODULE Idempotency -----------------------------
(***************************************************************************)
(* The Idempotency-Key interceptor: requests that carry the same key, from  *)
(* the same caller, for the same method, URL and payload.  They share one    *)
(* Redis entry, which a request claims before its handler runs, replaces by  *)
(* the answer after it, and deletes when it failed.  The entry names no      *)
(* claimant, so whoever comes last overwrites or deletes it, also after the  *)
(* claim ran out and another request claimed the key.                        *)
(* Entries of different keys never meet; one is modelled.  A body is named   *)
(* by the request whose handler made it.                                     *)
(***************************************************************************)
EXTENDS Integers, IdempotencyParameters

VARIABLES
    entry,     \* the Redis key: what is stored, and whose answer
    req,       \* where each request stands
    wrote,     \* requests whose handler's writes are committed
    answer,    \* whose answer a request was given
    lapses     \* history: times the interceptor lost its grip, read by no action

vars == <<entry, req, wrote, answer, lapses>>

None       == [status |-> "none", by |-> Nobody]
Processing == [status |-> "processing", by |-> Nobody]
Done(r)    == [status |-> "done", by |-> r]

TypeOK ==
    /\ entry \in {None, Processing} \cup {Done(r) : r \in Retries}
    /\ req \in [Retries -> {"new", "claim", "run", "store", "release", "over"}]
    /\ wrote \in SUBSET Retries
    /\ answer \in [Retries -> Retries \cup {Nobody}]
    /\ lapses \in Nat

Init ==
    /\ entry = None
    /\ req = [r \in Retries |-> "new"]
    /\ wrote = {}
    /\ answer = [r \in Retries |-> Nobody]
    /\ lapses = 0

Goes(r, from, to) == req[r] = from /\ req' = [req EXCEPT ![r] = to]
Lapses(n) == lapses' = lapses + n

-----------------------------------------------------------------------------
(* GET: a stored answer is replayed, a claim answered with 409. *)
Look(r) ==
    /\ IF entry = None THEN Goes(r, "new", "claim") ELSE Goes(r, "new", "over")
    /\ answer' = [answer EXCEPT ![r] = entry.by]
    /\ UNCHANGED <<entry, wrote, lapses>>

(* SET ... NX; a 409 to who comes second. *)
ClaimsAnyway == TRUE    \* mutant: no NX

Claimable == entry = None

Claim(r) ==
    /\ IF Claimable
       THEN Goes(r, "claim", "run") /\ entry' = Processing
       ELSE Goes(r, "claim", "over") /\ UNCHANGED entry
    /\ UNCHANGED <<wrote, answer, lapses>>

(* The handler commits its writes and returns a body. *)
Handle(r) ==
    /\ Goes(r, "run", "store")
    /\ wrote' = wrote \cup {r}
    /\ UNCHANGED <<entry, answer, lapses>>

(* The handler throws, before its writes or with some of them committed. *)
HandlerThrows(r) ==
    /\ Goes(r, "run", "release")
    /\ \/ UNCHANGED <<wrote, lapses>>
       \/ wrote' = wrote \cup {r} /\ Lapses(1)
    /\ UNCHANGED <<entry, answer>>

NothingStored(r) == None    \* mutant: the claim is deleted on success too

Stored(r) == Done(r)

(* SET of the answer, whatever the key holds by now. *)
Store(r) ==
    /\ Goes(r, "store", "over")
    /\ entry' = Stored(r)
    /\ answer' = [answer EXCEPT ![r] = r]
    /\ UNCHANGED <<wrote, lapses>>

(* That SET rejects, applied or not: catchError takes it for a failure of the *)
(* handler.                                                                  *)
StoreFails(r) ==
    /\ Goes(r, "store", "release")
    /\ entry' \in {entry, Stored(r)}
    /\ Lapses(1)
    /\ UNCHANGED <<wrote, answer>>

(* DEL, or its rejection; the client gets the error. *)
Release(r) ==
    /\ Goes(r, "release", "over")
    /\ entry' \in {None, entry}
    /\ UNCHANGED <<wrote, answer, lapses>>

-----------------------------------------------------------------------------
(* The API process dies, or the SET of the claim rejects. *)
Dies(r) ==
    /\ req[r] \in {"claim", "run", "store", "release"}
    /\ req' = [req EXCEPT ![r] = "over"]
    /\ Lapses(IF req[r] = "store" THEN 1 ELSE 0)
    /\ UNCHANGED <<entry, wrote, answer>>

(* The 60 s of a claim, or the 24 h of an answer, run out.  Nothing is lost   *)
(* by the end of a claim whose request is gone.                              *)
InHand == {r \in Retries : req[r] \in {"run", "store", "release"}}

Expire ==
    /\ entry # None
    /\ entry' = None
    /\ Lapses(IF entry = Processing /\ InHand = {} THEN 0 ELSE 1)
    /\ UNCHANGED <<req, wrote, answer>>

Next ==
    \/ \E r \in Retries :
          \/ Look(r) \/ Claim(r) \/ Handle(r) \/ HandlerThrows(r)
          \/ Store(r) \/ StoreFails(r) \/ Release(r) \/ Dies(r)
    \/ Expire

Spec == Init /\ [][Next]_vars

-----------------------------------------------------------------------------
(* Properties.                                                               *)

(* A key is executed once, plus once for every time the interceptor lost its  *)
(* grip: a claim or an answer that ran out, an answer that could not be       *)
(* stored, a handler that threw halfway, a process that died before storing. *)
(* One such event does not cost two executions, though a late request then   *)
(* deletes or overwrites what is no longer its own.                          *)
OncePerLapse == Cardinality(wrote) <= 1 + lapses

(* While none of that happened, whoever was given an answer was given the     *)
(* same one, and it is that of a handler that wrote.                         *)
SameAnswer ==
    /\ \A r \in Retries : answer[r] # Nobody => answer[r] \in wrote
    /\ lapses = 0 =>
          \A q, r \in Retries : answer[q] # Nobody /\ answer[r] # Nobody => answer[q] = answer[r]

-----------------------------------------------------------------------------
(* What makes them inductive: a request that runs, or is yet to delete the    *)
(* entry, may still cost an execution; what is stored or about to be was      *)
(* written.                                                                  *)
MayExecute == {r \in Retries : req[r] \in {"run", "release"}}

Budget ==
    /\ Cardinality(wrote) + Cardinality(MayExecute) <= lapses + (IF entry = None THEN 0 ELSE 1)
    /\ entry = Processing /\ InHand = {} => Cardinality(wrote) <= lapses

AnswersAreWritten ==
    /\ \A r \in Retries : answer[r] # Nobody => answer[r] \in wrote
    /\ \A r \in Retries : req[r] = "store" => r \in wrote
    /\ entry.by # Nobody => entry.by \in wrote
=============================================================================
