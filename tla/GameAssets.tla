----------------------------- MODULE GameAssets -----------------------------
(***************************************************************************)
(* The images of one game: a client gets a presigned URL, PUTs the object   *)
(* straight to storage and confirms it, which inserts a row; of a kind that *)
(* a card shows one of (cover, banner, logo, icon) the rows before it are   *)
(* then soft-deleted and their objects removed.  No transaction holds these *)
(* statements together and nothing locks: every query, statement and call   *)
(* to storage is a step, and requests overlap.                              *)
(***************************************************************************)
EXTENDS Integers, Sequences, AssetParameters

CONSTANT Requests

VARIABLES
    gone,      \* games.deleted_at
    url,       \* the presigned PUT of a key: not yet asked for, open or expired
    object,    \* what storage holds under a key: none, a good image or a bad one
    rows,      \* game_assets in the order of their ids
    req,       \* requests in flight
    raced,     \* history: keys two requests have held at once
    clash      \* history: kinds confirmed last while another confirmation had yet to retire

vars == <<gone, url, object, rows, req, raced, clash>>

Idle  == [at |-> "idle"]
Steps == {"stat", "reject", "insert"}

Row(i)   == rows[i]
Live(i)  == Row(i).is = "live"
Ids      == DOMAIN rows
KindAt(i) == KindOf[Row(i).key]
Latest(ids) == CHOOSE i \in ids : \A j \in ids : j <= i

TypeOK ==
    /\ gone \in BOOLEAN
    /\ url \in [Keys -> {"new", "open", "expired"}]
    /\ object \in [Keys -> {"none", "good", "bad"}]
    /\ rows \in Seq([key : Keys, is : {"live", "retired", "removed"}])
    /\ req \in [Requests -> {Idle} \cup [at : Steps, key : Keys]
                                 \cup [at : {"retire", "delete"}, id : Nat, key : Keys]
                                 \cup [at : {"clean"}, todo : SUBSET Keys]]
    /\ raced \in SUBSET Keys
    /\ clash \in SUBSET {KindOf[k] : k \in Keys}

Init ==
    /\ gone = FALSE
    /\ url = [k \in Keys |-> "new"]
    /\ object = [k \in Keys |-> "none"]
    /\ rows = <<>>
    /\ req = [r \in Requests |-> Idle]
    /\ raced = {}
    /\ clash = {}

-----------------------------------------------------------------------------
(* The client: createAssetUploadUrl names a new key each time; what is PUT     *)
(* there is checked only when it is confirmed.                               *)
UploadUrl(k) ==
    /\ ~gone
    /\ url[k] = "new"
    /\ url' = [url EXCEPT ![k] = "open"]
    /\ UNCHANGED <<gone, object, rows, req, clash>>

UrlExpires(k) ==
    /\ url[k] = "open"
    /\ url' = [url EXCEPT ![k] = "expired"]
    /\ UNCHANGED <<gone, object, rows, req, clash>>

Put(k, what) ==
    /\ url[k] = "open"
    /\ object' = [object EXCEPT ![k] = what]
    /\ UNCHANGED <<gone, url, rows, req, clash>>

-----------------------------------------------------------------------------
(* confirmAsset.  A key that already has a row is answered with that row.      *)
HasRow(k) == \E i \in Ids : Live(i) /\ Row(i).key = k

Confirm(r, k) ==
    /\ req[r] = Idle
    /\ ~gone
    /\ url[k] # "new"
    /\ ~HasRow(k)
    /\ req' = [req EXCEPT ![r] = [at |-> "stat", key |-> k]]
    /\ UNCHANGED <<gone, url, object, rows, clash>>

(* storage.stat: an object that is absent is a 422 and ends the request.       *)
AfterStatTrusting(found) ==    \* mutant: the missing object is not noticed
    IF found = "bad" THEN "reject" ELSE "insert"

AfterStat(found) ==
    CASE found = "good" -> "insert"
      [] found = "bad"  -> "reject"
      [] found = "none" -> "idle"

Stat(r) ==
    /\ req[r].at = "stat"
    /\ LET k == req[r].key
           next == AfterStat(object[k])
       IN req' = [req EXCEPT ![r] = IF next = "idle" THEN Idle ELSE [at |-> next, key |-> k]]
    /\ UNCHANGED <<gone, url, object, rows, clash>>

(* Removed from storage, or left there by a remove that failed.               *)
Discarded(k) == {object, [object EXCEPT ![k] = "none"]}

Reject(r) ==
    /\ req[r].at = "reject"
    /\ object' \in Discarded(req[r].key)
    /\ req' = [req EXCEPT ![r] = Idle]
    /\ UNCHANGED <<gone, url, rows, clash>>

Retiring(kind) == {r \in Requests : req[r].at = "retire" /\ KindOf[req[r].key] = kind}

Insert(r) ==
    /\ req[r].at = "insert"
    /\ Len(rows) < MaxRows
    /\ LET k == req[r].key IN
       /\ rows' = Append(rows, [key |-> k, is |-> "live"])
       /\ req' = [req EXCEPT ![r] = [at |-> "retire", id |-> Len(rows) + 1, key |-> k]]
       /\ clash' = IF Retiring(KindOf[k]) = {} THEN clash \ {KindOf[k]} ELSE clash \cup {KindOf[k]}
    /\ UNCHANGED <<gone, url, object>>

AnyOfKind(kind, keep) ==       \* mutant: no ne(gameAssets.id, keepAssetId)
    {i \in Ids : Live(i) /\ KindAt(i) = kind /\ kind \in Unique}

(* retirePreviousUniqueAssets: every other live row of the kind, newer ones   *)
(* included; screenshots accumulate.                                         *)
Previous(kind, keep) ==
    {i \in Ids : Live(i) /\ KindAt(i) = kind /\ kind \in Unique /\ i # keep}

ToClean(keys) == IF keys = {} THEN Idle ELSE [at |-> "clean", todo |-> keys]

Retire(r) ==
    /\ req[r].at = "retire"
    /\ LET old == Previous(KindOf[req[r].key], req[r].id) IN
       /\ rows' = [i \in Ids |-> IF i \in old THEN [Row(i) EXCEPT !.is = "retired"] ELSE Row(i)]
       /\ req' = [req EXCEPT ![r] = ToClean({Row(i).key : i \in old})]
    /\ UNCHANGED <<gone, url, object, clash>>

(* The removals of Promise.all, in any order; one that fails is swallowed.     *)
Clean(r, k) ==
    /\ req[r].at = "clean"
    /\ k \in req[r].todo
    /\ object' \in Discarded(k)
    /\ req' = [req EXCEPT ![r] = ToClean(req[r].todo \ {k})]
    /\ UNCHANGED <<gone, url, rows, clash>>

-----------------------------------------------------------------------------
(* removeAsset, and softDeleteAssetInOrg, which gives a 404 to the second of   *)
(* two that found the row.                                                   *)
RemoveAsset(r, i) ==
    /\ req[r] = Idle
    /\ ~gone
    /\ Live(i)
    /\ req' = [req EXCEPT ![r] = [at |-> "delete", id |-> i, key |-> Row(i).key]]
    /\ UNCHANGED <<gone, url, object, rows, clash>>

SoftDelete(r) ==
    /\ req[r].at = "delete"
    /\ LET i == req[r].id IN
       IF Live(i)
       THEN /\ rows' = [rows EXCEPT ![i].is = "removed"]
            /\ req' = [req EXCEPT ![r] = ToClean({req[r].key})]
       ELSE /\ req' = [req EXCEPT ![r] = Idle]
            /\ UNCHANGED rows
    /\ UNCHANGED <<gone, url, object, clash>>

(* remove: the game is soft-deleted, its rows and objects stay.               *)
RemoveGame ==
    /\ ~gone
    /\ gone' = TRUE
    /\ UNCHANGED <<url, object, rows, req, clash>>

(* A query or a call to storage that throws, or the death of the process.     *)
Dies(r) ==
    /\ req[r] # Idle
    /\ req' = [req EXCEPT ![r] = Idle]
    /\ UNCHANGED <<gone, url, object, rows, clash>>

Held(q) == CASE q.at = "idle"  -> {}
             [] q.at = "clean" -> q.todo
             [] OTHER          -> {q.key}

Step ==
    \/ \E k \in Keys : UploadUrl(k) \/ UrlExpires(k) \/ \E what \in {"good", "bad"} : Put(k, what)
    \/ \E r \in Requests, k \in Keys : Confirm(r, k) \/ Clean(r, k)
    \/ \E r \in Requests : Stat(r) \/ Reject(r) \/ Insert(r) \/ Retire(r) \/ SoftDelete(r) \/ Dies(r)
    \/ \E r \in Requests, i \in Ids : RemoveAsset(r, i)
    \/ RemoveGame

Next ==
    /\ Step
    /\ raced' = raced \cup
          {k \in Keys : \E q, r \in Requests : q # r /\ k \in Held(req'[q]) \cap Held(req'[r])}

Spec == Init /\ [][Next]_vars

-----------------------------------------------------------------------------
(* Properties.                                                               *)

(* findDisplayAssetsByGameIds: the newest live row of a kind, 0 for none.      *)
OfKind(kind) == {i \in Ids : KindAt(i) = kind}
Shown(kind) ==
    LET live == {i \in OfKind(kind) : Live(i)}
    IN IF live = {} THEN 0 ELSE Latest(live)

(* An image listed has its object: a row is inserted only after storage had    *)
(* the object, and objects go after their rows.  Two requests on one key at   *)
(* a time can break it, as when a confirmation is retried while the first is   *)
(* at work, or a key that was just retired is confirmed again.               *)
RowHasObject ==
    \A i \in Ids : Live(i) /\ object[Row(i).key] = "none" => Row(i).key \in raced

(* What was confirmed last is what the card shows, until the studio removes    *)
(* it, whatever requests died meanwhile.  Two confirmations of the kind can   *)
(* break it when the second inserts before the first retires: the first then  *)
(* retires the newer row, and each may retire the other's.  The next         *)
(* confirmation that inserts with no other one left to retire mends that.    *)
ShownIsLatest ==
    \A kind \in Unique :
        OfKind(kind) # {} /\ kind \notin clash =>
            LET last == Latest(OfKind(kind))
            IN Row(last).is = "removed" \/ Shown(kind) = last
=============================================================================
