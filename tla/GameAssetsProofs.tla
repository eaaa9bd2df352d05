--------------------------- MODULE GameAssetsProofs ---------------------------
(* Proofs about GameAssets, for any uploads and any number of requests: a live  *)
(* image has its object unless two requests worked on its key at a time, and   *)
(* the image confirmed last is the one shown unless another confirmation of    *)
(* its kind had still to retire the images before it.                        *)
EXTENDS GameAssets, TLAPS, WellFoundedInduction

Assets == [key : Keys, is : {"live", "retired", "removed"}]
States == {Idle} \cup [at : Steps, key : Keys]
                 \cup [at : {"retire", "delete"}, id : Nat, key : Keys]
                 \cup [at : {"clean"}, todo : SUBSET Keys]

(* Whoever works on an upload while another request does, or while it has a     *)
(* live row it did not insert, was in a race for it.                         *)
HeldOnce == \A q, r \in Requests : q # r => Held(req[q]) \cap Held(req[r]) \subseteq raced
RowsAlone ==
    \A i, j \in Ids : Live(i) /\ Live(j) /\ i # j /\ Row(i).key = Row(j).key => Row(i).key \in raced
ConfirmedAlone ==
    \A q \in Requests : req[q].at \in Steps /\ HasRow(req[q].key) => req[q].key \in raced
CleanedAlone ==
    \A q \in Requests : req[q].at = "clean" => \A k \in req[q].todo : HasRow(k) => k \in raced

(* Who is about to insert a row found the object, and who retires or removes    *)
(* one knows its key.                                                        *)
InsertsWhatIsThere ==
    \A q \in Requests : req[q].at = "insert" /\ object[req[q].key] = "none" => req[q].key \in raced
KnowsItsRow ==
    \A q \in Requests : req[q].at \in {"retire", "delete"} =>
        req[q].id \in Ids /\ Row(req[q].id).key = req[q].key

ObjectInv ==
    /\ TypeOK /\ HeldOnce /\ RowsAlone /\ ConfirmedAlone /\ CleanedAlone
    /\ InsertsWhatIsThere /\ KnowsItsRow /\ RowHasObject

(* A row of a kind that a card shows one of is retired for a newer one: who      *)
(* retires has inserted the last, and the last is not retired.               *)
RetiresForLast ==
    \A q \in Requests : req[q].at = "retire" =>
        LET kind == KindOf[req[q].key] IN
        kind \in Unique \ clash => \A j \in OfKind(kind) : j <= req[q].id
LastStands ==
    \A kind \in Unique \ clash : \A i \in OfKind(kind) :
        (\A j \in OfKind(kind) : j <= i) => Row(i).is # "retired"

ShownInv == TypeOK /\ KnowsItsRow /\ RetiresForLast /\ LastStands

-----------------------------------------------------------------------------
(* What a request carries along. *)
LEMMA Carries ==
    ASSUME TypeOK, NEW q \in Requests
    PROVE  /\ req[q].at \in Steps => req[q].key \in Keys /\ Held(req[q]) = {req[q].key}
           /\ req[q].at \in {"retire", "delete"} =>
                 req[q].id \in Nat /\ req[q].key \in Keys /\ Held(req[q]) = {req[q].key}
           /\ req[q].at = "clean" => req[q].todo \in SUBSET Keys /\ Held(req[q]) = req[q].todo
           /\ Held(req[q]) \in SUBSET Keys
<1>1. req[q] \in States
  BY DEF TypeOK, States
<1> QED
  BY <1>1 DEF States, Idle, Steps, Held

(* Rows are numbered from 1. *)
LEMMA Rows ==
    ASSUME TypeOK
    PROVE  /\ Len(rows) \in Nat /\ Ids = 1..Len(rows)
           /\ \A i \in Ids : rows[i] \in Assets
<1>1. rows \in Seq(Assets)
  BY DEF TypeOK, Assets
<1> QED
  BY <1>1 DEF Ids

LEMMA ToCleanType == ASSUME NEW S \in SUBSET Keys PROVE ToClean(S) \in States
BY DEF ToClean, States

(* What retiring and removing leave of the rows. *)
LEMMA Retired ==
    ASSUME TypeOK, NEW old \in SUBSET Ids,
           rows' = [i \in Ids |-> IF i \in old THEN [Row(i) EXCEPT !.is = "retired"] ELSE Row(i)]
    PROVE  /\ rows' \in Seq(Assets) /\ Ids' = Ids
           /\ \A i \in Ids : Row(i)'.key = Row(i).key
                          /\ Row(i)'.is = IF i \in old THEN "retired" ELSE Row(i).is
<1>1. Len(rows) \in Nat /\ Ids = 1..Len(rows) /\ \A i \in Ids : rows[i] \in Assets
  BY Rows
<1>2. \A i \in Ids : /\ [rows[i] EXCEPT !.is = "retired"] \in Assets
                     /\ [rows[i] EXCEPT !.is = "retired"].key = rows[i].key
                     /\ [rows[i] EXCEPT !.is = "retired"].is = "retired"
  BY <1>1 DEF Assets
<1>3. rows' \in [1..Len(rows) -> Assets]
  BY <1>1, <1>2 DEF Row
<1>4. rows' \in Seq(Assets)
  BY <1>1, <1>3
<1>5. Ids' = Ids
  BY <1>1, <1>3 DEF Ids
<1>6. ASSUME NEW i \in Ids
      PROVE  /\ Row(i)'.key = Row(i).key
             /\ Row(i)'.is = IF i \in old THEN "retired" ELSE Row(i).is
  <2>1. rows'[i] = IF i \in old THEN [rows[i] EXCEPT !.is = "retired"] ELSE rows[i]
    BY DEF Row
  <2> QED
    BY <1>2, <2>1 DEF Row
<1> QED
  BY <1>4, <1>5, <1>6

LEMMA Removed ==
    ASSUME TypeOK, NEW n \in Ids, rows' = [rows EXCEPT ![n].is = "removed"]
    PROVE  /\ rows' \in Seq(Assets) /\ Ids' = Ids
           /\ \A i \in Ids : Row(i)'.key = Row(i).key
                          /\ Row(i)'.is = IF i = n THEN "removed" ELSE Row(i).is
<1>1. Len(rows) \in Nat /\ Ids = 1..Len(rows) /\ \A i \in Ids : rows[i] \in Assets
  BY Rows
<1>2. /\ [rows[n] EXCEPT !.is = "removed"] \in Assets
      /\ [rows[n] EXCEPT !.is = "removed"].key = rows[n].key
      /\ [rows[n] EXCEPT !.is = "removed"].is = "removed"
  BY <1>1 DEF Assets
<1>3. rows' = [rows EXCEPT ![n] = [rows[n] EXCEPT !.is = "removed"]]
  OBVIOUS
<1>4. rows \in [1..Len(rows) -> Assets]
  BY <1>1 DEF TypeOK, Assets
<1>5. rows' \in [1..Len(rows) -> Assets]
  BY <1>1, <1>2, <1>3, <1>4
<1>6. rows' \in Seq(Assets) /\ Ids' = Ids
  BY <1>1, <1>5 DEF Ids
<1>7. \A i \in Ids : rows'[i] = IF i = n THEN [rows[n] EXCEPT !.is = "removed"] ELSE rows[i]
  BY <1>1, <1>3, <1>4
<1> QED
  BY <1>2, <1>6, <1>7 DEF Row

LEMMA Added ==
    ASSUME TypeOK, NEW k \in Keys, rows' = Append(rows, [key |-> k, is |-> "live"])
    PROVE  /\ rows' \in Seq(Assets)
           /\ Len(rows) \in Nat /\ Ids = 1..Len(rows) /\ Ids' = Ids \cup {Len(rows) + 1}
           /\ \A i \in Ids : Row(i)' = Row(i)
           /\ rows'[Len(rows) + 1] = [key |-> k, is |-> "live"]
<1>1. Len(rows) \in Nat /\ Ids = 1..Len(rows) /\ rows \in Seq(Assets)
  BY Rows DEF TypeOK, Assets
<1>2. [key |-> k, is |-> "live"] \in Assets
  BY DEF Assets
<1>3. /\ rows' \in Seq(Assets) /\ Len(rows') = Len(rows) + 1
      /\ \A i \in 1..Len(rows) : rows'[i] = rows[i]
      /\ rows'[Len(rows) + 1] = [key |-> k, is |-> "live"]
  BY <1>1, <1>2
<1>4. DOMAIN rows' = 1..(Len(rows) + 1)
  BY <1>3
<1> QED
  BY <1>1, <1>3, <1>4 DEF Ids, Row

-----------------------------------------------------------------------------
(* The types. *)
LEMMA TypeInit == Init => TypeOK
<1> SUFFICES ASSUME Init PROVE TypeOK
  OBVIOUS
<1>1. rows \in Seq([key : Keys, is : {"live", "retired", "removed"}])
  BY DEF Init
<1>2. /\ url \in [Keys -> {"new", "open", "expired"}]
      /\ object \in [Keys -> {"none", "good", "bad"}]
      /\ gone \in BOOLEAN
  BY DEF Init
<1> QED
  BY <1>1, <1>2 DEF Init, TypeOK

LEMMA TypeStep == TypeOK /\ KnowsItsRow /\ [Next]_vars => TypeOK'
<1> SUFFICES ASSUME TypeOK, KnowsItsRow, [Next]_vars PROVE TypeOK'
  OBVIOUS
<1>0. /\ gone \in BOOLEAN
      /\ url \in [Keys -> {"new", "open", "expired"}]
      /\ object \in [Keys -> {"none", "good", "bad"}]
      /\ rows \in Seq(Assets)
      /\ req \in [Requests -> States]
      /\ raced \in SUBSET Keys
      /\ clash \in SUBSET {KindOf[k] : k \in Keys}
  BY DEF TypeOK, Assets, States
<1>1. raced' \in SUBSET Keys
  BY <1>0 DEF Next, vars
<1>2. ASSUME /\ gone' \in BOOLEAN
             /\ url' \in [Keys -> {"new", "open", "expired"}]
             /\ object' \in [Keys -> {"none", "good", "bad"}]
             /\ rows' \in Seq(Assets)
             /\ req' \in [Requests -> States]
             /\ clash' \in SUBSET {KindOf[k] : k \in Keys}
      PROVE  TypeOK'
  BY <1>1, <1>2 DEF TypeOK, Assets, States
<1>3. Idle \in States
  BY DEF States
<1>4. ASSUME NEW k \in Keys, UploadUrl(k) \/ UrlExpires(k) PROVE TypeOK'
  BY <1>0, <1>2, <1>4 DEF UploadUrl, UrlExpires
<1>5. ASSUME NEW k \in Keys, NEW what \in {"good", "bad"}, Put(k, what) PROVE TypeOK'
  BY <1>0, <1>2, <1>5 DEF Put
<1>6. ASSUME NEW r \in Requests, NEW k \in Keys, Confirm(r, k) PROVE TypeOK'
  <2>1. [at |-> "stat", key |-> k] \in States
    BY DEF States, Steps
  <2> QED
    BY <1>0, <1>2, <1>6, <2>1 DEF Confirm
<1>7. ASSUME NEW r \in Requests, NEW k \in Keys, Clean(r, k) PROVE TypeOK'
  <2>1. ToClean(req[r].todo \ {k}) \in States
    BY <1>7, Carries, ToCleanType DEF Clean
  <2> QED
    BY <1>0, <1>2, <1>7, <2>1 DEF Clean, Discarded
<1>8. ASSUME NEW r \in Requests, Stat(r) PROVE TypeOK'
  <2>1. req[r].key \in Keys
    BY <1>8, Carries DEF Stat, Steps
  <2>2. AfterStat(object[req[r].key]) \in {"idle", "reject", "insert"}
    BY <1>0, <2>1 DEF AfterStat
  <2>3. \A next \in {"reject", "insert"} : [at |-> next, key |-> req[r].key] \in States
    BY <2>1 DEF States, Steps
  <2> QED
    BY <1>0, <1>2, <1>3, <1>8, <2>2, <2>3 DEF Stat
<1>9. ASSUME NEW r \in Requests, Reject(r) PROVE TypeOK'
  BY <1>0, <1>2, <1>3, <1>9 DEF Reject, Discarded
<1>10. ASSUME NEW r \in Requests, Insert(r) PROVE TypeOK'
  <2>1. req[r].key \in Keys
    BY <1>10, Carries DEF Insert, Steps
  <2>2. rows' \in Seq(Assets) /\ Len(rows) \in Nat
    BY <1>10, <2>1, Added DEF Insert
  <2>3. [at |-> "retire", id |-> Len(rows) + 1, key |-> req[r].key] \in States
    BY <2>1, <2>2 DEF States
  <2>4. clash' \in SUBSET {KindOf[k] : k \in Keys}
    BY <1>0, <1>10, <2>1 DEF Insert
  <2> QED
    BY <1>0, <1>2, <1>10, <2>2, <2>3, <2>4 DEF Insert
<1>11. ASSUME NEW r \in Requests, Retire(r) PROVE TypeOK'
  <2> DEFINE old == Previous(KindOf[req[r].key], req[r].id)
  <2>1. old \in SUBSET Ids
    BY DEF Previous
  <2>2. rows' = [i \in Ids |-> IF i \in old THEN [Row(i) EXCEPT !.is = "retired"] ELSE Row(i)]
    BY <1>11 DEF Retire
  <2>3. {Row(i).key : i \in old} \in SUBSET Keys
    BY <2>1, Rows DEF Row, Assets
  <2>4. req' = [req EXCEPT ![r] = ToClean({Row(i).key : i \in old})]
    BY <1>11 DEF Retire
  <2> HIDE DEF old
  <2>5. rows' \in Seq(Assets)
    BY <2>1, <2>2, Retired
  <2>6. req' \in [Requests -> States]
    BY <1>0, <2>3, <2>4, ToCleanType
  <2> QED
    BY <1>0, <1>2, <1>11, <2>5, <2>6 DEF Retire
<1>12. ASSUME NEW r \in Requests, SoftDelete(r) PROVE TypeOK'
  <2>1. req[r].key \in Keys
    BY <1>12, Carries DEF SoftDelete
  <2>2. ToClean({req[r].key}) \in States
    BY <2>1, ToCleanType
  <2>3. rows' \in Seq(Assets)
    <3>1. CASE Live(req[r].id)
      <4>1. req[r].id \in Ids
        BY <1>12 DEF SoftDelete, KnowsItsRow
      <4> QED
        BY <1>12, <3>1, <4>1, Removed DEF SoftDelete
    <3>2. CASE ~Live(req[r].id)
      BY <1>0, <1>12, <3>2 DEF SoftDelete
    <3> QED
      BY <3>1, <3>2
  <2> QED
    BY <1>0, <1>2, <1>3, <1>12, <2>2, <2>3 DEF SoftDelete
<1>13. ASSUME NEW r \in Requests, Dies(r) PROVE TypeOK'
  BY <1>0, <1>2, <1>3, <1>13 DEF Dies
<1>14. ASSUME NEW r \in Requests, NEW i \in Ids, RemoveAsset(r, i) PROVE TypeOK'
  <2>1. i \in Nat /\ Row(i).key \in Keys
    BY Rows DEF Row, Assets
  <2>2. [at |-> "delete", id |-> i, key |-> Row(i).key] \in States
    BY <2>1 DEF States
  <2> QED
    BY <1>0, <1>2, <1>14, <2>2 DEF RemoveAsset
<1>15. CASE RemoveGame
  BY <1>0, <1>2, <1>15 DEF RemoveGame
<1>16. CASE UNCHANGED vars
  BY <1>0, <1>2, <1>16 DEF vars
<1> QED
  BY <1>4, <1>5, <1>6, <1>7, <1>8, <1>9, <1>10, <1>11, <1>12, <1>13, <1>14, <1>15, <1>16
     DEF Next, Step

(* A request moves by a step of its own, and what it then is at.              *)
Acts(q) ==
    \/ Stat(q) \/ Reject(q) \/ Insert(q) \/ Retire(q) \/ SoftDelete(q) \/ Dies(q)
    \/ \E k \in Keys : Confirm(q, k) \/ Clean(q, k)
    \/ \E i \in Ids : RemoveAsset(q, i)

LEMMA Moves ==
    ASSUME TypeOK, [Next]_vars, NEW q \in Requests, req'[q] # req[q]
    PROVE  Acts(q)
<1>1. ASSUME NEW r \in Requests, NEW s, req' = [req EXCEPT ![r] = s] PROVE r = q
  BY <1>1 DEF TypeOK
<1>2. ASSUME NEW r \in Requests, Acts(r) PROVE r = q
  BY <1>1, <1>2
     DEF Acts, Stat, Reject, Insert, Retire, SoftDelete, Dies, Confirm, Clean, RemoveAsset
<1>3. \E r \in Requests : Acts(r)
  <2>1. req' # req
    OBVIOUS
  <2> QED
    BY <2>1 DEF Next, Step, Acts, UploadUrl, UrlExpires, Put, RemoveGame, vars
<1> QED
  BY <1>2, <1>3

LEMMA Arrives ==
    ASSUME TypeOK, NEW q \in Requests, Acts(q)
    PROVE  /\ req'[q].at \in {"retire", "delete"} => Insert(q) \/ \E i \in Ids : RemoveAsset(q, i)
           /\ req'[q].at = "retire" => Insert(q)
           /\ req'[q].at = "clean" =>
                 Retire(q) \/ SoftDelete(q) \/ \E k \in Keys : Clean(q, k)
           /\ req'[q].at \in Steps => Stat(q) \/ \E k \in Keys : Confirm(q, k)
           /\ req'[q].at = "insert" => Stat(q)
<1> DEFINE Goal ==
             /\ req'[q].at \in {"retire", "delete"} => Insert(q) \/ \E i \in Ids : RemoveAsset(q, i)
             /\ req'[q].at = "retire" => Insert(q)
             /\ req'[q].at = "clean" =>
                   Retire(q) \/ SoftDelete(q) \/ \E k \in Keys : Clean(q, k)
             /\ req'[q].at \in Steps => Stat(q) \/ \E k \in Keys : Confirm(q, k)
             /\ req'[q].at = "insert" => Stat(q)
<1>1. \A S : ToClean(S).at \in {"idle", "clean"}
  BY DEF ToClean, Idle
<1>2. ASSUME NEW s, req' = [req EXCEPT ![q] = s] PROVE req'[q] = s
  BY <1>2 DEF TypeOK
<1>3. CASE Stat(q)
  <2>1. req[q].key \in Keys
    BY <1>3, Carries DEF Stat, Steps
  <2>2. AfterStat(object[req[q].key]) \in {"idle", "reject", "insert"}
    BY <2>1 DEF AfterStat, TypeOK
  <2>3. req'[q].at \in {"idle", "reject", "insert"}
    <3>1. PICK s : /\ req' = [req EXCEPT ![q] = s]
                   /\ s = IF AfterStat(object[req[q].key]) = "idle" THEN Idle
                          ELSE [at |-> AfterStat(object[req[q].key]), key |-> req[q].key]
      BY <1>3 DEF Stat
    <3>2. s.at \in {"idle", "reject", "insert"}
      BY <2>2, <3>1 DEF Idle
    <3> QED
      BY <1>2, <3>1, <3>2
  <2> QED
    BY <1>3, <2>3
<1>4. CASE Retire(q) \/ SoftDelete(q) \/ \E k \in Keys : Clean(q, k)
  <2>1. req'[q].at \in {"idle", "clean"}
    <3>1. CASE Retire(q)
      BY <1>1, <1>2, <3>1 DEF Retire
    <3>2. CASE SoftDelete(q)
      BY <1>1, <1>2, <3>2 DEF SoftDelete, Idle
    <3>3. ASSUME NEW k \in Keys, Clean(q, k) PROVE req'[q].at \in {"idle", "clean"}
      BY <1>1, <1>2, <3>3 DEF Clean
    <3> QED
      BY <1>4, <3>1, <3>2, <3>3
  <2> QED
    BY <1>4, <2>1 DEF Steps
<1>5. CASE Reject(q) \/ Dies(q)
  <2>1. req'[q].at = "idle"
    BY <1>2, <1>5 DEF Reject, Dies, Idle
  <2> QED
    BY <2>1 DEF Steps
<1>6. CASE Insert(q)
  <2>1. req'[q].at = "retire"
    BY <1>2, <1>6 DEF Insert
  <2> QED
    BY <1>6, <2>1 DEF Steps
<1>7. ASSUME NEW k \in Keys, Confirm(q, k) PROVE Goal
  <2>1. req'[q].at = "stat"
    BY <1>2, <1>7 DEF Confirm
  <2> QED
    BY <1>7, <2>1 DEF Steps
<1>8. ASSUME NEW i \in Ids, RemoveAsset(q, i) PROVE Goal
  <2>1. req'[q].at = "delete"
    BY <1>2, <1>8 DEF RemoveAsset
  <2> QED
    BY <1>8, <2>1 DEF Steps
<1> QED
  BY <1>3, <1>4, <1>5, <1>6, <1>7, <1>8 DEF Acts

(* Rows are never taken out, and keep their keys: who retires or removes one     *)
(* knows its key.                                                            *)
LEMMA RowsStay ==
    ASSUME TypeOK, KnowsItsRow, [Next]_vars
    PROVE  Ids \subseteq Ids' /\ \A i \in Ids : Row(i)'.key = Row(i).key
<1>1. ASSUME NEW r \in Requests, Insert(r)
      PROVE  Ids \subseteq Ids' /\ \A i \in Ids : Row(i)'.key = Row(i).key
  <2>1. req[r].key \in Keys
    BY <1>1, Carries DEF Insert, Steps
  <2> QED
    BY <1>1, <2>1, Added DEF Insert
<1>2. ASSUME NEW r \in Requests, Retire(r)
      PROVE  Ids \subseteq Ids' /\ \A i \in Ids : Row(i)'.key = Row(i).key
  <2> DEFINE old == Previous(KindOf[req[r].key], req[r].id)
  <2>1. old \in SUBSET Ids
    BY DEF Previous
  <2>2. rows' = [i \in Ids |-> IF i \in old THEN [Row(i) EXCEPT !.is = "retired"] ELSE Row(i)]
    BY <1>2 DEF Retire
  <2> HIDE DEF old
  <2> QED
    BY <2>1, <2>2, Retired
<1>3. ASSUME NEW r \in Requests, SoftDelete(r)
      PROVE  Ids \subseteq Ids' /\ \A i \in Ids : Row(i)'.key = Row(i).key
  <2>1. req[r].id \in Ids
    BY <1>3 DEF SoftDelete, KnowsItsRow
  <2>2. rows' = rows \/ rows' = [rows EXCEPT ![req[r].id].is = "removed"]
    BY <1>3 DEF SoftDelete
  <2>3. CASE rows' = rows
    BY <2>3 DEF Ids, Row
  <2>4. CASE rows' = [rows EXCEPT ![req[r].id].is = "removed"]
    BY <2>1, <2>4, Removed
  <2> QED
    BY <2>2, <2>3, <2>4
<1>4. CASE rows' = rows
  BY <1>4 DEF Ids, Row
<1> QED
  BY <1>1, <1>2, <1>3, <1>4
     DEF Next, Step, UploadUrl, UrlExpires, Put, Confirm, Clean, Stat, Reject, Dies,
         RemoveAsset, RemoveGame, vars

LEMMA KnowsStep == TypeOK /\ KnowsItsRow /\ [Next]_vars => KnowsItsRow'
<1> SUFFICES ASSUME TypeOK, KnowsItsRow, [Next]_vars,
                    NEW q \in Requests, req'[q].at \in {"retire", "delete"}
             PROVE  req'[q].id \in Ids' /\ rows'[req'[q].id].key = req'[q].key
  BY DEF KnowsItsRow, Row
<1>1. CASE req'[q] = req[q]
  BY <1>1, RowsStay DEF KnowsItsRow, Row
<1>2. CASE Insert(q)
  <2>1. req[q].key \in Keys
    BY <1>2, Carries DEF Insert, Steps
  <2>2. req'[q] = [at |-> "retire", id |-> Len(rows) + 1, key |-> req[q].key]
    BY <1>2 DEF Insert, TypeOK
  <2> QED
    BY <1>2, <2>1, <2>2, Added DEF Insert
<1>3. ASSUME NEW i \in Ids, RemoveAsset(q, i)
      PROVE  req'[q].id \in Ids' /\ rows'[req'[q].id].key = req'[q].key
  BY <1>3 DEF RemoveAsset, TypeOK, Ids, Row
<1> QED
  BY <1>1, <1>2, <1>3, Moves, Arrives

-----------------------------------------------------------------------------
(* Objects.  A live row was live before, or is the one inserted.               *)
LEMMA LiveRows ==
    ASSUME TypeOK, KnowsItsRow, [Next]_vars, NEW i \in Ids', rows'[i].is = "live"
    PROVE  \/ i \in Ids /\ Live(i) /\ rows'[i].key = Row(i).key
           \/ \E r \in Requests :
                 Insert(r) /\ i = Len(rows) + 1 /\ i \notin Ids /\ rows'[i].key = req[r].key
<1> DEFINE Goal == \/ i \in Ids /\ Live(i) /\ rows'[i].key = Row(i).key
                   \/ \E r \in Requests :
                         Insert(r) /\ i = Len(rows) + 1 /\ i \notin Ids /\ rows'[i].key = req[r].key
<1>1. ASSUME NEW r \in Requests, Insert(r) PROVE Goal
  <2>1. req[r].key \in Keys
    BY <1>1, Carries DEF Insert, Steps
  <2> QED
    <3>1. /\ Len(rows) \in Nat /\ Ids = 1..Len(rows) /\ Ids' = Ids \cup {Len(rows) + 1}
          /\ \A n \in Ids : rows'[n] = rows[n]
          /\ rows'[Len(rows) + 1] = [key |-> req[r].key, is |-> "live"]
      BY <1>1, <2>1, Added DEF Insert, Row
    <3>2. CASE i \in Ids
      BY <3>1, <3>2 DEF Row, Live
    <3>3. CASE i = Len(rows) + 1
      BY <1>1, <3>1, <3>3
    <3> QED
      BY <3>1, <3>2, <3>3
<1>2. ASSUME NEW r \in Requests, Retire(r) PROVE Goal
  <2> DEFINE old == Previous(KindOf[req[r].key], req[r].id)
  <2>1. old \in SUBSET Ids
    BY DEF Previous
  <2>2. rows' = [n \in Ids |-> IF n \in old THEN [Row(n) EXCEPT !.is = "retired"] ELSE Row(n)]
    BY <1>2 DEF Retire
  <2> HIDE DEF old
  <2> QED
    BY <2>1, <2>2, Retired DEF Row, Live
<1>3. ASSUME NEW r \in Requests, SoftDelete(r) PROVE Goal
  <2>1. req[r].id \in Ids
    BY <1>3 DEF SoftDelete, KnowsItsRow
  <2>2. rows' = rows \/ rows' = [rows EXCEPT ![req[r].id].is = "removed"]
    BY <1>3 DEF SoftDelete
  <2>3. CASE rows' = rows
    BY <2>3 DEF Ids, Row, Live
  <2>4. CASE rows' = [rows EXCEPT ![req[r].id].is = "removed"]
    <3>1. /\ i \in Ids /\ rows'[i].key = Row(i).key
          /\ rows'[i].is = IF i = req[r].id THEN "removed" ELSE Row(i).is
      BY <2>1, <2>4, Removed DEF Row
    <3> QED
      BY <3>1 DEF Live
  <2> QED
    BY <2>2, <2>3, <2>4
<1>4. CASE rows' = rows
  BY <1>4 DEF Ids, Row, Live
<1> QED
  BY <1>1, <1>2, <1>3, <1>4
     DEF Next, Step, UploadUrl, UrlExpires, Put, Confirm, Clean, Stat, Reject, Dies,
         RemoveAsset, RemoveGame, vars

LEMMA NewRows ==
    ASSUME TypeOK, KnowsItsRow, [Next]_vars, NEW k, HasRow(k)', ~HasRow(k)
    PROVE  \E r \in Requests : Insert(r) /\ req[r].key = k
<1>1. PICK i \in Ids' : rows'[i].is = "live" /\ rows'[i].key = k
  BY DEF HasRow, Live, Row
<1> QED
  BY <1>1, LiveRows DEF HasRow

(* An object goes only by who holds its key.                                  *)
LEMMA Taken ==
    ASSUME TypeOK, [Next]_vars, NEW k \in Keys, object'[k] = "none", object[k] # "none"
    PROVE  \E r \in Requests : \/ Reject(r) /\ req[r].key = k
                              \/ Clean(r, k)
<1>1. ASSUME NEW r \in Requests, Reject(r) PROVE req[r].key = k
  <2>1. req[r].key \in Keys
    BY <1>1, Carries DEF Reject, Steps
  <2> QED
    BY <1>1, <2>1 DEF Reject, Discarded, TypeOK
<1>2. ASSUME NEW r \in Requests, NEW l \in Keys, Clean(r, l) PROVE l = k
  BY <1>2 DEF Clean, Discarded, TypeOK
<1>3. ASSUME NEW l \in Keys, NEW what \in {"good", "bad"}, Put(l, what) PROVE FALSE
  BY <1>3 DEF Put, TypeOK
<1> QED
  BY <1>1, <1>2, <1>3
     DEF Next, Step, UploadUrl, UrlExpires, Confirm, Stat, Insert, Retire, SoftDelete, Dies,
         RemoveAsset, RemoveGame, vars

(* What two requests hold at once is noted.                                    *)
LEMMA Noted == TypeOK /\ KnowsItsRow /\ HeldOnce /\ [Next]_vars => HeldOnce' /\ raced \subseteq raced'
<1> SUFFICES ASSUME TypeOK, KnowsItsRow, HeldOnce, [Next]_vars PROVE HeldOnce' /\ raced \subseteq raced'
  OBVIOUS
<1>1. CASE Next
  <2>1. raced' = raced \cup
           {k \in Keys : \E q, r \in Requests : q # r /\ k \in Held(req'[q]) \cap Held(req'[r])}
    BY <1>1 DEF Next
  <2>2. \A q \in Requests : Held(req'[q]) \subseteq Keys
    <3>1. TypeOK'
      BY TypeStep
    <3>2. \A q \in Requests : req'[q] \in States
      BY <3>1 DEF TypeOK, States
    <3> QED
      BY <3>2 DEF States, Idle, Steps, Held
  <2> QED
    BY <2>1, <2>2 DEF HeldOnce
<1>2. CASE UNCHANGED vars
  BY <1>2 DEF vars, HeldOnce, Held
<1> QED
  BY <1>1, <1>2

LEMMA ObjectStep == ObjectInv /\ [Next]_vars => ObjectInv'
<1> SUFFICES ASSUME ObjectInv, [Next]_vars PROVE ObjectInv'
  OBVIOUS
<1>0. /\ TypeOK /\ HeldOnce /\ RowsAlone /\ ConfirmedAlone /\ CleanedAlone
      /\ InsertsWhatIsThere /\ KnowsItsRow /\ RowHasObject
  BY DEF ObjectInv
<1>1. TypeOK' /\ KnowsItsRow' /\ HeldOnce' /\ raced \subseteq raced'
  BY <1>0, TypeStep, KnowsStep, Noted
(* A key with a row that was inserted while another request held it. *)
<1>2. ASSUME NEW q \in Requests, NEW k, k \in Held(req[q]), ~Insert(q), HasRow(k)', ~HasRow(k)
      PROVE  k \in raced
  <2>1. PICK r \in Requests : Insert(r) /\ req[r].key = k
    BY <1>0, <1>2, NewRows
  <2>2. k \in Held(req[r])
    BY <1>0, <2>1, Carries DEF Insert, Steps
  <2>3. r # q
    BY <1>2, <2>1
  <2> QED
    BY <1>0, <1>2, <2>2, <2>3 DEF HeldOnce
<1>3. RowsAlone'
  <2> SUFFICES ASSUME NEW i \in Ids', NEW j \in Ids', rows'[i].is = "live", rows'[j].is = "live",
                      i # j, rows'[i].key = rows'[j].key
               PROVE  rows'[i].key \in raced'
    BY DEF RowsAlone, Live, Row
  <2>1. CASE /\ i \in Ids /\ Live(i) /\ rows'[i].key = Row(i).key
             /\ j \in Ids /\ Live(j) /\ rows'[j].key = Row(j).key
    BY <1>0, <1>1, <2>1 DEF RowsAlone
  <2>2. ASSUME NEW r \in Requests, Insert(r), NEW n \in Ids, Live(n),
               Row(n).key = rows'[i].key, rows'[i].key = req[r].key
        PROVE  rows'[i].key \in raced'
    <3>1. HasRow(req[r].key)
      BY <2>2 DEF HasRow
    <3> QED
      BY <1>0, <1>1, <2>2, <3>1 DEF ConfirmedAlone, Insert, Steps
  <2>3. /\ \/ i \in Ids /\ Live(i) /\ rows'[i].key = Row(i).key
           \/ \E r \in Requests : Insert(r) /\ i = Len(rows) + 1 /\ rows'[i].key = req[r].key
        /\ \/ j \in Ids /\ Live(j) /\ rows'[j].key = Row(j).key
           \/ \E r \in Requests : Insert(r) /\ j = Len(rows) + 1 /\ rows'[j].key = req[r].key
    BY <1>0, LiveRows
  <2> QED
    BY <2>1, <2>2, <2>3
<1>4. ConfirmedAlone'
  <2> SUFFICES ASSUME NEW q \in Requests, req'[q].at \in Steps, NEW k, k = req'[q].key, HasRow(k)'
               PROVE  k \in raced'
    BY DEF ConfirmedAlone, HasRow, Live, Row
  <2>1. ASSUME req[q].at \in Steps, k = req[q].key, ~Insert(q) PROVE k \in raced'
    <3>1. k \in Held(req[q])
      BY <1>0, <2>1, Carries
    <3> QED
      BY <1>0, <1>1, <1>2, <2>1, <3>1 DEF ConfirmedAlone
  <2>2. CASE req'[q] = req[q]
    <3>1. ~Insert(q)
      BY <1>0, <2>2 DEF Insert, TypeOK, Steps
    <3> QED
      BY <2>1, <2>2, <3>1
  <2>3. CASE Stat(q)
    <3>1. req[q].at \in Steps /\ ~Insert(q)
      BY <2>3 DEF Stat, Insert, Steps
    <3>2. req'[q].key = req[q].key
      BY <1>0, <2>3 DEF Stat, TypeOK, Steps, Idle
    <3> QED
      BY <2>1, <3>1, <3>2
  <2>4. ASSUME NEW l \in Keys, Confirm(q, l) PROVE FALSE
    <3>1. k = l /\ rows' = rows /\ ~HasRow(l)
      BY <1>0, <2>4 DEF Confirm, TypeOK
    <3> QED
      BY <3>1 DEF HasRow, Live, Row, Ids
  <2> QED
    BY <1>0, <2>2, <2>3, <2>4, Moves, Arrives
<1>5. CleanedAlone'
  <2> SUFFICES ASSUME NEW q \in Requests, req'[q].at = "clean", NEW k \in req'[q].todo, HasRow(k)'
               PROVE  k \in raced'
    BY DEF CleanedAlone, HasRow, Live, Row
  <2>1. ASSUME req[q].at = "clean", k \in req[q].todo PROVE k \in raced'
    <3>1. k \in Held(req[q]) /\ ~Insert(q)
      BY <1>0, <2>1, Carries DEF Insert
    <3> QED
      BY <1>0, <1>1, <1>2, <2>1, <3>1 DEF CleanedAlone
  <2>2. ASSUME NEW l \in Keys, Clean(q, l) PROVE k \in req[q].todo /\ req[q].at = "clean"
    <3>1. req'[q] = ToClean(req[q].todo \ {l}) /\ req[q].at = "clean"
      BY <1>0, <2>2 DEF Clean, TypeOK
    <3> QED
      BY <3>1 DEF ToClean, Idle
  <2>3. PICK j \in Ids' : rows'[j].is = "live" /\ rows'[j].key = k
    BY DEF HasRow, Live, Row
  <2>4. CASE Retire(q)
    <3> DEFINE old == Previous(KindOf[req[q].key], req[q].id)
    <3>1. old \in SUBSET Ids /\ \A i \in old : Live(i)
      BY DEF Previous
    <3>2. rows' = [i \in Ids |-> IF i \in old THEN [Row(i) EXCEPT !.is = "retired"] ELSE Row(i)]
      BY <2>4 DEF Retire
    <3>3. req'[q] = ToClean({Row(i).key : i \in old})
      BY <1>0, <2>4 DEF Retire, TypeOK
    <3> HIDE DEF old
    <3>4. PICK i \in old : k = Row(i).key
      BY <3>3 DEF ToClean, Idle
    <3>5. /\ j \in Ids /\ rows'[j].key = Row(j).key
          /\ rows'[j].is = IF j \in old THEN "retired" ELSE Row(j).is
      BY <1>0, <3>1, <3>2, Retired DEF Row
    <3>6. j # i /\ Live(j) /\ Live(i) /\ Row(j).key = Row(i).key
      BY <2>3, <3>1, <3>4, <3>5 DEF Live
    <3> QED
      BY <1>0, <1>1, <3>1, <3>4, <3>5, <3>6 DEF RowsAlone
  <2>5. CASE SoftDelete(q)
    <3> DEFINE n == req[q].id
    <3>1. n \in Ids /\ Row(n).key = req[q].key
      BY <1>0, <2>5 DEF SoftDelete, KnowsItsRow
    <3>2. Live(n)
      BY <1>0, <2>5 DEF SoftDelete, TypeOK, Idle
    <3>3. rows' = [rows EXCEPT ![n].is = "removed"] /\ req'[q] = ToClean({req[q].key})
      BY <1>0, <2>5, <3>2 DEF SoftDelete, TypeOK
    <3>4. k = req[q].key
      BY <3>3 DEF ToClean, Idle
    <3> HIDE DEF n
    <3>5. /\ j \in Ids /\ rows'[j].key = Row(j).key
          /\ rows'[j].is = IF j = n THEN "removed" ELSE Row(j).is
      BY <1>0, <3>1, <3>3, Removed DEF Row
    <3>6. j # n /\ Live(j) /\ Row(j).key = Row(n).key
      BY <2>3, <3>1, <3>4, <3>5 DEF Live
    <3> QED
      BY <1>0, <1>1, <3>1, <3>2, <3>4, <3>5, <3>6 DEF RowsAlone
  <2>6. CASE req'[q] = req[q]
    BY <2>1, <2>6
  <2> QED
    BY <1>0, <2>1, <2>2, <2>4, <2>5, <2>6, Moves, Arrives
(* An object that goes was held by who discards it. *)
<1>6. ASSUME NEW q \in Requests, NEW k \in Keys, k \in Held(req[q]), req[q].at = "insert",
             object'[k] = "none", object[k] # "none"
      PROVE  k \in raced
  <2>1. PICK r \in Requests : (Reject(r) /\ req[r].key = k) \/ Clean(r, k)
    BY <1>0, <1>6, Taken
  <2>2. k \in Held(req[r])
    BY <1>0, <2>1, Carries DEF Reject, Clean, Steps
  <2>3. r # q
    BY <1>6, <2>1 DEF Reject, Clean
  <2> QED
    BY <1>0, <1>6, <2>2, <2>3 DEF HeldOnce
<1>7. InsertsWhatIsThere'
  <2> SUFFICES ASSUME NEW q \in Requests, req'[q].at = "insert", NEW k, k = req'[q].key,
                      object'[k] = "none"
               PROVE  k \in raced'
    BY DEF InsertsWhatIsThere
  <2>1. CASE req'[q] = req[q]
    <3>1. k \in Keys /\ k \in Held(req[q]) /\ req[q].at = "insert" /\ k = req[q].key
      BY <1>0, <2>1, Carries DEF Steps
    <3> QED
      BY <1>0, <1>1, <1>6, <3>1 DEF InsertsWhatIsThere
  <2>2. CASE Stat(q)
    <3>1. req[q].key \in Keys
      BY <1>0, <2>2, Carries DEF Stat, Steps
    <3>2. object[req[q].key] \in {"none", "good", "bad"}
      BY <1>0, <3>1 DEF TypeOK
    <3>3. AfterStat(object[req[q].key]) = "insert" /\ k = req[q].key /\ object' = object
      BY <1>0, <2>2 DEF Stat, TypeOK, Idle
    <3> QED
      BY <3>2, <3>3 DEF AfterStat
  <2> QED
    BY <1>0, <2>1, <2>2, Moves, Arrives
<1>8. RowHasObject'
  <2> SUFFICES ASSUME NEW i \in Ids', rows'[i].is = "live", NEW k, k = rows'[i].key,
                      object'[k] = "none"
               PROVE  k \in raced'
    BY DEF RowHasObject, Live, Row
  <2>1. CASE i \in Ids /\ Live(i) /\ k = Row(i).key
    <3>1. k \in Keys /\ HasRow(k)
      BY <1>0, <2>1, Rows DEF Row, Assets, HasRow
    <3>2. CASE object[k] = "none"
      BY <1>0, <1>1, <2>1, <3>2 DEF RowHasObject
    <3>3. CASE object[k] # "none"
      <4>1. PICK r \in Requests : (Reject(r) /\ req[r].key = k) \/ Clean(r, k)
        BY <1>0, <3>1, <3>3, Taken
      <4>2. CASE Reject(r) /\ req[r].key = k
        BY <1>0, <1>1, <3>1, <4>2 DEF ConfirmedAlone, Reject, Steps
      <4>3. CASE Clean(r, k)
        BY <1>0, <1>1, <3>1, <4>3 DEF CleanedAlone, Clean
      <4> QED
        BY <4>1, <4>2, <4>3
    <3> QED
      BY <3>2, <3>3
  <2>2. ASSUME NEW r \in Requests, Insert(r), k = req[r].key PROVE k \in raced'
    BY <1>0, <1>1, <2>2 DEF InsertsWhatIsThere, Insert
  <2> QED
    BY <1>0, <2>1, <2>2, LiveRows
<1> QED
  BY <1>1, <1>3, <1>4, <1>5, <1>7, <1>8 DEF ObjectInv

-----------------------------------------------------------------------------
(* The image shown.  A row that is new was inserted; one that is retired was     *)
(* there for who had just inserted another of its kind.                      *)
LEMMA Grows ==
    ASSUME TypeOK, KnowsItsRow, [Next]_vars, NEW i \in Ids', i \notin Ids
    PROVE  \E r \in Requests :
              Insert(r) /\ i = Len(rows) + 1 /\ rows'[i] = [key |-> req[r].key, is |-> "live"]
<1>1. ASSUME NEW r \in Requests, Insert(r)
      PROVE  i = Len(rows) + 1 /\ rows'[i] = [key |-> req[r].key, is |-> "live"]
  <2>1. req[r].key \in Keys
    BY <1>1, Carries DEF Insert, Steps
  <2> QED
    BY <1>1, <2>1, Added DEF Insert
<1>2. ASSUME NEW r \in Requests, Retire(r) PROVE FALSE
  <2> DEFINE old == Previous(KindOf[req[r].key], req[r].id)
  <2>1. old \in SUBSET Ids
    BY DEF Previous
  <2>2. rows' = [n \in Ids |-> IF n \in old THEN [Row(n) EXCEPT !.is = "retired"] ELSE Row(n)]
    BY <1>2 DEF Retire
  <2> HIDE DEF old
  <2> QED
    BY <2>1, <2>2, Retired
<1>3. ASSUME NEW r \in Requests, SoftDelete(r) PROVE FALSE
  <2>1. req[r].id \in Ids
    BY <1>3 DEF SoftDelete, KnowsItsRow
  <2>2. rows' = rows \/ rows' = [rows EXCEPT ![req[r].id].is = "removed"]
    BY <1>3 DEF SoftDelete
  <2>3. CASE rows' = rows
    BY <2>3 DEF Ids
  <2>4. CASE rows' = [rows EXCEPT ![req[r].id].is = "removed"]
    BY <2>1, <2>4, Removed
  <2> QED
    BY <2>2, <2>3, <2>4
<1>4. rows' # rows
  BY DEF Ids
<1> QED
  BY <1>1, <1>2, <1>3, <1>4
     DEF Next, Step, UploadUrl, UrlExpires, Put, Confirm, Clean, Stat, Reject, Dies,
         RemoveAsset, RemoveGame, vars

LEMMA RetiredBy ==
    ASSUME TypeOK, KnowsItsRow, [Next]_vars, NEW i \in Ids,
           rows'[i].is = "retired", Row(i).is # "retired"
    PROVE  \E r \in Requests : Retire(r) /\ i \in Previous(KindOf[req[r].key], req[r].id)
<1>1. ASSUME NEW r \in Requests, Insert(r) PROVE FALSE
  <2>1. req[r].key \in Keys
    BY <1>1, Carries DEF Insert, Steps
  <2> QED
    BY <1>1, <2>1, Added DEF Insert, Row
<1>2. ASSUME NEW r \in Requests, Retire(r) PROVE i \in Previous(KindOf[req[r].key], req[r].id)
  <2> DEFINE old == Previous(KindOf[req[r].key], req[r].id)
  <2>1. old \in SUBSET Ids
    BY DEF Previous
  <2>2. rows' = [n \in Ids |-> IF n \in old THEN [Row(n) EXCEPT !.is = "retired"] ELSE Row(n)]
    BY <1>2 DEF Retire
  <2> HIDE DEF old
  <2>3. i \in old
    BY <2>1, <2>2, Retired DEF Row
  <2> QED
    BY <2>3 DEF old
<1>3. ASSUME NEW r \in Requests, SoftDelete(r) PROVE FALSE
  <2>1. req[r].id \in Ids
    BY <1>3 DEF SoftDelete, KnowsItsRow
  <2>2. rows' = rows \/ rows' = [rows EXCEPT ![req[r].id].is = "removed"]
    BY <1>3 DEF SoftDelete
  <2>3. rows' # rows
    BY DEF Row
  <2>4. rows'[i].is = IF i = req[r].id THEN "removed" ELSE Row(i).is
    BY <2>1, <2>2, <2>3, Removed DEF Row
  <2> QED
    BY <2>4
<1>4. rows' # rows
  BY DEF Row
<1> QED
  BY <1>1, <1>2, <1>3, <1>4
     DEF Next, Step, UploadUrl, UrlExpires, Put, Confirm, Clean, Stat, Reject, Dies,
         RemoveAsset, RemoveGame, vars

(* A clash is over with an insert that no other confirmation can retire. *)
LEMMA ClashEnds ==
    ASSUME [Next]_vars, NEW kind \in clash, kind \notin clash'
    PROVE  \E r \in Requests : Insert(r) /\ KindOf[req[r].key] = kind /\ Retiring(kind) = {}
BY DEF Next, Step, UploadUrl, UrlExpires, Put, Confirm, Clean, Stat, Reject, Insert, Retire,
       SoftDelete, Dies, RemoveAsset, RemoveGame, vars

LEMMA ShownStep == ShownInv /\ [Next]_vars => ShownInv'
<1> SUFFICES ASSUME ShownInv, [Next]_vars PROVE ShownInv'
  OBVIOUS
<1>0. TypeOK /\ KnowsItsRow /\ RetiresForLast /\ LastStands
  BY DEF ShownInv
<1>1. TypeOK' /\ KnowsItsRow'
  BY <1>0, TypeStep, KnowsStep
<1>2. Ids \subseteq Ids' /\ \A i \in Ids : rows'[i].key = rows[i].key
  BY <1>0, RowsStay DEF Row
<1>3. Len(rows) \in Nat /\ Ids = 1..Len(rows)
  BY <1>0, Rows
<1>4. RetiresForLast'
  <2> SUFFICES ASSUME NEW q \in Requests, req'[q].at = "retire",
                      NEW kind, kind = KindOf[req'[q].key], kind \in Unique, kind \notin clash',
                      NEW j \in Ids', KindOf[rows'[j].key] = kind
               PROVE  j <= req'[q].id
    BY DEF RetiresForLast, OfKind, KindAt, Row
  <2>1. CASE req'[q] = req[q] /\ j \in Ids
    <3>1. j \in OfKind(kind)
      BY <1>2, <2>1 DEF OfKind, KindAt, Row
    <3>2. kind \notin clash
      <4>1. q \in Retiring(kind)
        BY <2>1 DEF Retiring
      <4> QED
        BY <4>1, ClashEnds
    <3> QED
      BY <1>0, <2>1, <3>1, <3>2 DEF RetiresForLast
  <2>2. CASE req'[q] = req[q] /\ j \notin Ids
    <3>1. PICK r \in Requests :
             Insert(r) /\ j = Len(rows) + 1 /\ rows'[j] = [key |-> req[r].key, is |-> "live"]
      BY <1>0, <2>2, Grows
    <3>2. q \in Retiring(kind) /\ KindOf[req[r].key] = kind
      BY <2>2, <3>1 DEF Retiring
    <3>3. kind \in clash'
      BY <3>1, <3>2 DEF Insert
    <3> QED
      BY <3>3
  <2>3. CASE Insert(q)
    <3>1. req'[q].id = Len(rows) + 1
      BY <1>0, <2>3 DEF Insert, TypeOK
    <3>2. j \in Ids \/ j = Len(rows) + 1
      BY <1>0, Grows
    <3> QED
      BY <1>3, <3>1, <3>2
  <2> QED
    BY <1>0, <2>1, <2>2, <2>3, Moves, Arrives
<1>5. LastStands'
  <2> SUFFICES ASSUME NEW kind \in Unique, kind \notin clash', NEW i \in Ids',
                      KindOf[rows'[i].key] = kind,
                      \A j \in Ids' : KindOf[rows'[j].key] = kind => j <= i,
                      rows'[i].is = "retired"
               PROVE  FALSE
    BY DEF LastStands, OfKind, KindAt, Row
  <2>1. i \in Ids
    <3>1. ASSUME i \notin Ids PROVE FALSE
      <4>1. \E k : rows'[i] = [key |-> k, is |-> "live"]
        BY <1>0, <3>1, Grows
      <4>2. rows'[i].is = "live"
        BY <4>1
      <4> QED
        BY <4>2
    <3> QED
      BY <3>1
  <2>2. i \in OfKind(kind) /\ \A j \in OfKind(kind) : j <= i
    BY <1>2, <2>1 DEF OfKind, KindAt, Row
  <2>9. kind \notin clash
    <3> SUFFICES ASSUME kind \in clash PROVE FALSE
      OBVIOUS
    <3>1. PICK r \in Requests : Insert(r) /\ KindOf[req[r].key] = kind
      BY ClashEnds
    <3>2. Len(rows) + 1 \in Ids' /\ KindOf[rows'[Len(rows) + 1].key] = kind
      BY <3>1, <1>0, <1>3, Rows DEF Insert, Ids
    <3> QED
      BY <1>3, <2>1, <3>2
  <2>3. Row(i).is # "retired"
    BY <1>0, <2>2, <2>9 DEF LastStands
  <2>4. PICK r \in Requests : Retire(r) /\ i \in Previous(KindOf[req[r].key], req[r].id)
    BY <1>0, <2>1, <2>3, RetiredBy
  <2>5. KindOf[req[r].key] = kind /\ i # req[r].id /\ req[r].at = "retire"
    BY <2>2, <2>4 DEF Previous, Retire, OfKind
  <2>6. i <= req[r].id
    BY <1>0, <2>2, <2>5, <2>9 DEF RetiresForLast
  <2>7. req[r].id \in OfKind(kind)
    BY <1>0, <2>5 DEF KnowsItsRow, OfKind, KindAt
  <2>8. req[r].id \in Nat /\ i \in Nat /\ req[r].id <= i
    BY <1>3, <2>1, <2>2, <2>7 DEF OfKind
  <2> QED
    BY <2>5, <2>6, <2>8
<1> QED
  BY <1>1, <1>4, <1>5 DEF ShownInv

(* Of some rows, one is the last. *)
LEMMA HasLatest ==
    ASSUME NEW n \in Nat, NEW S \in SUBSET (1..n), S # {}
    PROVE  \E i \in S : \A j \in S : j <= i
<1> DEFINE R == OpToRel(<, Nat)
<1>1. IsWellFoundedOn(R, Nat) /\ \A x, y \in Nat : y < x => <<y, x>> \in R
  <2>1. IsWellFoundedOn(R, Nat)
    BY NatLessThanWellFounded
  <2>2. \A x, y \in Nat : y < x => <<y, x>> \in R
    BY DEF OpToRel
  <2> QED
    BY <2>1, <2>2
<1> HIDE DEF R
<1> DEFINE T == {n - i : i \in S}
<1>2. T \subseteq Nat /\ T # {}
  <2>1. \A i \in S : i \in Nat /\ i <= n /\ n - i \in Nat
    OBVIOUS
  <2>2. PICK i \in S : TRUE
    OBVIOUS
  <2>3. n - i \in T
    BY <2>2
  <2> QED
    BY <2>1, <2>3
<1>4. PICK x \in T : \A y \in T : ~(<<y, x>> \in R)
  BY <1>1, <1>2, WFMin
<1>5. \A y \in T : ~(y < x)
  BY <1>1, <1>2, <1>4
<1>6. PICK i \in S : x = n - i
  BY <1>4
<1>7. \A j \in S : ~(n - j < n - i)
  BY <1>5, <1>6
<1> QED
  BY <1>6, <1>7

(* What stands is what is shown: the rows of a kind have a last one, and if it   *)
(* is live it is the last of the live ones.                                  *)
LEMMA ShownFollows == ShownInv => ShownIsLatest
<1> SUFFICES ASSUME ShownInv, NEW kind \in Unique, OfKind(kind) # {}, kind \notin clash
             PROVE  LET last == Latest(OfKind(kind))
                    IN Row(last).is = "removed" \/ Shown(kind) = last
  BY DEF ShownIsLatest
<1>1. Len(rows) \in Nat /\ Ids = 1..Len(rows) /\ \A i \in Ids : rows[i] \in Assets
  BY Rows DEF ShownInv
<1>2. OfKind(kind) \in SUBSET (1..Len(rows))
  BY <1>1 DEF OfKind
<1>3. PICK last \in OfKind(kind) : \A j \in OfKind(kind) : j <= last
  BY <1>1, <1>2, HasLatest
<1>4. \A S \in SUBSET OfKind(kind) : last \in S => Latest(S) = last
  <2> SUFFICES ASSUME NEW S \in SUBSET OfKind(kind), last \in S PROVE Latest(S) = last
    OBVIOUS
  <2>1. \A i \in S : (\A j \in S : j <= i) <=> i = last
    BY <1>1, <1>2, <1>3
  <2> QED
    BY <2>1 DEF Latest
<1>5. Latest(OfKind(kind)) = last
  BY <1>4
<1>6. Row(last).is \in {"live", "removed"}
  <2>1. Row(last).is # "retired"
    BY <1>3 DEF ShownInv, LastStands
  <2>2. Row(last).is \in {"live", "retired", "removed"}
    BY <1>1, <1>2, <1>3 DEF Row, Assets
  <2> QED
    BY <2>1, <2>2
<1>7. CASE Row(last).is = "live"
  <2> DEFINE live == {i \in OfKind(kind) : Live(i)}
  <2>1. last \in live /\ live \in SUBSET OfKind(kind)
    BY <1>7 DEF Live
  <2>2. Shown(kind) = Latest(live)
    BY <2>1 DEF Shown
  <2> HIDE DEF live
  <2>3. Shown(kind) = last
    BY <1>4, <2>1, <2>2
  <2> QED
    BY <1>5, <2>3
<1> QED
  BY <1>5, <1>6, <1>7

-----------------------------------------------------------------------------
(* At the start there is no row and nobody at work. *)
LEMMA InvInit == Init => ObjectInv /\ ShownInv
<1> SUFFICES ASSUME Init PROVE ObjectInv /\ ShownInv
  OBVIOUS
<1>1. TypeOK
  BY TypeInit
<1>2. Ids = {} /\ \A q \in Requests : req[q] = Idle
  BY DEF Init, Ids
<1>3. \A q \in Requests : req[q].at = "idle" /\ Held(req[q]) = {}
  BY <1>2 DEF Idle, Held
<1> QED
  BY <1>1, <1>2, <1>3
     DEF ObjectInv, ShownInv, HeldOnce, RowsAlone, ConfirmedAlone, CleanedAlone, HasRow,
         InsertsWhatIsThere, KnowsItsRow, RowHasObject, RetiresForLast, LastStands, OfKind, Steps

(* Every variable of the confirmations, retirements and removals keeps its type. *)
THEOREM AssetTypes == Spec => []TypeOK
<1>1. ObjectInv => TypeOK
  BY DEF ObjectInv
<1> QED
  BY <1>1, InvInit, ObjectStep, PTL DEF Spec

(* An image that is listed has its object in storage, unless two requests were  *)
(* at work on its key at a time: confirmAsset inserts after storage answered, *)
(* and every removal of an object follows that of its row.                   *)
THEOREM ListedHasObject == Spec => []RowHasObject
<1>1. ObjectInv => RowHasObject
  BY DEF ObjectInv
<1> QED
  BY <1>1, InvInit, ObjectStep, PTL DEF Spec

(* The cover confirmed last is the one the card shows until the studio removes   *)
(* it, unless it inserted its row before another one had retired.            *)
THEOREM CardShowsLatest == Spec => []ShownIsLatest
BY InvInit, ShownStep, ShownFollows, PTL DEF Spec
===============================================================================
